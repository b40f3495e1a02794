------------------------ MODULE ExceptionStateMachine -------------------------
(***************************************************************************)
(* The life of an audit exception as the docstring of transition_exception *)
(* draws it: what a reader of the record relies on.                        *)
(***************************************************************************)
VARIABLE state   \* "none" before the exception is raised

Successors ==
  [none                    |-> {"open"},
   open                    |-> {"acknowledged", "accepted_risk"},
   acknowledged            |-> {"remediation_in_progress", "accepted_risk"},
   remediation_in_progress |-> {"remediated"},
   remediated              |-> {"closed"},
   accepted_risk           |-> {"closed"},
   closed                  |-> {}]

Init == state = "none"

Next == state' \in Successors[state]

Spec == Init /\ [][Next]_state

===============================================================================
