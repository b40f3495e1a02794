-------------------------- MODULE MCFindingsWorkflow --------------------------
(***************************************************************************)
(* Three requests: together, so that one handler holds a stale row while   *)
(* two others commit; and one at a time, with two owners.                  *)
(***************************************************************************)
EXTENDS FindingsWorkflow

CONSTANT First  \* the owner that is alone when requests overlap

VARIABLE serial

MCInit ==
  /\ Init
  /\ serial \in BOOLEAN
  /\ ~serial => \A r \in Requests : call[r].owner \in {First, NoOwner}

MCNext ==
  /\ Next
  /\ UNCHANGED serial
  /\ serial => Cardinality(L!InFlight') <= 1

MCSpec ==
  /\ MCInit /\ [][MCNext]_<<vars, serial>>
  /\ \A r \in Requests : WF_vars(Handle(r))

\* One request at a time: the status of the finding is the stage its last
\* workflow log row moved to.
SerialStatusIsLastStage == serial => StatusIsLastStage

Chain == INSTANCE HashChain
           WITH Ids <- Requests,
                entries <- IF serial THEN L!Entries ELSE {},
                tip <- IF serial THEN L!Tip ELSE GENESIS

\* One request at a time: what the handlers append is a hash chain with one
\* tip, in the order of the commits.
SerialRefinesChain == Chain!Spec
===============================================================================
