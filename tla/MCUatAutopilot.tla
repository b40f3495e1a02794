---------------------------- MODULE MCUatAutopilot ----------------------------
(***************************************************************************)
(* Two kinds of runs: one session of two cycles with every other endpoint, *)
(* where two patches take the tester from no retries to v2; and two        *)
(* sessions of one cycle each, with the stop endpoint.                     *)
(***************************************************************************)
EXTENDS UatAutopilot

CONSTANT First  \* the session that is alone

VARIABLE kind

\* With two sessions, earlier reports and patches make no difference.
MCInit ==
  /\ Init
  /\ kind \in {"one session", "two sessions"}
  /\ kind = "two sessions" => target = "original" /\ report.kind = "unsupported"

OneSession ==
  /\ Next
  /\ \A s \in Sessions : loop'[s].pc # "idle" => s = First /\ loop'[s].max_cycles = 2

TwoSessions ==
  /\ \/ \E s \in Sessions : StartCheck(s) \/ StartAutopilot(s) \/ Thread(s)
     \/ \E c \in Calls : StopAutopilot(c)
     \/ \E p \in DOMAIN procs : ProcessEnds(p)
  /\ report'.kind \in {"unsupported", "disconnects"}
  /\ \A s \in Sessions :
       loop'[s].pc # "idle" => loop'[s].mode = "apply" /\ loop'[s].max_cycles = 1

MCNext ==
  /\ UNCHANGED kind
  /\ \/ kind = "one session" /\ OneSession
     \/ kind = "two sessions" /\ TwoSessions

MCSpec ==
  /\ MCInit /\ [][MCNext]_<<vars, kind>>
  /\ \A s \in Sessions : WF_vars(Thread(s))
===============================================================================
