--------------------------- MODULE MCEvidenceVault ----------------------------
(***************************************************************************)
(* Two kinds of runs: a task that is repeated beside a submission that is  *)
(* not, and the dashboard, within an hour in which the payloads of the     *)
(* first two records are edited; and a task alone, with one fault, over    *)
(* the hours it takes a record to leave the window of the sweep, with      *)
(* every edit of the first record and edits of the second one's payload.   *)
(***************************************************************************)
EXTENDS EvidenceVault

CONSTANTS p, pKeysMoved, q   \* two payloads, one with two orders of its keys

MCcanonical == [payload \in Payloads |-> IF payload = q THEN "q" ELSE "p"]
MCraw_payload == [t \in Writers |-> p]

VARIABLE kind

MCInit == Init /\ kind \in {"writers", "hours"}

MCNext ==
  /\ Next
  /\ UNCHANGED kind
  /\ kind = "writers" =>
       /\ hour' = hour
       /\ \A i \in DOMAIN records : i <= 2 \/ records'[i].broken_in = records[i].broken_in
  /\ kind = "hours" =>
       /\ faults' <= 1 /\ ~Heartbeat /\ ~Summarise
       /\ \A c \in Submissions : writer'[c] = writer[c]
  /\ \A i \in DOMAIN records :
       kind = "writers" \/ i > 1 => /\ records'[i].content_hash = records[i].content_hash
                                   /\ records'[i].metadata_json # pKeysMoved

MCSpec ==
  /\ MCInit /\ [][MCNext]_<<vars, kind>>
  /\ \A t \in Tasks : WF_vars(Write(t))
===============================================================================
