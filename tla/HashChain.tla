------------------------------ MODULE HashChain -------------------------------
(***************************************************************************)
(* What the name "hash chain" promises: a log with one tip, where every    *)
(* new entry names the tip as its predecessor and becomes the tip.         *)
(***************************************************************************)
CONSTANTS
  Ids,      \* the entries that may ever be written
  GENESIS   \* the tip of the empty chain

VARIABLES
  entries,  \* the chain: a set of [id, parent] records
  tip       \* the entry written last

Init == entries = {} /\ tip = GENESIS

Append(id) ==
  /\ \A e \in entries : e.id # id
  /\ entries' = entries \cup {[id |-> id, parent |-> tip]}
  /\ tip' = id

Next == \E id \in Ids : Append(id)

Spec == Init /\ [][Next]_<<entries, tip>>

===============================================================================
