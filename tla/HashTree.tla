------------------------------- MODULE HashTree -------------------------------
(***************************************************************************)
(* What the governance audit log promises whatever the load: a write-once  *)
(* set of entries in which every entry names, by its hash, either GENESIS  *)
(* or an entry that was already there.  Entries are never changed and      *)
(* never removed.  The result is a tree rooted at GENESIS.                 *)
(***************************************************************************)
CONSTANTS
  Ids,      \* the entries that may ever be written
  GENESIS   \* the predecessor of an entry written to an empty log

VARIABLE entries   \* the log: a set of [id, parent] records

Init == entries = {}

Append(id, parent) ==
  /\ \A e \in entries : e.id # id
  /\ parent = GENESIS \/ \E e \in entries : e.id = parent
  /\ entries' = entries \cup {[id |-> id, parent |-> parent]}

Next == \E id \in Ids, parent \in Ids \cup {GENESIS} : Append(id, parent)

Spec == Init /\ [][Next]_entries

===============================================================================
