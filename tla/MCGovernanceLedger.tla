-------------------------- MODULE MCGovernanceLedger --------------------------
(* Four requests are enough for a fork, a late committer that the next      *)
(* reader does not see as newest, and a reader after both.                  *)
EXTENDS GovernanceLedger, TLC

Symmetry == Permutations(Requests)
===============================================================================
