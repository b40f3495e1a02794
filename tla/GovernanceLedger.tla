--------------------------- MODULE GovernanceLedger ---------------------------
(***************************************************************************)
(* The write-once governance audit log (table governance_audit_logs) and   *)
(* the append protocol of append_governance_log and _append_worm_log.      *)
(*                                                                         *)
(* A request runs in a database transaction of its own, at PostgreSQL's    *)
(* default READ COMMITTED isolation:                                       *)
(*   OpenSession  take a connection of the pool and open a transaction;    *)
(*   AppendEntry  SELECT the newest committed entry, hash it into the new  *)
(*                entry, db.add (the session does not autoflush);          *)
(*   Flush        the INSERT that db.commit() issues first; the column     *)
(*                default stamps created_at now;                           *)
(*   Commit       the row becomes visible to every other request;          *)
(*   RollBack     an error, a dropped connection or a crash before Commit. *)
(* Nothing locks the tip between AppendEntry and Commit.                   *)
(*                                                                         *)
(* A request writes one entry, so the request names the entry and its      *)
(* hash: SHA-256 is taken to be injective.  The clock moves by at least    *)
(* one tick over a commit (a round trip to the server outlasts the         *)
(* microsecond created_at is stored in); two INSERTs between commits may   *)
(* carry the same stamp.                                                   *)
(***************************************************************************)
EXTENDS Integers, FiniteSets

CONSTANTS
  Requests,     \* the requests that append an entry
  GENESIS,      \* previous_hash of an entry appended to an empty log
  MaxInFlight   \* connections of the pool: transactions open at one time

ASSUME GenesisAssumption == GENESIS \notin Requests
ASSUME PoolAssumption == MaxInFlight \in Nat \ {0}

VARIABLES
  pc,             \* the stage of each request's transaction
  previous_hash,  \* the column of the request's row
  created_at,     \* the column of the request's row
  clock,          \* wall clock, in microseconds
  seen            \* history: the entries committed when the tip was read

vars == <<pc, previous_hash, created_at, clock, seen>>

Stages == {"new", "open", "built", "flushed", "committed", "rolled_back"}

Committed == {r \in Requests : pc[r] = "committed"}
InFlight == {r \in Requests : pc[r] \in {"open", "built", "flushed"}}

Newest(S) == {r \in S : \A q \in S : created_at[q] <= created_at[r]}

-------------------------------------------------------------------------------
\* Faulty variants of the definitions below.

\* uncommitted rows are visible to the SELECT
TipsDirtyRead ==
  LET visible == {r \in Requests : pc[r] \in {"flushed", "committed"}}
  IN IF visible = {} THEN {GENESIS} ELSE Newest(visible)

\* ORDER BY created_at without DESC
TipsOldestFirst ==
  IF Committed = {} THEN {GENESIS}
  ELSE {r \in Committed : \A q \in Committed : created_at[r] <= created_at[q]}

\* default=datetime.now(utc) without the lambda: evaluated once, at import
FlushStampedAtImport(r) ==
  /\ pc[r] = "built"
  /\ created_at' = [created_at EXCEPT ![r] = 0]
  /\ pc' = [pc EXCEPT ![r] = "flushed"]
  /\ UNCHANGED <<previous_hash, clock, seen>>

-------------------------------------------------------------------------------
Init ==
  /\ pc = [r \in Requests |-> "new"]
  /\ previous_hash = [r \in Requests |-> GENESIS]
  /\ created_at = [r \in Requests |-> 0]
  /\ clock = 0
  /\ seen = [r \in Requests |-> {}]

\* The rows SELECT ... ORDER BY created_at DESC LIMIT 1 may return.
Tips == IF Committed = {} THEN {GENESIS} ELSE Newest(Committed)

\* The dependency get_async_db: its set_config opens the transaction.
OpenSession(r) ==
  /\ pc[r] = "new"
  /\ Cardinality(InFlight) < MaxInFlight
  /\ pc' = [pc EXCEPT ![r] = "open"]
  /\ UNCHANGED <<previous_hash, created_at, clock, seen>>

\* Read the tip, hash it into the new entry, add the row to the session.
AppendEntry(r) ==
  /\ pc[r] = "open"
  /\ \E tip \in Tips :
       previous_hash' = [previous_hash EXCEPT ![r] = tip]
  /\ seen' = [seen EXCEPT ![r] = Committed]
  /\ pc' = [pc EXCEPT ![r] = "built"]
  /\ UNCHANGED <<created_at, clock>>

Flush(r) ==
  /\ pc[r] = "built"
  /\ \E now \in {clock, clock + 1} :
       /\ created_at' = [created_at EXCEPT ![r] = now]
       /\ clock' = now
  /\ pc' = [pc EXCEPT ![r] = "flushed"]
  /\ UNCHANGED <<previous_hash, seen>>

Commit(r) ==
  /\ pc[r] = "flushed"
  /\ pc' = [pc EXCEPT ![r] = "committed"]
  /\ clock' = clock + 1
  /\ UNCHANGED <<previous_hash, created_at, seen>>

\* The session is closed before its commit went through.
RollBack(r) ==
  /\ r \in InFlight
  /\ pc' = [pc EXCEPT ![r] = "rolled_back"]
  /\ UNCHANGED <<previous_hash, created_at, clock, seen>>

Next ==
  \E r \in Requests :
    \/ OpenSession(r) \/ AppendEntry(r) \/ Flush(r) \/ Commit(r) \/ RollBack(r)

Spec == Init /\ [][Next]_vars

-------------------------------------------------------------------------------
\* Every variable has its type.
TypeOK ==
  /\ pc \in [Requests -> Stages]
  /\ previous_hash \in [Requests -> Requests \cup {GENESIS}]
  /\ created_at \in [Requests -> Nat]
  /\ clock \in Nat
  /\ seen \in [Requests -> SUBSET Requests]

\* An entry never names a row that was rolled back or is still uncommitted:
\* the SELECT of append_governance_log runs at READ COMMITTED.
PredecessorsCommitted ==
  \A r \in Requests : previous_hash[r] \in Committed \cup {GENESIS}

\* Following previous_hash goes strictly back in time, so the log has no
\* cycle and every walk from an entry ends at GENESIS, although no constraint
\* of the table says so.
StampsFollowPredecessors ==
  \A r \in Requests :
    /\ pc[r] \in {"flushed", "committed"}
    /\ previous_hash[r] # GENESIS
    => created_at[previous_hash[r]] < created_at[r]

\* The log forks only between requests that overlapped: if two committed
\* entries name one predecessor, neither was committed when the other read
\* the tip.
ForksAreConcurrent ==
  \A q, r \in Committed :
    q # r /\ previous_hash[q] = previous_hash[r] => q \notin seen[r]

\* The log is a chain: no two committed entries name the same predecessor.
NoFork ==
  \A q, r \in Committed : previous_hash[q] = previous_hash[r] => q = r

\* The log as the abstract specifications see it.
Entries == {[id |-> r, parent |-> previous_hash[r]] : r \in Committed}

Tree == INSTANCE HashTree WITH Ids <- Requests, entries <- Entries

\* Under any load the log is a write-once tree rooted at GENESIS.
RefinesTree == Tree!Spec

Tip == IF Committed = {} THEN GENESIS
       ELSE CHOOSE r \in Committed : r \in Newest(Committed)

Chain == INSTANCE HashChain
           WITH Ids <- Requests, entries <- Entries, tip <- Tip

\* With one transaction open at a time the log is the hash chain its name
\* promises: every entry extends the entry committed just before it.
RefinesChain == Chain!Spec

===============================================================================
