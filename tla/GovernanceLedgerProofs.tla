------------------------ MODULE GovernanceLedgerProofs ------------------------
(***************************************************************************)
(* Theorems about GovernanceLedger, for any set of requests and any size   *)
(* of the connection pool.  The inductive invariant says what a request    *)
(* still knows, when it commits, about the log it read: its tip was the    *)
(* newest of the entries it saw, and every stamp lies behind the clock.    *)
(***************************************************************************)
EXTENDS GovernanceLedger, FiniteSetTheorems, TLAPS

\* The tip a request holds: none of the entries it saw is newer.
TipWasNewest ==
  \A r \in Requests :
    /\ seen[r] \subseteq Committed
    /\ previous_hash[r] = GENESIS => seen[r] = {}
    /\ previous_hash[r] # GENESIS =>
         /\ previous_hash[r] \in seen[r]
         /\ \A q \in seen[r] : created_at[q] <= created_at[previous_hash[r]]

\* A stamp never runs ahead of the clock, and a commit moves the clock on.
ClockAhead ==
  /\ \A r \in Requests : created_at[r] <= clock
  /\ \A r \in Committed : created_at[r] < clock

IInv == TypeOK /\ TipWasNewest /\ ClockAhead /\ StampsFollowPredecessors

-------------------------------------------------------------------------------
\* The empty log satisfies the invariant.
LEMMA InitInv == Init => IInv
BY GenesisAssumption
   DEF Init, IInv, TypeOK, TipWasNewest, ClockAhead, StampsFollowPredecessors,
       Committed, Stages

\* Every step of a request keeps the types.
LEMMA TypeStep == TypeOK /\ [Next]_vars => TypeOK'
<1> SUFFICES ASSUME TypeOK, [Next]_vars PROVE TypeOK'
  OBVIOUS
<1> USE DEF TypeOK, Stages
<1>1. ASSUME NEW r \in Requests, AppendEntry(r) PROVE TypeOK'
  BY <1>1 DEF AppendEntry, Tips, Newest, Committed
<1>2. ASSUME NEW r \in Requests, Flush(r) PROVE TypeOK'
  BY <1>2 DEF Flush
<1>3. ASSUME NEW r \in Requests, Commit(r) PROVE TypeOK'
  BY <1>3 DEF Commit
<1>4. ASSUME NEW r \in Requests, RollBack(r) PROVE TypeOK'
  BY <1>4 DEF RollBack
<1>5. ASSUME NEW r \in Requests, OpenSession(r) PROVE TypeOK'
  BY <1>5 DEF OpenSession
<1>6. CASE UNCHANGED vars
  BY <1>6 DEF vars
<1> QED
  BY <1>1, <1>2, <1>3, <1>4, <1>5, <1>6 DEF Next

\* No step takes an entry out of the log, or changes a committed row.
LEMMA LogGrows ==
  ASSUME TypeOK, [Next]_vars
  PROVE  /\ Committed \subseteq Committed'
         /\ \A r \in Committed : /\ previous_hash'[r] = previous_hash[r]
                                 /\ created_at'[r] = created_at[r]
                                 /\ seen'[r] = seen[r]
BY DEF TypeOK, Next, vars, Committed, InFlight, OpenSession, AppendEntry, Flush,
       Commit, RollBack

\* Every step of a request, a rollback included, keeps the invariant.
LEMMA InvStep == IInv /\ [Next]_vars => IInv'
<1> SUFFICES ASSUME IInv, [Next]_vars PROVE IInv'
  OBVIOUS
<1>1. TypeOK'
  BY TypeStep DEF IInv
<1>2. ASSUME NEW r \in Requests, AppendEntry(r) PROVE IInv'
  <2>1. PICK tip \in Tips :
          previous_hash' = [previous_hash EXCEPT ![r] = tip]
    BY <1>2 DEF AppendEntry
  <2>2. Committed' = Committed
    BY <1>2 DEF AppendEntry, Committed, IInv, TypeOK
  <2>3. TipWasNewest'
    <3>1. CASE Committed = {}
      BY <1>2, <2>1, <2>2, <3>1
         DEF AppendEntry, Tips, TipWasNewest, IInv, TypeOK
    <3>2. CASE Committed # {}
      <4>1. tip \in Committed /\ tip # GENESIS
        BY <2>1, <3>2, GenesisAssumption DEF Tips, Newest, Committed
      <4>2. \A q \in Committed : created_at[q] <= created_at[tip]
        BY <2>1, <3>2 DEF Tips, Newest
      <4> QED
        BY <1>2, <2>1, <2>2, <4>1, <4>2
           DEF AppendEntry, TipWasNewest, IInv, TypeOK
    <3> QED
      BY <3>1, <3>2
  <2>4. ClockAhead'
    BY <1>2, <2>2 DEF AppendEntry, ClockAhead, IInv
  <2>5. StampsFollowPredecessors'
    BY <1>2, <2>1 DEF AppendEntry, StampsFollowPredecessors, IInv, TypeOK
  <2> QED
    BY <1>1, <2>3, <2>4, <2>5 DEF IInv
<1>3. ASSUME NEW r \in Requests, Flush(r) PROVE IInv'
  <2>1. PICK now \in {clock, clock + 1} :
          created_at' = [created_at EXCEPT ![r] = now] /\ clock' = now
    BY <1>3 DEF Flush
  <2>2. Committed' = Committed /\ r \notin Committed
    BY <1>3 DEF Flush, Committed, IInv, TypeOK
  <2>3. TipWasNewest'
    <3>1. \A q \in Committed : created_at'[q] = created_at[q]
      BY <2>1, <2>2 DEF IInv, TypeOK, Committed
    <3> QED
      BY <1>3, <2>2, <3>1 DEF Flush, TipWasNewest, IInv, TypeOK
  <2>4. ClockAhead'
    BY <2>1, <2>2 DEF ClockAhead, IInv, TypeOK, Committed
  <2>5. StampsFollowPredecessors'
    <3> SUFFICES ASSUME NEW q \in Requests, pc'[q] \in {"flushed", "committed"},
                        previous_hash[q] # GENESIS
                 PROVE  created_at'[previous_hash[q]] < created_at'[q]
      BY <1>3 DEF Flush, StampsFollowPredecessors
    <3>2. previous_hash[q] \in Committed /\ previous_hash[q] \in Requests
      BY DEF IInv, TipWasNewest, Committed
    <3>3. created_at'[previous_hash[q]] = created_at[previous_hash[q]]
      BY <2>1, <2>2, <3>2 DEF IInv, TypeOK
    <3>4. CASE q = r
      BY <2>1, <3>2, <3>3, <3>4 DEF IInv, TypeOK, ClockAhead
    <3>5. CASE q # r
      BY <1>3, <2>1, <3>3, <3>5
         DEF Flush, IInv, TypeOK, StampsFollowPredecessors
    <3> QED
      BY <3>4, <3>5
  <2> QED
    BY <1>1, <2>3, <2>4, <2>5 DEF IInv
<1>4. ASSUME NEW r \in Requests, Commit(r) PROVE IInv'
  <2>1. Committed \subseteq Committed'
    BY LogGrows DEF IInv
  <2>2. TipWasNewest'
    BY <1>4, <2>1 DEF Commit, TipWasNewest, IInv, TypeOK
  <2>3. ClockAhead'
    BY <1>4 DEF Commit, ClockAhead, IInv, TypeOK, Committed
  <2>4. StampsFollowPredecessors'
    BY <1>4 DEF Commit, StampsFollowPredecessors, IInv, TypeOK
  <2> QED
    BY <1>1, <2>2, <2>3, <2>4 DEF IInv
<1>5. ASSUME NEW r \in Requests, OpenSession(r) \/ RollBack(r) PROVE IInv'
  <2>1. Committed' = Committed
    BY <1>5 DEF OpenSession, RollBack, InFlight, Committed, IInv, TypeOK
  <2> QED
    BY <1>1, <1>5, <2>1
       DEF OpenSession, RollBack, InFlight, TipWasNewest, ClockAhead, StampsFollowPredecessors, IInv,
           TypeOK
<1>6. CASE UNCHANGED vars
  BY <1>6
     DEF vars, IInv, TypeOK, TipWasNewest, ClockAhead,
         StampsFollowPredecessors, Committed
<1> QED
  BY <1>2, <1>3, <1>4, <1>5, <1>6 DEF Next

-------------------------------------------------------------------------------
\* The inductive invariant holds in every reachable state.
THEOREM Invariance == Spec => []IInv
BY InitInv, InvStep, PTL DEF Spec

\* Type correctness of the append protocol.
THEOREM TypeCorrect == Spec => []TypeOK
<1>1. IInv => TypeOK
  BY DEF IInv
<1> QED
  BY Invariance, <1>1, PTL

\* An appended entry only ever names an entry that is already committed, or
\* GENESIS: what append_governance_log reads can no longer be rolled back.
THEOREM PredecessorsAlwaysCommitted == Spec => []PredecessorsCommitted
<1>1. IInv => PredecessorsCommitted
  BY DEF IInv, TipWasNewest, PredecessorsCommitted
<1> QED
  BY Invariance, <1>1, PTL

\* created_at strictly increases along previous_hash: the log has no cycle.
THEOREM StampsAlwaysFollow == Spec => []StampsFollowPredecessors
<1>1. IInv => StampsFollowPredecessors
  BY DEF IInv
<1> QED
  BY Invariance, <1>1, PTL

\* The log can fork only between requests whose transactions overlapped.
THEOREM ForksNeedOverlap == Spec => []ForksAreConcurrent
<1>1. IInv => ForksAreConcurrent
  <2> SUFFICES ASSUME IInv, NEW q \in Committed, NEW r \in Committed, q # r,
                      previous_hash[q] = previous_hash[r], q \in seen[r]
               PROVE  FALSE
    BY DEF ForksAreConcurrent
  <2>1. previous_hash[r] # GENESIS
    BY DEF IInv, TipWasNewest, Committed
  <2>2. created_at[q] <= created_at[previous_hash[r]]
    BY <2>1 DEF IInv, TipWasNewest, Committed
  <2>3. created_at[previous_hash[q]] < created_at[q]
    BY <2>1 DEF IInv, StampsFollowPredecessors, Committed
  <2>4. created_at[q] \in Nat /\ created_at[previous_hash[q]] \in Nat
    BY <2>1 DEF IInv, TypeOK, Committed
  <2> QED
    BY <2>2, <2>3, <2>4
<1> QED
  BY Invariance, <1>1, PTL

-------------------------------------------------------------------------------
\* Under any load the protocol implements the write-once tree: Commit is
\* Append, every other step leaves the log alone.
THEOREM ImplementsTree == Spec => RefinesTree
<1>1. Init => Tree!Init
  BY DEF Init, Tree!Init, Entries, Committed
<1>2. IInv /\ [Next]_vars => [Tree!Next]_Entries
  <2> SUFFICES ASSUME IInv, [Next]_vars PROVE [Tree!Next]_Entries
    OBVIOUS
  <2>1. ASSUME NEW r \in Requests, Commit(r) PROVE Tree!Next
    <3>1. Committed' = Committed \cup {r} /\ r \notin Committed
      BY <2>1 DEF Commit, Committed, IInv, TypeOK
    <3>2. previous_hash' = previous_hash
      BY <2>1 DEF Commit
    <3>3. \A e \in Entries : e.id # r
      BY <3>1 DEF Entries
    <3>4. previous_hash[r] = GENESIS
          \/ \E e \in Entries : e.id = previous_hash[r]
      <4>1. previous_hash[r] \in Committed \cup {GENESIS}
        BY <2>1 DEF Commit, IInv, TipWasNewest
      <4>2. \A q \in Committed :
              [id |-> q, parent |-> previous_hash[q]] \in Entries
        BY DEF Entries
      <4> QED
        BY <4>1, <4>2
    <3>5. Entries' = Entries \cup {[id |-> r, parent |-> previous_hash[r]]}
      BY <3>1, <3>2 DEF Entries
    <3>6. Tree!Append(r, previous_hash[r])
      BY <3>3, <3>4, <3>5 DEF Tree!Append
    <3>7. previous_hash[r] \in Requests \cup {GENESIS}
      BY DEF IInv, TypeOK
    <3> QED
      BY <3>6, <3>7 DEF Tree!Next
  <2>2. ASSUME NEW r \in Requests,
               OpenSession(r) \/ AppendEntry(r) \/ Flush(r) \/ RollBack(r)
        PROVE  Entries' = Entries
    <3>1. Committed' = Committed
      BY <2>2 DEF OpenSession, AppendEntry, Flush, RollBack, InFlight, Committed,
                  IInv, TypeOK
    <3>2. \A q \in Committed : previous_hash'[q] = previous_hash[q]
      BY LogGrows DEF IInv
    <3> QED
      BY <3>1, <3>2 DEF Entries
  <2>3. CASE UNCHANGED vars
    BY <2>3 DEF vars, Entries, Committed
  <2> QED
    BY <2>1, <2>2, <2>3 DEF Next
<1> QED
  BY <1>1, <1>2, Invariance, PTL DEF Spec, RefinesTree, Tree!Spec

-------------------------------------------------------------------------------
\* One transaction at a time: the open request holds the tip, and it is the
\* only one whose stamp lies after every committed entry's.
SerialInv ==
  /\ \A q, r \in InFlight : q = r
  /\ Committed # {} => Newest(Committed) # {}
  /\ \A q, r \in Committed : created_at[q] = created_at[r] => q = r
  /\ \A r \in Requests :
       pc[r] \in {"built", "flushed"} => previous_hash[r] = Tip
  /\ \A r \in Requests : pc[r] = "flushed" =>
       \A q \in Committed : created_at[q] < created_at[r]

\* A pool with one connection admits a session only when none is open.
LEMMA PoolOfOne ==
  ASSUME MaxInFlight = 1, NEW r, OpenSession(r),
         \A p, q \in InFlight : p = q
  PROVE  InFlight = {}
<1> SUFFICES ASSUME NEW p \in InFlight PROVE FALSE
  OBVIOUS
<1>1. InFlight = {p}
  OBVIOUS
<1>2. Cardinality({p}) = 1
  BY FS_Singleton
<1> QED
  BY <1>1, <1>2 DEF OpenSession

\* Tip is the newest committed entry; in a serial log there is just one.
LEMMA TipIsNewest ==
  ASSUME Newest(Committed) # {}
  PROVE  Tip \in Newest(Committed) /\ Tip \in Committed
BY DEF Tip, Newest

\* At first no request is in flight.
LEMMA SerialInit == Init => SerialInv
BY DEF Init, SerialInv, InFlight, Committed

\* With a pool of one, whoever is in flight stays alone and holds the present tip.
LEMMA SerialStep ==
  ASSUME MaxInFlight = 1, IInv, SerialInv, [Next]_vars
  PROVE  SerialInv'
<1> USE DEF IInv, TypeOK
<1>1. ASSUME NEW r \in Requests, OpenSession(r) PROVE SerialInv'
  <2>1. InFlight = {}
    BY <1>1, PoolOfOne DEF SerialInv
  <2>2. Committed' = Committed
    BY <1>1 DEF OpenSession, Committed
  <2>3. Newest(Committed)' = Newest(Committed) /\ Tip' = Tip
    BY <1>1, <2>2 DEF OpenSession, Newest, Tip
  <2>4. \A p \in Requests : pc'[p] \notin {"built", "flushed"}
    BY <1>1, <2>1 DEF OpenSession, InFlight
  <2>5. \A p, q \in InFlight' : p = q
    BY <1>1, <2>1 DEF OpenSession, InFlight
  <2> QED
    BY <1>1, <2>2, <2>3, <2>4, <2>5 DEF OpenSession, SerialInv
<1>2. ASSUME NEW r \in Requests, AppendEntry(r) PROVE SerialInv'
  <2>1. Committed' = Committed /\ InFlight' = InFlight
    BY <1>2 DEF AppendEntry, Committed, InFlight
  <2>2. Newest(Committed)' = Newest(Committed) /\ Tip' = Tip
    BY <1>2, <2>1 DEF AppendEntry, Newest, Tip
  <2>3. PICK tip \in Tips :
          previous_hash' = [previous_hash EXCEPT ![r] = tip]
    BY <1>2 DEF AppendEntry
  <2>4. tip = Tip
    <3>1. CASE Committed = {}
      BY <2>3, <3>1 DEF Tips, Tip
    <3>2. CASE Committed # {}
      <4>1. tip \in Newest(Committed) /\ Tip \in Newest(Committed)
        BY <2>3, <3>2, TipIsNewest DEF Tips, SerialInv
      <4>2. created_at[tip] <= created_at[Tip]
            /\ created_at[Tip] <= created_at[tip]
            /\ tip \in Committed /\ Tip \in Committed
        BY <4>1 DEF Newest
      <4>3. created_at[tip] \in Nat /\ created_at[Tip] \in Nat
        BY <4>2 DEF Committed
      <4>4. created_at[tip] = created_at[Tip]
        BY <4>2, <4>3
      <4> QED
        BY <4>2, <4>4 DEF SerialInv
    <3> QED
      BY <3>1, <3>2
  <2>5. \A p \in Requests :
          pc'[p] \in {"built", "flushed"} => previous_hash'[p] = Tip
    BY <1>2, <2>3, <2>4 DEF AppendEntry, SerialInv
  <2> QED
    BY <1>2, <2>1, <2>2, <2>5 DEF AppendEntry, SerialInv
<1>3. ASSUME NEW r \in Requests, Flush(r) PROVE SerialInv'
  <2>1. PICK now \in {clock, clock + 1} :
          created_at' = [created_at EXCEPT ![r] = now] /\ clock' = now
    BY <1>3 DEF Flush
  <2>2. Committed' = Committed /\ r \notin Committed /\ InFlight' = InFlight
    BY <1>3 DEF Flush, Committed, InFlight
  <2>3. \A q \in Committed : created_at'[q] = created_at[q]
    BY <2>1, <2>2 DEF Committed
  <2>4. Newest(Committed)' = Newest(Committed) /\ Tip' = Tip
    <3>1. Newest(Committed)' = Newest(Committed)
      BY <2>2, <2>3 DEF Newest
    <3> QED
      BY <2>2, <3>1 DEF Tip
  <2>5. \A q \in Committed : created_at'[q] < created_at'[r]
    BY <2>1, <2>2, <2>3 DEF ClockAhead, Committed
  <2>6. \A p \in Requests : pc'[p] = "flushed" => p = r
    BY <1>3 DEF Flush, SerialInv, InFlight
  <2>7. \A p \in Requests :
          pc'[p] \in {"built", "flushed"} => previous_hash'[p] = Tip
    BY <1>3 DEF Flush, SerialInv
  <2> QED
    BY <2>2, <2>3, <2>4, <2>5, <2>6, <2>7 DEF SerialInv
<1>4. ASSUME NEW r \in Requests, Commit(r) PROVE SerialInv'
  <2>1. Committed' = Committed \cup {r} /\ r \notin Committed
    BY <1>4 DEF Commit, Committed
  <2>2. InFlight' = {}
    BY <1>4 DEF Commit, InFlight, SerialInv
  <2>3. \A q \in Committed : created_at[q] < created_at[r]
    BY <1>4 DEF Commit, SerialInv
  <2>4. r \in Newest(Committed)'
    BY <1>4, <2>1, <2>3 DEF Commit, Newest, Committed
  <2>5. \A q, p \in Committed' : created_at'[q] = created_at'[p] => q = p
    BY <1>4, <2>1, <2>3 DEF Commit, SerialInv, Committed
  <2> QED
    BY <2>2, <2>4, <2>5 DEF SerialInv, InFlight
<1>5. ASSUME NEW r \in Requests, RollBack(r) PROVE SerialInv'
  <2>1. Committed' = Committed /\ InFlight' \subseteq InFlight
    BY <1>5 DEF RollBack, Committed, InFlight
  <2>2. Newest(Committed)' = Newest(Committed) /\ Tip' = Tip
    BY <1>5, <2>1 DEF RollBack, Newest, Tip
  <2> QED
    BY <1>5, <2>1, <2>2 DEF RollBack, SerialInv
<1>6. CASE UNCHANGED vars
  BY <1>6 DEF vars, SerialInv, InFlight, Committed, Newest, Tip
<1> QED
  BY <1>1, <1>2, <1>3, <1>4, <1>5, <1>6 DEF Next

\* A serial commit makes its entry the tip.
LEMMA CommitMovesTip ==
  ASSUME IInv, SerialInv, NEW r \in Requests, Commit(r)
  PROVE  Tip' = r
<1> USE DEF IInv, TypeOK
<1>1. Committed' = Committed \cup {r} /\ r \notin Committed
  BY DEF Commit, Committed
<1>2. created_at' = created_at
  BY DEF Commit
<1>3. \A q \in Committed : created_at[q] < created_at[r]
  BY DEF Commit, SerialInv
<1>4. \A q \in Committed' : q \in Newest(Committed)' <=> q = r
  BY <1>1, <1>2, <1>3 DEF Newest, Committed
<1> QED
  BY <1>1, <1>4 DEF Tip

\* With one transaction open at a time the log is a hash chain: every commit
\* extends the entry committed just before it.
THEOREM SerialImplementsChain ==
  ASSUME MaxInFlight = 1
  PROVE  Spec => RefinesChain
<1>1. Init => Chain!Init
  BY DEF Init, Chain!Init, Entries, Committed, Tip
<1>2. IInv /\ SerialInv /\ [Next]_vars => [Chain!Next]_<<Entries, Tip>>
  <2> SUFFICES ASSUME IInv, SerialInv, [Next]_vars
               PROVE  [Chain!Next]_<<Entries, Tip>>
    OBVIOUS
  <2>1. ASSUME NEW r \in Requests, Commit(r) PROVE Chain!Next
    <3>1. Committed' = Committed \cup {r} /\ r \notin Committed
      BY <2>1 DEF Commit, Committed, IInv, TypeOK
    <3>2. previous_hash' = previous_hash /\ previous_hash[r] = Tip
      BY <2>1 DEF Commit, SerialInv
    <3>3. \A e \in Entries : e.id # r
      BY <3>1 DEF Entries
    <3>4. Entries' = Entries \cup {[id |-> r, parent |-> Tip]}
      BY <3>1, <3>2 DEF Entries
    <3>5. Tip' = r
      BY <2>1, CommitMovesTip
    <3> QED
      BY <3>3, <3>4, <3>5 DEF Chain!Next, Chain!Append
  <2>2. ASSUME NEW r \in Requests,
               OpenSession(r) \/ AppendEntry(r) \/ Flush(r) \/ RollBack(r)
        PROVE  UNCHANGED <<Entries, Tip>>
    <3>1. Committed' = Committed
      BY <2>2 DEF OpenSession, AppendEntry, Flush, RollBack, InFlight, Committed,
                  IInv, TypeOK
    <3>2. \A q \in Committed : /\ previous_hash'[q] = previous_hash[q]
                               /\ created_at'[q] = created_at[q]
      BY LogGrows DEF IInv
    <3>3. Newest(Committed)' = Newest(Committed)
      BY <3>1, <3>2 DEF Newest
    <3> QED
      BY <3>1, <3>2, <3>3 DEF Entries, Tip
  <2>3. CASE UNCHANGED vars
    BY <2>3 DEF vars, Entries, Committed, Tip, Newest
  <2> QED
    BY <2>1, <2>2, <2>3 DEF Next
<1>3. SerialInv /\ IInv /\ [Next]_vars => SerialInv'
  BY SerialStep
<1> QED
  BY <1>1, <1>2, <1>3, SerialInit, Invariance, PTL
     DEF Spec, RefinesChain, Chain!Spec

===============================================================================
