------------------------ MODULE FindingsWorkflowProofs ------------------------
(***************************************************************************)
(* Theorems about FindingsWorkflow, for every set of requests and owners   *)
(* and every size of the pool.  The workflow uses the ledger by its append *)
(* protocol only, so what GovernanceLedgerProofs shows of the ledger holds *)
(* of the log the finding handlers share with the policy handlers.  The     *)
(* last part is about runs of MCFindingsWorkflow that admit one call at a   *)
(* time: nothing is stale in them.                                         *)
(***************************************************************************)
EXTENDS MCFindingsWorkflow, SequenceTheorems, FiniteSetTheorems, TLAPS

\* Every step of the workflow is a step of the ledger, or leaves it alone.
LEMMA LedgerStep == [Next]_vars => [L!Next]_L!vars
<1> SUFFICES ASSUME [Next]_vars PROVE [L!Next]_L!vars
  OBVIOUS
<1>1. ASSUME NEW r \in Requests, OpenSession(r) PROVE L!Next
  BY <1>1 DEF OpenSession, L!Next
<1>2. ASSUME NEW r \in Requests, LoadFinding(r) PROVE UNCHANGED L!vars
  BY <1>2 DEF LoadFinding, ledger, L!vars
<1>3. ASSUME NEW r \in Requests, AppendEntry(r) PROVE L!Next
  BY <1>3 DEF AppendEntry, L!Next
<1>4. ASSUME NEW r \in Requests, InsertRows(r) PROVE L!Next
  BY <1>4 DEF InsertRows, L!Next
<1>5. ASSUME NEW r \in Requests, UpdateRow(r) PROVE UNCHANGED L!vars
  BY <1>5 DEF UpdateRow, ledger, L!vars
<1>6. ASSUME NEW r \in Requests, Commit(r) PROVE L!Next
  BY <1>6 DEF Commit, L!Next
<1>7. ASSUME NEW r \in Requests, RollBack(r) PROVE L!Next
  BY <1>7 DEF RollBack, L!Next
<1>8. ASSUME UNCHANGED vars PROVE UNCHANGED L!vars
  BY <1>8 DEF vars, ledger, L!vars
<1> QED
  BY <1>1, <1>2, <1>3, <1>4, <1>5, <1>6, <1>7, <1>8 DEF Next, Handle

-------------------------------------------------------------------------------
\* The empty governance log has its type.
LEMMA LedgerTypeInit == L!Init => L!TypeOK
BY WorkflowGenesisAssumption DEF L!Init, L!TypeOK, L!Stages

\* Every step of the governance log keeps its type.
LEMMA LedgerTypeStep == L!TypeOK /\ [L!Next]_L!vars => L!TypeOK'
<1> SUFFICES ASSUME L!TypeOK, [L!Next]_L!vars PROVE L!TypeOK'
  OBVIOUS
<1> USE DEF L!TypeOK, L!Stages
<1>1. ASSUME NEW r \in Requests, L!OpenSession(r) PROVE L!TypeOK'
  BY <1>1 DEF L!OpenSession
<1>2. ASSUME NEW r \in Requests, L!AppendEntry(r) PROVE L!TypeOK'
  BY <1>2 DEF L!AppendEntry, L!Tips, L!Newest, L!Committed
<1>3. ASSUME NEW r \in Requests, L!Flush(r) PROVE L!TypeOK'
  BY <1>3 DEF L!Flush
<1>4. ASSUME NEW r \in Requests, L!Commit(r) PROVE L!TypeOK'
  BY <1>4 DEF L!Commit
<1>5. ASSUME NEW r \in Requests, L!RollBack(r) PROVE L!TypeOK'
  BY <1>5 DEF L!RollBack
<1>6. CASE UNCHANGED L!vars
  BY <1>6 DEF L!vars
<1> QED
  BY <1>1, <1>2, <1>3, <1>4, <1>5, <1>6 DEF L!Next

\* What a handler leaves in its session, and what its UPDATE leaves in the
\* table, are rows.
LEMMA EditedIsRow ==
  ASSUME TypeOK, NEW r \in Requests, loaded[r] # NotLoaded
  PROVE  Edited(r) \in Rows /\ Updated(r) \in Rows
<1>1. call[r] \in Calls /\ loaded[r] \in Rows /\ finding \in Rows
  BY DEF TypeOK
<1>2. CASE call[r].handler = "assign"
  <2>1. call[r].owner \in Owners
    BY <1>1, <1>2 DEF Calls
  <2>2. Edited(r) \in Rows
    BY <1>2, <2>1 DEF Edited, Rows, Statuses
  <2> QED
    BY <1>1, <2>2 DEF Updated, Rows
<1>3. CASE call[r].handler # "assign"
  <2>1. Edited(r) \in Rows
    BY <1>1, <1>3 DEF Edited, Rows, Statuses
  <2> QED
    BY <1>1, <2>1 DEF Updated, Rows
<1> QED
  BY <1>2, <1>3

\* A handler that edits the finding has loaded it before it builds its entry.
LoadedFirst ==
  \A r \in Requests :
    Edits(r) /\ pc[r] \in {"built", "flushed", "committed"} =>
      loaded[r] # NotLoaded

\* At first every variable has its type, and no handler has loaded the finding.
LEMMA TypeInit == Init => TypeOK /\ LoadedFirst
<1> SUFFICES ASSUME Init PROVE TypeOK /\ LoadedFirst
  OBVIOUS
<1>1. L!TypeOK
  BY LedgerTypeInit DEF Init
<1>2. pc = [r \in Requests |-> "new"]
  BY DEF Init, L!Init
<1> QED
  BY <1>1, <1>2 DEF Init, TypeOK, LoadedFirst, Rows, Statuses

\* Every step of a handler keeps the types, and loads the finding before updating it.
LEMMA TypeStep == TypeOK /\ LoadedFirst /\ [Next]_vars => (TypeOK /\ LoadedFirst)'
<1> SUFFICES ASSUME TypeOK, LoadedFirst, [Next]_vars
             PROVE  TypeOK' /\ LoadedFirst'
  OBVIOUS
<1>1. L!TypeOK'
  BY LedgerStep, LedgerTypeStep DEF TypeOK
<1>2. pc \in [Requests -> L!Stages]
  BY DEF TypeOK, L!TypeOK
<1>3. ASSUME NEW r \in Requests, OpenSession(r) PROVE TypeOK' /\ LoadedFirst'
  <2>1. TypeOK'
    BY <1>1, <1>3 DEF OpenSession, TypeOK
  <2>2. LoadedFirst'
    BY <1>2, <1>3 DEF OpenSession, L!OpenSession, LoadedFirst, Edits
  <2> QED
    BY <2>1, <2>2
<1>4. ASSUME NEW r \in Requests, LoadFinding(r) PROVE TypeOK' /\ LoadedFirst'
  <2>1. loaded' \in [Requests -> Rows \cup {NotLoaded}]
    BY <1>4 DEF LoadFinding, TypeOK
  <2>2. TypeOK'
    BY <1>1, <1>4, <2>1 DEF LoadFinding, TypeOK
  <2>3. finding # NotLoaded
    <3>1. finding.status \in Statuses
      BY DEF TypeOK, Rows
    <3>2. NotLoaded.status = "not loaded" /\ "not loaded" \notin Statuses
      BY DEF NotLoaded, Statuses
    <3> QED
      BY <3>1, <3>2
  <2>4. LoadedFirst'
    BY <1>4, <2>3 DEF LoadFinding, ledger, LoadedFirst, Edits, TypeOK
  <2> QED
    BY <2>2, <2>4
<1>5. ASSUME NEW r \in Requests, AppendEntry(r) PROVE TypeOK' /\ LoadedFirst'
  <2>1. TypeOK'
    BY <1>1, <1>5 DEF AppendEntry, TypeOK
  <2>2. LoadedFirst'
    BY <1>2, <1>5 DEF AppendEntry, L!AppendEntry, LoadedFirst, Edits
  <2> QED
    BY <2>1, <2>2
<1>6. ASSUME NEW r \in Requests, InsertRows(r) PROVE TypeOK' /\ LoadedFirst'
  <2>1. TypeOK'
    BY <1>1, <1>6 DEF InsertRows, TypeOK
  <2>2. LoadedFirst'
    BY <1>2, <1>6 DEF InsertRows, L!Flush, LoadedFirst, Edits
  <2> QED
    BY <2>1, <2>2
<1>7. ASSUME NEW r \in Requests, UpdateRow(r) PROVE TypeOK' /\ LoadedFirst'
  <2>1. TypeOK'
    BY <1>1, <1>7 DEF UpdateRow, TypeOK
  <2>2. LoadedFirst'
    BY <1>7 DEF UpdateRow, ledger, LoadedFirst, Edits
  <2> QED
    BY <2>1, <2>2
<1>8. ASSUME NEW r \in Requests, Commit(r) PROVE TypeOK' /\ LoadedFirst'
  <2>1. Edits(r) => Updated(r) \in Rows
    BY <1>8, EditedIsRow DEF Commit, L!Commit, LoadedFirst
  <2>2. finding' \in Rows
    BY <1>8, <2>1 DEF Commit, TypeOK
  <2>3. call[r].handler # "policy" =>
          LogRow(r) \in LogRows
    <3>1. call[r].handler \in {"assign", "respond", "delete", "policy"}
      BY DEF TypeOK, Calls
    <3>2. finding.status \in Statuses
      BY DEF TypeOK, Rows
    <3>3. CASE call[r].handler = "assign"
      BY <3>2, <3>3 DEF LogRow, LogStages, LogRows
    <3>4. CASE call[r].handler = "respond"
      BY <3>2, <3>4 DEF LogRow, LogStages, LogRows
    <3>5. CASE call[r].handler = "delete"
      BY <3>2, <3>5 DEF LogRow, LogStages, LogRows
    <3> QED
      BY <3>1, <3>3, <3>4, <3>5
  <2>4. workflow_logs' \in Seq(LogRows)
    BY <1>8, <2>3, AppendProperties DEF Commit, TypeOK
  <2>5. row_lock' \in Requests \cup {Unlocked} /\ responses' \subseteq Requests
    BY <1>8 DEF Commit, TypeOK
  <2>6. call' = call /\ loaded' = loaded
    BY <1>8 DEF Commit
  <2>7. TypeOK'
    BY <1>1, <2>2, <2>4, <2>5, <2>6 DEF TypeOK
  <2>8. LoadedFirst'
    BY <1>2, <1>8, <2>6 DEF Commit, L!Commit, LoadedFirst, Edits
  <2> QED
    BY <2>7, <2>8
<1>9. ASSUME NEW r \in Requests, RollBack(r) PROVE TypeOK' /\ LoadedFirst'
  <2>1. TypeOK'
    BY <1>1, <1>9 DEF RollBack, TypeOK
  <2>2. LoadedFirst'
    BY <1>2, <1>9 DEF RollBack, L!RollBack, LoadedFirst, Edits
  <2> QED
    BY <2>1, <2>2
<1>10. CASE UNCHANGED vars
  BY <1>1, <1>10 DEF vars, ledger, TypeOK, LoadedFirst, Edits
<1> QED
  BY <1>3, <1>4, <1>5, <1>6, <1>7, <1>8, <1>9, <1>10 DEF Next, Handle

\* Type correctness of the workflow.
THEOREM TypeCorrect == Spec => []TypeOK
<1>1. TypeOK /\ LoadedFirst => TypeOK
  OBVIOUS
<1> QED
  BY TypeInit, TypeStep, PTL DEF Spec

-------------------------------------------------------------------------------
\* A commit writes an owner or a status with the entry or response that explains it.
LEMMA ExplainedStep ==
  TypeOK /\ LoadedFirst /\ RowExplained /\ [Next]_vars => RowExplained'
<1> SUFFICES ASSUME TypeOK, LoadedFirst, RowExplained, [Next]_vars
             PROVE  RowExplained'
  OBVIOUS
<1>1. L!Committed \subseteq L!Committed' /\ call' = call
  <2>1. call' = call
    BY DEF Next, Handle, vars, OpenSession, LoadFinding, AppendEntry, InsertRows,
           UpdateRow, Commit, RollBack
  <2>2. L!Committed \subseteq L!Committed'
    BY LedgerStep
       DEF TypeOK, L!TypeOK, L!Next, L!vars, L!Committed, L!InFlight,
           L!OpenSession, L!AppendEntry, L!Flush, L!Commit, L!RollBack
  <2> QED
    BY <2>1, <2>2
<1>2. ASSUME NEW r \in Requests, Commit(r), Edits(r) PROVE RowExplained'
  <2>1. loaded[r] # NotLoaded /\ r \in L!Committed'
    BY <1>2 DEF Commit, L!Commit, LoadedFirst, TypeOK, L!TypeOK, L!Committed
  <2>2. /\ finding' = Updated(r) /\ call[r] \in Calls
        /\ responses' = IF call[r].handler = "respond"
                        THEN responses \cup {r} ELSE responses
    BY <1>2 DEF Commit, TypeOK
  <2>3. finding'.status \in {Edited(r).status, finding.status}
        /\ finding'.owner \in {Edited(r).owner, finding.owner}
    BY <2>2 DEF Updated
  <2>4. CASE call[r].handler = "assign"
    <3>1. Edited(r) = [status |-> "management_response", owner |-> call[r].owner]
      BY <2>4 DEF Edited
    <3>2. finding'.status = "remediation" => responses' # {}
      BY <2>2, <2>3, <2>4, <3>1 DEF RowExplained
    <3>3. finding'.owner # NoOwner =>
            \E q \in L!Committed' :
              call'[q].handler = "assign" /\ call'[q].owner = finding'.owner
      BY <1>1, <2>1, <2>3, <2>4, <3>1 DEF RowExplained
    <3> QED
      BY <3>2, <3>3 DEF RowExplained
  <2>5. CASE call[r].handler = "respond"
    <3>1. Edited(r).owner = loaded[r].owner
      BY <2>1, <2>5 DEF Edited, TypeOK, Rows
    <3>2. finding'.owner = finding.owner
      BY <2>2, <3>1 DEF Updated
    <3> QED
      BY <1>1, <2>2, <2>5, <3>2 DEF RowExplained
  <2> QED
    BY <1>2, <2>4, <2>5 DEF Edits
<1>3. ASSUME finding' = finding, responses \subseteq responses'
      PROVE  RowExplained'
  BY <1>1, <1>3 DEF RowExplained
<1>4. ASSUME NEW r \in Requests, Commit(r), ~Edits(r) PROVE RowExplained'
  BY <1>3, <1>4 DEF Commit
<1> QED
  BY <1>2, <1>3, <1>4
     DEF Next, Handle, vars, OpenSession, LoadFinding, AppendEntry, InsertRows,
         UpdateRow, RollBack

\* Whatever the requests lose to each other, the committed finding can be
\* explained from the ledger and the responses.
THEOREM RowAlwaysExplained == Spec => []RowExplained
<1>1. Init => RowExplained
  BY DEF Init, RowExplained
<1> QED
  BY <1>1, TypeInit, TypeStep, ExplainedStep, PTL DEF Spec

-------------------------------------------------------------------------------
\* What the tables tell changes by a commit only, which adds to all of them.
LEMMA LogsStep == TypeOK /\ LogsMatchLedger /\ [Next]_vars => LogsMatchLedger'
<1> SUFFICES ASSUME TypeOK, LogsMatchLedger, [Next]_vars PROVE LogsMatchLedger'
  OBVIOUS
<1>1. call' = call /\ pc \in [Requests -> L!Stages]
  BY DEF Next, Handle, vars, OpenSession, LoadFinding, AppendEntry, InsertRows,
         UpdateRow, Commit, RollBack, TypeOK, L!TypeOK
<1>2. ASSUME L!Committed' = L!Committed, UNCHANGED <<workflow_logs, responses>>
      PROVE  LogsMatchLedger'
  BY <1>1, <1>2 DEF LogsMatchLedger, LogRow
<1>3. ASSUME NEW r \in Requests,
             OpenSession(r) \/ LoadFinding(r) \/ AppendEntry(r) \/ InsertRows(r)
               \/ UpdateRow(r) \/ RollBack(r)
      PROVE  LogsMatchLedger'
  <2>1. UNCHANGED <<workflow_logs, responses>>
    BY <1>3 DEF OpenSession, LoadFinding, AppendEntry, InsertRows, UpdateRow, RollBack
  <2>2. L!Committed' = L!Committed
    BY <1>1, <1>3
       DEF OpenSession, LoadFinding, AppendEntry, InsertRows, UpdateRow, RollBack, ledger,
           L!OpenSession, L!AppendEntry, L!Flush, L!RollBack, L!InFlight, L!Committed
  <2> QED BY <1>2, <2>1, <2>2
<1>4. ASSUME NEW r \in Requests, Commit(r) PROVE LogsMatchLedger'
  <2>1. L!Committed' = L!Committed \cup {r} /\ r \notin L!Committed
    BY <1>1, <1>4 DEF Commit, L!Commit, L!Committed
  <2>2. responses' = {q \in L!Committed' : call'[q].handler = "respond"}
    BY <1>1, <1>4, <2>1 DEF Commit, LogsMatchLedger
  <2>3. CASE call[r].handler = "policy"
    <3>1. workflow_logs' = workflow_logs
      BY <1>4, <2>3 DEF Commit
    <3> QED BY <1>1, <2>1, <2>2, <2>3, <3>1 DEF LogsMatchLedger, LogRow
  <2>4. CASE call[r].handler # "policy"
    <3> DEFINE n == Len(workflow_logs)
    <3>1. /\ n \in Nat /\ DOMAIN workflow_logs = 1..n /\ DOMAIN workflow_logs' = 1..(n + 1)
          /\ \A i \in 1..n : workflow_logs'[i] = workflow_logs[i]
          /\ workflow_logs'[n + 1] = LogRow(r)
      BY <1>4, <2>4 DEF Commit, TypeOK
    <3> HIDE DEF n
    <3>2. LogRow(r).request = r /\ \A q \in Requests : LogRow(q)' = LogRow(q)
      BY <1>1 DEF LogRow
    <3>3. \A i \in 1..n : workflow_logs[i].request # r
      BY <2>1, <3>1 DEF LogsMatchLedger, LogRow
    <3>4. \A i \in 1..(n + 1) :
            \E q \in L!Committed' : call'[q].handler # "policy" /\ workflow_logs'[i] = LogRow(q)'
      <4>1. ASSUME NEW i \in 1..n
            PROVE  \E q \in L!Committed' : call'[q].handler # "policy" /\ workflow_logs'[i] = LogRow(q)'
        <5>1. PICK q \in L!Committed : call[q].handler # "policy" /\ workflow_logs[i] = LogRow(q)
          BY <3>1, <4>1 DEF LogsMatchLedger
        <5>2. q \in Requests
          BY DEF L!Committed
        <5> QED BY <1>1, <2>1, <3>1, <3>2, <5>1, <5>2
      <4>2. \E q \in L!Committed' : call'[q].handler # "policy" /\ workflow_logs'[n + 1] = LogRow(q)'
        BY <1>1, <2>1, <2>4, <3>1, <3>2
      <4> QED BY <3>1, <4>1, <4>2
    <3>5. \A q \in L!Committed' : call'[q].handler # "policy" =>
            \E i \in 1..(n + 1) : workflow_logs'[i].request = q
      <4>1. ASSUME NEW q \in L!Committed, call[q].handler # "policy"
            PROVE  \E i \in 1..(n + 1) : workflow_logs'[i].request = q
        <5>1. PICK i \in 1..n : workflow_logs[i].request = q
          BY <3>1, <4>1 DEF LogsMatchLedger
        <5>2. i \in 1..(n + 1) /\ workflow_logs'[i].request = q
          BY <3>1, <5>1
        <5> QED BY <5>2
      <4>2. n + 1 \in 1..(n + 1) /\ workflow_logs'[n + 1].request = r
        BY <3>1, <3>2
      <4> QED BY <1>1, <2>1, <4>1, <4>2
    <3>6. \A i, j \in 1..(n + 1) : workflow_logs'[i].request = workflow_logs'[j].request => i = j
      <4>1. \A i, j \in 1..n : workflow_logs'[i].request = workflow_logs'[j].request => i = j
        BY <3>1 DEF LogsMatchLedger
      <4>2. \A i \in 1..(n + 1) : i = n + 1 \/ (i \in 1..n /\ workflow_logs'[i].request # r)
        BY <3>1, <3>3
      <4>3. workflow_logs'[n + 1].request = r
        BY <3>1, <3>2
      <4> QED BY <4>1, <4>2, <4>3
    <3> QED BY <2>2, <3>1, <3>4, <3>5, <3>6 DEF LogsMatchLedger
  <2> QED BY <2>3, <2>4
<1>5. CASE UNCHANGED vars
  BY <1>2, <1>5 DEF vars, ledger, L!Committed
<1> QED BY <1>3, <1>4, <1>5 DEF Next, Handle

\* Under any load and with any failures, what the workflow log and the
\* responses say of a finding's calls is what the ledger says.
THEOREM LogsAlwaysMatchLedger == Spec => []LogsMatchLedger
<1>1. Init => LogsMatchLedger
  BY DEF Init, L!Init, L!Committed, LogsMatchLedger
<1> QED BY <1>1, TypeInit, TypeStep, LogsStep, PTL DEF Spec

-------------------------------------------------------------------------------
\* What one request at a time knows of the ledger: it is alone, the newest entry
\* is the only newest, and whoever built its row holds the present tip.
Alone == \A q, r \in L!InFlight : q = r
TipOnTop ==
  L!Committed # {} =>
    /\ L!Tip \in L!Committed
    /\ \A q \in L!Committed : q # L!Tip => created_at[q] < created_at[L!Tip]
TipHeld ==
  \A r \in Requests : pc[r] \in {"built", "flushed"} => previous_hash[r] = L!Tip
StampsBehind ==
  /\ \A q \in Requests : created_at[q] <= clock
  /\ \A q \in L!Committed :
       /\ created_at[q] < clock
       /\ \A r \in Requests : pc[r] = "flushed" => created_at[q] < created_at[r]

\* What it knows of the finding: the row it loaded is the committed one.
LoadedIsFinding ==
  \A r \in L!InFlight : loaded[r] # NotLoaded => loaded[r] = finding
LoadedInFlight == \A r \in Requests : pc[r] = "new" => loaded[r] = NotLoaded

SerialInv ==
  /\ Alone /\ TipOnTop /\ TipHeld /\ StampsBehind
  /\ LoadedIsFinding /\ LoadedInFlight /\ StatusIsLastStage

\* A set that has at most one element has one of at most one.
LEMMA AtMostOne ==
  ASSUME NEW S, NEW T, \A q, r \in S : q = r, NEW p, T \subseteq S \cup {p}, Cardinality(T) <= 1
  PROVE  \A q, r \in T : q = r
<1> SUFFICES ASSUME NEW q \in T, NEW r \in T, q # r PROVE FALSE
  OBVIOUS
<1>1. PICK s : S \subseteq {s}
  <2>1. CASE S = {}
    BY <2>1
  <2>2. CASE S # {}
    <3>1. PICK t : t \in S
      BY <2>2
    <3>2. S \subseteq {t}
      BY <3>1
    <3> QED BY <3>2
  <2> QED BY <2>1, <2>2
<1>2. IsFiniteSet(S) /\ IsFiniteSet(S \cup {p})
  BY <1>1, FS_Singleton, FS_Subset, FS_AddElement
<1>3. IsFiniteSet(T)
  BY <1>2, FS_Subset
<1>4. Cardinality({q, r}) <= Cardinality(T) /\ Cardinality({q, r}) \in Nat /\ Cardinality(T) \in Nat
  BY <1>3, FS_Subset, FS_CardinalityType
<1>5. Cardinality({q, r}) = 2
  <2>1. IsFiniteSet({q}) /\ Cardinality({q}) = 1
    BY FS_Singleton
  <2>2. {q, r} = {q} \cup {r} /\ r \notin {q}
    OBVIOUS
  <2> QED BY <2>1, <2>2, FS_AddElement
<1> QED BY <1>4, <1>5
\* The one entry with the latest stamp is the newest.
LEMMA OnlyNewest ==
  ASSUME NEW S, NEW stamp, \A q \in S : stamp[q] \in Nat,
         NEW r \in S, \A q \in S : q # r => stamp[q] < stamp[r]
  PROVE  (CHOOSE p \in S : p \in {t \in S : \A q \in S : stamp[q] <= stamp[t]}) = r
<1> DEFINE N == {t \in S : \A q \in S : stamp[q] <= stamp[t]}
<1>1. \A p \in S : p \in N <=> p = r
  OBVIOUS
<1> HIDE DEF N
<1>2. (CHOOSE p \in S : p \in N) = r
  BY <1>1, Zenon
<1> QED BY <1>2 DEF N

\* A commit adds its entry behind the tip and makes it the tip.
Committing(r) ==
  /\ r \in Requests /\ r \notin L!Committed
  /\ L!Committed' = L!Committed \cup {r} /\ L!Tip' = r /\ previous_hash[r] = L!Tip
  /\ previous_hash' = previous_hash
\* Every other step leaves the log as it was.
Quiet ==
  /\ L!Committed' = L!Committed /\ L!Tip' = L!Tip
  /\ \A q \in L!Committed : previous_hash'[q] = previous_hash[q] /\ created_at'[q] = created_at[q]

\* A step that touches no committed row does not move the tip.
LEMMA TipStays ==
  ASSUME L!Committed' = L!Committed,
         \A q \in L!Committed : previous_hash'[q] = previous_hash[q] /\ created_at'[q] = created_at[q]
  PROVE  Quiet
<1>1. L!Newest(L!Committed)' = L!Newest(L!Committed)
  BY DEF L!Newest
<1> QED BY <1>1 DEF Quiet, L!Tip

\* As long as nobody overlaps, every step of the ledger's protocol keeps the tip
\* on top and in the hands of whoever built a row.
LEMMA SerialLedger ==
  ASSUME L!TypeOK, Alone, TipOnTop, TipHeld, StampsBehind, [L!Next]_L!vars, Alone'
  PROVE  /\ (TipOnTop /\ TipHeld /\ StampsBehind)'
         /\ \A r \in Requests : L!Commit(r) => Committing(r)
         /\ (\A r \in Requests : ~L!Commit(r)) => Quiet
<1> DEFINE Kept == (TipOnTop /\ TipHeld /\ StampsBehind)'
<1> USE DEF L!TypeOK, L!Stages
<1>1. ASSUME NEW r \in Requests, L!Commit(r) PROVE Kept /\ Committing(r)
  <2>1. L!Committed' = L!Committed \cup {r} /\ r \notin L!Committed
    BY <1>1 DEF L!Commit, L!Committed
  <2>2. \A q \in L!Committed : created_at[q] < created_at[r]
    BY <1>1 DEF L!Commit, StampsBehind
  <2>3. \A q \in L!Committed' : q # r => created_at'[q] < created_at'[r]
    BY <1>1, <2>1, <2>2 DEF L!Commit
  <2>4. \A q \in L!Committed' : created_at'[q] \in Nat
    BY <1>1 DEF L!Commit, L!Committed
  <2>5. L!Tip' = r
    <3>1. r \in L!Committed'
      BY <2>1
    <3> QED BY <2>3, <2>4, <3>1, OnlyNewest DEF L!Tip, L!Newest
  <2>6. TipOnTop'
    BY <2>1, <2>3, <2>5 DEF TipOnTop
  <2>7. \A q \in Requests : pc'[q] \notin {"built", "flushed"}
    BY <1>1 DEF L!Commit, Alone, L!InFlight
  <2>8. TipHeld'
    BY <2>7 DEF TipHeld
  <2>9. \A q \in L!Committed' : created_at'[q] < clock'
    <3>1. created_at[r] <= clock
      BY DEF StampsBehind
    <3> QED BY <1>1, <2>1, <3>1 DEF L!Commit, StampsBehind, L!Committed
  <2>10. StampsBehind'
    BY <1>1, <2>7, <2>9 DEF StampsBehind, L!Commit
  <2>11. previous_hash[r] = L!Tip
    BY <1>1 DEF L!Commit, TipHeld
  <2> QED BY <1>1, <2>1, <2>5, <2>6, <2>8, <2>10, <2>11 DEF Committing, L!Commit
<1>2. ASSUME NEW r \in Requests, L!AppendEntry(r) PROVE Kept /\ Quiet
  <2>1. PICK tip \in L!Tips : previous_hash' = [previous_hash EXCEPT ![r] = tip]
    BY <1>2 DEF L!AppendEntry
  <2>2. L!Committed' = L!Committed /\ r \notin L!Committed
    BY <1>2 DEF L!AppendEntry, L!Committed
  <2>3. Quiet
    BY <1>2, <2>1, <2>2, TipStays DEF L!AppendEntry
  <2>4. tip = L!Tip
    <3>1. CASE L!Committed = {}
      BY <3>1 DEF L!Tips, L!Tip
    <3>2. CASE L!Committed # {}
      BY <3>2 DEF L!Tips, L!Newest, L!Committed, TipOnTop
    <3> QED BY <3>1, <3>2
  <2>5. TipHeld'
    BY <1>2, <2>1, <2>3, <2>4 DEF L!AppendEntry, TipHeld, Quiet
  <2>6. (TipOnTop /\ StampsBehind)'
    BY <1>2, <2>2, <2>3 DEF L!AppendEntry, TipOnTop, StampsBehind, Quiet
  <2> QED BY <2>3, <2>5, <2>6
<1>3. ASSUME NEW r \in Requests, L!Flush(r) PROVE Kept /\ Quiet
  <2>1. PICK now \in {clock, clock + 1} :
          created_at' = [created_at EXCEPT ![r] = now] /\ clock' = now
    BY <1>3 DEF L!Flush
  <2>2. L!Committed' = L!Committed /\ r \notin L!Committed
    BY <1>3 DEF L!Flush, L!Committed
  <2>3. \A q \in L!Committed : created_at'[q] = created_at[q] /\ previous_hash'[q] = previous_hash[q]
    BY <1>3, <2>1, <2>2 DEF L!Flush, L!Committed
  <2>4. Quiet
    BY <2>2, <2>3, TipStays
  <2>5. TipHeld'
    BY <1>3, <2>4 DEF L!Flush, TipHeld, Quiet
  <2>6. TipOnTop'
    BY <2>3, <2>4 DEF TipOnTop, Quiet
  <2>7. StampsBehind'
    <3>1. \A q \in L!Committed : created_at[q] \in Nat
      BY DEF L!Committed
    <3>2. \A p \in Requests : p # r => pc'[p] = pc[p] /\ created_at'[p] = created_at[p]
      BY <1>3, <2>1 DEF L!Flush
    <3>3. created_at'[r] = now /\ \A q \in L!Committed : created_at[q] < now
      BY <2>1, <3>1 DEF StampsBehind
    <3>4. ASSUME NEW q \in L!Committed, NEW p \in Requests, pc'[p] = "flushed"
          PROVE  created_at'[q] < created_at'[p]
      <4>1. CASE p = r
        BY <2>3, <3>3, <4>1
      <4>2. CASE p # r
        BY <2>3, <3>2, <3>4, <4>2 DEF StampsBehind
      <4> QED BY <4>1, <4>2
    <3>5. \A q \in Requests : created_at'[q] <= clock'
      BY <2>1, <3>2, <3>3 DEF StampsBehind
    <3> QED BY <2>1, <2>2, <2>3, <3>3, <3>4, <3>5 DEF StampsBehind
  <2> QED BY <2>4, <2>5, <2>6, <2>7
<1>4. ASSUME NEW r \in Requests, L!OpenSession(r) \/ L!RollBack(r) PROVE Kept /\ Quiet
  <2>1. L!Committed' = L!Committed
    BY <1>4 DEF L!OpenSession, L!RollBack, L!InFlight, L!Committed
  <2>2. Quiet
    BY <1>4, <2>1, TipStays DEF L!OpenSession, L!RollBack
  <2>3. TipHeld'
    BY <1>4, <2>2 DEF L!OpenSession, L!RollBack, TipHeld, Quiet
  <2>4. (TipOnTop /\ StampsBehind)'
    BY <1>4, <2>1, <2>2 DEF L!OpenSession, L!RollBack, TipOnTop, StampsBehind, Quiet
  <2> QED BY <2>2, <2>3, <2>4
<1>5. ASSUME UNCHANGED L!vars PROVE Kept /\ Quiet
  <2>1. L!Committed' = L!Committed
    BY <1>5 DEF L!vars, L!Committed
  <2>2. Quiet
    BY <1>5, <2>1, TipStays DEF L!vars
  <2>3. (TipOnTop /\ TipHeld /\ StampsBehind)'
    BY <1>5, <2>1, <2>2 DEF L!vars, TipOnTop, TipHeld, StampsBehind, Quiet
  <2> QED BY <2>2, <2>3
<1>6. Kept
  BY <1>1, <1>2, <1>3, <1>4, <1>5 DEF L!Next
<1>7. \A r \in Requests : L!Commit(r) => Committing(r)
  BY <1>1
<1>8. (\A r \in Requests : ~L!Commit(r)) => Quiet
  BY <1>2, <1>3, <1>4, <1>5 DEF L!Next
<1> QED BY <1>6, <1>7, <1>8

\* A request that is alone updates the finding to what it left in its session.
LEMMA AloneUpdates ==
  ASSUME TypeOK, NEW r \in Requests, loaded[r] # NotLoaded, loaded[r] = finding, Edits(r)
  PROVE  Updated(r).status = LogRow(r).to
<1>1. Updated(r).status = Edited(r).status
  BY DEF Updated
<1>2. CASE call[r].handler = "assign"
  BY <1>1, <1>2 DEF Edited, LogRow, LogStages
<1>3. CASE call[r].handler = "respond"
  BY <1>1, <1>3 DEF Edited, LogRow, LogStages, TypeOK, Rows
<1> QED BY <1>2, <1>3 DEF Edits

\* A log row more, of a request: the last edit is that row, or what it was.
LEMMA LastEditMoves ==
  ASSUME TypeOK, NEW r \in Requests, workflow_logs' = Append(workflow_logs, LogRow(r)), call' = call
  PROVE  \A i \in LastEdit' :
           IF Edits(r) THEN workflow_logs'[i] = LogRow(r)
           ELSE i \in LastEdit /\ workflow_logs'[i] = workflow_logs[i]
<1> DEFINE n == Len(workflow_logs)
           logs == Append(workflow_logs, LogRow(r))
           E(q) == call[q].handler \in {"assign", "respond"}
<1>1. /\ n \in Nat /\ DOMAIN workflow_logs = 1..n /\ DOMAIN logs = 1..(n + 1)
      /\ \A i \in 1..n : logs[i] = workflow_logs[i]
      /\ logs[n + 1] = LogRow(r)
  BY DEF TypeOK
<1>2. E(logs[n + 1].request) <=> Edits(r)
  BY <1>1 DEF Edits, LogRow
<1>3. \A i \in 1..n : E(logs[i].request) <=> Edits(workflow_logs[i].request)
  BY <1>1 DEF Edits
<1> SUFFICES ASSUME NEW i \in LastEdit'
             PROVE  IF Edits(r) THEN logs[i] = LogRow(r)
                    ELSE i \in LastEdit /\ logs[i] = workflow_logs[i]
  OBVIOUS
<1>4. i \in DOMAIN logs /\ E(logs[i].request) /\ \A j \in DOMAIN logs : j > i => ~E(logs[j].request)
  BY DEF LastEdit, Edits
<1> HIDE DEF n, logs, E
<1>5. i \in 1..(n + 1) /\ \A j \in 1..(n + 1) : j > i => ~E(logs[j].request)
  BY <1>1, <1>4
<1>6. CASE Edits(r)
  BY <1>1, <1>2, <1>4, <1>5, <1>6
<1>7. CASE ~Edits(r)
  <2>1. i \in 1..n
    BY <1>1, <1>2, <1>4, <1>5, <1>7
  <2>2. \A j \in 1..n : j > i => ~Edits(workflow_logs[j].request)
    BY <1>1, <1>3, <1>5
  <2> QED BY <1>1, <1>3, <1>4, <1>7, <2>1, <2>2 DEF LastEdit
<1> QED BY <1>6, <1>7

\* At first nobody is in flight and nothing is logged.
LEMMA SerialInit == Init => SerialInv
<1> SUFFICES ASSUME Init PROVE SerialInv
  OBVIOUS
<1>1. L!InFlight = {} /\ L!Committed = {} /\ \A r \in Requests : pc[r] = "new"
  BY DEF Init, L!Init, L!InFlight, L!Committed
<1>2. TipOnTop /\ TipHeld /\ StampsBehind
  BY <1>1 DEF Init, L!Init, TipOnTop, TipHeld, StampsBehind
<1>3. StatusIsLastStage
  BY DEF Init, StatusIsLastStage, LastEdit
<1> QED BY <1>1, <1>2, <1>3 DEF Init, SerialInv, Alone, LoadedIsFinding, LoadedInFlight

\* If nobody joins whoever is in flight, the request that takes a step is alone.
LEMMA AloneStep ==
  ASSUME TypeOK, Alone, [Next]_vars, UNCHANGED vars \/ Cardinality(L!InFlight') <= 1
  PROVE  Alone'
<1>1. CASE UNCHANGED vars
  BY <1>1 DEF vars, ledger, Alone, L!InFlight
<1>2. ASSUME NEW r \in Requests, Handle(r) \/ RollBack(r), Cardinality(L!InFlight') <= 1 PROVE Alone'
  <2>1. \A q \in Requests \ {r} : pc'[q] = pc[q]
    BY <1>2 DEF Handle, OpenSession, LoadFinding, AppendEntry, InsertRows, UpdateRow, Commit, RollBack,
                ledger, L!OpenSession, L!AppendEntry, L!Flush, L!Commit, L!RollBack, TypeOK, L!TypeOK
  <2>2. L!InFlight' \subseteq L!InFlight \cup {r}
    BY <2>1 DEF L!InFlight
  <2> QED BY <1>2, <2>2, AtMostOne DEF Alone
<1> QED BY <1>1, <1>2 DEF Next

\* A commit that nobody overlapped writes the stage it logs.
LEMMA SerialCommit ==
  ASSUME TypeOK, LoadedFirst, LoadedIsFinding, StatusIsLastStage, NEW r \in Requests, Commit(r)
  PROVE  StatusIsLastStage'
<1>1. pc[r] = "flushed" /\ r \in L!InFlight /\ call' = call
  BY DEF Commit, L!Commit, L!InFlight
<1>2. CASE call[r].handler = "policy"
  BY <1>1, <1>2 DEF Commit, Edits, StatusIsLastStage, LastEdit
<1>3. CASE call[r].handler # "policy"
  <2>1. \A i \in LastEdit' : IF Edits(r) THEN workflow_logs'[i] = LogRow(r)
                              ELSE i \in LastEdit /\ workflow_logs'[i] = workflow_logs[i]
    BY <1>1, <1>3, LastEditMoves DEF Commit
  <2>2. CASE Edits(r)
    <3>1. loaded[r] # NotLoaded /\ loaded[r] = finding
      BY <1>1, <2>2 DEF LoadedFirst, LoadedIsFinding
    <3>2. finding'.status = LogRow(r).to
      BY <2>2, <3>1, AloneUpdates DEF Commit
    <3> QED BY <2>1, <2>2, <3>2 DEF StatusIsLastStage
  <2>3. CASE ~Edits(r)
    BY <2>1, <2>3 DEF Commit, StatusIsLastStage
  <2> QED BY <2>2, <2>3
<1> QED BY <1>2, <1>3

\* The finding part of the serial invariant.
LEMMA SerialFinding ==
  ASSUME TypeOK, LoadedFirst, SerialInv, Alone', [Next]_vars
  PROVE  (LoadedIsFinding /\ LoadedInFlight /\ StatusIsLastStage)'
<1> USE DEF SerialInv
<1> DEFINE Kept == (LoadedIsFinding /\ LoadedInFlight /\ StatusIsLastStage)'
<1>1. ASSUME UNCHANGED <<call, finding, workflow_logs>> PROVE StatusIsLastStage'
  BY <1>1 DEF StatusIsLastStage, LastEdit, Edits
<1> USE DEF TypeOK, L!TypeOK
<1>2. ASSUME NEW r \in Requests, OpenSession(r) PROVE Kept
  <2>1. StatusIsLastStage'
    BY <1>1, <1>2 DEF OpenSession
  <2>2. LoadedIsFinding' /\ LoadedInFlight'
    BY <1>2 DEF OpenSession, L!OpenSession, LoadedIsFinding, LoadedInFlight, L!InFlight
  <2> QED BY <2>1, <2>2
<1>3. ASSUME NEW r \in Requests, LoadFinding(r) PROVE Kept
  <2>1. StatusIsLastStage'
    BY <1>1, <1>3 DEF LoadFinding
  <2>2. LoadedIsFinding' /\ LoadedInFlight'
    BY <1>3 DEF LoadFinding, ledger, LoadedIsFinding, LoadedInFlight, L!InFlight
  <2> QED BY <2>1, <2>2
<1>4. ASSUME NEW r \in Requests, AppendEntry(r) \/ InsertRows(r) \/ UpdateRow(r) \/ RollBack(r) PROVE Kept
  <2>1. StatusIsLastStage'
    BY <1>1, <1>4 DEF AppendEntry, InsertRows, UpdateRow, RollBack
  <2>2. UNCHANGED <<loaded, finding>>
    BY <1>4 DEF AppendEntry, InsertRows, UpdateRow, RollBack
  <2>3. /\ \A q \in Requests : pc'[q] = "new" => pc[q] = "new"
        /\ L!InFlight' \subseteq L!InFlight
    BY <1>4 DEF AppendEntry, InsertRows, UpdateRow, RollBack, ledger, L!AppendEntry, L!Flush, L!RollBack,
                L!InFlight
  <2> QED BY <2>1, <2>2, <2>3 DEF LoadedIsFinding, LoadedInFlight
<1>5. ASSUME NEW r \in Requests, Commit(r) PROVE Kept
  <2>1. StatusIsLastStage'
    BY <1>5, SerialCommit
  <2>2. L!InFlight' = {}
    BY <1>5 DEF Commit, L!Commit, Alone, L!InFlight
  <2>3. LoadedInFlight'
    BY <1>5 DEF Commit, L!Commit, LoadedInFlight
  <2> QED BY <2>1, <2>2, <2>3 DEF LoadedIsFinding
<1>6. ASSUME UNCHANGED vars PROVE Kept
  BY <1>1, <1>6 DEF vars, ledger, LoadedIsFinding, LoadedInFlight, L!InFlight
<1> QED BY <1>2, <1>3, <1>4, <1>5, <1>6 DEF Next, Handle

\* The invariant of a run: the types, and if it is serial what that adds.
RunInv == TypeOK /\ LoadedFirst /\ serial \in BOOLEAN /\ (serial => SerialInv)

\* Every step of a run keeps the invariant.
LEMMA RunStep == RunInv /\ [MCNext]_<<vars, serial>> => RunInv'
<1> SUFFICES ASSUME RunInv, [MCNext]_<<vars, serial>> PROVE RunInv'
  OBVIOUS
<1>1. [Next]_vars /\ serial' = serial
  BY DEF MCNext
<1>2. TypeOK' /\ LoadedFirst'
  BY <1>1, TypeStep DEF RunInv
<1>3. ASSUME serial PROVE SerialInv'
  <2>1. UNCHANGED vars \/ Cardinality(L!InFlight') <= 1
    BY <1>3 DEF MCNext
  <2>2. SerialInv
    BY <1>3 DEF RunInv
  <2>3. Alone'
    BY <1>1, <2>1, <2>2, AloneStep DEF RunInv, SerialInv
  <2>4. (LoadedIsFinding /\ LoadedInFlight /\ StatusIsLastStage)'
    BY <1>1, <2>2, <2>3, SerialFinding DEF RunInv
  <2>5. (TipOnTop /\ TipHeld /\ StampsBehind)'
    BY <1>1, <2>2, <2>3, LedgerStep, SerialLedger DEF RunInv, SerialInv, TypeOK
  <2> QED BY <2>3, <2>4, <2>5 DEF SerialInv
<1> QED BY <1>1, <1>2, <1>3 DEF RunInv

\* A run starts in its invariant.
LEMMA RunInit == MCInit => RunInv
BY TypeInit, SerialInit DEF MCInit, RunInv

\* The invariant of every run, serial or not.
THEOREM RunInvariant == MCSpec => []RunInv
BY RunInit, RunStep, PTL DEF MCSpec

\* With one call at a time the status of the finding is the stage its last
\* workflow log row moved to.
THEOREM SerialStatusAlwaysLastStage == MCSpec => []SerialStatusIsLastStage
<1>1. RunInv => SerialStatusIsLastStage
  BY DEF RunInv, SerialInv, SerialStatusIsLastStage
<1> QED BY <1>1, RunInvariant, PTL

\* A serial run appends to the chain, step by step.
LEMMA ChainStep == RunInv /\ RunInv' /\ [MCNext]_<<vars, serial>> =>
  [Chain!Next]_<<IF serial THEN L!Entries ELSE {}, IF serial THEN L!Tip ELSE GENESIS>>
<1> SUFFICES ASSUME RunInv, RunInv', [MCNext]_<<vars, serial>>
    PROVE [Chain!Next]_<<IF serial THEN L!Entries ELSE {}, IF serial THEN L!Tip ELSE GENESIS>>
  OBVIOUS
<1>1. [Next]_vars /\ serial' = serial /\ serial \in BOOLEAN
  BY DEF MCNext, RunInv
<1>2. CASE ~serial
  BY <1>1, <1>2
<1>3. CASE serial
  <2>1. SerialInv /\ Alone'
    BY <1>1, <1>3 DEF RunInv, SerialInv
  <2>2. /\ \A r \in Requests : L!Commit(r) => Committing(r)
        /\ (\A r \in Requests : ~L!Commit(r)) => Quiet
    BY <1>1, <2>1, LedgerStep, SerialLedger DEF RunInv, SerialInv, TypeOK
  <2>3. ASSUME NEW r \in Requests, Committing(r) PROVE Chain!Append(r)
    <3>1. \A e \in L!Entries : e.id # r
      BY <2>3 DEF Committing, L!Entries
    <3>2. L!Entries' = L!Entries \cup {[id |-> r, parent |-> L!Tip]}
      BY <2>3 DEF Committing, L!Entries
    <3>3. L!Tip' = r
      BY <2>3 DEF Committing
    <3> QED BY <1>1, <1>3, <3>1, <3>2, <3>3 DEF Chain!Append
  <2>4. ASSUME Quiet PROVE L!Entries' = L!Entries /\ L!Tip' = L!Tip
    BY <2>4 DEF Quiet, L!Entries
  <2> QED BY <1>1, <1>3, <2>2, <2>3, <2>4 DEF Chain!Next
<1> QED BY <1>1, <1>2, <1>3

\* With one call at a time the log the handlers share is a hash chain with one
\* tip: every entry names the one committed just before it.
THEOREM SerialImplementsChain == MCSpec => SerialRefinesChain
<1>1. MCInit => Chain!Init
  BY DEF MCInit, Init, L!Init, Chain!Init, L!Entries, L!Tip, L!Committed
<1> QED BY <1>1, ChainStep, RunInvariant, PTL DEF MCSpec, SerialRefinesChain, Chain!Spec

===============================================================================
