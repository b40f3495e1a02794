------------------------- MODULE AlertMonitoringProofs -------------------------
(***************************************************************************)
(* Concurrent sweeps leave at most one open alert per worker and rule, for *)
(* any number of workers, rules, callers and faults: proofs about           *)
(* AlertMonitoring.                                                        *)
(*                                                                         *)
(* A sweep only takes up a rule that has no open alert.  From then on the   *)
(* workers that have taken the rule up and the alerts they commit for it    *)
(* share one budget, the number of workers.                                *)
(***************************************************************************)
EXTENDS AlertMonitoring, SequenceTheorems, FiniteSetTheorems, TLAPS

OpenSwept(r) == {i \in OpenOf(r) : alerts[i].swept}
Adding(r) == {w \in Workers : r \in sweep[w].added}

\* Alerts committed for a rule and sweeps about to commit one.
BudgetKept ==
  \A r \in Rules : Cardinality(OpenSwept(r)) + Cardinality(Adding(r)) <= Cardinality(Workers)

\* What a call has loaded is a row of the table, and rows are never deleted.
LoadedExists == \A c \in Clients : session[c] # NoSession => session[c].alert \in DOMAIN alerts

\* A handled row names its handler, and a name a call has seen is still there.
SignedRow(row) ==
  /\ row.status = "acknowledged" => row.acknowledged_by # NoOne
  /\ row.status = "resolved" => row.resolved_by # NoOne
Signed == \A i \in DOMAIN alerts : SignedRow(alerts[i])
NameOf(row, verb) == IF verb = "acknowledge" THEN row.acknowledged_by ELSE row.resolved_by
NamesStand ==
  \A c \in Clients : session[c].named # NoOne => NameOf(alerts[session[c].alert], session[c].verb) # NoOne

IInv == TypeOK /\ LoadedExists /\ BudgetKept /\ Signed /\ NamesStand
-------------------------------------------------------------------------------
\* A finite set is listed without repetition.
LEMMA ListOf ==
  ASSUME NEW S, IsFiniteSet(S)
  PROVE  /\ SetToSeq(S) \in Seq(S)
         /\ \A i, j \in 1 .. Len(SetToSeq(S)) : SetToSeq(S)[i] = SetToSeq(S)[j] => i = j
<1> DEFINE n == Cardinality(S)
<1>1. n \in Nat /\ ExistsBijection(1 .. n, S)
  BY FS_CardinalityType
<1>2. PICK f : f \in Bijection(1 .. n, S)
  BY <1>1 DEF ExistsBijection
<1>3. f \in [1 .. n -> S] /\ \A a, b \in 1 .. n : f[a] = f[b] => a = b
  BY <1>2 DEF Bijection, Injection, IsInjective
<1>4. \E g \in [1 .. n -> S] : IsInjective(g)
  BY <1>3 DEF IsInjective
<1>5. SetToSeq(S) \in [1 .. n -> S] /\ IsInjective(SetToSeq(S))
  BY <1>4 DEF SetToSeq
<1> HIDE DEF n
<1>6. SetToSeq(S) \in Seq(S) /\ DOMAIN SetToSeq(S) = 1 .. n /\ Len(SetToSeq(S)) = n
  BY <1>1, <1>5
<1> QED BY <1>5, <1>6 DEF IsInjective
-------------------------------------------------------------------------------
WorkerState == [pc : {"idle", "sweeping", "returning"}, retries : 0 .. max_retries,
                todo : SUBSET Rules, triggered : Rules \cup {NoRule}, added : SUBSET Rules]
SessionState == [alert : Nat, verb : Verbs \cup {"none"}, loaded : {"open", "acknowledged", "none"},
                 named : Clients \cup {NoOne}]

\* The variables one at a time, and the alerts by index.
LEMMA Types ==
  ASSUME TypeOK
  PROVE  /\ rules \subseteq Rules /\ drifted \subseteq Rules
         /\ alerts \in Seq(Alert) /\ Len(alerts) \in Nat /\ DOMAIN alerts = 1 .. Len(alerts)
         /\ \A i \in DOMAIN alerts : alerts[i] \in Alert
         /\ queue \in [0 .. max_retries -> Nat]
         /\ sweep \in [Workers -> WorkerState] /\ session \in [Clients -> SessionState]
         /\ faults \in 0 .. MaxFaults /\ calls \in 0 .. MaxCalls
BY LenProperties, ElementOfSeq DEF TypeOK, WorkerState, SessionState

\* The bounds are numbers.
LEMMA Bounds == MaxFaults \in Nat /\ MaxCalls \in Nat
BY BoundsAssumption

\* An alert by hand is added at the end.
LEMMA Created ==
  ASSUME TypeOK, CreateAlert
  PROVE  /\ alerts' \in Seq(Alert) /\ DOMAIN alerts' = DOMAIN alerts \cup {Len(alerts) + 1}
         /\ \A i \in DOMAIN alerts : alerts'[i] = alerts[i]
         /\ alerts'[Len(alerts) + 1].swept = FALSE /\ alerts'[Len(alerts) + 1].status = "open"
<1>1. PICK r \in rules \cup {NoRule} : alerts' = Append(alerts, NewAlert(r, FALSE))
  BY DEF CreateAlert
<1> DEFINE row == NewAlert(r, FALSE)
<1>2. row \in Alert /\ row.swept = FALSE /\ row.status = "open"
  BY <1>1, Types DEF NewAlert, Alert
<1>3. alerts' = Append(alerts, row)
  BY <1>1
<1> HIDE DEF row
<1>4. alerts \in Seq(Alert) /\ Len(alerts) \in Nat /\ DOMAIN alerts = 1 .. Len(alerts)
  BY Types
<1>5. /\ alerts' \in Seq(Alert) /\ Len(alerts') = Len(alerts) + 1
      /\ \A i \in 1 .. Len(alerts) : alerts'[i] = alerts[i]
      /\ alerts'[Len(alerts) + 1] = row
  BY <1>2, <1>3, <1>4, AppendProperties
<1>6. DOMAIN alerts' = 1 .. Len(alerts')
  BY <1>5, LenProperties
<1>7. DOMAIN alerts' = DOMAIN alerts \cup {Len(alerts) + 1}
  BY <1>4, <1>5, <1>6
<1> QED BY <1>2, <1>4, <1>5, <1>7

\* A sweep commits its alerts at the end, one for each rule it has taken up.
LEMMA Committed ==
  ASSUME TypeOK, NEW w \in Workers, CommitSweep(w)
  PROVE  /\ alerts' \in Seq(Alert) /\ DOMAIN alerts \subseteq DOMAIN alerts'
         /\ \A i \in DOMAIN alerts : alerts'[i] = alerts[i]
         /\ \A i \in DOMAIN alerts' \ DOMAIN alerts :
              alerts'[i].rule \in sweep[w].added /\ alerts'[i].status = "open"
         /\ \A i, j \in DOMAIN alerts' \ DOMAIN alerts : alerts'[i].rule = alerts'[j].rule => i = j
<1> DEFINE added == sweep[w].added
           New == {NewAlert(r, TRUE) : r \in added}
           list == SetToSeq(New)
<1>1. alerts \in Seq(Alert) /\ Len(alerts) \in Nat /\ DOMAIN alerts = 1 .. Len(alerts)
      /\ added \subseteq Rules
  BY Types DEF WorkerState
<1> DEFINE Row(r) == NewAlert(r, TRUE)
<1>3. \A r : Row(r).rule = r /\ Row(r).status = "open"
  BY DEF NewAlert
<1>2. New \subseteq Alert
  <2> SUFFICES ASSUME NEW r \in added PROVE Row(r) \in Alert
    OBVIOUS
  <2>1. r \in Rules
    BY <1>1
  <2> QED BY <2>1 DEF NewAlert, Alert
<1>15. New = {Row(r) : r \in added}
  OBVIOUS
<1> HIDE DEF Row
<1>4. IsFiniteSet(New)
  <2> DEFINE f == [r \in added |-> Row(r)]
  <2>1. IsFiniteSet(added)
    BY <1>1, RulesAssumption, FS_Subset
  <2>2. f \in [added -> New] /\ \A a, b \in added : f[a] = f[b] => a = b
    <3>1. \A r \in added : Row(r) \in New
      BY <1>15
    <3> HIDE DEF New, added
    <3>2. f \in [added -> New]
      BY <3>1
    <3>3. ASSUME NEW a \in added, NEW b \in added, f[a] = f[b] PROVE a = b
      <4>1. Row(a) = Row(b)
        BY <3>3
      <4>2. Row(a).rule = Row(b).rule
        BY <4>1
      <4> QED BY <1>3, <4>2
    <3> QED BY <3>2, <3>3
  <2>3. \A e \in New : \E r \in added : f[r] = e
    BY <1>15
  <2> HIDE DEF f, New
  <2>4. f \in Bijection(added, New)
    BY <2>2, <2>3 DEF Bijection, Injection, Surjection, IsInjective
  <2> QED BY <2>1, <2>4, FS_Bijection DEF ExistsBijection
<1>5. alerts' = alerts \o list
  BY DEF CommitSweep
<1>6. /\ list \in Seq(New) /\ Len(list) \in Nat
      /\ \A i, j \in 1 .. Len(list) : list[i] = list[j] => i = j
  <2> HIDE DEF New
  <2>1. /\ list \in Seq(New)
        /\ \A i, j \in 1 .. Len(list) : list[i] = list[j] => i = j
    BY <1>4, ListOf
  <2> HIDE DEF list
  <2> QED BY <2>1, LenProperties
<1>7. list \in Seq(Alert)
  <2> HIDE DEF New, list
  <2> QED BY <1>2, <1>6, SeqMonotonic
<1>8. \A j \in 1 .. Len(list) : list[j] \in New
  <2> HIDE DEF New, list
  <2> QED BY <1>6, ElementOfSeq
<1>9. \A j \in 1 .. Len(list) : /\ list[j].rule \in added /\ list[j].status = "open"
                               /\ list[j] = Row(list[j].rule)
  BY <1>3, <1>8, <1>15
<1> HIDE DEF list
<1>10. /\ alerts' \in Seq(Alert) /\ Len(alerts') = Len(alerts) + Len(list)
       /\ \A i \in 1 .. Len(alerts) + Len(list) :
            alerts'[i] = IF i <= Len(alerts) THEN alerts[i] ELSE list[i - Len(alerts)]
  BY <1>1, <1>5, <1>7, ConcatProperties
<1>11. DOMAIN alerts' = 1 .. (Len(alerts) + Len(list))
  BY <1>10, LenProperties
<1>12. \A i \in DOMAIN alerts' \ DOMAIN alerts :
         i - Len(alerts) \in 1 .. Len(list) /\ alerts'[i] = list[i - Len(alerts)]
  BY <1>1, <1>6, <1>10, <1>11
<1>13. \A i \in DOMAIN alerts : i \in DOMAIN alerts' /\ alerts'[i] = alerts[i]
  BY <1>1, <1>6, <1>10, <1>11
<1>14. ASSUME NEW i \in DOMAIN alerts' \ DOMAIN alerts, NEW j \in DOMAIN alerts' \ DOMAIN alerts,
              alerts'[i].rule = alerts'[j].rule
       PROVE  i = j
  <2>1. i - Len(alerts) = j - Len(alerts)
    BY <1>6, <1>9, <1>12, <1>14
  <2> QED BY <1>1, <1>11, <2>1
<1> QED BY <1>9, <1>10, <1>12, <1>13, <1>14

\* The name a call loads is the one its verb writes.
LEMMA NamedAs == \A row, verb : row[Mark[Done(verb)]] = NameOf(row, verb)
BY DEF Mark, Done, NameOf

\* A call writes its verb's status and, unless it found it there, its caller's
\* name.
LEMMA HandledRow ==
  ASSUME NEW row \in Alert, NEW verb, NEW c \in Clients
  PROVE  /\ Handled(row, verb, c) \in Alert
         /\ Handled(row, verb, c).rule = row.rule /\ Handled(row, verb, c).swept = row.swept
         /\ Handled(row, verb, c).status = Done(verb)
         /\ Handled(row, verb, c).acknowledged_by =
              IF verb = "acknowledge" /\ session[c].named # c THEN c ELSE row.acknowledged_by
         /\ Handled(row, verb, c).resolved_by =
              IF verb # "acknowledge" /\ session[c].named # c THEN c ELSE row.resolved_by
<1>1. Handled(row, verb, c) = [row EXCEPT !.status = Done(verb),
                                 ![Mark[Done(verb)]] = IF session[c].named = c THEN @ ELSE c]
  BY DEF Handled
<1>2. Mark["acknowledged"] = "acknowledged_by" /\ Mark["resolved"] = "resolved_by"
  BY DEF Mark
<1>3. CASE verb = "acknowledge"
  <2>1. Mark[Done(verb)] = "acknowledged_by" /\ Done(verb) = "acknowledged"
    BY <1>2, <1>3 DEF Done
  <2>2. Handled(row, verb, c) = [row EXCEPT !.status = "acknowledged",
                                   !.acknowledged_by = IF session[c].named = c THEN @ ELSE c]
    BY <1>1, <2>1
  <2> QED BY <1>3, <2>1, <2>2 DEF Alert
<1>4. CASE verb # "acknowledge"
  <2>1. Mark[Done(verb)] = "resolved_by" /\ Done(verb) = "resolved"
    BY <1>2, <1>4 DEF Done
  <2>2. Handled(row, verb, c) = [row EXCEPT !.status = "resolved",
                                   !.resolved_by = IF session[c].named = c THEN @ ELSE c]
    BY <1>1, <2>1
  <2> QED BY <1>4, <2>1, <2>2 DEF Alert
<1> QED BY <1>3, <1>4

\* A call rewrites one row and leaves it handled.
LEMMA Rewritten ==
  ASSUME TypeOK, LoadedExists, NEW c \in Clients, CommitCall(c)
  PROVE  /\ alerts' \in Seq(Alert) /\ DOMAIN alerts' = DOMAIN alerts
         /\ \A i \in DOMAIN alerts :
              /\ alerts'[i].rule = alerts[i].rule /\ alerts'[i].swept = alerts[i].swept
              /\ alerts'[i].status = "open" => alerts[i].status = "open"
<1> DEFINE n == session[c].alert
           row == Handled(alerts[n], session[c].verb, c)
<1>1. /\ alerts \in Seq(Alert) /\ Len(alerts) \in Nat /\ DOMAIN alerts = 1 .. Len(alerts)
      /\ \A i \in DOMAIN alerts : alerts[i] \in Alert
  BY Types
<1>2. n \in DOMAIN alerts
  BY DEF CommitCall, LoadedExists
<1>3. /\ row \in Alert /\ row.rule = alerts[n].rule /\ row.swept = alerts[n].swept
      /\ row.status # "open"
  <2>1. alerts[n] \in Alert
    BY <1>1, <1>2
  <2> HIDE DEF n
  <2> QED BY <2>1, HandledRow DEF Done
<1>4. alerts' = [alerts EXCEPT ![n] = row]
  BY DEF CommitCall
<1> HIDE DEF row, n
<1>5. /\ alerts' \in Seq(Alert) /\ Len(alerts') = Len(alerts)
      /\ \A i \in 1 .. Len(alerts) : alerts'[i] = IF i = n THEN row ELSE alerts[i]
  BY <1>1, <1>2, <1>3, <1>4, ExceptSeq
<1>6. DOMAIN alerts' = DOMAIN alerts
  BY <1>1, <1>4
<1> QED BY <1>1, <1>3, <1>5, <1>6

\* A call takes no name from a row, and signs the row it handled.
LEMMA Marked ==
  ASSUME TypeOK, LoadedExists, Signed, NamesStand, NEW c \in Clients, CommitCall(c), NEW i \in DOMAIN alerts
  PROVE  /\ alerts'[i].acknowledged_by = NoOne => alerts[i].acknowledged_by = NoOne
         /\ alerts'[i].resolved_by = NoOne => alerts[i].resolved_by = NoOne
         /\ SignedRow(alerts'[i])
<1> DEFINE n == session[c].alert
           row == Handled(alerts[n], session[c].verb, c)
<1>1. /\ DOMAIN alerts = 1 .. Len(alerts) /\ alerts \in Seq(Alert) /\ Len(alerts) \in Nat
      /\ \A k \in DOMAIN alerts : alerts[k] \in Alert
  BY Types
<1>2. n \in DOMAIN alerts
  BY DEF CommitCall, LoadedExists
<1>3. alerts' = [alerts EXCEPT ![n] = row]
  BY DEF CommitCall
<1>4. c # NoOne
  BY NoOneAssumption
<1>5. session[c].named = c => NameOf(alerts[n], session[c].verb) # NoOne
  BY <1>4 DEF NamesStand
<1>6. SignedRow(alerts[i])
  BY DEF Signed
<1>7. CASE i # n
  <2>1. alerts'[i] = alerts[i]
    <3> HIDE DEF row, n
    <3> QED BY <1>1, <1>2, <1>3, <1>7
  <2> QED BY <1>6, <2>1
<1>8. CASE i = n
  <2>1. alerts'[i] = row
    <3> HIDE DEF row, n
    <3> QED BY <1>1, <1>2, <1>3, <1>8
  <2>2. alerts[n] \in Alert
    BY <1>1, <1>2
  <2> DEFINE verb == session[c].verb
             old == alerts[n]
  <2>3. SignedRow(old) /\ row = Handled(old, verb, c) /\ alerts[i] = old
    BY <1>6, <1>8
  <2>4. session[c].named = c => NameOf(old, verb) # NoOne
    BY <1>5
  <2> HIDE DEF n, verb, old
  <2> QED BY <1>4, <2>1, <2>2, <2>3, <2>4, HandledRow DEF SignedRow, NameOf, Done, old
<1> QED BY <1>7, <1>8
-------------------------------------------------------------------------------
\* The types hold at the start.
LEMMA TypeInit == Init => TypeOK
<1> SUFFICES ASSUME Init PROVE TypeOK
  OBVIOUS
<1>1. alerts \in Seq(Alert)
  BY EmptySeq DEF Init
<1>2. Idle \in WorkerState /\ NoSession \in SessionState
  BY DEF Idle, WorkerState, NoSession, SessionState, max_retries
<1>3. faults \in 0 .. MaxFaults /\ calls \in 0 .. MaxCalls
  BY Bounds DEF Init
<1>4. queue \in [0 .. max_retries -> Nat]
  BY DEF Init
<1> QED BY <1>1, <1>2, <1>3, <1>4 DEF Init, TypeOK, WorkerState, SessionState

\* Every step keeps the types.
LEMMA TypeStep == ASSUME TypeOK, LoadedExists, [Next]_vars PROVE TypeOK'
<1> USE Bounds, Types
<1>1. Idle \in WorkerState /\ NoSession \in SessionState
  BY DEF Idle, WorkerState, NoSession, SessionState, max_retries
<1>2. ASSUME /\ rules' \subseteq Rules /\ drifted' \subseteq Rules /\ alerts' \in Seq(Alert)
             /\ queue' \in [0 .. max_retries -> Nat]
             /\ sweep' \in [Workers -> WorkerState] /\ session' \in [Clients -> SessionState]
             /\ faults' \in 0 .. MaxFaults /\ calls' \in 0 .. MaxCalls
      PROVE  TypeOK'
  BY <1>2 DEF TypeOK, WorkerState, SessionState
<1>3. CASE Drift \/ Tick \/ CreateRule \/ UNCHANGED vars
  <2>1. CASE Drift
    BY <1>2, <2>1, RulesAssumption DEF Drift
  <2>2. CASE Tick
    BY <1>2, <2>2 DEF Tick, monitoring, max_retries
  <2>3. CASE CreateRule
    BY <1>2, <2>3 DEF CreateRule
  <2>4. CASE UNCHANGED vars
    BY <1>2, <2>4 DEF vars, monitoring
  <2> QED BY <1>3, <2>1, <2>2, <2>3, <2>4
<1>4. CASE CreateAlert
  <2>1. alerts' \in Seq(Alert)
    BY <1>4, Created
  <2>2. /\ calls' \in 0 .. MaxCalls
        /\ UNCHANGED <<rules, drifted, queue, sweep, session, faults>>
    BY <1>4 DEF CreateAlert
  <2> QED BY <1>2, <2>1, <2>2
<1>5. ASSUME NEW w \in Workers, Take(w) PROVE TypeOK'
  <2>1. PICK k \in 0 .. max_retries :
          /\ queue[k] > 0 /\ queue' = [queue EXCEPT ![k] = @ - 1]
          /\ sweep' = [sweep EXCEPT ![w] = [Idle EXCEPT !.pc = "sweeping", !.retries = k, !.todo = rules]]
    BY <1>5 DEF Take
  <2>2. [Idle EXCEPT !.pc = "sweeping", !.retries = k, !.todo = rules] \in WorkerState
    BY <2>1 DEF Idle, WorkerState
  <2>3. queue' \in [0 .. max_retries -> Nat]
    BY <2>1
  <2> QED BY <1>2, <1>5, <2>1, <2>2, <2>3 DEF Take, monitoring
<1>6. ASSUME NEW w \in Workers, EvaluateRule(w) PROVE TypeOK'
  <2>1. sweep' \in [Workers -> WorkerState]
    <3>1. PICK r \in sweep[w].todo :
            sweep' = [sweep EXCEPT ![w].todo = @ \ {r},
                                   ![w].triggered = IF Breached(r) THEN r ELSE NoRule]
      BY <1>6 DEF EvaluateRule
    <3>2. r \in Rules
      BY DEF WorkerState
    <3> DEFINE next == IF Breached(r) THEN r ELSE NoRule
               rest == sweep[w].todo \ {r}
    <3>3. next \in Rules \cup {NoRule} /\ rest \in SUBSET Rules
      BY <3>2 DEF WorkerState
    <3>4. sweep' = [sweep EXCEPT ![w] = [sweep[w] EXCEPT !.todo = rest, !.triggered = next]]
      BY <3>1
    <3> HIDE DEF next, rest
    <3>5. [sweep[w] EXCEPT !.todo = rest, !.triggered = next] \in WorkerState
      <4>1. sweep[w] \in WorkerState
        OBVIOUS
      <4> QED BY <3>3, <4>1 DEF WorkerState
    <3> QED BY <3>4, <3>5
  <2> QED BY <1>2, <1>6, <2>1 DEF EvaluateRule, monitoring
<1>7. ASSUME NEW w \in Workers, CheckDuplicate(w) PROVE TypeOK'
  <2>1. sweep' \in [Workers -> WorkerState]
    <3> DEFINE r == sweep[w].triggered
               next == IF HasOpenAlert(r) THEN sweep[w].added ELSE sweep[w].added \cup {r}
    <3>1. r \in Rules
      BY <1>7 DEF CheckDuplicate, WorkerState
    <3>2. next \in SUBSET Rules
      BY <3>1 DEF WorkerState
    <3>3. sweep' = [sweep EXCEPT ![w].triggered = NoRule, ![w].added = next]
      BY <1>7 DEF CheckDuplicate
    <3> HIDE DEF next
    <3>4. sweep' = [sweep EXCEPT ![w] = [sweep[w] EXCEPT !.triggered = NoRule, !.added = next]]
      BY <3>3
    <3>5. [sweep[w] EXCEPT !.triggered = NoRule, !.added = next] \in WorkerState
      BY <3>2 DEF WorkerState
    <3> QED BY <3>4, <3>5
  <2> QED BY <1>2, <1>7, <2>1 DEF CheckDuplicate, monitoring
<1>8. ASSUME NEW w \in Workers, CommitSweep(w) PROVE TypeOK'
  <2>1. sweep' \in [Workers -> WorkerState]
    BY <1>8 DEF CommitSweep, WorkerState, Idle
  <2> QED BY <1>2, <1>8, <2>1, Committed DEF CommitSweep
<1>9. ASSUME NEW w \in Workers, AckMessage(w) PROVE TypeOK'
  BY <1>1, <1>2, <1>9 DEF AckMessage, monitoring
<1>10. ASSUME NEW w \in Workers, FailTask(w) PROVE TypeOK'
  <2>1. sweep[w].retries \in 0 .. max_retries
    BY DEF WorkerState
  <2>2. queue' \in [0 .. max_retries -> Nat]
    BY <1>10, <2>1 DEF FailTask, max_retries
  <2>3. faults' \in 0 .. MaxFaults
    BY <1>10 DEF FailTask
  <2> QED BY <1>1, <1>2, <1>10, <2>2, <2>3 DEF FailTask, monitoring
<1>11. ASSUME NEW w \in Workers, LoseWorker(w) PROVE TypeOK'
  <2>1. sweep[w].retries \in 0 .. max_retries
    BY DEF WorkerState
  <2>2. queue' \in [0 .. max_retries -> Nat]
    BY <1>11, <2>1 DEF LoseWorker
  <2>3. faults' \in 0 .. MaxFaults
    BY <1>11 DEF LoseWorker
  <2> QED BY <1>1, <1>2, <1>11, <2>2, <2>3 DEF LoseWorker, monitoring
<1>12. ASSUME NEW c \in Clients, LoadAlert(c) PROVE TypeOK'
  <2>1. PICK i \in DOMAIN alerts, verb \in Verbs :
          /\ Accepts(verb, alerts[i].status)
          /\ session' = [session EXCEPT ![c] = [alert |-> i, verb |-> verb, loaded |-> alerts[i].status,
                                                named |-> alerts[i][Mark[Done(verb)]]]]
    BY <1>12 DEF LoadAlert
  <2>2. /\ alerts[i].status \in {"open", "acknowledged"} /\ i \in Nat
        /\ alerts[i][Mark[Done(verb)]] \in Clients \cup {NoOne}
    <3>1. alerts[i] \in Alert /\ alerts[i][Mark[Done(verb)]] = NameOf(alerts[i], verb)
      BY NamedAs
    <3>2. NameOf(alerts[i], verb) \in Clients \cup {NoOne}
      BY <3>1 DEF Alert, NameOf
    <3> QED BY <2>1, <3>1, <3>2 DEF Accepts, Alert, Verbs
  <2>3. session' \in [Clients -> SessionState]
    BY <2>1, <2>2 DEF SessionState
  <2>4. calls' \in 0 .. MaxCalls
    BY <1>12 DEF LoadAlert
  <2> QED BY <1>2, <1>12, <2>3, <2>4 DEF LoadAlert, monitoring
<1>13. ASSUME NEW c \in Clients, CommitCall(c) PROVE TypeOK'
  BY <1>1, <1>2, <1>13, Rewritten DEF CommitCall
<1>14. ASSUME NEW c \in Clients, DropCall(c) PROVE TypeOK'
  BY <1>1, <1>2, <1>14 DEF DropCall, monitoring
<1> QED
  BY <1>3, <1>4, <1>5, <1>6, <1>7, <1>8, <1>9, <1>10, <1>11, <1>12, <1>13, <1>14
  DEF Next, Work

\* The table only grows, so that what was loaded is still there.
LEMMA LoadedStep == ASSUME TypeOK, LoadedExists, [Next]_vars PROVE LoadedExists'
<1>1. DOMAIN alerts \subseteq DOMAIN alerts'
  <2>1. CASE CreateAlert
    BY <2>1, Created
  <2>2. ASSUME NEW w \in Workers, CommitSweep(w) PROVE DOMAIN alerts \subseteq DOMAIN alerts'
    BY <2>2, Committed
  <2>3. ASSUME NEW c \in Clients, CommitCall(c) PROVE DOMAIN alerts \subseteq DOMAIN alerts'
    BY <2>3, Rewritten
  <2>4. ASSUME NEW w \in Workers,
               Take(w) \/ EvaluateRule(w) \/ CheckDuplicate(w) \/ AckMessage(w) \/ FailTask(w) \/ LoseWorker(w)
        PROVE  alerts' = alerts
    BY <2>4 DEF Take, EvaluateRule, CheckDuplicate, AckMessage, FailTask, LoseWorker, monitoring
  <2>5. ASSUME NEW c \in Clients, LoadAlert(c) \/ DropCall(c) PROVE alerts' = alerts
    BY <2>5 DEF LoadAlert, DropCall, monitoring
  <2>6. CASE Drift \/ Tick \/ CreateRule \/ UNCHANGED vars
    BY <2>6 DEF Drift, Tick, CreateRule, vars, monitoring
  <2> QED BY <2>1, <2>2, <2>3, <2>4, <2>5, <2>6 DEF Next, Work
<1>2. ASSUME NEW c \in Clients, session'[c] # NoSession
      PROVE  session'[c] = session[c] \/ session'[c].alert \in DOMAIN alerts
  <2>1. session \in [Clients -> SessionState]
    BY Types
  <2>2. ASSUME NEW d \in Clients, LoadAlert(d) PROVE session'[c] = session[c] \/ session'[c].alert \in DOMAIN alerts
    <3>1. PICK i \in DOMAIN alerts, verb \in Verbs :
            session' = [session EXCEPT ![d] = [alert |-> i, verb |-> verb, loaded |-> alerts[i].status,
                                                  named |-> alerts[i][Mark[Done(verb)]]]]
      BY <2>2 DEF LoadAlert
    <3> QED BY <2>1, <3>1
  <2>3. ASSUME NEW d \in Clients, CommitCall(d) \/ DropCall(d) PROVE session'[c] = session[c]
    BY <1>2, <2>1, <2>3 DEF CommitCall, DropCall
  <2>4. ASSUME NEW w \in Workers, Work(w) \/ FailTask(w) \/ LoseWorker(w) PROVE session' = session
    BY <2>4 DEF Work, Take, EvaluateRule, CheckDuplicate, CommitSweep, AckMessage, FailTask, LoseWorker
  <2>5. CASE Drift \/ Tick \/ CreateRule \/ CreateAlert \/ UNCHANGED vars
    BY <2>5 DEF Drift, Tick, CreateRule, CreateAlert, vars
  <2> QED BY <2>2, <2>3, <2>4, <2>5 DEF Next
<1> QED BY <1>1, <1>2 DEF LoadedExists

\* What every step does to a row that is there: it keeps its names, and signs
\* what it handled; a row that is new is open.
LEMMA RowsStep ==
  ASSUME TypeOK, LoadedExists, Signed, NamesStand, [Next]_vars
  PROVE  /\ \A i \in DOMAIN alerts :
              /\ i \in DOMAIN alerts'
              /\ alerts'[i].acknowledged_by = NoOne => alerts[i].acknowledged_by = NoOne
              /\ alerts'[i].resolved_by = NoOne => alerts[i].resolved_by = NoOne
              /\ SignedRow(alerts'[i])
         /\ \A i \in DOMAIN alerts' \ DOMAIN alerts : alerts'[i].status = "open"
<1>1. \A i \in DOMAIN alerts : SignedRow(alerts[i])
  BY DEF Signed
<1>2. CASE UNCHANGED alerts
  BY <1>1, <1>2
<1>3. CASE CreateAlert
  BY <1>1, <1>3, Created
<1>4. CASE \E w \in Workers : CommitSweep(w)
  BY <1>1, <1>4, Committed
<1>5. CASE \E c \in Clients : CommitCall(c)
  <2>1. PICK c \in Clients : CommitCall(c)
    BY <1>5
  <2>2. DOMAIN alerts' = DOMAIN alerts
    BY <2>1, Rewritten
  <2> QED BY <2>1, <2>2, Marked
<1>6. \/ UNCHANGED alerts \/ CreateAlert
      \/ \E w \in Workers : CommitSweep(w)
      \/ \E c \in Clients : CommitCall(c)
  BY DEF Next, Work, vars, monitoring, Drift, Tick, Take, EvaluateRule, CheckDuplicate, AckMessage,
         FailTask, LoseWorker, CreateRule, LoadAlert, DropCall
<1> QED BY <1>2, <1>3, <1>4, <1>5, <1>6

\* Handled rows stay signed.
LEMMA SignedStep == ASSUME TypeOK, LoadedExists, Signed, NamesStand, [Next]_vars PROVE Signed'
<1>1. ASSUME NEW i \in DOMAIN alerts' PROVE SignedRow(alerts'[i])
  <2>1. CASE i \in DOMAIN alerts
    BY <2>1, RowsStep
  <2>2. CASE i \notin DOMAIN alerts
    <3>1. alerts'[i].status = "open"
      BY <2>2, RowsStep
    <3> QED BY <3>1 DEF SignedRow
  <2> QED BY <2>1, <2>2
<1> QED BY <1>1 DEF Signed, SignedRow

\* A call that has seen a name still finds one when it commits.
LEMMA NamesStep == ASSUME TypeOK, LoadedExists, Signed, NamesStand, [Next]_vars PROVE NamesStand'
<1>1. session \in [Clients -> SessionState] /\ NoSession.named = NoOne
  BY Types DEF NoSession
<1>2. ASSUME NEW c \in Clients, session'[c].named # NoOne
      PROVE  NameOf(alerts'[session'[c].alert], session'[c].verb) # NoOne
  <2>1. \/ session'[c] = session[c]
        \/ /\ session'[c].alert \in DOMAIN alerts
           /\ NameOf(alerts[session'[c].alert], session'[c].verb) # NoOne
    <3>1. ASSUME NEW d \in Clients, LoadAlert(d), session'[c] # session[c]
          PROVE  /\ session'[c].alert \in DOMAIN alerts
                 /\ NameOf(alerts[session'[c].alert], session'[c].verb) # NoOne
      <4>1. PICK i \in DOMAIN alerts, verb \in Verbs :
              session' = [session EXCEPT ![d] = [alert |-> i, verb |-> verb, loaded |-> alerts[i].status,
                                                 named |-> alerts[i][Mark[Done(verb)]]]]
        BY <3>1 DEF LoadAlert
      <4>2. /\ session'[c].alert = i /\ session'[c].verb = verb
            /\ session'[c].named = alerts[i][Mark[Done(verb)]]
        BY <1>1, <3>1, <4>1
      <4> QED BY <1>2, <4>1, <4>2, NamedAs
    <3>2. ASSUME NEW d \in Clients, CommitCall(d) \/ DropCall(d) PROVE session'[c] = session[c]
      BY <1>1, <1>2, <3>2 DEF CommitCall, DropCall
    <3>3. ASSUME NEW w \in Workers, Work(w) \/ FailTask(w) \/ LoseWorker(w) PROVE session' = session
      BY <3>3 DEF Work, Take, EvaluateRule, CheckDuplicate, CommitSweep, AckMessage, FailTask, LoseWorker
    <3>4. CASE Drift \/ Tick \/ CreateRule \/ CreateAlert \/ UNCHANGED vars
      BY <3>4 DEF Drift, Tick, CreateRule, CreateAlert, vars
    <3> QED BY <3>1, <3>2, <3>3, <3>4 DEF Next
  <2>2. /\ session'[c].alert \in DOMAIN alerts
        /\ NameOf(alerts[session'[c].alert], session'[c].verb) # NoOne
    <3>1. CASE session'[c] = session[c]
      <4>1. session[c] # NoSession
        BY <1>1, <1>2, <3>1
      <4> QED BY <1>2, <3>1, <4>1 DEF LoadedExists, NamesStand
    <3> QED BY <2>1, <3>1
  <2> QED BY <2>2, RowsStep DEF NameOf
<1> QED BY <1>2 DEF NamesStand, NameOf

\* A rule's alerts and the sweeps about to add one are finitely many.
LEMMA Finite ==
  ASSUME TypeOK, NEW r
  PROVE  /\ IsFiniteSet(OpenSwept(r)) /\ Cardinality(OpenSwept(r)) \in Nat
         /\ IsFiniteSet(Adding(r)) /\ Cardinality(Adding(r)) \in Nat
         /\ Cardinality(Adding(r)) <= Cardinality(Workers) /\ Cardinality(Workers) \in Nat
<1>1. IsFiniteSet(1 .. Len(alerts)) /\ OpenSwept(r) \subseteq 1 .. Len(alerts)
  <2>1. Len(alerts) \in Nat /\ DOMAIN alerts = 1 .. Len(alerts)
    BY Types
  <2>2. \A n \in Nat : IsFiniteSet(1 .. n)
    BY FS_Interval
  <2> QED BY <2>1, <2>2 DEF OpenSwept, OpenOf
<1>2. IsFiniteSet(Workers) /\ Adding(r) \subseteq Workers
  BY WorkersAssumption DEF Adding
<1> QED BY <1>1, <1>2, FS_Subset, FS_CardinalityType

\* A step that opens no alert of a rule and lets no sweep take it up.
LEMMA BudgetShrinks ==
  ASSUME TypeOK, NEW r \in Rules, BudgetKept,
         OpenSwept(r)' \subseteq OpenSwept(r), Adding(r)' \subseteq Adding(r)
  PROVE  Cardinality(OpenSwept(r)') + Cardinality(Adding(r)') <= Cardinality(Workers)
<1>1. /\ IsFiniteSet(OpenSwept(r)) /\ Cardinality(OpenSwept(r)) \in Nat
      /\ IsFiniteSet(Adding(r)) /\ Cardinality(Adding(r)) \in Nat /\ Cardinality(Workers) \in Nat
  BY Finite
<1>2. Cardinality(OpenSwept(r)') <= Cardinality(OpenSwept(r)) /\ Cardinality(OpenSwept(r)') \in Nat
  BY <1>1, FS_Subset, FS_CardinalityType
<1>3. Cardinality(Adding(r)') <= Cardinality(Adding(r)) /\ Cardinality(Adding(r)') \in Nat
  BY <1>1, FS_Subset, FS_CardinalityType
<1> QED BY <1>1, <1>2, <1>3 DEF BudgetKept

\* A sweep takes a rule up only when it has no open alert at all; its commit
\* turns one sweep of the rule into one alert.
LEMMA BudgetStep == ASSUME IInv, [Next]_vars PROVE BudgetKept'
<1>1. TypeOK /\ LoadedExists /\ BudgetKept /\ sweep \in [Workers -> WorkerState]
  BY Types DEF IInv
<1> SUFFICES ASSUME NEW r \in Rules
             PROVE  Cardinality(OpenSwept(r)') + Cardinality(Adding(r)') <= Cardinality(Workers)
  BY DEF BudgetKept
<1>2. ASSUME alerts' = alerts PROVE OpenSwept(r)' = OpenSwept(r)
  BY <1>2 DEF OpenSwept, OpenOf
<1>3. ASSUME sweep' = sweep PROVE Adding(r)' = Adding(r)
  BY <1>3 DEF Adding
<1>4. ASSUME NEW w \in Workers, alerts' = alerts,
             \A v \in Workers : r \in sweep'[v].added => r \in sweep[v].added
      PROVE  Cardinality(OpenSwept(r)') + Cardinality(Adding(r)') <= Cardinality(Workers)
  <2>1. Adding(r)' \subseteq Adding(r)
    BY <1>4 DEF Adding
  <2> QED BY <1>1, <1>2, <1>4, <2>1, BudgetShrinks
<1>5. ASSUME NEW w \in Workers, Take(w) \/ AckMessage(w) \/ FailTask(w) \/ LoseWorker(w)
      PROVE  Cardinality(OpenSwept(r)') + Cardinality(Adding(r)') <= Cardinality(Workers)
  <2>1. alerts' = alerts
    BY <1>5 DEF Take, AckMessage, FailTask, LoseWorker, monitoring
  <2>2. \E s : s.added = {} /\ sweep' = [sweep EXCEPT ![w] = s]
    BY <1>5 DEF Take, AckMessage, FailTask, LoseWorker, Idle
  <2>3. \A v \in Workers : r \in sweep'[v].added => r \in sweep[v].added
    BY <1>1, <2>2
  <2> QED BY <1>4, <2>1, <2>3
<1>6. ASSUME NEW w \in Workers, EvaluateRule(w)
      PROVE  Cardinality(OpenSwept(r)') + Cardinality(Adding(r)') <= Cardinality(Workers)
  <2>1. alerts' = alerts
    BY <1>6 DEF EvaluateRule, monitoring
  <2>2. \A v \in Workers : r \in sweep'[v].added => r \in sweep[v].added
    BY <1>1, <1>6 DEF EvaluateRule, WorkerState
  <2> QED BY <1>4, <2>1, <2>2
<1>7. ASSUME NEW w \in Workers, CheckDuplicate(w)
      PROVE  Cardinality(OpenSwept(r)') + Cardinality(Adding(r)') <= Cardinality(Workers)
  <2>1. alerts' = alerts
    BY <1>7 DEF CheckDuplicate, monitoring
  <2>2. CASE sweep[w].triggered = r /\ ~HasOpenAlert(r)
    <3>1. OpenSwept(r)' = {}
      BY <1>2, <2>1, <2>2 DEF HasOpenAlert, OpenSwept
    <3>2. Adding(r)' \subseteq Workers
      BY DEF Adding
    <3>3. Cardinality(Adding(r)') <= Cardinality(Workers) /\ Cardinality(Adding(r)') \in Nat
      BY <3>2, WorkersAssumption, FS_Subset, FS_CardinalityType
    <3> QED BY <1>1, <3>1, <3>3, FS_EmptySet, Finite
  <2>3. CASE ~(sweep[w].triggered = r /\ ~HasOpenAlert(r))
    <3>1. \A v \in Workers : r \in sweep'[v].added => r \in sweep[v].added
      BY <1>1, <1>7, <2>3 DEF CheckDuplicate, WorkerState
    <3> QED BY <1>4, <2>1, <3>1
  <2> QED BY <2>2, <2>3
<1>8. ASSUME NEW w \in Workers, CommitSweep(w)
      PROVE  Cardinality(OpenSwept(r)') + Cardinality(Adding(r)') <= Cardinality(Workers)
  <2>1. /\ DOMAIN alerts \subseteq DOMAIN alerts'
        /\ \A i \in DOMAIN alerts : alerts'[i] = alerts[i]
        /\ \A i \in DOMAIN alerts' \ DOMAIN alerts : alerts'[i].rule \in sweep[w].added
        /\ \A i, j \in DOMAIN alerts' \ DOMAIN alerts : alerts'[i].rule = alerts'[j].rule => i = j
    BY <1>1, <1>8, Committed
  <2>2. Adding(r)' = Adding(r) \ {w}
    BY <1>1, <1>8 DEF CommitSweep, Adding, Idle
  <2>3. /\ IsFiniteSet(OpenSwept(r)) /\ Cardinality(OpenSwept(r)) \in Nat
        /\ IsFiniteSet(Adding(r)) /\ Cardinality(Adding(r)) \in Nat /\ Cardinality(Workers) \in Nat
    BY <1>1, Finite
  <2>4. OpenSwept(r)' = {i \in DOMAIN alerts' : /\ alerts'[i].rule = r /\ alerts'[i].status = "open"
                                               /\ alerts'[i].swept}
    BY DEF OpenSwept, OpenOf
  <2>5. OpenSwept(r) = {i \in DOMAIN alerts : /\ alerts[i].rule = r /\ alerts[i].status = "open"
                                             /\ alerts[i].swept}
    BY DEF OpenSwept, OpenOf
  <2>6. CASE r \notin sweep[w].added
    <3>1. OpenSwept(r)' \subseteq OpenSwept(r)
      BY <2>1, <2>4, <2>5, <2>6
    <3> QED BY <1>1, <2>2, <3>1, BudgetShrinks
  <2>7. CASE r \in sweep[w].added
    <3>1. w \in Adding(r)
      BY <2>7 DEF Adding
    <3>2. Cardinality(Adding(r)') = Cardinality(Adding(r)) - 1
      BY <2>2, <2>3, <3>1, FS_RemoveElement
    <3>3. PICK n : OpenSwept(r)' \subseteq OpenSwept(r) \cup {n}
      <4>1. CASE \E i \in DOMAIN alerts' \ DOMAIN alerts : alerts'[i].rule = r
        BY <2>1, <2>4, <2>5, <4>1
      <4>2. CASE ~\E i \in DOMAIN alerts' \ DOMAIN alerts : alerts'[i].rule = r
        BY <2>1, <2>4, <2>5, <4>2
      <4> QED BY <4>1, <4>2
    <3>4. /\ IsFiniteSet(OpenSwept(r) \cup {n})
          /\ Cardinality(OpenSwept(r) \cup {n}) <= Cardinality(OpenSwept(r)) + 1
          /\ Cardinality(OpenSwept(r) \cup {n}) \in Nat
      <4> DEFINE O == OpenSwept(r)
      <4>1. IsFiniteSet(O) /\ Cardinality(O) \in Nat
        BY <2>3
      <4> HIDE DEF O
      <4>2. CASE n \in O
        <5>1. O \cup {n} = O
          BY <4>2
        <5>2. IsFiniteSet(O \cup {n}) /\ Cardinality(O \cup {n}) = Cardinality(O)
          BY <4>1, <5>1
        <5> QED BY <4>1, <5>2 DEF O
      <4>3. CASE n \notin O
        <5>1. IsFiniteSet(O \cup {n}) /\ Cardinality(O \cup {n}) = Cardinality(O) + 1
          BY <4>1, <4>3, FS_AddElement
        <5> QED BY <4>1, <5>1 DEF O
      <4> QED BY <4>2, <4>3
    <3>5. Cardinality(OpenSwept(r)') <= Cardinality(OpenSwept(r)) + 1 /\ Cardinality(OpenSwept(r)') \in Nat
      BY <2>3, <3>3, <3>4, FS_Subset, FS_CardinalityType
    <3> QED BY <1>1, <2>3, <3>2, <3>5 DEF BudgetKept
  <2> QED BY <2>6, <2>7
<1>9. CASE CreateAlert
  <2>1. OpenSwept(r)' \subseteq OpenSwept(r)
    BY <1>1, <1>9, Created DEF OpenSwept, OpenOf
  <2>2. sweep' = sweep
    BY <1>9 DEF CreateAlert
  <2> QED BY <1>1, <1>3, <2>1, <2>2, BudgetShrinks
<1>10. ASSUME NEW c \in Clients, CommitCall(c)
       PROVE  Cardinality(OpenSwept(r)') + Cardinality(Adding(r)') <= Cardinality(Workers)
  <2>1. OpenSwept(r)' \subseteq OpenSwept(r)
    BY <1>1, <1>10, Rewritten DEF OpenSwept, OpenOf
  <2>2. sweep' = sweep
    BY <1>10 DEF CommitCall
  <2> QED BY <1>1, <1>3, <2>1, <2>2, BudgetShrinks
<1>11. ASSUME NEW c \in Clients, LoadAlert(c) \/ DropCall(c) PROVE UNCHANGED <<alerts, sweep>>
  BY <1>11 DEF LoadAlert, DropCall, monitoring
<1>12. CASE Drift \/ Tick \/ CreateRule \/ UNCHANGED vars
  BY <1>1, <1>2, <1>3, <1>12, BudgetShrinks DEF Drift, Tick, CreateRule, vars, monitoring
<1>13. ASSUME UNCHANGED <<alerts, sweep>>
       PROVE  Cardinality(OpenSwept(r)') + Cardinality(Adding(r)') <= Cardinality(Workers)
  BY <1>1, <1>2, <1>3, <1>13, BudgetShrinks
<1> QED
  BY <1>5, <1>6, <1>7, <1>8, <1>9, <1>10, <1>11, <1>12, <1>13 DEF Next, Work
-------------------------------------------------------------------------------
\* The invariant holds at the start: no alert, no sweep, no session.
LEMMA MonitoringInit == Init => IInv
<1> SUFFICES ASSUME Init PROVE IInv
  OBVIOUS
<1>1. TypeOK
  BY TypeInit
<1>2. LoadedExists
  BY DEF Init, LoadedExists
<1>3. ASSUME NEW r \in Rules
      PROVE  Cardinality(OpenSwept(r)) + Cardinality(Adding(r)) <= Cardinality(Workers)
  <2>1. OpenSwept(r) = {} /\ Adding(r) = {}
    BY DEF Init, OpenSwept, OpenOf, Adding, Idle
  <2> QED BY <1>1, <2>1, FS_EmptySet, Finite
<1>4. Signed /\ NamesStand
  BY DEF Init, Signed, NamesStand, NoSession
<1> QED BY <1>1, <1>2, <1>3, <1>4 DEF IInv, BudgetKept

\* The budget holds for any number of workers, rules, callers and faults.
THEOREM MonitoringInvariant == Spec => []IInv
<1>1. IInv /\ [Next]_vars => IInv'
  <2> SUFFICES ASSUME IInv, [Next]_vars PROVE IInv'
    OBVIOUS
  <2> QED BY TypeStep, LoadedStep, BudgetStep, SignedStep, NamesStep DEF IInv
<1> QED BY MonitoringInit, <1>1, PTL DEF Spec

\* Retry counts stay within what the queue knows, and sweeps and calls only
\* hold what there is.
THEOREM MonitoringTypeCorrect == Spec => []TypeOK
<1>1. IInv => TypeOK
  BY DEF IInv
<1> QED BY MonitoringInvariant, <1>1, PTL

\* The sweeps never leave more open alerts for a rule than there are worker
\* processes, however sweeps, callers, failures and redeliveries interleave.
THEOREM DuplicatesAlwaysBounded == Spec => []DuplicatesBounded
<1>1. IInv => DuplicatesBounded
  <2> SUFFICES ASSUME IInv, NEW r \in Rules
               PROVE  Cardinality(OpenSwept(r)) <= Cardinality(Workers)
    BY DEF DuplicatesBounded, OpenSwept
  <2>1. TypeOK
    BY DEF IInv
  <2>2. Cardinality(OpenSwept(r)) \in Nat /\ Cardinality(Adding(r)) \in Nat /\ Cardinality(Workers) \in Nat
    BY <2>1, Finite
  <2>3. Cardinality(OpenSwept(r)) + Cardinality(Adding(r)) <= Cardinality(Workers)
    BY DEF IInv, BudgetKept
  <2> QED BY <2>2, <2>3
<1> QED BY MonitoringInvariant, <1>1, PTL

\* However calls, sweeps and failures interleave, an alert that was acknowledged
\* or resolved goes on naming somebody who did it: a late UPDATE writes its own
\* columns only, and leaves its caller's name where it found that name.
THEOREM HandlersAlwaysNamed == Spec => HandlersStayNamed
<1> DEFINE Stays == \A i \in DOMAIN alerts, done \in DOMAIN Mark :
                      alerts[i].status = done \/ alerts[i][Mark[done]] # NoOne
                      => alerts'[i][Mark[done]] # NoOne
<1>1. IInv /\ [Next]_vars => [Stays]_alerts
  <2> SUFFICES ASSUME IInv, [Next]_vars, NEW i \in DOMAIN alerts, NEW done \in DOMAIN Mark,
                      alerts[i].status = done \/ alerts[i][Mark[done]] # NoOne
               PROVE  alerts'[i][Mark[done]] # NoOne
    OBVIOUS
  <2>1. /\ alerts'[i].acknowledged_by = NoOne => alerts[i].acknowledged_by = NoOne
        /\ alerts'[i].resolved_by = NoOne => alerts[i].resolved_by = NoOne
        /\ SignedRow(alerts[i])
    BY RowsStep DEF IInv, Signed
  <2>2. CASE done = "acknowledged"
    <3>1. Mark[done] = "acknowledged_by"
      BY <2>2 DEF Mark
    <3> QED BY <2>1, <2>2, <3>1 DEF SignedRow
  <2>3. CASE done = "resolved"
    <3>1. Mark[done] = "resolved_by"
      BY <2>3 DEF Mark
    <3> QED BY <2>1, <2>3, <3>1 DEF SignedRow
  <2> QED BY <2>2, <2>3 DEF Mark
<1> QED BY MonitoringInvariant, <1>1, PTL DEF Spec, HandlersStayNamed
===============================================================================
