---------------------------- MODULE AlertMonitoring ----------------------------
(***************************************************************************)
(* The continuous monitoring sweep (worker/continuous_monitoring.py) and   *)
(* the alerts API (api/v1/endpoints/alerts.py) over compliance_alerts.     *)
(*                                                                         *)
(* Celery Beat puts a sweep message in the evaluation queue every half     *)
(* hour; the worker processes take messages one at a time, acknowledge     *)
(* them after the task returned, and give them back when the process dies  *)
(* (task_acks_late, task_reject_on_worker_lost).  A sweep is one database  *)
(* transaction at READ COMMITTED: it measures each active rule, looks for  *)
(* an open alert of a rule that triggered, and commits all new alerts at   *)
(* its end.  Sweeps, API calls and the measured tables move independently. *)
(***************************************************************************)
EXTENDS Integers, Sequences, FiniteSets, FiniteSetsExt, SequencesExt

CONSTANTS
  Workers,      \* worker processes
  Clients,      \* concurrent callers of the API
  Rules,        \* alert rules that may be created
  OpenAlertsRules,  \* the rules whose metric is open_alerts_count
  NoRule,       \* alert_rule_id is null
  NoOne,        \* acknowledged_by, resolved_by is null
  Threshold,    \* of the rules on open_alerts_count, with operator gte
  MaxMessages,  \* bound: sweep messages queued or being worked on
  MaxFaults,    \* bound: task failures and lost workers in a run
  MaxCalls      \* bound: API calls in a run

ASSUME WorkersAssumption == IsFiniteSet(Workers)
ASSUME RulesAssumption ==
  IsFiniteSet(Rules) /\ OpenAlertsRules \subseteq Rules /\ NoRule \notin Rules
ASSUME NoOneAssumption == NoOne \notin Clients
ASSUME BoundsAssumption == {MaxMessages, MaxFaults, MaxCalls, Threshold} \subseteq Nat

VARIABLES
  rules,     \* the rows of alert_rules: active rules
  drifted,   \* the rules whose threshold the measured tables exceed
  alerts,    \* the committed rows of compliance_alerts, oldest first
  queue,     \* the number of queued sweep messages by their retry count
  sweep,     \* what each worker process does
  session,   \* what each API call loaded
  faults, calls  \* counted against the bounds

monitoring == <<rules, drifted, alerts>>
vars == <<rules, drifted, alerts, queue, sweep, session, faults, calls>>

max_retries == 2
Verbs == {"acknowledge", "resolve"}
\* The column that names who brought an alert into a status.
Mark == [acknowledged |-> "acknowledged_by", resolved |-> "resolved_by"]
Done(verb) == IF verb = "acknowledge" THEN "acknowledged" ELSE "resolved"
Alert == [rule : Rules \cup {NoRule}, swept : BOOLEAN,
          status : {"open", "acknowledged", "resolved"},
          acknowledged_by : Clients \cup {NoOne},
          resolved_by : Clients \cup {NoOne}]

Idle == [pc |-> "idle", retries |-> 0, todo |-> {}, triggered |-> NoRule,
         added |-> {}]
NoSession == [alert |-> 0, verb |-> "none", loaded |-> "none", named |-> NoOne]

NewAlert(rule, swept) ==
  [rule |-> rule, swept |-> swept, status |-> "open",
   acknowledged_by |-> NoOne, resolved_by |-> NoOne]

OpenOf(r) ==
  {i \in DOMAIN alerts : alerts[i].rule = r /\ alerts[i].status = "open"}
OpenAlerts == {i \in DOMAIN alerts : alerts[i].status = "open"}

\* _collect_metric and _evaluate_operator on the tables as they are now.
Breached(r) ==
  IF r \in OpenAlertsRules THEN Cardinality(OpenAlerts) >= Threshold
                           ELSE r \in drifted

Busy == {w \in Workers : sweep[w].pc # "idle"}
Messages == MapThenSumSet(LAMBDA k : queue[k], 0 .. max_retries)
              + Cardinality(Busy)

-------------------------------------------------------------------------------
\* Faulty variants of the definitions below.

\* the query for an open alert counts handled ones too
HasAlert(r) == \E i \in DOMAIN alerts : alerts[i].rule = r

\* the query for an open alert looks for a handled one
HasHandledAlert(r) ==
  \E i \in DOMAIN alerts : alerts[i].rule = r /\ alerts[i].status # "open"

\* the UPDATE writes the whole row as it was loaded
HandledAsLoaded(row, verb, c) ==
  IF verb = "acknowledge"
  THEN [row EXCEPT !.status = "acknowledged", !.acknowledged_by = c,
                   !.resolved_by = NoOne]
  ELSE [row EXCEPT !.status = "resolved", !.resolved_by = c,
                   !.acknowledged_by = IF session[c].loaded = "open" THEN NoOne ELSE @]

-------------------------------------------------------------------------------
Init ==
  /\ rules = {}
  /\ drifted = {}
  /\ alerts = <<>>
  /\ queue = [k \in 0 .. max_retries |-> 0]
  /\ sweep = [w \in Workers |-> Idle]
  /\ session = [c \in Clients |-> NoSession]
  /\ faults = 0
  /\ calls = 0

\* The audited tables move over a threshold, or back.
Drift ==
  /\ \E r \in Rules \ OpenAlertsRules :
       drifted' = IF r \in drifted THEN drifted \ {r} ELSE drifted \cup {r}
  /\ UNCHANGED <<rules, alerts, queue, sweep, session, faults, calls>>

\* Celery Beat.
Tick ==
  /\ Messages < MaxMessages
  /\ queue' = [queue EXCEPT ![0] = @ + 1]
  /\ UNCHANGED <<monitoring, sweep, session, faults, calls>>

\* A worker takes a message; the task reads the active rules.
Take(w) ==
  /\ sweep[w].pc = "idle"
  /\ \E k \in 0 .. max_retries :
       /\ queue[k] > 0
       /\ queue' = [queue EXCEPT ![k] = @ - 1]
       /\ sweep' = [sweep EXCEPT ![w] = [Idle EXCEPT !.pc = "sweeping",
                                                     !.retries = k,
                                                     !.todo = rules]]
  /\ UNCHANGED <<monitoring, session, faults, calls>>

\* Measure the next rule, in the order the database returned them.
EvaluateRule(w) ==
  /\ sweep[w].pc = "sweeping" /\ sweep[w].triggered = NoRule
  /\ \E r \in sweep[w].todo :
       sweep' = [sweep EXCEPT ![w].todo = @ \ {r},
                              ![w].triggered = IF Breached(r) THEN r ELSE NoRule]
  /\ UNCHANGED <<monitoring, queue, session, faults, calls>>

\* The rows SELECT ... WHERE alert_rule_id = r AND status = 'open' finds.
HasOpenAlert(r) == OpenOf(r) # {}

\* Add an alert to the session unless an open one is committed.
CheckDuplicate(w) ==
  /\ sweep[w].triggered # NoRule
  /\ LET r == sweep[w].triggered
     IN sweep' = [sweep EXCEPT
                    ![w].triggered = NoRule,
                    ![w].added = IF HasOpenAlert(r) THEN @ ELSE @ \cup {r}]
  /\ UNCHANGED <<monitoring, queue, session, faults, calls>>

\* The message is still unacknowledged after the commit.
CommitSweep(w) ==
  /\ sweep[w].pc = "sweeping"
  /\ sweep[w].todo = {} /\ sweep[w].triggered = NoRule
  /\ alerts' = alerts \o SetToSeq({NewAlert(r, TRUE) : r \in sweep[w].added})
  /\ sweep' = [sweep EXCEPT ![w] = [Idle EXCEPT !.pc = "returning",
                                                !.retries = sweep[w].retries]]
  /\ UNCHANGED <<rules, drifted, queue, session, faults, calls>>

AckMessage(w) ==
  /\ sweep[w].pc = "returning"
  /\ sweep' = [sweep EXCEPT ![w] = Idle]
  /\ UNCHANGED <<monitoring, queue, session, faults, calls>>

\* The task raises: its transaction is gone, and a retry is queued unless the
\* message was retried max_retries times.
FailTask(w) ==
  /\ sweep[w].pc = "sweeping"
  /\ faults < MaxFaults
  /\ faults' = faults + 1
  /\ queue' = IF sweep[w].retries < max_retries
              THEN [queue EXCEPT ![sweep[w].retries + 1] = @ + 1]
              ELSE queue
  /\ sweep' = [sweep EXCEPT ![w] = Idle]
  /\ UNCHANGED <<monitoring, session, calls>>

\* The process dies, before or after its commit: the message is requeued.
LoseWorker(w) ==
  /\ sweep[w].pc # "idle"
  /\ faults < MaxFaults
  /\ faults' = faults + 1
  /\ queue' = [queue EXCEPT ![sweep[w].retries] = @ + 1]
  /\ sweep' = [sweep EXCEPT ![w] = Idle]
  /\ UNCHANGED <<monitoring, session, calls>>

-------------------------------------------------------------------------------
CreateRule ==
  /\ calls < MaxCalls
  /\ calls' = calls + 1
  /\ \E r \in Rules \ rules : rules' = rules \cup {r}
  /\ UNCHANGED <<drifted, alerts, queue, sweep, session, faults>>

\* POST /alerts: an auditor raises an alert by hand, for a rule or for none.
CreateAlert ==
  /\ calls < MaxCalls
  /\ calls' = calls + 1
  /\ \E r \in rules \cup {NoRule} : alerts' = Append(alerts, NewAlert(r, FALSE))
  /\ UNCHANGED <<rules, drifted, queue, sweep, session, faults>>

\* Any status but the required one is answered with 422.
Accepts(verb, status) ==
  IF verb = "acknowledge" THEN status = "open" ELSE status # "resolved"

LoadAlert(c) ==
  /\ session[c] = NoSession
  /\ calls < MaxCalls
  /\ calls' = calls + 1
  /\ \E i \in DOMAIN alerts, verb \in Verbs :
       /\ Accepts(verb, alerts[i].status)
       /\ session' = [session EXCEPT ![c] =
            [alert |-> i, verb |-> verb, loaded |-> alerts[i].status,
             named |-> alerts[i][Mark[Done(verb)]]]]
  /\ UNCHANGED <<monitoring, queue, sweep, faults>>

\* The UPDATE writes the columns the call changed, whatever is in the row by
\* now.  The status is never the one that was loaded; the name may be: an alert
\* that an acknowledge took out of resolved can be resolved by the same caller
\* again.
Handled(row, verb, c) ==
  [row EXCEPT !.status = Done(verb),
              ![Mark[Done(verb)]] = IF session[c].named = c THEN @ ELSE c]

CommitCall(c) ==
  /\ session[c] # NoSession
  /\ alerts' = [alerts EXCEPT ![session[c].alert] =
                  Handled(@, session[c].verb, c)]
  /\ session' = [session EXCEPT ![c] = NoSession]
  /\ UNCHANGED <<rules, drifted, queue, sweep, faults, calls>>

DropCall(c) ==
  /\ session[c] # NoSession
  /\ session' = [session EXCEPT ![c] = NoSession]
  /\ UNCHANGED <<monitoring, queue, sweep, faults, calls>>

-------------------------------------------------------------------------------
Work(w) ==
  Take(w) \/ EvaluateRule(w) \/ CheckDuplicate(w) \/ CommitSweep(w) \/ AckMessage(w)

Next ==
  \/ Drift \/ Tick \/ CreateRule \/ CreateAlert
  \/ \E w \in Workers : Work(w) \/ FailTask(w) \/ LoseWorker(w)
  \/ \E c \in Clients : LoadAlert(c) \/ CommitCall(c) \/ DropCall(c)

Spec == Init /\ [][Next]_vars

\* Beat keeps its schedule, and a live worker goes on with its task.
FairSpec == Spec /\ WF_vars(Tick) /\ \A w \in Workers : WF_vars(Work(w))

-------------------------------------------------------------------------------
\* Every variable has its type.
TypeOK ==
  /\ rules \subseteq Rules
  /\ drifted \subseteq Rules
  /\ alerts \in Seq(Alert)
  /\ queue \in [0 .. max_retries -> Nat]
  /\ sweep \in [Workers -> [pc : {"idle", "sweeping", "returning"},
                            retries : 0 .. max_retries, todo : SUBSET Rules,
                            triggered : Rules \cup {NoRule}, added : SUBSET Rules]]
  /\ session \in [Clients -> [alert : Nat, verb : Verbs \cup {"none"},
                             loaded : {"open", "acknowledged", "none"},
                             named : Clients \cup {NoOne}]]
  /\ faults \in 0 .. MaxFaults
  /\ calls \in 0 .. MaxCalls

\* The duplicate check is not atomic with the commit, and a redelivered message
\* sweeps again; still the sweeps leave at most one open alert per worker
\* process for a rule, so exactly one when there is one process.
DuplicatesBounded ==
  \A r \in Rules :
    Cardinality({i \in OpenOf(r) : alerts[i].swept}) <= Cardinality(Workers)

\* Calls overtake each other, and an acknowledge that loaded an alert before it
\* was resolved puts it back to acknowledged.  Who handled it is never lost: once
\* an alert was acknowledged, or resolved, its row names somebody who did it
\* through every later step, whichever call comes last.
HandlersStayNamed ==
  [][\A i \in DOMAIN alerts, done \in DOMAIN Mark :
       alerts[i].status = done \/ alerts[i][Mark[done]] # NoOne
       => alerts'[i][Mark[done]] # NoOne]_alerts

\* A rule that stays over its threshold gets an open alert again after each one
\* was handled, although tasks fail, workers die and Beat only re-schedules.
BreachIsRaised ==
  \A r \in Rules :
    <>[](r \in rules /\ Breached(r)) => <>[](OpenOf(r) # {})

===============================================================================
