-------------------------- MODULE IntelligencePipeline --------------------------
(***************************************************************************)
(* The intelligence layer at work (api/v1/endpoints/intelligence.py,        *)
(* core/sqlite_store.py, core/monitoring_engine.py): clients send batches    *)
(* and summaries, a request is served by a thread that commits three times,  *)
(* and the monitoring engine, a process of its own, writes to the same       *)
(* database.                                                               *)
(***************************************************************************)
EXTENDS UatAgents, MonkeyTester

CONSTANTS
  Clients,
  Batches,    \* the batches of events that may be sent
  Claims,     \* what may be sent to be verified: [summary, records]
  Payments,   \* the amounts the agents may draw, for payments ...
  Amounts,    \* ... and for records
  MaxBatches, \* bound on the batches processed
  MaxCycles,  \* bound on the monitoring cycles
  MaxFaults   \* bound on the errors of the database

ASSUME PipelineAssumption == MaxBatches \in Nat /\ MaxCycles \in Nat /\ MaxFaults \in Nat

\* Batches and the records of claims are lists of events: amounts and ages are
\* numbers, and an event shows at most one of the keywords.
IsEvent(event) ==
  /\ event.value \cup event.payment \cup event.logged \cup event.metadata \subseteq Int
  /\ event.age \subseteq Int /\ IsFiniteSet(event.age)
  /\ event.keyword \in DOMAIN ControlSeverity \cup {"none"}
  /\ event.negative \in BOOLEAN
  /\ event.refund \in BOOLEAN /\ (event.refund => \E x \in event.value : x < 0)
AreEvents(events) ==
  /\ Len(events) \in Nat /\ events = [i \in 1..Len(events) |-> events[i]]
  /\ \A i \in 1..Len(events) : IsEvent(events[i])
ASSUME BatchesAssumption == \A batch \in Batches : AreEvents(batch)
ASSUME ClaimsAssumption == \A claim \in Claims :
  /\ AreEvents(claim.records)
  /\ \A k \in {"total_raw_events", "total_financial_impact"} \cap DOMAIN claim.summary :
       claim.summary[k] \in Int

\* The agent that splits a sum draws twelve parts.
ASSUME AmountsAssumption == \A amounts \in Amounts : amounts \in [1..12 -> Int]

VARIABLES
  store,    \* the tables: findings by id, summaries, verifications, tests by id
  request,  \* request[c]: the step the request of client c is at, and its data
  monitor,  \* the monitoring engine: its step, cycle, results and last report
  batches,  \* number of batches processed
  faults    \* the errors so far: their number, and the findings lost by them

vars == <<store, request, monitor, batches, faults>>

Agents == <<"ghost_vendor", "velocity_risk", "ai_integrity">>
Idle == [step |-> "idle", batch |-> <<>>, result |-> [findings |-> {}], answer |-> [status |-> 0]]
NoReport == [status |-> "none", total_passed |-> 0, results |-> <<>>, regression |-> FALSE,
             integration |-> "none"]

Init ==
  /\ store = [findings |-> <<>>, summaries |-> <<>>, verifications |-> <<>>, tests |-> <<>>]
  /\ request = [c \in Clients |-> Idle]
  /\ monitor = [step |-> "idle", cycle |-> 0, results |-> <<>>, last_report |-> NoReport]
  /\ batches = 0 /\ faults = [number |-> 0, lost |-> {}]

CanFail == faults.number < MaxFaults
Failing == faults' = [faults EXCEPT !.number = @ + 1]

\* INSERT OR REPLACE: a row with the id of an earlier one takes its place.
Upsert(table, rows) == [id \in DOMAIN rows \cup DOMAIN table |->
                          IF id \in DOMAIN rows THEN rows[id] ELSE table[id]]
FindingRows(findings) ==
  [id \in {f.finding_id : f \in findings} |-> CHOOSE f \in findings : f.finding_id = id]

Verification(type, result) ==
  [verification_type |-> type, is_valid |-> result.is_valid,
   confidence_score |-> result.confidence_score, total_issues |-> result.total_issues]
-----------------------------------------------------------------------------
Processed == [batch \in {b \in Batches : ~Raises(b)} |-> ProcessEvents(batch)]

\* POST /process: the validator works on the batch; an error of it is a 500.
Process(c, batch) ==
  /\ request[c].step = "idle" /\ batches < MaxBatches
  /\ batches' = batches + 1
  /\ request' = [request EXCEPT ![c] =
       IF batch \in DOMAIN Processed
       THEN [Idle EXCEPT !.step = "validated", !.batch = batch, !.result = Processed[batch]]
       ELSE [Idle EXCEPT !.answer = [status |-> 500]]]
  /\ UNCHANGED <<store, monitor, faults>>

\* A variant that gives the whole batch up for one row, and tells nobody.
SaveFindingsOrNothing(c, lost) ==
  /\ request[c].step = "validated"
  /\ store' = [store EXCEPT !.findings =
       IF lost = {} THEN Upsert(@, FindingRows(request[c].result.findings)) ELSE @]
  /\ request' = [request EXCEPT ![c].step = "saved"]
  /\ IF lost = {} THEN UNCHANGED faults
     ELSE /\ CanFail
          /\ faults' = [number |-> faults.number + 1,
                        lost |-> faults.lost \cup {f.finding_id : f \in lost}]
  /\ UNCHANGED <<monitor, batches>>

\* save_findings: a row that cannot be written is left out and the others are
\* committed; nothing is written for a batch without findings.
SaveFindings(c, lost) ==
  /\ request[c].step = "validated"
  /\ lost \subseteq request[c].result.findings
  /\ store' = [store EXCEPT !.findings = Upsert(@, FindingRows(request[c].result.findings \ lost))]
  /\ request' = [request EXCEPT ![c].step = "saved"]
  /\ IF lost = {} THEN UNCHANGED faults
     ELSE /\ CanFail
          /\ faults' = [number |-> faults.number + 1,
                        lost |-> faults.lost \cup {f.finding_id : f \in lost}]
  /\ UNCHANGED <<monitor, batches>>

SaveSummary(c) ==
  /\ request[c].step = "saved"
  /\ \E summary \in {GenerateExecutiveSummary(request[c].result.findings, request[c].result.summary)} :
       /\ store' = [store EXCEPT !.summaries = Append(@, summary)]
       /\ request' = [request EXCEPT ![c].step = "summarised", ![c].answer = summary]
  /\ UNCHANGED <<monitor, batches, faults>>

SaveVerification(c) ==
  /\ request[c].step = "summarised"
  /\ store' = [store EXCEPT !.verifications =
       Append(@, Verification("executive_summary", request[c].answer.integrity_check))]
  /\ request' = [request EXCEPT ![c] = [Idle EXCEPT !.answer = [status |-> 200]]]
  /\ UNCHANGED <<monitor, batches, faults>>

\* A database that stays locked ends the request with a 500; what an earlier
\* step committed remains.
StoreFails(c) ==
  /\ request[c].step # "idle" /\ CanFail /\ Failing
  /\ request' = [request EXCEPT ![c] = [Idle EXCEPT !.answer = [status |-> 500]]]
  /\ UNCHANGED <<store, monitor, batches>>

\* POST /verify.
VerifyIntegrity(c, claim) ==
  /\ request[c].step = "idle" /\ batches < MaxBatches
  /\ batches' = batches + 1
  /\ \E result \in {VerifySummary(claim.summary, claim.records)} :
       /\ store' = [store EXCEPT !.verifications = Append(@, Verification("manual_verification", result))]
       /\ request' = [request EXCEPT ![c] = [Idle EXCEPT !.answer = [status |-> 200, claim |-> claim, result |-> result]]]
  /\ UNCHANGED <<monitor, faults>>

\* POST /monkey-test: every result is committed by itself, and the first that
\* cannot be ends the saving: the others are lost, the answer is the same.
RunMonkeyTests(c, failed) ==
  /\ request[c].step = "idle" /\ batches < MaxBatches
  /\ batches' = batches + 1
  /\ IF failed THEN CanFail /\ Failing ELSE UNCHANGED faults
  /\ \E tests \in {MonkeyTests} : \E saved \in {IF failed THEN 1 ELSE Len(tests)} :
       store' = [store EXCEPT !.tests =
         Upsert(@, [id \in {tests[n].test_id : n \in 1..saved} |-> tests[id[2]].passed])]
  /\ request' = [request EXCEPT ![c] = Idle]
  /\ UNCHANGED monitor

\* POST /validate-event: changes nothing.
ValidateEvent(event) ==
  [result |-> ValidateSingleEvent(event),
   auditor_reasoning |-> GenerateReasoning(event, "detective", ExtractAmount(event))]

\* GET /dashboard: the numbers of get_findings_summary and the latest summary.
Dashboard ==
  LET rows == {store.findings[id] : id \in DOMAIN store.findings}
  IN [total_findings |-> Cardinality(DOMAIN store.findings),
      critical |-> Cardinality({f \in rows : f.priority = "Critical"}),
      total_financial_impact |-> SumFunction([id \in DOMAIN store.findings |->
                                               store.findings[id].financial_impact]),
      latest_summary |-> IF store.summaries = <<>> THEN <<>> ELSE Last(store.summaries),
      monkey_tests |-> [total |-> Cardinality(DOMAIN store.tests),
                        passed |-> Cardinality({id \in DOMAIN store.tests : store.tests[id]})]]
-----------------------------------------------------------------------------
\* run_full_cycle: the agents one after the other, each stored at once.
StartCycle ==
  /\ monitor.step = "idle" /\ monitor.cycle < MaxCycles
  /\ monitor' = [monitor EXCEPT !.step = "agents", !.cycle = @ + 1, !.results = <<>>]
  /\ UNCHANGED <<store, request, batches, faults>>

AgentTest(agent, payments, amounts) ==
  CASE agent = "ghost_vendor" -> GhostVendorTest(SubSeq(payments, 1, 8))
    [] agent = "velocity_risk" -> VelocityTest(amounts)
    [] agent = "ai_integrity" -> IntegrityStressTest(payments)
AgentReports ==
  [run \in {Agents[i] : i \in DOMAIN Agents} \X Payments \X Amounts |-> AgentTest(run[1], run[2], run[3])]

\* A variant that passes over an error of the store.
RunAgentUnstored(payments, amounts, failed) ==
  /\ monitor.step = "agents" /\ Len(monitor.results) < Len(Agents)
  /\ IF failed THEN CanFail /\ Failing ELSE UNCHANGED faults
  /\ \E agent \in {Agents[Len(monitor.results) + 1]} :
       \E report \in {AgentReports[<<agent, payments, amounts>>]} :
         /\ monitor' = [monitor EXCEPT !.results = Append(@, report)]
         /\ store' = IF failed THEN store
                     ELSE [store EXCEPT !.tests =
                            Upsert(@, [id \in {<<agent, monitor.cycle>>} |-> report.status = "PASS"])]
  /\ UNCHANGED <<request, batches>>

\* An error of the store turns a test that passed into an error without checks.
RunAgent(payments, amounts, failed) ==
  /\ monitor.step = "agents" /\ Len(monitor.results) < Len(Agents)
  /\ \E agent \in {Agents[Len(monitor.results) + 1]} :
       \E report \in {AgentReports[<<agent, payments, amounts>>]} :
         IF failed
         THEN /\ CanFail /\ Failing
              /\ monitor' = [monitor EXCEPT !.results =
                   Append(@, [status |-> "ERROR", passed |-> 0, total_checks |-> 0])]
              /\ UNCHANGED store
         ELSE /\ monitor' = [monitor EXCEPT !.results = Append(@, report)]
              /\ store' = [store EXCEPT !.tests =
                   Upsert(@, [id \in {<<agent, monitor.cycle>>} |-> report.status = "PASS"])]
              /\ UNCHANGED faults
  /\ UNCHANGED <<request, batches>>

FinishCycle ==
  /\ monitor.step = "agents" /\ Len(monitor.results) = Len(Agents)
  /\ \E total \in {SumFunction([i \in DOMAIN monitor.results |-> monitor.results[i].passed])} :
       monitor' = [monitor EXCEPT !.step = "report", !.last_report =
         [status |-> IF \A i \in DOMAIN Agents : monitor.results[i].status = "PASS"
                     THEN "ALL_PASS" ELSE "DEGRADED",
          total_passed |-> total, results |-> monitor.results,
          regression |-> @.status # "none" /\ total < @.total_passed, integration |-> "none"]]
  /\ UNCHANGED <<store, request, batches, faults>>

IntegrationEvents(payments, amounts) ==
  GhostVendorScenario(SubSeq(payments, 1, 3)) \o VelocityScenario(SubSeq(amounts, 1, 5))
IntegrationResults ==
  [drawn \in Payments \X Amounts |-> ProcessEvents(IntegrationEvents(drawn[1], drawn[2]))]

\* The integration test: a batch made of both frauds, processed and stored in
\* three steps, of which an error may keep the last ones away; rows that cannot
\* be written are left out, and the test passes without them.  Its summary makes
\* none of the claims the verification looks at.
PipelineIntegrationTest(payments, amounts, lost, saves) ==
  /\ monitor.step = "report" /\ (lost # {} => saves >= 1)
  /\ \E errors \in {Cardinality(lost) + (IF saves = 3 THEN 0 ELSE 1)} :
       /\ faults.number + errors <= MaxFaults
       /\ faults' = [number |-> faults.number + errors,
                     lost |-> faults.lost \cup {f.finding_id : f \in lost}]
  /\ \E result \in {IntegrationResults[<<payments, amounts>>]} :
     \E summary \in {GenerateExecutiveSummary(result.findings, result.summary)} :
       store' = [store EXCEPT
         !.findings = IF saves >= 1 THEN Upsert(@, FindingRows(result.findings \ lost)) ELSE @,
         !.summaries = IF saves >= 2 THEN Append(@, summary) ELSE @,
         !.verifications = IF saves = 3
           THEN Append(@, Verification("pipeline_integration", 
                                            VerifySummary(summary, IntegrationEvents(payments, amounts))))
           ELSE @]
  /\ monitor' = [monitor EXCEPT !.step = "idle",
                   !.last_report.integration = IF saves = 3 THEN "PASS" ELSE "ERROR"]
  /\ UNCHANGED <<request, batches>>

ClientStep(c, sent, claimed) ==
  \/ \E batch \in sent : Process(c, batch)
  \/ \E lost \in SUBSET request[c].result.findings : SaveFindings(c, lost)
  \/ SaveSummary(c)
  \/ SaveVerification(c)
  \/ StoreFails(c)
  \/ \E claim \in claimed : VerifyIntegrity(c, claim)
  \/ \E failed \in BOOLEAN : RunMonkeyTests(c, failed)

MonitorStep ==
  \/ StartCycle
  \/ \E payments \in Payments, amounts \in Amounts :
       \/ \E failed \in BOOLEAN : RunAgent(payments, amounts, failed)
       \/ \E lost \in SUBSET IntegrationResults[<<payments, amounts>>].findings, saves \in 0..3 :
            PipelineIntegrationTest(payments, amounts, lost, saves)
  \/ FinishCycle

Next == MonitorStep \/ \E c \in Clients : ClientStep(c, Batches, Claims)

Spec == Init /\ [][Next]_vars
-----------------------------------------------------------------------------
\* The clients whose batch has just been processed.
Validated == {c \in Clients : request[c].step = "validated"}

\* Every event of a batch is in exactly one finding or was cleared, and the
\* numbers of the summary say so.
EventsAccountedFor ==
  \A c \in Validated :
    LET findings == request[c].result.findings
        counted == SumFunction([f \in findings |-> f.occurrence_count])
    IN /\ Cardinality(UNION {f.raw_event_ids : f \in findings}) = counted
       /\ counted + request[c].result.summary.auto_cleared = Len(request[c].batch)

\* An event that is material by itself is never cleared because of the events
\* it is grouped with.
MaterialAloneIsKept ==
  \A c \in Validated : \A i \in DOMAIN request[c].batch :
    ValidateEvent(request[c].batch[i]).result.is_material =>
      \E f \in request[c].result.findings : i \in f.raw_event_ids

\* More of the same never looks better: without one of its events a batch has
\* no finding that it lacks, and none with a higher score, unless that event
\* decided what type of control its group is about, or is the only one of its
\* group with a date: an unknown age scores as a middling one.
OnlyDated(events, group, i) ==
  events[i].age # {} /\ \A j \in group \ {i} : events[j].age = {}
MoreEventsNoLowerRisk ==
  \A c \in Validated : \A i \in DOMAIN request[c].batch :
    \A fewer \in ProcessEvents(RemoveAt(request[c].batch, i)).findings :
      \E f \in request[c].result.findings :
        /\ f.category = fewer.category
        /\ \/ fewer.risk_score <= f.risk_score
           \/ fewer.control_type # f.control_type
           \/ OnlyDated(request[c].batch, f.raw_event_ids, i)

\* A stored summary never speaks of a finding the database has never held,
\* except one whose row was lost by an error nobody was told of.
SummaryHasItsFindings ==
  \A n \in DOMAIN store.summaries :
    store.summaries[n].top_findings \subseteq DOMAIN store.findings \cup faults.lost

\* A summary that claims some count and some total passes the verification
\* only when the count is right and the total is off by a twentieth or by a
\* hundred dollars at most -- or it is negative, and nothing was recorded.
AcceptedClaimsAreTrue ==
  \A c \in Clients : "claim" \in DOMAIN request[c].answer =>
    LET claim == request[c].answer.claim
        claimed == Field(claim.summary, "total_financial_impact", 0)
        actual == ActualTotal(claim.records)
        off == Magnitude(claimed - actual)
    IN (request[c].answer.result.is_valid /\ 0 \notin {claim.summary[k] : k \in
          {"total_raw_events", "total_financial_impact"} \cap DOMAIN claim.summary}) =>
         /\ Field(claim.summary, "total_raw_events", Len(claim.records)) = Len(claim.records)
         /\ "total_financial_impact" \in DOMAIN claim.summary =>
               off <= 10000 \/ off <= actual \div 20 \/ (actual = 0 /\ claimed < 0)

\* What the repository expects of its validator and forensic engine: no test of
\* the suites fails, and the agents report a pass.
SuitesPass ==
  /\ MonkeyTests \in Seq([test_id : STRING \X Nat, passed : {TRUE}]) /\ MonkeyTests # <<>>
  /\ \A run \in DOMAIN AgentReports : AgentReports[run].status = "PASS"

\* Every test that is stored has passed: the repository's own expectations of
\* the validator and the forensic engine hold in the model.  A report that
\* everything passed is backed by a stored result of every agent of its cycle,
\* and a regression is only reported when some agent did not pass.
ReportsAreBacked ==
  LET report == monitor.last_report
  IN /\ \A id \in DOMAIN store.tests : store.tests[id]
     /\ (report.status = "ALL_PASS" /\ monitor.step = "report") =>
            \A n \in DOMAIN Agents : <<Agents[n], monitor.cycle>> \in DOMAIN store.tests
     /\ report.regression => \E n \in DOMAIN report.results : report.results[n].status # "PASS"

\* What the forensic engine's doc says of counts: one that differs from the
\* number of records is flagged.
CountMismatchIsFlagged ==
  \A c \in Clients : "claim" \in DOMAIN request[c].answer =>
    LET claim == request[c].answer.claim
    IN Field(claim.summary, "total_raw_events", Len(claim.records)) # Len(claim.records)
         => ~request[c].answer.result.is_valid
=============================================================================
