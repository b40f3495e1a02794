------------------------------- MODULE UatAgents -------------------------------
(***************************************************************************)
(* The three agents of the continuous monitoring (core/monitoring_engine.py):*)
(* two invent a fraud and look at what the validator makes of it, the third  *)
(* hands false summaries to the forensic engine.  What they draw at random   *)
(* -- payments, modules, amounts -- is a parameter here.                     *)
(***************************************************************************)
EXTENDS ForensicEngine, SequencesExt

Event(source, type, text, amount) ==
  [BlankEvent EXCEPT !.source_system = source, !.event_type = type, !.log_data = text,
                     !.value = {amount}, !.age = {1}]

\* A vendor appears, is paid at once in round sums, and delivers nothing.  Every
\* payment has a text of its own, which names its invoice.
Invoices == <<"INV-1", "INV-2", "INV-3", "INV-4", "INV-5", "INV-6", "INV-7", "INV-8">>

GhostVendorScenario(payments) ==
  LET paid == SumFunction(payments)
  IN <<Event("procurement", "vendor_onboarding", "new vendor", 0)>>
     \o [i \in DOMAIN payments |->
           Event("accounts-payable", "payment_processed", Invoices[i], payments[i])]
     \o <<Event("procurement", "goods_receipt_discrepancy", "goods receipt", paid)>>

Modules == <<"accounts-payable", "general-ledger", "procurement", "treasury", "payroll">>

\* One user moves sums below the limit of approval through all the modules.
VelocityScenario(amounts) ==
  [i \in DOMAIN amounts |->
     LET module == Modules[((i - 1) % 5) + 1]
     IN Event(module, module, "below the threshold", amounts[i])]

\* An agent passes when at most one of its checks does not.
AgentReport(checks, allowed) ==
  LET passed == Cardinality({c \in DOMAIN checks : checks[c]})
  IN [total_checks |-> Cardinality(DOMAIN checks), passed |-> passed,
      status |-> IF passed >= Cardinality(DOMAIN checks) - allowed THEN "PASS" ELSE "FAIL"]

\* The first check holds a number where a truth value is counted, so that it is
\* never passed.
GhostVendorChecks(payments) ==
  LET scenario == GhostVendorScenario(payments)
      result == ProcessEvents(scenario)
      Some(Test(_)) == \E f \in result.findings : Test(f)
      vendor == {"payment_processed", "goods_receipt_discrepancy"}
  IN [events_generated |-> FALSE,
      findings_created |-> result.findings # {},
      financial_impact_tracked |-> Some(LAMBDA f : f.financial_impact > 0),
      round_number_detected |-> Some(LAMBDA f : f.category.type = "payment_processed"),
      vendor_flagged |-> Some(LAMBDA f : f.category.type \in vendor),
      risk_score_above_40 |-> Some(LAMBDA f : f.risk_score >= 4000),
      auditor_reasoning_present |-> \A f \in result.findings : f.auditor_reasoning # {},
      materiality_applied |-> result.summary.total_raw_events = Len(scenario)]
GhostVendorTest(payments) == AgentReport(GhostVendorChecks(payments), 1)

VelocityChecks(amounts) ==
  LET scenario == VelocityScenario(amounts)
      findings == ProcessEvents(scenario).findings
      total == SumFunction(amounts)
      Some(Test(_)) == \E f \in findings : Test(f)
  IN [events_generated |-> Len(scenario) = 12,
      aggregate_exceeds_threshold |-> total > 500000,
      multi_module_detected |->
        Cardinality({scenario[i].source_system : i \in DOMAIN scenario}) >= 3,
      findings_created |-> findings # {},
      deduplication_works |-> Cardinality(findings) < Len(scenario),
      financial_impact_aggregated |-> Some(LAMBDA f : f.financial_impact > 1000000),
      risk_score_above_threshold |-> Some(LAMBDA f : f.risk_score >= 3500),
      auditor_reasoning_generated |-> \A f \in findings : f.auditor_reasoning # {},
      systemic_detection |-> Some(LAMBDA f : f.is_systemic \/ f.occurrence_count > 5)]
VelocityTest(amounts) == AgentReport(VelocityChecks(amounts), 1)

\* Records of given amounts, from the three systems in turn.
RawRecords(amounts) ==
  [i \in DOMAIN amounts |->
     [Event(<<"ERP", "Treasury", "GL">>[(i % 3) + 1], "detect_anomaly", "anomaly", amounts[i])
        EXCEPT !.keyword = "detective", !.hash_verified = {TRUE}]]

SourcesOf(records) ==
  LET sources == {records[i].source_system : i \in DOMAIN records}
  IN SetToSeq(sources)

Summary(count, total, sources) ==
  [total_records |-> count, total_amount |-> total, source_systems |-> sources]

\* The summaries the third agent makes up, by the name of its test, with the
\* records each is held against.  All but one are false.
HighRiskEvents ==
  <<[Event("Treasury", "unauthorized_access", "root access", 50000000) EXCEPT !.keyword = "preventative"],
    [Event("Payroll", "validation_bypass", "payroll batch", 80000000) EXCEPT !.keyword = "preventative"]>>
ConflictingRecords ==
  <<Event("ERP", "payment", "to ABC", 5000000), Event("GL", "journal_entry", "for ABC", 7500000),
    Event("Treasury", "wire", "to ABC", 5000000)>>

StressTests(amounts) ==
  LET raw(n) == SubSeq(RawRecords(amounts), 1, n)
      Held(summary, records) == [summary |-> summary, records |-> records]
      total(n) == ActualTotal(raw(n))
  IN [count_mismatch |-> Held(Summary(10, total(3), SourcesOf(raw(3))), raw(3)),
      financial_mismatch |-> Held(Summary(5, (42 * total(5)) \div 10, SourcesOf(raw(5))), raw(5)),
      phantom_source |-> Held(Summary(4, total(4), <<"ERP", "PHANTOM", "NONEXISTENT">>), raw(4)),
      priority_manipulation |-> Held([critical_findings |-> 0, high_findings |-> 0]
                                       @@ Summary(2, 5000, <<"Treasury", "Payroll">>), HighRiskEvents),
      valid_summary |-> Held(Summary(5, total(5), SourcesOf(raw(5))), raw(5)),
      conflicting_data |-> Held(Summary(3, 22500000, <<"ERP", "GL", "Treasury">>), ConflictingRecords)]

IntegrityStressChecks(amounts) ==
  LET tests == StressTests(amounts)
      result(t) == VerifySummary(tests[t].summary, tests[t].records)
  IN [t \in DOMAIN tests |-> IF t = "valid_summary"
                             THEN result(t).is_valid /\ result(t).confidence_score >= 90
                             ELSE ~result(t).is_valid]
IntegrityStressTest(amounts) == AgentReport(IntegrityStressChecks(amounts), 0)
===============================================================================
