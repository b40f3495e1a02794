------------------------------ MODULE MonkeyTester ------------------------------
(***************************************************************************)
(* The adversarial test suites of the Phase 1 vault (agents/monkey_tester.py)*)
(* as the repository runs them against the validator and the forensic engine:*)
(* a suite is a sequence of outcomes, TRUE for a test that passes.           *)
(***************************************************************************)
EXTENDS ForensicEngine

Monkey(source, type, text, amount) ==
  [BlankEvent EXCEPT !.source_system = source, !.event_type = type, !.log_data = text,
                     !.value = {amount}, !.logged = {Magnitude(amount)},
                     !.refund = amount < 0]

Copies(event, n) == [i \in 1..n |-> event]

\* A test that only asks for an answer passes unless the event raises an error.
HandledWithoutCrash(events) == [i \in DOMAIN events |-> ~events[i].garbled]

\* Below the threshold an amount is not material, from there on it is, and a
\* negative one has to show in the score.
BoundaryAmounts ==
  <<0, 1, -50000, -9999999, 49999, 50000, 50001, 99999, 999999, 9999999>>
BoundaryInjection ==
  [i \in DOMAIN BoundaryAmounts |->
     LET amount == BoundaryAmounts[i]
         result == ValidateSingleEvent([Monkey("Boundary", "boundary_test", "amount", amount)
                                          EXCEPT !.negative = amount < 0, !.age = {0}])
     IN CASE amount \in 0..49999 -> ~result.is_material
          [] amount < 0 -> result.risk_score > 2000
          [] OTHER -> result.is_material]

HashManipulation ==
  LET event(hash, amount) == [Monkey("HashTest", "hash", "event", amount) EXCEPT !.hash_sequence = hash]
  IN <<ProcessEvents(Copies(event("h", 100000), 5)).findings # {}>>
     \o HandledWithoutCrash(<<event("", 500000), event("corrupt", 800000)>>)

FieldOmission ==
  HandledWithoutCrash(<<Monkey("", "", "no source system", 500000), Monkey("Test", "", "", 500000),
                        BlankEvent, BlankEvent>>)

\* Hundreds of equal warnings become one systemic finding.  A tenth of the
\* events is enough here: well above the threshold.
DeduplicationFlood ==
  LET warning == [Monkey("ERP", "validation_error", "negative amount", -5000)
                    EXCEPT !.negative = TRUE, !.keyword = "detective", !.age = {0}]
      flood == ProcessEvents(Copies(warning, 40)).findings
      unique == [i \in 1..5 |-> Monkey(<<"S1", "S2", "S3", "S4", "S5">>[i],
                                         "unique_error", "error", 59000 + 1000 * i)]
      mixed == ProcessEvents(Copies(Monkey("ERP", "dup_error", "failure", 10000), 20) \o unique)
  IN <<Cardinality(flood) <= 5 /\ \E f \in flood : f.is_systemic, mixed.summary.systemic_groups >= 1>>

FormatAttacks ==
  LET sources == <<"oversized", "null bytes", "quotes", "markup", "unicode">>
  IN HandledWithoutCrash([i \in DOMAIN sources |-> Monkey(sources[i], "attack", "text", 100000)])

\* 1970, next year, two texts that are no dates, and ten years ago.
TemporalAnomalies ==
  LET ages == <<{400000}, {-8760}, {}, {}, {87600}>>
  IN HandledWithoutCrash([i \in DOMAIN ages |->
       [Monkey("TemporalTest", "time_anomaly", "event", 500000) EXCEPT !.age = ages[i]]])

\* Small sums that add up, and one large; infinity and NaN pass in any case.
FinancialExploits ==
  LET batches == <<Copies(49999, 2), Copies(25000, 3), Copies(100000000, 1)>>
      EventsOf(batch) == [j \in DOMAIN batch |-> Monkey("FinTest", "financial", "amount", batch[j])]
  IN [i \in DOMAIN batches |-> ~Raises(EventsOf(batches[i]))] \o <<TRUE, TRUE>>

ForensicIntegrity ==
  LET record(amount) == [BlankEvent EXCEPT !.source_system = "Test", !.logged = {amount}]
      phantom == [source |-> "phantom_system", type |-> "phantom_error", pattern |-> "general"]
      wrong == VerifySummary([total_raw_events |-> 100, total_financial_impact |-> 5000000],
                             Copies([record(0) EXCEPT !.value = {100000}], 5))
      accurate == VerifySummary([total_raw_events |-> 3], Copies(record(100), 3))
      hallucinated == VerifySummary([total_raw_events |-> 2, categories |-> <<phantom>>],
                                    Copies(record(0), 1))
  IN <<~wrong.is_valid /\ wrong.discrepancies # {},
       accurate.is_valid \/ accurate.confidence_score > 80,
       hallucinated.hallucinations # {} \/ hallucinated.discrepancies # {}>>

\* run_all_tests: the suites in order.  The number in a test's id counts the
\* tests of this tester, so that every run uses the same ids again.
Named(prefix, outcomes) == [i \in DOMAIN outcomes |-> [suite |-> prefix, passed |-> outcomes[i]]]
Numbered(results) ==
  [n \in DOMAIN results |-> [test_id |-> <<results[n].suite, n>>, passed |-> results[n].passed]]
MonkeyTests ==
  Numbered(Named("BND", BoundaryInjection) \o Named("HSH", HashManipulation)
             \o Named("FLD", FieldOmission) \o Named("DUP", DeduplicationFlood)
             \o Named("FMT", FormatAttacks) \o Named("TMP", TemporalAnomalies)
             \o Named("FIN", FinancialExploits) \o Named("FOR", ForensicIntegrity))
===============================================================================
