------------------------------ MODULE SoxValidator ------------------------------
(***************************************************************************)
(* The materiality and aggregation engine of the Phase 1 vault             *)
(* (core/sox_validator.py): raw events are grouped by signature, groups    *)
(* below the materiality threshold are cleared, the others are scored.     *)
(*                                                                         *)
(* An event is a record.  Its amounts are in cents, each a set of at most  *)
(* one value: what the amount fields hold, what the payment field holds,   *)
(* the first number of the log text, and what the metadata hold.  negative *)
(* says that the text shows a number with a minus sign, refund that the    *)
(* field "amount" itself, the first of the amount fields, is below zero.   *)
(***************************************************************************)
EXTENDS Integers, Sequences, FiniteSets, FiniteSetsExt

CONSTANTS
  LogOf(_),             \* LogOf(dollars): its decimal logarithm, in hundredths
  MaterialityThreshold, \* in cents
  SystemicThreshold     \* groups of at least this many events are systemic

ASSUME ThresholdsAssumption == MaterialityThreshold \in Nat /\ SystemicThreshold \in Nat \ {0}

BlankEvent == [source_system |-> "", event_type |-> "", log_data |-> "", value |-> {},
               payment |-> {}, logged |-> {}, metadata |-> {}, negative |-> FALSE,
               refund |-> FALSE, garbled |-> FALSE, hash_sequence |-> "", hash_verified |-> {},
               keyword |-> "none", user |-> "", age |-> {}]

Magnitude(x) == IF x < 0 THEN -x ELSE x
Capped(score, cap) == IF score > cap THEN cap ELSE score
TheOnly(set) == CHOOSE x \in set : TRUE

\* _compute_event_signature: source, type and the text without its numbers.
ComputeEventSignature(event) ==
  [source |-> IF event.source_system = "" THEN "unknown" ELSE event.source_system,
   type |-> IF event.event_type = "" THEN "unknown" ELSE event.event_type,
   pattern |-> IF event.log_data = "" THEN "general" ELSE event.log_data]

Deduplicate(events) == {ComputeEventSignature(events[i]) : i \in DOMAIN events}
\* A grouping that forgets where an event comes from.
GroupByPattern(events, signature) ==
  {i \in DOMAIN events : ComputeEventSignature(events[i]).pattern = signature.pattern}
GroupOf(events, signature) == {i \in DOMAIN events : ComputeEventSignature(events[i]) = signature}

\* _extract_amount: the first place that holds a number; its sign is dropped.
ExtractAmount(event) ==
  CASE event.value # {} -> Magnitude(TheOnly(event.value))
    [] event.value = {} /\ event.payment # {} -> Magnitude(TheOnly(event.payment))
    [] event.value = {} /\ event.payment = {} /\ event.logged # {} -> Magnitude(TheOnly(event.logged))
    [] OTHER -> IF event.metadata = {} THEN 0 ELSE Magnitude(TheOnly(event.metadata))

\* A variant that lets refunds make up for payments.
NetImpact(events, group) ==
  Magnitude(SumFunction([i \in group |-> IF \E x \in events[i].value : x < 0
                                         THEN -ExtractAmount(events[i]) ELSE ExtractAmount(events[i])]))
FinancialImpact(events, group) == SumFunction([i \in group |-> ExtractAmount(events[i])])

BoundaryValues == {0, 1, 99999, 999999, 9999999}

\* Each kind of oddity counts once, however many events of the group show it.
AssessBehavioralComplexity(events, group) ==
  LET Any(P(_)) == \E i \in group : P(events[i])
      score(found, points) == IF found THEN points ELSE 0
  IN score(Any(LAMBDA e : e.negative \/ e.refund), 20)
     + score(Any(LAMBDA e : ExtractAmount(e) \in BoundaryValues), 25)
     + score(Any(LAMBDA e : e.source_system = "" \/ e.event_type = ""), 15)
     + score(\E i, j \in group : /\ i # j /\ events[i].hash_sequence # ""
                                 /\ events[i].hash_sequence = events[j].hash_sequence, 30)

\* In hundredths, from the youngest event; dates without a zone are ignored.
AssessRecency(events, group) ==
  LET ages == UNION {events[i].age : i \in group}
      youngest == CHOOSE a \in ages : \A b \in ages : a <= b
  IN CASE ages = {} -> 5000
       [] ages # {} /\ youngest <= 1 -> 10000
       [] ages # {} /\ youngest \in 2..24 -> 8000 - (2000 * youngest) \div 24
       [] ages # {} /\ youngest \in 25..168 -> 3000
       [] OTHER -> 1000

\* The first event that shows a keyword decides for its group.
DetectControlType(events, group) ==
  LET telling == {i \in group : events[i].keyword # "none"}
  IN IF telling = {} THEN "monitoring"
     ELSE events[CHOOSE i \in telling : \A j \in telling : i <= j].keyword

ControlSeverity == [preventative |-> 100, detective |-> 70, corrective |-> 50, monitoring |-> 30]

\* 15 points for every power of ten of the impact in dollars, in hundredths.
ValueScore(impact) == IF impact < 100 THEN 0 ELSE Capped(15 * LogOf(impact \div 100), 10000)

\* The weighted score, in hundredths of a point.
Weighted(value, complexity, severity, frequency, recency) ==
  Capped((35 * value) \div 100 + 25 * complexity + 20 * severity + 10 * frequency
           + recency \div 10, 10000)

\* A variant that gives an event of a systemic group too few points.
ComputeDiscountedScore(events, group, impact, is_systemic) ==
  LET count == Cardinality(group)
  IN Weighted(ValueScore(impact), AssessBehavioralComplexity(events, group),
              ControlSeverity[DetectControlType(events, group)],
              IF is_systemic THEN Capped(2 * count, 100) ELSE Capped(10 * count, 50),
              AssessRecency(events, group))

ComputeRiskScore(events, group, impact, is_systemic) ==
  LET count == Cardinality(group)
  IN Weighted(ValueScore(impact), AssessBehavioralComplexity(events, group),
              ControlSeverity[DetectControlType(events, group)],
              IF is_systemic THEN Capped(5 * count, 100) ELSE Capped(10 * count, 50),
              AssessRecency(events, group))

ScoreToPriority(score) ==
  CASE score >= 8000 -> "Critical" [] score \in 6000..7999 -> "High"
    [] score \in 4000..5999 -> "Medium" [] OTHER -> "Low"

\* The id is a digest of the signature and the number of events.
GenerateFindingId(signature, group) == <<signature, Cardinality(group)>>

\* The reasons named for a finding: they follow from its other fields.
AuditorReasoning(events, group, impact, is_systemic) ==
  {DetectControlType(events, group)}
    \cup (CASE impact >= 5000000 -> {"high exposure"} [] impact \in 500000..4999999 -> {"material"}
            [] OTHER -> {})
    \cup (IF is_systemic THEN {"systemic"} ELSE {})
    \cup (IF AssessBehavioralComplexity(events, group) >= 40 THEN {"behavioral anomaly"} ELSE {})

FindingOf(events, signature) ==
  LET group == GroupOf(events, signature)
      impact == FinancialImpact(events, group)
      is_systemic == Cardinality(group) >= SystemicThreshold
      score == ComputeRiskScore(events, group, impact, is_systemic)
  IN [finding_id |-> GenerateFindingId(signature, group), category |-> signature,
      risk_score |-> score, priority |-> ScoreToPriority(score), financial_impact |-> impact,
      occurrence_count |-> Cardinality(group), is_systemic |-> is_systemic,
      raw_event_ids |-> group, control_type |-> DetectControlType(events, group),
      auditor_reasoning |-> AuditorReasoning(events, group, impact, is_systemic)]

\* A group is cleared when it is neither material nor systemic.
Cleared(events, signature) ==
  /\ FinancialImpact(events, GroupOf(events, signature)) < MaterialityThreshold
  /\ Cardinality(GroupOf(events, signature)) < SystemicThreshold

BuildSummary(events, findings, auto_cleared) ==
  LET With(priority) == Cardinality({f \in findings : f.priority = priority})
  IN [total_raw_events |-> Len(events), auto_cleared |-> auto_cleared,
      systemic_groups |-> Cardinality({f \in findings : f.is_systemic}),
      critical_findings |-> With("Critical"), high_findings |-> With("High"),
      medium_findings |-> With("Medium"), low_findings |-> With("Low"),
      total_financial_impact |-> SumFunction([f \in findings |-> f.financial_impact])]

\* process_events.  One amount field that holds text ends it with an error,
\* although the amounts themselves pass over such text.
Raises(events) == \E s \in Deduplicate(events) :
  ~Cleared(events, s) /\ \E i \in GroupOf(events, s) : events[i].garbled

ProcessEvents(events) ==
  LET kept == {s \in Deduplicate(events) : ~Cleared(events, s)}
      findings == {FindingOf(events, s) : s \in kept}
      cleared == UNION {GroupOf(events, s) : s \in Deduplicate(events) \ kept}
  IN [findings |-> findings, summary |-> BuildSummary(events, findings, Cardinality(cleared))]

\* One event by itself, with fixed marks for frequency and recency.
ValidateSingleEvent(event) ==
  LET impact == ExtractAmount(event)
      score == Weighted(ValueScore(impact), AssessBehavioralComplexity(<<event>>, {1}),
                        ControlSeverity[DetectControlType(<<event>>, {1})], 10, 8000)
  IN [risk_score |-> score, priority |-> ScoreToPriority(score),
      financial_impact |-> impact, is_material |-> impact >= MaterialityThreshold]
===============================================================================
