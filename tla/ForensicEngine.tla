----------------------------- MODULE ForensicEngine -----------------------------
(***************************************************************************)
(* The forensic layer of the Phase 1 vault (core/forensic_engine.py): a     *)
(* summary is checked against the records it claims to summarise, and an    *)
(* executive summary is written for a batch and checked the same way.       *)
(*                                                                         *)
(* A summary is a record with any of the fields the checks look at; amounts *)
(* are in cents.  The records are a function to the events of SoxValidator. *)
(***************************************************************************)
EXTENDS SoxValidator

Field(summary, field, default) == IF field \in DOMAIN summary THEN summary[field] ELSE default
Given(summary, field) == IF field \in DOMAIN summary THEN {summary[field]} ELSE {}

\* The claim in the first of two fields; a claim of zero in the first counts as
\* no claim, and the second field is read instead.
Claimed(summary, field, other) ==
  IF Given(summary, field) \ {0} # {} THEN Given(summary, field) ELSE Given(summary, other)

\* _extract_amount of this module: it does not look at payments or metadata.
RecordAmount(record) ==
  CASE record.value # {} -> Magnitude(TheOnly(record.value))
    [] record.value = {} /\ record.logged # {} -> Magnitude(TheOnly(record.logged))
    [] OTHER -> 0
ActualTotal(records) == SumFunction([i \in DOMAIN records |-> RecordAmount(records[i])])

\* What the checks note down: a discrepancy, a math error, a hallucination or
\* a warning, what it is about, and how grave it is.
Issue(kind, about, severity) == [kind |-> kind, about |-> about, severity |-> severity]

CheckRecordCounts(summary, records) ==
  LET Off(claim) == Magnitude(claim - Cardinality(DOMAIN records))
  IN {Issue("discrepancy", "total_raw_events", IF Off(claim) > 10 THEN "critical" ELSE "high") :
        claim \in {c \in Claimed(summary, "total_raw_events", "total_records") : Off(c) # 0}}
     \cup {Issue("discrepancy", key, "medium") :
             key \in {k \in {"critical_findings", "high_findings", "auto_cleared",
                             "systemic_groups"} : Field(summary, k, 0) < 0}}

\* A variant that only looks at differences of more than a thousand dollars.
CheckLargeTotals(summary, records) ==
  {Issue("math_error", "total_financial_impact", "critical") :
     c \in {c \in Claimed(summary, "total_financial_impact", "total_amount") :
              Magnitude(c - ActualTotal(records)) > 100000}}

\* More than 5 percent and 100 dollars off is an error, 1 percent a warning.
CheckFinancialTotals(summary, records) ==
  LET actual == ActualTotal(records)
      Off(claim) == Magnitude(claim - actual)
      Wrong(claim) == IF actual > 0 THEN Off(claim) > actual \div 20 /\ Off(claim) > 10000
                      ELSE claim > 10000
      claims == Claimed(summary, "total_financial_impact", "total_amount")
  IN {Issue("math_error", "total_financial_impact", "critical") : c \in {c \in claims : Wrong(c)}}
     \cup {Issue("warning", "total_financial_impact", "none") :
             c \in {c \in claims : ~Wrong(c) /\ actual > 0 /\ Off(c) > actual \div 100}}

CheckPriorityDistribution(summary) ==
  LET named == {"critical_findings", "high_findings", "medium_findings", "low_findings",
                "auto_cleared"}
      total_raw == Field(summary, "total_raw_events", 0)
  IN {Issue("warning", "priorities", "none") :
        over \in {o \in {SumFunction([k \in named |-> Field(summary, k, 0)])} :
                  total_raw > 0 /\ o > total_raw}}

\* Sources named in the summary, and in the categories of its findings, that
\* no record comes from.
CheckSourceReferences(summary, records) ==
  LET actual == {records[i].source_system : i \in DOMAIN records} \ {""}
      Unknown(source) == source # "" /\ source \notin actual
      sources == Field(summary, "source_systems", <<>>)
      categories == Field(summary, "categories", <<>>)
  IN {Issue("hallucination", <<"source", i>>, "high") : i \in {i \in DOMAIN sources : Unknown(sources[i])}}
     \cup {Issue("hallucination", <<"finding", i>>, "high") :
             i \in {i \in DOMAIN categories : Unknown(categories[i].source)
                                              /\ categories[i].source # "unknown"}}

CheckHashClaims(summary, records) ==
  LET verified == Cardinality({i \in DOMAIN records : records[i].hash_verified = {TRUE}})
  IN {Issue("discrepancy", "hash_verified_count", "critical") :
        c \in {c \in Given(summary, "hash_verified_count") : c # verified}}

\* The period claimed, as ages of its ends, or a text that is no date.
CheckTemporalClaims(summary, records) ==
  LET ages == UNION {records[i].age : i \in DOMAIN records}
      Covers(period) == \A age \in ages : age <= period.start /\ age >= period.end
  IN {Issue("warning", "period", "none") :
        p \in {p \in Field(summary, "period", {}) : ages # {} /\ (p.garbled \/ ~Covers(p))}}

\* verify_summary: the checks in a row.  Any issue that is not a warning makes
\* the summary invalid; every issue lowers the confidence.
Degradation == [critical |-> 25, high |-> 15, medium |-> 8, low |-> 3, none |-> 2]

IntegrityCheckResult(issues) ==
  LET lost == SumFunction([issue \in issues |-> Degradation[issue.severity]])
      Of(kind) == {issue \in issues : issue.kind = kind}
  IN [is_valid |-> issues = Of("warning"),
      confidence_score |-> IF lost > 100 THEN 0 ELSE 100 - lost,
      discrepancies |-> Of("discrepancy"), math_errors |-> Of("math_error"),
      hallucinations |-> Of("hallucination"), warnings |-> Of("warning"),
      total_issues |-> Cardinality(issues \ Of("warning"))]

VerifySummary(summary, records) ==
  IntegrityCheckResult(CheckRecordCounts(summary, records)
    \cup CheckFinancialTotals(summary, records) \cup CheckPriorityDistribution(summary)
    \cup CheckSourceReferences(summary, records) \cup CheckHashClaims(summary, records)
    \cup CheckTemporalClaims(summary, records))

\* verify_finding_against_data: one finding against the events it was made of.
VerifyFindingAgainstData(finding, records) ==
  LET actual == ActualTotal(records)
      off == Magnitude(finding.financial_impact - actual)
      Only(issue, bad) == IF bad THEN {issue} ELSE {}
  IN IntegrityCheckResult(
       Only(Issue("discrepancy", "occurrence_count", "high"),
            finding.occurrence_count # Cardinality(finding.raw_event_ids))
       \cup Only(Issue("math_error", "financial_impact", IF off > 100000 THEN "critical" ELSE "high"),
                 off > 100 /\ off > actual \div 100)
       \cup Only(Issue("discrepancy", "risk_score", "critical"),
                 finding.risk_score \notin 0..10000))

\* generate_reasoning: the reasons given for one event of a control type.
GenerateReasoning(event, control_type, impact) ==
  LET reasons ==
        {r \in {"bypass", "failure", "negative", "boundary", "access", "integrity", "material"} :
           CASE r = "bypass" -> control_type = "preventative"
             [] r = "failure" -> control_type = "detective"
             [] r = "negative" -> event.negative
             [] r = "boundary" -> event.logged \cap BoundaryValues # {}
             [] r = "access" -> event.user # ""
             [] r = "integrity" -> event.hash_verified = {FALSE}
             [] r = "material" -> impact >= 1000000}
  IN IF reasons = {} THEN {"general"} ELSE reasons

\* A finding where a record is expected: only its impact is looked at.
AsRecord(finding) == [BlankEvent EXCEPT !.value = {finding.financial_impact}]

Recommendations(summary) ==
  LET advice == {a \in {"IMMEDIATE", "SYSTEMIC", "PRIORITY"} :
                   CASE a = "IMMEDIATE" -> summary.critical_count > 0
                     [] a = "SYSTEMIC" -> summary.systemic_count > 0
                     [] a = "PRIORITY" -> summary.high_count > 0}
  IN IF advice = {} THEN {"MAINTAIN"} ELSE advice

RiskPosture(critical, high) ==
  CASE critical > 0 -> "Critical" [] critical = 0 /\ high > 0 -> "Elevated" [] OTHER -> "Stable"

\* generate_executive_summary: written from the findings, the five of highest
\* risk named, and checked against the findings themselves.
GenerateExecutiveSummary(findings, stats) ==
  LET With(Test(_)) == Cardinality({f \in findings : Test(f)})
      critical == With(LAMBDA f : f.priority = "Critical")
      high == With(LAMBDA f : f.priority = "High")
      systemic == With(LAMBDA f : f.is_systemic)
      scores == {f.risk_score : f \in findings}
      counts == [critical_count |-> critical, high_count |-> high, systemic_count |-> systemic]
  IN [counts |-> counts, risk_posture |-> RiskPosture(critical, high),
      recommendations |-> Recommendations(counts),
      total_financial_exposure |-> SumFunction([f \in findings |-> f.financial_impact]),
      highest_risk_score |-> IF scores = {} THEN 0 ELSE Max(scores),
      top_findings |-> {f.finding_id : f \in {f \in findings :
                                                With(LAMBDA g : g.risk_score > f.risk_score) < 5}},
      integrity_check |-> VerifySummary(stats, [f \in findings |-> AsRecord(f)])]
===============================================================================
