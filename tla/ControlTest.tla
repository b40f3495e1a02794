------------------------------ MODULE ControlTest ------------------------------
(***************************************************************************)
(* What the control tests of engine/ share: the rows of an uploaded table, *)
(* the dates in them, and the findings they raise.                         *)
(*                                                                         *)
(* A row is a record; a missing column holds its blank value, because the  *)
(* code reads rows with chains of row.get(a) or row.get(b), for which      *)
(* None, "" and 0 are the same.  Days are counted back from today, so a    *)
(* date is its age.                                                        *)
(***************************************************************************)
EXTENDS Integers, FiniteSets

\* How a date stands in a cell: the ISO text the intake makes of every format
\* it knows, unpadded year/month/day text it does not know, or the datetime
\* object a workbook holds.
DateForms == {"iso", "slashed", "cell"}
Dated(form, age) == [form |-> form, age |-> age]
NoDate == Dated("none", 0)

RiskLevels == {"CRITICAL", "HIGH", "MEDIUM", "LOW"}

\* What raised a finding: a row, or a group of rows with a name of its own.
Row(i) == <<"row", i>>

\* A finding is told apart from others by the row (or group of rows) that
\* raised it; subject is the user, ticket or record id it names.
Finding(area, row, subject, type, risk) ==
  [area |-> area, row |-> row, subject |-> subject, type |-> type,
   risk_level |-> risk]

\* The findings of one test: one if the row fails it.
RaiseIf(fails, finding) == IF fails THEN {finding} ELSE {}

\* The by_risk_level table of summarize_*_results.
ByRisk(findings) ==
  [risk \in RiskLevels |-> Cardinality({f \in findings : f.risk_level = risk})]
===============================================================================
