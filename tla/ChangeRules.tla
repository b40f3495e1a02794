------------------------------ MODULE ChangeRules ------------------------------
(***************************************************************************)
(* The change management tests of engine/change.py on a list of tickets.   *)
(***************************************************************************)
EXTENDS ControlTest

CONSTANT HighVelocityThreshold  \* more changes in a week than this are a risk

ASSUME VelocityAssumption == HighVelocityThreshold \in Nat

ChangeWindowHours == 6..21
NoHour == -1  \* no implementation_hour, or one that is no number

BlankChange == [ticket_id |-> "", initiator |-> "", approver |-> "", environment |-> "",
                change_type |-> "", test_evidence |-> "", post_impl_review |-> "",
                implementation_hour |-> NoHour, implementation_date |-> NoDate]

IsProd(change) == change.environment = "prod"

ChangeFindings(row, change) ==
  LET Raise(type, risk) == Finding("ITGC-CM", row, change.ticket_id, type, risk)
  IN UNION {
       RaiseIf(change.approver = "",
               Raise("NO_APPROVAL", IF IsProd(change) THEN "CRITICAL" ELSE "HIGH")),
       RaiseIf(change.approver # "" /\ change.initiator = change.approver,
               Raise("SELF_APPROVED", "CRITICAL")),
       RaiseIf(change.change_type = "emergency" /\ change.post_impl_review # "yes",
               Raise("EMERGENCY_NO_PIR", "HIGH")),
       RaiseIf(/\ IsProd(change) /\ change.test_evidence # "yes"
               /\ change.change_type # "standard",
               Raise("NO_TEST_EVIDENCE", "HIGH")),
       RaiseIf(/\ IsProd(change) /\ change.implementation_hour # NoHour
               /\ change.implementation_hour \notin ChangeWindowHours,
               Raise("OUTSIDE_CHANGE_WINDOW", "MEDIUM"))}

\* Weeks are counted back from today like days.
WeekOf(date) == date.age \div 7

\* Every date format of the file is understood here, unlike in the access tests.
BusyWeeks(changes) ==
  LET dated == {i \in DOMAIN changes : changes[i].implementation_date.form # "none"}
      InWeek(week) == {i \in dated : WeekOf(changes[i].implementation_date) = week}
  IN {week \in {WeekOf(changes[i].implementation_date) : i \in dated} :
        Cardinality(InWeek(week)) > HighVelocityThreshold}

TestChangeManagement(changes) ==
  (UNION {ChangeFindings(Row(i), changes[i]) : i \in DOMAIN changes})
    \cup {Finding("ITGC-CM", <<"week", week>>, "", "HIGH_CHANGE_VELOCITY", "MEDIUM") :
            week \in BusyWeeks(changes)}
===============================================================================
