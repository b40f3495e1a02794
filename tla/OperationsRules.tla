---------------------------- MODULE OperationsRules ----------------------------
(***************************************************************************)
(* The computer operations tests of engine/operations.py: backups,         *)
(* incidents and recovery tests.  The runner passes no job records.        *)
(***************************************************************************)
EXTENDS ControlTest

BackupFrequencyDays == 1
DrTestFrequencyDays == 365
IncidentResponseHours == 4

NoTime == -1  \* created_at, resolved_at is missing

BlankBackup == [id |-> "", job_name |-> "", system |-> "", status |-> "", backup_date |-> NoDate,
                restore_tested |-> ""]
BlankIncident == [id |-> "", priority |-> "", status |-> "", created_at |-> NoTime,
                  resolved_at |-> NoTime]
BlankDrTest == [id |-> "", result |-> "", test_date |-> NoDate, rto_met |-> ""]

\* Padded dates in any known order and workbook dates; no unpadded
\* year/month/day text.
Dates(date) == date.form \notin {"none", "slashed"}

BackupFindings(row, backup) ==
  LET Raise(type, risk) == Finding("ITGC-OPS", row, backup.id, type, risk)
  IN UNION {
       RaiseIf(backup.status = "failed", Raise("BACKUP_FAILURE", "CRITICAL")),
       RaiseIf(Dates(backup.backup_date) /\ backup.backup_date.age > BackupFrequencyDays,
               Raise("BACKUP_OVERDUE", "HIGH")),
       RaiseIf(backup.restore_tested # "yes", Raise("BACKUP_NOT_VERIFIED", "MEDIUM"))}

IncidentFindings(row, incident) ==
  LET Raise(type, risk) == Finding("ITGC-OPS", row, incident.id, type, risk)
      urgent == incident.priority = "p1" /\ incident.created_at # NoTime
      resolved == incident.resolved_at # NoTime
  IN UNION {
       RaiseIf(/\ urgent /\ resolved
               /\ incident.resolved_at - incident.created_at > IncidentResponseHours,
               Raise("P1_RESPONSE_BREACH", "HIGH")),
       RaiseIf(urgent /\ ~resolved /\ incident.status \notin {"resolved", "closed", "fixed"},
               Raise("P1_UNRESOLVED", "CRITICAL"))}

DrFindings(row, test) ==
  LET Raise(type, risk) == Finding("ITGC-OPS", row, test.id, type, risk)
  IN RaiseIf(test.result = "failed", Raise("DR_TEST_FAILED", "CRITICAL"))
       \cup RaiseIf(test.rto_met # "yes", Raise("RTO_NOT_MET", "HIGH"))

\* Only the newest dated test counts for the yearly requirement.  The finding
\* for an empty list is never raised: the runner skips empty lists.
DrOverdue(tests) ==
  LET dated == {i \in DOMAIN tests : Dates(tests[i].test_date)}
  IN RaiseIf(/\ dated # {}
             /\ \A i \in dated : tests[i].test_date.age > DrTestFrequencyDays,
             Finding("ITGC-OPS", <<"dr">>, "DR-OVERDUE", "DR_TEST_OVERDUE", "HIGH"))

TestOperationsControls(records, record_type) ==
  CASE record_type = "backup" -> UNION {BackupFindings(Row(i), records[i]) : i \in DOMAIN records}
    [] record_type = "incident" -> UNION {IncidentFindings(Row(i), records[i]) : i \in DOMAIN records}
    [] record_type = "dr" -> (UNION {DrFindings(Row(i), records[i]) : i \in DOMAIN records})
                               \cup DrOverdue(records)
===============================================================================
