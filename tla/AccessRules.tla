------------------------------ MODULE AccessRules ------------------------------
(***************************************************************************)
(* The logical access tests of engine/access.py on the rows of a user      *)
(* list.                                                                   *)
(***************************************************************************)
EXTENDS ControlTest

CONSTANTS
  PrivilegedRoles,   \* roles whose name contains a privileged keyword
  GenericAccounts,   \* user ids that begin like a shared account
  MaxPrivileged      \* more privileged roles than this are excessive

ASSUME MaxPrivilegedAssumption == MaxPrivileged \in Nat

DormantThresholdDays == 90
ReviewCycleDays == 90

BlankUser == [user_id |-> "", status |-> "", roles |-> {}, termination_date |-> NoDate,
              last_login_date |-> NoDate, access_review_date |-> NoDate, mfa_enabled |-> ""]

\* The text is cut to the length of the format string, not of the date: eight
\* characters for the ISO format, so that a padded date never parses.
Parsed(date) == date.form \in {"cell", "slashed"}
Older(date, days) == Parsed(date) /\ date.age > days

IsPrivileged(roles) == roles \cap PrivilegedRoles # {}

AccessFindings(row, user) ==
  LET Raise(type, risk) == Finding("ITGC-LA", row, user.user_id, type, risk)
      terminated == \/ user.status \in {"terminated", "inactive", "disabled"}
                    \/ Older(user.termination_date, 0)
      out == user.status \in {"terminated", "inactive", "disabled"}
  IN UNION {
       RaiseIf(terminated /\ user.status \notin {"disabled", "inactive", "locked"},
               Raise("TERMINATED_USER_ACTIVE", "CRITICAL")),
       RaiseIf(~out /\ Older(user.last_login_date, DormantThresholdDays),
               Raise("DORMANT_ACCOUNT", IF IsPrivileged(user.roles) THEN "HIGH" ELSE "MEDIUM")),
       RaiseIf(IsPrivileged(user.roles) /\ user.mfa_enabled # "yes",
               Raise("PRIVILEGED_NO_MFA", "CRITICAL")),
       RaiseIf(/\ user.user_id \in GenericAccounts /\ user.roles # {}
               /\ user.status \notin {"disabled", "inactive"},
               Raise("GENERIC_SHARED_ACCOUNT", "HIGH")),
       RaiseIf(Older(user.access_review_date, ReviewCycleDays),
               Raise("ACCESS_REVIEW_OVERDUE", "MEDIUM")),
       RaiseIf(~Parsed(user.access_review_date) /\ user.status \notin {"terminated", "disabled"},
               Raise("ACCESS_REVIEW_MISSING", "MEDIUM")),
       RaiseIf(Cardinality(user.roles \cap PrivilegedRoles) > MaxPrivileged,
               Raise("EXCESSIVE_PRIVILEGE", "HIGH"))}

TestAccessControls(users) == UNION {AccessFindings(Row(i), users[i]) : i \in DOMAIN users}
===============================================================================
