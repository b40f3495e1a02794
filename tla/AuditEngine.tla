------------------------------ MODULE AuditEngine ------------------------------
(***************************************************************************)
(* The orchestrator of engine/runner.py: it gathers the rows of all sheets *)
(* by type, checks users against HR master data, runs the tests of every   *)
(* type that has rows, links access findings to transaction findings, adds *)
(* the lineage of rows, and rates the whole.                               *)
(***************************************************************************)
EXTENDS DataIntake, SegregationOfDuties, AccessRules, ChangeRules,
        OperationsRules, TransactionControls

\* A text is a pair of what it is (the name a row shows, a number in some
\* notation, words of the program) and its value.  An id that would run over
\* from one text of a description into the next is left out.
CONSTANT
  NamesIn(_)     \* NamesIn(text): the user ids that are substrings of the text

\* A variant that keeps the last sheet of a type only.
LastOfType(parsed, type) ==
  LET of == {i \in DOMAIN parsed : parsed[i].data_type = type}
  IN IF of = {} THEN <<>> ELSE parsed[CHOOSE i \in of : \A j \in of : j <= i].records

\* The rows of the sheets of a type, in the order of the sheets.
RecordsOfType(parsed, type) ==
  LET To[i \in 0..Len(parsed)] ==
        IF i = 0 THEN <<>>
        ELSE To[i - 1] \o IF parsed[i].data_type = type THEN parsed[i].records ELSE <<>>
  IN To[Len(parsed)]

\* referential_integrity_check: the users that HR master data does not name.
IntegrityIssues(users, hr) ==
  {u \in {users[i].user_id : i \in DOMAIN users} \ {""} :
     u \notin {hr[i].user_id : i \in DOMAIN hr}}

SodBlocked(users, hr) == hr # <<>> /\ IntegrityIssues(users, hr) # {}

\* The engines and their findings; an engine runs if its type has rows.
DomainResults(parsed) ==
  LET Rows(type) == RecordsOfType(parsed, type)
      Ops(type) == TestOperationsControls(Rows(type), type)
  IN [sod |-> IF SodBlocked(Rows("users"), Rows("hr_master")) THEN {}
              ELSE DetectSodConflicts(UserRoles(Rows("users"))),
      access |-> TestAccessControls(Rows("users")),
      change_management |-> TestChangeManagement(Rows("changes")),
      operations_backup |-> Ops("backup"),
      operations_incidents |-> Ops("incident"),
      operations_dr |-> Ops("dr"),
      itac |-> RunAllItacTests(Rows("transactions"), Rows("interfaces"))]

AllFindings(domains) == UNION {domains[d] : d \in DOMAIN domains}

\* The user a finding reports: an account without an id has one of the program's.
ReportedUser(finding) == IF finding.subject = "" THEN "UNKNOWN" ELSE finding.subject

\* A variant for which any transaction finding involves every user.
CorroboratesAlways(texts, finding) == finding.area \in {"ITGC-SOD", "ITGC-LA"} /\ texts # {}

\* A user counts as involved in a transaction when its id is a substring of
\* the description of a finding about one, whatever it stands for there.
Corroborates(texts, finding) ==
  /\ finding.area \in {"ITGC-SOD", "ITGC-LA"}
  /\ \E text \in texts : ReportedUser(finding) \in NamesIn(text)

\* The descriptions of the transaction findings among some findings.
Described(findings, invoices, interfaces) ==
  {Description(f, invoices, interfaces) : f \in {f \in findings : f.area \in {"ITAC-AP", "ITAC-INT"}}}

Corroborated(findings, descriptions) ==
  {[f EXCEPT !.risk_level =
      IF \E texts \in descriptions : Corroborates(texts, f) THEN "CRITICAL" ELSE @] : f \in findings}

\* The row a finding's evidence points at: the last row of the file that has
\* the finding's user or record id under one of five columns.
IdsOf(row) ==
  {row[k] : k \in {"user_id", "invoice_id", "ticket_id", "id"} \cap DOMAIN row} \ {""}

Lineage(parsed, finding) ==
  LET places == {p \in (DOMAIN parsed) \X (1..10) :
                   /\ p[2] \in DOMAIN parsed[p[1]].records
                   /\ finding.subject \in IdsOf(parsed[p[1]].records[p[2]])}
  IN IF finding.area = "ITGC-CM" \/ places = {} THEN <<>>
     ELSE CHOOSE p \in places : \A q \in places : p[1] > q[1] \/ (p[1] = q[1] /\ p[2] >= q[2])

\* datetime.fromisoformat understands ISO text and the text of a datetime.
FromIso(date) == date.form \in {"iso", "cell"}

TermDates(users) ==
  LET dated == {i \in DOMAIN users : users[i].user_id # "" /\ FromIso(users[i].termination_date)}
      LastOf(user) == CHOOSE i \in dated : /\ users[i].user_id = user
                                           /\ \A j \in dated : users[j].user_id = user => j <= i
  IN [user \in {users[i].user_id : i \in dated} |-> users[LastOf(user)].termination_date.age]

\* Transactions posted after their user's termination; looked for only when
\* the access tests found a terminated user whose account is active.
SwarmNudges(findings, users, invoices) ==
  LET terms == TermDates(users)
      poster(i) == invoices[i].posted_by
  IN IF \A f \in findings : f.type # "TERMINATED_USER_ACTIVE" THEN {}
     ELSE {i \in DOMAIN invoices : /\ poster(i) \in DOMAIN terms
                                   /\ FromIso(invoices[i].invoice_date)
                                   /\ invoices[i].invoice_date.age < terms[poster(i)]}

RiskWeights == [CRITICAL |-> 40, HIGH |-> 20, MEDIUM |-> 8, LOW |-> 2]

\* A variant that rates the average finding.
ComputeAverageScore(by_risk) ==
  LET raw == 40 * by_risk.CRITICAL + 20 * by_risk.HIGH + 8 * by_risk.MEDIUM + 2 * by_risk.LOW
      count == by_risk.CRITICAL + by_risk.HIGH + by_risk.MEDIUM + by_risk.LOW
  IN IF count = 0 THEN 0 ELSE (100 * raw) \div (40 * count)

\* raw / 200 * 100 in floating point, cut to an integer: three sums below 200
\* lose their last unit.
ComputeRiskScore(by_risk) ==
  LET raw == 40 * by_risk.CRITICAL + 20 * by_risk.HIGH + 8 * by_risk.MEDIUM + 2 * by_risk.LOW
      cut == IF raw \in {58, 114, 116} THEN raw \div 2 - 1 ELSE raw \div 2
  IN IF cut > 100 THEN 100 ELSE cut

RiskRating(score) ==
  CASE score >= 70 -> "CRITICAL" [] score >= 45 -> "HIGH" [] score >= 20 -> "MEDIUM"
    [] OTHER -> "LOW"

\* The payload.  The summaries of the domains were taken before the findings
\* were linked; the totals and the score are taken after.
RunAuditEngine(parsed) ==
  LET domains == DomainResults(parsed)
      users == RecordsOfType(parsed, "users")
      invoices == RecordsOfType(parsed, "transactions")
      interfaces == RecordsOfType(parsed, "interfaces")
      found == AllFindings(domains)
      findings == Corroborated(found, Described(found, invoices, interfaces))
      by_risk == ByRisk(findings)
      rating == RiskRating(ComputeRiskScore(by_risk))
  IN [domains |-> [d \in DOMAIN domains |-> ByRisk(domains[d])],
      all_findings |-> findings,
      lineage |-> [f \in findings |-> Lineage(parsed, f)],
      swarm_nudges |-> SwarmNudges(findings, users, invoices),
      findings_by_risk |-> by_risk,
      overall_risk_score |-> ComputeRiskScore(by_risk),
      overall_risk_rating |-> rating,
      sox_impact |-> rating \in {"CRITICAL", "HIGH"},
      management_action_required |-> by_risk.CRITICAL > 0]
===============================================================================
