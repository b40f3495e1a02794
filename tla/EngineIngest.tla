------------------------------ MODULE EngineIngest ------------------------------
(***************************************************************************)
(* The engine's endpoints (api/v1/endpoints/engine.py): a file is analysed *)
(* and its findings are stored one INSERT at a time, an auditor classifies *)
(* stored findings, and the accuracy of the engine is computed from the    *)
(* classifications.                                                        *)
(***************************************************************************)
EXTENDS AuditEngine

CONSTANTS
  Uploads,   \* the files that may be sent: sequences of sheets
  Verdicts,  \* the verdicts an auditor may send
  MaxRuns,     \* bound on the number of analyses
  MaxVerdicts  \* bound on the findings with a verdict

ASSUME BoundsAssumption == MaxRuns \in Nat \ {0} /\ MaxVerdicts \in Nat

\* A file is a list of sheets, a sheet a list of rows; a row about a user or
\* from an HR sheet names its user, and the roles are those of the matrix.
IsList(list) == list \in Seq({list[k] : k \in DOMAIN list})
IsSheet(sheet) ==
  LET type == DetectDataType(sheet.columns)
  IN /\ {"columns", "rows"} \subseteq DOMAIN sheet
     /\ IsList(sheet.rows)
     /\ \A r \in DOMAIN sheet.rows :
          /\ type \in {"users", "hr_master"} => "user_id" \in DOMAIN sheet.rows[r]
          /\ type = "users" => /\ "roles" \in DOMAIN sheet.rows[r]
                              /\ sheet.rows[r].roles \subseteq Roles
ASSUME UploadsAssumption ==
  \A file \in Uploads : IsList(file) /\ \A s \in DOMAIN file : IsSheet(file[s])

VARIABLES
  request,   \* the file under analysis, with its anonymize flag, or NoRequest
  session,   \* the transaction: whether it is under way, its rows, whether it aborted
  response,  \* the payload the client gets, or NoResponse
  findings,  \* the findings table: id -> [severity, lineage, verdict]
  runs       \* number of analyses so far

vars == <<request, session, response, findings, runs>>

NoRequest == [file |-> <<>>, anonymize |-> FALSE]
NoSession == [open |-> FALSE, rows |-> {}, aborted |-> FALSE]
NoResponse == [status |-> 0, all_findings |-> {}, file |-> <<>>]

TotalRecords(parsed) == Cardinality({p \in (DOMAIN parsed) \X (1..10) : p[2] \in DOMAIN parsed[p[1]].records})

\* tokenize_identities: only a finding's entity is replaced by a token.
TokenizeIdentities(all_findings) ==
  {IF "entity" \in DOMAIN f THEN [f EXCEPT !.entity = "token"] ELSE f : f \in all_findings}

\* The engine's payload for a file: both steps, with the parsed file named once.
Analysis(file) ==
  CHOOSE result \in {RunAuditEngine(parsed) : parsed \in {ParseFile(file)}} : TRUE

\* analyze_file up to the database: 422 for a file without records, otherwise
\* the payload of the engine, with fresh ids for its findings.
AnalyzeFile(file, anonymize) ==
  /\ request = NoRequest
  /\ runs' = runs + 1
  /\ \E parsed \in {ParseFile(file)} : \E result \in {RunAuditEngine(parsed)} :
        IF TotalRecords(parsed) = 0
        THEN /\ response' = [NoResponse EXCEPT !.status = 422]
             /\ UNCHANGED <<request, session>>
        ELSE /\ request' = [file |-> file, anonymize |-> anonymize]
             /\ session' = NoSession
             /\ response' = [status |-> 102,
                             all_findings |-> IF anonymize THEN TokenizeIdentities(result.all_findings)
                                              ELSE result.all_findings,
                             file |-> file, result |-> result]
  /\ UNCHANGED findings

\* The row stored for a finding.  Its evidence was replaced by a placeholder
\* just before, so that the lineage read from it is always missing.
StoredRow(f) == [severity |-> f.risk_level, lineage |-> <<>>, verdict |-> ""]

\* A variant for a database that goes on after an error.
InsertOthers(failed) ==
  /\ request # NoRequest /\ session = NoSession
  /\ session' = [open |-> TRUE, rows |-> response.all_findings \ failed, aborted |-> FALSE]
  /\ UNCHANGED <<request, response, findings, runs>>

\* The loop of INSERTs.  An error of one is passed over, but the database then
\* refuses the others and keeps nothing of the transaction.
InsertFindings(failed) ==
  /\ request # NoRequest /\ session = NoSession
  /\ session' = [open |-> TRUE, rows |-> response.all_findings, aborted |-> failed # {}]
  /\ UNCHANGED <<request, response, findings, runs>>

\* The COMMIT of an aborted transaction rolls it back without an error.
CommitFindings ==
  /\ request # NoRequest /\ session # NoSession
  /\ findings' = IF session.aborted THEN findings
                 ELSE [id \in DOMAIN findings \cup {<<runs, f>> : f \in session.rows} |->
                         IF id \in DOMAIN findings THEN findings[id] ELSE StoredRow(id[2])]
  /\ response' = [response EXCEPT !.status = 200]
  /\ request' = NoRequest /\ session' = NoSession
  /\ UNCHANGED runs

\* Any other error of the database ends the request with a 500.
DatabaseDown ==
  /\ request # NoRequest
  /\ response' = [NoResponse EXCEPT !.status = 500]
  /\ request' = NoRequest /\ session' = NoSession
  /\ UNCHANGED <<findings, runs>>

\* set_verdict: an id that is not in the table is answered as an update, too.
SetVerdict(id, verdict) ==
  /\ Cardinality({other \in DOMAIN findings \ {id} : findings[other].verdict # ""}) < MaxVerdicts
  /\ findings' = IF id \in DOMAIN findings THEN [findings EXCEPT ![id].verdict = verdict]
                 ELSE findings
  /\ UNCHANGED <<request, session, response, runs>>

\* get_accuracy: the share of confirmed findings among the decided ones.
Accuracy ==
  LET With(verdicts) == Cardinality({id \in DOMAIN findings : findings[id].verdict \in verdicts})
      decided == With({"confirmed"}) + With({"false_positive"})
  IN [total_reviewed |-> Cardinality(DOMAIN findings) - With({""}),
      true_positives |-> With({"confirmed"}),
      false_positives |-> With({"false_positive"}),
      precision |-> IF decided > 0 THEN (100 * With({"confirmed"})) \div decided ELSE -1]

Init ==
  /\ request = NoRequest /\ session = NoSession /\ response = NoResponse
  /\ findings = <<>> /\ runs = 0

\* The ids the client knows.
Reported == IF response.status = 200 THEN {<<runs, f>> : f \in response.all_findings} ELSE {}

Next ==
  \/ runs < MaxRuns /\ \E file \in Uploads, anonymize \in BOOLEAN : AnalyzeFile(file, anonymize)
  \/ InsertFindings({})
  \/ \E f \in response.all_findings : InsertFindings({f})
  \/ CommitFindings
  \/ DatabaseDown
  \/ \E id \in Reported, verdict \in Verdicts : SetVerdict(id, verdict)

Spec == Init /\ [][Next]_vars
-----------------------------------------------------------------------------
Ext == INSTANCE SequencesExt

\* The payload has been computed and nothing was written yet.
Analysed == request # NoRequest /\ session = NoSession

\* How the rows of a table are spread over the sheets of a workbook makes no
\* difference: neighbouring sheets with the same columns may be one.
Joined(file) ==
  LET Continues(done, sheet) == done # <<>> /\ done[Len(done)].columns = sheet.columns
      To[k \in 0..Len(file)] ==
        IF k = 0 THEN <<>>
        ELSE IF Continues(To[k - 1], file[k])
             THEN [To[k - 1] EXCEPT ![Len(To[k - 1])].rows = @ \o file[k].rows]
             ELSE Append(To[k - 1], file[k])
  IN To[Len(file)]
SheetsDoNotMatter ==
  Analysed => Analysis(Joined(response.file)).all_findings
                = response.result.all_findings

\* The rows of the sheets of a type, wherever they stand.
SheetRows(parsed, type) ==
  UNION {{parsed[s].records[r] : r \in DOMAIN parsed[s].records} :
         s \in {s \in DOMAIN parsed : parsed[s].data_type = type}}

\* There is HR master data and it misses a user.
SomeoneMissing(rows, hr) ==
  hr # {} /\ \E row \in rows : row.user_id # "" /\ \A h \in hr : row.user_id # h.user_id

\* Rows of the user give it a role that covers the duty.
Holds(rows, user, duty, role) ==
  \E row \in rows : row.user_id = user /\ role \in row.roles /\ duty \in DutiesOf[role]

ConflictsOf(rows, blocked, result) ==
  \A user \in {row.user_id : row \in rows} \ {""}, type \in {rule.type : rule \in SodMatrix} :
    (\E f \in result.all_findings : f.area = "ITGC-SOD" /\ f.subject = user /\ f.type = type)
    <=> /\ ~blocked
        /\ \E rule \in SodMatrix, a, b \in Roles : \E ka, kb \in rule.duties :
             /\ rule.type = type /\ a # b /\ ka # kb
             /\ Holds(rows, user, ka, a) /\ Holds(rows, user, kb, b)

\* A user is reported for a type of conflict exactly when its rows, wherever
\* they stand, give it two different roles that cover a rule of the type; no
\* one is when there is HR master data and it misses somebody.
ConflictsMatchRows ==
  Analysed => \A parsed \in {ParseFile(response.file)} :
    ConflictsOf(SheetRows(parsed, "users"),
                SomeoneMissing(SheetRows(parsed, "users"), SheetRows(parsed, "hr_master")),
                response.result)

\* The ids a transaction or an interface run of the file names.
NamedByInvoice(invoice) ==
  NamesIn(<<"lowered", invoice.vendor>>) \cup
    UNION {NamesIn(<<"name", text>>) :
             text \in {invoice.invoice_id, invoice.vendor, invoice.approver, invoice.approver_level}}
NamedByRun(run) == NamesIn(<<"name", RunName(run)>>)

\* The rows a transaction finding is about.
IsAboutInvoice(finding, n, invoice) ==
  finding.area = "ITAC-AP" /\ finding.row \in {Row(n), <<invoice.vendor, invoice.invoice_amount>>}
IsAboutRun(finding, n) == finding.area = "ITAC-INT" /\ finding.row = Row(n)

\* An id that occurs in a number or in the words of a description.
NamedByAccident(finding, user, invoices, interfaces) ==
  /\ finding.area \in {"ITAC-AP", "ITAC-INT"}
  /\ \E text \in Description(finding, invoices, interfaces) :
       text[1] \notin {"name", "lowered"} /\ user \in NamesIn(text)

\* A finding is raised above the level its test gave it only when it is about
\* the access of a user, and only to CRITICAL, and only with a reported
\* transaction or interface run that names the user -- with one exception: the
\* user's id, short or a word, occurs in a number or the words of a description.
EscalationIsTraceable(parsed, result) ==
  \E invoices \in {RecordsOfType(parsed, "transactions")}, interfaces \in {RecordsOfType(parsed, "interfaces")} :
    \A f \in result.all_findings \ AllFindings(DomainResults(parsed)) :
      /\ f.risk_level = "CRITICAL" /\ f.area \in {"ITGC-SOD", "ITGC-LA"}
      /\ \E g \in result.all_findings, user \in {ReportedUser(f)} :
           \/ \E n \in DOMAIN invoices : IsAboutInvoice(g, n, invoices[n]) /\ user \in NamedByInvoice(invoices[n])
           \/ \E n \in DOMAIN interfaces : IsAboutRun(g, n) /\ user \in NamedByRun(interfaces[n])
           \/ NamedByAccident(g, user, invoices, interfaces)

\* A nudge accuses a user the file says has left, of a posting made later.
NudgesAreJustified(parsed, result) ==
  \E users \in {RecordsOfType(parsed, "users")}, invoices \in {RecordsOfType(parsed, "transactions")} :
    \A n \in result.swarm_nudges : \E u \in DOMAIN users :
      /\ users[u].user_id = invoices[n].posted_by /\ users[u].user_id # ""
      /\ users[u].termination_date.age > invoices[n].invoice_date.age

\* Whatever links users to transactions, by substring or by dates in several
\* formats, every user it accuses is accused by rows of the file.
AccusationsAreJustified ==
  Analysed => \A parsed \in {ParseFile(response.file)} :
    /\ EscalationIsTraceable(parsed, response.result)
    /\ NudgesAreJustified(parsed, response.result)

\* The id of a reported user occurs in how often, or how certainly, a payment
\* is said to be a duplicate.
Miscounted(parsed) ==
  \E all \in {AllFindings(DomainResults(parsed))}, invoices \in {RecordsOfType(parsed, "transactions")} :
    \E f, g \in all : g.type = "DUPLICATE_PAYMENT_RISK" /\ Corroborates(Tally(g, invoices), f)

\* Leaving a sheet out never makes the audited system look worse, with three
\* exceptions: where there is HR master data, the sheet may be why conflicting
\* duties were not looked for; a recovery test may be the latest one; and fewer
\* transactions may make the number of duplicates the id of a user.
LessDataNoWorse ==
  Analysed => \A s \in DOMAIN response.file :
    \/ \E h \in DOMAIN response.file : DetectDataType(response.file[h].columns) = "hr_master"
    \/ DetectDataType(response.file[s].columns) = "dr"
    \/ /\ DetectDataType(response.file[s].columns) = "transactions"
       /\ Miscounted(ParseFile(Ext!RemoveAt(response.file, s)))
    \/ Analysis(Ext!RemoveAt(response.file, s)).overall_risk_score
          <= response.result.overall_risk_score

\* The findings of an answered analysis are stored all or not at all, with the
\* levels its payload was rated with; nothing of a failed request is stored.
AllOrNothing ==
  /\ \/ Reported \cap DOMAIN findings = {}
     \/ \A risk \in RiskLevels :
          Cardinality({id \in Reported \cap DOMAIN findings : findings[id].severity = risk})
            = response.result.findings_by_risk[risk]
  /\ response.status # 200 => \A id \in DOMAIN findings : id[1] < runs
=============================================================================
