------------------------------ MODULE DataIntake ------------------------------
(***************************************************************************)
(* What becomes of an uploaded file before it is tested (engine/parser.py): *)
(* column names are mapped to canonical ones, the columns decide the kind   *)
(* of data, dates are rewritten, and a validation verdict is attached.      *)
(*                                                                         *)
(* A column name is a set of tokens; the tables hold the entries for the    *)
(* columns that the templates and the sheets below use.                     *)
(***************************************************************************)
EXTENDS ControlTest, Sequences

\* _tokenize: the words of a normalised column name, for the columns that
\* share a word with the semantic table.
Tokens ==
  [user_id |-> {"user", "id"}, ticket_id |-> {"ticket", "id"},
   invoice_id |-> {"invoice", "id"}, vendor |-> {"vendor"}, job_id |-> {"job", "id"},
   incident_id |-> {"incident", "id"}, interface_id |-> {"interface", "id"},
   last_login_date |-> {"last", "login", "date"}, created_at |-> {"created", "at"},
   access_review_date |-> {"access", "review", "date"}, interface_name |-> {"interface", "name"},
   source_total |-> {"source", "total"}, target_total |-> {"target", "total"}]
TokensOf(column) == IF column \in DOMAIN Tokens THEN Tokens[column] ELSE {}

ColumnAliases ==
  [username |-> "user_id", employee_id |-> "user_id", role |-> "roles", roles |-> "roles",
   profile |-> "roles", mfa |-> "mfa_enabled", active |-> "status",
   last_login |-> "last_login_date", termination_date |-> "termination_date",
   ticket |-> "ticket_id", change_type |-> "change_type", approved_by |-> "approver",
   implementation_date |-> "implementation_date", test_evidence |-> "test_evidence",
   invoice_number |-> "invoice_id", supplier |-> "vendor", invoice_amount |-> "invoice_amount",
   invoice_date |-> "invoice_date", po_amount |-> "po_amount", gr_amount |-> "gr_amount",
   three_way_match |-> "three_way_match", job_name |-> "job_name",
   backup_date |-> "backup_date", restore_tested |-> "restore_tested", result |-> "status"]

SapCodeAliases == [bname |-> "user_id", agr_name |-> "roles", belnr |-> "invoice_id"]

SemanticTokens ==
  [client |-> {"client", "tenant", "mandant", "mandt"},
   user_id |-> {"user", "userid", "user_id", "bname", "account", "logon"},
   roles |-> {"role", "roles", "permission", "auth", "auth_object", "tcode", "agr", "agr_name", "low"},
   creation_date |-> {"creation", "created", "create", "ersda", "erdat", "date"},
   user_name |-> {"user", "username", "usnam", "uname", "name", "logon"},
   invoice_amount |-> {"invoice", "amount", "value", "wrbtr", "dmbtr", "total"},
   invoice_date |-> {"invoice", "date", "doc", "bldat", "posting", "budat"},
   vendor_id |-> {"vendor", "supplier", "lifnr", "id", "code"}]

SemanticOrder == <<"client", "user_id", "roles", "creation_date", "user_name",
                   "invoice_amount", "invoice_date", "vendor_id">>

\* The name with the largest share of its tokens in the column, the earlier of
\* two that tie, if the share is at least a fifth; otherwise the column itself.
SemanticMatch(column) ==
  LET Overlap(i) == Cardinality(TokensOf(column) \cap SemanticTokens[SemanticOrder[i]])
      Size(i) == Cardinality(SemanticTokens[SemanticOrder[i]])
      best == CHOOSE i \in DOMAIN SemanticOrder : \A j \in DOMAIN SemanticOrder :
                \/ Overlap(i) * Size(j) > Overlap(j) * Size(i)
                \/ Overlap(i) * Size(j) = Overlap(j) * Size(i) /\ i <= j
  IN IF Overlap(best) > 0 /\ 5 * Overlap(best) >= Size(best) THEN SemanticOrder[best] ELSE column

Canonical(column) ==
  CASE column \in DOMAIN ColumnAliases -> ColumnAliases[column]
    [] column \in DOMAIN SapCodeAliases -> SapCodeAliases[column]
    [] OTHER -> SemanticMatch(column)

\* The columns whose names contain one of the keywords of a type of data.
Suggest ==
  [users |-> {"user_id", "roles", "mfa_enabled"},
   changes |-> {"ticket_id", "change_type", "approver", "approver_level"},
   transactions |-> {"invoice_id", "invoice_amount", "invoice_date", "vendor", "vendor_id",
                     "po_amount", "three_way_match"},
   backup |-> {"backup_date", "restore_tested", "job_name"},
   incident |-> {"incident_id", "priority", "resolved_at"},
   interfaces |-> {"interface_id", "interface_name", "source_count", "target_count"},
   hr_master |-> {"employment_status"},
   dr |-> {"rto_met", "rpo_met"}]
TypeOrder == <<"users", "changes", "transactions", "backup", "incident", "interfaces",
               "hr_master", "dr">>

\* The first type, in the order of the tests, that a column suggests.
DetectDataType(columns) ==
  LET names == {Canonical(c) : c \in columns}
      suggested == {i \in DOMAIN TypeOrder : Suggest[TypeOrder[i]] \cap names # {}}
  IN IF suggested = {} THEN "unknown"
     ELSE TypeOrder[CHOOSE i \in suggested : \A j \in suggested : i <= j]

\* Text in one of the formats the intake knows becomes ISO text; other text
\* and the datetime objects of a workbook stay as they are.
ParseDate(date) == IF date.form = "text" THEN [date EXCEPT !.form = "iso"] ELSE date

NormalizeValues(row) ==
  [field \in DOMAIN row |->
     IF field \in {"termination_date", "last_login_date", "access_review_date",
                   "implementation_date", "invoice_date", "backup_date", "test_date"}
     THEN ParseDate(row[field]) ELSE row[field]]

\* The required columns of a type, with the value that counts as none.
ControlSchemas ==
  [users |-> [user_id |-> "", status |-> "", roles |-> {}],
   changes |-> [ticket_id |-> "", change_type |-> "", initiator |-> "", approver |-> ""],
   backup |-> [job_name |-> "", status |-> ""],
   incident |-> [priority |-> "", status |-> ""],
   transactions |-> [invoice_id |-> "", vendor |-> "", invoice_amount |-> 0],
   interfaces |-> [source_count |-> 0, target_count |-> 0]]

\* The verdict is attached to the sheet and not looked at again.  A missing
\* value in more than a two-hundredth of the rows fails a required column.
\* Rows are compared with their row numbers, so that none is a duplicate.
Validate(columns, rows, type) ==
  LET schema == IF type \in DOMAIN ControlSchemas THEN ControlSchemas[type] ELSE <<>>
      Nulls(field) == {i \in DOMAIN rows : rows[i][field] = schema[field]}
  IN CASE rows = <<>> -> "no records"
       [] rows # <<>> /\ DOMAIN schema \ {Canonical(c) : c \in columns} # {} -> "missing columns"
       [] OTHER -> IF \E field \in DOMAIN schema : 200 * Cardinality(Nulls(field)) > Len(rows)
                   THEN "too many nulls" ELSE "pass"

\* A sheet as uploaded: its columns and the rows under their canonical names.
ParseSheet(sheet) ==
  LET type == DetectDataType(sheet.columns)
      rows == [i \in DOMAIN sheet.rows |-> NormalizeValues(sheet.rows[i])]
  IN [data_type |-> type, records |-> rows, validation |-> Validate(sheet.columns, rows, type)]

\* The columns of the templates the API hands out for each type of data.
SampleData ==
  [users |-> {"user_id", "username", "status", "roles", "last_login_date",
              "termination_date", "mfa_enabled", "access_review_date", "department"},
   changes |-> {"ticket_id", "change_type", "initiator", "approver", "environment",
                "implementation_date", "test_evidence", "post_impl_review", "status"},
   transactions |-> {"invoice_id", "vendor", "invoice_amount", "po_amount", "gr_amount",
                     "three_way_match", "approved_by", "approver_level", "invoice_date"},
   backup |-> {"job_id", "job_name", "system", "backup_date", "status", "restore_tested"},
   incident |-> {"incident_id", "priority", "status", "created_at", "resolved_at", "description"},
   interfaces |-> {"interface_id", "interface_name", "source_count", "target_count",
                   "source_total", "target_total", "status"}]

\* A workbook has several sheets, every other format one.
ParseFile(upload) == [s \in DOMAIN upload |-> ParseSheet(upload[s])]
===============================================================================
