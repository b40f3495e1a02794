----------------------------- MODULE MCAuditEngine -----------------------------
(***************************************************************************)
(* The engine on small files: up to two user rows, spread over sheets in    *)
(* every way, with invoices, an HR sheet and one sheet of another type.     *)
(***************************************************************************)
EXTENDS EngineIngest, AuditSampling

MCRoles == {"create_vendor", "pay_vendor", "vendor_admin"}
MCDutiesOf ==
  [role \in MCRoles |-> CASE role = "create_vendor" -> {"create"} [] role = "pay_vendor" -> {"pay"}
                          [] OTHER -> {"create", "approve"}]
MCSodMatrix ==
  {[duties |-> {"create", "pay"}, type |-> "AP_SOD_001", risk |-> "CRITICAL"],
   [duties |-> {"create", "approve"}, type |-> "AP_SOD_002", risk |-> "CRITICAL"],
   [duties |-> {"approve", "pay"}, type |-> "AP_SOD_003", risk |-> "HIGH"]}
MCPrivilegedRoles == {"vendor_admin"}
MCGenericAccounts == {"svc"}
MCVendors == {"acme", "ann lee ltd"}
\* Ids are a name, a digit, and what stands in for a missing one.  No amount of
\* the invoices and runs below has a 2 in it, and no words but "UNKNOWN" an id.
MCNamesIn(text) ==
  CASE text[1] \in {"name", "lowered"} ->
         (IF text[2] \in {"ann lee ltd", "ann feed"} THEN {"ann"} ELSE IF text[2] = "i2" THEN {"2"} ELSE {})
    [] text[1] = "words" -> {"UNKNOWN"} \cap {text[2]}
    [] text[1] = "plain" -> (IF text[2] = 2 THEN {"2"} ELSE {})
    [] OTHER -> {}

Reviewed == [BlankUser EXCEPT !.access_review_date = Dated("cell", 10), !.status = "active",
                              !.mfa_enabled = "yes"]
MCUsers ==
  {[Reviewed EXCEPT !.user_id = "ann", !.roles = {"create_vendor"}],
   [Reviewed EXCEPT !.user_id = "ann", !.roles = {"pay_vendor"},
                    !.last_login_date = Dated("cell", 120)],
   [Reviewed EXCEPT !.user_id = "ann", !.roles = {"vendor_admin", "pay_vendor"},
                    !.mfa_enabled = ""],
   [Reviewed EXCEPT !.user_id = "2", !.termination_date = Dated("cell", 30)],
   [Reviewed EXCEPT !.user_id = "2", !.termination_date = Dated("cell", 5),
                    !.status = "disabled"],
   [Reviewed EXCEPT !.user_id = "svc", !.roles = {"create_vendor"},
                    !.access_review_date = Dated("text", 100)]}

MCInvoices ==
  {[BlankInvoice EXCEPT !.invoice_id = "i1", !.vendor = "acme", !.invoice_amount = 60000,
                        !.posted_by = "2", !.invoice_date = Dated("cell", 10)],
   [BlankInvoice EXCEPT !.invoice_id = "i2", !.vendor = "acme", !.invoice_amount = 60000,
                        !.posted_by = "ann", !.invoice_date = Dated("text", 3)],
   [BlankInvoice EXCEPT !.invoice_id = "i2", !.vendor = "ann lee ltd", !.invoice_amount = 900,
                        !.po_amount = 1000, !.gr_amount = 1000, !.three_way_match = "bypass"]}

MCOther ==
  {[columns |-> {"ticket", "approver"},
    rows |-> <<[BlankChange EXCEPT !.initiator = "2", !.approver = "2",
                  !.environment = "prod", !.implementation_date = Dated("text", 2),
                  !.implementation_hour = 23]>>],
   [columns |-> {"ticket", "change_type"},
    rows |-> <<[BlankChange EXCEPT !.ticket_id = "t1", !.change_type = "emergency",
                  !.implementation_date = Dated("text", 2)],
               [BlankChange EXCEPT !.ticket_id = "t1", !.change_type = "standard",
                  !.implementation_date = Dated("text", 3)]>>],
   [columns |-> {"job_name", "backup_date"},
    rows |-> <<[BlankBackup EXCEPT !.status = "failed", !.backup_date = Dated("text", 3)]>>],
   [columns |-> {"priority", "status"},
    rows |-> <<[BlankIncident EXCEPT !.priority = "p1", !.created_at = 0, !.resolved_at = 9],
               [BlankIncident EXCEPT !.priority = "p1", !.created_at = 0]>>],
   [columns |-> {"source_count", "target_count"},
    rows |-> <<[BlankInterface EXCEPT !.source_count = 5, !.target_count = 4],
               [BlankInterface EXCEPT !.interface_name = "ann feed", !.status = "failed",
                                      !.source_total = 7]>>],
   [columns |-> {"rto_met"},
    rows |-> <<[BlankDrTest EXCEPT !.result = "failed", !.test_date = Dated("text", 400)],
               [BlankDrTest EXCEPT !.rto_met = "yes", !.test_date = Dated("text", 370)]>>]}

UserSheet(rows) == [columns |-> SampleData["users"], rows |-> rows]
InvoiceSheet(rows) == [columns |-> {"invoice_number", "supplier", "invoice_amount"}, rows |-> rows]
HrSheet(names) == [columns |-> {"employment_status"}, rows |-> [n \in DOMAIN names |-> [user_id |-> names[n]]]]
DrSheet(age) == [columns |-> {"rto_met"},
                 rows |-> <<[BlankDrTest EXCEPT !.rto_met = "yes", !.test_date = Dated("text", age)]>>]

UserSheets ==
  {<<>>} \cup {<<UserSheet(<<a>>)>> : a \in MCUsers}
    \cup {<<UserSheet(<<a, b>>)>> : a, b \in MCUsers}
    \cup {<<UserSheet(<<a>>), UserSheet(<<b>>)>> : a, b \in MCUsers}
InvoiceSheets ==
  {<<>>} \cup {<<InvoiceSheet(<<a>>)>> : a \in MCInvoices}
    \cup {<<InvoiceSheet(<<a>>), InvoiceSheet(<<b>>)>> : a, b \in MCInvoices}

\* A payment found three times, or twice without the second sheet; a user and
\* an invoice without ids.
Small == [BlankInvoice EXCEPT !.invoice_id = "i3", !.vendor = "acme", !.invoice_amount = 900]
Unnamed == [Reviewed EXCEPT !.last_login_date = Dated("cell", 120)]
LinkedByAccident ==
  {<<UserSheet(<<[Unnamed EXCEPT !.user_id = "2"]>>), InvoiceSheet(<<Small, Small>>), InvoiceSheet(<<Small>>)>>,
   <<UserSheet(<<Unnamed>>), InvoiceSheet(<<[Small EXCEPT !.invoice_id = "", !.three_way_match = "bypass"]>>)>>}

MCUploads ==
  LinkedByAccident \cup
  {u \o v : u \in UserSheets, v \in InvoiceSheets}
    \cup {u \o <<HrSheet(<<"ann">>)>> : u \in UserSheets}
    \cup {u \o <<HrSheet(<<"ann">>), HrSheet(<<"", "2">>)>> : u \in UserSheets}
    \cup {<<DrSheet(400), DrSheet(10)>>}
    \cup {u \o <<o>> : u \in UserSheets, o \in MCOther}

MCPopulations == UNION {[1..n -> {-1, 0, 1, 2, 5}] : n \in 0..3}
MCSampleSizes == {-1, 2}

\* Either files are analysed or samples are drawn: the two share no state.
VARIABLE part
MCInit == Init /\ SampleInit /\ part \in {"analysis", "sampling"}
MCNext ==
  /\ UNCHANGED part
  /\ \/ part = "analysis" /\ Next /\ UNCHANGED sampleVars
     \/ part = "sampling" /\ SampleNext /\ UNCHANGED vars
MCSpec == MCInit /\ [][MCNext]_<<vars, sampleVars, part>>
===============================================================================
