-------------------------- MODULE TransactionControls --------------------------
(***************************************************************************)
(* The application control tests of engine/itac.py on invoices and         *)
(* interface runs.  Amounts are whole currency units; a zero counts as     *)
(* missing, as Decimal(0) does in the code's conditions.                   *)
(***************************************************************************)
EXTENDS ControlTest

ApprovalThreshold == 10000
HighValueThreshold == 50000

BlankInvoice == [invoice_id |-> "", vendor |-> "", invoice_amount |-> 0, po_amount |-> 0,
                 gr_amount |-> 0, invoice_qty |-> 0, po_qty |-> 0, gr_qty |-> 0,
                 unit_price |-> 0, po_unit_price |-> 0, three_way_match |-> "",
                 invoice_number |-> "", approver_level |-> "", approver |-> "",
                 posted_by |-> "", invoice_date |-> NoDate]
BlankInterface == [id |-> "", interface_name |-> "", status |-> "", source_count |-> 0,
                   target_count |-> 0, source_total |-> 0, target_total |-> 0]

Largest(values) == CHOOSE v \in values : \A w \in values : v >= w
Smallest(values) == CHOOSE v \in values : \A w \in values : v <= w

\* The values differ by more than the larger of a share (in percent) of the
\* largest and a fixed allowance; not compared when one of them is missing.
Disagree(values, percent, allowance) ==
  LET variance == Largest(values) - Smallest(values)
  IN /\ 0 \notin values
     /\ variance > allowance
     /\ variance * 100 > Largest(values) * percent

\* More than 3 percent of the ordered price and more than half a unit.
PriceVaries(ordered, invoiced) ==
  LET variance == Largest({ordered, invoiced}) - Smallest({ordered, invoiced})
  IN ordered # 0 /\ invoiced # 0 /\ variance > 0 /\ variance * 100 > ordered * 3

ThreeWayMatch(row, invoice) ==
  LET Raise(type, risk) == Finding("ITAC-AP", row, invoice.invoice_id, type, risk)
  IN IF invoice.three_way_match = "bypass"
     THEN {Raise("THREE_WAY_MATCH_BYPASS", "CRITICAL")}
     ELSE RaiseIf(Disagree({invoice.po_amount, invoice.gr_amount, invoice.invoice_amount}, 5, 50),
                  Raise("THREE_WAY_MATCH_VARIANCE", "HIGH"))
            \cup RaiseIf(Disagree({invoice.po_qty, invoice.gr_qty, invoice.invoice_qty}, 2, 1),
                         Raise("THREE_WAY_QUANTITY_MISMATCH", "HIGH"))
            \cup RaiseIf(PriceVaries(invoice.po_unit_price, invoice.unit_price),
                         Raise("THREE_WAY_PRICE_VARIANCE", "HIGH"))

\* Invoices of one vendor over one amount; certain when a number repeats.
DuplicatePayments(invoices) ==
  LET keyed == {i \in DOMAIN invoices : invoices[i].vendor # "" /\ invoices[i].invoice_amount # 0}
      Key(i) == <<invoices[i].vendor, invoices[i].invoice_amount>>
      Group(key) == {i \in keyed : Key(i) = key}
      Repeated(group) == \E i, j \in group : /\ i # j /\ invoices[i].invoice_number # ""
                                             /\ invoices[i].invoice_number = invoices[j].invoice_number
  IN {Finding("ITAC-AP", key, invoices[Smallest(Group(key))].invoice_id,
              "DUPLICATE_PAYMENT_RISK",
              IF Repeated(Group(key)) THEN "CRITICAL" ELSE "HIGH") :
        key \in {Key(i) : i \in {k \in keyed : Cardinality(Group(Key(k))) > 1}}}

ApprovalLimits(row, invoice) ==
  LET Raise(type, risk) == Finding("ITAC-AP", row, invoice.invoice_id, type, risk)
  IN RaiseIf(/\ invoice.invoice_amount > HighValueThreshold
             /\ invoice.approver_level \notin {"vp", "director", "cfo"},
             Raise("APPROVAL_LIMIT_BREACH", "CRITICAL"))
       \cup RaiseIf(/\ invoice.invoice_amount > ApprovalThreshold
                    /\ invoice.invoice_amount <= HighValueThreshold
                    /\ invoice.approver_level = "",
                    Raise("APPROVAL_LEVEL_UNCLEAR", "HIGH"))

InterfaceControls(row, run) ==
  LET Raise(type) == Finding("ITAC-INT", row, run.id, type, "HIGH")
      Differ(a, b) == a # 0 /\ b # 0 /\ a # b
  IN UNION {RaiseIf(run.status = "failed", Raise("INTERFACE_FAILURE")),
            RaiseIf(Differ(run.source_count, run.target_count), Raise("INTERFACE_COUNT_MISMATCH")),
            RaiseIf(Differ(run.source_total, run.target_total), Raise("INTERFACE_AMOUNT_MISMATCH"))}

\* What the description of a finding is made of: texts of the row, numbers in
\* one of several notations, and words of the program, which stand in for a
\* missing text, too.
Shown(text, default) == IF text = "" THEN <<"words", default>> ELSE <<"name", text>>
Distance(a, b) == Largest({a, b}) - Smallest({a, b})

InvoiceTexts(type, invoice) ==
  LET id == Shown(invoice.invoice_id, "UNKNOWN")
      vendor == Shown(invoice.vendor, "Unknown")
      compared == {invoice.po_amount, invoice.gr_amount, invoice.invoice_amount}
      amount == <<"grouped", invoice.invoice_amount>>
  IN CASE type = "THREE_WAY_MATCH_BYPASS" -> {id, vendor}
       [] type = "THREE_WAY_MATCH_VARIANCE" ->
            {id, <<"decimal", Largest(compared) - Smallest(compared)>>, <<"tolerance", Largest(compared)>>}
       [] type = "THREE_WAY_QUANTITY_MISMATCH" ->
            {id, <<"plain", invoice.po_qty>>, <<"plain", invoice.gr_qty>>, <<"plain", invoice.invoice_qty>>}
       [] type = "THREE_WAY_PRICE_VARIANCE" ->
            {id, <<"decimal", Distance(invoice.po_unit_price, invoice.unit_price)>>,
             <<"price tolerance", invoice.po_unit_price>>}
       [] type = "APPROVAL_LIMIT_BREACH" ->
            {id, vendor, amount, Shown(invoice.approver, "Unknown"), Shown(invoice.approver_level, "unknown")}
       [] type = "APPROVAL_LEVEL_UNCLEAR" -> {id, vendor, amount}

RunName(run) == IF run.interface_name = "" THEN run.id ELSE run.interface_name
RunTexts(type, run) ==
  LET Values(notation, source, target) ==
        {<<notation, source>>, <<notation, target>>, <<notation, Distance(source, target)>>}
  IN {Shown(RunName(run), "UNKNOWN")}
       \cup CASE type = "INTERFACE_FAILURE" -> {}
              [] type = "INTERFACE_COUNT_MISMATCH" -> Values("plain", run.source_count, run.target_count)
              [] type = "INTERFACE_AMOUNT_MISMATCH" -> Values("decimal", run.source_total, run.target_total)

\* How often a payment was found, and whether for certain: all that depends on
\* the other rows of the file.
Tally(finding, invoices) ==
  {<<"words", IF finding.risk_level = "CRITICAL" THEN "exact" ELSE "potential">>,
   <<"plain", Cardinality({i \in DOMAIN invoices :
                             <<invoices[i].vendor, invoices[i].invoice_amount>> = finding.row})>>}
DuplicateTexts(key) == {<<"lowered", key[1]>>, <<"plain", key[2]>>}

Description(finding, invoices, interfaces) ==
  {<<"words", finding.type>>} \cup
    CASE finding.area = "ITAC-INT" -> RunTexts(finding.type, interfaces[finding.row[2]])
      [] finding.area = "ITAC-AP" /\ finding.type = "DUPLICATE_PAYMENT_RISK" ->
           DuplicateTexts(finding.row) \cup Tally(finding, invoices)
      [] OTHER -> InvoiceTexts(finding.type, invoices[finding.row[2]])

RunAllItacTests(invoices, interfaces) ==
  (UNION {ThreeWayMatch(Row(i), invoices[i]) \cup ApprovalLimits(Row(i), invoices[i]) :
            i \in DOMAIN invoices})
    \cup DuplicatePayments(invoices)
    \cup (UNION {InterfaceControls(Row(i), interfaces[i]) : i \in DOMAIN interfaces})
===============================================================================
