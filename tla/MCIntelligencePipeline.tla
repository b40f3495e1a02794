------------------------- MODULE MCIntelligencePipeline -------------------------
(***************************************************************************)
(* The intelligence layer with the deployed thresholds: 500 dollars, and    *)
(* ten events for a systemic group.                                         *)
(***************************************************************************)
EXTENDS IntelligencePipeline, TLC

\* The decimal logarithm in hundredths, from the powers of 10^(1/100).
Mantissas ==
  <<100, 102, 105, 107, 110, 112, 115, 117, 120, 123, 126, 129, 132, 135, 138, 141, 145, 148, 151,
    155, 158, 162, 166, 170, 174, 178, 182, 186, 191, 195, 200, 204, 209, 214, 219, 224, 229, 234,
    240, 245, 251, 257, 263, 269, 275, 282, 288, 295, 302, 309, 316, 324, 331, 339, 347, 355, 363,
    372, 380, 389, 398, 407, 417, 427, 437, 447, 457, 468, 479, 490, 501, 513, 525, 537, 550, 562,
    575, 589, 603, 617, 631, 646, 661, 676, 692, 708, 724, 741, 759, 776, 794, 813, 832, 851, 871,
    891, 912, 933, 955, 977>>
MCLogOf(dollars) ==
  LET e == CHOOSE k \in 0..8 : 10^k <= dollars /\ dollars < 10^(k + 1)
      mantissa == IF e < 2 THEN dollars * 10^(2 - e) ELSE dollars \div 10^(e - 2)
  IN 100 * e + Cardinality({k \in DOMAIN Mantissas : Mantissas[k] <= mantissa}) - 1

Warning == [BlankEvent EXCEPT !.source_system = "erp", !.event_type = "warning",
                              !.log_data = "limit", !.value = {6000}, !.age = {100}]
Reversal == [Warning EXCEPT !.event_type = "reversal", !.value = {-40000}, !.refund = TRUE,
                             !.keyword = "detective"]
Payment == [Warning EXCEPT !.event_type = "reversal", !.value = {}, !.payment = {70000},
                           !.age = {2}, !.keyword = "preventative"]
Logged == [BlankEvent EXCEPT !.log_data = "limit", !.logged = {99999}]
Garbled == [Logged EXCEPT !.garbled = TRUE]
Dated == [Logged EXCEPT !.age = {200}]

MCBatches ==
  {Copies(Warning, n) : n \in {8, 9, 10, 11}}
    \cup {Copies(Warning, 9) \o <<Logged>>, <<Reversal, Payment>>, <<Payment, Reversal, Reversal>>,
          <<Logged, Garbled>>, <<Logged, Dated>>, <<Payment, Logged, Warning>>}

Honest == [total_raw_events |-> 2, total_financial_impact |-> 110000]
MCClaims ==
  {[summary |-> s, records |-> <<Reversal, [Payment EXCEPT !.value = {70000}]>>] :
     s \in {Honest, [Honest EXCEPT !.total_raw_events = 3], [Honest EXCEPT !.total_raw_events = 20],
            [Honest EXCEPT !.total_financial_impact = 112000],
            [Honest EXCEPT !.total_financial_impact = 121000],
            [total_raw_events |-> 0], [total_financial_impact |-> 99000, auto_cleared |-> -1],
            Honest @@ [source_systems |-> <<"erp", "ghost">>],
            Honest @@ [hash_verified_count |-> 1],
            Honest @@ [critical_findings |-> 2, low_findings |-> 1],
            Honest @@ [period |-> {[start |-> 100, end |-> 50, garbled |-> FALSE]}]}}
    \cup {[summary |-> [total_financial_impact |-> -50000], records |-> <<Payment>>]}

\* What the proofs suppose of the logarithm, on the amounts up to 3000 dollars,
\* and of the suites and agents.
ASSUME LogGrows == \A dollars \in 1..3000 :
  MCLogOf(dollars) \in Nat /\ MCLogOf(dollars) <= MCLogOf(dollars + 1)
ASSUME SuitesPass

MCPayments == {Copies(500000, 8), <<500000, 9999900, 25000000, 1000000, 4999900, 1500000, 500000, 500000>>}
MCAmounts == {Copies(480000, 12)}
\* One part of the run sends every batch and claim, the other lets the
\* monitoring engine work beside one client with one batch.
VARIABLE part
Single == Copies(Warning, 9)
MCInit == Init /\ part \in {"requests", "monitoring"}
MCNext ==
  /\ UNCHANGED part
  /\ \/ part = "requests" /\ \E c \in Clients : ClientStep(c, Batches, Claims)
     \/ part = "monitoring" /\ (MonitorStep \/ \E c \in Clients : ClientStep(c, {Single}, {}))
MCSpec == MCInit /\ [][MCNext]_<<vars, part>>

ClientSymmetry == Permutations(Clients)
===============================================================================
