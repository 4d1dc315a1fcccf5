------------------------------- MODULE Clearing -------------------------------
(***************************************************************************)
(* Vendor invoices and the clearing of goods received against invoices     *)
(* received: VendorInvoiceService of modules/procurement/vendor-invoice    *)
(* and GrirService of modules/finance/grir.  The invoices are those of one *)
(* order; the entries of its receipts come from Receiving, at any moment.  *)
(***************************************************************************)
EXTENDS Requests

CONSTANTS
  InvoiceAmounts,  \* totals of invoices, amounts of receipts and payments
  OrderTotal,
  MaxInvoices,     \* bound: invoices of the order
  MaxGoods         \* bound: its receipts

ASSUME ClearingAssumption == InvoiceAmounts \subseteq Nat \ {0} /\ {OrderTotal, MaxInvoices, MaxGoods} \subseteq Nat

VARIABLES
  invoices,
  clearing   \* the GR/IR entries

clearingVars == <<invoices, clearing>>

InvoiceRow(i) == <<"invoice", i>>
ClearingRows == <<"clearing", 0>>

ClearingInit == RequestsInit /\ invoices = <<>> /\ clearing = <<>>

-----------------------------------------------------------------------------
(* Vendor invoices                                                           *)

\* createInvoice: the row; of its lines only their sum is looked at here.
CreateInvoice(total) ==
  /\ Len(invoices) < MaxInvoices
  /\ invoices' = Append(invoices, [status |-> "DRAFT", match |-> "NOT_MATCHED", total |-> total, paid |-> 0])
  /\ UNCHANGED clearing /\ UNCHANGED requestVars

InvoiceVerb == {"submit", "review", "match", "override", "approve", "reject", "pay"}

Accepts(verb, i) ==
  CASE verb = "submit" -> i.status = "DRAFT"
    [] verb = "review" -> i.status = "SUBMITTED"
    [] verb = "override" -> i.match = "BLOCKED"
    [] verb = "approve" -> i.status = "MATCHED"
    [] verb = "pay" -> i.status \in {"APPROVED", "PARTIALLY_PAID"}
    [] OTHER -> TRUE

ReadInvoice(c, i, verb) ==
  /\ Accepts(verb, invoices[i])
  /\ Arrive(c, {InvoiceRow(i)} \union (IF verb = "approve" THEN {ClearingRows} ELSE {}),
            [pc |-> "invoicing", i |-> i, verb |-> verb, seen |-> invoices[i]])
  /\ UNCHANGED clearingVars

Matched(i) == [i EXCEPT !.match = "MATCHED", !.status = IF @ = "UNDER_REVIEW" THEN "MATCHED" ELSE @]

\* What may be saved.  A total that differs from the order's is blocked unless the
\* tolerances, which the model leaves open, let it pass.
InvoiceTo(verb, i) ==
  CASE verb = "submit" -> {[i EXCEPT !.status = "SUBMITTED"]}
    [] verb = "review" -> {[i EXCEPT !.status = "UNDER_REVIEW"]}
    [] verb = "match" -> {Matched(i)} \union
         (IF i.total = OrderTotal THEN {} ELSE {[i EXCEPT !.match = "BLOCKED"]})
    [] verb = "override" -> {Matched(i)}
    [] verb = "approve" -> {[i EXCEPT !.status = "APPROVED"]}
    [] verb = "reject" -> {[i EXCEPT !.status = "REJECTED"]}
    [] verb = "pay" -> {[i EXCEPT !.paid = @ + n, !.status = IF i.paid + n >= i.total THEN "PAID" ELSE "PARTIALLY_PAID"] :
                          n \in InvoiceAmounts}

SaveInvoice(c) ==
  /\ At(c, "invoicing")
  /\ \E i \in InvoiceTo(call[c].verb, call[c].seen) : invoices' = [invoices EXCEPT ![call[c].i] = i]
  /\ IF call[c].verb = "approve" THEN Await(c, [pc |-> "clearing", i |-> call[c].i, amount |-> call[c].seen.total]) ELSE Answer(c)
  /\ UNCHANGED clearing

GrirEntry(type, i, amount) == [type |-> type, of |-> i, amount |-> amount, status |-> "OPEN", with |-> 0]

\* createGrEntry, at the end of a receipt's confirmation.
ReceiveGoods(amount) ==
  /\ Cardinality({e \in DOMAIN clearing : clearing[e].type = "GR"}) < MaxGoods
  /\ clearing' = Append(clearing, GrirEntry("GR", 0, amount))
  /\ UNCHANGED invoices /\ UNCHANGED requestVars

\* createIvEntry, then autoMatch.
BookInvoice(c) ==
  /\ At(c, "clearing")
  /\ clearing' = Append(clearing, GrirEntry("IV", call[c].i, call[c].amount))
  /\ Await(c, [pc |-> "gathering"])
  /\ UNCHANGED invoices

-----------------------------------------------------------------------------
(* autoMatch, also by itself: two lists of open entries, then two saves for  *)
(* each pair of equal amounts.                                               *)

Open(type) == {e \in DOMAIN clearing : clearing[e].type = type /\ clearing[e].status = "OPEN"}

BeginMatch(c) ==
  /\ Arrive(c, {ClearingRows}, [pc |-> "gathering"])
  /\ UNCHANGED clearingVars

ListReceipts(c) ==
  /\ At(c, "gathering")
  /\ Await(c, [pc |-> "pairing", grs |-> Open("GR"), ivs |-> {}, listed |-> FALSE])
  /\ UNCHANGED clearingVars

ListInvoices(c) ==
  /\ At(c, "pairing") /\ ~call[c].listed
  /\ Await(c, [call[c] EXCEPT !.ivs = Open("IV"), !.listed = TRUE])
  /\ UNCHANGED clearingVars

Pairs(t) == {p \in t.grs \X t.ivs : clearing[p[1]].amount = clearing[p[2]].amount}

Cleared(e, with) == [clearing EXCEPT ![e] = [@ EXCEPT !.status = "CLEARED", !.with = with]]

ClearReceipt(c) ==
  /\ At(c, "pairing") /\ call[c].listed
  /\ \E p \in Pairs(call[c]) :
       /\ clearing' = Cleared(p[1], p[2])
       /\ Await(c, [pc |-> "linking", grs |-> call[c].grs \ {p[1]}, ivs |-> call[c].ivs \ {p[2]}, pair |-> p])
  /\ UNCHANGED invoices

\* A slip of ClearInvoice: the entry in memory is still open for the next pair.
ClearInvoiceAgain(c) ==
  /\ At(c, "linking")
  /\ clearing' = Cleared(call[c].pair[2], call[c].pair[1])
  /\ Await(c, [pc |-> "pairing", grs |-> call[c].grs, ivs |-> call[c].ivs \union {call[c].pair[2]}, listed |-> TRUE])
  /\ UNCHANGED invoices
ClearInvoice(c) ==
  /\ At(c, "linking")
  /\ clearing' = Cleared(call[c].pair[2], call[c].pair[1])
  /\ Await(c, [pc |-> "pairing", grs |-> call[c].grs, ivs |-> call[c].ivs, listed |-> TRUE])
  /\ UNCHANGED invoices

EndMatch(c) ==
  /\ At(c, "pairing") /\ call[c].listed /\ Pairs(call[c]) = {}
  /\ Answer(c)
  /\ UNCHANGED clearingVars

PerishInClearing(c) == Perish(c) /\ UNCHANGED clearingVars

ClearingNext ==
  \/ \E n \in InvoiceAmounts : CreateInvoice(n) \/ ReceiveGoods(n)
  \/ \E c \in Call :
       \/ \E i \in DOMAIN invoices, verb \in InvoiceVerb : ReadInvoice(c, i, verb)
       \/ SaveInvoice(c) \/ BookInvoice(c)
       \/ BeginMatch(c) \/ ListReceipts(c) \/ ListInvoices(c) \/ ClearReceipt(c) \/ ClearInvoice(c) \/ EndMatch(c)
       \/ PerishInClearing(c)

ClearingSpec == ClearingInit /\ [][ClearingNext]_<<clearingVars, requestVars>>

-----------------------------------------------------------------------------
EntriesOf(i) == {e \in DOMAIN clearing : clearing[e].type = "IV" /\ clearing[e].of = i}

\* Requests that do not overlap, even if some die, enter an invoice for clearing at
\* most once, and never before it is approved; undisturbed, between requests, an
\* invoice that may be paid has its entry, and cleared entries form pairs of a
\* receipt and an invoice of one amount that name each other (approveInvoice,
\* autoMatch with its two saves).
ClearedInPairs ==
  /\ disjoint => \A i \in DOMAIN invoices :
       /\ Cardinality(EntriesOf(i)) <= 1
       /\ EntriesOf(i) # {} => invoices[i].status \in {"APPROVED", "PARTIALLY_PAID", "PAID", "REJECTED"}
  /\ Undisturbed /\ Quiet =>
       /\ \A i \in DOMAIN invoices :
            invoices[i].status \in {"APPROVED", "PARTIALLY_PAID", "PAID"} => EntriesOf(i) # {}
       /\ \A e \in DOMAIN clearing : clearing[e].status = "CLEARED" =>
            LET w == clearing[e].with
            IN /\ clearing[w].status = "CLEARED" /\ clearing[w].with = e
               /\ clearing[w].type # clearing[e].type /\ clearing[w].amount = clearing[e].amount
=============================================================================
