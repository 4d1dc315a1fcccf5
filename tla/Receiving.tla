------------------------------ MODULE Receiving ------------------------------
(***************************************************************************)
(* Purchase orders and the receipt of goods: PoService and GrnService of   *)
(* modules/procurement.  The model follows one order, of unit price 1, with *)
(* its lines and its receipts.                                             *)
(*                                                                         *)
(* Rows are read and saved one by one.  Only the confirmation of a receipt *)
(* is a transaction, and what it does to the order goes through another    *)
(* connection: it is there at once, and stays when the transaction fails.  *)
(* The match at its end may lose the transaction and say nothing.          *)
(***************************************************************************)
EXTENDS Requests, Functions

CONSTANTS
  Quantities,  \* quantities of the lines of the order and of receipts
  Levels,      \* approval levels the authority policy may ask for
  MaxLines,    \* bound: lines the order ever had
  MaxReceipts, \* bound: receipts
  MaxListed    \* bound: lines of receipts

ASSUME ReceivingAssumption == Quantities \union Levels \union {MaxLines, MaxReceipts, MaxListed} \subseteq Nat

VARIABLES
  order,     \* the row of the order
  lines,     \* the rows of its lines, with those an edit has deleted
  receipts,  \* the status of each receipt
  goods,     \* the rows of the receipts' lines
  booked,    \* for each of them, what its GR entries on the clearing account come to
  billed,    \* the receipts that have billed the order (a refused posting leaves the bill a draft)
  lost       \* the receipts a confirmation of which was rolled back unnoticed: for the properties

receivingVars == <<order, lines, receipts, goods, booked, billed, lost>>

OrderRow == <<"order", 0>>
ReceiptRow(r) == <<"receipt", r>>

NewLines(batch) == [k \in DOMAIN batch |-> [quantity |-> batch[k], received |-> 0, gone |-> FALSE]]
Batches(n) == UNION {[1 .. k -> Quantities] : k \in 0 .. n}

\* createPo has saved the order and its lines.
ReceivingInit ==
  /\ RequestsInit
  /\ order = [status |-> "DRAFT", level |-> 0]
  /\ \E batch \in Batches(MaxLines) : lines = NewLines(batch)
  /\ receipts = <<>> /\ goods = <<>> /\ booked = <<>> /\ billed = {} /\ lost = {}

-----------------------------------------------------------------------------
(* The order: one read and one save each.  An edit may bring new lines.      *)

OrderFrom ==
  [edit |-> {"DRAFT"}, editLines |-> {"DRAFT"}, approve |-> {"DRAFT"}, submit |-> {"DRAFT"},
   approveLevel |-> {"PENDING_APPROVAL"}, reject |-> {"PENDING_APPROVAL"},
   release |-> {"APPROVED"}, send |-> {"APPROVED"},
   cancel |-> {"DRAFT", "PENDING_APPROVAL", "APPROVED", "RELEASED", "SENT", "PARTIALLY_RECEIVED"}]

\* What may be saved of order o when the policy asks for n levels.
OrderTo(verb, o, n) ==
  CASE verb \in {"edit", "editLines"} -> o
    [] verb = "approve" -> [o EXCEPT !.status = "APPROVED"]
    [] verb = "submit" -> IF n = 0 THEN [o EXCEPT !.status = "APPROVED"]
                                   ELSE [status |-> "PENDING_APPROVAL", level |-> 0]
    [] verb = "approveLevel" -> [status |-> IF o.level + 1 >= n THEN "APPROVED" ELSE o.status, level |-> o.level + 1]
    [] verb = "reject" -> [status |-> "DRAFT", level |-> 0]
    [] verb = "release" -> [o EXCEPT !.status = "RELEASED"]
    [] verb = "send" -> [o EXCEPT !.status = "SENT"]
    [] verb = "cancel" -> [o EXCEPT !.status = "CANCELLED"]

ReadOrder(c, verb) ==
  /\ order.status \in OrderFrom[verb]
  /\ Arrive(c, {OrderRow}, [pc |-> IF verb = "editLines" THEN "cutting" ELSE "ordering", verb |-> verb, seen |-> order])
  /\ UNCHANGED receivingVars

\* An edit deletes the lines and inserts others before it saves the order.
CutLines(c) ==
  /\ At(c, "cutting")
  /\ lines' = [k \in DOMAIN lines |-> [lines[k] EXCEPT !.gone = TRUE]]
  /\ Await(c, [call[c] EXCEPT !.pc = "lining"])
  /\ UNCHANGED <<order, receipts, goods, booked, billed, lost>>

InsertLines(c) ==
  /\ At(c, "lining")
  /\ \E batch \in Batches(MaxLines - Len(lines)) : lines' = lines \o NewLines(batch)
  /\ Await(c, [call[c] EXCEPT !.pc = "ordering"])
  /\ UNCHANGED <<order, receipts, goods, booked, billed, lost>>

SaveOrder(c) ==
  /\ At(c, "ordering")
  /\ \E n \in Levels : order' = OrderTo(call[c].verb, call[c].seen, n)
  /\ Answer(c)
  /\ UNCHANGED <<lines, receipts, goods, booked, billed, lost>>

-----------------------------------------------------------------------------
(* Receipts                                                                  *)

\* createGrn compares each quantityReceived, not quantityAccepted, with what remains
\* of its line: some quantity passes unless more than was ordered has been received.
BeginReceipt(c, delivery) ==
  /\ order.status \in {"APPROVED", "RELEASED", "SENT", "PARTIALLY_RECEIVED"}
  /\ \A j \in DOMAIN delivery : LET ordered == lines[delivery[j].of]
                                IN ~ordered.gone /\ ordered.received <= ordered.quantity
  /\ Arrive(c, {OrderRow}, [pc |-> "drafting", delivery |-> delivery])
  /\ UNCHANGED receivingVars

SaveReceipt(c) ==
  /\ At(c, "drafting") /\ Len(receipts) < MaxReceipts
  /\ receipts' = Append(receipts, "DRAFT")
  /\ Await(c, [pc |-> "listing", r |-> Len(receipts'), delivery |-> call[c].delivery])
  /\ UNCHANGED <<order, lines, goods, booked, billed, lost>>

SaveReceiptLines(c) ==
  /\ At(c, "listing")
  /\ LET d == call[c].delivery
     IN /\ goods' = goods \o [j \in DOMAIN d |-> [grn |-> call[c].r, of |-> d[j].of, accepted |-> d[j].accepted]]
        /\ booked' = booked \o [j \in DOMAIN d |-> 0]
  /\ Answer(c)
  /\ UNCHANGED <<order, lines, receipts, billed, lost>>

CancelReceipt(c, r) ==
  /\ receipts[r] = "DRAFT"
  /\ Arrive(c, {ReceiptRow(r)}, [pc |-> "withdrawing", r |-> r])
  /\ UNCHANGED receivingVars

SaveCancelled(c) ==
  /\ At(c, "withdrawing")
  /\ receipts' = [receipts EXCEPT ![call[c].r] = "CANCELLED"]
  /\ Answer(c)
  /\ UNCHANGED <<order, lines, goods, booked, billed, lost>>

LinesOf(r) == {i \in DOMAIN goods : goods[i].grn = r}

\* confirmGrn.  A slip of BeginConfirm: any receipt may be confirmed.
BeginConfirmAny(c, r) ==
  /\ Arrive(c, {OrderRow, ReceiptRow(r)}, [pc |-> "receiving", r |-> r, of |-> LinesOf(r), left |-> LinesOf(r)])
  /\ UNCHANGED receivingVars
BeginConfirm(c, r) ==
  /\ receipts[r] = "DRAFT"
  /\ Arrive(c, {OrderRow, ReceiptRow(r)}, [pc |-> "receiving", r |-> r, of |-> LinesOf(r), left |-> LinesOf(r)])
  /\ UNCHANGED receivingVars

\* updateLineQuantityReceived, for one line of the receipt after the other, in an
\* order the query leaves open: the order's line is read, when it is still there ...
ReadLine(c, i) ==
  /\ At(c, "receiving") /\ i \in call[c].left
  /\ LET ordered == lines[goods[i].of]
     IN Await(c, IF ordered.gone
                   THEN [call[c] EXCEPT !.left = @ \ {i}]
                   ELSE [pc |-> "adding", r |-> call[c].r, of |-> call[c].of, left |-> call[c].left, line |-> i, seen |-> ordered])
  /\ UNCHANGED receivingVars

\* ... and saved, whatever becomes of the transaction.
SaveLine(c) ==
  /\ At(c, "adding")
  /\ LET t == call[c]
         i == t.line
     IN /\ lines' = [lines EXCEPT ![goods[i].of] = [t.seen EXCEPT !.received = @ + goods[i].accepted]]
        /\ Await(c, [pc |-> "receiving", r |-> t.r, of |-> t.of, left |-> t.left \ {i}])
  /\ UNCHANGED <<order, receipts, goods, booked, billed, lost>>

\* The order is read.  What it has received has this receipt in it already, and the
\* first line of the receipt for an order line is added to it once more.
FirstFor(k, rows) ==
  LET mine == {i \in rows : goods[i].of = k}
  IN IF mine = {} THEN 0 ELSE goods[CHOOSE i \in mine : \A j \in mine : i <= j].accepted

WeighOrder(c) ==
  /\ At(c, "receiving") /\ call[c].left = {}
  /\ Await(c, [pc |-> "marking", r |-> call[c].r, of |-> call[c].of, seen |-> lines,
               full |-> \A k \in DOMAIN lines :
                          lines[k].gone \/ lines[k].received + FirstFor(k, call[c].of) >= lines[k].quantity])
  /\ UNCHANGED receivingVars

\* updatePoStatus asks for no status.
MarkOrder(c) ==
  /\ At(c, "marking")
  /\ order' = [order EXCEPT !.status = IF call[c].full THEN "RECEIVED" ELSE "PARTIALLY_RECEIVED"]
  /\ Await(c, [pc |-> "matching", r |-> call[c].r, of |-> call[c].of, seen |-> call[c].seen])
  /\ UNCHANGED <<lines, receipts, goods, booked, billed, lost>>

\* threeWayMatchInternal bills the whole order as soon as every line of the receipt
\* covers its line of the order; the order's other lines are not looked at.
Covers(rows, ordered) ==
  \A i \in rows : LET l == ordered[goods[i].of]
                  IN ~l.gone /\ goods[i].accepted >= l.quantity

\* A query fails, and the handler goes on.
Falter(c, next) ==
  /\ faults < MaxFaults /\ faults' = faults + 1
  /\ call' = [call EXCEPT ![c] = next]
  /\ UNCHANGED <<touches, disjoint>>

\* What is to be booked when the transaction is over.
ToBook(r) == [pc |-> "booking", r |-> r, left |-> {i \in LinesOf(r) : goods[i].accepted > 0}]

\* The transaction commits, with the bill or, when an account is missing or the
\* period is closed, without one.
CommitReceipt(c) ==
  /\ At(c, "matching")
  /\ receipts' = [receipts EXCEPT ![call[c].r] = "CONFIRMED"]
  /\ \/ UNCHANGED billed
     \/ Covers(call[c].of, call[c].seen) /\ billed' = billed \union {call[c].r}
  /\ Await(c, ToBook(call[c].r))
  /\ UNCHANGED <<order, lines, goods, booked, lost>>

\* A query of the match fails, and its error is swallowed: the database turns the
\* commit into a rollback, and the handler books a receipt that is still a draft.
LoseReceipt(c) ==
  /\ At(c, "matching")
  /\ lost' = lost \union {call[c].r}
  /\ Falter(c, ToBook(call[c].r))
  /\ UNCHANGED <<order, lines, receipts, goods, booked, billed>>

\* createGrEntry, for one line after the other.
BookLine(c, i) ==
  /\ At(c, "booking") /\ i \in call[c].left
  /\ booked' = [booked EXCEPT ![i] = @ + goods[i].accepted]
  /\ Await(c, [call[c] EXCEPT !.left = @ \ {i}])
  /\ UNCHANGED <<order, lines, receipts, goods, billed, lost>>

\* An entry that fails is passed over.
SkipLine(c, i) ==
  /\ At(c, "booking") /\ i \in call[c].left
  /\ Falter(c, [call[c] EXCEPT !.left = @ \ {i}])
  /\ UNCHANGED receivingVars

EndConfirm(c) ==
  /\ At(c, "booking") /\ call[c].left = {}
  /\ Answer(c)
  /\ UNCHANGED receivingVars

\* A transaction that fails rolls back the receipt and the bill only.
PerishInReceiving(c) == Perish(c) /\ UNCHANGED receivingVars

Delivery(m) == [1 .. m -> [of : DOMAIN lines, accepted : Quantities]]

ReceivingNext ==
  \E c \in Call :
    \/ (\E verb \in DOMAIN OrderFrom : ReadOrder(c, verb)) \/ CutLines(c) \/ InsertLines(c) \/ SaveOrder(c)
    \/ (\E m \in 1 .. (MaxListed - Len(goods)) : \E d \in Delivery(m) : BeginReceipt(c, d)) \/ SaveReceipt(c) \/ SaveReceiptLines(c)
    \/ (\E r \in DOMAIN receipts : CancelReceipt(c, r) \/ BeginConfirm(c, r)) \/ SaveCancelled(c)
    \/ (\E i \in DOMAIN goods : ReadLine(c, i) \/ BookLine(c, i) \/ SkipLine(c, i))
    \/ SaveLine(c) \/ WeighOrder(c) \/ MarkOrder(c) \/ CommitReceipt(c) \/ LoseReceipt(c) \/ EndConfirm(c)
    \/ PerishInReceiving(c)

ReceivingSpec == ReceivingInit /\ [][ReceivingNext]_<<receivingVars, requestVars>>

-----------------------------------------------------------------------------
Confirmed(i) == receipts[goods[i].grn] = "CONFIRMED"
Counted == {i \in DOMAIN goods : Confirmed(i)}
LineAmounts(k) == [i \in DOMAIN goods |-> IF goods[i].of = k THEN goods[i].accepted ELSE 0]
AcceptedOf(k) == SumFunctionOnSet(LineAmounts(k), Counted)

\* Requests for the order that do not overlap keep three records of what was
\* received in step, line by line, even if some die: the receipts confirm no more of
\* an order line than it shows, and no more is booked for a line of a receipt than was
\* accepted and confirmed, save where a failure of the match has rolled the receipt
\* back unnoticed; a receipt that has billed the order is confirmed, and the order
\* shows all that was ordered on the lines it names.  Undisturbed, between requests,
\* the three agree (confirmGrn, whose parts are saved through three connections, and
\* threeWayMatchInternal).
ReceiptsAgree ==
  /\ disjoint =>
       /\ \A k \in DOMAIN lines : AcceptedOf(k) <= lines[k].received
       /\ \A i \in DOMAIN goods : goods[i].grn \notin lost => booked[i] <= IF Confirmed(i) THEN goods[i].accepted ELSE 0
       /\ \A i \in DOMAIN goods : goods[i].grn \in billed =>
            Confirmed(i) /\ lines[goods[i].of].received >= lines[goods[i].of].quantity
  /\ Undisturbed /\ Quiet =>
       /\ \A k \in DOMAIN lines : AcceptedOf(k) = lines[k].received
       /\ \A i \in DOMAIN goods : booked[i] = IF Confirmed(i) THEN goods[i].accepted ELSE 0
=============================================================================
