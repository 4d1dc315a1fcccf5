------------------------------ MODULE Payables ------------------------------
(***************************************************************************)
(* Payables: ApService, ApHoldService and PaymentRunService of             *)
(* modules/finance.  Bills are posted to the general ledger, paid directly *)
(* or by a payment run, and voided.                                        *)
(*                                                                         *)
(* A transaction reads rows one by one, without locks, and its writes show *)
(* when it commits; it is rolled back when it throws.  Of the ledger the   *)
(* model keeps the entries' amounts on the payables control account and    *)
(* whether an entry has been reversed: its mirror is the only one of the   *)
(* two that is POSTED then.  A posting may be refused because its period   *)
(* is closed.  Amounts are net of withholding tax, payments gross of cash  *)
(* discount, which both go to other accounts.                              *)
(***************************************************************************)
EXTENDS Requests, Functions

CONSTANTS
  Bill, Vendor,
  VendorOf,    \* the vendor of each bill
  Totals,      \* totals of bills
  Amounts,     \* amounts of payments
  MaxPayments, \* bound: payments recorded
  MaxEntries   \* bound: entries of bills

ASSUME PayablesAssumption ==
  /\ VendorOf \in [Bill -> Vendor]
  /\ IsFiniteSet(Bill) /\ Totals \union Amounts \subseteq Nat \ {0}
  /\ MaxPayments \in Nat /\ MaxEntries \in Nat

VARIABLES
  bill,     \* the bills
  entry,    \* journal entries of bills; entry 0 of a bill is none
  held,     \* bills with an active hold
  payment,  \* payments, each with its rows of payment_allocations
  run,      \* a payment run
  aborted   \* history: posting the run has begun and not come to its end

payablesVars == <<bill, entry, held, payment, run, aborted>>

BillStatus == {"absent", "DRAFT", "OPEN", "PARTIAL", "PAID", "VOID"}
BillRow == [status : BillStatus, total : Nat, paid : Nat, due : Int, entry : Nat]
Entry == [amount : Nat, reversed : BOOLEAN]
NoAllocation == [b \in Bill |-> 0]
NoBills == [b \in Bill |-> [status |-> "absent", total |-> 0, paid |-> 0, due |-> 0, entry |-> 0]]
Payment == [gross : Int, unapplied : Int, alloc : [Bill -> Int], vendor : Vendor, byRun : BOOLEAN]
RunStatus == {"absent", "PROPOSED", "APPROVED", "POSTED"}

\* items is the amount of each item, 0 for a bill that is not one.
RunRow == [status : RunStatus, items : [Bill -> Int], included : SUBSET Bill]

PayablesInit ==
  /\ RequestsInit
  /\ bill = NoBills
  /\ entry = <<>> /\ held = {} /\ payment = <<>>
  /\ run = [status |-> "absent", items |-> NoAllocation, included |-> {}]
  /\ aborted = FALSE

TotalOf(f, S) == SumFunctionOnSet(f, S)
Live(b) == bill[b].status \in {"OPEN", "PARTIAL", "PAID"}
Least(x, y) == IF x < y THEN x ELSE y

-----------------------------------------------------------------------------
(* Bills                                                                     *)

\* createBill: one transaction that reads nothing it changes.
CreateBill(b, total) ==
  /\ bill[b].status = "absent"
  /\ bill' = [bill EXCEPT ![b] = [@ EXCEPT !.status = "DRAFT", !.total = total, !.due = total]]
  /\ UNCHANGED <<entry, held, payment, run, aborted>> /\ UNCHANGED requestVars

\* updateBill, postBill and voidBill read the bill ...  A slip: a bill that is paid
\* in part may be voided.
ReadBillPaid(c, b, pc) ==
  /\ \/ pc \in {"editing", "posting"} /\ bill[b].status = "DRAFT"
     \/ pc = "voiding" /\ bill[b].status # "absent"
  /\ Arrive(c, {b}, [pc |-> pc, b |-> b, seen |-> bill[b]])
  /\ UNCHANGED payablesVars
ReadBill(c, b, pc) ==
  /\ \/ pc \in {"editing", "posting"} /\ bill[b].status = "DRAFT"
     \/ pc = "voiding" /\ bill[b].status # "absent" /\ bill[b].paid <= 0
  /\ Arrive(c, {b}, [pc |-> pc, b |-> b, seen |-> bill[b]])
  /\ UNCHANGED payablesVars

\* ... and save what they read with their changes.
SaveEdit(c, total) ==
  /\ At(c, "editing")
  /\ LET t == call[c]
     IN bill' = [bill EXCEPT ![t.b] = [t.seen EXCEPT !.total = total, !.due = total - t.seen.paid]]
  /\ Answer(c)
  /\ UNCHANGED <<entry, held, payment, run, aborted>>

\* The entry is posted in the bill's own transaction.
CommitPost(c) ==
  /\ At(c, "posting") /\ Len(entry) < MaxEntries
  /\ LET t == call[c]
     IN /\ entry' = Append(entry, [amount |-> t.seen.total, reversed |-> FALSE])
        /\ bill' = [bill EXCEPT ![t.b] = [t.seen EXCEPT !.status = "OPEN", !.due = t.seen.total - t.seen.paid,
                                                        !.entry = Len(entry')]]
  /\ Answer(c)
  /\ UNCHANGED <<held, payment, run, aborted>>

\* getAccountBalance adds up POSTED entries.  One that has been reversed is not any
\* more, its mirror is: the two count what the mirror does.
OnAccount(e) == IF e.reversed THEN 0 - e.amount ELSE e.amount

\* reverseJournalEntry commits a transaction of its own; a bill that was never
\* posted has nothing to reverse.  An entry that is no longer POSTED is refused.
ReverseBillEntry(c) ==
  /\ At(c, "voiding")
  /\ LET e == call[c].seen.entry
     IN \/ e = 0 /\ Await(c, [call[c] EXCEPT !.pc = "reversed"]) /\ UNCHANGED entry
        \/ /\ e # 0 /\ ~entry[e].reversed
           /\ entry' = [entry EXCEPT ![e].reversed = TRUE]
           /\ Await(c, [call[c] EXCEPT !.pc = "reversed"])
        \/ e # 0 /\ entry[e].reversed /\ Answer(c) /\ UNCHANGED entry
  /\ UNCHANGED <<bill, held, payment, run, aborted>>

CommitVoid(c) ==
  /\ At(c, "reversed")
  /\ bill' = [bill EXCEPT ![call[c].b] = [call[c].seen EXCEPT !.status = "VOID", !.due = 0]]
  /\ Answer(c)
  /\ UNCHANGED <<entry, held, payment, run, aborted>>

\* placeHold and releaseHold
Hold(b) ==
  /\ bill[b].status # "absent"
  /\ held' = IF b \in held THEN held \ {b} ELSE held \union {b}
  /\ UNCHANGED <<bill, entry, payment, run, aborted>> /\ UNCHANGED requestVars

-----------------------------------------------------------------------------
(* Payments.  A paying request holds the allocations still to be applied     *)
(* (amounts), what remains of the payment, and what its transaction has      *)
(* written: allocations, and the bills they are for; that of a run, also     *)
(* what the run has to pay.                                                  *)

Paying(from, p, v, gross, remaining, amounts, vendors, items) ==
  [pc |-> "paying", from |-> from, payment |-> p, vendor |-> v, gross |-> gross, remaining |-> remaining,
   amounts |-> amounts, written |-> NoBills, alloc |-> NoAllocation, vendors |-> vendors, items |-> items]

\* createVendorPayment, with one allocation.
CreatePayment(c, b, gross) ==
  /\ Arrive(c, {b}, Paying("new", 0, VendorOf[b], gross, gross, [NoAllocation EXCEPT ![b] = gross], {}, NoAllocation))
  /\ UNCHANGED payablesVars

\* allocatePayment: what is left of a payment goes to a bill.
AllocatePayment(c, p, b) ==
  /\ payment[p].unapplied > 0
  /\ Arrive(c, {b, "payments"}, Paying("old", p, payment[p].vendor, 0, payment[p].unapplied,
                              [NoAllocation EXCEPT ![b] = payment[p].unapplied], {}, NoAllocation))
  /\ UNCHANGED payablesVars

Rollback(c) ==
  /\ aborted' = (aborted \/ call[c].from = "run")
  /\ Answer(c)

\* A slip of Applied: the balance is not looked at.
AppliedUnchecked(amount, due, remaining) == Least(amount, remaining)
Applied(amount, due, remaining) == Least(amount, Least(due, remaining))

\* applyAllocations, one round: the bill is read; a draft, a voided or a held one
\* is refused and the payment with it.
ApplyAllocation(c, b) ==
  /\ At(c, "paying") /\ call[c].amounts[b] > 0 /\ call[c].remaining > 0
  /\ LET t == call[c]
         amount == Applied(t.amounts[b], bill[b].due, t.remaining)
         paid == bill[b].paid + amount
         due == bill[b].total - paid
         rest == [t EXCEPT !.amounts[b] = 0]
     IN \/ ~(Live(b) /\ b \notin held) /\ Rollback(c)
        \/ /\ Live(b) /\ b \notin held
           /\ Await(c, IF amount <= 0 THEN rest
                       ELSE [rest EXCEPT !.remaining = @ - amount, !.alloc[b] = amount,
                               !.written[b] = [bill[b] EXCEPT !.paid = paid, !.due = due,
                                                 !.status = IF due <= 0 THEN "PAID" ELSE "PARTIAL"]])
           /\ UNCHANGED aborted
  /\ UNCHANGED <<bill, entry, held, payment, run>>

\* The payment, its entry and its allocations are committed; a run goes on with
\* the next vendor.
CommitPayment(c) ==
  /\ At(c, "paying")
  /\ call[c].remaining <= 0 \/ call[c].amounts = NoAllocation
  /\ LET t == call[c]
     IN /\ bill' = [b \in Bill |-> IF t.alloc[b] = 0 THEN bill[b] ELSE t.written[b]]
        /\ IF t.from # "old"
             THEN /\ Len(payment) < MaxPayments
                  /\ payment' = Append(payment, [gross |-> t.gross, unapplied |-> t.remaining, alloc |-> t.alloc,
                                                 vendor |-> t.vendor, byRun |-> t.from = "run"])
             ELSE payment' = [payment EXCEPT ![t.payment].unapplied = t.remaining,
                                             ![t.payment].alloc = [b \in Bill |-> @[b] + t.alloc[b]]]
        /\ IF t.from = "run"
             THEN Await(c, [pc |-> "running", vendors |-> t.vendors, items |-> t.items])
             ELSE Answer(c)
  /\ UNCHANGED <<entry, held, run, aborted>>

\* The ledger refuses the entry: the period is closed.
Refused(c) ==
  /\ \/ At(c, "posting") \/ At(c, "voiding")
     \/ At(c, "paying") /\ call[c].from # "old" /\ call[c].alloc = NoAllocation
  /\ Answer(c)
  /\ aborted' = (aborted \/ (At(c, "paying") /\ call[c].from = "run"))
  /\ UNCHANGED <<bill, entry, held, payment, run>>

-----------------------------------------------------------------------------
(* Payment runs                                                              *)

\* createProposal: the bills that are due and not held, then the run, then its
\* items.
ListDue(c) ==
  /\ run.status = "absent"
  /\ \E due \in SUBSET {b \in Bill : bill[b].status \in {"OPEN", "PARTIAL"} /\ bill[b].due > 0} :
       Arrive(c, due \union {"run"},
              [pc |-> "proposing",
               items |-> [b \in Bill |-> IF b \in due \ held THEN bill[b].due ELSE 0]])
  /\ UNCHANGED payablesVars

SaveRun(c) ==
  /\ At(c, "proposing") /\ run.status = "absent"
  /\ run' = [run EXCEPT !.status = "PROPOSED"]
  /\ Await(c, [call[c] EXCEPT !.pc = "itemizing"])
  /\ UNCHANGED <<bill, entry, held, payment, aborted>>

SaveItems(c) ==
  /\ At(c, "itemizing")
  /\ run' = [run EXCEPT !.items = call[c].items, !.included = {b \in Bill : call[c].items[b] > 0}]
  /\ Answer(c)
  /\ UNCHANGED <<bill, entry, held, payment, aborted>>

\* toggleItem and approveRun find the run PROPOSED ...
ReadRun(c, b, pc) ==
  /\ run.status = "PROPOSED"
  /\ pc = "toggling" => run.items[b] > 0
  /\ Arrive(c, {"run"}, [pc |-> pc, b |-> b])
  /\ UNCHANGED payablesVars

\* ... and save the item, or the run.
SaveItem(c) ==
  /\ At(c, "toggling")
  /\ run' = [run EXCEPT !.included = IF call[c].b \in @ THEN @ \ {call[c].b} ELSE @ \union {call[c].b}]
  /\ Answer(c)
  /\ UNCHANGED <<bill, entry, held, payment, aborted>>

SaveApproval(c) ==
  /\ At(c, "approving")
  /\ run' = [run EXCEPT !.status = "APPROVED"]
  /\ Answer(c)
  /\ UNCHANGED <<bill, entry, held, payment, aborted>>

\* postRun: an approved run with at least one included item.
BeginPost(c) ==
  /\ run.status = "APPROVED" /\ run.included # {}
  /\ Arrive(c, run.included \union {"run"},
            [pc |-> "running", vendors |-> {VendorOf[b] : b \in run.included},
             items |-> [b \in Bill |-> IF b \in run.included THEN run.items[b] ELSE 0]])
  /\ UNCHANGED payablesVars

\* One payment per vendor.
PayVendor(c, v) ==
  /\ At(c, "running") /\ v \in call[c].vendors
  /\ LET t == call[c]
         amounts == [b \in Bill |-> IF VendorOf[b] = v THEN t.items[b] ELSE 0]
         gross == TotalOf(amounts, Bill)
     IN Await(c, Paying("run", 0, v, gross, gross, amounts, t.vendors \ {v}, t.items))
  /\ UNCHANGED payablesVars

\* The run is marked when every vendor has been paid.
FinishRun(c) ==
  /\ At(c, "running") /\ call[c].vendors = {}
  /\ run' = [run EXCEPT !.status = "POSTED"]
  /\ Answer(c)
  /\ UNCHANGED <<bill, entry, held, payment, aborted>>

PerishInPayables(c) ==
  /\ aborted' = (aborted \/ At(c, "running") \/ (At(c, "paying") /\ call[c].from = "run"))
  /\ Perish(c)
  /\ UNCHANGED <<bill, entry, held, payment, run>>

PayablesNext ==
  \/ \E b \in Bill, n \in Totals : CreateBill(b, n)
  \/ \E b \in Bill : Hold(b)
  \/ \E c \in Call :
       \/ \E b \in Bill : \/ \E pc \in {"editing", "posting", "voiding"} : ReadBill(c, b, pc)
                          \/ \E n \in Amounts : CreatePayment(c, b, n)
                          \/ \E p \in DOMAIN payment : AllocatePayment(c, p, b)
                          \/ ApplyAllocation(c, b)
                          \/ ReadRun(c, b, "toggling")
       \/ \E n \in Totals : SaveEdit(c, n)
       \/ CommitPost(c) \/ ReverseBillEntry(c) \/ CommitVoid(c)
       \/ CommitPayment(c) \/ Refused(c)
       \/ ListDue(c) \/ SaveRun(c) \/ SaveItems(c)
       \/ (\E b \in Bill : ReadRun(c, b, "approving")) \/ SaveItem(c) \/ SaveApproval(c)
       \/ BeginPost(c) \/ (\E v \in Vendor : PayVendor(c, v)) \/ FinishRun(c)
       \/ PerishInPayables(c)

PayablesSpec == PayablesInit /\ [][PayablesNext]_<<payablesVars, requestVars>>

-----------------------------------------------------------------------------
\* Whatever fails or dies in between, the allocations of a bill add up to what it
\* says was paid, and never exceed its total: no amount is taken twice or lost
\* (applyAllocations, voidBill); a run whose posting never broke off pays each
\* vendor once (postRun).  Requests for different bills may overlap.
BillPaidOnce ==
  disjoint =>
    /\ \A b \in Bill :
         /\ TotalOf([p \in DOMAIN payment |-> payment[p].alloc[b]], DOMAIN payment) = bill[b].paid
         /\ bill[b].paid <= bill[b].total
    /\ ~aborted =>
         \A v \in Vendor : Cardinality({p \in DOMAIN payment : payment[p].byRun /\ payment[p].vendor = v}) <= 1

\* Between requests the control account of the ledger agrees with the subledger: what
\* was posted for bills less what was paid is what the bills still owe less what
\* payments have left over (postBill, voidBill with its nested transaction,
\* createVendorPayment), short by the bills that were voided after they were posted:
\* of those only the mirror counts.
ControlAgrees ==
  Undisturbed /\ Quiet =>
    TotalOf([e \in DOMAIN entry |-> OnAccount(entry[e])], DOMAIN entry)
      - TotalOf([p \in DOMAIN payment |-> payment[p].gross], DOMAIN payment)
      + TotalOf([b \in Bill |-> IF bill[b].status = "VOID" /\ bill[b].entry # 0 THEN bill[b].total ELSE 0], Bill)
    = TotalOf([b \in Bill |-> IF Live(b) THEN bill[b].due ELSE 0], Bill)
      - TotalOf([p \in DOMAIN payment |-> payment[p].unapplied], DOMAIN payment)
=============================================================================
