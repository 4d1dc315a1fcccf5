------------------------------- MODULE Billing -------------------------------
(***************************************************************************)
(* The billing cycle of licence contracts: LicensingService of             *)
(* modules/licensing.  A sweep, which the scheduler runs every hour and an *)
(* administrator for any date, invoices the periods that ended with the    *)
(* month before.  An invoice that exists is all that says that a period    *)
(* was billed: there is no unique index.                                   *)
(*                                                                         *)
(* BilledMonths are counted through from a January, 1.  Amounts are left out.    *)
(***************************************************************************)
EXTENDS Requests

CONSTANTS
  Contract,
  Cycles,      \* months of a billing cycle: 1, 3, 12
  BilledMonths,      \* months a sweep may be asked to bill
  MaxBills     \* bound: invoices

ASSUME BillingAssumption ==
  /\ Cycles \union BilledMonths \subseteq Nat \ {0}
  /\ MaxBills \in Nat

VARIABLES
  contract, \* status, cycle, first month
  bills,    \* the invoices
  swept     \* history: the contracts with the month of which a sweep has ended

billingVars == <<contract, bills, swept>>

Bills == <<"bills", 0>>

BillingInit ==
  /\ RequestsInit
  /\ contract = [k \in Contract |-> [status |-> "absent", cycle |-> 1, start |-> 1]]
  /\ bills = <<>> /\ swept = {}

\* createContract
CreateContract(k, cycle, start) ==
  /\ contract[k].status = "absent"
  /\ contract' = [contract EXCEPT ![k] = [status |-> "TRIAL", cycle |-> cycle, start |-> start]]
  /\ UNCHANGED <<bills, swept>> /\ UNCHANGED requestVars

\* updateContractStatus saves whatever status the caller sends; TRIAL stands for
\* all that are not ACTIVE.
SetContractStatus(k, status) ==
  /\ contract[k].status # "absent"
  /\ contract' = [contract EXCEPT ![k].status = status]
  /\ UNCHANGED <<bills, swept>> /\ UNCHANGED requestVars

\* billingPeriodFor: the period of a cycle that ends with month m, if one does.
\* A slip: every month ends one.
DueAlways(cycle, m) == TRUE
Due(cycle, m) == m % cycle = 0
PeriodEnding(cycle, m) == [from |-> m - cycle + 1, to |-> m]

-----------------------------------------------------------------------------
(* runMonthlyBillingCycle                                                    *)

BeginBilling(c, m) ==
  /\ LET active == {k \in Contract : contract[k].status = "ACTIVE"}
     IN Arrive(c, {Bills}, [pc |-> "sweeping", m |-> m, todo |-> active, all |-> active])
  /\ UNCHANGED billingVars

Billed(k, p) ==
  \E i \in DOMAIN bills : bills[i].contract = k /\ bills[i].from = p.from /\ bills[i].to = p.to

\* One round for contract k: nothing is due, it started later, or the period has
\* an invoice; or generateInvoice is called.
CheckContract(c, k) ==
  /\ At(c, "sweeping") /\ k \in call[c].todo
  /\ LET m == call[c].m
         p == PeriodEnding(contract[k].cycle, m)
         rest == [call[c] EXCEPT !.todo = @ \ {k}]
     IN Await(c, IF Due(contract[k].cycle, m) /\ contract[k].start <= m /\ ~Billed(k, p)
                   THEN [pc |-> "invoicing", contract |-> k, from |-> p.from, to |-> p.to, by |-> "sweep", back |-> rest]
                   ELSE rest)
  /\ UNCHANGED billingVars

EndBilling(c) ==
  /\ At(c, "sweeping") /\ call[c].todo = {}
  /\ swept' = swept \union {<<k, call[c].m>> : k \in call[c].all}
  /\ Answer(c)
  /\ UNCHANGED <<contract, bills>>

-----------------------------------------------------------------------------
(* generateInvoice, also by itself: for any contract and period, and without *)
(* a look at the invoices there are.                                         *)

BeginInvoice(c, k, cycle, m) ==
  /\ contract[k].status # "absent" /\ m >= cycle
  /\ LET p == PeriodEnding(cycle, m)
     IN Arrive(c, {Bills}, [pc |-> "invoicing", contract |-> k, from |-> p.from, to |-> p.to, by |-> "user",
                            back |-> Idle])
  /\ UNCHANGED billingVars

SaveBill(c) ==
  /\ At(c, "invoicing") /\ Len(bills) < MaxBills
  /\ bills' = Append(bills, [contract |-> call[c].contract, from |-> call[c].from, to |-> call[c].to,
                             by |-> call[c].by, itemized |-> FALSE])
  /\ Await(c, [pc |-> "itemizing", b |-> Len(bills'), back |-> call[c].back])
  /\ UNCHANGED <<contract, swept>>

GoBack(c) == IF call[c].back = Idle THEN Answer(c) ELSE Await(c, call[c].back)

SaveBillLines(c) ==
  /\ At(c, "itemizing")
  /\ bills' = [bills EXCEPT ![call[c].b].itemized = TRUE]
  /\ GoBack(c)
  /\ UNCHANGED <<contract, swept>>

\* A query of generateInvoice throws: the sweep goes on with the next contract.
FailInvoice(c) ==
  /\ call[c].pc \in {"invoicing", "itemizing"} /\ call[c].back # Idle
  /\ faults < MaxFaults /\ faults' = faults + 1
  /\ call' = [call EXCEPT ![c] = call[c].back]
  /\ UNCHANGED <<touches, disjoint>> /\ UNCHANGED billingVars

PerishInBilling(c) == Perish(c) /\ UNCHANGED billingVars

BillingNext ==
  \/ \E k \in Contract :
       \/ \E n \in Cycles, m \in BilledMonths : CreateContract(k, n, m)
       \/ \E s \in {"TRIAL", "ACTIVE"} : SetContractStatus(k, s)
  \/ \E c \in Call :
       \/ \E m \in BilledMonths : BeginBilling(c, m) \/ \E k \in Contract, n \in Cycles : BeginInvoice(c, k, n, m)
       \/ \E k \in Contract : CheckContract(c, k)
       \/ EndBilling(c) \/ SaveBill(c) \/ SaveBillLines(c) \/ FailInvoice(c)
       \/ PerishInBilling(c)

BillingSpec == BillingInit /\ [][BillingNext]_<<billingVars, requestVars>>

-----------------------------------------------------------------------------
\* While no two sweeps overlap, and even if some die, they bill no month of a
\* contract twice ("the dedupe"); undisturbed, between requests, a sweep that has
\* ended leaves no period it was to bill without an invoice, and every invoice has
\* its lines (runMonthlyBillingCycle, generateInvoice).
MonthsBilledOnce ==
  /\ disjoint =>
       \A i, j \in DOMAIN bills :
         i # j /\ bills[i].contract = bills[j].contract /\ bills[i].by = "sweep" /\ bills[j].by = "sweep" =>
           bills[i].to < bills[j].from \/ bills[j].to < bills[i].from
  /\ Undisturbed /\ Quiet =>
       /\ \A s \in swept :
            Due(contract[s[1]].cycle, s[2]) /\ contract[s[1]].start <= s[2] =>
              Billed(s[1], PeriodEnding(contract[s[1]].cycle, s[2]))
       /\ \A i \in DOMAIN bills : bills[i].itemized
=============================================================================
