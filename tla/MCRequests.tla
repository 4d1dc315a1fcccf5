----------------------------- MODULE MCRequests -----------------------------
(***************************************************************************)
(* The business modules in one run: a behaviour is one of one of them, part, *)
(* and leaves the state of the others alone.                               *)
(*                                                                         *)
(* Where no property says anything of requests for a common row that       *)
(* overlap, the run leaves them out; nor does it follow a behaviour after  *)
(* a request has died where the properties speak of undisturbed ones only. *)
(* Once the last request that may die has died, one is under way at a time. *)
(***************************************************************************)
EXTENDS Process, Payables, Leave, Payroll, Encumbrance, Receiving, Clearing, Stock, Billing, Ledger

CONSTANTS p1, p2, p3, m1, m2, x, y

VARIABLE part

Stage(a, m, e) == [approvers |-> a, mode |-> m, escalateTo |-> e]
MCProcesses == {<<Stage(<<p1, p2>>, "ALL", p3), Stage(<<p3>>, "ANY", Nobody)>>,
                <<Stage(<<p1, p2>>, "ANY", Nobody), Stage(<<p2>>, "ALL", Nobody)>>}
MCDelegations == {<<p2, p3>>}
MCVendorOf == m1 :> m1 @@ m2 :> m2
MCPeriods == {{1}, {2}}
MCChanges == {-1, 1}
MCUnits == {-1, 1, 2}
MCOrdered == <<1, 1>>
MCBudget == (x :> 2) @@ (NoCentre :> 1)
MCNets == {(x :> 1) @@ (y :> (0 - 1))}

\* Rows of different tables never meet: they have the same two ids, which may
\* change places everywhere at once, as may the requests.
MCSymmetry == Permutations(Call) \union Permutations({m1, m2})

Parts == {"process", "payables", "leave", "payroll", "encumbrance", "receiving", "clearing", "stock", "billing", "ledger"}

MCInit ==
  /\ part \in Parts
  /\ ProcessInit /\ PayablesInit /\ LeaveInit /\ PayrollInit /\ EncumbranceInit
  /\ ReceivingInit /\ ClearingInit /\ StockInit /\ BillingInit /\ LedgerInit
  /\ part # "process" => stages = CHOOSE p \in Processes : TRUE
  /\ [k \in DOMAIN lines |-> lines[k].quantity] \in IF part = "receiving" THEN {<<1, 2>>, <<1>>} ELSE {<<1>>}
  /\ part # "stock" => ~fifo

\* Payables: one bill is held at a time.
PayablesBounds == Cardinality(held') <= 1

\* Leave: where an application is for negative days, nothing is accrued.
LeaveBounds == (\E k \in Claim : claims'[k].units < 0) => balance'.accrued = 0

\* Payroll: the employee has a salary from the first month on and at most one change
\* of it.  Two runs differ in their month or in their type; where the salary changes
\* it is the month, and no run is posted by mappings.
PayrollBounds ==
  /\ salaries' # <<>> => salaries'[1].from = 1
  /\ Len(runs') > 1 => \E k \in {1, 2} : runs'[1].period[k] = runs'[2].period[k]
  /\ Len(salaries') > 1 =>
       /\ salaries'[1].amount # salaries'[2].amount
       /\ Len(runs') > 1 => runs'[1].period[1] # runs'[2].period[1]
       /\ \A r \in DOMAIN entries' : entries'[r].mapped = 0

\* Encumbrance: there are two commitments, and what follows one has the source of the
\* first row.
EncumbranceBounds ==
  /\ Cardinality({e \in DOMAIN enc' : enc'[e].type = "COMMITMENT"}) <= 2
  /\ \A e \in DOMAIN enc' : enc'[e].type # "COMMITMENT" => enc'[e].source = enc'[1].source
  /\ \A c \in Call : call'[c].pc \in {"liquidating", "spawning", "sweeping"} => call'[c].next = enc'[1].source

\* Receiving: an order of two lines needs no approval.
ReceivingBounds == Len(lines') = 2 => order'.status # "PENDING_APPROVAL"

\* Billing: the contracts start in the same month.
BillingBounds ==
  Cardinality({contract'[k].start : k \in {l \in Contract : contract'[l].status # "absent"}}) <= 1

\* The ledger: once requests have overlapped, all are about one period.
LedgerBounds ==
  alone' \/ Cardinality({caller'[c].row.period : c \in Caller} \union {journal'[e].period : e \in JournalEntry}) <= 2

MCNext ==
  /\ UNCHANGED part
  /\ \/ /\ part = "process" /\ ProcessNext
        /\ UNCHANGED <<payablesVars, leaveVars, payrollVars, encVars, receivingVars, clearingVars, stockVars, billingVars, ledgerVars>>
     \/ /\ part = "payables" /\ PayablesNext /\ PayablesBounds
        /\ UNCHANGED <<processVars, leaveVars, payrollVars, encVars, receivingVars, clearingVars, stockVars, billingVars, ledgerVars>>
     \/ /\ part = "leave" /\ LeaveNext /\ LeaveBounds
        /\ UNCHANGED <<processVars, payablesVars, payrollVars, encVars, receivingVars, clearingVars, stockVars, billingVars, ledgerVars>>
     \/ /\ part = "payroll" /\ PayrollNext /\ PayrollBounds
        /\ UNCHANGED <<processVars, payablesVars, leaveVars, encVars, receivingVars, clearingVars, stockVars, billingVars, ledgerVars>>
     \/ /\ part = "encumbrance" /\ EncumbranceNext /\ EncumbranceBounds
        /\ UNCHANGED <<processVars, payablesVars, leaveVars, payrollVars, receivingVars, clearingVars, stockVars, billingVars, ledgerVars>>
     \/ /\ part = "receiving" /\ ReceivingNext /\ ReceivingBounds
        /\ UNCHANGED <<processVars, payablesVars, leaveVars, payrollVars, encVars, clearingVars, stockVars, billingVars, ledgerVars>>
     \/ /\ part = "clearing" /\ ClearingNext
        /\ UNCHANGED <<processVars, payablesVars, leaveVars, payrollVars, encVars, receivingVars, stockVars, billingVars, ledgerVars>>
     \/ /\ part = "stock" /\ Undisturbed /\ StockNext
        /\ UNCHANGED <<processVars, payablesVars, leaveVars, payrollVars, encVars, receivingVars, clearingVars, billingVars, ledgerVars>>
     \/ /\ part = "billing" /\ BillingNext /\ BillingBounds
        /\ UNCHANGED <<processVars, payablesVars, leaveVars, payrollVars, encVars, receivingVars, clearingVars, stockVars, ledgerVars>>
     \/ /\ part = "ledger" /\ LedgerNext /\ LedgerBounds
        /\ UNCHANGED <<processVars, payablesVars, leaveVars, payrollVars, encVars, receivingVars, clearingVars, stockVars, billingVars, requestVars>>
  /\ part # "process" => disjoint'
  /\ faults' = MaxFaults => Cardinality({c \in Call : call'[c] # Idle}) <= 1

MCSpec == MCInit /\ [][MCNext]_<<part, requestVars, processVars, payablesVars, leaveVars, payrollVars, encVars, receivingVars, clearingVars, stockVars, billingVars, ledgerVars>>
=============================================================================
