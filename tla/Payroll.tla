------------------------------- MODULE Payroll -------------------------------
(***************************************************************************)
(* Payroll runs: PayrollRunService of modules/payroll/runs with the        *)
(* arrears of RetroPayrollService and the second posting of                *)
(* PayrollGlService.  The model follows one employee: a run has at most    *)
(* one payslip.  Salaries are net pay; what is deducted goes to other        *)
(* accounts than the salaries payable that the properties are about, and   *)
(* so does what postPayrollToGl posts on top, to accounts the tenant maps.  *)
(* A run of any type pays the whole salary: processRun does not ask for it. *)
(***************************************************************************)
EXTENDS Requests

CONSTANTS
  Salaries,   \* monthly salaries
  RunTypes,   \* PayrollRunType
  PayMonths,  \* bound: months 1 .. PayMonths
  MaxRuns,    \* bound: payroll runs
  MaxMapped,  \* bound: entries a run is given by mappings
  MaxRaises  \* bound: changes of salary

ASSUME PayrollAssumption ==
  /\ Salaries \subseteq Nat \ {0} /\ PayMonths \in Nat /\ MaxRuns \in Nat
  /\ MaxMapped \in Nat /\ MaxRaises \in Nat

VARIABLES
  salaries, \* in the order they were assigned; to = 0: no end
  runs,     \* each with its period: month and type
  slips,    \* the payslip of each run: its pay (0: no payslip) and its arrears
  entries,  \* for each run: on salaries payable, credits of accruals and debits of
            \* payments; how many entries it was given by mappings
  records   \* arrears records: months <<first, last>>

payrollVars == <<salaries, runs, slips, entries, records>>

NoSlip == [pay |-> 0, arrears |-> 0]

PayrollInit ==
  /\ RequestsInit
  /\ salaries = <<>> /\ runs = <<>> /\ slips = <<>> /\ entries = <<>> /\ records = {}

\* assignSalary ends the salary that is active.
AssignSalary(from, amount) ==
  /\ Len(salaries) <= MaxRaises
  /\ salaries' = Append([k \in DOMAIN salaries |->
                           IF k = Len(salaries) THEN [salaries[k] EXCEPT !.to = from] ELSE salaries[k]],
                        [from |-> from, amount |-> amount, to |-> 0])
  /\ UNCHANGED <<runs, slips, entries, records>> /\ UNCHANGED requestVars

\* getEmployeeSalary on the last day of a month; salaries begin and end on the
\* first of theirs.
InForce(k, m) == salaries[k].from <= m /\ (salaries[k].to = 0 \/ salaries[k].to > m)
SalaryOf(m) ==
  IF \E k \in DOMAIN salaries : InForce(k, m)
    THEN LET k == CHOOSE k \in DOMAIN salaries : InForce(k, m) /\
                    \A j \in DOMAIN salaries : InForce(j, m) => salaries[j].from <= salaries[k].from
         IN salaries[k].amount
    ELSE 0

-----------------------------------------------------------------------------
\* createRun: no run of the period may exist, not even a cancelled one.
CheckDuplicate(c, period) ==
  /\ \A r \in DOMAIN runs : runs[r].period # period
  /\ Arrive(c, {period}, [pc |-> "creating", period |-> period])
  /\ UNCHANGED payrollVars

SaveRunRow(c) ==
  /\ At(c, "creating") /\ Len(runs) < MaxRuns
  /\ runs' = Append(runs, [period |-> call[c].period, status |-> "DRAFT", net |-> 0])
  /\ slips' = Append(slips, NoSlip)
  /\ entries' = Append(entries, [accrued |-> 0, paid |-> 0, mapped |-> 0])
  /\ Answer(c)
  /\ UNCHANGED <<salaries, records>>

\* The status an operation asks for.
Needed == [processing |-> {"DRAFT", "PROCESSED"}, approving |-> {"PROCESSED"},
           paying |-> {"APPROVED"}, cancelling |-> {"DRAFT", "PROCESSED"}]

\* processRun, approveRun, markPaid and cancelRun read the run.
ReadRunRow(c, r, pc) ==
  /\ runs[r].status \in Needed[pc]
  /\ Arrive(c, {runs[r].period}, [pc |-> pc, r |-> r, seen |-> runs[r]])
  /\ UNCHANGED payrollVars

\* The transaction of processRun: the payslips are made anew.
CommitProcess(c) ==
  /\ At(c, "processing")
  /\ LET t == call[c]
         pay == SalaryOf(t.seen.period[1])
     IN /\ slips' = [slips EXCEPT ![t.r] = [pay |-> pay, arrears |-> 0]]
        /\ runs' = [runs EXCEPT ![t.r] = [t.seen EXCEPT !.status = "PROCESSED", !.net = pay]]
        /\ Await(c, [pc |-> "retro", r |-> t.r])
  /\ UNCHANGED <<salaries, entries, records>>

-----------------------------------------------------------------------------
(* applyArrearsToRun                                                         *)

\* The salaries that begin by the month, the newest and the one before it.
Applicable(m) == {k \in DOMAIN salaries : salaries[k].from <= m}
Newest(S) == CHOOSE k \in S : \A j \in S : salaries[j].from < salaries[k].from
                                           \/ (salaries[j].from = salaries[k].from /\ j <= k)

\* detectArrears: the months between the newest change and the run's, unless a
\* record covers exactly these.
Arrears(m) ==
  LET S == Applicable(m)
      new == Newest(S)
      from == salaries[new].from
      old == Newest(S \ {new})
  IN IF Cardinality(S) < 2 THEN 0
     ELSE IF from >= m \/ <<from, m - 1>> \in records THEN 0
     ELSE (salaries[new].amount - salaries[old].amount) * (m - from)

\* The run is read again; without arrears or payslip nothing is done.
DetectArrears(c) ==
  /\ At(c, "retro")
  /\ LET r == call[c].r
         a == Arrears(runs[r].period[1])
     IN IF a > 0 /\ slips[r].pay > 0
          THEN Await(c, [pc |-> "adding", r |-> r, seen |-> runs[r], slip |-> slips[r], arrears |-> a,
                         from |-> salaries[Newest(Applicable(runs[r].period[1]))].from])
          ELSE Answer(c)
  /\ UNCHANGED payrollVars

\* The payslip's line replaces an earlier one ...
SaveArrears(c) ==
  /\ At(c, "adding")
  /\ slips' = [slips EXCEPT ![call[c].r] = [call[c].slip EXCEPT !.arrears = call[c].arrears]]
  /\ Await(c, [call[c] EXCEPT !.pc = "recording"])
  /\ UNCHANGED <<salaries, runs, entries, records>>

\* ... is recorded ...
SaveRecord(c) ==
  /\ At(c, "recording")
  /\ records' = records \union {<<call[c].from, call[c].seen.period[1] - 1>>}
  /\ Await(c, [call[c] EXCEPT !.pc = "totalling"])
  /\ UNCHANGED <<salaries, runs, slips, entries>>

\* A slip of SaveTotals: the run keeps the totals of its salaries.
SaveTotalsUnchanged(c) ==
  /\ At(c, "totalling")
  /\ runs' = [runs EXCEPT ![call[c].r] = call[c].seen]
  /\ Answer(c)
  /\ UNCHANGED <<salaries, slips, entries, records>>
\* ... and added to the run's totals.
SaveTotals(c) ==
  /\ At(c, "totalling")
  /\ runs' = [runs EXCEPT ![call[c].r] = [call[c].seen EXCEPT !.net = @ + call[c].arrears]]
  /\ Answer(c)
  /\ UNCHANGED <<salaries, slips, entries, records>>

-----------------------------------------------------------------------------
\* approveRun reads the payslips ...
ReadSlips(c) ==
  /\ At(c, "approving")
  /\ IF slips[call[c].r].pay = 0 THEN Answer(c)
     ELSE Await(c, [pc |-> "accruing", r |-> call[c].r, seen |-> call[c].seen, slip |-> slips[call[c].r]])
  /\ UNCHANGED payrollVars

\* ... and in one transaction posts their sum and saves the run.
CommitApproval(c) ==
  /\ At(c, "accruing")
  /\ LET t == call[c]
     IN /\ entries' = [entries EXCEPT ![t.r].accrued = @ + t.slip.pay + t.slip.arrears]
        /\ runs' = [runs EXCEPT ![t.r] = [t.seen EXCEPT !.status = "APPROVED"]]
        /\ Await(c, [pc |-> "mapping", r |-> t.r])
  /\ UNCHANGED <<salaries, slips, records>>

\* postPayrollToGl ends an approval, and has an endpoint of its own, for a run of any
\* status: the run is read ...
MapRun(c, r) ==
  /\ Arrive(c, {runs[r].period}, [pc |-> "mapping", r |-> r])
  /\ UNCHANGED payrollVars

ReadForMapping(c) ==
  /\ At(c, "mapping")
  /\ Await(c, [pc |-> "mapped", r |-> call[c].r, seen |-> runs[call[c].r]])
  /\ UNCHANGED payrollVars

\* ... if there are payslips, what they pay is posted, whatever was posted before ...
PostMapping(c) ==
  /\ At(c, "mapped")
  /\ LET r == call[c].r
     IN /\ slips[r].pay > 0 /\ entries[r].mapped < MaxMapped
        /\ entries' = [entries EXCEPT ![r].mapped = @ + 1]
  /\ Await(c, [call[c] EXCEPT !.pc = "posted"])
  /\ UNCHANGED <<salaries, runs, slips, records>>

\* ... and the run saved with the entry's id.
SaveMapping(c) ==
  /\ At(c, "posted")
  /\ runs' = [runs EXCEPT ![call[c].r] = call[c].seen]
  /\ Answer(c)
  /\ UNCHANGED <<salaries, slips, entries, records>>

\* markPaid, one transaction; the payslips' own status is left out.
CommitPaid(c) ==
  /\ At(c, "paying")
  /\ LET t == call[c]
     IN /\ entries' = [entries EXCEPT ![t.r].paid = @ + t.seen.net]
        /\ runs' = [runs EXCEPT ![t.r] = [t.seen EXCEPT !.status = "PAID"]]
  /\ Answer(c)
  /\ UNCHANGED <<salaries, slips, records>>

CommitCancel(c) ==
  /\ At(c, "cancelling")
  /\ slips' = [slips EXCEPT ![call[c].r] = NoSlip]
  /\ runs' = [runs EXCEPT ![call[c].r] = [call[c].seen EXCEPT !.status = "CANCELLED", !.net = 0]]
  /\ Answer(c)
  /\ UNCHANGED <<salaries, entries, records>>

\* A transaction is rolled back (an account is missing, the period is closed), or
\* there are no mappings, no payslips, or what is mapped does not balance.
GiveUpRun(c) ==
  /\ \E pc \in {"accruing", "paying", "mapping", "mapped"} : At(c, pc)
  /\ Answer(c)
  /\ UNCHANGED payrollVars

PerishInPayroll(c) == Perish(c) /\ UNCHANGED payrollVars

PayrollNext ==
  \/ \E m \in 1 .. PayMonths, n \in Salaries : AssignSalary(m, n)
  \/ \E c \in Call :
       \/ \E p \in (1 .. PayMonths) \X RunTypes : CheckDuplicate(c, p)
       \/ \E r \in DOMAIN runs, pc \in DOMAIN Needed : ReadRunRow(c, r, pc)
       \/ SaveRunRow(c) \/ CommitProcess(c)
       \/ DetectArrears(c) \/ SaveArrears(c) \/ SaveRecord(c) \/ SaveTotals(c)
       \/ \E r \in DOMAIN runs : MapRun(c, r)
       \/ ReadSlips(c) \/ CommitApproval(c) \/ ReadForMapping(c) \/ PostMapping(c) \/ SaveMapping(c)
       \/ CommitPaid(c) \/ CommitCancel(c) \/ GiveUpRun(c)
       \/ PerishInPayroll(c)

PayrollSpec == PayrollInit /\ [][PayrollNext]_<<payrollVars, requestVars>>

-----------------------------------------------------------------------------
\* Undisturbed, what a run pays out is what it accrued, and nothing stays on
\* salaries payable for a run that is not waiting to be paid (approveRun sums the
\* payslips, markPaid takes the run's total, which the arrears change after them).
\* What mappings post besides is not counted.
PayableClears ==
  Undisturbed => \A r \in DOMAIN runs :
    entries[r].accrued - entries[r].paid = IF runs[r].status = "APPROVED" THEN runs[r].net ELSE 0

\* Requests for one period that do not overlap never give it a second run of the
\* type, accrue a payslip twice or pay it twice, even if some die (createRun,
\* approveRun, markPaid and their transactions).
PeriodPaidOnce ==
  disjoint =>
    /\ \A r, s \in DOMAIN runs : runs[r].period = runs[s].period => r = s
    /\ \A r \in DOMAIN runs :
         /\ runs[r].status \in {"APPROVED", "PAID"} => entries[r].accrued = slips[r].pay + slips[r].arrears
         /\ entries[r].paid = IF runs[r].status = "PAID" THEN runs[r].net ELSE 0

\* A payroll run is accrued and paid once and in full, and a month has one of each
\* type (createRun, approveRun, applyArrearsToRun, markPaid).
PayrollSettles == PayableClears /\ PeriodPaidOnce
=============================================================================
