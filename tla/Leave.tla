-------------------------------- MODULE Leave --------------------------------
(***************************************************************************)
(* Leave: LeaveService of modules/hr/leave.  The model follows one         *)
(* employee, one leave type and one year: the balance, the applications    *)
(* that are deducted from it and the encashments of what is left.  Both    *)
(* are claims here; they differ in the steps they take.                    *)
(*                                                                         *)
(* Every handler reads rows and saves them one by one, without a           *)
(* transaction.  A save of the balance compares what the handler made of   *)
(* it with the row as it is by then, and writes the columns that differ.   *)
(*                                                                         *)
(* Days are whole numbers, what enforcePolicy makes of days, hours and     *)
(* weekends.  Those of an application may be negative: nothing checks      *)
(* them.  The balance has a row from the start.                            *)
(***************************************************************************)
EXTENDS Requests, Functions

CONSTANTS
  Claim,    \* bound: the applications and encashments of the year
  Days,     \* days an application may ask for
  Grants,   \* units an encashment may ask for, or an accrual add
  Periods,  \* sets of dates a leave may span
  MaxAccrued \* bound: days accrued

ASSUME LeaveAssumption ==
  /\ IsFiniteSet(Claim) /\ Days \subseteq Int /\ Grants \subseteq Nat \ {0} /\ MaxAccrued \in Nat

VARIABLES
  balance,
  claims,
  log,       \* the accrual log: its sum, and the occasions granted
  forfeited  \* history: days of approved leaves that were rejected afterwards

leaveVars == <<balance, claims, log, forfeited>>

LeaveInit ==
  /\ RequestsInit
  /\ balance = [accrued |-> 0, taken |-> 0, adjusted |-> 0]
  /\ claims = [x \in Claim |-> [kind |-> "leave", status |-> "absent", units |-> 0, period |-> {}]]
  /\ log = [sum |-> 0, occasions |-> 0] /\ forfeited = 0

Becomes == [approve |-> "APPROVED", reject |-> "REJECTED", cancel |-> "CANCELLED", withdraw |-> "WITHDRAWN"]

ClaimKind == {"leave", "encashment"}
ClaimStatus == {"absent", "SUBMITTED", "APPROVED", "REJECTED", "CANCELLED", "WITHDRAWN"}
ClaimRow == [kind : ClaimKind, status : ClaimStatus, units : Int, period : Periods \union {{}}]
DaysBalance == [accrued : Nat, taken : Int, adjusted : Int]

\* What a request does once the balance is saved: a decision or an accrual goes on.
Continuation ==
  [pc : {"logging", "closing"}, x : Claim, verb : DOMAIN Becomes, seen : ClaimRow]
  \union [pc : {"recording"}, occasion : BOOLEAN, units : Nat]

\* What a request holds: a claim to be made, a claim it decides, an accrual, or the
\* balance it is to save.
LeaveCall ==
  {Idle} \union Continuation
  \union [pc : {"applying", "comparing", "filing"}, kind : ClaimKind, units : Int, period : Periods \union {{}}]
  \union [pc : {"reading"}, x : Claim, verb : {"approve", "cancel"}, seen : ClaimRow]
  \union [pc : {"accruing"}, occasion : BOOLEAN, units : Nat]
  \union [pc : {"booking"}, balance : DaysBalance, next : Continuation]
  \union [pc : {"saving"}, balance : DaysBalance, differ : SUBSET {"accrued", "taken", "adjusted"}, next : Continuation]

LeaveTypeOK ==
  /\ balance \in DaysBalance
  /\ claims \in [Claim -> ClaimRow]
  /\ log \in [sum : Int, occasions : Nat] /\ forfeited \in Int
  /\ call \in [Call -> LeaveCall]
  /\ touches \in [Call -> SUBSET {"employee"}]
  /\ disjoint \in BOOLEAN /\ faults \in 0 .. MaxFaults

Larger(m, n) == IF m < n THEN n ELSE m

\* availableOf: an employee without a balance has none, and one with zeros too.
Available(b) == b.accrued - b.taken + b.adjusted

\* The claims of a kind that stand.
Standing(kind, status) == {x \in Claim : claims[x].kind = kind /\ claims[x].status \in status}

-----------------------------------------------------------------------------
(* applyLeave and requestEncashment                                          *)

\* enforcePolicy has let the application through with so many days.
Apply(c, kind, units, period) ==
  /\ Arrive(c, {"employee"}, [pc |-> "applying", kind |-> kind, units |-> units, period |-> period])
  /\ UNCHANGED leaveVars

CheckBalance(c) ==
  /\ At(c, "applying")
  /\ IF Available(balance) < call[c].units THEN Answer(c)
     ELSE Await(c, [call[c] EXCEPT !.pc = IF call[c].kind = "leave" THEN "comparing" ELSE "filing"])
  /\ UNCHANGED leaveVars

\* No leave that is asked for or approved may share a date with the new one.
\* A slip: only approved ones are looked for.
CheckConflictsApproved(c) ==
  /\ At(c, "comparing")
  /\ IF \E x \in Standing("leave", {"APPROVED"}) : claims[x].period \intersect call[c].period # {}
       THEN Answer(c)
       ELSE Await(c, [call[c] EXCEPT !.pc = "filing"])
  /\ UNCHANGED leaveVars
CheckConflicts(c) ==
  /\ At(c, "comparing")
  /\ IF \E x \in Standing("leave", {"SUBMITTED", "APPROVED"}) : claims[x].period \intersect call[c].period # {}
       THEN Answer(c)
       ELSE Await(c, [call[c] EXCEPT !.pc = "filing"])
  /\ UNCHANGED leaveVars

\* REQUESTED of an encashment is SUBMITTED here.
SaveNew(c, x) ==
  /\ At(c, "filing") /\ claims[x].status = "absent"
  /\ claims' = [claims EXCEPT ![x] = [kind |-> call[c].kind, status |-> "SUBMITTED",
                                      units |-> call[c].units, period |-> call[c].period]]
  /\ Answer(c)
  /\ UNCHANGED <<balance, log, forfeited>>

-----------------------------------------------------------------------------
(* Decisions: approveLeave, rejectLeave, cancelLeave, withdrawLeave,         *)
(* approveEncashment, rejectEncashment.                                      *)

\* rejectLeave and cancelLeave ask for no status; only leaves are cancelled or
\* withdrawn.
Permitted(claim, verb) ==
  /\ claim.status # "absent"
  /\ claim.status = "SUBMITTED" \/ (claim.kind = "leave" /\ verb \in {"reject", "cancel"})
  /\ claim.kind = "leave" \/ verb \in {"approve", "reject"}

\* An approval deducts days, the cancellation of an approved leave gives them
\* back; the other decisions do not look at the balance.  A slip: cancelling does
\* not either.
FindClaimKeeping(c, x, verb) ==
  /\ Permitted(claims[x], verb)
  /\ Arrive(c, {"employee"},
            [pc |-> IF verb = "approve" THEN "reading" ELSE "closing", x |-> x, verb |-> verb, seen |-> claims[x]])
  /\ UNCHANGED leaveVars
FindClaim(c, x, verb) ==
  /\ Permitted(claims[x], verb)
  /\ Arrive(c, {"employee"},
            [pc |-> IF verb = "approve" \/ (verb = "cancel" /\ claims[x].status = "APPROVED")
                      THEN "reading" ELSE "closing",
             x |-> x, verb |-> verb, seen |-> claims[x]])
  /\ UNCHANGED leaveVars

\* A slip of Enough: what was available when the claim was made is trusted.
EnoughTrusting(verb, units) == TRUE
Enough(verb, units) == verb = "approve" => units <= Available(balance)

Booked(verb, claim) ==
  IF verb = "cancel" THEN [balance EXCEPT !.taken = Larger(0, @ - claim.units)]
  ELSE IF claim.kind = "leave" THEN [balance EXCEPT !.taken = @ + claim.units]
  ELSE [balance EXCEPT !.adjusted = @ - claim.units]

\* The balance is read, at an approval checked again, and changed in memory.
ReadBalance(c) ==
  /\ At(c, "reading")
  /\ LET t == call[c]
     IN IF Enough(t.verb, t.seen.units)
          THEN Await(c, [pc |-> "booking", balance |-> Booked(t.verb, t.seen),
                         next |-> [pc |-> IF t.seen.kind = "leave" THEN "closing" ELSE "logging",
                                   x |-> t.x, verb |-> t.verb, seen |-> t.seen]])
          ELSE Answer(c)
  /\ UNCHANGED leaveVars

\* save() reads the row again, writes the columns in which it differs, and no others.
CompareBalance(c) ==
  /\ At(c, "booking")
  /\ Await(c, [pc |-> "saving", balance |-> call[c].balance, next |-> call[c].next,
               differ |-> {column \in DOMAIN balance : call[c].balance[column] # balance[column]}])
  /\ UNCHANGED leaveVars

SaveBalance(c) ==
  /\ At(c, "saving")
  /\ balance' = [column \in DOMAIN balance |->
                   IF column \in call[c].differ THEN call[c].balance[column] ELSE balance[column]]
  /\ Await(c, call[c].next)
  /\ UNCHANGED <<claims, log, forfeited>>

LogEncashment(c) ==
  /\ At(c, "logging")
  /\ log' = [log EXCEPT !.sum = @ - call[c].seen.units]
  /\ Await(c, [call[c] EXCEPT !.pc = "closing"])
  /\ UNCHANGED <<balance, claims, forfeited>>

\* Rejecting an approved leave gives no days back.
SaveClaim(c) ==
  /\ At(c, "closing")
  /\ LET t == call[c]
     IN /\ claims' = [claims EXCEPT ![t.x] = [t.seen EXCEPT !.status = Becomes[t.verb]]]
        /\ forfeited' = forfeited + IF t.verb = "reject" /\ t.seen.status = "APPROVED" THEN t.seen.units ELSE 0
  /\ Answer(c)
  /\ UNCHANGED <<balance, log>>

-----------------------------------------------------------------------------
(* accrueLeave, and the daily grantOccasionLeaves                            *)

\* An occasion is granted unless the log has one for the year.
BeginAccrual(c, occasion, units) ==
  /\ occasion => log.occasions = 0
  /\ Arrive(c, {"employee"}, [pc |-> "accruing", occasion |-> occasion, units |-> units])
  /\ UNCHANGED leaveVars

ReadAccrued(c) ==
  /\ At(c, "accruing") /\ balance.accrued + call[c].units <= MaxAccrued
  /\ Await(c, [pc |-> "booking", balance |-> [balance EXCEPT !.accrued = @ + call[c].units],
               next |-> [pc |-> "recording", occasion |-> call[c].occasion, units |-> call[c].units]])
  /\ UNCHANGED leaveVars

LogAccrual(c) ==
  /\ At(c, "recording")
  /\ log' = [sum |-> log.sum + call[c].units, occasions |-> log.occasions + IF call[c].occasion THEN 1 ELSE 0]
  /\ Answer(c)
  /\ UNCHANGED <<balance, claims, forfeited>>

\* enforcePolicy refuses: a blackout, too many applications, dates out of range.
Refuse(c) == At(c, "applying") /\ Answer(c) /\ UNCHANGED leaveVars

PerishInLeave(c) == Perish(c) /\ UNCHANGED leaveVars

LeaveNext ==
  \E c \in Call :
    \/ \E units \in Days, p \in Periods : Apply(c, "leave", units, p)
    \/ \E units \in Grants : \/ Apply(c, "encashment", units, {})
                             \/ \E occasion \in BOOLEAN : BeginAccrual(c, occasion, units)
    \/ CheckBalance(c) \/ CheckConflicts(c) \/ Refuse(c)
    \/ \E x \in Claim : SaveNew(c, x) \/ \E verb \in DOMAIN Becomes : FindClaim(c, x, verb)
    \/ ReadBalance(c) \/ CompareBalance(c) \/ SaveBalance(c) \/ LogEncashment(c) \/ SaveClaim(c)
    \/ ReadAccrued(c) \/ LogAccrual(c)
    \/ PerishInLeave(c)

LeaveSpec == LeaveInit /\ [][LeaveNext]_<<leaveVars, requestVars>>

-----------------------------------------------------------------------------
UnitsOf(S) == SumFunction([x \in S |-> claims[x].units])

\* No application was for less than no days.
NoneNegative == \A x \in Claim : claims[x].units >= 0

\* Undisturbed, between requests, and without negative days, every day is accounted
\* for: taken are the days of the approved leaves and those forfeited, adjusted those
\* encashed, and the log explains the rest (approveLeave, cancelLeave with its floor
\* at zero, rejectLeave, approveEncashment, accrueLeave); an occasion is granted once
\* a year.
DaysAccounted ==
  Undisturbed /\ Quiet /\ NoneNegative =>
    /\ balance.taken = UnitsOf(Standing("leave", {"APPROVED"})) + forfeited
    /\ balance.adjusted = 0 - UnitsOf(Standing("encashment", {"APPROVED"}))
    /\ log.sum = balance.accrued + balance.adjusted
    /\ log.occasions <= 1

\* Requests for one employee that do not overlap, none for negative days, never
\* overdraw the balance, wherever some of them die: claims that were each covered
\* when they were made are checked again when they are approved (approveLeave,
\* approveEncashment).  Two approvals that overlap write different columns, and may.
NeverOverdrawn == disjoint /\ NoneNegative => Available(balance) >= 0

\* Requests for one employee that do not overlap never book a date twice, even
\* if some of them die (applyLeave's search for conflicts).
DatesBookedOnce ==
  disjoint => \A x, y \in Standing("leave", {"SUBMITTED", "APPROVED"}) :
    x # y => claims[x].period \intersect claims[y].period = {}
=============================================================================
