---------------------------- MODULE Encumbrance ----------------------------
(***************************************************************************)
(* Budget encumbrance: EncumbranceService of modules/finance/encumbrance.  *)
(* The model follows one account and year, with its cost centres.  A       *)
(* commitment reserves budget; liquidating it turns it, by two saves, into *)
(* an obligation and that into an expenditure, which the funds check all   *)
(* counts as used.  A check for a cost centre sees the budget lines and    *)
(* the rows of that centre; a check for none sees those of the account.    *)
(***************************************************************************)
EXTENDS Requests, Functions

CONSTANTS
  CostCentre,
  NoCentre,   \* the cost centre of rows, lines and checks that have none
  Budget,     \* the sum of the budget lines of each; 0: no budget, no limit
  Sums,       \* amounts in cents, after rounding
  Source,     \* documents that commitments and liquidations come from
  MaxRows     \* bound: rows of encumbrances

Scope == CostCentre \union {NoCentre}

ASSUME EncumbranceAssumption ==
  /\ IsFiniteSet(CostCentre) /\ NoCentre \notin CostCentre /\ Budget \in [Scope -> Nat]
  /\ Sums \subseteq Nat /\ MaxRows \in Nat

VARIABLES
  enc,       \* the rows of encumbrances
  unchecked  \* history: the scopes that a commitment was made in without a check of them

encVars == <<enc, unchecked>>

EncType == {"COMMITMENT", "OBLIGATION", "EXPENDITURE"}
Successor == [COMMITMENT |-> "OBLIGATION", OBLIGATION |-> "EXPENDITURE"]

EncumbranceInit == RequestsInit /\ enc = <<>> /\ unchecked = {}

\* What is left of a row; the status LIQUIDATED goes with nothing left.
Left(e) == enc[e].amount - enc[e].liquidated

\* A check for k sees what has cost centre j.
Sees(k, j) == k = NoCentre \/ k = j

\* budgetFor
BudgetFor(k) == IF k = NoCentre THEN SumFunction(Budget) ELSE Budget[k]

\* bucketsFor: outstanding commitments and obligations, and all expenditures.
Used(k) ==
  SumFunction([e \in DOMAIN enc |->
    IF ~Sees(k, enc[e].centre) THEN 0 ELSE IF enc[e].type = "EXPENDITURE" THEN enc[e].amount ELSE Left(e)])

-----------------------------------------------------------------------------
\* createCommitment, with enforceFunds or without.
BeginCommitment(c, amount, src, k, enforce) ==
  /\ Arrive(c, {"account"}, [pc |-> IF enforce THEN "checking" ELSE "committing",
                             amount |-> amount, source |-> src, centre |-> k, enforce |-> enforce])
  /\ UNCHANGED encVars

\* fundsCheck
Exceeds(amount, k) == BudgetFor(k) > 0 /\ Used(k) + amount > BudgetFor(k)

\* assertFunds
CheckFunds(c) ==
  /\ At(c, "checking")
  /\ IF Exceeds(call[c].amount, call[c].centre) THEN Answer(c) ELSE Await(c, [call[c] EXCEPT !.pc = "committing"])
  /\ UNCHANGED encVars

SaveCommitment(c) ==
  /\ At(c, "committing") /\ Len(enc) < MaxRows
  /\ LET t == call[c]
     IN /\ enc' = Append(enc, [type |-> "COMMITMENT", amount |-> t.amount, liquidated |-> 0,
                               source |-> t.source, centre |-> t.centre])
        /\ unchecked' = unchecked \union {k \in Scope : Sees(k, t.centre) /\ ~(t.enforce /\ k = t.centre)}
  /\ Answer(c)

-----------------------------------------------------------------------------
(* liquidate, by itself or for every outstanding row of a source (todo).     *)

Liquidable(e, amount) == enc[e].type # "EXPENDITURE" /\ 0 < amount /\ amount <= Left(e)

Liquidating(e, amount, next, todo) ==
  [pc |-> "liquidating", e |-> e, seen |-> enc[e], amount |-> amount, next |-> next, todo |-> todo]

BeginLiquidate(c, e, amount, next) ==
  /\ Liquidable(e, amount)
  /\ Arrive(c, {"account"}, Liquidating(e, amount, next, {}))
  /\ UNCHANGED encVars

SaveLiquidated(c) ==
  /\ At(c, "liquidating")
  /\ enc' = [enc EXCEPT ![call[c].e] = [call[c].seen EXCEPT !.liquidated = @ + call[c].amount]]
  /\ Await(c, [call[c] EXCEPT !.pc = "spawning"])
  /\ UNCHANGED unchecked

GoOn(c) ==
  IF call[c].todo = {} THEN Answer(c)
  ELSE Await(c, [pc |-> "sweeping", next |-> call[c].next, todo |-> call[c].todo])

\* A slip of SaveNext: the next stage takes over the whole row.
SaveNextWhole(c) ==
  /\ At(c, "spawning") /\ Len(enc) < MaxRows
  /\ LET t == call[c]
         type == Successor[t.seen.type]
     IN enc' = Append(enc, [type |-> type, amount |-> t.seen.amount, source |-> t.next, centre |-> t.seen.centre,
                            liquidated |-> IF type = "EXPENDITURE" THEN t.seen.amount ELSE 0])
  /\ GoOn(c)
  /\ UNCHANGED unchecked
\* The next stage; an expenditure is born liquidated.
SaveNext(c) ==
  /\ At(c, "spawning") /\ Len(enc) < MaxRows
  /\ LET t == call[c]
         type == Successor[t.seen.type]
     IN enc' = Append(enc, [type |-> type, amount |-> t.amount, source |-> t.next, centre |-> t.seen.centre,
                            liquidated |-> IF type = "EXPENDITURE" THEN t.amount ELSE 0])
  /\ GoOn(c)
  /\ UNCHANGED unchecked

\* liquidateBySource: a list of rows with what is left of each ...
ListSource(c, src, next) ==
  /\ \E e \in DOMAIN enc : enc[e].source = src /\ Left(e) > 0
  /\ Arrive(c, {"account"}, [pc |-> "sweeping", next |-> next,
                             todo |-> {<<e, Left(e)>> : e \in {d \in DOMAIN enc : enc[d].source = src /\ Left(d) > 0}}])
  /\ UNCHANGED encVars

\* ... each of which is read again, and by now may be refused.
NextOfSource(c) ==
  /\ At(c, "sweeping")
  /\ \E t \in call[c].todo :
       IF Liquidable(t[1], t[2])
         THEN Await(c, Liquidating(t[1], t[2], call[c].next, call[c].todo \ {t}))
         ELSE Answer(c)
  /\ UNCHANGED encVars

PerishInEncumbrance(c) == Perish(c) /\ UNCHANGED encVars

EncumbranceNext ==
  \E c \in Call :
    \/ \E n \in Sums, s \in Source, k \in Scope, b \in BOOLEAN : BeginCommitment(c, n, s, k, b)
    \/ CheckFunds(c) \/ SaveCommitment(c)
    \/ \E e \in DOMAIN enc, n \in Sums, s \in Source : BeginLiquidate(c, e, n, s)
    \/ SaveLiquidated(c) \/ SaveNext(c)
    \/ \E s, t \in Source : ListSource(c, s, t)
    \/ NextOfSource(c)
    \/ PerishInEncumbrance(c)

EncumbranceSpec == EncumbranceInit /\ [][EncumbranceNext]_<<encVars, requestVars>>

-----------------------------------------------------------------------------
\* Where every commitment was checked and requests do not overlap, the budget is never
\* overrun, even if requests die between two saves: that of a cost centre by the rows
\* of the centre, that of the account unless some were checked against a centre's
\* budget alone (assertFunds, liquidate).
WithinBudget ==
  disjoint => \A k \in Scope \ unchecked : BudgetFor(k) > 0 => Used(k) <= BudgetFor(k)

\* "Net available funds are unchanged by a liquidation", for the account and for every
\* cost centre: undisturbed, between requests, as much is used as was ever committed
\* (liquidate, liquidateBySource).
FundsUnchanged ==
  Undisturbed /\ Quiet =>
    \A k \in Scope : Used(k) =
      SumFunction([e \in DOMAIN enc |->
        IF Sees(k, enc[e].centre) /\ enc[e].type = "COMMITMENT" THEN enc[e].amount ELSE 0])

\* The promise of a commitment, kept in both directions: no more is used than the
\* budget holds, and no liquidation gives funds back or takes more (encumbrance.service).
FundsKept == WithinBudget /\ FundsUnchanged
=============================================================================
