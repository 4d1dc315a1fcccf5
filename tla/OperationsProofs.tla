--------------------------- MODULE OperationsProofs ---------------------------
(***************************************************************************)
(* Proofs about Stock, Clearing, Leave and Process, for any number of      *)
(* requests, rows, users and stages, and however requests overlap or die.  *)
(*                                                                         *)
(* Stock: balance, stock ledger and layers of a warehouse differ by what   *)
(* the one request for it has still to write there (InBalance). A shipment *)
(* writes no row of the ledger, so that the balances alone do not say      *)
(* where it took the stock from; the invariant says that there is a share  *)
(* of each warehouse in it (gone). The layers are followed while the item  *)
(* is valued by FIFO and no quantity was negative (layered).               *)
(*                                                                         *)
(* Clearing: while requests for common rows do not overlap, what a request *)
(* has read is what is stored (ClearHeld).                                 *)
(*                                                                         *)
(* Leave: while requests do not overlap, what the one under way has read   *)
(* is what is stored (SeenStands), its new dates are free (PeriodFree),    *)
(* and saving the columns that differ saves the balance it has in memory   *)
(* (SavedWhole), which keeps the floor (Floor).                            *)
(*                                                                         *)
(* Process: the instance and the tasks are overwritten with what was read  *)
(* before, but what any request holds in memory has an approval of each    *)
(* earlier stage behind it (HeldExplained). While requests do not overlap, *)
(* what they hold is what is stored (Current), so that no outcome is       *)
(* overwritten; and if none dies, the stages are gone through in order     *)
(* (InOrder).                                                              *)
(***************************************************************************)
EXTENDS Stock, Clearing, Leave, Process, RequestProofs

-----------------------------------------------------------------------------
(* Stock.                                                                    *)

Place == {"balance", "ledger", "layer"}
Layer == [at : Warehouse, left : Int]
Adjustment == [status : {"DRAFT", "POSTED"}, at : Warehouse, n : Int]
Shipment == [DOMAIN Ordered -> Nat]
Target == Warehouse \union {Nowhere}
StkCall ==
  {Idle}
  \union [pc : {"reading"}, to : Warehouse, n : Int, places : Seq(Place), adj : Nat]
  \union [pc : {"putting"}, to : Warehouse, n : Int, places : Seq(Place), adj : Nat, seen : Int]
  \union [pc : {"listing", "taking", "leaving"}, from : Warehouse, n : Int, to : Target, seen : Int, isFifo : BOOLEAN]
  \union [pc : {"consuming"}, from : Warehouse, n : Int, to : Target, seen : Int, need : Int, todo : SUBSET (Nat \X Int)]
  \union [pc : {"editing"}, method : BOOLEAN]
  \union [pc : {"ordering"}, next : {"CONFIRMED", "COMPLETED", "CANCELLED", "SHIPPED"}]
  \union [pc : {"shipping"}, k : Nat \ {0}, want : Shipment, was : Shipment, lines : Shipment]
  \union [pc : {"relieving"}, k : Nat \ {0}, want : Shipment, was : Shipment, lines : Shipment,
          seen : [Warehouse -> Int], need : Nat, todo : SUBSET Warehouse]

Puts == {"reading", "putting"}
Takes == {"listing", "consuming", "taking", "leaving"}
Ships == {"shipping", "relieving"}

Has(places, p) == \E i \in DOMAIN places : places[i] = p

\* What a request refers to exists, and it works on these rows.
StkKnown(t) ==
  /\ t.pc \in Puts => /\ \A i, j \in DOMAIN t.places : t.places[i] = t.places[j] => i = j
                      /\ Has(t.places, "layer") => t.adj = 0 /\ (layered => t.n \in Nat)
                      /\ t.adj # 0 => t.adj \in DOMAIN adjustments
                      /\ t.places = <<>> => t.adj # 0 /\ t.pc = "putting"
  /\ layered /\ t.pc \in Takes => t.n \in Nat
  /\ layered /\ t.pc \in {"taking", "leaving"} => t.isFifo
  /\ layered /\ t.pc = "consuming" => t.need \in Nat /\ \A l \in t.todo : l[2] \in Nat
StkRows(t, R) ==
  /\ t.pc \in Puts => BalanceRow(t.to) \in R
  /\ t.pc \in Takes => BalanceRow(t.from) \in R /\ (t.to # Nowhere => BalanceRow(t.to) \in R)
  /\ t.pc \in Ships => SalesRow \in R /\ AllBalances \subseteq R
  /\ t.pc = "ordering" => SalesRow \in R

\* What a request has read is what is stored.
StkHeld(t) ==
  /\ t.pc = "putting" /\ Has(t.places, "balance") => t.seen = onHand[t.to]
  /\ t.pc \in {"listing", "consuming", "taking"} => t.seen = onHand[t.from] /\ t.n <= t.seen
  /\ t.pc = "consuming" =>
       /\ \A l \in t.todo : l[1] \in DOMAIN layers /\ layers[l[1]].at = t.from /\ layers[l[1]].left = l[2]
       /\ t.need > 0 => \A i \in DOMAIN layers : layers[i].at = t.from /\ layers[i].left # 0 => <<i, layers[i].left>> \in t.todo
  /\ t.pc \in Ships => t.was = salesOrder.shipped
  /\ t.pc = "relieving" =>
       /\ \A w \in t.todo : t.seen[w] = onHand[w]
       /\ t.need <= InAll(onHand)
       /\ t.need > 0 => \A w \in Warehouse \ t.todo : onHand[w] <= 0

\* What request t has still to write at w: to the balance, the ledger and the layers.
OwesOnHand(t, w) == IF t.pc \in Puts /\ t.to = w /\ Has(t.places, "balance") THEN t.n ELSE 0
OwesMoved(t, w) ==
  IF t.pc \in Puts /\ t.to = w /\ Has(t.places, "ledger") THEN t.n
  ELSE IF t.pc = "leaving" /\ t.from = w THEN 0 - t.n ELSE 0
OwesLayers(t, w) ==
  IF t.pc \in Puts /\ t.to = w /\ (Has(t.places, "layer") \/ t.adj # 0) THEN t.n
  ELSE IF t.pc = "consuming" /\ t.from = w THEN t.n - t.need
  ELSE IF t.pc = "taking" /\ t.from = w THEN t.n ELSE 0

\* The three records of warehouse w, which gone[w] was shipped from, differ by what t owes.
InBalance(gone, w, t) ==
  /\ onHand[w] + OwesOnHand(t, w) = moved[w] + OwesMoved(t, w) - gone[w]
  /\ layered /\ ~Adjusted => LayersAt(w) + OwesLayers(t, w) = moved[w] + OwesMoved(t, w)

\* What was shipped is what the order's lines say, or will.
Shipping(gone, t) ==
  InAll(gone) = IF t.pc = "shipping" THEN InAll(t.lines)
                ELSE IF t.pc = "relieving" THEN InAll(t.lines) - t.need ELSE InAll(salesOrder.shipped)

Balances(gone) ==
  /\ \A w \in Warehouse : \A c \in Call : BalanceRow(w) \in touches[c] => InBalance(gone, w, call[c])
  /\ \A w \in Warehouse : (\A c \in Call : BalanceRow(w) \notin touches[c]) => InBalance(gone, w, Idle)
Shipments(gone) ==
  ~torn =>
    /\ \A c \in Call : SalesRow \in touches[c] => Shipping(gone, call[c])
    /\ (\A c \in Call : SalesRow \notin touches[c]) => Shipping(gone, Idle)

StkHolds(gone) == (\A c \in Call : StkHeld(call[c])) /\ Balances(gone) /\ Shipments(gone)

\* While layers have to account for the ledger, the item is FIFO and none is below zero.
StkLayered ==
  /\ fifo \in BOOLEAN /\ layered \in BOOLEAN
  /\ layered => fifo /\ \A i \in DOMAIN layers : layers[i].left \in Nat

StkTyped ==
  /\ StkLayered /\ onHand \in [Warehouse -> Int] /\ moved \in [Warehouse -> Int]
  /\ layers \in Seq(Layer) /\ adjustments \in Seq(Adjustment)
  /\ salesOrder \in [status : {"DRAFT", "CONFIRMED", "COMPLETED", "CANCELLED", "SHIPPED"}, shipped : Shipment]
  /\ torn \in BOOLEAN
  /\ call \in [Call -> StkCall]
  /\ \A c \in Call : StkKnown(call[c]) /\ StkRows(call[c], touches[c])
  /\ Apart

StkKept == StkTyped /\ (Undisturbed => \E gone \in [Warehouse -> Nat] : StkHolds(gone))

-----------------------------------------------------------------------------
LEMMA StkForms ==
  ASSUME NEW t \in StkCall
  PROVE  /\ t.pc \in Puts \union Takes \union Ships \union {"idle", "editing", "ordering"}
         /\ t = Idle <=> t.pc = "idle"
         /\ t.pc \in Puts => t.to \in Warehouse /\ t.n \in Int /\ t.places \in Seq(Place) /\ t.adj \in Nat
         /\ t.pc = "putting" => t.seen \in Int
         /\ t.pc \in Takes => t.from \in Warehouse /\ t.n \in Int /\ t.to \in Target /\ t.seen \in Int
         /\ t.pc \in {"listing", "taking", "leaving"} => t.isFifo \in BOOLEAN
         /\ t.pc = "consuming" => t.need \in Int /\ t.todo \in SUBSET (Nat \X Int)
         /\ t.pc = "editing" => t.method \in BOOLEAN
         /\ t.pc = "ordering" => t.next \in {"CONFIRMED", "COMPLETED", "CANCELLED", "SHIPPED"}
         /\ t.pc \in Ships => t.k \in Nat \ {0} /\ t.want \in Shipment /\ t.was \in Shipment /\ t.lines \in Shipment
         /\ t.pc = "relieving" => t.seen \in [Warehouse -> Int] /\ t.need \in Nat /\ t.todo \in SUBSET Warehouse
<1> USE DEF Idle, Puts, Takes, Ships
<1>1. CASE t \in {Idle}
  BY <1>1
<1>2. CASE t \in [pc : {"reading"}, to : Warehouse, n : Int, places : Seq(Place), adj : Nat]
  BY <1>2
<1>3. CASE t \in [pc : {"putting"}, to : Warehouse, n : Int, places : Seq(Place), adj : Nat, seen : Int]
  BY <1>3
<1>4. CASE t \in [pc : {"listing", "taking", "leaving"}, from : Warehouse, n : Int, to : Target, seen : Int, isFifo : BOOLEAN]
  BY <1>4
<1>5. CASE t \in [pc : {"consuming"}, from : Warehouse, n : Int, to : Target, seen : Int, need : Int, todo : SUBSET (Nat \X Int)]
  BY <1>5
<1>6. CASE t \in [pc : {"ordering"}, next : {"CONFIRMED", "COMPLETED", "CANCELLED", "SHIPPED"}]
  BY <1>6
<1>7. CASE t \in [pc : {"shipping"}, k : Nat \ {0}, want : Shipment, was : Shipment, lines : Shipment]
  BY <1>7
<1>8. CASE t \in [pc : {"relieving"}, k : Nat \ {0}, want : Shipment, was : Shipment, lines : Shipment,
                  seen : [Warehouse -> Int], need : Nat, todo : SUBSET Warehouse]
  BY <1>8
<1>9. CASE t \in [pc : {"editing"}, method : BOOLEAN]
  BY <1>9
<1> QED BY <1>1, <1>2, <1>3, <1>4, <1>5, <1>6, <1>7, <1>8, <1>9 DEF StkCall

\* The sum of a function with one value changed.
LEMMA SumChanged ==
  ASSUME NEW f, NEW g, NEW S, IsFiniteSet(S), DOMAIN f = S, DOMAIN g = S, \A x \in S : f[x] \in Int,
         NEW y \in S, g[y] \in Int, \A x \in S : x # y => g[x] = f[x]
  PROVE  SumFunction(g) = SumFunction(f) + (g[y] - f[y]) /\ SumFunction(f) \in Int
<1>1. \A x \in S : g[x] \in Int
  OBVIOUS
<1>2. /\ SumFunctionOnSet(f, S) = f[y] + SumFunctionOnSet(f, S \ {y})
      /\ SumFunctionOnSet(g, S) = g[y] + SumFunctionOnSet(g, S \ {y})
  BY <1>1, SumStep
<1>3. IsFiniteSet(S \ {y}) /\ \A x \in S \ {y} : f[x] = g[x] /\ f[x] \in Int
  BY FS_Subset
<1>4. SumFunctionOnSet(f, S \ {y}) = SumFunctionOnSet(g, S \ {y}) /\ SumFunctionOnSet(f, S \ {y}) \in Int
  BY <1>3, SumSame, SumStep
<1>5. SumFunction(f) = SumFunctionOnSet(f, S) /\ SumFunction(g) = SumFunctionOnSet(g, S) /\ f[y] \in Int
  BY DEF SumFunction
<1> QED BY <1>2, <1>4, <1>5

\* A sum of what is not positive is not, nor is one of natural numbers negative; and
\* these are zero when their sum is.
LEMMA SumNotPositive ==
  ASSUME NEW f, NEW S, IsFiniteSet(S), \A x \in S : f[x] \in Int /\ f[x] <= 0
  PROVE  SumFunctionOnSet(f, S) <= 0
<1> DEFINE T == {s \in SUBSET S : SumFunctionOnSet(f, s) <= 0}
<1>1. {} \in T
  BY SumEmpty
<1>2. ASSUME NEW s \in SUBSET S, NEW x \in S \ s, s \in T PROVE s \union {x} \in T
  <2>1. IsFiniteSet(s)
    BY FS_Subset
  <2>2. SumFunctionOnSet(f, s \union {x}) = f[x] + SumFunctionOnSet(f, s)
    BY <2>1, SumAdd
  <2>3. SumFunctionOnSet(f, s) \in Int /\ f[x] \in Int /\ f[x] <= 0 /\ SumFunctionOnSet(f, s) <= 0
    BY <1>2, <2>1, SumStep
  <2> QED BY <2>2, <2>3
<1>3. S \in T
  <2> HIDE DEF T
  <2> QED BY <1>1, <1>2, SetReached
<1> QED BY <1>3

LEMMA SumNatural ==
  ASSUME NEW f, NEW S, IsFiniteSet(S), \A x \in S : f[x] \in Nat
  PROVE  SumFunctionOnSet(f, S) \in Nat /\ (SumFunctionOnSet(f, S) = 0 => \A x \in S : f[x] = 0)
<1>1. ASSUME NEW s \in SUBSET S PROVE SumFunctionOnSet(f, s) \in Nat
  <2> DEFINE g == [x \in s |-> 0 - f[x]]
  <2>1. IsFiniteSet(s) /\ \A x \in s : g[x] \in Int /\ g[x] <= 0 /\ f[x] \in Int /\ g[x] = 0 - f[x]
    BY FS_Subset
  <2> HIDE DEF g
  <2>2. SumFunctionOnSet(g, s) <= 0 /\ SumFunctionOnSet(g, s) = 0 - SumFunctionOnSet(f, s) /\ SumFunctionOnSet(f, s) \in Int
    BY <2>1, SumNotPositive, SumOpposite, SumStep
  <2> QED BY <2>2
<1>2. ASSUME SumFunctionOnSet(f, S) = 0, NEW x \in S PROVE f[x] = 0
  <2>1. SumFunctionOnSet(f, S) = f[x] + SumFunctionOnSet(f, S \ {x}) /\ SumFunctionOnSet(f, S \ {x}) \in Nat
    BY <1>1, SumStep
  <2> QED BY <1>2, <2>1
<1> QED BY <1>1, <1>2

LEMMA StkTerms ==
  ASSUME StkTyped
  PROVE  /\ Len(layers) \in Nat /\ DOMAIN layers = 1 .. Len(layers)
         /\ \A i \in DOMAIN layers : layers[i] \in Layer /\ layers[i].at \in Warehouse /\ layers[i].left \in Int
         /\ Len(adjustments) \in Nat /\ DOMAIN adjustments = 1 .. Len(adjustments)
         /\ \A a \in DOMAIN adjustments : adjustments[a] \in Adjustment
         /\ \A w \in Warehouse : onHand[w] \in Int /\ moved[w] \in Int
         /\ salesOrder.shipped \in Shipment
<1>1. Len(layers) \in Nat /\ DOMAIN layers = 1 .. Len(layers) /\ \A i \in DOMAIN layers : layers[i] \in Layer
  BY DEF StkTyped
<1>2. \A i \in DOMAIN layers : layers[i].at \in Warehouse /\ layers[i].left \in Int
  BY <1>1 DEF Layer
<1>3. Len(adjustments) \in Nat /\ DOMAIN adjustments = 1 .. Len(adjustments) /\ \A a \in DOMAIN adjustments : adjustments[a] \in Adjustment
  BY DEF StkTyped
<1>4. (\A w \in Warehouse : onHand[w] \in Int /\ moved[w] \in Int) /\ salesOrder.shipped \in Shipment
  BY DEF StkTyped
<1> QED BY <1>1, <1>2, <1>3, <1>4

\* The layers of a warehouse, and their sum.
LayersOf(w) == {j \in DOMAIN layers : layers[j].at = w}
Lefts(w) == [i \in LayersOf(w) |-> layers[i].left]

LEMMA LayersSum ==
  ASSUME StkTyped, NEW w
  PROVE  /\ LayersAt(w) = SumFunction(Lefts(w)) /\ DOMAIN Lefts(w) = LayersOf(w) /\ IsFiniteSet(LayersOf(w))
         /\ \A i \in LayersOf(w) : Lefts(w)[i] = layers[i].left /\ Lefts(w)[i] \in Int
         /\ LayersAt(w) \in Int /\ ((\A i \in LayersOf(w) : layers[i].left = 0) => LayersAt(w) = 0)
<1> DEFINE f == Lefts(w)
<1>1. LayersAt(w) = SumFunction(f) /\ DOMAIN f = LayersOf(w)
  BY DEF LayersAt, Lefts, LayersOf
<1>2. IsFiniteSet(LayersOf(w))
  <2>1. LayersOf(w) \subseteq 1 .. Len(layers) /\ IsFiniteSet(1 .. Len(layers))
    BY StkTerms, SegmentFinite DEF LayersOf
  <2> QED BY <2>1, FS_Subset
<1>3. \A i \in LayersOf(w) : f[i] = layers[i].left /\ f[i] \in Int
  BY StkTerms DEF LayersOf, Lefts
<1> HIDE DEF f
<1>4. SumFunction(f) = SumFunctionOnSet(f, LayersOf(w))
  BY <1>1 DEF SumFunction
<1>5. SumFunction(f) \in Int
  BY <1>2, <1>3, <1>4, SumStep
<1>6. ASSUME \A i \in LayersOf(w) : layers[i].left = 0 PROVE SumFunction(f) = 0
  <2>1. \A i \in LayersOf(w) : f[i] = 0
    BY <1>3, <1>6
  <2> QED BY <1>2, <1>4, <2>1, SumZero
<1> QED BY <1>1, <1>2, <1>3, <1>5, <1>6 DEF f

\* Nothing changes in warehouse w.
WarehouseAlone(w) ==
  /\ onHand'[w] = onHand[w] /\ moved'[w] = moved[w]
  /\ \A i \in DOMAIN layers : layers[i].at = w => i \in DOMAIN layers' /\ layers'[i] = layers[i]
  /\ \A i \in DOMAIN layers' : layers'[i].at = w => i \in DOMAIN layers /\ layers[i].at = w

LEMMA LayersStay ==
  ASSUME NEW w, WarehouseAlone(w)
  PROVE  LayersAt(w)' = LayersAt(w)
<1>1. {j \in DOMAIN layers' : layers'[j].at = w} = {j \in DOMAIN layers : layers[j].at = w}
  BY DEF WarehouseAlone
<1>2. \A i \in {j \in DOMAIN layers : layers[j].at = w} : layers'[i].left = layers[i].left
  BY DEF WarehouseAlone
<1>3. [i \in {j \in DOMAIN layers' : layers'[j].at = w} |-> layers'[i].left]
        = [i \in {j \in DOMAIN layers : layers[j].at = w} |-> layers[i].left]
  BY <1>1, <1>2
<1> QED BY <1>3 DEF LayersAt

LEMMA LayersAppended ==
  ASSUME StkTyped, NEW w \in Warehouse, NEW n \in Int, layers' = Append(layers, [at |-> w, left |-> n])
  PROVE  /\ layers' \in Seq(Layer) /\ LayersAt(w)' = LayersAt(w) + n
         /\ \A i \in DOMAIN layers : i \in DOMAIN layers' /\ layers'[i] = layers[i]
         /\ \A i \in DOMAIN layers' : layers'[i].at # w => i \in DOMAIN layers
         /\ \A i \in DOMAIN layers' : i \in DOMAIN layers \/ layers'[i].left = n
<1>1. PICK m \in Nat : m = Len(layers)
  BY StkTerms
<1>2. [at |-> w, left |-> n] \in Layer
  BY DEF Layer
<1>3. /\ layers' \in Seq(Layer) /\ DOMAIN layers' = 1 .. (m + 1) /\ DOMAIN layers = 1 .. m
      /\ \A i \in DOMAIN layers : layers'[i] = layers[i]
      /\ layers'[m + 1] = [at |-> w, left |-> n]
  BY <1>1, <1>2 DEF StkTyped
<1>4. (\A i \in DOMAIN layers' : i \in DOMAIN layers \/ i = m + 1) /\ m + 1 \in DOMAIN layers' /\ m + 1 \notin DOMAIN layers
  BY <1>1, <1>3
<1> DEFINE S == LayersOf(w)
           f == Lefts(w)
           S1 == {j \in DOMAIN layers' : layers'[j].at = w}
           g == [i \in S1 |-> layers'[i].left]
<1>5. /\ LayersAt(w) = SumFunctionOnSet(f, S) /\ IsFiniteSet(S) /\ \A i \in S : f[i] = layers[i].left /\ f[i] \in Int
  BY LayersSum DEF SumFunction
<1>6. S1 = S \union {m + 1} /\ m + 1 \notin S
  BY <1>3, <1>4 DEF LayersOf
<1>7. (\A i \in S : g[i] = f[i] /\ g[i] \in Int) /\ g[m + 1] = n
  <2>1. \A i \in S : g[i] = layers[i].left
    BY <1>3, <1>6 DEF LayersOf
  <2> QED BY <1>3, <1>5, <1>6, <2>1
<1>8. LayersAt(w)' = SumFunctionOnSet(g, S1)
  BY DEF LayersAt, SumFunction
<1> HIDE DEF f, g, S, S1
<1>9. SumFunctionOnSet(g, S1) = n + SumFunctionOnSet(g, S)
  BY <1>5, <1>6, <1>7, SumAdd
<1>10. SumFunctionOnSet(g, S) = SumFunctionOnSet(f, S) /\ SumFunctionOnSet(g, S) \in Int
  BY <1>5, <1>7, SumSame, SumStep
<1> QED BY <1>3, <1>4, <1>5, <1>8, <1>9, <1>10

LEMMA LayersTaken ==
  ASSUME StkTyped, NEW i \in DOMAIN layers, NEW n \in Int, layers' = [layers EXCEPT ![i].left = n]
  PROVE  /\ layers' \in Seq(Layer) /\ LayersAt(layers[i].at)' = LayersAt(layers[i].at) + (n - layers[i].left)
         /\ DOMAIN layers' = DOMAIN layers /\ layers'[i].at = layers[i].at /\ layers'[i].left = n
         /\ \A j \in DOMAIN layers : j # i => layers'[j] = layers[j]
<1>1. PICK w : w = layers[i].at
  OBVIOUS
<1>2. /\ layers' \in Seq(Layer) /\ DOMAIN layers' = DOMAIN layers /\ layers'[i].at = w /\ layers'[i].left = n
      /\ \A j \in DOMAIN layers : j # i => layers'[j] = layers[j]
  <2>1. PICK row : row = [layers[i] EXCEPT !.left = n]
    OBVIOUS
  <2>2. layers[i] \in Layer /\ layers \in Seq(Layer)
    BY StkTerms DEF StkTyped
  <2>3. row \in Layer /\ row.at = w /\ row.left = n
    BY <1>1, <2>1, <2>2 DEF Layer
  <2>4. layers' = [layers EXCEPT ![i] = row]
    BY <2>1
  <2> QED BY <2>2, <2>3, <2>4
<1> DEFINE S == LayersOf(w)
           f == Lefts(w)
           S1 == {j \in DOMAIN layers' : layers'[j].at = w}
           g == [j \in S1 |-> layers'[j].left]
<1>3. /\ LayersAt(w) = SumFunction(f) /\ IsFiniteSet(S) /\ DOMAIN f = S
      /\ \A j \in S : f[j] = layers[j].left /\ f[j] \in Int
  BY LayersSum
<1>4. S1 = S /\ i \in S
  BY <1>1, <1>2 DEF LayersOf
<1>5. DOMAIN g = S /\ g[i] = n /\ \A j \in S : i # j => g[j] = f[j]
  <2>1. \A j \in S : j \in DOMAIN layers /\ g[j] = layers'[j].left
    BY <1>4 DEF LayersOf
  <2> QED BY <1>2, <1>3, <1>4, <2>1
<1>6. LayersAt(w)' = SumFunction(g)
  BY DEF LayersAt
<1>7. f[i] = layers[i].left /\ g[i] \in Int
  BY <1>3, <1>4, <1>5
<1> HIDE DEF f, g, S, S1
<1>8. SumFunction(g) = SumFunction(f) + (g[i] - f[i])
  BY <1>3, <1>4, <1>5, <1>7, SumChanged
<1> QED BY <1>1, <1>2, <1>3, <1>5, <1>6, <1>7, <1>8

\* The places still to be written.
LEMMA PlacesLeft ==
  ASSUME NEW s \in Seq(Place), s # <<>>, \A i, j \in DOMAIN s : s[i] = s[j] => i = j
  PROVE  /\ Tail(s) \in Seq(Place) /\ \A i, j \in DOMAIN Tail(s) : Tail(s)[i] = Tail(s)[j] => i = j
         /\ Head(s) \in Place /\ Has(s, Head(s)) /\ ~ Has(Tail(s), Head(s))
         /\ \A p : p # Head(s) => (Has(Tail(s), p) <=> Has(s, p))
<1>1. PICK n \in Nat : Len(s) = n + 1 /\ DOMAIN s = 1 .. (n + 1) /\ Head(s) = s[1] /\ s[1] \in Place
  <2>1. Len(s) \in Nat /\ Len(s) # 0
    OBVIOUS
  <2>2. PICK n \in Nat : n = Len(s) - 1
    BY <2>1
  <2>3. Len(s) = n + 1
    BY <2>1, <2>2
  <2>4. DOMAIN s = 1 .. (n + 1) /\ Head(s) = s[1]
    BY <2>3
  <2>5. s[1] \in Place
    BY <2>4
  <2> QED BY <2>3, <2>4, <2>5
<1>2. PICK t : t = Tail(s)
  OBVIOUS
<1>3. t \in Seq(Place) /\ DOMAIN t = 1 .. n /\ \A i \in 1 .. n : t[i] = s[i + 1] /\ i + 1 \in DOMAIN s
  BY <1>1, <1>2
<1>4. \A i, j \in DOMAIN t : t[i] = t[j] => i = j
  <2> SUFFICES ASSUME NEW i \in 1 .. n, NEW j \in 1 .. n, t[i] = t[j] PROVE i = j
    BY <1>3
  <2>1. i + 1 = j + 1
    BY <1>3
  <2> QED BY <2>1
<1>5. Has(s, Head(s))
  BY <1>1 DEF Has
<1>6. ASSUME Has(t, Head(s)) PROVE FALSE
  <2>1. PICK i \in 1 .. n : t[i] = s[1]
    BY <1>1, <1>3, <1>6 DEF Has
  <2>2. i + 1 \in DOMAIN s /\ 1 \in DOMAIN s
    BY <1>1
  <2>3. s[i + 1] = s[1]
    BY <1>3, <2>1
  <2>4. i + 1 = 1
    BY <1>1, <2>2, <2>3
  <2> QED BY <1>1, <2>4
<1>7. ASSUME NEW p, p # Head(s) PROVE Has(t, p) <=> Has(s, p)
  <2>1. ASSUME Has(t, p) PROVE Has(s, p)
    BY <1>3, <2>1 DEF Has
  <2>2. ASSUME Has(s, p) PROVE Has(t, p)
    <3>1. PICK i \in DOMAIN s : s[i] = p
      BY <2>2 DEF Has
    <3>2. i # 1
      BY <1>1, <1>7, <3>1
    <3>3. i - 1 \in 1 .. n /\ (i - 1) + 1 = i
      BY <1>1, <3>2
    <3>4. t[i - 1] = p
      BY <1>3, <3>1, <3>3
    <3> QED BY <1>3, <3>3, <3>4 DEF Has
  <2> QED BY <2>1, <2>2
<1> QED BY <1>1, <1>2, <1>3, <1>4, <1>5, <1>6, <1>7

LEMMA LesserOf ==
  ASSUME NEW a \in Int, NEW b \in Int
  PROVE  Min({a, b}) = IF a <= b THEN a ELSE b
<1>1. CASE a <= b
  BY <1>1 DEF Min
<1>2. CASE ~ (a <= b)
  BY <1>2 DEF Min
<1> QED BY <1>1, <1>2

-----------------------------------------------------------------------------
\* What no step takes back, and what it leaves of the layers.
StkGrown ==
  /\ \A a \in DOMAIN adjustments : a \in DOMAIN adjustments'
  /\ StkLayered' /\ (layered' => layered) /\ (Adjusted => Adjusted') /\ (torn => torn')

\* What a step of another request leaves of the rows R.
StkUntouched(R) ==
  /\ \A w \in Warehouse : BalanceRow(w) \in R => WarehouseAlone(w)
  /\ SalesRow \in R => salesOrder'.shipped = salesOrder.shipped

LEMMA StkHeldStays ==
  ASSUME StkTyped, onHand' \in [Warehouse -> Int], NEW t \in StkCall, NEW R, StkRows(t, R), StkUntouched(R), StkHeld(t)
  PROVE  StkHeld(t)'
<1>1. t.pc = "putting" /\ Has(t.places, "balance") => t.seen = onHand'[t.to]
  <2>1. t.pc = "putting" => t.to \in Warehouse /\ BalanceRow(t.to) \in R
    BY StkForms DEF StkRows, Puts
  <2>2. t.pc = "putting" => onHand'[t.to] = onHand[t.to]
    BY <2>1 DEF StkUntouched, WarehouseAlone
  <2> QED BY <2>2 DEF StkHeld
<1>2. t.pc \in Takes => WarehouseAlone(t.from)
  BY StkForms DEF StkRows, StkUntouched
<1>3. t.pc \in {"listing", "consuming", "taking"} => t.seen = onHand'[t.from] /\ t.n <= t.seen
  BY <1>2 DEF StkHeld, Takes, WarehouseAlone
<1>4. t.pc = "consuming" =>
        /\ \A l \in t.todo : l[1] \in DOMAIN layers' /\ layers'[l[1]].at = t.from /\ layers'[l[1]].left = l[2]
        /\ t.need > 0 => \A i \in DOMAIN layers' : layers'[i].at = t.from /\ layers'[i].left # 0 => <<i, layers'[i].left>> \in t.todo
  <2> SUFFICES ASSUME t.pc = "consuming"
               PROVE  /\ \A l \in t.todo : l[1] \in DOMAIN layers' /\ layers'[l[1]].at = t.from /\ layers'[l[1]].left = l[2]
                      /\ t.need > 0 => \A i \in DOMAIN layers' : layers'[i].at = t.from /\ layers'[i].left # 0 => <<i, layers'[i].left>> \in t.todo
    OBVIOUS
  <2>1. WarehouseAlone(t.from)
    BY <1>2 DEF Takes
  <2>2. \A l \in t.todo : l[1] \in DOMAIN layers /\ layers[l[1]].at = t.from /\ layers[l[1]].left = l[2]
    BY DEF StkHeld
  <2>3. \A l \in t.todo : l[1] \in DOMAIN layers' /\ layers'[l[1]] = layers[l[1]]
    BY <2>1, <2>2 DEF WarehouseAlone
  <2>4. ASSUME t.need > 0, NEW i \in DOMAIN layers', layers'[i].at = t.from, layers'[i].left # 0 PROVE <<i, layers'[i].left>> \in t.todo
    <3>1. i \in DOMAIN layers /\ layers[i].at = t.from /\ layers'[i] = layers[i]
      BY <2>1, <2>4 DEF WarehouseAlone
    <3> QED BY <2>4, <3>1 DEF StkHeld
  <2> QED BY <2>2, <2>3, <2>4 DEF StkHeld
<1>5. t.pc \in Ships => t.was = salesOrder'.shipped /\ onHand' = onHand
  <2>1. ASSUME t.pc \in Ships PROVE onHand' = onHand /\ salesOrder'.shipped = salesOrder.shipped
    <3>1. \A w \in Warehouse : BalanceRow(w) \in R
      BY <2>1 DEF StkRows, AllBalances
    <3>2. \A w \in Warehouse : onHand'[w] = onHand[w]
      BY <3>1 DEF StkUntouched, WarehouseAlone
    <3> QED BY <2>1, <3>2 DEF StkTyped, StkUntouched, StkRows
  <2> QED BY <2>1 DEF StkHeld
<1>6. t.pc = "relieving" =>
        /\ \A w \in t.todo : t.seen[w] = onHand'[w]
        /\ t.need <= InAll(onHand')
        /\ t.need > 0 => \A w \in Warehouse \ t.todo : onHand'[w] <= 0
  BY <1>5 DEF StkHeld, Ships
<1> QED BY <1>1, <1>3, <1>4, <1>5, <1>6 DEF StkHeld, InAll

LEMMA InBalanceStays ==
  ASSUME StkGrown, NEW w, WarehouseAlone(w), NEW t, NEW g, NEW h, h[w] = g[w], InBalance(g, w, t)
  PROVE  InBalance(h, w, t)'
<1>1. LayersAt(w)' = LayersAt(w) /\ onHand'[w] = onHand[w] /\ moved'[w] = moved[w]
  BY LayersStay DEF WarehouseAlone
<1>2. OwesOnHand(t, w)' = OwesOnHand(t, w) /\ OwesMoved(t, w)' = OwesMoved(t, w) /\ OwesLayers(t, w)' = OwesLayers(t, w)
  BY DEF OwesOnHand, OwesMoved, OwesLayers, Has
<1>3. layered' /\ ~ Adjusted' => layered /\ ~ Adjusted
  BY DEF StkGrown
<1> QED BY <1>1, <1>2, <1>3 DEF InBalance

\* What request c, which goes to next, has to see to itself.
StkOwn(c, next, g, h) ==
  /\ StkHeld(next)'
  /\ \A w \in Warehouse : BalanceRow(w) \notin touches[c] => h[w] = g[w]
  /\ \A w \in Warehouse : BalanceRow(w) \in touches[c] \union touches'[c] => InBalance(h, w, next)'
  /\ SalesRow \notin touches[c] => h = g
  /\ ~ torn' /\ SalesRow \in touches[c] \union touches'[c] => Shipping(h, next)'

LEMMA StkFrame ==
  ASSUME StkKept, NEW c \in Call, StkGrown, Apart', Moved(c), NEW next \in StkCall, call'[c] = next,
         onHand' \in [Warehouse -> Int], moved' \in [Warehouse -> Int], layers' \in Seq(Layer), adjustments' \in Seq(Adjustment),
         salesOrder' \in [status : {"DRAFT", "CONFIRMED", "COMPLETED", "CANCELLED", "SHIPPED"}, shipped : Shipment],
         torn' \in BOOLEAN, StkKnown(next)', StkRows(next, touches'[c]),
         Undisturbed => \A w \in Warehouse : BalanceRow(w) \notin touches[c] => WarehouseAlone(w),
         SalesRow \notin touches[c] => salesOrder'.shipped = salesOrder.shipped,
         next # Idle => touches[c] \subseteq touches'[c],
         \A g \in [Warehouse -> Nat] : Undisturbed' /\ Undisturbed /\ StkHolds(g) => \E h \in [Warehouse -> Nat] : StkOwn(c, next, g, h)
  PROVE  StkKept'
<1>1. StkTyped /\ Apart
  BY DEF StkKept, StkTyped
<1>2. ASSUME NEW d \in Call \ {c}
      PROVE  /\ StkKnown(call[d])' /\ StkRows(call'[d], touches'[d])
             /\ Undisturbed' /\ StkHeld(call[d]) => StkHeld(call[d])'
             /\ call'[d] = call[d] /\ touches'[d] = touches[d] /\ (Undisturbed' => touches[d] \intersect touches[c] = {})
  <2>1. PICK t, R : t = call[d] /\ R = touches[d]
    OBVIOUS
  <2>2. t \in StkCall /\ StkKnown(t) /\ StkRows(t, R) /\ call'[d] = t /\ touches'[d] = R
    BY <1>1, <2>1 DEF StkTyped, Moved
  <2>3. StkKnown(t)'
    BY <2>2 DEF StkKnown, StkGrown, Has
  <2>4. Undisturbed' => R \intersect touches[c] = {}
    BY <1>1, <2>1 DEF Moved, Apart, Undisturbed
  <2>5. Undisturbed' => StkUntouched(R)
    <3>1. Undisturbed' => Undisturbed
      BY DEF Moved
    <3> QED BY <2>4, <3>1 DEF StkUntouched
  <2>6. Undisturbed' /\ StkHeld(t) => StkHeld(t)'
    BY <1>1, <2>2, <2>5, StkHeldStays
  <2>7. StkKnown(call[d])' /\ (StkHeld(t)' => StkHeld(call[d])')
    BY <2>2, <2>3 DEF StkKnown, StkHeld
  <2> QED BY <2>1, <2>2, <2>4, <2>6, <2>7
<1>3. StkTyped'
  <2>1. call' \in [Call -> StkCall]
    BY <1>1 DEF StkTyped, Moved
  <2>2. StkKnown(call[c])' /\ StkRows(call[c], touches[c])'
    BY DEF StkKnown, StkRows
  <2>3. \A d \in Call : StkKnown(call[d])' /\ StkRows(call[d], touches[d])'
    BY <1>2, <2>2 DEF StkRows
  <2>4. StkLayered'
    BY DEF StkGrown
  <2> QED BY <2>1, <2>3, <2>4 DEF StkTyped
<1>4. ASSUME Undisturbed' PROVE \E h \in [Warehouse -> Nat] : StkHolds(h)'
  <2>1. Undisturbed
    BY <1>4 DEF Moved
  <2>2. PICK g \in [Warehouse -> Nat] : StkHolds(g)
    BY <2>1 DEF StkKept
  <2>3. PICK h \in [Warehouse -> Nat] : StkOwn(c, next, g, h)
    BY <1>4, <2>1, <2>2
  <2>4. \A d \in Call : StkHeld(call[d])'
    <3>1. StkHeld(call[c])'
      BY <2>3 DEF StkOwn, StkHeld
    <3>2. \A d \in Call \ {c} : StkHeld(call[d])'
      BY <1>2, <1>4, <2>2 DEF StkHolds
    <3> QED BY <3>1, <3>2
  <2>5. ASSUME NEW w \in Warehouse
        PROVE  /\ \A d \in Call : BalanceRow(w) \in touches'[d] => InBalance(h, w, call[d])'
               /\ (\A d \in Call : BalanceRow(w) \notin touches'[d]) => InBalance(h, w, Idle)'
    <3>1. BalanceRow(w) \notin touches[c] => WarehouseAlone(w) /\ h[w] = g[w]
      BY <2>1, <2>3 DEF StkOwn
    <3>2. BalanceRow(w) \in touches[c] \union touches'[c] => InBalance(h, w, next)' /\ InBalance(h, w, call[c])'
      BY <2>3 DEF StkOwn, InBalance, OwesOnHand, OwesMoved, OwesLayers
    <3>3. ASSUME NEW d \in Call \ {c}, BalanceRow(w) \in touches'[d] PROVE InBalance(h, w, call[d])'
      <4>1. PICK t : t = call[d] /\ t = call'[d]
        BY <1>2
      <4>2. InBalance(g, w, t) /\ BalanceRow(w) \notin touches[c]
        <5>1. BalanceRow(w) \in touches[d] /\ touches[d] \intersect touches[c] = {}
          BY <1>2, <1>4, <3>3
        <5>2. InBalance(g, w, call[d])
          BY <2>2, <5>1 DEF StkHolds, Balances
        <5> QED BY <4>1, <5>1, <5>2
      <4>3. InBalance(h, w, t)'
        BY <3>1, <4>2, InBalanceStays
      <4> QED BY <4>1, <4>3 DEF InBalance, OwesOnHand, OwesMoved, OwesLayers
    <3>4. ASSUME \A d \in Call : BalanceRow(w) \notin touches'[d] PROVE InBalance(h, w, Idle)'
      <4>1. CASE BalanceRow(w) \in touches[c]
        <5>1. next = Idle
          BY <3>4, <4>1
        <5> QED BY <3>2, <4>1, <5>1
      <4>2. CASE BalanceRow(w) \notin touches[c]
        <5>1. \A d \in Call : BalanceRow(w) \notin touches[d]
          BY <1>2, <3>4, <4>2
        <5>2. InBalance(g, w, Idle)
          BY <2>2, <5>1 DEF StkHolds, Balances
        <5> QED BY <3>1, <4>2, <5>2, InBalanceStays
      <4> QED BY <4>1, <4>2
    <3> QED BY <3>2, <3>3, <3>4
  <2>6. ASSUME ~ torn'
        PROVE  /\ \A d \in Call : SalesRow \in touches'[d] => Shipping(h, call[d])'
               /\ (\A d \in Call : SalesRow \notin touches'[d]) => Shipping(h, Idle)'
    <3>1. ~ torn
      BY <2>6 DEF StkGrown
    <3>2. SalesRow \in touches[c] \union touches'[c] => Shipping(h, next)' /\ Shipping(h, call[c])'
      BY <2>3, <2>6 DEF StkOwn, Shipping
    <3>3. SalesRow \notin touches[c] => h = g /\ salesOrder'.shipped = salesOrder.shipped
      BY <2>3 DEF StkOwn
    <3>4. ASSUME NEW d \in Call \ {c}, SalesRow \in touches'[d] PROVE Shipping(h, call[d])'
      <4>1. Shipping(g, call[d]) /\ SalesRow \notin touches[c] /\ call'[d] = call[d]
        BY <1>2, <1>4, <2>2, <3>1, <3>4 DEF StkHolds, Shipments
      <4> QED BY <3>3, <4>1 DEF Shipping
    <3>5. ASSUME \A d \in Call : SalesRow \notin touches'[d] PROVE Shipping(h, Idle)'
      <4>1. CASE SalesRow \in touches[c]
        <5>1. next = Idle
          BY <3>5, <4>1
        <5> QED BY <3>2, <4>1, <5>1
      <4>2. CASE SalesRow \notin touches[c]
        <5>1. \A d \in Call : SalesRow \notin touches[d]
          BY <1>2, <3>5, <4>2
        <5>2. Shipping(g, Idle)
          BY <2>2, <3>1, <5>1 DEF StkHolds, Shipments
        <5> QED BY <3>3, <4>2, <5>2 DEF Shipping
      <4> QED BY <4>1, <4>2
    <3> QED BY <3>2, <3>4, <3>5
  <2> QED BY <2>4, <2>5, <2>6 DEF StkHolds, Balances, Shipments
<1> QED BY <1>3, <1>4 DEF StkKept

\* A request goes on, or ends.
StkGoes(c, next) ==
  \/ next # Idle /\ \E R : R # {} /\ StkRows(next, R) /\ Arrive(c, R, next)
  \/ next # Idle /\ call[c] # Idle /\ StkRows(next, touches[c]) /\ Await(c, next)
  \/ next = Idle /\ (Answer(c) \/ Perish(c))

LEMMA StkMoves ==
  ASSUME StkTyped, NEW c \in Call, NEW next \in StkCall, StkGoes(c, next)
  PROVE  /\ Apart' /\ Moved(c) /\ call'[c] = next /\ StkRows(next, touches'[c])
         /\ Perish(c) => ~ Undisturbed'
         /\ next # Idle => touches[c] \subseteq touches'[c]
<1>1. Apart /\ (next = Idle <=> next.pc = "idle")
  BY StkForms DEF StkTyped
<1>2. CASE next # Idle /\ \E R : R # {} /\ StkRows(next, R) /\ Arrive(c, R, next)
  <2>1. PICK R : R # {} /\ StkRows(next, R) /\ Arrive(c, R, next)
    BY <1>2
  <2>2. ~ Perish(c) /\ touches[c] = {}
    BY <1>1, <2>1 DEF Arrive, Perish, Apart
  <2> QED BY <1>1, <1>2, <2>1, <2>2, Arriving
<1>3. CASE next # Idle /\ call[c] # Idle /\ StkRows(next, touches[c]) /\ Await(c, next)
  <2>1. ~ Perish(c)
    BY <1>1, <1>3 DEF Await, Perish, Apart
  <2> QED BY <1>1, <1>3, <2>1, Awaiting
<1>4. StkRows(Idle, {})
  BY DEF StkRows, Idle, Puts, Takes, Ships
<1>5. CASE next = Idle /\ Answer(c)
  <2>1. ~ Perish(c)
    BY <1>1, <1>5 DEF Answer, Perish, Apart
  <2> QED BY <1>1, <1>4, <1>5, <2>1, Answering
<1>6. CASE next = Idle /\ Perish(c)
  BY <1>1, <1>4, <1>6, Perishing
<1> QED BY <1>2, <1>3, <1>5, <1>6 DEF StkGoes

\* How request c stands before it makes its step.
LEMMA StkBefore ==
  ASSUME StkTyped, NEW c \in Call, NEW next \in StkCall, StkGoes(c, next), Undisturbed', NEW g, StkHolds(g)
  PROVE  /\ StkHeld(call[c])
         /\ \A w \in Warehouse : BalanceRow(w) \in touches[c] \union touches'[c] => InBalance(g, w, call[c])
         /\ ~ torn /\ SalesRow \in touches[c] \union touches'[c] => Shipping(g, call[c])
<1>1. Apart /\ Moved(c)
  BY StkMoves DEF StkTyped
<1>2. ASSUME touches'[c] # touches[c], next # Idle PROVE call[c] = Idle
  <2>1. CASE Await(c, next)
    BY <1>2, <2>1 DEF Await
  <2> QED BY <1>2, <2>1 DEF StkGoes, Arrive
<1>3. next = Idle => touches'[c] = {}
  <2>1. ASSUME next = Idle PROVE touches'[c] = {}
    <3>1. Answer(c) \/ Perish(c)
      BY <2>1 DEF StkGoes
    <3> QED BY <1>1, <3>1, Answering, Perishing
  <2> QED BY <2>1
<1>4. \A x : x \notin touches[c] /\ x \in touches'[c] => call[c] = Idle /\ \A d \in Call : x \notin touches[d]
  <2> SUFFICES ASSUME NEW x, x \notin touches[c], x \in touches'[c] PROVE call[c] = Idle /\ \A d \in Call : x \notin touches[d]
    OBVIOUS
  <2>1. \A d \in Call \ {c} : x \notin touches[d]
    BY <1>1 DEF Moved, Undisturbed
  <2> QED BY <1>2, <1>3, <2>1
<1>5. ASSUME NEW w \in Warehouse, BalanceRow(w) \in touches[c] \union touches'[c] PROVE InBalance(g, w, call[c])
  <2>1. CASE BalanceRow(w) \in touches[c]
    BY <2>1 DEF StkHolds, Balances
  <2>2. CASE BalanceRow(w) \notin touches[c]
    <3>1. call[c] = Idle /\ \A d \in Call : BalanceRow(w) \notin touches[d]
      BY <1>4, <1>5, <2>2
    <3>2. InBalance(g, w, Idle)
      BY <3>1 DEF StkHolds, Balances
    <3> QED BY <3>1, <3>2
  <2> QED BY <2>1, <2>2
<1>6. ASSUME ~ torn, SalesRow \in touches[c] \union touches'[c] PROVE Shipping(g, call[c])
  <2>1. CASE SalesRow \in touches[c]
    BY <1>6, <2>1 DEF StkHolds, Shipments
  <2>2. CASE SalesRow \notin touches[c]
    <3>1. call[c] = Idle /\ \A d \in Call : SalesRow \notin touches[d]
      BY <1>4, <1>6, <2>2
    <3>2. Shipping(g, Idle)
      BY <1>6, <3>1 DEF StkHolds, Shipments
    <3> QED BY <3>1, <3>2
  <2> QED BY <2>1, <2>2
<1> QED BY <1>5, <1>6 DEF StkHolds

\* What the request's new state has to stand for when nothing else changes.
StkSame(c, next, g) ==
  /\ StkHeld(next)
  /\ \A w \in Warehouse : InBalance(g, w, call[c]) /\ BalanceRow(w) \in touches[c] \union touches'[c] => InBalance(g, w, next)
  /\ Shipping(g, call[c]) => Shipping(g, next)

LEMMA StkShifts ==
  ASSUME StkKept, NEW c \in Call, UNCHANGED <<onHand, moved, layers, adjustments, salesOrder, torn>>,
         StkLayered', layered' => layered,
         NEW next \in StkCall, StkGoes(c, next), StkKnown(next)',
         Perish(c) \/ \A g \in [Warehouse -> Nat] : Undisturbed /\ Undisturbed' /\ StkHolds(g) => StkSame(c, next, g)
  PROVE  StkKept'
<1>1. /\ onHand' = onHand /\ moved' = moved /\ layers' = layers /\ adjustments' = adjustments
      /\ salesOrder' = salesOrder /\ torn' = torn /\ StkTyped
  BY DEF StkKept
<1>2. /\ Apart' /\ Moved(c) /\ call'[c] = next /\ StkRows(next, touches'[c]) /\ (Perish(c) => ~ Undisturbed')
      /\ next # Idle => touches[c] \subseteq touches'[c]
  BY <1>1, StkMoves
<1>3. StkGrown /\ \A w \in Warehouse : WarehouseAlone(w)
  BY <1>1 DEF StkGrown, WarehouseAlone, Adjusted
<1>4. ASSUME NEW g \in [Warehouse -> Nat], Undisturbed', Undisturbed, StkHolds(g)
      PROVE  StkOwn(c, next, g, g)
  <2>1. /\ \A w \in Warehouse : BalanceRow(w) \in touches[c] \union touches'[c] => InBalance(g, w, call[c])
        /\ ~ torn /\ SalesRow \in touches[c] \union touches'[c] => Shipping(g, call[c])
    BY <1>1, <1>4, StkBefore
  <2>2. StkSame(c, next, g)
    BY <1>2, <1>4
  <2>3. StkHeld(next)'
    BY <1>1, <2>2 DEF StkSame, StkHeld, Has, InAll
  <2>4. ASSUME NEW w \in Warehouse, BalanceRow(w) \in touches[c] \union touches'[c] PROVE InBalance(g, w, next)'
    <3>1. InBalance(g, w, next)
      BY <2>1, <2>2, <2>4 DEF StkSame
    <3> QED BY <1>3, <3>1, InBalanceStays
  <2>5. ~ torn' /\ SalesRow \in touches[c] \union touches'[c] => Shipping(g, next)'
    BY <1>1, <2>1, <2>2 DEF StkSame, Shipping
  <2> QED BY <2>3, <2>4, <2>5 DEF StkOwn
<1>5. \A g \in [Warehouse -> Nat] : Undisturbed' /\ Undisturbed /\ StkHolds(g) => \E h \in [Warehouse -> Nat] : StkOwn(c, next, g, h)
  BY <1>4
<1>6. /\ onHand \in [Warehouse -> Int] /\ moved \in [Warehouse -> Int] /\ layers \in Seq(Layer) /\ adjustments \in Seq(Adjustment)
      /\ salesOrder \in [status : {"DRAFT", "CONFIRMED", "COMPLETED", "CANCELLED", "SHIPPED"}, shipped : Shipment]
      /\ torn \in BOOLEAN
  BY <1>1 DEF StkTyped
<1> QED BY <1>1, <1>2, <1>3, <1>5, <1>6, StkFrame

LEMMA StkStill ==
  ASSUME StkKept, NEW c \in Call, UNCHANGED <<fifo, onHand, moved, layers, adjustments, salesOrder, layered, torn>>,
         NEW next \in StkCall, StkGoes(c, next), StkKnown(next),
         Perish(c) \/ \A g \in [Warehouse -> Nat] : Undisturbed /\ Undisturbed' /\ StkHolds(g) => StkSame(c, next, g)
  PROVE  StkKept'
<1>1. StkLayered' /\ (layered' => layered)
  BY DEF StkKept, StkTyped, StkLayered
<1>2. StkKnown(next)'
  BY DEF StkKnown, Has
<1> QED BY <1>1, <1>2, StkShifts

LEMMA OrderedFinite == IsFiniteSet(DOMAIN Ordered)
<1>1. DOMAIN Ordered = 1 .. Len(Ordered) /\ Len(Ordered) \in Nat
  BY StockAssumption
<1> QED BY <1>1, SegmentFinite

-----------------------------------------------------------------------------
(* Steps that only change what the request holds                             *)

\* The places a receipt and a transfer write.
LEMMA PlacesOf ==
  ASSUME NEW l, l = <<"layer">> \/ l = <<>>, NEW s, s = <<"balance", "ledger">> \o l \/ s = <<"balance">> \o l \o <<"ledger">>
  PROVE  /\ s \in Seq(Place) /\ s # <<>> /\ \A i, j \in DOMAIN s : s[i] = s[j] => i = j
         /\ Has(s, "balance") /\ Has(s, "ledger") /\ (Has(s, "layer") <=> l # <<>>)
<1>1. CASE l = <<"layer">> /\ s = <<"balance", "ledger">> \o l
  <2>1. l = <<"layer">>
    BY <1>1
  <2>2. s \in Seq(Place)
    BY <1>1, <2>1 DEF Place
  <2>3. Len(s) = 3
    BY <1>1, <2>1
  <2>4. s[1] = "balance" /\ s[2] = "ledger" /\ s[3] = "layer"
    BY <1>1, <2>1, <2>3
  <2>5. DOMAIN s = 1 .. 3
    BY <2>2, <2>3
  <2>6. \A i \in DOMAIN s : i = 1 \/ i = 2 \/ i = 3
    BY <2>5
  <2> QED BY <1>1, <2>2, <2>3, <2>4, <2>5, <2>6 DEF Has
<1>2. CASE l = <<"layer">> /\ s = <<"balance">> \o l \o <<"ledger">>
  <2>1. l = <<"layer">>
    BY <1>2
  <2>2. s \in Seq(Place)
    BY <1>2, <2>1 DEF Place
  <2>3. Len(s) = 3
    BY <1>2, <2>1
  <2>4. s[1] = "balance" /\ s[2] = "layer" /\ s[3] = "ledger"
    BY <1>2, <2>1, <2>3
  <2>5. DOMAIN s = 1 .. 3
    BY <2>2, <2>3
  <2>6. \A i \in DOMAIN s : i = 1 \/ i = 2 \/ i = 3
    BY <2>5
  <2> QED BY <1>2, <2>2, <2>3, <2>4, <2>5, <2>6 DEF Has
<1>3. CASE l = <<>> /\ s = <<"balance", "ledger">> \o l
  <2>1. l = <<>>
    BY <1>3
  <2>2. s \in Seq(Place)
    BY <1>3, <2>1 DEF Place
  <2>3. Len(s) = 2
    BY <1>3, <2>1
  <2>4. s[1] = "balance" /\ s[2] = "ledger"
    BY <1>3, <2>1, <2>3
  <2>5. DOMAIN s = 1 .. 2
    BY <2>2, <2>3
  <2>6. \A i \in DOMAIN s : i = 1 \/ i = 2
    BY <2>5
  <2> QED BY <1>3, <2>2, <2>3, <2>4, <2>5, <2>6 DEF Has
<1>4. CASE l = <<>> /\ s = <<"balance">> \o l \o <<"ledger">>
  <2>1. l = <<>>
    BY <1>4
  <2>2. s \in Seq(Place)
    BY <1>4, <2>1 DEF Place
  <2>3. Len(s) = 2
    BY <1>4, <2>1
  <2>4. s[1] = "balance" /\ s[2] = "ledger"
    BY <1>4, <2>1, <2>3
  <2>5. DOMAIN s = 1 .. 2
    BY <2>2, <2>3
  <2>6. \A i \in DOMAIN s : i = 1 \/ i = 2
    BY <2>5
  <2> QED BY <1>4, <2>2, <2>3, <2>4, <2>5, <2>6 DEF Has
<1> QED BY <1>1, <1>2, <1>3, <1>4

LEMMA LayeredIs ==
  ASSUME NEW isFifo \in BOOLEAN
  PROVE  /\ Layered(isFifo) = <<"layer">> \/ Layered(isFifo) = <<>>
         /\ isFifo => Layered(isFifo) # <<>>
<1>1. CASE isFifo = TRUE
  <2>1. Layered(isFifo) = <<"layer">>
    BY <1>1, Zenon DEF Layered
  <2>2. <<"layer">> # <<>>
    OBVIOUS
  <2> QED BY <2>1, <2>2
<1>2. CASE isFifo = FALSE
  <2>1. Layered(isFifo) = <<>>
    BY <1>2, Zenon DEF Layered
  <2> QED BY <1>2, <2>1
<1> QED BY <1>1, <1>2

LEMMA MovesOn ==
  ASSUME StkLayered, fifo' = fifo, layers' = layers, NEW n \in Int, layered' = (layered /\ n >= 0)
  PROVE  StkLayered' /\ (layered' => layered /\ fifo /\ n \in Nat)
<1>1. CASE n >= 0
  <2>1. layered' = layered
    BY <1>1, Zenon DEF StkLayered
  <2>2. n \in Nat
    BY <1>1
  <2> QED BY <2>1, <2>2 DEF StkLayered
<1>2. CASE ~ (n >= 0)
  <2>1. layered' = FALSE
    BY <1>2, Zenon
  <2> QED BY <2>1 DEF StkLayered
<1> QED BY <1>1, <1>2

LEMMA BeginReceiveKeeps ==
  ASSUME StkKept, NEW c \in Call, NEW w \in Warehouse, NEW n \in Int, BeginReceive(c, w, n)
  PROVE  StkKept'
<1>0. PICK l : l = Layered(fifo) /\ (l = <<"layer">> \/ l = <<>>) /\ (fifo => l # <<>>)
  BY LayeredIs DEF StkKept, StkTyped, StkLayered
<1>1. PICK s : s = <<"balance", "ledger">> \o l
  OBVIOUS
<1>2. /\ s \in Seq(Place) /\ s # <<>> /\ \A i, j \in DOMAIN s : s[i] = s[j] => i = j
      /\ Has(s, "balance") /\ Has(s, "ledger") /\ (Has(s, "layer") <=> l # <<>>)
  BY <1>0, <1>1, PlacesOf
<1>3. PICK next : next = [pc |-> "reading", to |-> w, n |-> n, places |-> s, adj |-> 0]
  OBVIOUS
<1>4. next \in StkCall /\ next # Idle /\ StkRows(next, {BalanceRow(w)})
  BY <1>2, <1>3 DEF StkCall, StkRows, Puts, Takes, Ships, Idle
<1>5. Arrive(c, {BalanceRow(w)}, next) /\ UNCHANGED <<fifo, onHand, moved, layers, adjustments, salesOrder, torn>> /\ layered' = (layered /\ n >= 0)
  BY <1>0, <1>1, <1>3 DEF BeginReceive, BeginMoving, Putting
<1>8. StkKnown(next)' /\ StkLayered' /\ (layered' => layered)
  <2>1. StkLayered' /\ (layered' => layered /\ n \in Nat)
    BY <1>5, MovesOn DEF StkKept, StkTyped
  <2>2. /\ next.pc = "reading" /\ next.n = n /\ next.places = s /\ next.adj = 0
    BY <1>3
  <2>3. StkKnown(next)'
    BY <1>2, <2>1, <2>2 DEF StkKnown, Has, Puts, Takes
  <2> QED BY <2>1, <2>3
<1>6. StkGoes(c, next) /\ call[c] = Idle
  BY <1>4, <1>5 DEF StkGoes, Arrive
<1>7. ASSUME NEW g \in [Warehouse -> Nat] PROVE StkSame(c, next, g)
  <2>1. StkHeld(next)
    BY <1>3 DEF StkHeld, Ships
  <2>2. ASSUME NEW v \in Warehouse, InBalance(g, v, Idle) PROVE InBalance(g, v, next)
    <3>1. /\ OwesOnHand(Idle, v) = 0 /\ OwesMoved(Idle, v) = 0 /\ OwesLayers(Idle, v) = 0
      BY DEF Idle, OwesOnHand, OwesMoved, OwesLayers, Puts
    <3>2. PICK k \in Int : k = IF v = w THEN n ELSE 0
      OBVIOUS
    <3>3. OwesOnHand(next, v) = k /\ OwesMoved(next, v) = k /\ (layered => OwesLayers(next, v) = k)
      <4>1. layered => fifo
        BY DEF StkKept, StkTyped, StkLayered
      <4> QED BY <1>0, <1>2, <1>3, <3>2, <4>1 DEF OwesOnHand, OwesMoved, OwesLayers, Puts
    <3>4. onHand[v] \in Int /\ moved[v] \in Int /\ g[v] \in Int /\ LayersAt(v) \in Int
      BY StkTerms, LayersSum DEF StkKept
    <3> QED BY <2>2, <3>1, <3>3, <3>4 DEF InBalance
  <2>3. Shipping(g, Idle) => Shipping(g, next)
    BY <1>3 DEF Shipping, Idle
  <2> QED BY <1>6, <2>1, <2>2, <2>3 DEF StkSame
<1> QED BY <1>4, <1>5, <1>6, <1>7, <1>8, StkShifts

LEMMA ReadOnHandKeeps ==
  ASSUME StkKept, NEW c \in Call, ReadOnHand(c)
  PROVE  StkKept'
<1>1. PICK t : t = call[c]
  OBVIOUS
<1>2. /\ t \in StkCall /\ t.pc = "reading" /\ StkKnown(t) /\ StkRows(t, touches[c])
      /\ UNCHANGED <<fifo, onHand, moved, layers, adjustments, salesOrder, layered, torn>>
  BY <1>1 DEF StkKept, StkTyped, ReadOnHand, At, stockVars
<1>3. t \in [pc : {"reading"}, to : Warehouse, n : Int, places : Seq(Place), adj : Nat]
  BY <1>2 DEF StkCall, Idle
<1>4. PICK next : next = [pc |-> "putting", to |-> t.to, n |-> t.n, places |-> t.places, adj |-> t.adj, seen |-> onHand[t.to]]
  OBVIOUS
<1>5. next \in StkCall /\ next # Idle
  <2>1. onHand[t.to] \in Int
    BY <1>3, StkTerms DEF StkKept
  <2> QED BY <1>3, <1>4, <2>1 DEF StkCall, Idle
<1>6. StkKnown(next) /\ StkRows(next, touches[c])
  BY <1>2, <1>3, <1>4 DEF StkKnown, StkRows, Puts, Takes, Ships
<1>7. Await(c, next) /\ StkGoes(c, next)
  BY <1>1, <1>2, <1>4, <1>5, <1>6 DEF ReadOnHand, StkGoes, Idle
<1>8. ASSUME NEW g \in [Warehouse -> Nat] PROVE StkSame(c, next, g)
  <2>1. StkHeld(next)
    BY <1>4 DEF StkHeld, Ships
  <2>2. \A v : OwesOnHand(next, v) = OwesOnHand(t, v) /\ OwesMoved(next, v) = OwesMoved(t, v) /\ OwesLayers(next, v) = OwesLayers(t, v)
    BY <1>2, <1>4 DEF OwesOnHand, OwesMoved, OwesLayers, Puts
  <2> QED BY <1>1, <1>2, <1>4, <2>1, <2>2 DEF StkSame, InBalance, Shipping
<1> QED BY <1>2, <1>5, <1>6, <1>7, <1>8, StkStill

LEMMA BeginTakeKeeps ==
  ASSUME StkKept, NEW c \in Call, NEW w \in Warehouse, NEW n \in Int, NEW to \in Target, BeginTake(c, w, n, to)
  PROVE  StkKept'
<1>1. PICK R : R = {BalanceRow(w)} \union (IF to = Nowhere THEN {} ELSE {BalanceRow(to)})
  OBVIOUS
<1>2. PICK next : next = [pc |-> IF fifo THEN "listing" ELSE "taking", from |-> w, n |-> n, to |-> to, seen |-> onHand[w], isFifo |-> fifo]
  OBVIOUS
<1>3. next \in StkCall /\ next # Idle /\ StkRows(next, R)
  <2>1. onHand[w] \in Int /\ fifo \in BOOLEAN
    BY StkTerms DEF StkKept, StkTyped, StkLayered
  <2> QED BY <1>1, <1>2, <2>1 DEF StkCall, StkRows, Puts, Takes, Ships, Idle
<1>4. /\ Arrive(c, R, next) /\ UNCHANGED <<fifo, onHand, moved, layers, adjustments, salesOrder, torn>> /\ n <= onHand[w]
      /\ layered' = (layered /\ n >= 0)
  <2>1. onHand[w] \in Int
    BY StkTerms DEF StkKept
  <2> QED BY <1>1, <1>2, <2>1 DEF BeginTake, BeginMoving
<1>7. StkKnown(next)' /\ StkLayered' /\ (layered' => layered)
  <2>1. StkLayered' /\ (layered' => layered /\ fifo /\ n \in Nat)
    BY <1>4, MovesOn DEF StkKept, StkTyped
  <2>2. next.pc \in {"listing", "taking"} /\ next.n = n /\ next.isFifo = fifo
    BY <1>2
  <2>3. StkKnown(next)'
    BY <2>1, <2>2 DEF StkKnown, Puts, Takes
  <2> QED BY <2>1, <2>3
<1>5. StkGoes(c, next) /\ call[c] = Idle
  BY <1>1, <1>3, <1>4 DEF StkGoes, Arrive
<1>6. ASSUME NEW g \in [Warehouse -> Nat] PROVE StkSame(c, next, g)
  <2>1. StkHeld(next)
    BY <1>2, <1>4 DEF StkHeld, Ships
  <2>2. \A v : OwesOnHand(next, v) = 0 /\ OwesMoved(next, v) = 0 /\ (layered => OwesLayers(next, v) = 0)
    <3>1. layered => fifo
      BY DEF StkKept, StkTyped, StkLayered
    <3> QED BY <1>2, <3>1 DEF OwesOnHand, OwesMoved, OwesLayers, Puts
  <2>3. \A v : OwesOnHand(Idle, v) = 0 /\ OwesMoved(Idle, v) = 0 /\ OwesLayers(Idle, v) = 0
    BY DEF Idle, OwesOnHand, OwesMoved, OwesLayers, Puts
  <2>4. Shipping(g, Idle) => Shipping(g, next)
    BY <1>2 DEF Shipping, Idle
  <2> QED BY <1>5, <2>1, <2>2, <2>3, <2>4 DEF StkSame, InBalance
<1> QED BY <1>3, <1>4, <1>5, <1>6, <1>7, StkShifts

LEMMA ListLayersKeeps ==
  ASSUME StkKept, NEW c \in Call, ListLayers(c)
  PROVE  StkKept'
<1>1. PICK t : t = call[c]
  OBVIOUS
<1>2. /\ t \in StkCall /\ t.pc = "listing" /\ StkKnown(t) /\ StkRows(t, touches[c])
      /\ UNCHANGED <<fifo, onHand, moved, layers, adjustments, salesOrder, layered, torn>>
  BY <1>1 DEF StkKept, StkTyped, ListLayers, At, stockVars
<1>3. t \in [pc : {"listing", "taking", "leaving"}, from : Warehouse, n : Int, to : Target, seen : Int, isFifo : BOOLEAN]
  BY <1>2 DEF StkCall, Idle
<1>0. PICK T : T = {<<i, layers[i].left>> : i \in {j \in DOMAIN layers : layers[j].at = call[c].from /\ layers[j].left # 0}}
  OBVIOUS
<1>4. T = {<<i, layers[i].left>> : i \in {j \in DOMAIN layers : layers[j].at = t.from /\ layers[j].left # 0}}
  BY <1>0, <1>1
<1>5. PICK next : next = [pc |-> "consuming", from |-> t.from, n |-> t.n, to |-> t.to, seen |-> t.seen, need |-> t.n, todo |-> T]
  OBVIOUS
<1>6. T \in SUBSET (Nat \X Int) /\ \A l \in T : l[1] \in DOMAIN layers /\ layers[l[1]].at = t.from /\ layers[l[1]].left = l[2]
  <2> SUFFICES ASSUME NEW l \in T
               PROVE  l \in Nat \X Int /\ l[1] \in DOMAIN layers /\ layers[l[1]].at = t.from /\ layers[l[1]].left = l[2]
    OBVIOUS
  <2>1. PICK i \in DOMAIN layers : l = <<i, layers[i].left>> /\ layers[i].at = t.from
    BY <1>4
  <2>2. i \in Nat /\ layers[i].left \in Int
    BY StkTerms DEF StkKept
  <2> QED BY <2>1, <2>2
<1>7. next \in StkCall /\ next # Idle
  BY <1>3, <1>5, <1>6 DEF StkCall, Idle
<1>8. StkKnown(next) /\ StkRows(next, touches[c])
  <2>1. layered => t.n \in Nat /\ \A l \in T : l[2] \in Nat
    BY <1>2, <1>6 DEF StkKept, StkTyped, StkLayered, StkKnown, Takes
  <2> QED BY <1>2, <1>3, <1>5, <2>1 DEF StkKnown, StkRows, Puts, Takes, Ships
<1>9. Await(c, next) /\ StkGoes(c, next)
  <2>1. next = [pc |-> "consuming", from |-> call[c].from, n |-> call[c].n, to |-> call[c].to, seen |-> call[c].seen,
                need |-> call[c].n, todo |-> T]
    BY <1>1, <1>5
  <2>2. Await(c, next)
    BY <1>0, <2>1 DEF ListLayers
  <2> QED BY <1>1, <1>2, <1>7, <1>8, <2>2 DEF StkGoes, Idle
<1>10. ASSUME NEW g \in [Warehouse -> Nat], StkHolds(g) PROVE StkSame(c, next, g)
  <2>1. t.seen = onHand[t.from] /\ t.n <= t.seen
    BY <1>1, <1>2, <1>10 DEF StkHolds, StkHeld
  <2>2. StkHeld(next)
    BY <1>3, <1>4, <1>5, <1>6, <2>1 DEF StkHeld, Ships
  <2>3. \A v : OwesOnHand(next, v) = OwesOnHand(t, v) /\ OwesMoved(next, v) = OwesMoved(t, v) /\ OwesLayers(next, v) = OwesLayers(t, v)
    BY <1>2, <1>3, <1>5 DEF OwesOnHand, OwesMoved, OwesLayers, Puts
  <2> QED BY <1>1, <1>2, <1>5, <2>2, <2>3 DEF StkSame, InBalance, Shipping
<1> QED BY <1>2, <1>7, <1>8, <1>9, <1>10, StkStill

\* What the layers of a warehouse come to is enough for an issue it has the balance for:
\* consumeFifoLayers refuses only when an adjustment was posted, quantities below zero
\* were moved, the method was changed, or requests overlapped.
LEMMA LayersShortKeeps ==
  ASSUME StkKept, NEW c \in Call, LayersShort(c)
  PROVE  StkKept'
<1>1. PICK t : t = call[c]
  OBVIOUS
<1>2. /\ t \in StkCall /\ t.pc = "consuming" /\ StkKnown(t) /\ StkRows(t, touches[c]) /\ t.need > 0 /\ t.todo = {} /\ Answer(c)
      /\ UNCHANGED <<fifo, onHand, moved, layers, adjustments, salesOrder, layered, torn>>
  BY <1>1 DEF StkKept, StkTyped, LayersShort, At, stockVars
<1>3. t \in [pc : {"consuming"}, from : Warehouse, n : Int, to : Target, seen : Int, need : Int, todo : SUBSET (Nat \X Int)]
  BY <1>2 DEF StkCall, Idle
<1>4. Idle \in StkCall /\ StkGoes(c, Idle) /\ StkKnown(Idle)
  BY <1>2 DEF StkCall, StkGoes, StkKnown, Idle, Puts, Takes
<1>5. ASSUME NEW g \in [Warehouse -> Nat], StkHolds(g) PROVE StkSame(c, Idle, g)
  <2>1. StkHeld(t)
    BY <1>1, <1>5 DEF StkHolds
  <2>2. t.seen = onHand[t.from] /\ t.n <= t.seen /\ \A i \in DOMAIN layers : layers[i].at = t.from => layers[i].left = 0
    BY <1>2, <2>1 DEF StkHeld
  <2>3. LayersAt(t.from) = 0
    <3>1. \A i \in LayersOf(t.from) : layers[i].left = 0
      BY <2>2, StkTerms DEF LayersOf, StkKept
    <3> QED BY <3>1, LayersSum DEF StkKept
  <2>4. ASSUME NEW v \in Warehouse, InBalance(g, v, t) PROVE InBalance(g, v, Idle)
    <3>1. OwesOnHand(Idle, v) = 0 /\ OwesMoved(Idle, v) = 0 /\ OwesLayers(Idle, v) = 0
      BY DEF Idle, OwesOnHand, OwesMoved, OwesLayers, Puts
    <3>2. OwesOnHand(t, v) = 0 /\ OwesMoved(t, v) = 0 /\ OwesLayers(t, v) = IF v = t.from THEN t.n - t.need ELSE 0
      BY <1>2 DEF OwesOnHand, OwesMoved, OwesLayers, Puts
    <3>3. onHand[v] \in Int /\ moved[v] \in Int /\ g[v] \in Nat
      BY StkTerms DEF StkKept
    <3>4. layered /\ ~ Adjusted => v # t.from
      <4>1. ASSUME layered, ~ Adjusted, v = t.from PROVE FALSE
        <5>1. 0 + (t.n - t.need) = moved[v] + 0 /\ onHand[v] + 0 = moved[v] + 0 - g[v] /\ t.n <= onHand[v]
          BY <2>2, <2>3, <2>4, <3>2, <4>1 DEF InBalance
        <5> QED BY <1>2, <1>3, <3>3, <5>1
      <4> QED BY <4>1
    <3> QED BY <2>4, <3>1, <3>2, <3>4 DEF InBalance
  <2>5. StkHeld(Idle)
    BY DEF StkHeld, Idle, Ships
  <2>6. Shipping(g, t) => Shipping(g, Idle)
    BY <1>2 DEF Shipping, Idle
  <2> QED BY <1>1, <2>4, <2>5, <2>6 DEF StkSame
<1> QED BY <1>2, <1>4, <1>5, StkStill

LEMMA BeginAdjustKeeps ==
  ASSUME StkKept, NEW c \in Call, NEW a \in DOMAIN adjustments, BeginAdjust(c, a)
  PROVE  StkKept'
<1>1. PICK w \in Warehouse, n \in Int : w = adjustments[a].at /\ n = adjustments[a].n
  BY StkTerms DEF StkKept, Adjustment
<1>2. a \in Nat \ {0}
  BY StkTerms DEF StkKept
<1>3. PICK s : s = <<"balance", "ledger">>
  OBVIOUS
<1>4. /\ s \in Seq(Place) /\ s # <<>> /\ \A i, j \in DOMAIN s : s[i] = s[j] => i = j
      /\ Has(s, "balance") /\ Has(s, "ledger") /\ ~ Has(s, "layer")
  <2>1. s \in Seq(Place)
    BY <1>3 DEF Place
  <2> QED BY <1>3, <2>1 DEF Has
<1>5. PICK next : next = [pc |-> "reading", to |-> w, n |-> n, places |-> s, adj |-> a]
  OBVIOUS
<1>6. next \in StkCall /\ next # Idle
  BY <1>2, <1>4, <1>5 DEF StkCall, Idle
<1>7. StkKnown(next) /\ StkRows(next, {AdjustmentRow(a), BalanceRow(w)})
  BY <1>2, <1>4, <1>5 DEF StkKnown, StkRows, Puts, Takes, Ships
<1>8. Arrive(c, {AdjustmentRow(a), BalanceRow(w)}, next) /\ UNCHANGED <<fifo, onHand, moved, layers, adjustments, salesOrder, layered, torn>>
  <2>1. [Putting(adjustments[a].at, adjustments[a].n, <<"balance", "ledger">>) EXCEPT !.adj = a] = next
    BY <1>1, <1>3, <1>5 DEF Putting
  <2> QED BY <1>1, <2>1 DEF BeginAdjust, stockVars
<1>9. StkGoes(c, next) /\ call[c] = Idle
  BY <1>6, <1>7, <1>8 DEF StkGoes, Arrive
<1>10. ASSUME NEW g \in [Warehouse -> Nat] PROVE StkSame(c, next, g)
  <2>1. StkHeld(next)
    BY <1>5 DEF StkHeld, Ships
  <2>2. ASSUME NEW v \in Warehouse, InBalance(g, v, Idle) PROVE InBalance(g, v, next)
    <3>1. /\ OwesOnHand(Idle, v) = 0 /\ OwesMoved(Idle, v) = 0 /\ OwesLayers(Idle, v) = 0
      BY DEF Idle, OwesOnHand, OwesMoved, OwesLayers, Puts
    <3>2. PICK k \in Int : k = IF v = w THEN n ELSE 0
      OBVIOUS
    <3>3. OwesOnHand(next, v) = k /\ OwesMoved(next, v) = k /\ OwesLayers(next, v) = k
      BY <1>2, <1>4, <1>5, <3>2 DEF OwesOnHand, OwesMoved, OwesLayers, Puts
    <3>4. onHand[v] \in Int /\ moved[v] \in Int /\ g[v] \in Int /\ LayersAt(v) \in Int
      BY StkTerms, LayersSum DEF StkKept
    <3> QED BY <2>2, <3>1, <3>3, <3>4 DEF InBalance
  <2>3. Shipping(g, Idle) => Shipping(g, next)
    BY <1>5 DEF Shipping, Idle
  <2> QED BY <1>9, <2>1, <2>2, <2>3 DEF StkSame
<1> QED BY <1>6, <1>7, <1>8, <1>9, <1>10, StkStill

\* An update of the item changes nothing but its method, and the layers' account.
LEMMA ReadItemKeeps ==
  ASSUME StkKept, NEW c \in Call, NEW method \in BOOLEAN, ReadItemRow(c, method)
  PROVE  StkKept'
<1>1. PICK next : next = [pc |-> "editing", method |-> method]
  OBVIOUS
<1>2. next \in StkCall /\ next # Idle /\ StkKnown(next) /\ StkRows(next, {ItemRow})
  BY <1>1 DEF StkCall, StkKnown, StkRows, Puts, Takes, Ships, Idle
<1>3. Arrive(c, {ItemRow}, next) /\ UNCHANGED <<fifo, onHand, moved, layers, adjustments, salesOrder, layered, torn>>
  BY <1>1 DEF ReadItemRow
<1>4. StkGoes(c, next) /\ call[c] = Idle
  BY <1>2, <1>3 DEF StkGoes, Arrive
<1>5. ASSUME NEW g \in [Warehouse -> Nat] PROVE StkSame(c, next, g)
  <2>1. StkHeld(next)
    BY <1>1 DEF StkHeld, Ships
  <2>2. \A v : OwesOnHand(next, v) = OwesOnHand(Idle, v) /\ OwesMoved(next, v) = OwesMoved(Idle, v) /\ OwesLayers(next, v) = OwesLayers(Idle, v)
    BY <1>1 DEF Idle, OwesOnHand, OwesMoved, OwesLayers, Puts
  <2> QED BY <1>1, <1>4, <2>1, <2>2 DEF StkSame, InBalance, Shipping, Idle
<1> QED BY <1>2, <1>3, <1>4, <1>5, StkStill

LEMMA SaveItemKeeps ==
  ASSUME StkKept, NEW c \in Call, SaveItemRow(c)
  PROVE  StkKept'
<1>1. PICK t : t = call[c]
  OBVIOUS
<1>2. /\ t \in StkCall /\ t.pc = "editing" /\ Answer(c) /\ fifo' = t.method /\ layered' = (layered /\ fifo')
      /\ UNCHANGED <<onHand, moved, layers, adjustments, salesOrder, torn>>
  BY <1>1 DEF StkKept, StkTyped, SaveItemRow, At
<1>3. t.method \in BOOLEAN
  BY <1>2, StkForms
<1>4. StkLayered' /\ (layered' => layered)
  BY <1>2, <1>3 DEF StkKept, StkTyped, StkLayered
<1>5. Idle \in StkCall /\ StkGoes(c, Idle) /\ StkKnown(Idle)'
  BY <1>2 DEF StkCall, StkGoes, StkKnown, Idle, Puts, Takes
<1>6. ASSUME NEW g \in [Warehouse -> Nat] PROVE StkSame(c, Idle, g)
  <2>1. StkHeld(Idle)
    BY DEF StkHeld, Ships, Idle
  <2>2. \A v : OwesOnHand(t, v) = OwesOnHand(Idle, v) /\ OwesMoved(t, v) = OwesMoved(Idle, v) /\ OwesLayers(t, v) = OwesLayers(Idle, v)
    BY <1>2 DEF Idle, OwesOnHand, OwesMoved, OwesLayers, Puts
  <2> QED BY <1>1, <1>2, <2>1, <2>2 DEF StkSame, InBalance, Shipping, Idle
<1> QED BY <1>2, <1>4, <1>5, <1>6, StkShifts

LEMMA ReadSalesKeeps ==
  ASSUME StkKept, NEW c \in Call, NEW verb \in DOMAIN SalesFrom, ReadSales(c, verb)
  PROVE  StkKept'
<1>1. PICK next : next = [pc |-> "ordering", next |-> SalesTo[verb]]
  OBVIOUS
<1>2. SalesTo[verb] \in {"CONFIRMED", "COMPLETED", "CANCELLED"}
  BY DEF SalesFrom, SalesTo
<1>3. next \in StkCall /\ next # Idle /\ StkKnown(next) /\ StkRows(next, {SalesRow})
  BY <1>1, <1>2 DEF StkCall, StkKnown, StkRows, Puts, Takes, Ships, Idle
<1>4. Arrive(c, {SalesRow}, next) /\ UNCHANGED <<fifo, onHand, moved, layers, adjustments, salesOrder, layered, torn>>
  BY <1>1 DEF ReadSales, stockVars
<1>5. StkGoes(c, next) /\ call[c] = Idle
  BY <1>3, <1>4 DEF StkGoes, Arrive
<1>6. ASSUME NEW g \in [Warehouse -> Nat] PROVE StkSame(c, next, g)
  <2>1. StkHeld(next)
    BY <1>1 DEF StkHeld, Ships
  <2>2. \A v : OwesOnHand(next, v) = OwesOnHand(Idle, v) /\ OwesMoved(next, v) = OwesMoved(Idle, v) /\ OwesLayers(next, v) = OwesLayers(Idle, v)
    BY <1>1 DEF Idle, OwesOnHand, OwesMoved, OwesLayers, Puts
  <2> QED BY <1>1, <1>5, <2>1, <2>2 DEF StkSame, InBalance, Shipping, Idle
<1> QED BY <1>3, <1>4, <1>5, <1>6, StkStill

LEMMA BeginShipKeeps ==
  ASSUME StkKept, NEW c \in Call, NEW want \in Shipment, BeginShip(c, want)
  PROVE  StkKept'
<1>1. PICK f \in Shipment : f = salesOrder.shipped
  BY StkTerms DEF StkKept
<1>2. PICK next : next = [pc |-> "shipping", k |-> 1, want |-> want, was |-> f, lines |-> f]
  OBVIOUS
<1>3. PICK R : R = {SalesRow} \union AllBalances
  OBVIOUS
<1>4. next \in StkCall /\ next # Idle /\ StkKnown(next) /\ StkRows(next, R)
  BY <1>2, <1>3 DEF StkCall, StkKnown, StkRows, Puts, Takes, Ships, Idle
<1>5. Arrive(c, R, next) /\ UNCHANGED <<fifo, onHand, moved, layers, adjustments, salesOrder, layered, torn>>
  BY <1>1, <1>2, <1>3 DEF BeginShip, stockVars
<1>6. StkGoes(c, next) /\ call[c] = Idle
  BY <1>3, <1>4, <1>5 DEF StkGoes, Arrive
<1>7. ASSUME NEW g \in [Warehouse -> Nat] PROVE StkSame(c, next, g)
  <2>1. StkHeld(next)
    BY <1>1, <1>2 DEF StkHeld, Ships
  <2>2. \A v : OwesOnHand(next, v) = OwesOnHand(Idle, v) /\ OwesMoved(next, v) = OwesMoved(Idle, v) /\ OwesLayers(next, v) = OwesLayers(Idle, v)
    BY <1>2 DEF Idle, OwesOnHand, OwesMoved, OwesLayers, Puts
  <2> QED BY <1>1, <1>2, <1>6, <2>1, <2>2 DEF StkSame, InBalance, Shipping, Idle
<1> QED BY <1>4, <1>5, <1>6, <1>7, StkStill

LEMMA PerishInStockKeeps ==
  ASSUME StkKept, NEW c \in Call, PerishInStock(c)
  PROVE  StkKept'
<1>1. Perish(c) /\ UNCHANGED <<fifo, onHand, moved, layers, adjustments, salesOrder, layered, torn>>
  BY DEF PerishInStock, stockVars
<1>2. Idle \in StkCall /\ StkGoes(c, Idle) /\ StkKnown(Idle)
  BY <1>1 DEF StkCall, StkGoes, StkKnown, Idle, Puts, Takes
<1> QED BY <1>1, <1>2, StkStill

\* What all warehouses hold is enough for a line that issueForItem did not refuse.
LEMMA EndLineKeeps ==
  ASSUME StkKept, NEW c \in Call, EndLine(c)
  PROVE  StkKept'
<1>1. PICK t : t = call[c]
  OBVIOUS
<1>2. /\ t \in StkCall /\ t.pc = "relieving" /\ StkKnown(t) /\ StkRows(t, touches[c])
      /\ UNCHANGED <<fifo, onHand, moved, layers, adjustments, salesOrder, layered, torn>>
  BY <1>1 DEF StkKept, StkTyped, EndLine, At, stockVars
<1>3. t \in [pc : {"relieving"}, k : Nat \ {0}, want : Shipment, was : Shipment, lines : Shipment,
             seen : [Warehouse -> Int], need : Nat, todo : SUBSET Warehouse]
  BY <1>2 DEF StkCall, Idle
<1>4. PICK next : next = [pc |-> "shipping", k |-> t.k + 1, want |-> t.want, was |-> t.was, lines |-> t.lines]
  OBVIOUS
<1>5. next \in StkCall /\ next # Idle
  BY <1>3, <1>4 DEF StkCall, Idle
<1>6. StkKnown(next) /\ StkRows(next, touches[c])
  BY <1>2, <1>3, <1>4 DEF StkKnown, StkRows, Puts, Takes, Ships
<1>7. Await(c, next) /\ StkGoes(c, next)
  BY <1>1, <1>2, <1>4, <1>5, <1>6 DEF EndLine, StkGoes, Idle
<1>8. ASSUME NEW g \in [Warehouse -> Nat], StkHolds(g) PROVE StkSame(c, next, g)
  <2>1. StkHeld(t)
    BY <1>1, <1>8 DEF StkHolds
  <2>2. StkHeld(next)
    BY <1>2, <1>4, <2>1 DEF StkHeld, Ships
  <2>3. t.need = 0
    <3>1. ASSUME t.need > 0 PROVE FALSE
      <4>1. \A w \in t.todo : t.seen[w] <= 0
        BY <1>1, <1>3, <3>1 DEF EndLine
      <4>2. (\A w \in t.todo : t.seen[w] = onHand[w]) /\ t.need <= InAll(onHand) /\ \A w \in Warehouse \ t.todo : onHand[w] <= 0
        BY <1>2, <2>1, <3>1 DEF StkHeld
      <4>3. \A w \in Warehouse : onHand[w] \in Int /\ onHand[w] <= 0
        BY <4>1, <4>2, StkTerms DEF StkKept
      <4>4. DOMAIN onHand = Warehouse /\ IsFiniteSet(Warehouse)
        BY StockAssumption DEF StkKept, StkTyped
      <4>5. SumFunctionOnSet(onHand, Warehouse) <= 0 /\ SumFunctionOnSet(onHand, Warehouse) \in Int
        BY <4>3, <4>4, SumNotPositive, SumStep
      <4>6. InAll(onHand) = SumFunctionOnSet(onHand, Warehouse)
        BY <4>4 DEF InAll, SumFunction
      <4> QED BY <1>3, <3>1, <4>2, <4>5, <4>6
    <3> QED BY <1>3, <3>1
  <2>4. \A v : OwesOnHand(next, v) = OwesOnHand(t, v) /\ OwesMoved(next, v) = OwesMoved(t, v) /\ OwesLayers(next, v) = OwesLayers(t, v)
    BY <1>2, <1>4 DEF OwesOnHand, OwesMoved, OwesLayers, Puts
  <2>5. Shipping(g, t) => Shipping(g, next)
    <3>1. InAll(t.lines) \in Int
      <4>1. IsFiniteSet(DOMAIN Ordered) /\ DOMAIN t.lines = DOMAIN Ordered /\ \A k \in DOMAIN Ordered : t.lines[k] \in Int
        BY <1>3, OrderedFinite DEF Shipment
      <4> QED BY <4>1, SumStep DEF InAll, SumFunction
    <3> QED BY <1>2, <1>4, <2>3, <3>1 DEF Shipping
  <2> QED BY <1>1, <2>2, <2>4, <2>5 DEF StkSame, InBalance
<1> QED BY <1>2, <1>5, <1>6, <1>7, <1>8, StkStill

-----------------------------------------------------------------------------
(* Steps that save a row                                                     *)

\* How request c stands, and how it stands, next, after it saved a row.
StkStands(c, g) ==
  /\ StkHeld(call[c])
  /\ \A w \in Warehouse : BalanceRow(w) \in touches[c] => InBalance(g, w, call[c])
  /\ ~ torn /\ SalesRow \in touches[c] => Shipping(g, call[c])
StkGives(c, next, g, h) ==
  /\ StkHeld(next)'
  /\ \A w \in Warehouse : BalanceRow(w) \notin touches[c] => h[w] = g[w]
  /\ \A w \in Warehouse : BalanceRow(w) \in touches[c] => InBalance(h, w, next)'
  /\ SalesRow \notin touches[c] => h = g
  /\ ~ torn' /\ SalesRow \in touches[c] => Shipping(h, next)'

StkLeaves(c, next) == (next # Idle /\ call[c] # Idle /\ Await(c, next)) \/ (next = Idle /\ Answer(c))

LEMMA StkActs ==
  ASSUME StkKept, NEW c \in Call, StkGrown, NEW next \in StkCall, StkLeaves(c, next),
         onHand' \in [Warehouse -> Int], moved' \in [Warehouse -> Int], layers' \in Seq(Layer), adjustments' \in Seq(Adjustment),
         salesOrder' \in [status : {"DRAFT", "CONFIRMED", "COMPLETED", "CANCELLED", "SHIPPED"}, shipped : Shipment],
         torn' \in BOOLEAN, StkKnown(next)', StkRows(next, touches[c]),
         Undisturbed => \A w \in Warehouse : BalanceRow(w) \notin touches[c] => WarehouseAlone(w),
         SalesRow \notin touches[c] => salesOrder'.shipped = salesOrder.shipped,
         \A g \in [Warehouse -> Nat] : StkStands(c, g) => \E h \in [Warehouse -> Nat] : StkGives(c, next, g, h)
  PROVE  StkKept'
<1>1. StkTyped /\ Apart
  BY DEF StkKept, StkTyped
<1>2. StkGoes(c, next)
  BY DEF StkGoes, StkLeaves
<1>3. /\ Apart' /\ Moved(c) /\ call'[c] = next /\ StkRows(next, touches'[c])
      /\ next # Idle => touches[c] \subseteq touches'[c]
  BY <1>1, <1>2, StkMoves
<1>4. touches'[c] \subseteq touches[c]
  <2>1. CASE next # Idle /\ call[c] # Idle /\ Await(c, next)
    BY <2>1 DEF Await
  <2>2. CASE next = Idle /\ Answer(c)
    BY <1>1, <2>2, Answering
  <2> QED BY <2>1, <2>2 DEF StkLeaves
<1>5. ASSUME NEW g \in [Warehouse -> Nat], StkHolds(g) PROVE \E h \in [Warehouse -> Nat] : StkOwn(c, next, g, h)
  <2>1. StkStands(c, g)
    BY <1>5 DEF StkStands, StkHolds, Balances, Shipments
  <2>2. PICK h \in [Warehouse -> Nat] : StkGives(c, next, g, h)
    BY <2>1
  <2>3. StkOwn(c, next, g, h)
    BY <1>4, <2>2 DEF StkGives, StkOwn
  <2> QED BY <2>3
<1> QED BY <1>1, <1>3, <1>5, StkFrame

\* What request t owes nothing to.
LEMMA OwesNothing ==
  ASSUME NEW t, NEW w, t.pc \in Puts => t.to # w, t.pc \in Takes => t.from # w
  PROVE  OwesOnHand(t, w) = 0 /\ OwesMoved(t, w) = 0 /\ OwesLayers(t, w) = 0
BY DEF OwesOnHand, OwesMoved, OwesLayers, Takes

LEMMA WritePlaceKeeps ==
  ASSUME StkKept, NEW c \in Call, WritePlace(c)
  PROVE  StkKept'
<1>1. PICK t : t = call[c]
  OBVIOUS
<1>2. /\ t \in StkCall /\ t.pc = "putting" /\ StkKnown(t) /\ StkRows(t, touches[c]) /\ StkTyped /\ t.places # <<>>
      /\ fifo' = fifo /\ adjustments' = adjustments /\ salesOrder' = salesOrder /\ layered' = layered /\ torn' = torn
  BY <1>1 DEF StkKept, StkTyped, WritePlace, At
<1>3. t \in [pc : {"putting"}, to : Warehouse, n : Int, places : Seq(Place), adj : Nat, seen : Int]
  BY <1>2 DEF StkCall, Idle
<1>4. PICK w \in Warehouse, n \in Int, place \in Place, rest \in Seq(Place) :
        /\ w = t.to /\ n = t.n /\ place = Head(t.places) /\ rest = Tail(t.places)
        /\ Has(t.places, place) /\ ~ Has(rest, place) /\ (\A i, j \in DOMAIN rest : rest[i] = rest[j] => i = j)
        /\ \A p : p # place => (Has(rest, p) <=> Has(t.places, p))
  <2>1. t.places \in Seq(Place) /\ \A i, j \in DOMAIN t.places : t.places[i] = t.places[j] => i = j
    BY <1>2, <1>3 DEF StkKnown, Puts
  <2>2. PICK s : s = t.places
    OBVIOUS
  <2>3. /\ Tail(s) \in Seq(Place) /\ \A i, j \in DOMAIN Tail(s) : Tail(s)[i] = Tail(s)[j] => i = j
        /\ Head(s) \in Place /\ Has(s, Head(s)) /\ ~ Has(Tail(s), Head(s))
        /\ \A p : p # Head(s) => (Has(Tail(s), p) <=> Has(s, p))
    BY <1>2, <2>1, <2>2, PlacesLeft
  <2> QED BY <1>3, <2>2, <2>3
<1>5. /\ onHand' = IF place = "balance" THEN [onHand EXCEPT ![w] = t.seen + n] ELSE onHand
      /\ moved' = IF place = "ledger" THEN [moved EXCEPT ![w] = @ + n] ELSE moved
      /\ layers' = IF place = "layer" THEN Append(layers, [at |-> w, left |-> n]) ELSE layers
      /\ IF rest = <<>> /\ t.adj = 0 THEN Answer(c) ELSE Await(c, [t EXCEPT !.places = rest])
  BY <1>1, <1>4 DEF WritePlace
<1>6. PICK next : next = IF rest = <<>> /\ t.adj = 0 THEN Idle
                         ELSE [pc |-> "putting", to |-> w, n |-> n, places |-> rest, adj |-> t.adj, seen |-> t.seen]
  OBVIOUS
<1>7. next \in StkCall /\ (rest = <<>> /\ t.adj = 0 <=> next = Idle)
  BY <1>3, <1>6 DEF StkCall, Idle
<1>8. StkLeaves(c, next)
  <2>1. ASSUME ~ (rest = <<>> /\ t.adj = 0) PROVE [t EXCEPT !.places = rest] = next
    <3>1. next = [pc |-> "putting", to |-> w, n |-> n, places |-> rest, adj |-> t.adj, seen |-> t.seen]
      BY <1>6, <2>1
    <3>2. t.to = w /\ t.n = n
      BY <1>4
    <3> QED BY <1>3, <3>1, <3>2
  <2> QED BY <1>1, <1>2, <1>5, <1>7, <2>1 DEF StkLeaves, Idle
<1>9. place = "layer" => t.adj = 0 /\ (layered => n \in Nat)
  BY <1>2, <1>4 DEF StkKnown, Puts
<1>10. onHand' \in [Warehouse -> Int] /\ moved' \in [Warehouse -> Int]
  BY <1>2, <1>3, <1>5 DEF StkTyped
<1>11. layers' \in Seq(Layer) /\ (place # "layer" => layers' = layers)
       /\ (place = "layer" => LayersAt(w)' = LayersAt(w) + n)
       /\ (\A v \in Warehouse \ {w} : WarehouseAlone(v)) /\ StkLayered'
  <2>1. \A v \in Warehouse \ {w} : onHand'[v] = onHand[v] /\ moved'[v] = moved[v]
    BY <1>2, <1>5 DEF StkTyped
  <2>2. CASE place = "layer"
    <3>1. layers' = Append(layers, [at |-> w, left |-> n])
      BY <1>5, <1>9, <2>2
    <3>2. /\ layers' \in Seq(Layer) /\ LayersAt(w)' = LayersAt(w) + n
          /\ \A i \in DOMAIN layers : i \in DOMAIN layers' /\ layers'[i] = layers[i]
          /\ \A i \in DOMAIN layers' : layers'[i].at # w => i \in DOMAIN layers
          /\ \A i \in DOMAIN layers' : i \in DOMAIN layers \/ layers'[i].left = n
      BY <1>2, <3>1, LayersAppended
    <3>3. StkLayered'
      BY <1>2, <1>9, <2>2, <3>2 DEF StkLayered, StkTyped
    <3> QED BY <2>1, <2>2, <3>2, <3>3 DEF WarehouseAlone
  <2>3. CASE place # "layer"
    BY <1>2, <1>5, <2>1, <2>3 DEF WarehouseAlone, StkTyped, StkLayered
  <2> QED BY <2>2, <2>3
<1>12. StkKnown(next)' /\ StkRows(next, touches[c]) /\ StkGrown
  <2>1. CASE next = Idle
    <3>1. StkKnown(next)'
      BY <2>1 DEF StkKnown, Puts, Takes, Idle
    <3>2. StkRows(next, touches[c])
      BY <2>1 DEF StkRows, Puts, Takes, Ships, Idle
    <3> QED BY <1>2, <1>11, <3>1, <3>2 DEF StkGrown, Adjusted
  <2>2. CASE next # Idle
    <3>1. next = [pc |-> "putting", to |-> w, n |-> n, places |-> rest, adj |-> t.adj, seen |-> t.seen]
      BY <1>6, <2>2
    <3>2. /\ Has(rest, "layer") => t.adj = 0 /\ (layered => n \in Nat)
          /\ t.adj # 0 => t.adj \in DOMAIN adjustments
          /\ rest = <<>> => t.adj # 0
      BY <1>2, <1>4, <1>7, <2>2 DEF StkKnown, Puts
    <3>3. StkKnown(next)
      BY <1>4, <3>1, <3>2 DEF StkKnown, Puts, Takes
    <3>4. StkKnown(next)'
      BY <1>2, <3>3 DEF StkKnown, Has
    <3>5. StkRows(next, touches[c])
      BY <1>2, <1>4, <3>1 DEF StkRows, Puts, Takes, Ships
    <3> QED BY <1>2, <1>11, <3>4, <3>5 DEF StkGrown, Adjusted
  <2> QED BY <2>1, <2>2
<1>13. BalanceRow(w) \in touches[c]
  BY <1>2, <1>4 DEF StkRows, Puts
<1>14. ASSUME NEW g \in [Warehouse -> Nat], StkStands(c, g) PROVE StkGives(c, next, g, g)
  <2>1. StkHeld(t) /\ (\A v \in Warehouse : BalanceRow(v) \in touches[c] => InBalance(g, v, t))
        /\ (~ torn /\ SalesRow \in touches[c] => Shipping(g, t))
    BY <1>1, <1>14 DEF StkStands
  <2>2. Has(t.places, "balance") => t.seen = onHand[w]
    BY <1>2, <1>4, <2>1 DEF StkHeld
  <2>3. StkHeld(next)'
    <3>1. CASE next = Idle
      BY <3>1 DEF StkHeld, Ships, Idle
    <3>2. CASE next # Idle
      <4>1. next = [pc |-> "putting", to |-> w, n |-> n, places |-> rest, adj |-> t.adj, seen |-> t.seen]
        BY <1>6, <3>2
      <4>2. Has(rest, "balance") => t.seen = onHand'[w]
        BY <1>4, <1>5, <2>2
      <4> QED BY <4>1, <4>2 DEF StkHeld, Has, Ships
    <3> QED BY <3>1, <3>2
  <2>4. /\ next.pc \in {"idle", "putting"}
        /\ OwesOnHand(next, w) = (IF Has(rest, "balance") THEN n ELSE 0)
        /\ OwesMoved(next, w) = (IF Has(rest, "ledger") THEN n ELSE 0)
        /\ OwesLayers(next, w) = (IF Has(rest, "layer") \/ t.adj # 0 THEN n ELSE 0)
    <3>1. CASE next = Idle
      <4>1. \A p : ~ Has(rest, p)
        BY <1>7, <3>1 DEF Has
      <4> QED BY <1>7, <3>1, <4>1 DEF OwesOnHand, OwesMoved, OwesLayers, Puts, Idle
    <3>2. CASE next # Idle
      BY <1>6, <3>2 DEF OwesOnHand, OwesMoved, OwesLayers, Puts
    <3> QED BY <3>1, <3>2
  <2>5. /\ OwesOnHand(t, w) = (IF Has(t.places, "balance") THEN n ELSE 0)
        /\ OwesMoved(t, w) = (IF Has(t.places, "ledger") THEN n ELSE 0)
        /\ OwesLayers(t, w) = (IF Has(t.places, "layer") \/ t.adj # 0 THEN n ELSE 0)
    BY <1>2, <1>4 DEF OwesOnHand, OwesMoved, OwesLayers, Puts
  <2>6. InBalance(g, w, next)'
    <3>1. InBalance(g, w, t) /\ onHand[w] \in Int /\ moved[w] \in Int /\ g[w] \in Nat /\ LayersAt(w) \in Int
      BY <1>2, <1>13, <2>1, StkTerms, LayersSum
    <3>2. onHand'[w] = IF place = "balance" THEN onHand[w] + n ELSE onHand[w]
      BY <1>2, <1>4, <1>5, <2>2 DEF StkTyped
    <3>3. moved'[w] = IF place = "ledger" THEN moved[w] + n ELSE moved[w]
      BY <1>2, <1>5 DEF StkTyped
    <3>4. LayersAt(w)' = IF place = "layer" THEN LayersAt(w) + n ELSE LayersAt(w)
      BY <1>11 DEF LayersAt
    <3>5. onHand'[w] + OwesOnHand(next, w) = onHand[w] + OwesOnHand(t, w)
      BY <1>4, <2>4, <2>5, <3>1, <3>2
    <3>6. moved'[w] + OwesMoved(next, w) = moved[w] + OwesMoved(t, w)
      BY <1>4, <2>4, <2>5, <3>1, <3>3
    <3>7. LayersAt(w)' + OwesLayers(next, w) = LayersAt(w) + OwesLayers(t, w)
      BY <1>4, <1>9, <2>4, <2>5, <3>1, <3>4
    <3>8. /\ onHand'[w] \in Int /\ moved'[w] \in Int /\ OwesOnHand(next, w) \in Int /\ OwesMoved(next, w) \in Int
          /\ OwesOnHand(t, w) \in Int /\ OwesMoved(t, w) \in Int
      BY <1>10, <2>4, <2>5
    <3>9. /\ onHand'[w] + OwesOnHand(next, w) = moved'[w] + OwesMoved(next, w) - g[w]
          /\ layered' /\ ~ Adjusted' => LayersAt(w)' + OwesLayers(next, w) = moved'[w] + OwesMoved(next, w)
      <4>1. onHand[w] + OwesOnHand(t, w) = moved[w] + OwesMoved(t, w) - g[w]
        BY <3>1 DEF InBalance
      <4>2. layered' /\ ~ Adjusted' => layered /\ ~ Adjusted
        BY <1>2 DEF Adjusted
      <4>3. layered /\ ~ Adjusted => LayersAt(w) + OwesLayers(t, w) = moved[w] + OwesMoved(t, w)
        BY <3>1 DEF InBalance
      <4>4. PICK sum : sum = LayersAt(w)' + OwesLayers(next, w) /\ sum = LayersAt(w) + OwesLayers(t, w)
        BY <3>7
      <4>5. layered' /\ ~ Adjusted' => sum = moved'[w] + OwesMoved(next, w)
        BY <3>6, <4>2, <4>3, <4>4
      <4>6. onHand'[w] + OwesOnHand(next, w) = moved'[w] + OwesMoved(next, w) - g[w]
        <5>1. PICK a, b \in Int : a = onHand'[w] + OwesOnHand(next, w) /\ b = moved'[w] + OwesMoved(next, w)
          BY <3>8
        <5>2. a = moved[w] + OwesMoved(t, w) - g[w] /\ b = moved[w] + OwesMoved(t, w)
          BY <3>5, <3>6, <4>1, <5>1
        <5>3. a = b - g[w]
          BY <3>1, <3>8, <5>2
        <5>4. b - g[w] = moved'[w] + OwesMoved(next, w) - g[w]
          BY <3>1, <3>8, <5>1
        <5> QED BY <5>1, <5>3, <5>4
      <4> QED BY <4>4, <4>5, <4>6
    <3> QED BY <3>9 DEF InBalance, OwesOnHand, OwesMoved, OwesLayers, Has
  <2>7. ASSUME NEW v \in Warehouse \ {w}, BalanceRow(v) \in touches[c] PROVE InBalance(g, v, next)'
    <3>1. OwesOnHand(next, v) = 0 /\ OwesMoved(next, v) = 0 /\ OwesLayers(next, v) = 0
      BY <1>6, <2>4, OwesNothing DEF Idle, Puts, Takes
    <3>2. OwesOnHand(t, v) = 0 /\ OwesMoved(t, v) = 0 /\ OwesLayers(t, v) = 0
      BY <1>2, <1>4, OwesNothing DEF Puts, Takes
    <3>3. InBalance(g, v, next)
      BY <2>1, <2>7, <3>1, <3>2 DEF InBalance
    <3> QED BY <1>11, <1>12, <3>3, InBalanceStays
  <2>8. ~ torn' /\ SalesRow \in touches[c] => Shipping(g, next)'
    BY <1>2, <2>1, <2>4 DEF Shipping
  <2> QED BY <2>3, <2>6, <2>7, <2>8 DEF StkGives
<1>15. \A g \in [Warehouse -> Nat] : StkStands(c, g) => \E h \in [Warehouse -> Nat] : StkGives(c, next, g, h)
  BY <1>14
<1>16. /\ adjustments' \in Seq(Adjustment) /\ torn' \in BOOLEAN /\ salesOrder'.shipped = salesOrder.shipped
       /\ salesOrder' \in [status : {"DRAFT", "CONFIRMED", "COMPLETED", "CANCELLED", "SHIPPED"}, shipped : Shipment]
  BY <1>2 DEF StkTyped
<1>17. \A v \in Warehouse : BalanceRow(v) \notin touches[c] => WarehouseAlone(v)
  BY <1>11, <1>13
<1> QED BY <1>7, <1>8, <1>10, <1>11, <1>12, <1>15, <1>16, <1>17, StkActs

LEMMA ConsumeLayerKeeps ==
  ASSUME StkKept, NEW c \in Call, ConsumeLayer(c)
  PROVE  StkKept'
<1>1. PICK t : t = call[c]
  OBVIOUS
<1>2. /\ t \in StkCall /\ t.pc = "consuming" /\ StkKnown(t) /\ StkRows(t, touches[c]) /\ StkTyped /\ t.need > 0
      /\ fifo' = fifo /\ onHand' = onHand /\ moved' = moved /\ adjustments' = adjustments /\ salesOrder' = salesOrder /\ layered' = layered /\ torn' = torn
  BY <1>1 DEF StkKept, StkTyped, ConsumeLayer, At
<1>3. t \in [pc : {"consuming"}, from : Warehouse, n : Int, to : Target, seen : Int, need : Int, todo : SUBSET (Nat \X Int)]
  BY <1>2 DEF StkCall, Idle
<1>4. PICK l \in t.todo :
        /\ \A m \in t.todo : l[1] <= m[1]
        /\ layers' = [layers EXCEPT ![l[1]].left = l[2] - Min({t.need, l[2]})]
        /\ Await(c, [t EXCEPT !.need = @ - Min({t.need, l[2]}), !.todo = @ \ {l}])
  BY <1>1 DEF ConsumeLayer
<1>5. PICK i \in Nat, k \in Int : l = <<i, k>> /\ i = l[1] /\ k = l[2]
  BY <1>3
<1>6. PICK take \in Int : take = Min({t.need, k}) /\ take <= t.need /\ take <= k /\ (take < t.need => take = k)
  <2>1. PICK need \in Int : need = t.need
    BY <1>3
  <2>2. Min({need, k}) = IF need <= k THEN need ELSE k
    BY LesserOf
  <2> QED BY <2>1, <2>2
<1>7. PICK next : next = [pc |-> "consuming", from |-> t.from, n |-> t.n, to |-> t.to, seen |-> t.seen,
                          need |-> t.need - take, todo |-> t.todo \ {l}]
  OBVIOUS
<1>8. next \in StkCall /\ next # Idle /\ t.need - take \in Int /\ k - take \in Int
  <2>1. t.need - take \in Int /\ k - take \in Int
    BY <1>3, <1>6
  <2> QED BY <1>3, <1>7, <2>1 DEF StkCall, Idle
<1>10. StkLeaves(c, next)
  <2>1. [t EXCEPT !.need = @ - take, !.todo = @ \ {l}] = next
    <3>1. PICK m, T : m = t.need - take /\ T = t.todo \ {l}
      OBVIOUS
    <3>2. next = [pc |-> "consuming", from |-> t.from, n |-> t.n, to |-> t.to, seen |-> t.seen, need |-> m, todo |-> T]
      BY <1>7, <3>1
    <3>3. PICK u : u = [t EXCEPT !.need = m]
      OBVIOUS
    <3>4. u = [pc |-> "consuming", from |-> t.from, n |-> t.n, to |-> t.to, seen |-> t.seen, need |-> m, todo |-> t.todo]
      BY <1>3, <3>3
    <3>5. [u EXCEPT !.todo = T] = next
      BY <3>2, <3>4
    <3>6. [t EXCEPT !.need = m, !.todo = T] = next
      BY <1>3, <3>3, <3>5
    <3> QED BY <3>1, <3>6
  <2> QED BY <1>1, <1>2, <1>4, <1>5, <1>6, <1>8, <2>1 DEF StkLeaves, Idle
<1>11. layers' = [layers EXCEPT ![i].left = k - take]
  BY <1>4, <1>5, <1>6
<1>12. layers' \in Seq(Layer)
  <2>1. CASE i \in DOMAIN layers
    BY <1>2, <1>8, <1>11, <2>1, LayersTaken
  <2>2. CASE i \notin DOMAIN layers
    <3>1. layers' = layers
      BY <1>2, <1>11, <2>2 DEF StkTyped
    <3> QED BY <1>2, <3>1 DEF StkTyped
  <2> QED BY <2>1, <2>2
<1>9. StkKnown(next)' /\ StkRows(next, touches[c]) /\ StkGrown
  <2>1. layered => t.n \in Nat /\ t.need - take \in Nat /\ k - take \in Nat /\ \A m \in t.todo : m[2] \in Nat
    <3>1. layered => t.n \in Nat /\ t.need \in Nat /\ \A m \in t.todo : m[2] \in Nat
      BY <1>2 DEF StkKnown, Takes
    <3>2. layered => k \in Nat /\ t.need \in Nat
      BY <1>5, <3>1
    <3>3. layered => t.need - take \in Nat /\ k - take \in Nat
      BY <1>6, <3>2
    <3> QED BY <3>1, <3>3
  <2>2. StkKnown(next)
    BY <1>7, <2>1 DEF StkKnown, Puts, Takes
  <2>3. StkKnown(next)'
    BY <1>2, <1>7, <2>2 DEF StkKnown, Puts, Takes
  <2>4. StkLayered'
    <3>1. CASE i \in DOMAIN layers
      <4>1. /\ DOMAIN layers' = DOMAIN layers /\ layers'[i].left = k - take
            /\ \A j \in DOMAIN layers : j # i => layers'[j] = layers[j]
        BY <1>2, <1>8, <1>11, <3>1, LayersTaken
      <4> QED BY <1>2, <2>1, <4>1 DEF StkLayered, StkTyped
    <3>2. CASE i \notin DOMAIN layers
      <4>1. layers' = layers
        BY <1>2, <1>11, <3>2 DEF StkTyped
      <4> QED BY <1>2, <4>1 DEF StkLayered, StkTyped
    <3> QED BY <3>1, <3>2
  <2>5. StkRows(next, touches[c])
    BY <1>2, <1>7 DEF StkRows, Puts, Takes, Ships
  <2> QED BY <1>2, <2>3, <2>4, <2>5 DEF StkGrown, Adjusted
<1>13. BalanceRow(t.from) \in touches[c] /\ t.from \in Warehouse
  BY <1>2, <1>3 DEF StkRows, Takes
<1>14. ASSUME StkHeld(t)
       PROVE  /\ i \in DOMAIN layers /\ layers[i].at = t.from /\ layers[i].left = k
              /\ LayersAt(t.from)' = LayersAt(t.from) - take
              /\ DOMAIN layers' = DOMAIN layers /\ layers'[i].at = t.from /\ layers'[i].left = k - take
              /\ \A j \in DOMAIN layers : j # i => layers'[j] = layers[j]
              /\ \A v \in Warehouse \ {t.from} : WarehouseAlone(v)
  <2>1. i \in DOMAIN layers /\ layers[i].at = t.from /\ layers[i].left = k
    BY <1>2, <1>4, <1>5, <1>14 DEF StkHeld
  <2>2. /\ LayersAt(layers[i].at)' = LayersAt(layers[i].at) + ((k - take) - layers[i].left)
        /\ DOMAIN layers' = DOMAIN layers /\ layers'[i].at = layers[i].at /\ layers'[i].left = k - take
        /\ \A j \in DOMAIN layers : j # i => layers'[j] = layers[j]
    BY <1>2, <1>8, <1>11, <2>1, LayersTaken
  <2>3. PICK w : w = t.from
    OBVIOUS
  <2>4. LayersAt(w)' = LayersAt(w) + ((k - take) - k)
    BY <2>1, <2>2, <2>3
  <2>5. LayersAt(w) \in Int
    BY <1>2, LayersSum
  <2>6. LayersAt(w)' = LayersAt(w) - take
    BY <2>4, <2>5
  <2>7. \A v \in Warehouse \ {t.from} : WarehouseAlone(v)
    BY <1>2, <2>1, <2>2 DEF WarehouseAlone
  <2> QED BY <2>1, <2>2, <2>3, <2>6, <2>7
<1>15. Undisturbed => \A v \in Warehouse : BalanceRow(v) \notin touches[c] => WarehouseAlone(v)
  <2> SUFFICES ASSUME Undisturbed PROVE \A v \in Warehouse : BalanceRow(v) \notin touches[c] => WarehouseAlone(v)
    OBVIOUS
  <2>1. StkHeld(t)
    BY <1>1 DEF StkKept, StkHolds
  <2> QED BY <1>13, <1>14, <2>1
<1>16. ASSUME NEW g \in [Warehouse -> Nat], StkStands(c, g) PROVE StkGives(c, next, g, g)
  <2>1. StkHeld(t) /\ (\A v \in Warehouse : BalanceRow(v) \in touches[c] => InBalance(g, v, t))
        /\ (~ torn /\ SalesRow \in touches[c] => Shipping(g, t))
    BY <1>1, <1>16 DEF StkStands
  <2>2. StkHeld(next)'
    <3>1. t.seen = onHand'[t.from] /\ t.n <= t.seen
      BY <1>2, <1>3, <2>1 DEF StkHeld
    <3>2. ASSUME NEW m \in t.todo \ {l} PROVE m[1] \in DOMAIN layers' /\ layers'[m[1]].at = t.from /\ layers'[m[1]].left = m[2]
      <4>1. m[1] \in DOMAIN layers /\ layers[m[1]].at = t.from /\ layers[m[1]].left = m[2]
        BY <1>2, <2>1 DEF StkHeld
      <4>2. m[1] # i
        <5>1. ASSUME m[1] = i PROVE FALSE
          <6>1. m[2] = k /\ m = <<m[1], m[2]>>
            BY <1>3, <1>14, <2>1, <4>1, <5>1
          <6> QED BY <1>5, <5>1, <6>1
        <5> QED BY <5>1
      <4> QED BY <1>14, <2>1, <4>1, <4>2
    <3>3. ASSUME t.need - take > 0, NEW j \in DOMAIN layers', layers'[j].at = t.from, layers'[j].left # 0
          PROVE  <<j, layers'[j].left>> \in t.todo \ {l}
      <4>1. take = k
        BY <1>3, <1>6, <3>3
      <4>2. j # i /\ j \in DOMAIN layers /\ layers'[j] = layers[j]
        BY <1>14, <2>1, <3>3, <4>1
      <4>3. <<j, layers[j].left>> \in t.todo
        BY <1>2, <2>1, <3>3, <4>2 DEF StkHeld
      <4> QED BY <1>5, <4>2, <4>3
    <3> QED BY <1>7, <3>1, <3>2, <3>3 DEF StkHeld, Ships
  <2>3. \A v : OwesOnHand(next, v) = 0 /\ OwesMoved(next, v) = 0 /\ OwesOnHand(t, v) = 0 /\ OwesMoved(t, v) = 0
    BY <1>2, <1>7 DEF OwesOnHand, OwesMoved, Puts
  <2>4. InBalance(g, t.from, next)'
    <3>1. PICK w \in Warehouse : w = t.from
      BY <1>13
    <3>2. InBalance(g, w, t) /\ LayersAt(w) \in Int
      BY <1>2, <1>13, <2>1, <3>1, LayersSum
    <3>3. LayersAt(w)' = LayersAt(w) - take
      BY <1>14, <2>1, <3>1
    <3>4. OwesLayers(next, w) = t.n - (t.need - take) /\ OwesLayers(t, w) = t.n - t.need
      BY <1>2, <1>7, <3>1 DEF OwesLayers, Puts
    <3>5. LayersAt(w)' + OwesLayers(next, w) = LayersAt(w) + OwesLayers(t, w)
      BY <1>3, <3>2, <3>3, <3>4
    <3>6. layered' /\ ~ Adjusted' => layered /\ ~ Adjusted
      BY <1>2 DEF Adjusted
    <3>7. onHand'[w] + OwesOnHand(next, w) = moved'[w] + OwesMoved(next, w) - g[w]
      BY <1>2, <2>3, <3>2 DEF InBalance
    <3>8. PICK sum : sum = LayersAt(w)' + OwesLayers(next, w) /\ sum = LayersAt(w) + OwesLayers(t, w)
      BY <3>5
    <3>9. layered' /\ ~ Adjusted' => sum = moved'[w] + OwesMoved(next, w)
      BY <1>2, <2>3, <3>2, <3>6, <3>8 DEF InBalance
    <3>10. InBalance(g, w, next)'
      BY <3>7, <3>8, <3>9 DEF InBalance, OwesOnHand, OwesMoved, OwesLayers, Has
    <3> QED BY <3>1, <3>10
  <2>5. ASSUME NEW v \in Warehouse \ {t.from}, BalanceRow(v) \in touches[c] PROVE InBalance(g, v, next)'
    <3>1. OwesLayers(next, v) = 0 /\ OwesLayers(t, v) = 0
      BY <1>2, <1>7 DEF OwesLayers, Puts
    <3>2. InBalance(g, v, next)
      BY <2>1, <2>3, <2>5, <3>1 DEF InBalance
    <3> QED BY <1>9, <1>14, <2>1, <3>2, InBalanceStays
  <2>6. ~ torn' /\ SalesRow \in touches[c] => Shipping(g, next)'
    BY <1>2, <1>7, <2>1 DEF Shipping
  <2> QED BY <2>2, <2>4, <2>5, <2>6 DEF StkGives
<1>17. \A g \in [Warehouse -> Nat] : StkStands(c, g) => \E h \in [Warehouse -> Nat] : StkGives(c, next, g, h)
  BY <1>16
<1>18. /\ onHand' \in [Warehouse -> Int] /\ moved' \in [Warehouse -> Int] /\ adjustments' \in Seq(Adjustment) /\ torn' \in BOOLEAN
       /\ salesOrder' \in [status : {"DRAFT", "CONFIRMED", "COMPLETED", "CANCELLED", "SHIPPED"}, shipped : Shipment]
       /\ salesOrder'.shipped = salesOrder.shipped
  BY <1>2 DEF StkTyped
<1> QED BY <1>8, <1>9, <1>10, <1>12, <1>15, <1>17, <1>18, StkActs

\* The layers deleted behind an issue have nothing left while layers have to account.
LEMMA EndLayersKeeps ==
  ASSUME StkKept, NEW c \in Call, EndLayers(c)
  PROVE  StkKept'
<1>1. PICK t : t = call[c]
  OBVIOUS
<1>2. /\ t \in StkCall /\ t.pc = "consuming" /\ StkKnown(t) /\ StkRows(t, touches[c]) /\ StkTyped /\ ~ (t.need > 0)
      /\ fifo' = fifo /\ onHand' = onHand /\ moved' = moved /\ adjustments' = adjustments /\ salesOrder' = salesOrder /\ layered' = layered /\ torn' = torn
  <2>1. call[c] \in StkCall /\ StkKnown(call[c]) /\ StkRows(call[c], touches[c]) /\ StkTyped
    BY DEF StkKept, StkTyped
  <2>2. call[c].pc = "consuming" /\ call[c].need <= 0
    BY DEF EndLayers, At
  <2>3. ~ (call[c].need > 0)
    BY <2>1, <2>2, StkForms
  <2> QED BY <1>1, <2>1, <2>2, <2>3 DEF EndLayers
<1>3. t \in [pc : {"consuming"}, from : Warehouse, n : Int, to : Target, seen : Int, need : Int, todo : SUBSET (Nat \X Int)]
  BY <1>2 DEF StkCall, Idle
<1>4. PICK w \in Warehouse : w = t.from
  BY <1>3
<1>5. PICK next : next = [pc |-> "taking", from |-> t.from, n |-> t.n, to |-> t.to, seen |-> t.seen, isFifo |-> TRUE]
  OBVIOUS
<1>6. next \in StkCall /\ next # Idle
  BY <1>3, <1>5 DEF StkCall, Idle
<1>7. StkLeaves(c, next)
  BY <1>1, <1>2, <1>5, <1>6 DEF EndLayers, StkLeaves, Idle
<1>8. layers' = [i \in DOMAIN layers |-> IF layers[i].at = w /\ layers[i].left < 0 THEN [at |-> layers[i].at, left |-> 0] ELSE layers[i]]
  BY <1>1, <1>4 DEF EndLayers
<1>9. layers' \in Seq(Layer) /\ DOMAIN layers' = DOMAIN layers
      /\ \A i \in DOMAIN layers : layers'[i].at = layers[i].at /\ (layers[i].at # w \/ layers[i].left >= 0 => layers'[i] = layers[i])
  <2>1. PICK m \in Nat : m = Len(layers) /\ DOMAIN layers = 1 .. m
    BY <1>2, StkTerms
  <2>2. \A i \in 1 .. m : layers[i] \in Layer /\ layers[i].at \in Warehouse /\ layers[i].left \in Int
    BY <1>2, <2>1, StkTerms
  <2>3. \A i \in 1 .. m : [at |-> layers[i].at, left |-> 0] \in Layer
    BY <2>2 DEF Layer
  <2>4. layers' \in [1 .. m -> Layer]
    BY <1>8, <2>1, <2>2, <2>3
  <2>5. layers' \in Seq(Layer)
    BY <2>4
  <2>6. ASSUME NEW i \in DOMAIN layers
        PROVE  layers'[i].at = layers[i].at /\ (layers[i].at # w \/ layers[i].left >= 0 => layers'[i] = layers[i])
    BY <1>8, <2>1, <2>2
  <2> QED BY <1>8, <2>5, <2>6
<1>10. layered => layers' = layers
  <2>1. layered => \A i \in DOMAIN layers : layers[i].left >= 0
    BY <1>2 DEF StkTyped, StkLayered
  <2>2. layered => layers' = [i \in DOMAIN layers |-> layers[i]]
    BY <1>8, <1>9, <2>1
  <2>3. layers = [i \in DOMAIN layers |-> layers[i]]
    BY <1>2 DEF StkTyped
  <2> QED BY <2>2, <2>3
<1>11. \A v \in Warehouse \ {w} : WarehouseAlone(v)
  BY <1>2, <1>9 DEF WarehouseAlone
<1>12. StkKnown(next)' /\ StkRows(next, touches[c]) /\ StkGrown
  <2>1. StkKnown(next)'
    BY <1>2, <1>5 DEF StkKnown, Puts, Takes
  <2>2. StkRows(next, touches[c])
    BY <1>2, <1>5 DEF StkRows, Puts, Takes, Ships
  <2>3. StkLayered'
    BY <1>2, <1>10 DEF StkLayered, StkTyped
  <2> QED BY <1>2, <2>1, <2>2, <2>3 DEF StkGrown, Adjusted
<1>13. BalanceRow(w) \in touches[c]
  BY <1>2, <1>4 DEF StkRows, Takes
<1>14. ASSUME NEW g \in [Warehouse -> Nat], StkStands(c, g) PROVE StkGives(c, next, g, g)
  <2>1. StkHeld(t) /\ (\A v \in Warehouse : BalanceRow(v) \in touches[c] => InBalance(g, v, t))
        /\ (~ torn /\ SalesRow \in touches[c] => Shipping(g, t))
    BY <1>1, <1>14 DEF StkStands
  <2>2. StkHeld(next)'
    BY <1>2, <1>5, <2>1 DEF StkHeld, Ships
  <2>3. layered => t.n - t.need = t.n
    BY <1>2, <1>3 DEF StkKnown, Takes
  <2>4. \A v : /\ OwesOnHand(next, v) = 0 /\ OwesMoved(next, v) = 0 /\ OwesOnHand(t, v) = 0 /\ OwesMoved(t, v) = 0
               /\ layered => OwesLayers(next, v) = OwesLayers(t, v)
    BY <1>2, <1>5, <2>3 DEF OwesOnHand, OwesMoved, OwesLayers, Puts
  <2>5. ASSUME NEW v \in Warehouse, BalanceRow(v) \in touches[c] PROVE InBalance(g, v, next)'
    <3>1. InBalance(g, v, t)
      BY <2>1, <2>5
    <3>2. layered => LayersAt(v)' = LayersAt(v)
      BY <1>10 DEF LayersAt
    <3>3. onHand'[v] + OwesOnHand(next, v) = moved'[v] + OwesMoved(next, v) - g[v]
      BY <1>2, <2>4, <3>1 DEF InBalance
    <3>4. layered' /\ ~ Adjusted' => LayersAt(v)' + OwesLayers(next, v) = moved'[v] + OwesMoved(next, v)
      BY <1>2, <2>4, <3>1, <3>2 DEF InBalance, Adjusted
    <3> QED BY <3>3, <3>4 DEF InBalance, OwesOnHand, OwesMoved, OwesLayers, Has
  <2>6. ~ torn' /\ SalesRow \in touches[c] => Shipping(g, next)'
    BY <1>2, <1>5, <2>1 DEF Shipping
  <2> QED BY <2>2, <2>5, <2>6 DEF StkGives
<1>15. \A g \in [Warehouse -> Nat] : StkStands(c, g) => \E h \in [Warehouse -> Nat] : StkGives(c, next, g, h)
  BY <1>14
<1>16. /\ onHand' \in [Warehouse -> Int] /\ moved' \in [Warehouse -> Int] /\ adjustments' \in Seq(Adjustment) /\ torn' \in BOOLEAN
       /\ salesOrder' \in [status : {"DRAFT", "CONFIRMED", "COMPLETED", "CANCELLED", "SHIPPED"}, shipped : Shipment]
       /\ salesOrder'.shipped = salesOrder.shipped
  BY <1>2 DEF StkTyped
<1>17. \A v \in Warehouse : BalanceRow(v) \notin touches[c] => WarehouseAlone(v)
  BY <1>11, <1>13
<1> QED BY <1>6, <1>7, <1>9, <1>12, <1>15, <1>16, <1>17, StkActs

LEMMA SaveTakenKeeps ==
  ASSUME StkKept, NEW c \in Call, SaveTaken(c)
  PROVE  StkKept'
<1>1. PICK t : t = call[c]
  OBVIOUS
<1>2. /\ t \in StkCall /\ t.pc = "taking" /\ StkKnown(t) /\ StkRows(t, touches[c]) /\ StkTyped
      /\ fifo' = fifo /\ moved' = moved /\ layers' = layers /\ adjustments' = adjustments /\ salesOrder' = salesOrder /\ layered' = layered /\ torn' = torn
  BY <1>1 DEF StkKept, StkTyped, SaveTaken, At
<1>3. t \in [pc : {"listing", "taking", "leaving"}, from : Warehouse, n : Int, to : Target, seen : Int, isFifo : BOOLEAN]
  BY <1>2 DEF StkCall, Idle
<1>4. PICK w \in Warehouse : w = t.from
  BY <1>3
<1>5. onHand' = [onHand EXCEPT ![w] = t.seen - t.n] /\ Await(c, [t EXCEPT !.pc = "leaving"])
  BY <1>1, <1>4 DEF SaveTaken
<1>6. PICK next : next = [pc |-> "leaving", from |-> t.from, n |-> t.n, to |-> t.to, seen |-> t.seen, isFifo |-> t.isFifo]
  OBVIOUS
<1>7. next \in StkCall /\ next # Idle /\ StkLeaves(c, next)
  <2>1. [t EXCEPT !.pc = "leaving"] = next
    BY <1>3, <1>6
  <2>2. next \in StkCall /\ next # Idle
    BY <1>3, <1>6 DEF StkCall, Idle
  <2> QED BY <1>1, <1>2, <1>5, <2>1, <2>2 DEF StkLeaves, Idle
<1>8. StkKnown(next)' /\ StkRows(next, touches[c]) /\ StkGrown
  BY <1>2, <1>6 DEF StkKnown, StkRows, StkGrown, StkLayered, StkTyped, Adjusted, Puts, Takes, Ships
<1>9. onHand' \in [Warehouse -> Int] /\ BalanceRow(w) \in touches[c]
  BY <1>2, <1>3, <1>4, <1>5 DEF StkTyped, StkRows, Takes
<1>10. \A v \in Warehouse \ {w} : WarehouseAlone(v)
  BY <1>2, <1>5 DEF WarehouseAlone, StkTyped
<1>11. ASSUME NEW g \in [Warehouse -> Nat], StkStands(c, g) PROVE StkGives(c, next, g, g)
  <2>1. StkHeld(t) /\ (\A v \in Warehouse : BalanceRow(v) \in touches[c] => InBalance(g, v, t))
        /\ (~ torn /\ SalesRow \in touches[c] => Shipping(g, t))
    BY <1>1, <1>11 DEF StkStands
  <2>2. StkHeld(next)'
    BY <1>6 DEF StkHeld, Ships
  <2>3. InBalance(g, w, next)'
    <3>1. InBalance(g, w, t) /\ onHand[w] \in Int /\ moved[w] \in Int /\ g[w] \in Nat /\ t.n \in Int
      BY <1>2, <1>3, <1>9, <2>1, StkTerms
    <3>2. onHand'[w] = onHand[w] - t.n
      BY <1>2, <1>4, <1>5, <2>1 DEF StkHeld, StkTyped
    <3>3. OwesOnHand(next, w) = 0 /\ OwesMoved(next, w) = 0 - t.n /\ OwesLayers(next, w) = 0
      BY <1>4, <1>6 DEF OwesOnHand, OwesMoved, OwesLayers, Puts
    <3>4. OwesOnHand(t, w) = 0 /\ OwesMoved(t, w) = 0 /\ OwesLayers(t, w) = t.n
      BY <1>2, <1>4 DEF OwesOnHand, OwesMoved, OwesLayers, Puts
    <3>5. LayersAt(w)' = LayersAt(w) /\ LayersAt(w) \in Int
      BY <1>2, LayersSum DEF LayersAt
    <3>6. onHand'[w] + OwesOnHand(next, w) = moved'[w] + OwesMoved(next, w) - g[w]
      BY <1>2, <3>1, <3>2, <3>3, <3>4 DEF InBalance
    <3>7. layered' /\ ~ Adjusted' => LayersAt(w) + OwesLayers(next, w) = moved'[w] + OwesMoved(next, w)
      BY <1>2, <3>1, <3>3, <3>4, <3>5 DEF InBalance, Adjusted
    <3> QED BY <3>5, <3>6, <3>7 DEF InBalance, OwesOnHand, OwesMoved, OwesLayers, Has
  <2>4. ASSUME NEW v \in Warehouse \ {w}, BalanceRow(v) \in touches[c] PROVE InBalance(g, v, next)'
    <3>1. OwesOnHand(next, v) = 0 /\ OwesMoved(next, v) = 0 /\ OwesLayers(next, v) = 0
      BY <1>4, <1>6, OwesNothing DEF Puts, Takes
    <3>2. OwesOnHand(t, v) = 0 /\ OwesMoved(t, v) = 0 /\ OwesLayers(t, v) = 0
      BY <1>2, <1>4, OwesNothing DEF Puts, Takes
    <3>3. InBalance(g, v, next)
      BY <2>1, <2>4, <3>1, <3>2 DEF InBalance
    <3> QED BY <1>8, <1>10, <3>3, InBalanceStays
  <2>5. ~ torn' /\ SalesRow \in touches[c] => Shipping(g, next)'
    BY <1>2, <1>6, <2>1 DEF Shipping
  <2> QED BY <2>2, <2>3, <2>4, <2>5 DEF StkGives
<1>12. \A g \in [Warehouse -> Nat] : StkStands(c, g) => \E h \in [Warehouse -> Nat] : StkGives(c, next, g, h)
  BY <1>11
<1>13. /\ moved' \in [Warehouse -> Int] /\ layers' \in Seq(Layer) /\ adjustments' \in Seq(Adjustment) /\ torn' \in BOOLEAN
       /\ salesOrder' \in [status : {"DRAFT", "CONFIRMED", "COMPLETED", "CANCELLED", "SHIPPED"}, shipped : Shipment]
       /\ salesOrder'.shipped = salesOrder.shipped
  BY <1>2 DEF StkTyped
<1>14. \A v \in Warehouse : BalanceRow(v) \notin touches[c] => WarehouseAlone(v)
  BY <1>9, <1>10
<1> QED BY <1>7, <1>8, <1>9, <1>12, <1>13, <1>14, StkActs

LEMMA BookTakenKeeps ==
  ASSUME StkKept, NEW c \in Call, BookTaken(c)
  PROVE  StkKept'
<1>1. PICK t : t = call[c]
  OBVIOUS
<1>2. /\ t \in StkCall /\ t.pc = "leaving" /\ StkKnown(t) /\ StkRows(t, touches[c]) /\ StkTyped
      /\ fifo' = fifo /\ onHand' = onHand /\ layers' = layers /\ adjustments' = adjustments /\ salesOrder' = salesOrder /\ layered' = layered /\ torn' = torn
  BY <1>1 DEF StkKept, StkTyped, BookTaken, At
<1>3. t \in [pc : {"listing", "taking", "leaving"}, from : Warehouse, n : Int, to : Target, seen : Int, isFifo : BOOLEAN]
  BY <1>2 DEF StkCall, Idle
<1>4. PICK w \in Warehouse, n \in Int : w = t.from /\ n = t.n
  BY <1>3
<1>0. PICK l : l = Layered(t.isFifo) /\ (l = <<"layer">> \/ l = <<>>) /\ (t.isFifo => l # <<>>)
  BY <1>3, LayeredIs
<1>5. PICK s : s = <<"balance">> \o l \o <<"ledger">>
  OBVIOUS
<1>6. /\ s \in Seq(Place) /\ s # <<>> /\ \A i, j \in DOMAIN s : s[i] = s[j] => i = j
      /\ Has(s, "balance") /\ Has(s, "ledger") /\ (Has(s, "layer") <=> l # <<>>)
  BY <1>0, <1>5, PlacesOf
<1>7. moved' = [moved EXCEPT ![w] = @ - n]
  BY <1>1, <1>4 DEF BookTaken
<1>8. PICK next : next = IF t.to = Nowhere THEN Idle ELSE [pc |-> "reading", to |-> t.to, n |-> n, places |-> s, adj |-> 0]
  OBVIOUS
<1>9. next \in StkCall /\ (next = Idle <=> t.to = Nowhere)
  <2>1. t.to # Nowhere => t.to \in Warehouse
    BY <1>3 DEF Target
  <2> QED BY <1>6, <1>8, <2>1 DEF StkCall, Idle
<1>10. StkLeaves(c, next)
  <2>1. IF t.to = Nowhere THEN Answer(c) ELSE Await(c, [pc |-> "reading", to |-> t.to, n |-> n, places |-> s, adj |-> 0])
    BY <1>0, <1>1, <1>4, <1>5 DEF BookTaken, Putting
  <2>2. call[c] # Idle
    BY <1>1, <1>2 DEF Idle
  <2> QED BY <1>8, <1>9, <2>1, <2>2 DEF StkLeaves
<1>11. StkKnown(next)' /\ StkRows(next, touches[c]) /\ StkGrown
  <2>1. CASE next = Idle
    BY <1>2, <2>1 DEF StkKnown, StkRows, StkGrown, StkLayered, StkTyped, Adjusted, Idle, Puts, Takes, Ships
  <2>2. CASE next # Idle
    <3>1. next = [pc |-> "reading", to |-> t.to, n |-> n, places |-> s, adj |-> 0]
      BY <1>8, <1>9, <2>2
    <3>2. layered => n \in Nat
      BY <1>2, <1>4 DEF StkKnown, Takes
    <3>3. StkKnown(next)
      BY <1>6, <3>1, <3>2 DEF StkKnown, Puts, Takes
    <3>4. StkKnown(next)'
      BY <1>2, <3>1, <3>3 DEF StkKnown, Has, Puts, Takes
    <3>5. StkRows(next, touches[c])
      BY <1>2, <1>9, <2>2, <3>1 DEF StkRows, Puts, Takes, Ships
    <3> QED BY <1>2, <3>4, <3>5 DEF StkGrown, StkLayered, StkTyped, Adjusted
  <2> QED BY <2>1, <2>2
<1>12. moved' \in [Warehouse -> Int] /\ BalanceRow(w) \in touches[c]
  BY <1>2, <1>4, <1>7 DEF StkTyped, StkRows, Takes
<1>13. \A v \in Warehouse \ {w} : WarehouseAlone(v)
  BY <1>2, <1>7 DEF WarehouseAlone, StkTyped
<1>14. ASSUME NEW v \in Warehouse
       PROVE  \E k \in Int : OwesOnHand(next, v) = k /\ OwesMoved(next, v) = k /\ (layered => OwesLayers(next, v) = k)
  <2>1. CASE next = Idle \/ t.to # v
    <3>1. next.pc \in Puts => next.to # v
      BY <1>8, <2>1 DEF Idle, Puts
    <3>2. next.pc \notin Takes
      BY <1>8 DEF Idle, Takes
    <3>3. OwesOnHand(next, v) = 0 /\ OwesMoved(next, v) = 0 /\ OwesLayers(next, v) = 0
      BY <3>1, <3>2, OwesNothing
    <3> QED BY <3>3
  <2>2. CASE next # Idle /\ t.to = v
    <3>1. OwesOnHand(next, v) = n /\ OwesMoved(next, v) = n /\ (layered => OwesLayers(next, v) = n)
      <4>1. layered => t.isFifo
        BY <1>2 DEF StkKnown
      <4> QED BY <1>0, <1>6, <1>8, <1>9, <2>2, <4>1 DEF OwesOnHand, OwesMoved, OwesLayers, Puts
    <3> QED BY <3>1
  <2> QED BY <2>1, <2>2
<1>15. ASSUME NEW g \in [Warehouse -> Nat], StkStands(c, g) PROVE StkGives(c, next, g, g)
  <2>1. StkHeld(t) /\ (\A v \in Warehouse : BalanceRow(v) \in touches[c] => InBalance(g, v, t))
        /\ (~ torn /\ SalesRow \in touches[c] => Shipping(g, t))
    BY <1>1, <1>15 DEF StkStands
  <2>2. StkHeld(next)' /\ next.pc \in {"idle", "reading"}
    BY <1>8 DEF StkHeld, Ships, Idle
  <2>3. ASSUME NEW v \in Warehouse, BalanceRow(v) \in touches[c] PROVE InBalance(g, v, next)'
    <3>1. InBalance(g, v, t) /\ onHand[v] \in Int /\ moved[v] \in Int /\ g[v] \in Nat /\ LayersAt(v) \in Int
      BY <1>2, <2>1, <2>3, StkTerms, LayersSum
    <3>2. OwesOnHand(t, v) = 0 /\ OwesMoved(t, v) = (IF v = w THEN 0 - n ELSE 0) /\ OwesLayers(t, v) = 0
      BY <1>2, <1>4 DEF OwesOnHand, OwesMoved, OwesLayers, Puts
    <3>3. moved'[v] = moved[v] + (IF v = w THEN 0 - n ELSE 0)
      BY <1>2, <1>7, <3>1 DEF StkTyped
    <3>4. PICK k \in Int : OwesOnHand(next, v) = k /\ OwesMoved(next, v) = k /\ (layered => OwesLayers(next, v) = k)
      BY <1>14
    <3>5. LayersAt(v)' = LayersAt(v)
      BY <1>2 DEF LayersAt
    <3>6. onHand[v] = moved'[v] - g[v] /\ (layered /\ ~ Adjusted => LayersAt(v) = moved'[v]) /\ moved'[v] \in Int
      BY <3>1, <3>2, <3>3 DEF InBalance
    <3>7. onHand'[v] + OwesOnHand(next, v) = moved'[v] + OwesMoved(next, v) - g[v]
      BY <1>2, <3>1, <3>4, <3>6
    <3>8. layered' /\ ~ Adjusted' => LayersAt(v) + OwesLayers(next, v) = moved'[v] + OwesMoved(next, v)
      BY <1>2, <3>1, <3>4, <3>6 DEF Adjusted
    <3> QED BY <3>5, <3>7, <3>8 DEF InBalance, OwesOnHand, OwesMoved, OwesLayers, Has
  <2>4. ~ torn' /\ SalesRow \in touches[c] => Shipping(g, next)'
    BY <1>2, <2>1, <2>2 DEF Shipping
  <2> QED BY <2>2, <2>3, <2>4 DEF StkGives
<1>16. \A g \in [Warehouse -> Nat] : StkStands(c, g) => \E h \in [Warehouse -> Nat] : StkGives(c, next, g, h)
  BY <1>15
<1>17. /\ onHand' \in [Warehouse -> Int] /\ layers' \in Seq(Layer) /\ adjustments' \in Seq(Adjustment) /\ torn' \in BOOLEAN
       /\ salesOrder' \in [status : {"DRAFT", "CONFIRMED", "COMPLETED", "CANCELLED", "SHIPPED"}, shipped : Shipment]
       /\ salesOrder'.shipped = salesOrder.shipped
  BY <1>2 DEF StkTyped
<1>18. \A v \in Warehouse : BalanceRow(v) \notin touches[c] => WarehouseAlone(v)
  BY <1>12, <1>13
<1> QED BY <1>9, <1>10, <1>11, <1>12, <1>16, <1>17, <1>18, StkActs

LEMMA SaveAdjustedKeeps ==
  ASSUME StkKept, NEW c \in Call, SaveAdjusted(c)
  PROVE  StkKept'
<1>1. PICK t : t = call[c]
  OBVIOUS
<1>2. /\ t \in StkCall /\ t.pc = "putting" /\ StkKnown(t) /\ StkRows(t, touches[c]) /\ StkTyped /\ t.places = <<>>
      /\ fifo' = fifo /\ onHand' = onHand /\ moved' = moved /\ layers' = layers /\ salesOrder' = salesOrder /\ layered' = layered /\ torn' = torn /\ Answer(c)
  BY <1>1 DEF StkKept, StkTyped, SaveAdjusted, At
<1>3. PICK a \in DOMAIN adjustments : a = t.adj
  BY <1>2 DEF StkKnown, Puts
<1>4. adjustments' = [adjustments EXCEPT ![a].status = "POSTED"]
  BY <1>1, <1>3 DEF SaveAdjusted
<1>5. adjustments' \in Seq(Adjustment) /\ DOMAIN adjustments' = DOMAIN adjustments /\ adjustments'[a].status = "POSTED"
  <2>1. PICK row : row = [adjustments[a] EXCEPT !.status = "POSTED"]
    OBVIOUS
  <2>2. adjustments[a] \in Adjustment /\ adjustments \in Seq(Adjustment)
    BY <1>2, StkTerms DEF StkTyped
  <2>3. row \in Adjustment /\ row.status = "POSTED"
    BY <2>1, <2>2 DEF Adjustment
  <2>4. adjustments' = [adjustments EXCEPT ![a] = row]
    BY <1>4, <2>1
  <2> QED BY <2>2, <2>3, <2>4
<1>6. Adjusted' /\ StkGrown
  BY <1>2, <1>3, <1>5 DEF Adjusted, StkGrown, StkLayered, StkTyped
<1>7. Idle \in StkCall /\ StkLeaves(c, Idle) /\ StkKnown(Idle)' /\ StkRows(Idle, touches[c])
  BY <1>2 DEF StkCall, StkLeaves, StkKnown, StkRows, Idle, Puts, Takes, Ships
<1>8. ASSUME NEW g \in [Warehouse -> Nat], StkStands(c, g) PROVE StkGives(c, Idle, g, g)
  <2>1. StkHeld(t) /\ (\A v \in Warehouse : BalanceRow(v) \in touches[c] => InBalance(g, v, t))
        /\ (~ torn /\ SalesRow \in touches[c] => Shipping(g, t))
    BY <1>1, <1>8 DEF StkStands
  <2>2. StkHeld(Idle)'
    BY DEF StkHeld, Ships, Idle
  <2>3. ASSUME NEW v \in Warehouse, BalanceRow(v) \in touches[c] PROVE InBalance(g, v, Idle)'
    <3>1. OwesOnHand(Idle, v) = 0 /\ OwesMoved(Idle, v) = 0
      BY DEF Idle, OwesOnHand, OwesMoved, Puts
    <3>2. OwesOnHand(t, v) = 0 /\ OwesMoved(t, v) = 0
      BY <1>2 DEF OwesOnHand, OwesMoved, Has
    <3>3. onHand'[v] + OwesOnHand(Idle, v) = moved'[v] + OwesMoved(Idle, v) - g[v]
      BY <1>2, <2>1, <2>3, <3>1, <3>2 DEF InBalance
    <3> QED BY <1>6, <3>3 DEF InBalance, OwesOnHand, OwesMoved, OwesLayers, Has
  <2>4. ~ torn' /\ SalesRow \in touches[c] => Shipping(g, Idle)'
    BY <1>2, <2>1 DEF Shipping, Idle
  <2> QED BY <2>2, <2>3, <2>4 DEF StkGives
<1>9. \A g \in [Warehouse -> Nat] : StkStands(c, g) => \E h \in [Warehouse -> Nat] : StkGives(c, Idle, g, h)
  BY <1>8
<1>10. /\ onHand' \in [Warehouse -> Int] /\ moved' \in [Warehouse -> Int] /\ layers' \in Seq(Layer) /\ torn' \in BOOLEAN
       /\ salesOrder' \in [status : {"DRAFT", "CONFIRMED", "COMPLETED", "CANCELLED", "SHIPPED"}, shipped : Shipment]
       /\ salesOrder'.shipped = salesOrder.shipped
  BY <1>2 DEF StkTyped
<1>11. \A v \in Warehouse : WarehouseAlone(v)
  BY <1>2 DEF WarehouseAlone
<1> QED BY <1>5, <1>6, <1>7, <1>9, <1>10, <1>11, StkActs

\* A request that only saves the sales order.
LEMMA StkSells ==
  ASSUME StkKept, NEW c \in Call, NEW next \in {Idle} \union [pc : {"ordering"}, next : {"SHIPPED"}], StkLeaves(c, next),
         fifo' = fifo, layered' = layered, onHand' = onHand, moved' = moved, layers' = layers, adjustments' = adjustments, torn' = torn,
         SalesRow \in touches[c], call[c].pc \in {"ordering", "shipping"},
         salesOrder' \in [status : {"DRAFT", "CONFIRMED", "COMPLETED", "CANCELLED", "SHIPPED"}, shipped : Shipment],
         \A g \in [Warehouse -> Nat] : Shipping(g, call[c]) => InAll(g) = InAll(salesOrder'.shipped)
  PROVE  StkKept'
<1>1. StkTyped /\ next \in StkCall /\ next.pc \in {"idle", "ordering"}
  BY DEF StkKept, StkCall, Idle
<1>2. StkKnown(next)' /\ StkRows(next, touches[c]) /\ StkGrown
  BY <1>1 DEF StkKnown, StkRows, StkGrown, StkLayered, StkTyped, Adjusted, Puts, Takes, Ships
<1>3. ASSUME NEW g \in [Warehouse -> Nat], StkStands(c, g) PROVE StkGives(c, next, g, g)
  <2>1. StkHeld(next)'
    BY <1>1 DEF StkHeld, Ships
  <2>2. ASSUME NEW v \in Warehouse, BalanceRow(v) \in touches[c] PROVE InBalance(g, v, next)'
    <3>1. OwesOnHand(next, v) = 0 /\ OwesMoved(next, v) = 0 /\ OwesLayers(next, v) = 0
      BY <1>1, OwesNothing DEF Puts, Takes
    <3>2. OwesOnHand(call[c], v) = 0 /\ OwesMoved(call[c], v) = 0 /\ OwesLayers(call[c], v) = 0
      BY OwesNothing DEF Puts, Takes
    <3>3. InBalance(g, v, next)
      BY <1>3, <2>2, <3>1, <3>2 DEF InBalance, StkStands
    <3>4. WarehouseAlone(v)
      BY DEF WarehouseAlone
    <3> QED BY <1>2, <3>3, <3>4, InBalanceStays
  <2>3. ~ torn' /\ SalesRow \in touches[c] => Shipping(g, next)'
    BY <1>1, <1>3 DEF Shipping, StkStands, InAll
  <2> QED BY <2>1, <2>2, <2>3 DEF StkGives
<1>4. \A g \in [Warehouse -> Nat] : StkStands(c, g) => \E h \in [Warehouse -> Nat] : StkGives(c, next, g, h)
  BY <1>3
<1>5. onHand' \in [Warehouse -> Int] /\ moved' \in [Warehouse -> Int] /\ layers' \in Seq(Layer) /\ torn' \in BOOLEAN
      /\ adjustments' \in Seq(Adjustment)
  BY <1>1 DEF StkTyped
<1>6. \A v \in Warehouse : WarehouseAlone(v)
  BY DEF WarehouseAlone
<1> QED BY <1>1, <1>2, <1>4, <1>5, <1>6, StkActs

LEMMA SaveSalesKeeps ==
  ASSUME StkKept, NEW c \in Call, SaveSales(c)
  PROVE  StkKept'
<1>1. PICK t : t = call[c]
  OBVIOUS
<1>2. /\ t \in StkCall /\ t.pc = "ordering" /\ StkRows(t, touches[c]) /\ StkTyped
      /\ fifo' = fifo /\ onHand' = onHand /\ moved' = moved /\ layers' = layers /\ adjustments' = adjustments /\ layered' = layered /\ torn' = torn
      /\ Answer(c) /\ salesOrder' = [salesOrder EXCEPT !.status = t.next]
  BY <1>1 DEF StkKept, StkTyped, SaveSales, At
<1>3. t.next \in {"CONFIRMED", "COMPLETED", "CANCELLED", "SHIPPED"}
  BY <1>2, StkForms
<1>4. /\ salesOrder' \in [status : {"DRAFT", "CONFIRMED", "COMPLETED", "CANCELLED", "SHIPPED"}, shipped : Shipment]
      /\ salesOrder'.shipped = salesOrder.shipped
  BY <1>2, <1>3 DEF StkTyped
<1>5. SalesRow \in touches[c] /\ StkLeaves(c, Idle) /\ \A g : Shipping(g, t) => InAll(g) = InAll(salesOrder.shipped)
  BY <1>2 DEF StkRows, StkLeaves, Shipping
<1> QED BY <1>1, <1>2, <1>4, <1>5, StkSells

LEMMA SaveShippedLinesKeeps ==
  ASSUME StkKept, NEW c \in Call, SaveShippedLines(c)
  PROVE  StkKept'
<1>1. PICK t : t = call[c]
  OBVIOUS
<1>2. /\ t \in StkCall /\ t.pc = "shipping" /\ StkRows(t, touches[c]) /\ StkTyped
      /\ fifo' = fifo /\ onHand' = onHand /\ moved' = moved /\ layers' = layers /\ adjustments' = adjustments /\ layered' = layered /\ torn' = torn
      /\ salesOrder' = [salesOrder EXCEPT !.shipped = t.lines]
  BY <1>1 DEF StkKept, StkTyped, SaveShippedLines, At
<1>3. t.lines \in Shipment
  BY <1>2, StkForms DEF Ships
<1>4. /\ salesOrder' \in [status : {"DRAFT", "CONFIRMED", "COMPLETED", "CANCELLED", "SHIPPED"}, shipped : Shipment]
      /\ salesOrder'.shipped = t.lines
  BY <1>2, <1>3 DEF StkTyped
<1>5. PICK next : next = [pc |-> "ordering", next |-> "SHIPPED"]
  OBVIOUS
<1>6. next \in {Idle} \union [pc : {"ordering"}, next : {"SHIPPED"}] /\ next # Idle /\ Await(c, next)
  BY <1>5 DEF SaveShippedLines, Idle
<1>7. SalesRow \in touches[c] /\ StkLeaves(c, next) /\ \A g : Shipping(g, t) => InAll(g) = InAll(t.lines)
  BY <1>1, <1>2, <1>6 DEF StkRows, StkLeaves, Shipping, Ships, Idle
<1> QED BY <1>1, <1>2, <1>4, <1>6, <1>7, StkSells

\* A step that no request makes: it adds to the adjustments at most.
LEMMA StkAlone ==
  ASSUME StkKept, UNCHANGED <<fifo, onHand, moved, layers, salesOrder, layered, torn>>, UNCHANGED requestVars,
         adjustments' \in Seq(Adjustment), \A a \in DOMAIN adjustments : a \in DOMAIN adjustments', Adjusted' <=> Adjusted
  PROVE  StkKept'
<1>1. /\ StkTyped /\ call' = call /\ touches' = touches /\ disjoint' = disjoint /\ faults' = faults
      /\ fifo' = fifo /\ onHand' = onHand /\ moved' = moved /\ layers' = layers /\ salesOrder' = salesOrder /\ layered' = layered /\ torn' = torn
  BY DEF requestVars, StkKept
<1>2. StkGrown /\ \A w \in Warehouse : WarehouseAlone(w)
  BY <1>1 DEF StkGrown, StkLayered, StkTyped, WarehouseAlone
<1>3. \A c \in Call : StkKnown(call[c])' /\ StkRows(call[c], touches[c])'
  <2> SUFFICES ASSUME NEW c \in Call PROVE StkKnown(call[c])' /\ StkRows(call[c], touches[c])'
    OBVIOUS
  <2>1. PICK t, R : t = call[c] /\ R = touches[c] /\ t = call'[c] /\ R = touches'[c]
    BY <1>1
  <2>2. StkKnown(t) /\ StkRows(t, R)
    BY <1>1, <2>1 DEF StkTyped
  <2>3. StkKnown(t)'
    BY <1>1, <2>2 DEF StkKnown, Has
  <2> QED BY <2>1, <2>2, <2>3 DEF StkKnown, StkRows
<1>4. StkTyped'
  <2>1. StkLayered'
    BY <1>1 DEF StkTyped, StkLayered
  <2> QED BY <1>1, <1>3, <2>1, ApartStays DEF StkTyped
<1>5. ASSUME NEW g \in [Warehouse -> Nat], StkHolds(g) PROVE StkHolds(g)'
  <2>1. \A t : StkHeld(t) => StkHeld(t)'
    BY <1>1 DEF StkHeld, Has, InAll
  <2>2. \A c \in Call : StkHeld(call[c])'
    <3> SUFFICES ASSUME NEW c \in Call PROVE StkHeld(call[c])'
      OBVIOUS
    <3>1. PICK t : t = call[c] /\ t = call'[c]
      BY <1>1
    <3>2. StkHeld(t)'
      BY <1>5, <2>1, <3>1 DEF StkHolds
    <3> QED BY <3>1, <3>2 DEF StkHeld
  <2>3. \A w \in Warehouse : \A t : InBalance(g, w, t) => InBalance(g, w, t)'
    BY <1>2, InBalanceStays
  <2>4. Balances(g)'
    <3>1. ASSUME NEW w \in Warehouse, NEW c \in Call, BalanceRow(w) \in touches'[c] PROVE InBalance(g, w, call[c])'
      <4>1. PICK t : t = call[c] /\ t = call'[c]
        BY <1>1
      <4>2. InBalance(g, w, t)
        BY <1>1, <1>5, <3>1, <4>1 DEF StkHolds, Balances
      <4>3. InBalance(g, w, t)'
        BY <2>3, <4>2
      <4> QED BY <4>1, <4>3 DEF InBalance, OwesOnHand, OwesMoved, OwesLayers
    <3>2. ASSUME NEW w \in Warehouse, \A c \in Call : BalanceRow(w) \notin touches'[c] PROVE InBalance(g, w, Idle)'
      <4>1. InBalance(g, w, Idle)
        BY <1>1, <1>5, <3>2 DEF StkHolds, Balances
      <4> QED BY <2>3, <4>1
    <3> QED BY <3>1, <3>2 DEF Balances
  <2>5. Shipments(g)'
    BY <1>1, <1>5 DEF StkHolds, Shipments, Shipping, InAll
  <2> QED BY <2>2, <2>4, <2>5 DEF StkHolds
<1>6. Undisturbed' => \E g \in [Warehouse -> Nat] : StkHolds(g)'
  BY <1>1, <1>5 DEF StkKept, Undisturbed
<1> QED BY <1>4, <1>6 DEF StkKept

LEMMA CreateAdjustmentKeeps ==
  ASSUME StkKept, NEW w \in Warehouse, NEW n \in Int, CreateAdjustment(w, n)
  PROVE  StkKept'
<1>1. PICK row \in Adjustment : row = [status |-> "DRAFT", at |-> w, n |-> n]
  BY DEF Adjustment
<1>2. adjustments' = Append(adjustments, row) /\ adjustments \in Seq(Adjustment)
  BY <1>1 DEF CreateAdjustment, StkKept, StkTyped
<1>3. PICK m \in Nat : m = Len(adjustments) /\ DOMAIN adjustments = 1 .. m
  BY StkTerms DEF StkKept
<1>4. /\ adjustments' \in Seq(Adjustment) /\ DOMAIN adjustments' = 1 .. (m + 1) /\ adjustments'[m + 1] = row
      /\ \A a \in 1 .. m : adjustments'[a] = adjustments[a]
  BY <1>2, <1>3
<1>5. \A a \in DOMAIN adjustments' : a \in DOMAIN adjustments \/ a = m + 1
  BY <1>3, <1>4
<1>6. \A a \in DOMAIN adjustments : a \in DOMAIN adjustments'
  BY <1>3, <1>4
<1>7. row.status # "POSTED"
  BY <1>1
<1>8. Adjusted' <=> Adjusted
  BY <1>3, <1>4, <1>5, <1>6, <1>7 DEF Adjusted
<1> QED BY <1>4, <1>6, <1>8, StkAlone DEF CreateAdjustment

\* A line of the order, shipped.
LEMMA LineShipped ==
  ASSUME NEW sent \in Shipment, NEW k \in DOMAIN Ordered, NEW need \in Nat, NEW shipped, shipped = [sent EXCEPT ![k] = @ + need]
  PROVE  shipped \in Shipment /\ InAll(shipped) = InAll(sent) + need /\ InAll(sent) \in Int
<1>1. sent[k] \in Nat
  BY DEF Shipment
<1>2. shipped \in Shipment /\ DOMAIN shipped = DOMAIN Ordered /\ shipped[k] = sent[k] + need
      /\ \A j \in DOMAIN Ordered : k # j => shipped[j] = sent[j]
  BY <1>1 DEF Shipment
<1>3. DOMAIN sent = DOMAIN Ordered /\ (\A j \in DOMAIN Ordered : sent[j] \in Int) /\ shipped[k] \in Int
  BY <1>1, <1>2 DEF Shipment
<1>4. SumFunction(shipped) = SumFunction(sent) + (shipped[k] - sent[k]) /\ SumFunction(sent) \in Int
  BY <1>2, <1>3, OrderedFinite, SumChanged
<1> QED BY <1>1, <1>2, <1>4 DEF InAll

LEMMA WeighLineKeeps ==
  ASSUME StkKept, NEW c \in Call, WeighLine(c)
  PROVE  StkKept'
<1>1. PICK t : t = call[c]
  OBVIOUS
<1>2. /\ t \in StkCall /\ t.pc = "shipping" /\ StkKnown(t) /\ StkRows(t, touches[c]) /\ StkTyped /\ t.k <= Len(Ordered)
      /\ fifo' = fifo /\ onHand' = onHand /\ moved' = moved /\ layers' = layers /\ adjustments' = adjustments /\ salesOrder' = salesOrder /\ layered' = layered
  BY <1>1 DEF StkKept, StkTyped, WeighLine, At
<1>3. t \in [pc : {"shipping"}, k : Nat \ {0}, want : Shipment, was : Shipment, lines : Shipment]
  BY <1>2 DEF StkCall, Idle
<1>4. PICK k \in DOMAIN Ordered : k = t.k
  <2>1. DOMAIN Ordered = 1 .. Len(Ordered) /\ Len(Ordered) \in Nat
    BY StockAssumption
  <2> QED BY <1>2, <1>3, <2>1
<1>5. PICK need \in Int : need = Min({t.want[k], Ordered[k] - t.lines[k]})
  <2>1. t.want[k] \in Int /\ t.lines[k] \in Int
    BY <1>3 DEF Shipment
  <2>2. Ordered[k] \in Int
    BY StockAssumption
  <2>3. PICK x \in Int : x = Ordered[k] - t.lines[k]
    BY <2>1, <2>2
  <2>4. Min({t.want[k], x}) \in Int
    BY <2>1, LesserOf
  <2> QED BY <2>3, <2>4
<1>6. torn' = (torn \/ (need > 0 /\ need > InAll(onHand) /\ t.lines # t.was))
  BY <1>1, <1>4, <1>5 DEF WeighLine
<1>7. torn' \in BOOLEAN /\ StkGrown
  BY <1>2, <1>6 DEF StkGrown, StkLayered, StkTyped, Adjusted
<1>8. SalesRow \in touches[c]
  BY <1>2 DEF StkRows, Ships
<1>9. /\ onHand' \in [Warehouse -> Int] /\ moved' \in [Warehouse -> Int] /\ layers' \in Seq(Layer) /\ adjustments' \in Seq(Adjustment)
      /\ salesOrder' \in [status : {"DRAFT", "CONFIRMED", "COMPLETED", "CANCELLED", "SHIPPED"}, shipped : Shipment]
      /\ salesOrder'.shipped = salesOrder.shipped
  BY <1>2 DEF StkTyped
<1>10. \A v \in Warehouse : WarehouseAlone(v)
  BY <1>2 DEF WarehouseAlone
<1>11. ASSUME NEW next \in StkCall, next.pc \in Ships \union {"idle"}, StkLeaves(c, next), next.pc \in Ships => StkRows(next, touches[c]),
              \A g \in [Warehouse -> Nat] : StkHeld(t) /\ (~ torn => Shipping(g, t)) =>
                                              StkHeld(next) /\ (~ torn' => Shipping(g, next))
       PROVE  StkKept'
  <2>1. StkKnown(next)'
    BY <1>11 DEF StkKnown, Ships, Puts, Takes
  <2>2. StkRows(next, touches[c])
    BY <1>11 DEF StkRows, Ships, Puts, Takes
  <2>3. ASSUME NEW g \in [Warehouse -> Nat], StkStands(c, g) PROVE StkGives(c, next, g, g)
    <3>1. StkHeld(next) /\ (~ torn' => Shipping(g, next))
      BY <1>1, <1>8, <1>11, <2>3 DEF StkStands
    <3>2. StkHeld(next)'
      BY <1>2, <3>1 DEF StkHeld, Has, InAll
    <3>3. ASSUME NEW v \in Warehouse, BalanceRow(v) \in touches[c] PROVE InBalance(g, v, next)'
      <4>1. OwesOnHand(next, v) = 0 /\ OwesMoved(next, v) = 0 /\ OwesLayers(next, v) = 0
        BY <1>11, OwesNothing DEF Ships, Puts, Takes
      <4>2. OwesOnHand(t, v) = 0 /\ OwesMoved(t, v) = 0 /\ OwesLayers(t, v) = 0
        BY <1>2, OwesNothing DEF Puts, Takes
      <4>3. InBalance(g, v, next)
        BY <1>1, <2>3, <3>3, <4>1, <4>2 DEF InBalance, StkStands
      <4> QED BY <1>7, <1>10, <4>3, InBalanceStays
    <3>4. ~ torn' => Shipping(g, next)'
      BY <1>2, <3>1 DEF Shipping, InAll
    <3> QED BY <3>2, <3>3, <3>4 DEF StkGives
  <2>4. \A g \in [Warehouse -> Nat] : StkStands(c, g) => \E h \in [Warehouse -> Nat] : StkGives(c, next, g, h)
    BY <2>3
  <2> QED BY <1>7, <1>9, <1>10, <1>11, <2>1, <2>2, <2>4, StkActs
<1>12. CASE need <= 0 /\ Await(c, [t EXCEPT !.k = @ + 1])
  <2>1. PICK m \in Nat \ {0} : m = t.k + 1
    BY <1>3
  <2>2. PICK next : next = [pc |-> "shipping", k |-> m, want |-> t.want, was |-> t.was, lines |-> t.lines]
    OBVIOUS
  <2>3. next \in StkCall /\ next # Idle /\ next.pc \in Ships
    BY <1>3, <2>2 DEF StkCall, Ships, Idle
  <2>4. [t EXCEPT !.k = m] = next
    BY <1>3, <2>2
  <2>5. StkLeaves(c, next)
    BY <1>1, <1>2, <1>12, <2>1, <2>3, <2>4 DEF StkLeaves, Idle
  <2>6. StkRows(next, touches[c])
    BY <1>2, <2>2 DEF StkRows, Ships, Puts, Takes
  <2>7. ASSUME NEW g \in [Warehouse -> Nat], StkHeld(t), ~ torn => Shipping(g, t)
        PROVE  StkHeld(next) /\ (~ torn' => Shipping(g, next))
    <3>1. StkHeld(next)
      BY <1>2, <2>2, <2>7 DEF StkHeld, Ships
    <3>2. Shipping(g, t) => Shipping(g, next)
      BY <1>2, <2>2 DEF Shipping
    <3> QED BY <1>6, <2>7, <3>1, <3>2
  <2> QED BY <1>11, <2>3, <2>5, <2>6, <2>7
<1>13. CASE need > 0 /\ need > InAll(onHand) /\ Answer(c)
  <2>1. Idle \in StkCall /\ Idle.pc = "idle" /\ StkLeaves(c, Idle) /\ "idle" \notin Ships
    BY <1>13 DEF StkCall, StkLeaves, Idle, Ships
  <2>2. ASSUME NEW g \in [Warehouse -> Nat], StkHeld(t), ~ torn => Shipping(g, t)
        PROVE  StkHeld(Idle) /\ (~ torn' => Shipping(g, Idle))
    <3>1. StkHeld(Idle)
      BY DEF StkHeld, Ships, Idle
    <3>2. t.was = salesOrder.shipped
      BY <1>2, <2>2 DEF StkHeld, Ships
    <3>3. ASSUME ~ torn' PROVE Shipping(g, Idle)
      <4>1. ~ torn /\ t.lines = t.was
        BY <1>6, <1>13, <3>3
      <4> QED BY <1>2, <2>2, <3>2, <4>1 DEF Shipping, Idle
    <3> QED BY <3>1, <3>3
  <2> QED BY <1>11, <2>1, <2>2
<1>14. CASE /\ need > 0 /\ need <= InAll(onHand)
            /\ Await(c, [pc |-> "relieving", k |-> t.k, want |-> t.want, was |-> t.was, lines |-> [t.lines EXCEPT ![t.k] = @ + need],
                         seen |-> onHand, need |-> need, todo |-> Warehouse])
  <2>1. need \in Nat
    BY <1>14
  <2>2. PICK sent : sent = [t.lines EXCEPT ![k] = @ + need]
    OBVIOUS
  <2>3. sent \in Shipment /\ InAll(sent) = InAll(t.lines) + need /\ InAll(t.lines) \in Int
    <3>1. t.lines \in Shipment
      BY <1>3
    <3> QED BY <2>1, <2>2, <3>1, LineShipped
  <2>4. PICK next : next = [pc |-> "relieving", k |-> t.k, want |-> t.want, was |-> t.was, lines |-> sent,
                            seen |-> onHand, need |-> need, todo |-> Warehouse]
    OBVIOUS
  <2>5. next \in StkCall /\ next # Idle /\ next.pc \in Ships
    <3>1. onHand \in [Warehouse -> Int]
      BY <1>2 DEF StkTyped
    <3>2. next \in [pc : {"relieving"}, k : Nat \ {0}, want : Shipment, was : Shipment, lines : Shipment,
                    seen : [Warehouse -> Int], need : Nat, todo : SUBSET Warehouse]
      BY <1>3, <2>1, <2>3, <2>4, <3>1
    <3> QED BY <2>4, <3>2 DEF StkCall, Ships, Idle
  <2>6. StkLeaves(c, next)
    BY <1>1, <1>2, <1>4, <1>14, <2>2, <2>4, <2>5 DEF StkLeaves, Idle
  <2>7. StkRows(next, touches[c])
    BY <1>2, <2>4 DEF StkRows, Ships, Puts, Takes
  <2>8. ASSUME NEW g \in [Warehouse -> Nat], StkHeld(t), ~ torn => Shipping(g, t)
        PROVE  StkHeld(next) /\ (~ torn' => Shipping(g, next))
    <3>1. StkHeld(next)
      BY <1>2, <1>14, <2>4, <2>8 DEF StkHeld, Ships
    <3>2. Shipping(g, t) => Shipping(g, next)
      BY <1>2, <2>1, <2>3, <2>4 DEF Shipping
    <3> QED BY <1>6, <2>8, <3>1, <3>2
  <2> QED BY <1>11, <2>5, <2>6, <2>7, <2>8
<1>15. \/ need <= 0 /\ Await(c, [t EXCEPT !.k = @ + 1])
       \/ need > 0 /\ need > InAll(onHand) /\ Answer(c)
       \/ /\ need > 0 /\ need <= InAll(onHand)
          /\ Await(c, [pc |-> "relieving", k |-> t.k, want |-> t.want, was |-> t.was, lines |-> [t.lines EXCEPT ![t.k] = @ + need],
                       seen |-> onHand, need |-> need, todo |-> Warehouse])
  BY <1>1, <1>4, <1>5 DEF WeighLine
<1> QED BY <1>12, <1>13, <1>14, <1>15

LEMMA RelieveKeeps ==
  ASSUME StkKept, NEW c \in Call, Relieve(c)
  PROVE  StkKept'
<1>1. PICK t : t = call[c]
  OBVIOUS
<1>2. /\ t \in StkCall /\ t.pc = "relieving" /\ StkKnown(t) /\ StkRows(t, touches[c]) /\ StkTyped /\ t.need > 0
      /\ fifo' = fifo /\ moved' = moved /\ layers' = layers /\ adjustments' = adjustments /\ salesOrder' = salesOrder /\ layered' = layered /\ torn' = torn
  BY <1>1 DEF StkKept, StkTyped, Relieve, At
<1>3. t \in [pc : {"relieving"}, k : Nat \ {0}, want : Shipment, was : Shipment, lines : Shipment,
             seen : [Warehouse -> Int], need : Nat, todo : SUBSET Warehouse]
  BY <1>2 DEF StkCall, Idle
<1>4. PICK w \in t.todo :
        /\ t.seen[w] > 0
        /\ onHand' = [onHand EXCEPT ![w] = t.seen[w] - Min({t.need, t.seen[w]})]
        /\ Await(c, [t EXCEPT !.need = @ - Min({t.need, t.seen[w]}), !.todo = @ \ {w}])
  BY <1>1 DEF Relieve
<1>5. PICK n \in Nat, x \in Nat : n = t.need /\ x = t.seen[w]
  <2>1. t.need \in Nat /\ t.seen[w] \in Int
    BY <1>3
  <2>2. t.seen[w] \in Nat
    BY <1>4, <2>1
  <2> QED BY <2>1, <2>2
<1>6. PICK take \in Nat : take = Min({n, x}) /\ take <= n /\ take <= x /\ (take < n => take = x)
  <2>1. Min({n, x}) = IF n <= x THEN n ELSE x
    BY LesserOf
  <2> QED BY <2>1
<1>7. PICK m \in Nat, T \in SUBSET Warehouse : m = n - take /\ T = t.todo \ {w}
  <2>1. n - take \in Nat /\ t.todo \ {w} \in SUBSET Warehouse
    BY <1>3, <1>6
  <2> QED BY <2>1
<1>8. PICK next : next = [pc |-> "relieving", k |-> t.k, want |-> t.want, was |-> t.was, lines |-> t.lines,
                          seen |-> t.seen, need |-> m, todo |-> T]
  OBVIOUS
<1>9. next \in StkCall /\ next # Idle /\ next.pc \in Ships
  <2>1. next \in [pc : {"relieving"}, k : Nat \ {0}, want : Shipment, was : Shipment, lines : Shipment,
                  seen : [Warehouse -> Int], need : Nat, todo : SUBSET Warehouse]
    BY <1>3, <1>8
  <2> QED BY <1>8, <2>1 DEF StkCall, Ships, Idle
<1>10. StkLeaves(c, next)
  <2>1. PICK u : u = [t EXCEPT !.need = m]
    OBVIOUS
  <2>2. u = [pc |-> "relieving", k |-> t.k, want |-> t.want, was |-> t.was, lines |-> t.lines,
             seen |-> t.seen, need |-> m, todo |-> t.todo]
    BY <1>3, <2>1
  <2>3. [u EXCEPT !.todo = T] = next
    BY <1>8, <2>2
  <2>4. [t EXCEPT !.need = m, !.todo = T] = next
    BY <1>3, <2>1, <2>3
  <2>5. Await(c, next)
    BY <1>4, <1>5, <1>6, <1>7, <2>4
  <2> QED BY <1>1, <1>2, <1>9, <2>5 DEF StkLeaves, Idle
<1>11. StkKnown(next)' /\ StkRows(next, touches[c]) /\ StkGrown
  BY <1>2, <1>8 DEF StkKnown, StkRows, StkGrown, StkLayered, StkTyped, Adjusted, Puts, Takes, Ships
<1>12. w \in Warehouse /\ SalesRow \in touches[c] /\ \A v \in Warehouse : BalanceRow(v) \in touches[c]
  BY <1>2, <1>3 DEF StkRows, Ships, AllBalances
<1>13. onHand' = [onHand EXCEPT ![w] = x - take]
  BY <1>4, <1>5, <1>6
<1>14. onHand' \in [Warehouse -> Int]
  <2>1. PICK k \in Int : k = x - take
    OBVIOUS
  <2>2. onHand \in [Warehouse -> Int] /\ onHand' = [onHand EXCEPT ![w] = k]
    BY <1>2, <1>13, <2>1 DEF StkTyped
  <2> QED BY <2>2
<1>15. ASSUME NEW g \in [Warehouse -> Nat], StkStands(c, g) PROVE \E h \in [Warehouse -> Nat] : StkGives(c, next, g, h)
  <2>1. StkHeld(t) /\ (\A v \in Warehouse : InBalance(g, v, t)) /\ (~ torn => Shipping(g, t))
    BY <1>1, <1>12, <1>15 DEF StkStands
  <2>2. onHand[w] = x
    BY <1>2, <1>5, <2>1 DEF StkHeld
  <2>3. onHand'[w] = x - take /\ (\A v \in Warehouse : w # v => onHand'[v] = onHand[v]) /\ onHand \in [Warehouse -> Int]
    BY <1>2, <1>12, <1>13 DEF StkTyped
  <2>4. InAll(onHand') = InAll(onHand) - take /\ InAll(onHand) \in Int
    <3>1. /\ IsFiniteSet(Warehouse) /\ DOMAIN onHand = Warehouse /\ DOMAIN onHand' = Warehouse
          /\ \A v \in Warehouse : onHand[v] \in Int
      BY <1>14, <2>3, StockAssumption
    <3>2. onHand'[w] \in Int /\ onHand'[w] - onHand[w] = 0 - take
      BY <2>2, <2>3
    <3>3. SumFunction(onHand') = SumFunction(onHand) + (onHand'[w] - onHand[w]) /\ SumFunction(onHand) \in Int
      BY <1>12, <2>3, <3>1, <3>2, SumChanged
    <3> QED BY <3>2, <3>3 DEF InAll
  <2>5. PICK h : h = [g EXCEPT ![w] = @ + take]
    OBVIOUS
  <2>6. h \in [Warehouse -> Nat] /\ h[w] = g[w] + take /\ \A v \in Warehouse : w # v => h[v] = g[v]
    BY <1>12, <2>5
  <2>7. InAll(h) = InAll(g) + take /\ InAll(g) \in Int
    <3>1. /\ IsFiniteSet(Warehouse) /\ DOMAIN g = Warehouse /\ DOMAIN h = Warehouse /\ \A v \in Warehouse : g[v] \in Int
      BY <2>6, StockAssumption
    <3>2. h[w] \in Int /\ h[w] - g[w] = take
      BY <1>12, <2>6
    <3>3. SumFunction(h) = SumFunction(g) + (h[w] - g[w]) /\ SumFunction(g) \in Int
      BY <1>12, <2>6, <3>1, <3>2, SumChanged
    <3> QED BY <3>2, <3>3 DEF InAll
  <2>8. StkHeld(next)'
    <3>1. t.was = salesOrder'.shipped
      BY <1>2, <2>1 DEF StkHeld, Ships
    <3>2. /\ \A v \in t.todo : t.seen[v] = onHand[v]
          /\ n <= InAll(onHand) /\ \A v \in Warehouse \ t.todo : onHand[v] <= 0
      BY <1>2, <1>5, <2>1 DEF StkHeld
    <3>3. \A v \in T : t.seen[v] = onHand'[v]
      BY <1>7, <2>3, <3>2
    <3>4. m <= InAll(onHand')
      BY <1>7, <2>4, <3>2
    <3>5. ASSUME m > 0, NEW v \in Warehouse \ T PROVE onHand'[v] <= 0
      <4>1. take = x
        BY <1>6, <1>7, <3>5
      <4>2. CASE v = w
        BY <2>3, <4>1, <4>2
      <4>3. CASE v # w
        BY <1>7, <2>3, <3>2, <4>3
      <4> QED BY <4>2, <4>3
    <3> QED BY <1>8, <3>1, <3>3, <3>4, <3>5 DEF StkHeld, Ships, InAll
  <2>9. ASSUME NEW v \in Warehouse PROVE InBalance(h, v, next)'
    <3>1. OwesOnHand(next, v) = 0 /\ OwesMoved(next, v) = 0 /\ OwesLayers(next, v) = 0
      BY <1>8, OwesNothing DEF Puts, Takes
    <3>2. OwesOnHand(t, v) = 0 /\ OwesMoved(t, v) = 0 /\ OwesLayers(t, v) = 0
      BY <1>2, OwesNothing DEF Puts, Takes
    <3>3. InBalance(g, v, t) /\ onHand[v] \in Int /\ moved[v] \in Int /\ g[v] \in Nat
      BY <1>2, <2>1, StkTerms
    <3>4. onHand[v] = moved[v] - g[v] /\ (layered /\ ~ Adjusted => LayersAt(v) + 0 = moved[v] + 0)
      BY <3>2, <3>3 DEF InBalance
    <3>5. onHand'[v] = moved[v] - h[v]
      <4>1. CASE v = w
        BY <2>2, <2>3, <2>6, <3>3, <3>4, <4>1
      <4>2. CASE v # w
        BY <2>3, <2>6, <3>4, <4>2
      <4> QED BY <4>1, <4>2
    <3>6. onHand'[v] \in Int /\ h[v] \in Int
      BY <1>14, <2>6
    <3>7. LayersAt(v)' = LayersAt(v)
      BY <1>2 DEF LayersAt
    <3>8. layered' /\ ~ Adjusted' => LayersAt(v) + OwesLayers(next, v) = moved'[v] + OwesMoved(next, v)
      BY <1>2, <3>1, <3>4 DEF Adjusted
    <3>9. onHand'[v] + OwesOnHand(next, v) = moved'[v] + OwesMoved(next, v) - h[v]
      BY <1>2, <3>1, <3>3, <3>5, <3>6
    <3> QED BY <3>7, <3>8, <3>9 DEF InBalance, OwesOnHand, OwesMoved, OwesLayers, Has
  <2>10. ~ torn' => Shipping(h, next)'
    <3>1. InAll(t.lines) \in Int
      <4>1. IsFiniteSet(DOMAIN Ordered) /\ DOMAIN t.lines = DOMAIN Ordered /\ \A k \in DOMAIN Ordered : t.lines[k] \in Int
        BY <1>3, OrderedFinite DEF Shipment
      <4> QED BY <4>1, SumStep DEF InAll, SumFunction
    <3>2. ~ torn' => InAll(g) = InAll(t.lines) - n
      BY <1>2, <1>5, <2>1 DEF Shipping
    <3>3. ~ torn' => InAll(h) = InAll(t.lines) - m
      BY <1>7, <2>7, <3>1, <3>2
    <3> QED BY <1>8, <3>3 DEF Shipping
  <2>11. StkGives(c, next, g, h)
    BY <1>12, <2>8, <2>9, <2>10 DEF StkGives
  <2> QED BY <2>6, <2>11
<1>16. /\ moved' \in [Warehouse -> Int] /\ layers' \in Seq(Layer) /\ adjustments' \in Seq(Adjustment) /\ torn' \in BOOLEAN
       /\ salesOrder' \in [status : {"DRAFT", "CONFIRMED", "COMPLETED", "CANCELLED", "SHIPPED"}, shipped : Shipment]
       /\ salesOrder'.shipped = salesOrder.shipped
  BY <1>2 DEF StkTyped
<1> QED BY <1>9, <1>10, <1>11, <1>12, <1>14, <1>15, <1>16, StkActs

-----------------------------------------------------------------------------
LEMMA StockStarts == StockInit => StkKept
<1> SUFFICES ASSUME StockInit PROVE StkKept
  OBVIOUS
<1>1. /\ RequestsInit /\ fifo \in BOOLEAN /\ layers = <<>> /\ adjustments = <<>> /\ layered = fifo /\ torn = FALSE
      /\ onHand = [w \in Warehouse |-> 0] /\ moved = [w \in Warehouse |-> 0]
      /\ salesOrder = [status |-> "DRAFT", shipped |-> [k \in DOMAIN Ordered |-> 0]]
      /\ \A c \in Call : call[c] = Idle /\ touches[c] = {}
  BY DEF StockInit, RequestsInit
<1>2. \A c \in Call : StkKnown(call[c]) /\ StkRows(call[c], touches[c]) /\ StkHeld(call[c])
  BY <1>1 DEF StkKnown, StkRows, StkHeld, Idle, Puts, Takes, Ships
<1>3. StkTyped
  <2>1. call \in [Call -> StkCall]
    BY DEF StockInit, RequestsInit, StkCall
  <2>2. /\ onHand \in [Warehouse -> Int] /\ moved \in [Warehouse -> Int]
        /\ salesOrder \in [status : {"DRAFT", "CONFIRMED", "COMPLETED", "CANCELLED", "SHIPPED"}, shipped : Shipment]
    BY <1>1 DEF Shipment
  <2>3. layers \in Seq(Layer) /\ adjustments \in Seq(Adjustment)
    BY <1>1
  <2>4. StkLayered
    BY <1>1 DEF StkLayered
  <2> QED BY <1>1, <1>2, <2>1, <2>2, <2>3, <2>4, ApartStarts DEF StkTyped
<1>4. PICK g \in [Warehouse -> Nat] : g = [w \in Warehouse |-> 0]
  OBVIOUS
<1>5. InAll(g) = 0
  BY <1>4, StockAssumption, SumZero DEF InAll, SumFunction
<1>6. InAll(salesOrder.shipped) = 0
  <2>1. PICK f : f = salesOrder.shipped /\ DOMAIN f = DOMAIN Ordered /\ \A k \in DOMAIN Ordered : f[k] = 0
    BY <1>1
  <2>2. SumFunction(f) = 0
    BY <2>1, OrderedFinite, SumZero DEF SumFunction
  <2> QED BY <2>1, <2>2 DEF InAll
<1>7. ASSUME NEW w \in Warehouse PROVE InBalance(g, w, Idle)
  <2>1. OwesOnHand(Idle, w) = 0 /\ OwesMoved(Idle, w) = 0 /\ OwesLayers(Idle, w) = 0
    BY DEF Idle, OwesOnHand, OwesMoved, OwesLayers, Puts
  <2>2. LayersAt(w) = 0
    <3>1. \A i \in LayersOf(w) : layers[i].left = 0
      BY <1>1 DEF LayersOf
    <3> QED BY <1>3, <3>1, LayersSum
  <2> QED BY <1>1, <1>4, <2>1, <2>2 DEF InBalance
<1>8. StkHolds(g)
  BY <1>1, <1>2, <1>5, <1>6, <1>7 DEF StkHolds, Balances, Shipments, Shipping, Idle
<1> QED BY <1>3, <1>8 DEF StkKept

\* Every step keeps what the proof carries along.
LEMMA StockSteps == StkKept /\ [StockNext]_<<stockVars, requestVars>> => StkKept'
<1> SUFFICES ASSUME StkKept, [StockNext]_<<stockVars, requestVars>> PROVE StkKept'
  OBVIOUS
<1>1. CASE UNCHANGED <<stockVars, requestVars>>
  <2>1. UNCHANGED <<fifo, onHand, moved, layers, salesOrder, layered, torn>> /\ UNCHANGED requestVars /\ adjustments' = adjustments
    BY <1>1 DEF stockVars
  <2>2. adjustments' \in Seq(Adjustment) /\ (Adjusted' <=> Adjusted)
    BY <2>1 DEF StkKept, StkTyped, Adjusted
  <2> QED BY <2>1, <2>2, StkAlone
<1>2. ASSUME NEW w \in Warehouse, NEW n \in Changes, CreateAdjustment(w, n) PROVE StkKept'
  <2>1. n \in Int
    BY StockAssumption
  <2> QED BY <1>2, <2>1, CreateAdjustmentKeeps
<1>3. ASSUME NEW c \in Call, NEW w \in Warehouse, NEW n \in Units, BeginReceive(c, w, n) PROVE StkKept'
  <2>1. n \in Int
    BY StockAssumption
  <2> QED BY <1>3, <2>1, BeginReceiveKeeps
<1>4. ASSUME NEW c \in Call, NEW w \in Warehouse, NEW n \in Units, NEW to \in Warehouse \union {Nowhere}, BeginTake(c, w, n, to)
      PROVE  StkKept'
  <2>1. n \in Int /\ to \in Target
    BY StockAssumption DEF Target
  <2> QED BY <1>4, <2>1, BeginTakeKeeps
<1>5. ASSUME NEW c \in Call, ReadOnHand(c) PROVE StkKept'
  BY <1>5, ReadOnHandKeeps
<1>6. ASSUME NEW c \in Call, WritePlace(c) PROVE StkKept'
  BY <1>6, WritePlaceKeeps
<1>7. ASSUME NEW c \in Call, ListLayers(c) PROVE StkKept'
  BY <1>7, ListLayersKeeps
<1>8. ASSUME NEW c \in Call, ConsumeLayer(c) PROVE StkKept'
  BY <1>8, ConsumeLayerKeeps
<1>9. ASSUME NEW c \in Call, EndLayers(c) PROVE StkKept'
  BY <1>9, EndLayersKeeps
<1>10. ASSUME NEW c \in Call, SaveTaken(c) PROVE StkKept'
  BY <1>10, SaveTakenKeeps
<1>11. ASSUME NEW c \in Call, BookTaken(c) PROVE StkKept'
  BY <1>11, BookTakenKeeps
<1>12. ASSUME NEW c \in Call, NEW a \in DOMAIN adjustments, BeginAdjust(c, a) PROVE StkKept'
  BY <1>12, BeginAdjustKeeps
<1>13. ASSUME NEW c \in Call, SaveAdjusted(c) PROVE StkKept'
  BY <1>13, SaveAdjustedKeeps
<1>14. ASSUME NEW c \in Call, NEW verb \in DOMAIN SalesFrom, ReadSales(c, verb) PROVE StkKept'
  BY <1>14, ReadSalesKeeps
<1>15. ASSUME NEW c \in Call, SaveSales(c) PROVE StkKept'
  BY <1>15, SaveSalesKeeps
<1>16. ASSUME NEW c \in Call, NEW want \in [DOMAIN Ordered -> UNION {0 .. n : n \in Range(Ordered)}], BeginShip(c, want) PROVE StkKept'
  <2>1. UNION {0 .. n : n \in Range(Ordered)} \subseteq Nat
    OBVIOUS
  <2>2. want \in Shipment
    BY <2>1 DEF Shipment
  <2> QED BY <1>16, <2>2, BeginShipKeeps
<1>17. ASSUME NEW c \in Call, WeighLine(c) PROVE StkKept'
  BY <1>17, WeighLineKeeps
<1>18. ASSUME NEW c \in Call, Relieve(c) PROVE StkKept'
  BY <1>18, RelieveKeeps
<1>19. ASSUME NEW c \in Call, EndLine(c) PROVE StkKept'
  BY <1>19, EndLineKeeps
<1>20. ASSUME NEW c \in Call, SaveShippedLines(c) PROVE StkKept'
  BY <1>20, SaveShippedLinesKeeps
<1>21. ASSUME NEW c \in Call, PerishInStock(c) PROVE StkKept'
  BY <1>21, PerishInStockKeeps
<1>22. ASSUME NEW c \in Call, LayersShort(c) PROVE StkKept'
  BY <1>22, LayersShortKeeps
<1>23. ASSUME NEW c \in Call, NEW method \in BOOLEAN, ReadItemRow(c, method) PROVE StkKept'
  BY <1>23, ReadItemKeeps
<1>24. ASSUME NEW c \in Call, SaveItemRow(c) PROVE StkKept'
  BY <1>24, SaveItemKeeps
<1> QED BY <1>1, <1>2, <1>3, <1>4, <1>5, <1>6, <1>7, <1>8, <1>9, <1>10, <1>11, <1>12, <1>13, <1>14, <1>15, <1>16, <1>17, <1>18,
           <1>19, <1>20, <1>21, <1>22, <1>23, <1>24
        DEF StockNext

LEMMA StockInAgreement == StkKept => StockAgrees
<1> SUFFICES ASSUME StkKept, Undisturbed, Quiet, ~ torn
             PROVE  /\ InAll(onHand) = InAll(moved) - InAll(salesOrder.shipped)
                    /\ InAll(salesOrder.shipped) = 0 => onHand = moved
                    /\ layered /\ ~ Adjusted => \A w \in Warehouse : LayersAt(w) = moved[w]
  BY DEF StockAgrees
<1>1. StkTyped /\ \A c \in Call : touches[c] = {}
  BY DEF StkKept, StkTyped, Apart, Quiet
<1>2. PICK g \in [Warehouse -> Nat] : StkHolds(g)
  BY DEF StkKept
<1>3. ASSUME NEW w \in Warehouse
      PROVE  /\ onHand[w] = moved[w] - g[w] /\ (layered /\ ~ Adjusted => LayersAt(w) = moved[w])
             /\ onHand[w] \in Int /\ moved[w] \in Int /\ g[w] \in Nat
  <2>1. InBalance(g, w, Idle)
    BY <1>1, <1>2 DEF StkHolds, Balances
  <2>2. OwesOnHand(Idle, w) = 0 /\ OwesMoved(Idle, w) = 0 /\ OwesLayers(Idle, w) = 0
    BY DEF Idle, OwesOnHand, OwesMoved, OwesLayers, Puts
  <2>3. onHand[w] \in Int /\ moved[w] \in Int /\ g[w] \in Nat /\ LayersAt(w) \in Int
    BY <1>1, StkTerms, LayersSum
  <2> QED BY <2>1, <2>2, <2>3 DEF InBalance
<1>4. InAll(g) = InAll(salesOrder.shipped)
  BY <1>1, <1>2 DEF StkHolds, Shipments, Shipping, Idle
<1>5. IsFiniteSet(Warehouse) /\ DOMAIN g = Warehouse /\ DOMAIN onHand = Warehouse /\ DOMAIN moved = Warehouse
  BY <1>1, StockAssumption DEF StkTyped
<1>6. InAll(moved) = InAll(onHand) + InAll(g) /\ InAll(onHand) \in Int /\ InAll(g) \in Int
  <2>1. \A w \in Warehouse : onHand[w] \in Int /\ g[w] \in Int /\ moved[w] = onHand[w] + g[w]
    <3> SUFFICES ASSUME NEW w \in Warehouse PROVE onHand[w] \in Int /\ g[w] \in Int /\ moved[w] = onHand[w] + g[w]
      OBVIOUS
    <3> QED BY <1>3
  <2>2. SumFunctionOnSet(moved, Warehouse) = SumFunctionOnSet(onHand, Warehouse) + SumFunctionOnSet(g, Warehouse)
    BY <1>5, <2>1, SumPlus
  <2>3. SumFunctionOnSet(onHand, Warehouse) \in Int /\ SumFunctionOnSet(g, Warehouse) \in Int
    BY <1>5, <2>1, SumStep
  <2> QED BY <1>5, <2>2, <2>3 DEF InAll, SumFunction
<1>7. InAll(onHand) = InAll(moved) - InAll(salesOrder.shipped)
  BY <1>4, <1>6
<1>8. ASSUME InAll(salesOrder.shipped) = 0 PROVE onHand = moved
  <2>1. SumFunctionOnSet(g, Warehouse) = 0
    BY <1>4, <1>5, <1>8 DEF InAll, SumFunction
  <2>2. \A w \in Warehouse : g[w] \in Nat
    OBVIOUS
  <2>3. \A w \in Warehouse : g[w] = 0
    BY <1>5, <2>1, <2>2, SumNatural
  <2>4. \A w \in Warehouse : onHand[w] = moved[w]
    BY <1>3, <2>3
  <2>5. onHand \in [Warehouse -> Int] /\ moved \in [Warehouse -> Int]
    BY <1>1 DEF StkTyped
  <2> QED BY <2>4, <2>5
<1> QED BY <1>3, <1>7, <1>8

\* The balances, the stock ledger, the FIFO layers and the lines of the sales order tell
\* the same of the stock between requests that did not overlap, for any warehouses,
\* quantities of either sign, adjustments, updates of the item, orders and requests (receiveStock, issueStock, transferStock,
\* consumeFifoLayers, postAdjustment, shipOrder).
THEOREM StockAlwaysAgrees == StockSpec => []StockAgrees
BY StockStarts, StockSteps, StockInAgreement, PTL DEF StockSpec

-----------------------------------------------------------------------------
(* Goods receipts and invoices.                                              *)

Payable == {"APPROVED", "PARTIALLY_PAID", "PAID"}
InvoiceStatus == {"DRAFT", "SUBMITTED", "UNDER_REVIEW", "MATCHED", "REJECTED"} \union Payable
Invoice == [status : InvoiceStatus, match : {"NOT_MATCHED", "MATCHED", "BLOCKED"}, total : Nat, paid : Nat]
GrirRow == [type : {"GR", "IV"}, of : Nat, amount : Nat, status : {"OPEN", "CLEARED"}, with : Nat]
ClearCall ==
  {Idle}
  \union [pc : {"invoicing"}, i : Nat, verb : InvoiceVerb, seen : Invoice]
  \union [pc : {"clearing"}, i : Nat, amount : Nat]
  \union [pc : {"gathering"}]
  \union [pc : {"pairing"}, grs : SUBSET Nat, ivs : SUBSET Nat, listed : BOOLEAN]
  \union [pc : {"linking"}, grs : SUBSET Nat, ivs : SUBSET Nat, pair : Nat \X Nat]

\* What a request refers to exists, and it works on these rows.
ClearKnown(t) ==
  /\ t.pc \in {"invoicing", "clearing"} => t.i \in DOMAIN invoices
  /\ t.pc = "invoicing" => Accepts(t.verb, t.seen)
  /\ t.pc \in {"pairing", "linking"} => t.grs \subseteq DOMAIN clearing /\ t.ivs \subseteq DOMAIN clearing
  /\ t.pc = "linking" => t.pair[1] \in DOMAIN clearing /\ t.pair[2] \in DOMAIN clearing
ClearsRows(t, R) ==
  /\ t.pc \in {"invoicing", "clearing"} => InvoiceRow(t.i) \in R
  /\ t.pc \in {"clearing", "gathering", "pairing", "linking"} \/ (t.pc = "invoicing" /\ t.verb = "approve") => ClearingRows \in R

\* An entry's invoice exists.
OfInvoices == \A i : EntriesOf(i) # {} => i \in DOMAIN invoices

ClearTyped ==
  /\ invoices \in Seq(Invoice) /\ clearing \in Seq(GrirRow)
  /\ call \in [Call -> ClearCall]
  /\ \A c \in Call : ClearKnown(call[c]) /\ ClearsRows(call[c], touches[c])
  /\ OfInvoices
  /\ Apart

\* What a request has read is what is stored.
ClearHeld(t) ==
  /\ t.pc = "invoicing" => t.seen = invoices[t.i]
  /\ t.pc = "clearing" => invoices[t.i].status = "APPROVED" /\ EntriesOf(t.i) = {}
  /\ t.pc \in {"pairing", "linking"} => t.grs \subseteq Open("GR") /\ t.ivs \subseteq Open("IV")
  /\ t.pc = "linking" =>
       /\ t.pair[2] \in Open("IV") \ t.ivs
       /\ clearing[t.pair[1]].type = "GR" /\ clearing[t.pair[1]].with = t.pair[2] /\ clearing[t.pair[1]].status = "CLEARED"
       /\ clearing[t.pair[1]].amount = clearing[t.pair[2]].amount

Paired(e) ==
  LET w == clearing[e].with
  IN /\ w \in DOMAIN clearing /\ clearing[w].status = "CLEARED" /\ clearing[w].with = e
     /\ clearing[w].type # clearing[e].type /\ clearing[w].amount = clearing[e].amount

Entering(i) == \E c \in Call : call[c].pc = "clearing" /\ call[c].i = i
Linking(e) == \E c \in Call : call[c].pc = "linking" /\ call[c].pair[1] = e

InvoiceKept(i) ==
  /\ \A e, f \in EntriesOf(i) : e = f
  /\ EntriesOf(i) # {} => invoices[i].status \in Payable \union {"REJECTED"}
  /\ faults = 0 /\ invoices[i].status \in Payable => EntriesOf(i) # {} \/ Entering(i)

ClearingHolds ==
  /\ \A c \in Call : ClearHeld(call[c])
  /\ \A i \in DOMAIN invoices : InvoiceKept(i)
  /\ faults = 0 => \A e \in DOMAIN clearing : clearing[e].status = "CLEARED" => Paired(e) \/ Linking(e)

ClearKept == ClearTyped /\ (disjoint => ClearingHolds)

-----------------------------------------------------------------------------
LEMMA ClearCallForms ==
  ASSUME NEW t \in ClearCall
  PROVE  /\ t.pc \in {"idle", "invoicing", "clearing", "gathering", "pairing", "linking"} /\ (t = Idle <=> t.pc = "idle")
         /\ t.pc = "invoicing" => t \in [pc : {"invoicing"}, i : Nat, verb : InvoiceVerb, seen : Invoice]
         /\ t.pc = "clearing" => t \in [pc : {"clearing"}, i : Nat, amount : Nat]
         /\ t.pc = "pairing" => t \in [pc : {"pairing"}, grs : SUBSET Nat, ivs : SUBSET Nat, listed : BOOLEAN]
         /\ t.pc = "linking" => t \in [pc : {"linking"}, grs : SUBSET Nat, ivs : SUBSET Nat, pair : Nat \X Nat]
BY DEF ClearCall, Idle

LEMMA ClearTerms ==
  ASSUME ClearTyped
  PROVE  /\ Len(invoices) \in Nat /\ DOMAIN invoices = 1 .. Len(invoices) /\ \A i \in DOMAIN invoices : invoices[i] \in Invoice
         /\ Len(clearing) \in Nat /\ DOMAIN clearing = 1 .. Len(clearing) /\ \A e \in DOMAIN clearing : clearing[e] \in GrirRow
<1>1. Len(invoices) \in Nat /\ DOMAIN invoices = 1 .. Len(invoices) /\ \A i \in DOMAIN invoices : invoices[i] \in Invoice
  BY DEF ClearTyped
<1>2. Len(clearing) \in Nat /\ DOMAIN clearing = 1 .. Len(clearing) /\ \A e \in DOMAIN clearing : clearing[e] \in GrirRow
  BY DEF ClearTyped
<1> QED BY <1>1, <1>2

\* What no step takes back.
ClearGrown ==
  /\ \A i \in DOMAIN invoices : i \in DOMAIN invoices'
  /\ \A e \in DOMAIN clearing : e \in DOMAIN clearing'

\* What a step leaves alone of what a request at t, working on R, refers to.
Untouched(t, R) ==
  /\ \A i \in DOMAIN invoices : InvoiceRow(i) \in R => invoices'[i] = invoices[i] /\ EntriesOf(i)' = EntriesOf(i)
  /\ ClearingRows \in R => \A e \in DOMAIN clearing : clearing'[e] = clearing[e]

LEMMA ClearHeldStays ==
  ASSUME ClearGrown, NEW t \in ClearCall, NEW R, ClearKnown(t), ClearsRows(t, R)
  PROVE  ClearKnown(t)' /\ (Untouched(t, R) /\ ClearHeld(t) => ClearHeld(t)')
<1>1. ClearKnown(t)'
  BY DEF ClearKnown, ClearGrown, Accepts
<1>2. ASSUME Untouched(t, R), ClearHeld(t) PROVE ClearHeld(t)'
  <2>1. t.pc \in {"invoicing", "clearing"} => t.i \in DOMAIN invoices /\ invoices'[t.i] = invoices[t.i] /\ EntriesOf(t.i)' = EntriesOf(t.i)
    BY <1>2 DEF ClearKnown, ClearsRows, Untouched
  <2>2. t.pc \in {"pairing", "linking"} => \A e \in DOMAIN clearing : e \in DOMAIN clearing' /\ clearing'[e] = clearing[e]
    BY <1>2 DEF ClearsRows, Untouched, ClearGrown
  <2>3. t.pc = "invoicing" => t.seen = invoices'[t.i]
    BY <1>2, <2>1 DEF ClearHeld
  <2>4. t.pc = "clearing" => invoices'[t.i].status = "APPROVED" /\ EntriesOf(t.i)' = {}
    BY <1>2, <2>1 DEF ClearHeld
  <2>5. t.pc \in {"pairing", "linking"} => Open("GR") \subseteq Open("GR")' /\ Open("IV") \subseteq Open("IV")'
    BY <2>2 DEF Open
  <2>6. t.pc \in {"pairing", "linking"} => t.grs \subseteq Open("GR")' /\ t.ivs \subseteq Open("IV")'
    BY <1>2, <2>5 DEF ClearHeld
  <2>7. t.pc = "linking" =>
          /\ t.pair[2] \in Open("IV")' \ t.ivs
          /\ clearing'[t.pair[1]].type = "GR" /\ clearing'[t.pair[1]].with = t.pair[2] /\ clearing'[t.pair[1]].status = "CLEARED"
          /\ clearing'[t.pair[1]].amount = clearing'[t.pair[2]].amount
    BY <1>2, <2>2, <2>5 DEF ClearHeld, ClearKnown
  <2> QED BY <2>3, <2>4, <2>6, <2>7 DEF ClearHeld
<1> QED BY <1>1, <1>2

\* Request c makes a step on rows of its own, and keeps its part.
LEMMA ClearFrame ==
  ASSUME ClearKept, NEW c \in Call, ClearGrown, Apart', Moved(c), NEW next \in ClearCall, call'[c] = next,
         invoices' \in Seq(Invoice), clearing' \in Seq(GrirRow),
         ClearKnown(next)', ClearsRows(next, touches'[c]), OfInvoices',
         \A i \in DOMAIN invoices : InvoiceRow(i) \notin touches[c] => invoices'[i] = invoices[i] /\ EntriesOf(i)' = EntriesOf(i),
         ClearingRows \notin touches[c] => \A e \in DOMAIN clearing : clearing'[e] = clearing[e],
         disjoint' /\ ClearingHolds => ClearHeld(next)',
         disjoint' /\ ClearingHolds => \A i \in DOMAIN invoices' : InvoiceKept(i)',
         disjoint' /\ ClearingHolds => (faults' = 0 => \A e \in DOMAIN clearing' : clearing'[e].status = "CLEARED" => Paired(e)' \/ Linking(e)')
  PROVE  ClearKept'
<1>1. ClearTyped /\ Apart
  BY DEF ClearKept, ClearTyped
<1>2. ASSUME NEW d \in Call \ {c}
      PROVE  /\ ClearKnown(call[d])' /\ ClearsRows(call'[d], touches'[d])
             /\ disjoint' /\ ClearingHolds => ClearHeld(call[d])'
  <2>1. PICK t, R : t = call[d] /\ R = touches[d]
    OBVIOUS
  <2>2. t \in ClearCall /\ ClearKnown(t) /\ ClearsRows(t, R) /\ call'[d] = t /\ touches'[d] = R
    BY <1>1, <2>1 DEF ClearTyped, Moved
  <2>3. ClearKnown(t)' /\ (Untouched(t, R) /\ ClearHeld(t) => ClearHeld(t)')
    BY <2>2, ClearHeldStays
  <2>4. disjoint' => Untouched(t, R)
    <3>1. disjoint' => R \intersect touches[c] = {}
      BY <1>1, <2>1 DEF Moved, Apart
    <3> QED BY <3>1 DEF Untouched
  <2>5. ClearingHolds => ClearHeld(t)
    BY <2>1 DEF ClearingHolds
  <2> QED BY <2>2, <2>3, <2>4, <2>5 DEF ClearKnown, ClearHeld
<1>3. ClearTyped'
  <2>1. call' \in [Call -> ClearCall]
    BY <1>1 DEF ClearTyped, Moved
  <2>2. ClearKnown(call[c])' /\ ClearsRows(call[c], touches[c])'
    BY DEF ClearKnown, ClearsRows
  <2>3. \A d \in Call : ClearKnown(call[d])' /\ ClearsRows(call[d], touches[d])'
    BY <1>2, <2>2 DEF ClearsRows
  <2> QED BY <2>1, <2>3 DEF ClearTyped
<1>4. ASSUME disjoint' PROVE ClearingHolds'
  <2>1. ClearingHolds
    BY <1>4 DEF ClearKept, Moved
  <2>2. ClearHeld(call[c])'
    BY <1>4, <2>1 DEF ClearHeld
  <2>3. \A d \in Call : ClearHeld(call[d])'
    BY <1>2, <1>4, <2>1, <2>2
  <2>4. \A i \in DOMAIN invoices' : InvoiceKept(i)'
    BY <1>4, <2>1
  <2>5. faults' = 0 => \A e \in DOMAIN clearing' : clearing'[e].status = "CLEARED" => Paired(e)' \/ Linking(e)'
    BY <1>4, <2>1
  <2> QED BY <2>3, <2>4, <2>5 DEF ClearingHolds
<1> QED BY <1>3, <1>4 DEF ClearKept

\* A request goes on, or ends.
LEMMA ClearMoves ==
  ASSUME ClearTyped, NEW c \in Call, NEW next \in ClearCall,
         \/ next # Idle /\ \E R : R # {} /\ ClearsRows(next, R) /\ Arrive(c, R, next)
         \/ next # Idle /\ call[c] # Idle /\ ClearsRows(next, touches[c]) /\ Await(c, next)
         \/ next = Idle /\ (Answer(c) \/ Perish(c))
  PROVE  /\ Apart' /\ Moved(c) /\ call'[c] = next /\ ClearsRows(next, touches'[c])
         /\ Perish(c) => faults' # 0
<1>1. Apart /\ (next = Idle <=> next.pc = "idle")
  BY ClearCallForms DEF ClearTyped
<1>2. CASE next # Idle /\ \E R : R # {} /\ ClearsRows(next, R) /\ Arrive(c, R, next)
  <2>1. PICK R : R # {} /\ ClearsRows(next, R) /\ Arrive(c, R, next)
    BY <1>2
  <2>2. ~ Perish(c)
    BY <2>1 DEF Arrive, Perish
  <2> QED BY <1>1, <1>2, <2>1, <2>2, Arriving
<1>3. CASE next # Idle /\ call[c] # Idle /\ ClearsRows(next, touches[c]) /\ Await(c, next)
  <2>1. ~ Perish(c)
    BY <1>1, <1>3 DEF Await, Perish, Apart
  <2> QED BY <1>1, <1>3, <2>1, Awaiting
<1>4. ClearsRows(Idle, {})
  BY DEF ClearsRows, Idle
<1>5. CASE next = Idle /\ Answer(c)
  <2>1. ~ Perish(c)
    BY <1>1, <1>5 DEF Answer, Perish, Apart
  <2> QED BY <1>1, <1>4, <1>5, <2>1, Answering
<1>6. CASE next = Idle /\ Perish(c)
  BY <1>1, <1>4, <1>6, Perishing
<1> QED BY <1>2, <1>3, <1>5, <1>6

\* Nothing but the request's state changes.
LEMMA ClearStill ==
  ASSUME ClearKept, NEW c \in Call, UNCHANGED clearingVars, NEW next \in ClearCall, ClearKnown(next),
         disjoint => ClearHeld(next), call[c].pc \in {"clearing", "linking"} => Perish(c),
         \/ next # Idle /\ \E R : R # {} /\ ClearsRows(next, R) /\ Arrive(c, R, next)
         \/ next # Idle /\ call[c] # Idle /\ ClearsRows(next, touches[c]) /\ Await(c, next)
         \/ next = Idle /\ (Answer(c) \/ Perish(c))
  PROVE  ClearKept'
<1>1. invoices' = invoices /\ clearing' = clearing /\ ClearTyped
  BY DEF clearingVars, ClearKept
<1>2. Apart' /\ Moved(c) /\ call'[c] = next /\ ClearsRows(next, touches'[c]) /\ (Perish(c) => faults' # 0)
  BY <1>1, ClearMoves
<1>3. /\ ClearGrown /\ invoices' \in Seq(Invoice) /\ clearing' \in Seq(GrirRow) /\ \A i : EntriesOf(i)' = EntriesOf(i)
      /\ OfInvoices'
  BY <1>1 DEF ClearGrown, ClearTyped, EntriesOf, OfInvoices
<1>4. ClearKnown(next)'
  BY <1>1 DEF ClearKnown, Accepts
<1>5. disjoint' => disjoint /\ ClearHeld(next)'
  BY <1>1, <1>2 DEF ClearHeld, Moved, EntriesOf, Open
<1>6. ASSUME ClearingHolds PROVE \A i \in DOMAIN invoices' : InvoiceKept(i)'
  <2> SUFFICES ASSUME NEW i \in DOMAIN invoices PROVE InvoiceKept(i)'
    BY <1>1
  <2>1. faults' = 0 /\ Entering(i) => Entering(i)' /\ faults = 0
    BY <1>2 DEF Entering, Moved
  <2>2. InvoiceKept(i) /\ EntriesOf(i)' = EntriesOf(i) /\ invoices'[i] = invoices[i] /\ (faults' = 0 => faults = 0)
    BY <1>1, <1>2, <1>3, <1>6 DEF ClearingHolds, Moved
  <2> QED BY <2>1, <2>2 DEF InvoiceKept
<1>7. ASSUME ClearingHolds, faults' = 0, NEW e \in DOMAIN clearing', clearing'[e].status = "CLEARED" PROVE Paired(e)' \/ Linking(e)'
  <2>1. Paired(e) \/ Linking(e)
    BY <1>1, <1>2, <1>7 DEF ClearingHolds, Moved
  <2>2. Linking(e) => Linking(e)'
    BY <1>2, <1>7 DEF Linking, Moved
  <2> QED BY <1>1, <2>1, <2>2 DEF Paired
<1> QED BY <1>1, <1>2, <1>3, <1>4, <1>5, <1>6, <1>7, ClearFrame

LEMMA InvoiceRead ==
  ASSUME ClearKept, NEW c \in Call, NEW i \in DOMAIN invoices, NEW verb \in InvoiceVerb, ReadInvoice(c, i, verb)
  PROVE  ClearKept'
<1>1. invoices[i] \in Invoice /\ i \in Nat
  BY ClearTerms DEF ClearKept
<1>2. PICK next, R : /\ next = [pc |-> "invoicing", i |-> i, verb |-> verb, seen |-> invoices[i]]
                     /\ R = {InvoiceRow(i)} \union (IF verb = "approve" THEN {ClearingRows} ELSE {})
  OBVIOUS
<1>3. next \in ClearCall /\ next # Idle /\ next.pc = "invoicing" /\ next.i = i /\ next.verb = verb /\ next.seen = invoices[i]
  BY <1>1, <1>2 DEF ClearCall, Idle
<1>4. ClearKnown(next) /\ ClearsRows(next, R) /\ R # {} /\ ClearHeld(next)
  BY <1>2, <1>3 DEF ClearKnown, ClearsRows, ClearHeld, ReadInvoice
<1>5. UNCHANGED clearingVars /\ Arrive(c, R, next) /\ call[c].pc \notin {"clearing", "linking"}
  BY <1>2 DEF ReadInvoice, Arrive, Idle
<1> QED BY <1>3, <1>4, <1>5, ClearStill

LEMMA MatchBegun ==
  ASSUME ClearKept, NEW c \in Call, BeginMatch(c)
  PROVE  ClearKept'
<1>1. PICK next, R : next = [pc |-> "gathering"] /\ R = {ClearingRows}
  OBVIOUS
<1>2. next \in ClearCall /\ next # Idle /\ next.pc = "gathering"
  BY <1>1 DEF ClearCall, Idle
<1>3. ClearKnown(next) /\ ClearsRows(next, R) /\ R # {} /\ ClearHeld(next)
  BY <1>1, <1>2 DEF ClearKnown, ClearsRows, ClearHeld
<1>4. UNCHANGED clearingVars /\ Arrive(c, R, next) /\ call[c].pc \notin {"clearing", "linking"}
  BY <1>1 DEF BeginMatch, Arrive, Idle
<1> QED BY <1>2, <1>3, <1>4, ClearStill

LEMMA ReceiptsListed ==
  ASSUME ClearKept, NEW c \in Call, ListReceipts(c)
  PROVE  ClearKept'
<1>1. /\ call[c].pc = "gathering" /\ call[c] # Idle /\ ClearingRows \in touches[c] /\ Open("GR") \subseteq DOMAIN clearing
      /\ DOMAIN clearing \subseteq Nat
  <2>1. ClearsRows(call[c], touches[c])
    BY DEF ClearKept, ClearTyped
  <2> QED BY <2>1, ClearTerms DEF ListReceipts, At, Idle, ClearKept, ClearTyped, ClearsRows, Open
<1>2. PICK next : next = [pc |-> "pairing", grs |-> Open("GR"), ivs |-> {}, listed |-> FALSE]
  OBVIOUS
<1>3. next \in [pc : {"pairing"}, grs : SUBSET Nat, ivs : SUBSET Nat, listed : BOOLEAN]
  BY <1>1, <1>2
<1>4. next \in ClearCall /\ next # Idle /\ next.pc = "pairing" /\ next.grs = Open("GR") /\ next.ivs = {}
  BY <1>2, <1>3 DEF ClearCall, Idle
<1>5. ClearKnown(next) /\ ClearsRows(next, touches[c]) /\ ClearHeld(next)
  BY <1>1, <1>4 DEF ClearKnown, ClearsRows, ClearHeld
<1>6. UNCHANGED clearingVars /\ Await(c, next)
  BY <1>2 DEF ListReceipts
<1> QED BY <1>1, <1>4, <1>5, <1>6, ClearStill

LEMMA InvoicesListed ==
  ASSUME ClearKept, NEW c \in Call, ListInvoices(c)
  PROVE  ClearKept'
<1>1. PICK t : t = call[c]
  OBVIOUS
<1>2. /\ t \in [pc : {"pairing"}, grs : SUBSET Nat, ivs : SUBSET Nat, listed : BOOLEAN] /\ t.pc = "pairing" /\ t # Idle
      /\ ClearKnown(t) /\ ClearsRows(t, touches[c]) /\ (disjoint => ClearHeld(t))
  BY <1>1, ClearCallForms DEF ListInvoices, At, ClearKept, ClearTyped, ClearingHolds
<1>3. Open("IV") \subseteq DOMAIN clearing /\ DOMAIN clearing \subseteq Nat
  BY ClearTerms DEF ClearKept, Open
<1>4. PICK next : next = [t EXCEPT !.ivs = Open("IV"), !.listed = TRUE]
  OBVIOUS
<1>5. /\ next \in [pc : {"pairing"}, grs : SUBSET Nat, ivs : SUBSET Nat, listed : BOOLEAN]
      /\ next.pc = "pairing" /\ next.grs = t.grs /\ next.ivs = Open("IV")
  BY <1>2, <1>3, <1>4
<1>6. next \in ClearCall /\ next # Idle
  BY <1>5 DEF ClearCall, Idle
<1>7. ClearKnown(next) /\ ClearsRows(next, touches[c]) /\ (disjoint => ClearHeld(next))
  BY <1>2, <1>3, <1>5 DEF ClearKnown, ClearsRows, ClearHeld
<1>8. UNCHANGED clearingVars /\ Await(c, next)
  BY <1>1, <1>4 DEF ListInvoices
<1> QED BY <1>1, <1>2, <1>6, <1>7, <1>8, ClearStill

\* A request ends, or dies.
LEMMA ClearEnds ==
  ASSUME ClearKept, NEW c \in Call, EndMatch(c) \/ PerishInClearing(c)
  PROVE  ClearKept'
<1>1. Idle \in ClearCall /\ ClearKnown(Idle) /\ ClearHeld(Idle)
  BY DEF ClearCall, ClearKnown, ClearHeld, Idle
<1>2. UNCHANGED clearingVars /\ (Answer(c) \/ Perish(c)) /\ (call[c].pc \in {"clearing", "linking"} => Perish(c))
  BY DEF EndMatch, PerishInClearing, At
<1> QED BY <1>1, <1>2, ClearStill

-----------------------------------------------------------------------------
\* What saving an invoice may make of it.
LEMMA InvoiceMoves ==
  ASSUME NEW i \in Invoice, NEW verb \in InvoiceVerb, Accepts(verb, i), NEW j \in InvoiceTo(verb, i)
  PROVE  /\ j \in Invoice /\ (verb = "approve" => i.status = "MATCHED" /\ j.status = "APPROVED")
         /\ i.status \in Payable \union {"REJECTED"} => j.status \in Payable \union {"REJECTED"}
         /\ j.status \in Payable => i.status \in Payable \/ verb = "approve"
<1>1. CASE verb = "submit"
  BY <1>1 DEF Accepts, InvoiceTo, Invoice, InvoiceStatus, Payable
<1>2. CASE verb = "review"
  BY <1>2 DEF Accepts, InvoiceTo, Invoice, InvoiceStatus, Payable
<1>3. /\ Matched(i) \in Invoice /\ (i.status \in Payable \union {"REJECTED"} => Matched(i).status = i.status)
      /\ Matched(i).status \in Payable => i.status \in Payable
  BY DEF Matched, Invoice, InvoiceStatus, Payable
<1>4. CASE verb = "match"
  <2>1. j = Matched(i) \/ j = [i EXCEPT !.match = "BLOCKED"]
    BY <1>4 DEF InvoiceTo
  <2> QED BY <1>3, <1>4, <2>1 DEF Invoice
<1>5. CASE verb = "override"
  BY <1>3, <1>5 DEF InvoiceTo
<1>6. CASE verb = "approve"
  BY <1>6 DEF Accepts, InvoiceTo, Invoice, InvoiceStatus, Payable
<1>7. CASE verb = "reject"
  BY <1>7 DEF InvoiceTo, Invoice, InvoiceStatus, Payable
<1>8. CASE verb = "pay"
  <2>1. i.status \in Payable
    BY <1>8 DEF Accepts, Payable
  <2>2. PICK n \in InvoiceAmounts :
          j = [i EXCEPT !.paid = @ + n, !.status = IF i.paid + n >= i.total THEN "PAID" ELSE "PARTIALLY_PAID"]
    BY <1>8 DEF InvoiceTo
  <2>3. PICK s : s = IF i.paid + n >= i.total THEN "PAID" ELSE "PARTIALLY_PAID"
    OBVIOUS
  <2>4. PICK p : p = i.paid + n
    OBVIOUS
  <2>5. s \in Payable /\ p \in Nat
    BY <2>3, <2>4, ClearingAssumption DEF Payable, Invoice
  <2>6. PICK k : k = [i EXCEPT !.paid = p]
    OBVIOUS
  <2>7. k \in Invoice
    BY <2>5, <2>6 DEF Invoice
  <2>8. j = [k EXCEPT !.status = s]
    BY <2>2, <2>3, <2>4, <2>6 DEF Invoice
  <2>9. j \in Invoice /\ j.status = s
    BY <2>5, <2>7, <2>8 DEF Invoice, InvoiceStatus
  <2> QED BY <1>8, <2>1, <2>5, <2>9
<1> QED BY <1>1, <1>2, <1>4, <1>5, <1>6, <1>7, <1>8 DEF InvoiceVerb

LEMMA InvoiceSaved ==
  ASSUME ClearKept, NEW c \in Call, SaveInvoice(c)
  PROVE  ClearKept'
<1>1. PICK t : t = call[c]
  OBVIOUS
<1>2. /\ t \in [pc : {"invoicing"}, i : Nat, verb : InvoiceVerb, seen : Invoice] /\ t.pc = "invoicing" /\ t # Idle
      /\ ClearTyped /\ ClearKnown(t) /\ ClearsRows(t, touches[c]) /\ (ClearingHolds => ClearHeld(t))
  BY <1>1, ClearCallForms DEF SaveInvoice, At, ClearKept, ClearTyped, ClearingHolds
<1>3. PICK j \in InvoiceTo(t.verb, t.seen) : invoices' = [invoices EXCEPT ![t.i] = j]
  BY <1>1 DEF SaveInvoice
<1>4. /\ j \in Invoice /\ (t.verb = "approve" => t.seen.status = "MATCHED" /\ j.status = "APPROVED")
      /\ t.seen.status \in Payable \union {"REJECTED"} => j.status \in Payable \union {"REJECTED"}
      /\ j.status \in Payable => t.seen.status \in Payable \/ t.verb = "approve"
  BY <1>2, <1>3, InvoiceMoves DEF ClearKnown
<1>5. clearing' = clearing /\ t.i \in DOMAIN invoices /\ InvoiceRow(t.i) \in touches[c]
  BY <1>2 DEF SaveInvoice, ClearKnown, ClearsRows
<1>6. PICK next : next = IF t.verb = "approve" THEN [pc |-> "clearing", i |-> t.i, amount |-> t.seen.total] ELSE Idle
  OBVIOUS
<1>7. /\ t.verb = "approve" => next \in [pc : {"clearing"}, i : Nat, amount : Nat] /\ next.pc = "clearing" /\ next.i = t.i
      /\ t.verb # "approve" => next = Idle /\ next.pc = "idle"
  BY <1>2, <1>6 DEF Invoice, Idle
<1>8. next \in ClearCall /\ (next # Idle <=> t.verb = "approve") /\ ClearsRows(next, touches[c])
  <2>1. CASE t.verb = "approve"
    BY <1>2, <1>7, <2>1 DEF ClearCall, Idle, ClearsRows
  <2>2. CASE t.verb # "approve"
    BY <1>7, <2>2 DEF ClearCall, ClearsRows
  <2> QED BY <2>1, <2>2
<1>9. IF t.verb = "approve" THEN Await(c, next) ELSE Answer(c)
  BY <1>1, <1>6 DEF SaveInvoice
<1>10. /\ Apart' /\ Moved(c) /\ call'[c] = next /\ ClearsRows(next, touches'[c]) /\ faults' = faults
  BY <1>1, <1>2, <1>7, <1>8, <1>9, ClearMoves DEF Await, Answer
<1>11. /\ invoices' \in Seq(Invoice) /\ DOMAIN invoices' = DOMAIN invoices /\ clearing' \in Seq(GrirRow)
       /\ invoices'[t.i] = j /\ \A i \in DOMAIN invoices \ {t.i} : invoices'[i] = invoices[i]
  BY <1>2, <1>3, <1>4, <1>5 DEF ClearTyped
<1>12. ClearGrown /\ OfInvoices' /\ \A i : EntriesOf(i)' = EntriesOf(i)
  <2>1. \A i : EntriesOf(i)' = EntriesOf(i)
    BY <1>5 DEF EntriesOf
  <2> QED BY <1>2, <1>5, <1>11, <2>1 DEF ClearGrown, ClearTyped, OfInvoices
<1>13. ClearKnown(next)'
  BY <1>5, <1>7, <1>11 DEF ClearKnown
<1>14. \A i \in DOMAIN invoices : InvoiceRow(i) \notin touches[c] => invoices'[i] = invoices[i] /\ EntriesOf(i)' = EntriesOf(i)
  BY <1>5, <1>11, <1>12
<1>15. ASSUME ClearingHolds PROVE t.seen = invoices[t.i] /\ InvoiceKept(t.i)
  BY <1>2, <1>5, <1>15 DEF ClearHeld, ClearingHolds
<1>16. ASSUME ClearingHolds PROVE ClearHeld(next)'
  <2>1. CASE t.verb = "approve"
    <3>1. EntriesOf(t.i) = {}
      BY <1>4, <1>15, <1>16, <2>1 DEF InvoiceKept, Payable
    <3> QED BY <1>4, <1>7, <1>11, <1>12, <2>1, <3>1 DEF ClearHeld
  <2>2. CASE t.verb # "approve"
    BY <1>7, <2>2 DEF ClearHeld
  <2> QED BY <2>1, <2>2
<1>17. ASSUME ClearingHolds PROVE \A i \in DOMAIN invoices' : InvoiceKept(i)'
  <2> SUFFICES ASSUME NEW i \in DOMAIN invoices PROVE InvoiceKept(i)'
    BY <1>11
  <2>1. InvoiceKept(i) /\ EntriesOf(i)' = EntriesOf(i)
    BY <1>12, <1>17 DEF ClearingHolds
  <2>2. Entering(i) => Entering(i)'
    <3>1. \A d \in Call : call[d].pc = "clearing" => d # c
      BY <1>1, <1>2
    <3> QED BY <1>10, <3>1 DEF Entering, Moved
  <2>3. CASE i # t.i
    BY <1>10, <1>11, <2>1, <2>2, <2>3 DEF InvoiceKept
  <2>4. CASE i = t.i
    <3>1. t.verb = "approve" => Entering(i)'
      BY <1>7, <1>10, <2>4 DEF Entering
    <3>2. invoices'[i] = j /\ invoices[i] = t.seen
      BY <1>11, <1>15, <1>17, <2>4
    <3>3. EntriesOf(i)' # {} => invoices'[i].status \in Payable \union {"REJECTED"}
      BY <1>4, <2>1, <3>2 DEF InvoiceKept
    <3>4. faults' = 0 /\ invoices'[i].status \in Payable => EntriesOf(i)' # {} \/ Entering(i)'
      BY <1>4, <1>10, <2>1, <2>2, <3>1, <3>2 DEF InvoiceKept
    <3> QED BY <2>1, <3>3, <3>4 DEF InvoiceKept
  <2> QED BY <2>3, <2>4
<1>18. ASSUME ClearingHolds, faults' = 0, NEW e \in DOMAIN clearing', clearing'[e].status = "CLEARED" PROVE Paired(e)' \/ Linking(e)'
  <2>1. Paired(e) \/ Linking(e)
    BY <1>5, <1>10, <1>18 DEF ClearingHolds
  <2>2. Linking(e) => Linking(e)'
    <3>1. \A d \in Call : call[d].pc = "linking" => d # c
      BY <1>1, <1>2
    <3> QED BY <1>10, <3>1 DEF Linking, Moved
  <2> QED BY <1>5, <2>1, <2>2 DEF Paired
<1> QED BY <1>5, <1>8, <1>10, <1>11, <1>12, <1>13, <1>14, <1>16, <1>17, <1>18, ClearFrame

\* The entry of an invoice that has been approved.
LEMMA InvoiceBooked ==
  ASSUME ClearKept, NEW c \in Call, BookInvoice(c)
  PROVE  ClearKept'
<1>1. PICK t : t = call[c]
  OBVIOUS
<1>2. /\ t \in [pc : {"clearing"}, i : Nat, amount : Nat] /\ t.pc = "clearing" /\ t # Idle
      /\ ClearTyped /\ ClearKnown(t) /\ ClearsRows(t, touches[c]) /\ (ClearingHolds => ClearHeld(t))
  BY <1>1, ClearCallForms DEF BookInvoice, At, ClearKept, ClearTyped, ClearingHolds
<1>3. PICK x : x = [type |-> "IV", of |-> t.i, amount |-> t.amount, status |-> "OPEN", with |-> 0]
  OBVIOUS
<1>4. x \in GrirRow /\ x.type = "IV" /\ x.of = t.i /\ x.status = "OPEN"
  BY <1>2, <1>3 DEF GrirRow
<1>5. clearing' = Append(clearing, x) /\ invoices' = invoices
  BY <1>1, <1>3 DEF BookInvoice, GrirEntry
<1>6. PICK last : last = Len(clearing) + 1
  OBVIOUS
<1>7. /\ clearing' \in Seq(GrirRow) /\ last \in DOMAIN clearing' /\ clearing'[last] = x /\ last \notin DOMAIN clearing
      /\ \A e \in DOMAIN clearing : e \in DOMAIN clearing' /\ clearing'[e] = clearing[e]
      /\ \A e \in DOMAIN clearing' : e = last \/ e \in DOMAIN clearing
  BY <1>2, <1>4, <1>5, <1>6, ClearTerms DEF ClearTyped
<1>8. PICK next : next = [pc |-> "gathering"]
  OBVIOUS
<1>9. /\ next \in ClearCall /\ next # Idle /\ next.pc = "gathering" /\ ClearsRows(next, touches[c])
      /\ ClearingRows \in touches[c] /\ InvoiceRow(t.i) \in touches[c] /\ t.i \in DOMAIN invoices
  BY <1>2, <1>8 DEF ClearCall, Idle, ClearsRows, ClearKnown
<1>10. /\ Apart' /\ Moved(c) /\ call'[c] = next /\ ClearsRows(next, touches'[c]) /\ faults' = faults
  BY <1>1, <1>2, <1>8, <1>9, ClearMoves DEF BookInvoice, Await
<1>11. ClearGrown /\ invoices' \in Seq(Invoice)
  BY <1>2, <1>5, <1>7 DEF ClearGrown, ClearTyped
<1>12. EntriesOf(t.i)' = EntriesOf(t.i) \union {last} /\ \A i : i # t.i => EntriesOf(i)' = EntriesOf(i)
  BY <1>4, <1>7 DEF EntriesOf
<1>13. /\ \A i \in DOMAIN invoices : InvoiceRow(i) \notin touches[c] => invoices'[i] = invoices[i] /\ EntriesOf(i)' = EntriesOf(i)
       /\ OfInvoices'
  BY <1>2, <1>5, <1>9, <1>12 DEF OfInvoices, ClearTyped
<1>14. ClearKnown(next)' /\ ClearHeld(next)'
  BY <1>9 DEF ClearKnown, ClearHeld
<1>15. ASSUME ClearingHolds PROVE \A i \in DOMAIN invoices' : InvoiceKept(i)'
  <2> SUFFICES ASSUME NEW i \in DOMAIN invoices PROVE InvoiceKept(i)'
    BY <1>5
  <2>1. InvoiceKept(i) /\ invoices'[i] = invoices[i]
    BY <1>5, <1>15 DEF ClearingHolds
  <2>2. CASE i = t.i
    <3>1. EntriesOf(i)' = {last} /\ invoices[i].status = "APPROVED"
      BY <1>2, <1>12, <1>15, <2>2 DEF ClearHeld
    <3> QED BY <2>1, <3>1 DEF InvoiceKept, Payable
  <2>3. CASE i # t.i
    <3>1. Entering(i) => Entering(i)'
      BY <1>1, <1>10, <2>3 DEF Entering, Moved
    <3>2. EntriesOf(i)' = EntriesOf(i)
      BY <1>12, <2>3
    <3> QED BY <1>10, <2>1, <3>1, <3>2 DEF InvoiceKept
  <2> QED BY <2>2, <2>3
<1>16. ASSUME ClearingHolds, faults' = 0, NEW e \in DOMAIN clearing', clearing'[e].status = "CLEARED" PROVE Paired(e)' \/ Linking(e)'
  <2>1. e \in DOMAIN clearing /\ clearing'[e] = clearing[e]
    BY <1>4, <1>7, <1>16
  <2>2. Paired(e) \/ Linking(e)
    BY <1>10, <1>16, <2>1 DEF ClearingHolds
  <2>3. Linking(e) => Linking(e)'
    <3>1. \A d \in Call : call[d].pc = "linking" => d # c
      BY <1>1, <1>2
    <3> QED BY <1>10, <3>1 DEF Linking, Moved
  <2>4. Paired(e) => Paired(e)'
    BY <1>7, <2>1 DEF Paired
  <2> QED BY <2>2, <2>3, <2>4
<1> QED BY <1>5, <1>7, <1>9, <1>10, <1>11, <1>13, <1>14, <1>15, <1>16, ClearFrame

\* Saving an entry as cleared.
LEMMA EntryCleared ==
  ASSUME ClearTyped, NEW e \in DOMAIN clearing, NEW w \in Nat, clearing' = Cleared(e, w)
  PROVE  /\ clearing' \in Seq(GrirRow) /\ DOMAIN clearing' = DOMAIN clearing
         /\ \A f \in DOMAIN clearing \ {e} : clearing'[f] = clearing[f]
         /\ clearing'[e].status = "CLEARED" /\ clearing'[e].with = w
         /\ clearing'[e].type = clearing[e].type /\ clearing'[e].amount = clearing[e].amount
         /\ \A i : EntriesOf(i)' = EntriesOf(i)
<1>1. clearing[e] \in GrirRow
  BY ClearTerms
<1>2. PICK x : x = [clearing[e] EXCEPT !.status = "CLEARED"]
  OBVIOUS
<1>3. x \in GrirRow /\ x.status = "CLEARED" /\ x.type = clearing[e].type /\ x.of = clearing[e].of /\ x.amount = clearing[e].amount
  BY <1>1, <1>2 DEF GrirRow
<1>4. PICK y : y = [x EXCEPT !.with = w]
  OBVIOUS
<1>5. y \in GrirRow /\ y.status = "CLEARED" /\ y.with = w /\ y.type = x.type /\ y.of = x.of /\ y.amount = x.amount
  BY <1>3, <1>4 DEF GrirRow
<1>6. [clearing[e] EXCEPT !.status = "CLEARED", !.with = w] = y
  BY <1>1, <1>2, <1>4 DEF GrirRow
<1>7. clearing' = [clearing EXCEPT ![e] = y]
  BY <1>6 DEF Cleared
<1>8. /\ clearing' \in Seq(GrirRow) /\ DOMAIN clearing' = DOMAIN clearing /\ clearing'[e] = y
      /\ \A f \in DOMAIN clearing \ {e} : clearing'[f] = clearing[f]
  BY <1>5, <1>7 DEF ClearTyped
<1>9. \A i : EntriesOf(i)' = EntriesOf(i)
  <2>1. \A f \in DOMAIN clearing : clearing'[f].type = clearing[f].type /\ clearing'[f].of = clearing[f].of
    BY <1>3, <1>5, <1>8
  <2> QED BY <1>8, <2>1 DEF EntriesOf
<1> QED BY <1>3, <1>5, <1>8, <1>9

\* A step of a matching that changes no entry's invoice keeps the invoices.
LEMMA InvoicesStay ==
  ASSUME ClearingHolds, NEW c \in Call, Moved(c), call[c].pc # "clearing", invoices' = invoices, \A i : EntriesOf(i)' = EntriesOf(i)
  PROVE  \A i \in DOMAIN invoices' : InvoiceKept(i)'
<1> SUFFICES ASSUME NEW i \in DOMAIN invoices PROVE InvoiceKept(i)'
  OBVIOUS
<1>1. InvoiceKept(i) /\ EntriesOf(i)' = EntriesOf(i) /\ (faults' = 0 => faults = 0)
  BY DEF ClearingHolds, Moved
<1>2. Entering(i) => Entering(i)'
  BY DEF Entering, Moved
<1> QED BY <1>1, <1>2 DEF InvoiceKept

LEMMA ReceiptCleared ==
  ASSUME ClearKept, NEW c \in Call, ClearReceipt(c)
  PROVE  ClearKept'
<1>1. PICK t : t = call[c]
  OBVIOUS
<1>2. /\ t \in [pc : {"pairing"}, grs : SUBSET Nat, ivs : SUBSET Nat, listed : BOOLEAN] /\ t.pc = "pairing" /\ t # Idle
      /\ ClearTyped /\ ClearKnown(t) /\ ClearsRows(t, touches[c]) /\ (ClearingHolds => ClearHeld(t))
  BY <1>1, ClearCallForms DEF ClearReceipt, At, ClearKept, ClearTyped, ClearingHolds
<1>3. PICK p \in Pairs(t) : /\ clearing' = Cleared(p[1], p[2])
                            /\ Await(c, [pc |-> "linking", grs |-> t.grs \ {p[1]}, ivs |-> t.ivs \ {p[2]}, pair |-> p])
  BY <1>1 DEF ClearReceipt
<1>4. PICK g, v : g = p[1] /\ v = p[2]
  OBVIOUS
<1>5. /\ g \in t.grs /\ v \in t.ivs /\ clearing[g].amount = clearing[v].amount /\ p \in Nat \X Nat
      /\ g \in DOMAIN clearing /\ v \in DOMAIN clearing /\ g \in Nat /\ v \in Nat
  BY <1>2, <1>3, <1>4 DEF Pairs, ClearKnown
<1>6. PICK next : next = [pc |-> "linking", grs |-> t.grs \ {g}, ivs |-> t.ivs \ {v}, pair |-> p]
  OBVIOUS
<1>7. /\ next \in [pc : {"linking"}, grs : SUBSET Nat, ivs : SUBSET Nat, pair : Nat \X Nat] /\ next.pc = "linking"
      /\ next.grs = t.grs \ {g} /\ next.ivs = t.ivs \ {v} /\ next.pair[1] = g /\ next.pair[2] = v
  BY <1>2, <1>4, <1>5, <1>6
<1>8. next \in ClearCall /\ next # Idle /\ ClearsRows(next, touches[c]) /\ ClearingRows \in touches[c]
  BY <1>2, <1>7 DEF ClearCall, Idle, ClearsRows
<1>9. Await(c, next) /\ invoices' = invoices
  BY <1>3, <1>4, <1>6 DEF ClearReceipt
<1>10. Apart' /\ Moved(c) /\ call'[c] = next /\ ClearsRows(next, touches'[c]) /\ faults' = faults
  BY <1>1, <1>2, <1>8, <1>9, ClearMoves DEF Await
<1>11. /\ clearing' \in Seq(GrirRow) /\ DOMAIN clearing' = DOMAIN clearing /\ \A f \in DOMAIN clearing \ {g} : clearing'[f] = clearing[f]
       /\ clearing'[g].status = "CLEARED" /\ clearing'[g].with = v
       /\ clearing'[g].type = clearing[g].type /\ clearing'[g].amount = clearing[g].amount /\ \A i : EntriesOf(i)' = EntriesOf(i)
  BY <1>2, <1>3, <1>4, <1>5, EntryCleared
<1>12. ClearGrown /\ invoices' \in Seq(Invoice) /\ OfInvoices'
  BY <1>2, <1>9, <1>11 DEF ClearGrown, ClearTyped, OfInvoices
<1>13. ClearKnown(next)'
  BY <1>2, <1>5, <1>7, <1>11 DEF ClearKnown
<1>14. ASSUME ClearingHolds PROVE ClearHeld(t) /\ g \in Open("GR") /\ v \in Open("IV") /\ g # v
  BY <1>2, <1>5, <1>14 DEF ClearHeld, Open
<1>15. ASSUME ClearingHolds PROVE ClearHeld(next)'
  <2>1. Open("GR") \ {g} \subseteq Open("GR")' /\ Open("IV") \subseteq Open("IV")'
    BY <1>11, <1>14, <1>15 DEF Open
  <2>2. t.grs \subseteq Open("GR") /\ t.ivs \subseteq Open("IV") /\ clearing[g].type = "GR" /\ clearing'[v] = clearing[v]
    BY <1>2, <1>5, <1>11, <1>14, <1>15 DEF ClearHeld, Open
  <2> QED BY <1>5, <1>7, <1>11, <1>14, <1>15, <2>1, <2>2 DEF ClearHeld
<1>16. ASSUME ClearingHolds PROVE \A i \in DOMAIN invoices' : InvoiceKept(i)'
  BY <1>1, <1>2, <1>9, <1>10, <1>11, <1>16, InvoicesStay
<1>17. ASSUME ClearingHolds, faults' = 0, NEW e \in DOMAIN clearing', clearing'[e].status = "CLEARED" PROVE Paired(e)' \/ Linking(e)'
  <2>1. CASE e = g
    BY <1>7, <1>10, <2>1 DEF Linking
  <2>2. CASE e # g
    <3>1. e \in DOMAIN clearing /\ clearing'[e] = clearing[e]
      BY <1>11, <2>2
    <3>2. Paired(e) \/ Linking(e)
      BY <1>10, <1>17, <3>1 DEF ClearingHolds
    <3>3. Linking(e) => Linking(e)'
      <4>1. \A d \in Call : call[d].pc = "linking" => d # c
        BY <1>1, <1>2
      <4> QED BY <1>10, <4>1 DEF Linking, Moved
    <3>4. Paired(e) => Paired(e)'
      <4>1. clearing[g].status = "OPEN"
        BY <1>14, <1>17 DEF Open
      <4> QED BY <1>11, <3>1, <4>1 DEF Paired
    <3> QED BY <3>2, <3>3, <3>4
  <2> QED BY <2>1, <2>2
<1>18. \A i \in DOMAIN invoices : InvoiceRow(i) \notin touches[c] => invoices'[i] = invoices[i] /\ EntriesOf(i)' = EntriesOf(i)
  BY <1>9, <1>11
<1> QED BY <1>8, <1>10, <1>11, <1>12, <1>13, <1>15, <1>16, <1>17, <1>18, ClearFrame

LEMMA InvoiceCleared ==
  ASSUME ClearKept, NEW c \in Call, ClearInvoice(c)
  PROVE  ClearKept'
<1>1. PICK t : t = call[c]
  OBVIOUS
<1>2. /\ t \in [pc : {"linking"}, grs : SUBSET Nat, ivs : SUBSET Nat, pair : Nat \X Nat] /\ t.pc = "linking" /\ t # Idle
      /\ ClearTyped /\ ClearKnown(t) /\ ClearsRows(t, touches[c]) /\ (ClearingHolds => ClearHeld(t))
  BY <1>1, ClearCallForms DEF ClearInvoice, At, ClearKept, ClearTyped, ClearingHolds
<1>3. PICK g, v : g = t.pair[1] /\ v = t.pair[2]
  OBVIOUS
<1>4. g \in DOMAIN clearing /\ v \in DOMAIN clearing /\ g \in Nat /\ v \in Nat
  BY <1>2, <1>3 DEF ClearKnown
<1>5. PICK next : next = [pc |-> "pairing", grs |-> t.grs, ivs |-> t.ivs, listed |-> TRUE]
  OBVIOUS
<1>6. /\ next \in [pc : {"pairing"}, grs : SUBSET Nat, ivs : SUBSET Nat, listed : BOOLEAN] /\ next.pc = "pairing"
      /\ next.grs = t.grs /\ next.ivs = t.ivs
  BY <1>2, <1>5
<1>7. next \in ClearCall /\ next # Idle /\ ClearsRows(next, touches[c]) /\ ClearingRows \in touches[c]
  BY <1>2, <1>6 DEF ClearCall, Idle, ClearsRows
<1>8. clearing' = Cleared(v, g) /\ Await(c, next) /\ invoices' = invoices
  BY <1>1, <1>3, <1>5 DEF ClearInvoice
<1>9. Apart' /\ Moved(c) /\ call'[c] = next /\ ClearsRows(next, touches'[c]) /\ faults' = faults
  BY <1>1, <1>2, <1>7, <1>8, ClearMoves DEF Await
<1>10. /\ clearing' \in Seq(GrirRow) /\ DOMAIN clearing' = DOMAIN clearing /\ \A f \in DOMAIN clearing \ {v} : clearing'[f] = clearing[f]
       /\ clearing'[v].status = "CLEARED" /\ clearing'[v].with = g
       /\ clearing'[v].type = clearing[v].type /\ clearing'[v].amount = clearing[v].amount /\ \A i : EntriesOf(i)' = EntriesOf(i)
  BY <1>2, <1>4, <1>8, EntryCleared
<1>11. ClearGrown /\ invoices' \in Seq(Invoice) /\ OfInvoices'
  BY <1>2, <1>8, <1>10 DEF ClearGrown, ClearTyped, OfInvoices
<1>12. ClearKnown(next)'
  BY <1>2, <1>6, <1>10 DEF ClearKnown
<1>13. ASSUME ClearingHolds
       PROVE  /\ ClearHeld(t) /\ v \in Open("IV") \ t.ivs /\ clearing[g].type = "GR" /\ clearing[g].with = v
              /\ clearing[g].status = "CLEARED" /\ clearing[g].amount = clearing[v].amount /\ g # v
  BY <1>2, <1>3, <1>13 DEF ClearHeld, Open
<1>14. ASSUME ClearingHolds PROVE ClearHeld(next)'
  <2>1. Open("GR") \subseteq Open("GR")' /\ Open("IV") \ {v} \subseteq Open("IV")'
    <3>1. clearing[v].type = "IV"
      BY <1>13, <1>14 DEF Open
    <3> QED BY <1>10, <3>1 DEF Open
  <2>2. t.grs \subseteq Open("GR") /\ t.ivs \subseteq Open("IV") \ {v}
    BY <1>2, <1>13, <1>14 DEF ClearHeld
  <2> QED BY <1>6, <2>1, <2>2 DEF ClearHeld
<1>15. ASSUME ClearingHolds PROVE \A i \in DOMAIN invoices' : InvoiceKept(i)'
  BY <1>1, <1>2, <1>8, <1>9, <1>10, <1>15, InvoicesStay
<1>16. ASSUME ClearingHolds, faults' = 0, NEW e \in DOMAIN clearing', clearing'[e].status = "CLEARED" PROVE Paired(e)' \/ Linking(e)'
  <2>1. clearing'[g] = clearing[g] /\ clearing[v].type = "IV" /\ clearing[v].status = "OPEN"
    BY <1>4, <1>10, <1>13, <1>16 DEF Open
  <2>2. CASE e \in {g, v}
    BY <1>4, <1>10, <1>13, <1>16, <2>1, <2>2 DEF Paired
  <2>3. CASE e \notin {g, v}
    <3>1. e \in DOMAIN clearing /\ clearing'[e] = clearing[e]
      BY <1>10, <2>3
    <3>2. Paired(e) \/ Linking(e)
      BY <1>9, <1>16, <3>1 DEF ClearingHolds
    <3>3. Linking(e) => Linking(e)'
      BY <1>1, <1>3, <1>9, <2>3 DEF Linking, Moved
    <3>4. Paired(e) => Paired(e)'
      BY <1>10, <2>1, <3>1 DEF Paired
    <3> QED BY <3>2, <3>3, <3>4
  <2> QED BY <2>2, <2>3
<1>17. \A i \in DOMAIN invoices : InvoiceRow(i) \notin touches[c] => invoices'[i] = invoices[i] /\ EntriesOf(i)' = EntriesOf(i)
  BY <1>8, <1>10
<1> QED BY <1>7, <1>9, <1>10, <1>11, <1>12, <1>14, <1>15, <1>16, <1>17, ClearFrame

-----------------------------------------------------------------------------
\* An invoice or a receipt comes in.
LEMMA ClearArrivals ==
  ASSUME ClearKept, UNCHANGED requestVars,
         \/ \E j \in Invoice : j.status = "DRAFT" /\ invoices' = Append(invoices, j) /\ clearing' = clearing
         \/ \E x \in GrirRow : x.type = "GR" /\ x.status = "OPEN" /\ clearing' = Append(clearing, x) /\ invoices' = invoices
         \/ invoices' = invoices /\ clearing' = clearing
  PROVE  ClearKept'
<1>1. call' = call /\ touches' = touches /\ disjoint' = disjoint /\ faults' = faults /\ ClearTyped
  BY DEF requestVars, ClearKept
<1>2. Apart'
  BY <1>1, ApartStays DEF ClearTyped
<1>3. /\ invoices' \in Seq(Invoice) /\ clearing' \in Seq(GrirRow) /\ ClearGrown
      /\ \A i \in DOMAIN invoices : invoices'[i] = invoices[i]
      /\ \A i \in DOMAIN invoices' \ DOMAIN invoices : invoices'[i].status = "DRAFT"
      /\ \A e \in DOMAIN clearing : clearing'[e] = clearing[e]
      /\ \A e \in DOMAIN clearing' \ DOMAIN clearing : clearing'[e].type = "GR" /\ clearing'[e].status = "OPEN"
  <2>1. invoices \in Seq(Invoice) /\ clearing \in Seq(GrirRow)
    BY <1>1 DEF ClearTyped
  <2>2. CASE \E j \in Invoice : j.status = "DRAFT" /\ invoices' = Append(invoices, j) /\ clearing' = clearing
    BY <2>1, <2>2 DEF ClearGrown
  <2>3. CASE \E x \in GrirRow : x.type = "GR" /\ x.status = "OPEN" /\ clearing' = Append(clearing, x) /\ invoices' = invoices
    BY <2>1, <2>3 DEF ClearGrown
  <2>4. CASE invoices' = invoices /\ clearing' = clearing
    BY <2>1, <2>4 DEF ClearGrown
  <2> QED BY <2>2, <2>3, <2>4
<1>4. \A i : EntriesOf(i)' = EntriesOf(i)
  <2>1. \A e : e \in DOMAIN clearing' /\ clearing'[e].type = "IV" <=> e \in DOMAIN clearing /\ clearing[e].type = "IV"
    BY <1>3 DEF ClearGrown
  <2> QED BY <1>3, <2>1 DEF EntriesOf
<1>5. ASSUME NEW d \in Call
      PROVE  ClearKnown(call[d])' /\ ClearsRows(call[d], touches[d])' /\ (disjoint' /\ ClearingHolds => ClearHeld(call[d])')
  <2>1. PICK t, R : t = call[d] /\ R = touches[d]
    OBVIOUS
  <2>2. t \in ClearCall /\ ClearKnown(t) /\ ClearsRows(t, R) /\ call'[d] = t /\ touches'[d] = R
    BY <1>1, <2>1 DEF ClearTyped
  <2>3. Untouched(t, R)
    BY <1>3, <1>4 DEF Untouched
  <2>4. ClearKnown(t)' /\ (ClearHeld(t) => ClearHeld(t)')
    BY <1>3, <2>2, <2>3, ClearHeldStays
  <2>5. ClearingHolds => ClearHeld(t)
    BY <2>1 DEF ClearingHolds
  <2> QED BY <2>2, <2>4, <2>5 DEF ClearKnown, ClearHeld, ClearsRows
<1>6. ClearTyped'
  <2>1. OfInvoices'
    BY <1>1, <1>3, <1>4 DEF ClearTyped, OfInvoices, ClearGrown
  <2> QED BY <1>1, <1>2, <1>3, <1>5, <2>1 DEF ClearTyped
<1>7. ASSUME disjoint' PROVE ClearingHolds'
  <2>1. ClearingHolds
    BY <1>1, <1>7 DEF ClearKept
  <2>2. ASSUME NEW i \in DOMAIN invoices' PROVE InvoiceKept(i)'
    <3>1. CASE i \in DOMAIN invoices
      <4>1. InvoiceKept(i) /\ invoices'[i] = invoices[i] /\ EntriesOf(i)' = EntriesOf(i)
        BY <1>3, <1>4, <2>1, <3>1 DEF ClearingHolds
      <4> QED BY <1>1, <4>1 DEF InvoiceKept, Entering
    <3>2. CASE i \notin DOMAIN invoices
      <4>1. EntriesOf(i)' = {} /\ invoices'[i].status = "DRAFT"
        BY <1>1, <1>3, <1>4, <2>2, <3>2 DEF ClearTyped, OfInvoices
      <4> QED BY <4>1 DEF InvoiceKept, Payable
    <3> QED BY <3>1, <3>2
  <2>3. ASSUME faults' = 0, NEW e \in DOMAIN clearing', clearing'[e].status = "CLEARED" PROVE Paired(e)' \/ Linking(e)'
    <3>1. e \in DOMAIN clearing /\ clearing'[e] = clearing[e]
      BY <1>3, <2>3
    <3>2. Paired(e) \/ Linking(e)
      BY <1>1, <2>1, <2>3, <3>1 DEF ClearingHolds
    <3>3. Paired(e) => Paired(e)'
      BY <1>3, <3>1 DEF Paired, ClearGrown
    <3> QED BY <1>1, <3>2, <3>3 DEF Linking
  <2> QED BY <1>5, <1>7, <2>1, <2>2, <2>3 DEF ClearingHolds
<1> QED BY <1>6, <1>7 DEF ClearKept

LEMMA ClearStep == ClearKept /\ [ClearingNext]_<<clearingVars, requestVars>> => ClearKept'
<1> SUFFICES ASSUME ClearKept, [ClearingNext]_<<clearingVars, requestVars>> PROVE ClearKept'
  OBVIOUS
<1>1. ASSUME NEW n \in InvoiceAmounts, CreateInvoice(n) PROVE ClearKept'
  <2>1. PICK j : j = [status |-> "DRAFT", match |-> "NOT_MATCHED", total |-> n, paid |-> 0]
    OBVIOUS
  <2>2. j \in Invoice /\ j.status = "DRAFT"
    BY <2>1, ClearingAssumption DEF Invoice, InvoiceStatus
  <2>3. invoices' = Append(invoices, j) /\ clearing' = clearing /\ UNCHANGED requestVars
    BY <1>1, <2>1 DEF CreateInvoice
  <2> QED BY <2>2, <2>3, ClearArrivals
<1>2. ASSUME NEW n \in InvoiceAmounts, ReceiveGoods(n) PROVE ClearKept'
  <2>1. PICK x : x = [type |-> "GR", of |-> 0, amount |-> n, status |-> "OPEN", with |-> 0]
    OBVIOUS
  <2>2. x \in GrirRow /\ x.type = "GR" /\ x.status = "OPEN"
    BY <2>1, ClearingAssumption DEF GrirRow
  <2>3. clearing' = Append(clearing, x) /\ invoices' = invoices /\ UNCHANGED requestVars
    BY <1>2, <2>1 DEF ReceiveGoods, GrirEntry
  <2> QED BY <2>2, <2>3, ClearArrivals
<1>3. CASE UNCHANGED <<clearingVars, requestVars>>
  BY <1>3, ClearArrivals DEF clearingVars
<1> QED BY <1>1, <1>2, <1>3, InvoiceRead, InvoiceSaved, InvoiceBooked, MatchBegun, ReceiptsListed, InvoicesListed, ReceiptCleared,
     InvoiceCleared, ClearEnds DEF ClearingNext

LEMMA ClearStarts == ClearingInit => ClearKept
<1> SUFFICES ASSUME ClearingInit PROVE ClearKept
  OBVIOUS
<1>1. Apart /\ invoices = <<>> /\ clearing = <<>> /\ \A c \in Call : call[c] = Idle
  BY ApartStarts DEF ClearingInit, RequestsInit
<1>2. ClearTyped
  <2>1. call \in [Call -> ClearCall]
    BY DEF ClearingInit, RequestsInit, ClearCall
  <2>2. invoices \in Seq(Invoice) /\ clearing \in Seq(GrirRow) /\ OfInvoices
    BY <1>1 DEF OfInvoices, EntriesOf
  <2>3. \A c \in Call : ClearKnown(call[c]) /\ ClearsRows(call[c], touches[c])
    BY <1>1 DEF ClearKnown, ClearsRows, Idle
  <2> QED BY <1>1, <2>1, <2>2, <2>3 DEF ClearTyped
<1>3. \A c \in Call : ClearHeld(call[c])
  BY <1>1 DEF ClearHeld, Idle
<1> QED BY <1>1, <1>2, <1>3 DEF ClearKept, ClearingHolds

\* In every state, for any invoices and receipts: an invoice is entered for clearing
\* once, and not before it is approved; undisturbed and between requests, what may be
\* paid has been entered, and cleared entries form pairs (VendorInvoiceService, GrirService).
THEOREM EntriesClearInPairs == ClearingSpec => []ClearedInPairs
<1>1. ClearingInit => ClearKept
  BY ClearStarts
<1>2. ClearKept /\ [ClearingNext]_<<clearingVars, requestVars>> => ClearKept'
  BY ClearStep
<1>3. ClearKept => ClearedInPairs
  <2> SUFFICES ASSUME ClearKept, disjoint PROVE ClearedInPairs
    BY DEF ClearedInPairs, Undisturbed
  <2>1. ClearingHolds
    BY DEF ClearKept
  <2>2. ASSUME NEW i \in DOMAIN invoices
        PROVE  /\ Cardinality(EntriesOf(i)) <= 1
               /\ EntriesOf(i) # {} => invoices[i].status \in {"APPROVED", "PARTIALLY_PAID", "PAID", "REJECTED"}
    <3>1. InvoiceKept(i)
      BY <2>1 DEF ClearingHolds
    <3>2. CASE EntriesOf(i) = {}
      BY <3>2, FS_EmptySet
    <3>3. CASE EntriesOf(i) # {}
      <4>1. PICK e : EntriesOf(i) = {e}
        BY <3>1, <3>3 DEF InvoiceKept
      <4>2. Cardinality(EntriesOf(i)) = 1
        BY <4>1, FS_Singleton
      <4> QED BY <3>1, <4>2 DEF InvoiceKept, Payable
    <3> QED BY <3>2, <3>3
  <2>3. ASSUME Undisturbed, Quiet
        PROVE  /\ \A i \in DOMAIN invoices : invoices[i].status \in {"APPROVED", "PARTIALLY_PAID", "PAID"} => EntriesOf(i) # {}
               /\ \A e \in DOMAIN clearing : clearing[e].status = "CLEARED" => Paired(e)
    <3>1. \A c \in Call : call[c].pc \notin {"clearing", "linking"}
      BY <2>3 DEF Quiet, Idle
    <3>2. faults = 0
      BY <2>3 DEF Undisturbed
    <3> QED BY <2>1, <3>1, <3>2 DEF ClearingHolds, InvoiceKept, Payable, Entering, Linking
  <2> QED BY <2>2, <2>3 DEF ClearedInPairs, Paired
<1> QED BY <1>1, <1>2, <1>3, PTL DEF ClearingSpec

-----------------------------------------------------------------------------
(* Leave.                                                                    *)

USE LeaveAssumption, RequestsAssumption

-----------------------------------------------------------------------------
LEMMA LeaveStart == LeaveInit => LeaveTypeOK
BY DEF LeaveInit, RequestsInit, LeaveTypeOK, DaysBalance, ClaimRow, ClaimKind, ClaimStatus, LeaveCall, Continuation, Idle

CallsOK ==
  /\ call \in [Call -> LeaveCall]
  /\ touches \in [Call -> SUBSET {"employee"}]
  /\ disjoint \in BOOLEAN /\ faults \in 0 .. MaxFaults

\* How the steps of a request keep the types of what requests hold.
LEMMA StepTypes ==
  ASSUME CallsOK, NEW c \in Call,
         \/ \E next \in LeaveCall : Arrive(c, {"employee"}, next) \/ Await(c, next)
         \/ Answer(c) \/ Perish(c)
  PROVE  CallsOK'
<1> USE DEF CallsOK
<1>1. ASSUME NEW next \in LeaveCall, Arrive(c, {"employee"}, next) PROVE CallsOK'
  BY <1>1 DEF Arrive
<1>2. ASSUME NEW next \in LeaveCall, Await(c, next) PROVE CallsOK'
  BY <1>2 DEF Await
<1>3. ASSUME Answer(c) \/ Perish(c) PROVE CallsOK'
  <2>1. Idle \in LeaveCall
    BY DEF LeaveCall
  <2> QED BY <1>3, <2>1 DEF Answer, Perish
<1> QED BY <1>1, <1>2, <1>3

LEMMA LeaveTypeParts ==
  LeaveTypeOK <=> /\ balance \in DaysBalance /\ claims \in [Claim -> ClaimRow]
                  /\ log \in [sum : Int, occasions : Nat] /\ forfeited \in Int
                  /\ CallsOK
BY DEF LeaveTypeOK, CallsOK

\* The records that requests hold at each point.
LEMMA HeldTypes ==
  ASSUME LeaveTypeOK, NEW c \in Call
  PROVE  /\ call[c] \in LeaveCall
         /\ call[c].pc \in {"applying", "comparing", "filing"} =>
              call[c] \in [pc : {"applying", "comparing", "filing"}, kind : ClaimKind, units : Int,
                           period : Periods \union {{}}]
         /\ call[c].pc = "reading" =>
              call[c] \in [pc : {"reading"}, x : Claim, verb : {"approve", "cancel"}, seen : ClaimRow]
         /\ call[c].pc \in {"logging", "closing"} =>
              call[c] \in [pc : {"logging", "closing"}, x : Claim, verb : DOMAIN Becomes, seen : ClaimRow]
         /\ call[c].pc = "accruing" => call[c] \in [pc : {"accruing"}, occasion : BOOLEAN, units : Nat]
         /\ call[c].pc = "recording" => call[c] \in [pc : {"recording"}, occasion : BOOLEAN, units : Nat]
         /\ call[c].pc = "booking" =>
              call[c] \in [pc : {"booking"}, balance : DaysBalance, next : Continuation]
         /\ call[c].pc = "saving" =>
              call[c] \in [pc : {"saving"}, balance : DaysBalance, differ : SUBSET {"accrued", "taken", "adjusted"},
                           next : Continuation]
<1>1. call[c] \in LeaveCall
  BY DEF LeaveTypeOK
<1> QED BY <1>1 DEF LeaveCall, Continuation, Idle

-----------------------------------------------------------------------------
\* The balance that ReadBalance prepares is one.
LEMMA BookedType ==
  ASSUME balance \in DaysBalance, NEW claim \in ClaimRow, NEW verb \in {"approve", "cancel"}
  PROVE  Booked(verb, claim) \in DaysBalance
<1>1. Larger(0, balance.taken - claim.units) \in Int
  BY DEF Larger, DaysBalance, ClaimRow
<1>2. CASE verb = "cancel"
  <2>1. Booked(verb, claim) = [balance EXCEPT !.taken = Larger(0, balance.taken - claim.units)]
    BY <1>2 DEF Booked
  <2> QED BY <1>1, <2>1 DEF DaysBalance
<1>3. CASE verb = "approve" /\ claim.kind = "leave"
  <2>1. Booked(verb, claim) = [balance EXCEPT !.taken = balance.taken + claim.units]
    BY <1>3 DEF Booked
  <2> QED BY <2>1 DEF DaysBalance, ClaimRow
<1>4. CASE verb = "approve" /\ claim.kind = "encashment"
  <2>1. Booked(verb, claim) = [balance EXCEPT !.adjusted = balance.adjusted - claim.units]
    BY <1>4 DEF Booked
  <2> QED BY <2>1 DEF DaysBalance, ClaimRow
<1> QED BY <1>2, <1>3, <1>4 DEF ClaimRow, ClaimKind

\* Actions that change what a request holds and nothing else.
LEMMA QuietSteps ==
  ASSUME LeaveTypeOK, NEW c \in Call, UNCHANGED leaveVars,
         \/ \E next \in LeaveCall : Arrive(c, {"employee"}, next) \/ Await(c, next)
         \/ Answer(c) \/ Perish(c)
  PROVE  LeaveTypeOK'
<1>1. CallsOK
  BY LeaveTypeParts
<1>2. CallsOK'
  BY <1>1, StepTypes
<1> QED BY <1>2, LeaveTypeParts DEF LeaveTypeOK, CallsOK, leaveVars

\* One step per action.
LEMMA TypesStay ==
  ASSUME LeaveTypeOK, [LeaveNext]_<<leaveVars, requestVars>>
  PROVE  LeaveTypeOK'
<1>1. ASSUME NEW c \in Call, NEW kind \in ClaimKind, NEW units \in Int, NEW p \in Periods \union {{}},
             Apply(c, kind, units, p)
      PROVE  LeaveTypeOK'
  <2>1. [pc |-> "applying", kind |-> kind, units |-> units, period |-> p] \in LeaveCall
    BY DEF LeaveCall
  <2> QED BY <1>1, <2>1, QuietSteps DEF Apply
<1>2. ASSUME NEW c \in Call, CheckBalance(c) \/ CheckConflicts(c) PROVE LeaveTypeOK'
  <2> DEFINE next(pc) == [call[c] EXCEPT !.pc = pc]
  <2>1. call[c].pc \in {"applying", "comparing"}
    BY <1>2 DEF CheckBalance, CheckConflicts, At
  <2>2. ASSUME NEW pc \in {"comparing", "filing"} PROVE next(pc) \in LeaveCall
    BY <2>1, HeldTypes DEF LeaveCall
  <2>3. /\ Answer(c) \/ \E pc \in {"comparing", "filing"} : Await(c, next(pc))
        /\ UNCHANGED leaveVars
    BY <1>2 DEF CheckBalance, CheckConflicts
  <2>4. CASE Answer(c)
    BY <2>3, <2>4, QuietSteps
  <2>5. ASSUME NEW pc \in {"comparing", "filing"}, Await(c, next(pc)) PROVE LeaveTypeOK'
    <3> HIDE DEF next
    <3> QED BY <2>2, <2>3, <2>5, QuietSteps
  <2> QED BY <2>3, <2>4, <2>5
<1>3. ASSUME NEW c \in Call, NEW x \in Claim, SaveNew(c, x) PROVE LeaveTypeOK'
  <2>1. CallsOK'
    BY <1>3, LeaveTypeParts, StepTypes DEF SaveNew
  <2>2. claims' \in [Claim -> ClaimRow]
    <3>1. call[c] \in [pc : {"applying", "comparing", "filing"}, kind : ClaimKind, units : Int,
                       period : Periods \union {{}}]
      BY <1>3, HeldTypes DEF SaveNew, At
    <3> QED BY <1>3, <3>1 DEF SaveNew, LeaveTypeOK, ClaimRow, ClaimStatus
  <2> QED BY <1>3, <2>1, <2>2, LeaveTypeParts DEF SaveNew, LeaveTypeOK, CallsOK
<1>4. ASSUME NEW c \in Call, NEW x \in Claim, NEW verb \in DOMAIN Becomes, FindClaim(c, x, verb)
      PROVE  LeaveTypeOK'
  <2> DEFINE next(pc) == [pc |-> pc, x |-> x, verb |-> verb, seen |-> claims[x]]
  <2>1. claims[x] \in ClaimRow
    BY DEF LeaveTypeOK
  <2>2. next("closing") \in LeaveCall /\ (verb \in {"approve", "cancel"} => next("reading") \in LeaveCall)
    BY <2>1 DEF LeaveCall, Continuation
  <2>3. /\ UNCHANGED leaveVars
        /\ \/ Arrive(c, {"employee"}, next("closing"))
           \/ verb \in {"approve", "cancel"} /\ Arrive(c, {"employee"}, next("reading"))
    BY <1>4 DEF FindClaim
  <2> HIDE DEF next
  <2> QED BY <2>2, <2>3, QuietSteps
<1>5. ASSUME NEW c \in Call, ReadBalance(c) PROVE LeaveTypeOK'
  <2> DEFINE t == call[c]
             then == [pc |-> IF t.seen.kind = "leave" THEN "closing" ELSE "logging",
                      x |-> t.x, verb |-> t.verb, seen |-> t.seen]
             next == [pc |-> "booking", balance |-> Booked(t.verb, t.seen), next |-> then]
  <2>1. t \in [pc : {"reading"}, x : Claim, verb : {"approve", "cancel"}, seen : ClaimRow]
    BY <1>5, HeldTypes DEF ReadBalance, At
  <2>2. UNCHANGED leaveVars /\ (Answer(c) \/ Await(c, next))
    BY <1>5 DEF ReadBalance
  <2>3. Booked(t.verb, t.seen) \in DaysBalance
    BY <2>1, BookedType DEF LeaveTypeOK
  <2>4. then \in Continuation
    BY <2>1 DEF Continuation, Becomes
  <2> HIDE DEF then
  <2>5. next \in LeaveCall
    BY <2>3, <2>4 DEF LeaveCall
  <2> HIDE DEF next
  <2> QED BY <2>2, <2>5, QuietSteps
<1>6. ASSUME NEW c \in Call, CompareBalance(c) PROVE LeaveTypeOK'
  <2> DEFINE columns == {column \in DOMAIN balance : call[c].balance[column] # balance[column]}
             next == [pc |-> "saving", balance |-> call[c].balance, next |-> call[c].next, differ |-> columns]
  <2>1. call[c] \in [pc : {"booking"}, balance : DaysBalance, next : Continuation]
    BY <1>6, HeldTypes DEF CompareBalance, At
  <2>2. columns \in SUBSET {"accrued", "taken", "adjusted"}
    BY DEF LeaveTypeOK, DaysBalance
  <2>3. UNCHANGED leaveVars /\ Await(c, next)
    BY <1>6 DEF CompareBalance
  <2> HIDE DEF columns
  <2>4. next \in LeaveCall
    BY <2>1, <2>2 DEF LeaveCall
  <2> HIDE DEF next
  <2> QED BY <2>3, <2>4, QuietSteps
<1>7. ASSUME NEW c \in Call, SaveBalance(c) PROVE LeaveTypeOK'
  <2>1. call[c] \in [pc : {"saving"}, balance : DaysBalance, differ : SUBSET {"accrued", "taken", "adjusted"},
                     next : Continuation]
    BY <1>7, HeldTypes DEF SaveBalance, At
  <2>2. call[c].next \in LeaveCall /\ Await(c, call[c].next)
    BY <1>7, <2>1 DEF SaveBalance, LeaveCall
  <2>3. CallsOK'
    BY <2>2, LeaveTypeParts, StepTypes
  <2>4. balance' \in DaysBalance
    BY <1>7, <2>1 DEF SaveBalance, LeaveTypeOK, DaysBalance
  <2> QED BY <1>7, <2>3, <2>4, LeaveTypeParts DEF SaveBalance, LeaveTypeOK, CallsOK
<1>8. ASSUME NEW c \in Call, LogEncashment(c) \/ SaveClaim(c) PROVE LeaveTypeOK'
  <2>1. call[c] \in [pc : {"logging", "closing"}, x : Claim, verb : DOMAIN Becomes, seen : ClaimRow]
    BY <1>8, HeldTypes DEF LogEncashment, SaveClaim, At
  <2>2. Answer(c) \/ \E next \in LeaveCall : Await(c, next)
    <3>1. [call[c] EXCEPT !.pc = "closing"] \in LeaveCall
      BY <2>1 DEF LeaveCall, Continuation
    <3> QED BY <1>8, <2>1, <3>1 DEF LogEncashment, SaveClaim
  <2>3. CallsOK'
    BY <2>2, LeaveTypeParts, StepTypes
  <2>4. log' \in [sum : Int, occasions : Nat]
    BY <1>8, <2>1 DEF LogEncashment, SaveClaim, LeaveTypeOK, ClaimRow
  <2>5. claims' \in [Claim -> ClaimRow] /\ forfeited' \in Int
    <3>1. Becomes[call[c].verb] \in ClaimStatus
      BY <2>1 DEF Becomes, ClaimStatus
    <3>2. [call[c].seen EXCEPT !.status = Becomes[call[c].verb]] \in ClaimRow
      BY <2>1, <3>1 DEF ClaimRow
    <3> QED BY <1>8, <2>1, <3>2 DEF LogEncashment, SaveClaim, LeaveTypeOK, ClaimRow
  <2>6. balance' \in DaysBalance
    BY <1>8 DEF LogEncashment, SaveClaim, LeaveTypeOK
  <2> QED BY <2>3, <2>4, <2>5, <2>6 DEF LeaveTypeOK, CallsOK
<1>9. ASSUME NEW c \in Call, NEW units \in Grants, NEW occasion \in BOOLEAN, BeginAccrual(c, occasion, units)
      PROVE  LeaveTypeOK'
  <2>1. [pc |-> "accruing", occasion |-> occasion, units |-> units] \in LeaveCall
    BY DEF LeaveCall
  <2> QED BY <1>9, <2>1, QuietSteps DEF BeginAccrual
<1>10. ASSUME NEW c \in Call, ReadAccrued(c) PROVE LeaveTypeOK'
  <2> DEFINE more == [balance EXCEPT !.accrued = @ + call[c].units]
             then == [pc |-> "recording", occasion |-> call[c].occasion, units |-> call[c].units]
             next == [pc |-> "booking", balance |-> more, next |-> then]
  <2>1. call[c] \in [pc : {"accruing"}, occasion : BOOLEAN, units : Nat]
    BY <1>10, HeldTypes DEF ReadAccrued, At
  <2>2. more \in DaysBalance /\ then \in Continuation
    BY <2>1 DEF LeaveTypeOK, DaysBalance, Continuation
  <2>3. Await(c, next) /\ UNCHANGED leaveVars
    BY <1>10 DEF ReadAccrued
  <2> HIDE DEF more, then
  <2>4. next \in LeaveCall
    BY <2>2 DEF LeaveCall
  <2> HIDE DEF next
  <2> QED BY <2>3, <2>4, QuietSteps
<1>11. ASSUME NEW c \in Call, LogAccrual(c) PROVE LeaveTypeOK'
  <2>1. call[c] \in [pc : {"recording"}, occasion : BOOLEAN, units : Nat]
    BY <1>11, HeldTypes DEF LogAccrual, At
  <2>2. CallsOK'
    BY <1>11, LeaveTypeParts, StepTypes DEF LogAccrual
  <2>3. log' \in [sum : Int, occasions : Nat]
    BY <1>11, <2>1 DEF LogAccrual, LeaveTypeOK
  <2> QED BY <1>11, <2>2, <2>3, LeaveTypeParts DEF LogAccrual, LeaveTypeOK, CallsOK
<1>12. ASSUME NEW c \in Call, Refuse(c) \/ PerishInLeave(c) PROVE LeaveTypeOK'
  BY <1>12, QuietSteps DEF Refuse, PerishInLeave
<1>13. CASE UNCHANGED <<leaveVars, requestVars>>
  BY <1>13 DEF leaveVars, requestVars, LeaveTypeOK
<1> QED
  BY <1>1, <1>2, <1>3, <1>4, <1>5, <1>6, <1>7, <1>8, <1>9, <1>10, <1>11, <1>12, <1>13 DEF LeaveNext, ClaimKind

\* Whatever requests for one employee overlap or die, the balance, the claims, the
\* log and what requests hold keep their types, for any days, negative ones too
\* (LeaveService).
THEOREM LeaveTypeCorrect == LeaveSpec => []LeaveTypeOK
<1> QED BY LeaveStart, TypesStay, PTL DEF LeaveSpec

-----------------------------------------------------------------------------
\* A request that is under way touches the employee, and while no two overlap
\* there is one.
LeaveSingle ==
  /\ \A c \in Call : call[c] # Idle => touches[c] = {"employee"}
  /\ disjoint => \A c, d \in Call : call[c] # Idle /\ call[d] # Idle => c = d

\* What a request is going to do when it has saved a balance, or does now.
Held(t) == IF t.pc \in {"booking", "saving"} THEN t.next ELSE t

\* What a decision has read is what is stored, and may be decided so.
SeenStands ==
  disjoint =>
    \A c \in Call : Held(call[c]).pc \in {"reading", "logging", "closing"} =>
      /\ Held(call[c]).x \in Claim /\ Held(call[c]).seen = claims[Held(call[c]).x]
      /\ Permitted(Held(call[c]).seen, Held(call[c]).verb)

\* A new leave that has been compared shares no date with one that stands.
PeriodFree ==
  disjoint =>
    \A c \in Call : call[c].pc = "filing" /\ call[c].kind = "leave" =>
      \A x \in Standing("leave", {"SUBMITTED", "APPROVED"}) : claims[x].period \intersect call[c].period = {}

\* A claim that was not made is for no days.
Blank == \A x \in Claim : claims[x].status = "absent" => claims[x].units = 0

Dates == LeaveTypeOK /\ LeaveSingle /\ Blank /\ SeenStands /\ PeriodFree /\ DatesBookedOnce

\* A request arrives when no other is under way, or the overlap is on record.
LEMMA LeaveSingleStep ==
  ASSUME LeaveTypeOK, LeaveSingle, NEW c \in Call,
         \/ \E next : next # Idle /\ (Arrive(c, {"employee"}, next) \/ (call[c] # Idle /\ Await(c, next)))
         \/ Answer(c) \/ Perish(c)
  PROVE  LeaveSingle' /\ (disjoint' => disjoint)
<1> USE DEF LeaveSingle, LeaveTypeOK
<1>1. ASSUME NEW next, next # Idle, Arrive(c, {"employee"}, next) PROVE LeaveSingle' /\ (disjoint' => disjoint)
  BY <1>1 DEF Arrive
<1>2. ASSUME NEW next, next # Idle, call[c] # Idle, Await(c, next) PROVE LeaveSingle' /\ (disjoint' => disjoint)
  BY <1>2 DEF Await
<1>3. ASSUME Answer(c) \/ Perish(c) PROVE LeaveSingle' /\ (disjoint' => disjoint)
  BY <1>3 DEF Answer, Perish
<1> QED BY <1>1, <1>2, <1>3

\* Steps that store no claim.
LEMMA ClaimsUnchanged ==
  ASSUME Dates, LeaveTypeOK', NEW c \in Call, UNCHANGED claims,
         \/ \E next :
              /\ next # Idle
              /\ Arrive(c, {"employee"}, next) \/ (call[c] # Idle /\ Await(c, next))
              /\ Held(next).pc \in {"reading", "logging", "closing"} =>
                   /\ Held(next).x \in Claim
                   /\ disjoint => Held(next).seen = claims[Held(next).x] /\ Permitted(Held(next).seen, Held(next).verb)
              /\ disjoint /\ next.pc = "filing" /\ next.kind = "leave" =>
                   \A x \in Standing("leave", {"SUBMITTED", "APPROVED"}) : claims[x].period \intersect next.period = {}
         \/ Answer(c) \/ Perish(c)
  PROVE  Dates'
<1>1. LeaveSingle' /\ (disjoint' => disjoint)
  BY LeaveSingleStep DEF Dates
<1>2. DatesBookedOnce'
  BY <1>1 DEF Dates, DatesBookedOnce, Standing
<1>3. ASSUME NEW next, call' = [call EXCEPT ![c] = next],
             Held(next).pc \in {"reading", "logging", "closing"} =>
               /\ Held(next).x \in Claim
               /\ disjoint => Held(next).seen = claims[Held(next).x] /\ Permitted(Held(next).seen, Held(next).verb),
             disjoint /\ next.pc = "filing" /\ next.kind = "leave" =>
               \A x \in Standing("leave", {"SUBMITTED", "APPROVED"}) : claims[x].period \intersect next.period = {}
      PROVE  SeenStands' /\ PeriodFree'
  <2>1. SeenStands'
    BY <1>1, <1>3 DEF Dates, SeenStands, LeaveTypeOK, Permitted
  <2>2. PeriodFree'
    BY <1>1, <1>3 DEF Dates, PeriodFree, LeaveTypeOK, Standing
  <2> QED BY <2>1, <2>2
<1>6. Blank'
  BY DEF Dates, Blank
<1>4. CASE Answer(c) \/ Perish(c)
  <2>1. call' = [call EXCEPT ![c] = Idle]
    BY <1>4 DEF Answer, Perish
  <2>2. Held(Idle) = Idle /\ Idle.pc = "idle"
    BY DEF Held, Idle
  <2>3. SeenStands' /\ PeriodFree'
    BY <1>3, <2>1, <2>2
  <2> QED BY <1>1, <1>2, <1>6, <2>3 DEF Dates
<1>5. ASSUME NEW next, Arrive(c, {"employee"}, next) \/ Await(c, next)
      PROVE  call' = [call EXCEPT ![c] = next]
  BY <1>5 DEF Arrive, Await
<1> QED BY <1>1, <1>2, <1>3, <1>4, <1>5, <1>6 DEF Dates

\* The two steps that store a claim.
LEMMA NewClaimStep ==
  ASSUME Dates, LeaveTypeOK', NEW c \in Call, NEW y \in Claim, SaveNew(c, y)
  PROVE  Dates'
<1>1. LeaveSingle' /\ (disjoint' => disjoint)
  BY LeaveSingleStep DEF Dates, SaveNew
<1>2. ASSUME disjoint' PROVE SeenStands' /\ PeriodFree' /\ DatesBookedOnce'
  <2>1. /\ call[c].pc = "filing" /\ call[c] # Idle
        /\ call' = [call EXCEPT ![c] = Idle]
        /\ claims' = [claims EXCEPT ![y] = [kind |-> call[c].kind, status |-> "SUBMITTED",
                                            units |-> call[c].units, period |-> call[c].period]]
    BY DEF SaveNew, At, Answer, Idle
  <2>2. \A d \in Call : call'[d] = Idle
    BY <1>1, <1>2, <2>1 DEF Dates, LeaveSingle, LeaveTypeOK
  <2>3. SeenStands' /\ PeriodFree'
    BY <2>2 DEF SeenStands, PeriodFree, Held, Idle
  <2>4. ASSUME NEW x \in Claim, x # y, claims'[x].kind = "leave", claims'[x].status \in {"SUBMITTED", "APPROVED"},
               call[c].kind = "leave"
        PROVE  claims'[x].period \intersect claims'[y].period = {}
    BY <1>1, <1>2, <2>1, <2>4 DEF Dates, PeriodFree, Standing, LeaveTypeOK
  <2>5. DatesBookedOnce'
    BY <1>1, <1>2, <2>1, <2>4 DEF Dates, DatesBookedOnce, Standing, LeaveTypeOK
  <2> QED BY <2>3, <2>5
<1>3. Blank'
  BY DEF Dates, Blank, SaveNew, LeaveTypeOK
<1> QED BY <1>1, <1>2, <1>3 DEF Dates, SeenStands, PeriodFree, DatesBookedOnce

LEMMA DecisionStep ==
  ASSUME Dates, LeaveTypeOK', NEW c \in Call, SaveClaim(c)
  PROVE  Dates'
<1>1. LeaveSingle' /\ (disjoint' => disjoint)
  BY LeaveSingleStep DEF Dates, SaveClaim
<1>2. ASSUME disjoint' PROVE SeenStands' /\ PeriodFree' /\ DatesBookedOnce'
  <2> DEFINE y == call[c].x
  <2>1. /\ call[c].pc = "closing" /\ call[c] # Idle
        /\ call' = [call EXCEPT ![c] = Idle]
        /\ claims' = [claims EXCEPT ![y] = [call[c].seen EXCEPT !.status = Becomes[call[c].verb]]]
    BY DEF SaveClaim, At, Answer, Idle
  <2>2. \A d \in Call : call'[d] = Idle
    BY <1>1, <1>2, <2>1 DEF Dates, LeaveSingle, LeaveTypeOK
  <2>3. SeenStands' /\ PeriodFree'
    BY <2>2 DEF SeenStands, PeriodFree, Held, Idle
  <2>4. y \in Claim /\ call[c].seen = claims[y] /\ Permitted(claims[y], call[c].verb) /\ call[c].verb \in DOMAIN Becomes
    <3>1. Held(call[c]) = call[c]
      BY <2>1 DEF Held
    <3> QED BY <1>1, <1>2, <2>1, <3>1, HeldTypes DEF Dates, SeenStands
  <2>5. claims[y] \in ClaimRow
    BY <2>4 DEF Dates, LeaveTypeOK
  <2>6. claims' = [claims EXCEPT ![y] = [claims[y] EXCEPT !.status = Becomes[call[c].verb]]]
    BY <2>1, <2>4
  <2>7. Becomes[call[c].verb] \in {"SUBMITTED", "APPROVED"} => claims[y].status \in {"SUBMITTED", "APPROVED"}
    BY <2>4, <2>5 DEF Permitted, Becomes
  <2>8. ASSUME NEW x \in Claim, claims'[x].kind = "leave", claims'[x].status \in {"SUBMITTED", "APPROVED"}
        PROVE  x \in Standing("leave", {"SUBMITTED", "APPROVED"}) /\ claims'[x].period = claims[x].period
    <3>1. CASE x = y
      BY <2>4, <2>5, <2>6, <2>7, <2>8, <3>1 DEF Dates, LeaveTypeOK, Standing, ClaimRow
    <3>2. CASE x # y
      BY <2>6, <2>8, <3>2 DEF Dates, LeaveTypeOK, Standing
    <3> QED BY <3>1, <3>2
  <2>9. DatesBookedOnce'
    <3> SUFFICES ASSUME NEW x \in Standing("leave", {"SUBMITTED", "APPROVED"})',
                        NEW z \in Standing("leave", {"SUBMITTED", "APPROVED"})', x # z
                 PROVE  claims'[x].period \intersect claims'[z].period = {}
      BY DEF DatesBookedOnce
    <3>1. /\ x \in Claim /\ claims'[x].kind = "leave" /\ claims'[x].status \in {"SUBMITTED", "APPROVED"}
          /\ z \in Claim /\ claims'[z].kind = "leave" /\ claims'[z].status \in {"SUBMITTED", "APPROVED"}
      BY DEF Standing
    <3> QED BY <1>1, <1>2, <2>8, <3>1 DEF Dates, DatesBookedOnce
  <2> QED BY <2>3, <2>9
<1>3. Blank'
  <2>1. call[c] \in [pc : {"logging", "closing"}, x : Claim, verb : DOMAIN Becomes, seen : ClaimRow]
    BY HeldTypes DEF SaveClaim, At, Dates
  <2>2. Becomes[call[c].verb] # "absent"
    BY <2>1 DEF Becomes
  <2>3. [call[c].seen EXCEPT !.status = Becomes[call[c].verb]].status # "absent"
    BY <2>1, <2>2 DEF ClaimRow
  <2> QED BY <2>1, <2>3 DEF Dates, Blank, SaveClaim, LeaveTypeOK
<1> QED BY <1>1, <1>2, <1>3 DEF Dates, SeenStands, PeriodFree, DatesBookedOnce

LEMMA DatesStep ==
  ASSUME Dates, [LeaveNext]_<<leaveVars, requestVars>>
  PROVE  Dates'
<1>0. LeaveTypeOK /\ LeaveTypeOK'
  BY TypesStay DEF Dates
<1>1. ASSUME NEW c \in Call, NEW kind \in ClaimKind, NEW units \in Int, NEW p, Apply(c, kind, units, p)
      PROVE  Dates'
  BY <1>0, <1>1, ClaimsUnchanged DEF Apply, leaveVars, Held, Idle
<1>2. ASSUME NEW c \in Call, CheckBalance(c) PROVE Dates'
  <2>1. call[c] \in [pc : {"applying", "comparing", "filing"}, kind : ClaimKind, units : Int,
                     period : Periods \union {{}}]
    BY <1>0, <1>2, HeldTypes DEF CheckBalance, At
  <2> DEFINE next == [call[c] EXCEPT !.pc = IF call[c].kind = "leave" THEN "comparing" ELSE "filing"]
  <2>2. /\ next # Idle /\ call[c] # Idle
        /\ Held(next).pc \notin {"reading", "logging", "closing"}
        /\ next.pc = "filing" => next.kind # "leave"
    BY <1>2, <2>1 DEF Idle, CheckBalance, At, Held
  <2>3. UNCHANGED claims /\ (Answer(c) \/ Await(c, next))
    BY <1>2 DEF CheckBalance, leaveVars
  <2> HIDE DEF next
  <2> QED BY <1>0, <2>2, <2>3, ClaimsUnchanged
<1>3. ASSUME NEW c \in Call, CheckConflicts(c) PROVE Dates'
  <2>1. call[c] \in [pc : {"applying", "comparing", "filing"}, kind : ClaimKind, units : Int,
                     period : Periods \union {{}}]
    BY <1>0, <1>3, HeldTypes DEF CheckConflicts, At
  <2> DEFINE next == [call[c] EXCEPT !.pc = "filing"]
  <2>2. next # Idle /\ call[c] # Idle /\ next.pc = "filing" /\ Held(next) = next /\ next.period = call[c].period
    BY <1>3, <2>1 DEF Idle, CheckConflicts, At, Held
  <2>3. /\ UNCHANGED claims
        /\ \/ Answer(c)
           \/ /\ Await(c, next)
              /\ \A x \in Standing("leave", {"SUBMITTED", "APPROVED"}) : claims[x].period \intersect call[c].period = {}
    BY <1>3 DEF CheckConflicts, leaveVars
  <2> HIDE DEF next
  <2> QED BY <1>0, <2>2, <2>3, ClaimsUnchanged
<1>4. ASSUME NEW c \in Call, NEW x \in Claim, SaveNew(c, x) PROVE Dates'
  BY <1>0, <1>4, NewClaimStep
<1>5. ASSUME NEW c \in Call, NEW x \in Claim, NEW verb \in DOMAIN Becomes, FindClaim(c, x, verb) PROVE Dates'
  <2> DEFINE next(pc) == [pc |-> pc, x |-> x, verb |-> verb, seen |-> claims[x]]
  <2>1. \A pc \in {"reading", "closing"} :
          /\ next(pc) # Idle /\ Held(next(pc)) = next(pc)
          /\ next(pc).pc = pc /\ next(pc).x = x /\ next(pc).verb = verb /\ next(pc).seen = claims[x]
    BY DEF Idle, Held
  <2>2. /\ UNCHANGED claims /\ Permitted(claims[x], verb)
        /\ \E pc \in {"reading", "closing"} : Arrive(c, {"employee"}, next(pc))
    BY <1>5 DEF FindClaim, leaveVars
  <2> HIDE DEF next
  <2> QED BY <1>0, <2>1, <2>2, ClaimsUnchanged
<1>6. ASSUME NEW c \in Call, ReadBalance(c) \/ CompareBalance(c) \/ SaveBalance(c) \/ LogEncashment(c) PROVE Dates'
  <2>1. call[c] # Idle /\ UNCHANGED claims
    BY <1>6 DEF ReadBalance, CompareBalance, SaveBalance, LogEncashment, At, Idle, leaveVars
  <2>2. Answer(c) \/ \E next : /\ next # Idle /\ next.pc # "filing" /\ Await(c, next)
                               /\ Held(next).pc \in {"reading", "logging", "closing"} =>
                                    /\ Held(next).x = Held(call[c]).x /\ Held(next).verb = Held(call[c]).verb
                                    /\ Held(next).seen = Held(call[c]).seen /\ Held(next).x \in Claim
                                    /\ Held(call[c]).pc \in {"reading", "logging", "closing"}
    <3>1. CASE ReadBalance(c)
      <4>1. PICK t : t = call[c]
        OBVIOUS
      <4>2. t \in [pc : {"reading"}, x : Claim, verb : {"approve", "cancel"}, seen : ClaimRow] /\ Held(t) = t
        BY <1>0, <3>1, <4>1, HeldTypes DEF ReadBalance, At, Held
      <4>3. PICK next : next = [pc |-> "booking", balance |-> Booked(t.verb, t.seen),
                                next |-> [pc |-> IF t.seen.kind = "leave" THEN "closing" ELSE "logging",
                                          x |-> t.x, verb |-> t.verb, seen |-> t.seen]]
        OBVIOUS
      <4>4. Answer(c) \/ Await(c, next)
        BY <3>1, <4>1, <4>3 DEF ReadBalance
      <4> QED BY <4>1, <4>2, <4>3, <4>4 DEF Held, Idle
    <3>2. CASE CompareBalance(c)
      <4>1. call[c] \in [pc : {"booking"}, balance : DaysBalance, next : Continuation]
        BY <1>0, <3>2, HeldTypes DEF CompareBalance, At
      <4>2. \E next : Await(c, next) /\ next.pc = "saving" /\ next.next = call[c].next
        BY <3>2 DEF CompareBalance
      <4> QED BY <4>1, <4>2 DEF Held, Idle, Continuation
    <3>3. CASE SaveBalance(c)
      <4>1. call[c] \in [pc : {"saving"}, balance : DaysBalance, differ : SUBSET {"accrued", "taken", "adjusted"},
                         next : Continuation]
        BY <1>0, <3>3, HeldTypes DEF SaveBalance, At
      <4>2. Await(c, call[c].next)
        BY <3>3 DEF SaveBalance
      <4>3. call[c].next.pc \in {"logging", "closing", "recording"} /\ Held(call[c]) = call[c].next
        BY <4>1 DEF Continuation, Held
      <4> QED BY <4>1, <4>2, <4>3 DEF Held, Idle, Continuation
    <3>4. CASE LogEncashment(c)
      <4>1. Await(c, [call[c] EXCEPT !.pc = "closing"])
        BY <3>4 DEF LogEncashment
      <4>2. /\ call[c] \in [pc : {"logging", "closing"}, x : Claim, verb : DOMAIN Becomes, seen : ClaimRow]
            /\ call[c].pc = "logging"
        BY <1>0, <3>4, HeldTypes DEF LogEncashment, At
      <4> QED BY <4>1, <4>2 DEF Idle, Held
    <3> QED BY <1>6, <3>1, <3>2, <3>3, <3>4
  <2>3. disjoint /\ Held(call[c]).pc \in {"reading", "logging", "closing"} =>
          Held(call[c]).seen = claims[Held(call[c]).x] /\ Permitted(Held(call[c]).seen, Held(call[c]).verb)
    BY DEF Dates, SeenStands
  <2> QED BY <1>0, <2>1, <2>2, <2>3, ClaimsUnchanged
<1>7. ASSUME NEW c \in Call, SaveClaim(c) PROVE Dates'
  BY <1>0, <1>7, DecisionStep
<1>8. ASSUME NEW c \in Call, NEW units, NEW occasion, BeginAccrual(c, occasion, units) PROVE Dates'
  BY <1>0, <1>8, ClaimsUnchanged DEF BeginAccrual, leaveVars, Held, Idle
<1>9. ASSUME NEW c \in Call, ReadAccrued(c) PROVE Dates'
  <2>1. call[c] # Idle /\ UNCHANGED claims
    BY <1>9 DEF ReadAccrued, At, Idle, leaveVars
  <2>2. \E next : next # Idle /\ next.pc # "filing" /\ Held(next).pc = "recording" /\ Await(c, next)
    BY <1>9 DEF ReadAccrued, Held, Idle
  <2> QED BY <1>0, <2>1, <2>2, ClaimsUnchanged
<1>10. ASSUME NEW c \in Call, LogAccrual(c) \/ Refuse(c) \/ PerishInLeave(c) PROVE Dates'
  BY <1>0, <1>10, ClaimsUnchanged DEF LogAccrual, Refuse, PerishInLeave, leaveVars
<1>11. CASE UNCHANGED <<leaveVars, requestVars>>
  BY <1>0, <1>11 DEF Dates, leaveVars, requestVars, LeaveSingle, Blank, SeenStands, PeriodFree, DatesBookedOnce, Standing
<1> QED
  BY <1>1, <1>2, <1>3, <1>4, <1>5, <1>6, <1>7, <1>8, <1>9, <1>10, <1>11 DEF LeaveNext, ClaimKind

LEMMA DatesStart == LeaveInit => Dates
BY LeaveStart DEF LeaveInit, RequestsInit, Dates, LeaveSingle, Blank, SeenStands, PeriodFree, DatesBookedOnce, Standing,
     Held, Idle

\* While no two requests for the employee overlap, and whichever of them die, no
\* two leaves that are asked for or approved share a date, for any number of
\* claims (applyLeave's search for conflicts).
THEOREM DatesApart == LeaveSpec => []DatesBookedOnce
<1>1. Dates => DatesBookedOnce
  BY DEF Dates
<1> QED BY <1>1, DatesStart, DatesStep, PTL DEF LeaveSpec

-----------------------------------------------------------------------------
\* The columns a save leaves out are as the request has them in memory: with the
\* others, the row becomes what it has.
SavedWhole ==
  disjoint => \A c \in Call : call[c].pc = "saving" =>
    \A column \in {"accrued", "taken", "adjusted"} \ call[c].differ : call[c].balance[column] = balance[column]

\* A balance that is not overdrawn, with no day taken that is not one.
Sound(b) == b.taken >= 0 /\ Available(b) >= 0

Floor ==
  disjoint /\ NoneNegative =>
    /\ Sound(balance)
    /\ \A c \in Call : call[c].pc \in {"booking", "saving"} => Sound(call[c].balance)

\* A decision or an accrual saves what it has in memory.
LEMMA SavesItsBalance ==
  ASSUME LeaveTypeOK, SavedWhole, disjoint, NEW c \in Call, SaveBalance(c)
  PROVE  balance' = call[c].balance
<1>1. call[c] \in [pc : {"saving"}, balance : DaysBalance, differ : SUBSET {"accrued", "taken", "adjusted"},
                   next : Continuation]
  BY HeldTypes DEF SaveBalance, At
<1>2. PICK t : t = call[c]
  OBVIOUS
<1>3. /\ t.balance \in DaysBalance /\ balance \in DaysBalance
      /\ \A column \in {"accrued", "taken", "adjusted"} \ t.differ : t.balance[column] = balance[column]
  BY <1>1, <1>2 DEF LeaveTypeOK, SavedWhole
<1>4. balance' = [column \in {"accrued", "taken", "adjusted"} |->
                   IF column \in t.differ THEN t.balance[column] ELSE balance[column]]
  BY <1>2, <1>3 DEF SaveBalance, DaysBalance
<1>5. t.balance = [column \in {"accrued", "taken", "adjusted"} |-> t.balance[column]]
  BY <1>3 DEF DaysBalance
<1>6. balance' = [column \in {"accrued", "taken", "adjusted"} |-> t.balance[column]]
  BY <1>3, <1>4
<1> QED BY <1>2, <1>5, <1>6

\* What ReadBalance prepares is sound.
LEMMA BookedSound ==
  ASSUME balance \in DaysBalance, Sound(balance), NEW claim \in ClaimRow, claim.units >= 0,
         NEW verb \in {"approve", "cancel"}, Enough(verb, claim.units)
  PROVE  Sound(Booked(verb, claim))
<1> USE DEF DaysBalance, ClaimRow, ClaimKind, Available, Sound
<1>1. CASE verb = "cancel"
  <2>1. Booked(verb, claim) = [balance EXCEPT !.taken = Larger(0, balance.taken - claim.units)]
    BY <1>1 DEF Booked
  <2>2. Larger(0, balance.taken - claim.units) \in Nat /\ Larger(0, balance.taken - claim.units) <= balance.taken
    BY DEF Larger
  <2>3. ASSUME NEW n \in Nat, n <= balance.taken PROVE Sound([balance EXCEPT !.taken = n])
    BY <2>3
  <2> QED BY <2>1, <2>2, <2>3
<1>2. CASE verb = "approve" /\ claim.kind = "leave"
  <2>1. Booked(verb, claim) = [balance EXCEPT !.taken = @ + claim.units]
    BY <1>2 DEF Booked
  <2> QED BY <1>2, <2>1 DEF Enough
<1>3. CASE verb = "approve" /\ claim.kind = "encashment"
  <2>1. Booked(verb, claim) = [balance EXCEPT !.adjusted = @ - claim.units]
    BY <1>3 DEF Booked
  <2> QED BY <1>3, <2>1 DEF Enough
<1> QED BY <1>1, <1>2, <1>3

\* No step takes back that an application was for negative days, or an overlap.
LEMMA StaysRegular ==
  ASSUME Dates, [LeaveNext]_<<leaveVars, requestVars>>, disjoint', NoneNegative'
  PROVE  disjoint /\ NoneNegative
<1>1. ASSUME UNCHANGED claims PROVE NoneNegative
  BY <1>1 DEF NoneNegative
<1>2. ASSUME NEW c \in Call, NEW x \in Claim, SaveNew(c, x) PROVE disjoint /\ NoneNegative
  <2>1. claims[x].units = 0
    BY <1>2 DEF Dates, Blank, SaveNew
  <2>2. \A y \in Claim \ {x} : claims'[y] = claims[y]
    BY <1>2 DEF SaveNew, Dates, LeaveTypeOK
  <2> QED BY <1>2, <2>1, <2>2 DEF NoneNegative, SaveNew, Answer
<1>3. ASSUME NEW c \in Call, SaveClaim(c) PROVE disjoint /\ NoneNegative
  <2>1. disjoint
    BY <1>3 DEF SaveClaim, Answer
  <2>2. PICK t : t = call[c]
    OBVIOUS
  <2>3. t \in [pc : {"logging", "closing"}, x : Claim, verb : DOMAIN Becomes, seen : ClaimRow] /\ t.seen = claims[t.x]
    BY <1>3, <2>1, <2>2, HeldTypes DEF SaveClaim, At, Dates, SeenStands, Held
  <2>4. claims' = [claims EXCEPT ![t.x] = [t.seen EXCEPT !.status = Becomes[t.verb]]]
    BY <1>3, <2>2 DEF SaveClaim
  <2>5. [t.seen EXCEPT !.status = Becomes[t.verb]].units = claims[t.x].units
    BY <2>3 DEF ClaimRow
  <2>6. \A y \in Claim : claims'[y].units = claims[y].units
    BY <2>3, <2>4, <2>5 DEF Dates, LeaveTypeOK
  <2> QED BY <2>1, <2>6 DEF NoneNegative
<1>4. CASE UNCHANGED <<leaveVars, requestVars>>
  BY <1>1, <1>4 DEF leaveVars, requestVars
<1>5. ASSUME NEW c \in Call, UNCHANGED claims,
             \/ \E next : Arrive(c, {"employee"}, next) \/ Await(c, next)
             \/ Answer(c) \/ Perish(c)
      PROVE  disjoint /\ NoneNegative
  <2>1. disjoint
    BY <1>5 DEF Arrive, Await, Answer, Perish
  <2> QED BY <1>1, <1>5, <2>1
<1>6. ASSUME NEW c \in Call, NEW kind, NEW units, NEW p, Apply(c, kind, units, p) PROVE disjoint /\ NoneNegative
  BY <1>5, <1>6 DEF Apply, leaveVars
<1>7. ASSUME NEW c \in Call, NEW x, NEW verb, FindClaim(c, x, verb) PROVE disjoint /\ NoneNegative
  BY <1>5, <1>7 DEF FindClaim, leaveVars
<1>8. ASSUME NEW c \in Call, NEW occasion, NEW units, BeginAccrual(c, occasion, units) PROVE disjoint /\ NoneNegative
  BY <1>5, <1>8 DEF BeginAccrual, leaveVars
<1>9. ASSUME NEW c \in Call, CheckBalance(c) \/ CheckConflicts(c) \/ Refuse(c) \/ PerishInLeave(c)
      PROVE  disjoint /\ NoneNegative
  BY <1>5, <1>9 DEF CheckBalance, CheckConflicts, Refuse, PerishInLeave, leaveVars
<1>10. ASSUME NEW c \in Call, ReadBalance(c) \/ CompareBalance(c) \/ SaveBalance(c) \/ LogEncashment(c)
                                \/ ReadAccrued(c) \/ LogAccrual(c)
       PROVE  disjoint /\ NoneNegative
  BY <1>5, <1>10 DEF ReadBalance, CompareBalance, SaveBalance, LogEncashment, ReadAccrued, LogAccrual, leaveVars
<1> QED BY <1>2, <1>3, <1>4, <1>6, <1>7, <1>8, <1>9, <1>10 DEF LeaveNext

Covered == SavedWhole /\ Floor

\* What a request may hold: a sound balance, and of it all that it does not write.
Ready(next) ==
  /\ disjoint /\ next.pc = "saving" =>
       \A column \in {"accrued", "taken", "adjusted"} \ next.differ : next.balance[column] = balance[column]
  /\ disjoint /\ NoneNegative /\ next.pc \in {"booking", "saving"} => Sound(next.balance)

\* Steps that leave the balance alone, and save or prepare none but a sound one.
LEMMA BalanceStill ==
  ASSUME Dates, Covered, NEW c \in Call, UNCHANGED balance, disjoint' /\ NoneNegative' => disjoint /\ NoneNegative,
         \/ \E next : Ready(next) /\ (Arrive(c, {"employee"}, next) \/ Await(c, next))
         \/ Answer(c) \/ Perish(c)
  PROVE  Covered'
<1>1. PICK next : Ready(next) /\ call' = [call EXCEPT ![c] = next] /\ (disjoint' => disjoint)
  <2>1. Ready(Idle)
    BY DEF Ready, Idle
  <2>2. CASE Answer(c) \/ Perish(c)
    <3>1. call' = [call EXCEPT ![c] = Idle] /\ (disjoint' => disjoint)
      BY <2>2 DEF Answer, Perish
    <3>2. WITNESS Idle
    <3> QED BY <2>1, <3>1
  <2>3. CASE ~ (Answer(c) \/ Perish(c))
    <3>1. PICK n : Ready(n) /\ (Arrive(c, {"employee"}, n) \/ Await(c, n))
      BY <2>3
    <3>2. call' = [call EXCEPT ![c] = n] /\ (disjoint' => disjoint)
      BY <3>1 DEF Arrive, Await, Dates, LeaveTypeOK
    <3>3. WITNESS n
    <3> QED BY <3>1, <3>2
  <2> QED BY <2>2, <2>3
<1>2. /\ call' = [call EXCEPT ![c] = next] /\ (disjoint' => disjoint)
      /\ disjoint /\ next.pc = "saving" =>
           \A column \in {"accrued", "taken", "adjusted"} \ next.differ : next.balance[column] = balance[column]
      /\ disjoint /\ NoneNegative /\ next.pc \in {"booking", "saving"} => Sound(next.balance)
  BY <1>1 DEF Ready
<1>3. \A d \in Call : call'[d] = IF d = c THEN next ELSE call[d]
  BY <1>2 DEF Dates, LeaveTypeOK
<1>4. SavedWhole'
  BY <1>2, <1>3 DEF Covered, SavedWhole
<1>5. Floor'
  BY <1>2, <1>3 DEF Covered, Floor, Sound, Available
<1> QED BY <1>4, <1>5 DEF Covered

LEMMA CoveredStep ==
  ASSUME Dates, Covered, [LeaveNext]_<<leaveVars, requestVars>>
  PROVE  Covered'
<1>0. LeaveTypeOK /\ Dates' /\ (disjoint' /\ NoneNegative' => disjoint /\ NoneNegative)
  BY DatesStep, StaysRegular DEF Dates
<1>1. ASSUME NEW c \in Call, NEW kind, NEW units, NEW p, Apply(c, kind, units, p) PROVE Covered'
  BY <1>0, <1>1, BalanceStill DEF Ready, Apply, leaveVars
<1>2. ASSUME NEW c \in Call, CheckBalance(c) \/ CheckConflicts(c) PROVE Covered'
  <2>1. call[c] \in [pc : {"applying", "comparing", "filing"}, kind : ClaimKind, units : Int,
                     period : Periods \union {{}}]
    BY <1>0, <1>2, HeldTypes DEF CheckBalance, CheckConflicts, At
  <2>2. UNCHANGED balance /\ (Answer(c) \/ \E pc \in {"comparing", "filing"} : Await(c, [call[c] EXCEPT !.pc = pc]))
    BY <1>2 DEF CheckBalance, CheckConflicts, leaveVars
  <2>3. \A pc \in {"comparing", "filing"} : [call[c] EXCEPT !.pc = pc].pc = pc
    BY <2>1
  <2>4. CASE Answer(c)
    BY <1>0, <2>2, <2>4, BalanceStill DEF Ready
  <2>5. ASSUME NEW pc \in {"comparing", "filing"}, Await(c, [call[c] EXCEPT !.pc = pc]) PROVE Covered'
    <3>1. PICK next : next = [call[c] EXCEPT !.pc = pc]
      OBVIOUS
    <3> QED BY <1>0, <2>2, <2>3, <2>5, <3>1, BalanceStill DEF Ready
  <2> QED BY <2>2, <2>4, <2>5
<1>3. ASSUME NEW c \in Call, NEW x \in Claim, SaveNew(c, x) PROVE Covered'
  BY <1>0, <1>3, BalanceStill DEF Ready, SaveNew
<1>4. ASSUME NEW c \in Call, NEW x \in Claim, NEW verb, FindClaim(c, x, verb) PROVE Covered'
  BY <1>0, <1>4, BalanceStill DEF Ready, FindClaim, leaveVars
<1>5. ASSUME NEW c \in Call, ReadBalance(c) PROVE Covered'
  <2>1. PICK t : t = call[c]
    OBVIOUS
  <2>2. t \in [pc : {"reading"}, x : Claim, verb : {"approve", "cancel"}, seen : ClaimRow]
    BY <1>0, <1>5, <2>1, HeldTypes DEF ReadBalance, At
  <2>3. PICK next : next = [pc |-> "booking", balance |-> Booked(t.verb, t.seen),
                            next |-> [pc |-> IF t.seen.kind = "leave" THEN "closing" ELSE "logging",
                                      x |-> t.x, verb |-> t.verb, seen |-> t.seen]]
    OBVIOUS
  <2>4. next.pc = "booking" /\ next.balance = Booked(t.verb, t.seen)
    BY <2>3
  <2>5. UNCHANGED balance /\ (Answer(c) \/ (Enough(t.verb, t.seen.units) /\ Await(c, next)))
    BY <1>5, <2>1, <2>3 DEF ReadBalance, leaveVars
  <2>6. ASSUME disjoint, NoneNegative, Enough(t.verb, t.seen.units) PROVE Sound(next.balance)
    <3>1. t.seen = claims[t.x]
      BY <1>5, <2>1, <2>2, <2>6 DEF Dates, SeenStands, Held
    <3>2. t.seen.units >= 0 /\ Sound(balance)
      BY <2>2, <2>6, <3>1 DEF NoneNegative, Covered, Floor
    <3> QED BY <1>0, <2>2, <2>4, <2>6, <3>2, BookedSound DEF LeaveTypeOK
  <2> QED BY <1>0, <2>4, <2>5, <2>6, BalanceStill DEF Ready
<1>6. ASSUME NEW c \in Call, CompareBalance(c) PROVE Covered'
  <2>1. PICK t : t = call[c]
    OBVIOUS
  <2>2. PICK columns : columns = {column \in DOMAIN balance : t.balance[column] # balance[column]}
    OBVIOUS
  <2>3. PICK next : next = [pc |-> "saving", balance |-> t.balance, next |-> t.next, differ |-> columns]
    OBVIOUS
  <2>4. t.pc = "booking" /\ UNCHANGED balance /\ Await(c, next)
    BY <1>6, <2>1, <2>2, <2>3 DEF CompareBalance, At, leaveVars
  <2>5. next.pc = "saving" /\ next.balance = t.balance /\ next.differ = columns
    BY <2>3
  <2>6. DOMAIN balance = {"accrued", "taken", "adjusted"}
    BY <1>0 DEF LeaveTypeOK, DaysBalance
  <2>7. \A column \in {"accrued", "taken", "adjusted"} \ next.differ : next.balance[column] = balance[column]
    BY <2>2, <2>5, <2>6
  <2>8. disjoint /\ NoneNegative => Sound(next.balance)
    BY <2>1, <2>4, <2>5 DEF Covered, Floor
  <2> QED BY <1>0, <2>4, <2>7, <2>8, BalanceStill DEF Ready
<1>7. ASSUME NEW c \in Call, SaveBalance(c) PROVE Covered'
  <2>1. PICK t : t = call[c]
    OBVIOUS
  <2>2. t \in [pc : {"saving"}, balance : DaysBalance, differ : SUBSET {"accrued", "taken", "adjusted"},
               next : Continuation] /\ call[c] # Idle
    BY <1>0, <1>7, <2>1, HeldTypes DEF SaveBalance, At, Idle
  <2>3. /\ call' = [call EXCEPT ![c] = t.next] /\ disjoint' = disjoint
        /\ t.next.pc \notin {"booking", "saving", "idle"}
    BY <1>7, <2>1, <2>2 DEF SaveBalance, Await, Continuation
  <2>4. disjoint => \A d \in Call \ {c} : call[d] = Idle
    BY <2>2 DEF Dates, LeaveSingle
  <2>5. \A d \in Call : call'[d] = IF d = c THEN t.next ELSE call[d]
    BY <1>0, <2>3 DEF LeaveTypeOK
  <2>6. SavedWhole'
    BY <2>3, <2>4, <2>5 DEF SavedWhole, Idle
  <2>7. ASSUME disjoint', NoneNegative' PROVE Sound(balance)'
    <3>1. balance' = t.balance
      BY <1>0, <1>7, <2>1, <2>7, SavesItsBalance DEF Covered
    <3>2. Sound(t.balance)
      BY <1>0, <2>1, <2>2, <2>7 DEF Covered, Floor
    <3> QED BY <3>1, <3>2 DEF Sound, Available
  <2>8. Floor'
    BY <2>3, <2>4, <2>5, <2>7 DEF Floor, Idle
  <2> QED BY <2>6, <2>8 DEF Covered
<1>8. ASSUME NEW c \in Call, LogEncashment(c) \/ SaveClaim(c) \/ LogAccrual(c) PROVE Covered'
  <2>1. UNCHANGED balance /\ (Answer(c) \/ LogEncashment(c))
    BY <1>8 DEF LogEncashment, SaveClaim, LogAccrual
  <2>2. CASE LogEncashment(c)
    <3>1. call[c] \in [pc : {"logging", "closing"}, x : Claim, verb : DOMAIN Becomes, seen : ClaimRow]
      BY <1>0, <2>2, HeldTypes DEF LogEncashment, At
    <3>2. PICK next : next = [call[c] EXCEPT !.pc = "closing"]
      OBVIOUS
    <3>3. next.pc = "closing" /\ Await(c, next)
      BY <2>2, <3>1, <3>2 DEF LogEncashment
    <3> QED BY <1>0, <2>1, <3>3, BalanceStill DEF Ready
  <2> QED BY <1>0, <2>1, <2>2, BalanceStill DEF Ready
<1>9. ASSUME NEW c \in Call, NEW units, NEW occasion, BeginAccrual(c, occasion, units) PROVE Covered'
  BY <1>0, <1>9, BalanceStill DEF Ready, BeginAccrual, leaveVars
<1>10. ASSUME NEW c \in Call, ReadAccrued(c) PROVE Covered'
  <2>1. call[c] \in [pc : {"accruing"}, occasion : BOOLEAN, units : Nat]
    BY <1>0, <1>10, HeldTypes DEF ReadAccrued, At
  <2>2. PICK more, next : /\ more = [balance EXCEPT !.accrued = @ + call[c].units]
                          /\ next = [pc |-> "booking", balance |-> more,
                                     next |-> [pc |-> "recording", occasion |-> call[c].occasion, units |-> call[c].units]]
    OBVIOUS
  <2>3. next.pc = "booking" /\ next.balance = more /\ Await(c, next) /\ UNCHANGED balance
    BY <1>10, <2>2 DEF ReadAccrued, leaveVars
  <2>4. Sound(balance) => Sound(more)
    BY <1>0, <2>1, <2>2 DEF Sound, Available, LeaveTypeOK, DaysBalance
  <2> QED BY <1>0, <2>3, <2>4, BalanceStill DEF Ready, Covered, Floor
<1>11. ASSUME NEW c \in Call, Refuse(c) \/ PerishInLeave(c) PROVE Covered'
  BY <1>0, <1>11, BalanceStill DEF Ready, Refuse, PerishInLeave, leaveVars
<1>12. CASE UNCHANGED <<leaveVars, requestVars>>
  BY <1>12 DEF leaveVars, requestVars, Covered, SavedWhole, Floor, NoneNegative, Sound, Available
<1> QED
  BY <1>1, <1>2, <1>3, <1>4, <1>5, <1>6, <1>7, <1>8, <1>9, <1>10, <1>11, <1>12 DEF LeaveNext

LEMMA CoveredStart == LeaveInit => Covered
BY DEF LeaveInit, RequestsInit, Covered, SavedWhole, Floor, Sound, Available, Idle

\* While no two requests for the employee overlap and no application is for negative
\* days, and whichever requests die, the days available never go below zero, for any
\* number of claims and accruals (approveLeave, approveEncashment, cancelLeave).
THEOREM BalanceHolds == LeaveSpec => []NeverOverdrawn
<1>1. Covered => NeverOverdrawn
  BY DEF Covered, Floor, Sound, NeverOverdrawn
<1>2. LeaveInit => Dates /\ Covered
  BY DatesStart, CoveredStart
<1>3. Dates /\ Covered /\ [LeaveNext]_<<leaveVars, requestVars>> => (Dates /\ Covered)'
  BY DatesStep, CoveredStep
<1> QED BY <1>1, <1>2, <1>3, PTL DEF LeaveSpec

-----------------------------------------------------------------------------
(* Leave: every day is accounted for.                                        *)

\* What the balance has of a request's claim, and the claim's row does not say yet.
TakenAhead(t) ==
  IF t.pc # "closing" \/ t.seen.kind # "leave" THEN 0
  ELSE IF t.verb = "approve" THEN t.seen.units
  ELSE IF t.verb = "cancel" /\ t.seen.status = "APPROVED" THEN 0 - t.seen.units
  ELSE 0
EncashedAhead(t) ==
  IF t.pc \in {"logging", "closing"} /\ t.seen.kind = "encashment" /\ t.verb = "approve" THEN t.seen.units ELSE 0

\* What the log does not say yet.
Unlogged(t) ==
  IF t.pc = "logging" THEN t.seen.units
  ELSE IF t.pc = "recording" THEN 0 - t.units
  ELSE 0

\* The balance a request makes of the stored one, given what it does once it is saved.
Prepared(next) ==
  IF next.pc = "recording" THEN [balance EXCEPT !.accrued = @ + next.units] ELSE Booked(next.verb, next.seen)

\* A balance is read to approve, or to cancel what was approved.
Deducts(t) == t.verb = "approve" \/ (t.verb = "cancel" /\ t.seen.status = "APPROVED")

\* The records agree but for what t, the one request under way, has done so far, and what
\* it is about to save makes the next step.
Settled(t) ==
  /\ balance.taken = UnitsOf(Standing("leave", {"APPROVED"})) + forfeited + TakenAhead(t)
  /\ balance.adjusted = 0 - UnitsOf(Standing("encashment", {"APPROVED"})) - EncashedAhead(t)
  /\ log.sum = balance.accrued + balance.adjusted + Unlogged(t)
  /\ log.occasions <= 1 /\ forfeited >= 0
  /\ Held(t).pc \in {"accruing", "recording"} /\ Held(t).occasion => log.occasions = 0
  /\ t.pc \in {"booking", "saving"} =>
       /\ t.balance = Prepared(t.next)
       /\ t.next.pc # "recording" =>
            Deducts(t.next) /\ t.next.pc = IF t.next.seen.kind = "leave" THEN "closing" ELSE "logging"
  /\ t.pc = "reading" => Deducts(t)
  /\ t.pc = "logging" => t.seen.kind = "encashment" /\ t.verb = "approve"

DaysKept ==
  Undisturbed /\ NoneNegative =>
    /\ Quiet => Settled(Idle)
    /\ \A c \in Call : call[c] # Idle => Settled(call[c])

\* What no step takes back.
Regular == disjoint' /\ NoneNegative' => disjoint /\ NoneNegative

-----------------------------------------------------------------------------
LEMMA SumNotNegative ==
  ASSUME NEW f, NEW S, IsFiniteSet(S), \A x \in S : f[x] \in Nat
  PROVE  SumFunctionOnSet(f, S) \in Nat
<1>1. PICK T : T = {s \in SUBSET S : SumFunctionOnSet(f, s) \in Nat}
  OBVIOUS
<1>2. {} \in T
  BY <1>1, SumEmpty
<1>3. ASSUME NEW s \in SUBSET S, NEW x \in S \ s, s \in T PROVE s \union {x} \in T
  <2>1. IsFiniteSet(s)
    BY FS_Subset, LeaveAssumption
  <2>2. SumFunctionOnSet(f, s \union {x}) = f[x] + SumFunctionOnSet(f, s)
    BY <2>1, SumAdd
  <2> QED BY <1>1, <1>3, <2>2
<1>4. S \in T
  BY <1>2, <1>3, SetReached
<1> QED BY <1>1, <1>4

\* Units, as a sum of one function.
LEMMA UnitsAre ==
  ASSUME LeaveTypeOK, NEW f, f = [x \in Claim |-> claims[x].units], NEW S \in SUBSET Claim
  PROVE  /\ UnitsOf(S) = SumFunctionOnSet(f, S) /\ UnitsOf(S) \in Int /\ (NoneNegative => UnitsOf(S) \in Nat)
         /\ \A x \in Claim : f[x] = claims[x].units /\ f[x] \in Int
         /\ \A x \in S : /\ UnitsOf(S) = claims[x].units + UnitsOf(S \ {x})
                        /\ UnitsOf(S \ {x}) \in Int /\ (NoneNegative => UnitsOf(S \ {x}) \in Nat)
         /\ \A x \in Claim \ S : UnitsOf(S \union {x}) = claims[x].units + UnitsOf(S)
<1>1. \A x \in Claim : f[x] = claims[x].units /\ f[x] \in Int /\ (NoneNegative => f[x] \in Nat)
  BY DEF LeaveTypeOK, ClaimRow, NoneNegative
<1>2. ASSUME NEW R \in SUBSET Claim
      PROVE  UnitsOf(R) = SumFunctionOnSet(f, R) /\ UnitsOf(R) \in Int /\ (NoneNegative => UnitsOf(R) \in Nat)
  <2>1. PICK g : g = [x \in R |-> claims[x].units]
    OBVIOUS
  <2>2. IsFiniteSet(R)
    BY FS_Subset, LeaveAssumption
  <2>3. \A x \in R : g[x] = f[x]
    BY <1>1, <2>1
  <2>4. SumFunctionOnSet(g, R) = SumFunctionOnSet(f, R)
    BY <2>2, <2>3, SumSame
  <2>5. UnitsOf(R) = SumFunctionOnSet(g, R)
    BY <2>1 DEF UnitsOf, SumFunction
  <2>6. NoneNegative => SumFunctionOnSet(f, R) \in Nat
    BY <1>1, <1>2, <2>2, SumNotNegative
  <2>7. SumFunctionOnSet(f, R) \in Int
    BY <1>1, <2>2, SumStep
  <2> QED BY <2>4, <2>5, <2>6, <2>7
<1>3. ASSUME NEW x \in S
      PROVE  /\ UnitsOf(S) = claims[x].units + UnitsOf(S \ {x})
             /\ UnitsOf(S \ {x}) \in Int /\ (NoneNegative => UnitsOf(S \ {x}) \in Nat)
  <2>1. IsFiniteSet(S)
    BY FS_Subset, LeaveAssumption
  <2>2. SumFunctionOnSet(f, S) = f[x] + SumFunctionOnSet(f, S \ {x})
    BY <1>1, <2>1, SumStep
  <2> QED BY <1>1, <1>2, <2>2
<1>4. ASSUME NEW x \in Claim \ S
      PROVE  UnitsOf(S \union {x}) = claims[x].units + UnitsOf(S)
  <2>1. IsFiniteSet(S)
    BY FS_Subset, LeaveAssumption
  <2>2. SumFunctionOnSet(f, S \union {x}) = f[x] + SumFunctionOnSet(f, S)
    BY <1>1, <2>1, SumAdd
  <2> QED BY <1>1, <1>2, <2>2
<1> QED BY <1>1, <1>2, <1>3, <1>4

\* A request's step, when nothing disturbs it: it is the only one under way.
LEMMA DaysMove ==
  ASSUME LeaveTypeOK, LeaveSingle, DaysKept, Regular, NEW c \in Call, NEW next,
         \/ next # Idle /\ Arrive(c, {"employee"}, next)
         \/ next # Idle /\ call[c] # Idle /\ Await(c, next)
         \/ next = Idle /\ call[c] # Idle /\ Answer(c),
         Undisturbed' /\ NoneNegative /\ NoneNegative' /\ Settled(call[c]) => Settled(next)'
  PROVE  DaysKept'
<1> SUFFICES ASSUME Undisturbed', NoneNegative' PROVE DaysKept'
  BY DEF DaysKept
<1>1. call' = [call EXCEPT ![c] = next] /\ disjoint' /\ disjoint /\ Undisturbed /\ NoneNegative
  BY DEF Arrive, Await, Answer, Undisturbed, Regular
<1>2. LeaveSingle' /\ call'[c] = next
  BY <1>1, LeaveSingleStep DEF LeaveTypeOK
<1>3. call[c] = Idle => Quiet
  <2> SUFFICES ASSUME call[c] = Idle, NEW d \in Call, call[d] # Idle PROVE FALSE
    BY DEF Quiet
  <2>1. Arrive(c, {"employee"}, next)
    OBVIOUS
  <2>2. touches[d] = {"employee"}
    BY DEF LeaveSingle
  <2> QED BY <1>1, <2>1, <2>2 DEF Arrive
<1>4. Settled(call[c])
  BY <1>1, <1>3 DEF DaysKept
<1>5. Settled(next)'
  BY <1>1, <1>4
<1>6. Quiet' => next = Idle
  BY <1>2 DEF Quiet
<1>7. ASSUME NEW d \in Call, call'[d] # Idle PROVE d = c
  <2>1. CASE call[c] = Idle
    BY <1>1, <1>3, <1>7, <2>1 DEF Quiet, LeaveTypeOK
  <2>2. CASE call[c] # Idle
    BY <1>1, <1>7, <2>2 DEF LeaveSingle, LeaveTypeOK
  <2> QED BY <2>1, <2>2
<1>8. ASSUME NEW d \in Call, call'[d] # Idle PROVE Settled(call[d])'
  <2>1. call'[d] = next
    BY <1>2, <1>7, <1>8
  <2> QED BY <1>5, <2>1 DEF Settled, TakenAhead, EncashedAhead, Unlogged, Held, Deducts, Prepared, Booked
<1>9. Quiet' => Settled(Idle)'
  BY <1>5, <1>6
<1> QED BY <1>8, <1>9 DEF DaysKept

\* The claims that stand, and their days, when no claim is stored.
LEMMA StandingStill ==
  ASSUME LeaveTypeOK, UNCHANGED claims
  PROVE  \A kind \in ClaimKind :
           /\ UnitsOf(Standing(kind, {"APPROVED"})) \in Int
           /\ NoneNegative => UnitsOf(Standing(kind, {"APPROVED"})) \in Nat
           /\ UnitsOf(Standing(kind, {"APPROVED"}))' = UnitsOf(Standing(kind, {"APPROVED"}))
<1> SUFFICES ASSUME NEW kind \in ClaimKind
             PROVE  /\ UnitsOf(Standing(kind, {"APPROVED"})) \in Int
                    /\ NoneNegative => UnitsOf(Standing(kind, {"APPROVED"})) \in Nat
                    /\ UnitsOf(Standing(kind, {"APPROVED"}))' = UnitsOf(Standing(kind, {"APPROVED"}))
  OBVIOUS
<1>1. PICK f : f = [x \in Claim |-> claims[x].units]
  OBVIOUS
<1>2. Standing(kind, {"APPROVED"}) \in SUBSET Claim
  BY DEF Standing
<1>3. /\ UnitsOf(Standing(kind, {"APPROVED"})) \in Int
      /\ NoneNegative => UnitsOf(Standing(kind, {"APPROVED"})) \in Nat
  BY <1>1, <1>2, UnitsAre
<1>4. UnitsOf(Standing(kind, {"APPROVED"}))' = UnitsOf(Standing(kind, {"APPROVED"}))
  BY DEF UnitsOf, Standing
<1> QED BY <1>3, <1>4

\* A claim y becomes row, with the same days: what stands loses it or gains it.
LEMMA StandingMoves ==
  ASSUME LeaveTypeOK, NEW y \in Claim, NEW row \in ClaimRow, claims' = [claims EXCEPT ![y] = row],
         row.kind = claims[y].kind /\ row.units = claims[y].units, NEW kind \in ClaimKind
  PROVE  /\ UnitsOf(Standing(kind, {"APPROVED"})) \in Int
         /\ UnitsOf(Standing(kind, {"APPROVED"}))' =
              IF claims[y].kind # kind THEN UnitsOf(Standing(kind, {"APPROVED"}))
              ELSE IF claims[y].status # "APPROVED" /\ row.status = "APPROVED"
                THEN UnitsOf(Standing(kind, {"APPROVED"})) + row.units
              ELSE IF claims[y].status = "APPROVED" /\ row.status # "APPROVED"
                THEN UnitsOf(Standing(kind, {"APPROVED"})) - row.units
              ELSE UnitsOf(Standing(kind, {"APPROVED"}))
         /\ NoneNegative /\ claims[y].kind = kind /\ claims[y].status = "APPROVED" =>
              row.units <= UnitsOf(Standing(kind, {"APPROVED"}))
<1>1. PICK f, S : f = [x \in Claim |-> claims[x].units] /\ S = Standing(kind, {"APPROVED"})
  OBVIOUS
<1>2. PICK Z : Z = Standing(kind, {"APPROVED"})'
  OBVIOUS
<1>3. S \in SUBSET Claim /\ Z \in SUBSET Claim
  BY <1>1, <1>2 DEF Standing
<1>4. \A x \in Claim : claims[x].units \in Int /\ claims'[x].units = claims[x].units
  BY DEF LeaveTypeOK, ClaimRow
<1>5. UnitsOf(Z)' = UnitsOf(Z)
  BY <1>3, <1>4 DEF UnitsOf
<1>6. UnitsOf(Standing(kind, {"APPROVED"}))' = UnitsOf(Z)
  BY <1>2, <1>5 DEF UnitsOf
<1>7. /\ UnitsOf(S) \in Int
      /\ \A x \in S : UnitsOf(S) = claims[x].units + UnitsOf(S \ {x}) /\ UnitsOf(S \ {x}) \in Int
      /\ \A x \in Claim \ S : UnitsOf(S \union {x}) = claims[x].units + UnitsOf(S)
  BY <1>1, <1>3, UnitsAre
<1>17. NoneNegative => \A x \in S : UnitsOf(S \ {x}) >= 0
  BY <1>1, <1>3, UnitsAre
<1>18. NoneNegative /\ y \in S => row.units <= UnitsOf(S)
  <2> SUFFICES ASSUME NoneNegative, y \in S PROVE row.units <= UnitsOf(S)
    OBVIOUS
  <2>1. UnitsOf(S) = row.units + UnitsOf(S \ {y}) /\ UnitsOf(S \ {y}) \in Int /\ UnitsOf(S \ {y}) >= 0
    BY <1>7, <1>17
  <2>2. row.units \in Int
    BY DEF ClaimRow
  <2> QED BY <2>1, <2>2
<1>8. \A x \in Claim : x \in S <=> claims[x].kind = kind /\ claims[x].status = "APPROVED"
  BY <1>1 DEF Standing
<1>9. \A x \in Claim : x \in Z <=> claims'[x].kind = kind /\ claims'[x].status = "APPROVED"
  BY <1>2 DEF Standing
<1>10. claims'[y] = row /\ \A x \in Claim \ {y} : claims'[x] = claims[x]
  BY DEF LeaveTypeOK
<1>11. \A x \in Claim : x \in Z <=> IF x = y THEN row.kind = kind /\ row.status = "APPROVED" ELSE x \in S
  BY <1>8, <1>9, <1>10
<1>12. claims[y].units \in Int /\ (y \in S <=> row.kind = kind /\ claims[y].status = "APPROVED")
  BY <1>4, <1>8
<1>13. CASE row.kind # kind
  <2>1. Z = S
    BY <1>3, <1>11, <1>12, <1>13
  <2> QED BY <1>1, <1>6, <1>7, <1>13, <2>1
<1>14. CASE row.kind = kind /\ claims[y].status # "APPROVED" /\ row.status = "APPROVED"
  <2>1. Z = S \union {y}
    BY <1>3, <1>11, <1>12, <1>14
  <2>2. UnitsOf(Z) = row.units + UnitsOf(S)
    BY <1>7, <1>12, <1>14, <2>1
  <2> QED BY <1>1, <1>6, <1>7, <1>12, <1>14, <2>2
<1>15. CASE row.kind = kind /\ claims[y].status = "APPROVED" /\ row.status # "APPROVED"
  <2>1. Z = S \ {y}
    BY <1>3, <1>11, <1>12, <1>15
  <2>2. UnitsOf(S) = row.units + UnitsOf(Z) /\ UnitsOf(Z) \in Int
    BY <1>7, <1>12, <1>15, <2>1
  <2> QED BY <1>1, <1>6, <1>7, <1>12, <1>15, <1>18, <2>2
<1>16. CASE row.kind = kind /\ (claims[y].status = "APPROVED" <=> row.status = "APPROVED")
  <2>1. Z = S
    BY <1>3, <1>11, <1>12, <1>16
  <2> QED BY <1>1, <1>6, <1>7, <1>12, <1>16, <1>18, <2>1
<1> QED BY <1>13, <1>14, <1>15, <1>16

\* The steps that store nothing: what the next one is to find is as it was.
LEMMA SettledReading ==
  ASSUME LeaveTypeOK, UNCHANGED leaveVars, NEW t, NEW next, Settled(t),
         TakenAhead(next) = TakenAhead(t), EncashedAhead(next) = EncashedAhead(t), Unlogged(next) = Unlogged(t),
         Held(next).pc \in {"accruing", "recording"} /\ Held(next).occasion => log.occasions = 0,
         next.pc \in {"booking", "saving"} =>
           /\ next.balance = Prepared(next.next)
           /\ next.next.pc # "recording" =>
                Deducts(next.next) /\ next.next.pc = IF next.next.seen.kind = "leave" THEN "closing" ELSE "logging",
         next.pc = "reading" => Deducts(next),
         next.pc = "logging" => next.seen.kind = "encashment" /\ next.verb = "approve"
  PROVE  Settled(next)'
<1>1. /\ UnitsOf(Standing("leave", {"APPROVED"}))' = UnitsOf(Standing("leave", {"APPROVED"}))
      /\ UnitsOf(Standing("encashment", {"APPROVED"}))' = UnitsOf(Standing("encashment", {"APPROVED"}))
  BY StandingStill DEF leaveVars, ClaimKind
<1>2. /\ balance' = balance /\ log' = log /\ forfeited' = forfeited
      /\ TakenAhead(next)' = TakenAhead(next) /\ EncashedAhead(next)' = EncashedAhead(next)
      /\ Unlogged(next)' = Unlogged(next)
  BY DEF leaveVars, TakenAhead, EncashedAhead, Unlogged
<1>3. next.pc \in {"booking", "saving"} => Prepared(next.next)' = Prepared(next.next)
  BY <1>2 DEF Prepared, Booked
<1>4. Held(next)' = Held(next) /\ Deducts(next)' = Deducts(next) /\ Deducts(next.next)' = Deducts(next.next)
  BY DEF Held, Deducts
<1> QED BY <1>1, <1>2, <1>3, <1>4 DEF Settled

-----------------------------------------------------------------------------
\* Each step of a request that nothing disturbs.
LEMMA ArrivalKeepsDays ==
  ASSUME Dates, DaysKept, Regular, NEW c \in Call, UNCHANGED leaveVars, NEW next, Arrive(c, {"employee"}, next),
         next.pc \in {"applying", "accruing", "reading", "closing"},
         next.pc = "accruing" => (next.occasion => log.occasions = 0),
         next.pc = "reading" => Deducts(next),
         next.pc = "closing" => ~ Deducts(next)
  PROVE  DaysKept'
<1>1. LeaveTypeOK /\ LeaveSingle /\ call[c] = Idle /\ next # Idle /\ Held(next) = next
  BY DEF Dates, Arrive, Idle, Held
<1>2. TakenAhead(next) = 0 /\ EncashedAhead(next) = 0 /\ Unlogged(next) = 0
  BY DEF TakenAhead, EncashedAhead, Unlogged, Deducts
<1>3. TakenAhead(Idle) = 0 /\ EncashedAhead(Idle) = 0 /\ Unlogged(Idle) = 0
  BY DEF TakenAhead, EncashedAhead, Unlogged, Idle
<1>4. Settled(call[c]) => Settled(next)'
  BY <1>1, <1>2, <1>3, SettledReading
<1> QED BY <1>1, <1>4, DaysMove

LEMMA AnswerKeepsDays ==
  ASSUME Dates, DaysKept, Regular, NEW c \in Call, UNCHANGED leaveVars, Answer(c),
         call[c].pc \in {"applying", "comparing", "filing", "reading"}
  PROVE  DaysKept'
<1>1. LeaveTypeOK /\ LeaveSingle /\ call[c] # Idle
  BY DEF Dates, Idle
<1>2. TakenAhead(call[c]) = 0 /\ EncashedAhead(call[c]) = 0 /\ Unlogged(call[c]) = 0
  BY DEF TakenAhead, EncashedAhead, Unlogged
<1>3. /\ TakenAhead(Idle) = 0 /\ EncashedAhead(Idle) = 0 /\ Unlogged(Idle) = 0
      /\ Idle.pc = "idle" /\ Held(Idle) = Idle
  BY DEF TakenAhead, EncashedAhead, Unlogged, Idle, Held
<1>4. PICK next : next = Idle
  OBVIOUS
<1>5. Settled(call[c]) => Settled(next)'
  BY <1>1, <1>2, <1>3, <1>4, SettledReading
<1> QED BY <1>1, <1>4, <1>5, DaysMove

LEMMA CheckKeepsDays ==
  ASSUME Dates, DaysKept, Regular, NEW c \in Call, CheckBalance(c) \/ CheckConflicts(c) \/ Refuse(c)
  PROVE  DaysKept'
<1>1. LeaveTypeOK /\ LeaveSingle /\ UNCHANGED leaveVars /\ call[c].pc \in {"applying", "comparing"} /\ call[c] # Idle
  BY DEF Dates, CheckBalance, CheckConflicts, Refuse, At, Idle
<1>2. CASE Answer(c)
  BY <1>1, <1>2, AnswerKeepsDays
<1>3. CASE ~ Answer(c)
  <2>1. PICK pc \in {"comparing", "filing"} : Await(c, [call[c] EXCEPT !.pc = pc])
    BY <1>3 DEF CheckBalance, CheckConflicts, Refuse
  <2>2. PICK next : next = [call[c] EXCEPT !.pc = pc]
    OBVIOUS
  <2>3. call[c] \in [pc : {"applying", "comparing", "filing"}, kind : ClaimKind, units : Int,
                     period : Periods \union {{}}]
    BY <1>1, HeldTypes
  <2>4. next.pc \in {"comparing", "filing"} /\ next # Idle /\ Held(next) = next
    BY <2>2, <2>3 DEF Idle, Held
  <2>5. /\ TakenAhead(next) = 0 /\ EncashedAhead(next) = 0 /\ Unlogged(next) = 0
        /\ TakenAhead(call[c]) = 0 /\ EncashedAhead(call[c]) = 0 /\ Unlogged(call[c]) = 0
    BY <1>1, <2>4 DEF TakenAhead, EncashedAhead, Unlogged
  <2>6. Settled(call[c]) => Settled(next)'
    BY <1>1, <2>4, <2>5, SettledReading
  <2> QED BY <1>1, <2>1, <2>2, <2>4, <2>6, DaysMove
<1> QED BY <1>2, <1>3

LEMMA ReadingKeepsDays ==
  ASSUME Dates, DaysKept, Regular, NEW c \in Call, ReadBalance(c) \/ ReadAccrued(c) \/ CompareBalance(c)
  PROVE  DaysKept'
<1>1. /\ LeaveTypeOK /\ LeaveSingle /\ UNCHANGED leaveVars /\ call[c].pc \in {"reading", "accruing", "booking"}
      /\ call[c] # Idle
  BY DEF Dates, ReadBalance, ReadAccrued, CompareBalance, At, Idle
<1>2. CASE Answer(c) /\ ReadBalance(c)
  BY <1>1, <1>2, AnswerKeepsDays DEF ReadBalance, At
<1>3. CASE ~ Answer(c) /\ ReadBalance(c)
  <2>1. PICK t, then, next : /\ t = call[c]
                             /\ then = [pc |-> IF t.seen.kind = "leave" THEN "closing" ELSE "logging",
                                        x |-> t.x, verb |-> t.verb, seen |-> t.seen]
                             /\ next = [pc |-> "booking", balance |-> Booked(t.verb, t.seen), next |-> then]
    OBVIOUS
  <2>2. Await(c, next) /\ t.pc = "reading"
    BY <1>3, <2>1 DEF ReadBalance, At
  <2>3. /\ next.pc = "booking" /\ next.next = then /\ next # Idle /\ Held(next) = then
        /\ next.balance = Booked(t.verb, t.seen)
    BY <2>1 DEF Idle, Held
  <2>4. /\ then.pc = IF t.seen.kind = "leave" THEN "closing" ELSE "logging"
        /\ then.verb = t.verb /\ then.seen = t.seen
    BY <2>1
  <2>5. /\ TakenAhead(next) = 0 /\ EncashedAhead(next) = 0 /\ Unlogged(next) = 0
        /\ TakenAhead(t) = 0 /\ EncashedAhead(t) = 0 /\ Unlogged(t) = 0
    BY <2>2, <2>3 DEF TakenAhead, EncashedAhead, Unlogged
  <2>6. then.pc # "recording" /\ then.pc # "accruing" /\ Prepared(then) = next.balance
    BY <2>3, <2>4 DEF Prepared
  <2>7. ASSUME Settled(t) PROVE Settled(next)'
    <3>1. Deducts(t) /\ Deducts(then)
      BY <2>2, <2>4, <2>7 DEF Settled, Deducts
    <3> QED BY <1>1, <2>3, <2>4, <2>5, <2>6, <2>7, <3>1, SettledReading
  <2> QED BY <1>1, <2>1, <2>2, <2>3, <2>7, DaysMove
<1>4. CASE ReadAccrued(c)
  <2>1. PICK t, then, next : /\ t = call[c]
                             /\ then = [pc |-> "recording", occasion |-> t.occasion, units |-> t.units]
                             /\ next = [pc |-> "booking", balance |-> [balance EXCEPT !.accrued = @ + t.units],
                                        next |-> then]
    OBVIOUS
  <2>2. Await(c, next) /\ t.pc = "accruing"
    BY <1>4, <2>1 DEF ReadAccrued, At
  <2>3. /\ next.pc = "booking" /\ next.next = then /\ next # Idle /\ Held(next) = then /\ Held(t) = t
        /\ next.balance = [balance EXCEPT !.accrued = @ + t.units]
    BY <2>1, <2>2 DEF Idle, Held
  <2>4. then.pc = "recording" /\ then.occasion = t.occasion /\ then.units = t.units
    BY <2>1
  <2>5. /\ TakenAhead(next) = 0 /\ EncashedAhead(next) = 0 /\ Unlogged(next) = 0
        /\ TakenAhead(t) = 0 /\ EncashedAhead(t) = 0 /\ Unlogged(t) = 0
    BY <2>2, <2>3 DEF TakenAhead, EncashedAhead, Unlogged
  <2>6. Prepared(then) = next.balance
    BY <2>3, <2>4 DEF Prepared
  <2>7. ASSUME Settled(t) PROVE Settled(next)'
    <3>1. t.occasion => log.occasions = 0
      BY <2>2, <2>3, <2>7 DEF Settled
    <3> QED BY <1>1, <2>3, <2>4, <2>5, <2>6, <2>7, <3>1, SettledReading
  <2> QED BY <1>1, <2>1, <2>2, <2>3, <2>7, DaysMove
<1>5. CASE CompareBalance(c)
  <2>1. PICK t, next : /\ t = call[c]
                       /\ next = [pc |-> "saving", balance |-> t.balance, next |-> t.next,
                                  differ |-> {column \in DOMAIN balance : t.balance[column] # balance[column]}]
    OBVIOUS
  <2>2. Await(c, next) /\ t.pc = "booking"
    BY <1>5, <2>1 DEF CompareBalance, At
  <2>3. /\ next.pc = "saving" /\ next.next = t.next /\ next # Idle /\ Held(next) = t.next /\ Held(t) = t.next
        /\ next.balance = t.balance
    BY <2>1, <2>2 DEF Idle, Held
  <2>4. /\ TakenAhead(next) = 0 /\ EncashedAhead(next) = 0 /\ Unlogged(next) = 0
        /\ TakenAhead(t) = 0 /\ EncashedAhead(t) = 0 /\ Unlogged(t) = 0
    BY <2>2, <2>3 DEF TakenAhead, EncashedAhead, Unlogged
  <2>5. ASSUME Settled(t) PROVE Settled(next)'
    <3>1. /\ Held(next).pc \in {"accruing", "recording"} /\ Held(next).occasion => log.occasions = 0
          /\ next.balance = Prepared(next.next)
          /\ next.next.pc # "recording" =>
               Deducts(next.next) /\ next.next.pc = IF next.next.seen.kind = "leave" THEN "closing" ELSE "logging"
      BY <2>2, <2>3, <2>5 DEF Settled
    <3> QED BY <1>1, <2>3, <2>4, <2>5, <3>1, SettledReading
  <2> QED BY <1>1, <2>1, <2>2, <2>3, <2>5, DaysMove
<1> QED BY <1>2, <1>3, <1>4, <1>5

LEMMA SaveBalanceKeepsDays ==
  ASSUME Dates, DaysKept, Regular, SavedWhole, NEW c \in Call, SaveBalance(c)
  PROVE  DaysKept'
<1>1. /\ LeaveTypeOK /\ LeaveSingle /\ call[c].pc = "saving" /\ call[c] # Idle
      /\ UNCHANGED <<claims, log, forfeited>>
  BY DEF Dates, SaveBalance, At, Idle
<1>2. PICK t, next : t = call[c] /\ next = t.next
  OBVIOUS
<1>3. t \in [pc : {"saving"}, balance : DaysBalance, differ : SUBSET {"accrued", "taken", "adjusted"},
             next : Continuation]
  BY <1>1, <1>2, HeldTypes
<1>4. Await(c, next) /\ next # Idle /\ next \in Continuation /\ Held(t) = next
      /\ next.pc \in {"logging", "closing", "recording"}
  BY <1>1, <1>2, <1>3 DEF SaveBalance, Idle, Continuation, Held
<1>5. PICK L, E : /\ L = UnitsOf(Standing("leave", {"APPROVED"}))
                  /\ E = UnitsOf(Standing("encashment", {"APPROVED"}))
  OBVIOUS
<1>6. /\ L \in Int /\ UnitsOf(Standing("leave", {"APPROVED"}))' = L
      /\ E \in Int /\ UnitsOf(Standing("encashment", {"APPROVED"}))' = E
  BY <1>1, <1>5, StandingStill DEF ClaimKind
<1>7. balance \in DaysBalance /\ log \in [sum : Int, occasions : Nat] /\ forfeited \in Int
  BY <1>1 DEF LeaveTypeOK
<1>8. ASSUME Undisturbed', NoneNegative, Settled(t) PROVE Settled(next)'
  <2>1. disjoint
    BY <1>4, <1>8 DEF Await, Undisturbed
  <2>2. balance' = t.balance /\ t.balance = Prepared(next)
    BY <1>1, <1>2, <1>8, <2>1, SavesItsBalance DEF Settled
  <2>3. /\ balance.taken = L + forfeited /\ balance.adjusted = 0 - E /\ forfeited >= 0
        /\ log.sum = balance.accrued + balance.adjusted /\ log.occasions <= 1
        /\ next.pc = "recording" /\ next.occasion => log.occasions = 0
    BY <1>1, <1>2, <1>4, <1>5, <1>6, <1>7, <1>8 DEF Settled, TakenAhead, EncashedAhead, Unlogged, DaysBalance
  <2>4. Held(next) = next /\ next.pc \notin {"booking", "saving", "reading", "accruing"}
    BY <1>4 DEF Held
  <2>5. CASE next.pc = "recording"
    <3>1. next \in [pc : {"recording"}, occasion : BOOLEAN, units : Nat] /\ next.units \in Nat
      BY <1>4, <2>5 DEF Continuation
    <3>2. balance' = [balance EXCEPT !.accrued = @ + next.units]
      BY <2>2, <2>5 DEF Prepared
    <3>3. /\ balance'.accrued = balance.accrued + next.units
          /\ balance'.taken = balance.taken /\ balance'.adjusted = balance.adjusted
      BY <1>7, <3>1, <3>2 DEF DaysBalance
    <3>4. TakenAhead(next)' = 0 /\ EncashedAhead(next)' = 0 /\ Unlogged(next)' = 0 - next.units
      BY <2>5 DEF TakenAhead, EncashedAhead, Unlogged
    <3> QED BY <1>1, <1>6, <1>7, <2>3, <2>4, <2>5, <3>1, <3>3, <3>4 DEF Settled, Held, DaysBalance
  <2>6. CASE next.pc # "recording"
    <3>1. /\ next \in [pc : {"logging", "closing"}, x : Claim, verb : DOMAIN Becomes, seen : ClaimRow]
          /\ next.seen.kind \in ClaimKind /\ next.seen.units \in Int
      BY <1>4, <2>6 DEF Continuation, ClaimRow
    <3>2. next.x \in Claim /\ next.seen = claims[next.x] /\ Permitted(next.seen, next.verb)
      BY <1>2, <1>4, <2>1, <2>6 DEF Dates, SeenStands
    <3>3. /\ Deducts(next) /\ next.pc = IF next.seen.kind = "leave" THEN "closing" ELSE "logging"
          /\ balance' = Booked(next.verb, next.seen)
      BY <1>1, <1>2, <1>8, <2>2, <2>6 DEF Settled, Prepared
    <3>4. next.seen.units >= 0
      BY <1>8, <3>2 DEF NoneNegative
    <3>5. CASE next.verb = "cancel"
      <4>1. next.seen.kind = "leave" /\ next.seen.status = "APPROVED"
        BY <3>1, <3>2, <3>3, <3>5 DEF Permitted, Deducts, ClaimKind
      <4>2. next.seen.units <= L
        <5>1. PICK y, row : y = next.x /\ row = claims[y]
          OBVIOUS
        <5>2. claims = [claims EXCEPT ![y] = row] /\ row \in ClaimRow
          BY <1>1, <3>2, <5>1 DEF LeaveTypeOK
        <5> QED BY <1>1, <1>5, <1>8, <3>2, <4>1, <5>1, <5>2, StandingMoves DEF ClaimKind
      <4>3. /\ balance'.taken = balance.taken - next.seen.units
            /\ balance'.adjusted = balance.adjusted /\ balance'.accrued = balance.accrued
        BY <1>6, <1>7, <2>3, <3>1, <3>3, <3>4, <3>5, <4>2 DEF Booked, Larger, DaysBalance
      <4>4. next.pc = "closing" /\ TakenAhead(next)' = 0 - next.seen.units /\ EncashedAhead(next)' = 0 /\ Unlogged(next)' = 0
        BY <3>3, <3>5, <4>1 DEF TakenAhead, EncashedAhead, Unlogged
      <4> QED BY <1>1, <1>6, <1>7, <2>3, <2>4, <3>1, <4>3, <4>4 DEF Settled, Held, DaysBalance
    <3>6. CASE next.verb = "approve" /\ next.seen.kind = "leave"
      <4>1. /\ balance'.taken = balance.taken + next.seen.units
            /\ balance'.adjusted = balance.adjusted /\ balance'.accrued = balance.accrued
        BY <1>7, <3>1, <3>3, <3>6 DEF Booked, DaysBalance
      <4>2. next.pc = "closing" /\ TakenAhead(next)' = next.seen.units /\ EncashedAhead(next)' = 0 /\ Unlogged(next)' = 0
        BY <3>3, <3>6 DEF TakenAhead, EncashedAhead, Unlogged
      <4> QED BY <1>1, <1>6, <1>7, <2>3, <2>4, <3>1, <4>1, <4>2 DEF Settled, Held, DaysBalance
    <3>7. CASE next.verb = "approve" /\ next.seen.kind = "encashment"
      <4>1. /\ balance'.adjusted = balance.adjusted - next.seen.units
            /\ balance'.taken = balance.taken /\ balance'.accrued = balance.accrued
        BY <1>7, <3>1, <3>3, <3>7 DEF Booked, DaysBalance
      <4>2. /\ next.pc = "logging"
            /\ TakenAhead(next)' = 0 /\ EncashedAhead(next)' = next.seen.units /\ Unlogged(next)' = next.seen.units
        BY <3>3, <3>7 DEF TakenAhead, EncashedAhead, Unlogged
      <4> QED BY <1>1, <1>6, <1>7, <2>3, <2>4, <3>1, <3>7, <4>1, <4>2 DEF Settled, Held, DaysBalance
    <3> QED BY <3>1, <3>3, <3>5, <3>6, <3>7 DEF ClaimKind, Deducts
  <2> QED BY <2>5, <2>6
<1> QED BY <1>1, <1>2, <1>4, <1>8, DaysMove

\* The steps on the log.
LEMMA LogKeepsDays ==
  ASSUME Dates, DaysKept, Regular, NEW c \in Call, LogEncashment(c) \/ LogAccrual(c)
  PROVE  DaysKept'
<1>1. /\ LeaveTypeOK /\ LeaveSingle /\ call[c] # Idle /\ UNCHANGED <<claims, forfeited>>
      /\ call[c].pc \in {"logging", "recording"}
  BY DEF Dates, LogEncashment, LogAccrual, At, Idle
<1>2. PICK t : t = call[c]
  OBVIOUS
<1>3. PICK L, E : /\ L = UnitsOf(Standing("leave", {"APPROVED"}))
                  /\ E = UnitsOf(Standing("encashment", {"APPROVED"}))
  OBVIOUS
<1>4. /\ L \in Int /\ UnitsOf(Standing("leave", {"APPROVED"}))' = L
      /\ E \in Int /\ UnitsOf(Standing("encashment", {"APPROVED"}))' = E
  BY <1>1, <1>3, StandingStill DEF ClaimKind
<1>5. balance \in DaysBalance /\ log \in [sum : Int, occasions : Nat] /\ forfeited \in Int
  BY <1>1 DEF LeaveTypeOK
<1>6. CASE LogEncashment(c)
  <2>1. PICK next : next = [t EXCEPT !.pc = "closing"]
    OBVIOUS
  <2>2. t \in [pc : {"logging", "closing"}, x : Claim, verb : DOMAIN Becomes, seen : ClaimRow] /\ t.pc = "logging"
    BY <1>1, <1>2, <1>6, HeldTypes DEF LogEncashment, At
  <2>3. /\ Await(c, next) /\ next.pc = "closing" /\ next.seen = t.seen /\ next.verb = t.verb /\ next # Idle
        /\ UNCHANGED balance /\ log'.sum = log.sum - t.seen.units /\ log'.occasions = log.occasions
    BY <1>2, <1>5, <1>6, <2>1, <2>2 DEF LogEncashment, Idle
  <2>4. t.seen.units \in Int
    BY <2>2 DEF ClaimRow
  <2>5. ASSUME Settled(t) PROVE Settled(next)'
    <3>1. t.seen.kind = "encashment" /\ t.verb = "approve"
      BY <2>2, <2>5 DEF Settled
    <3>2. /\ balance.taken = L + forfeited /\ balance.adjusted = 0 - E - t.seen.units
          /\ log.sum = balance.accrued + balance.adjusted + t.seen.units /\ log.occasions <= 1 /\ forfeited >= 0
      BY <1>3, <1>4, <1>5, <2>2, <2>5, <3>1 DEF Settled, TakenAhead, EncashedAhead, Unlogged
    <3>3. TakenAhead(next)' = 0 /\ EncashedAhead(next)' = t.seen.units /\ Unlogged(next)' = 0
      BY <2>3, <3>1 DEF TakenAhead, EncashedAhead, Unlogged
    <3> QED BY <1>1, <1>4, <1>5, <2>3, <2>4, <3>1, <3>2, <3>3 DEF Settled, Held, DaysBalance
  <2> QED BY <1>1, <1>2, <2>3, <2>5, DaysMove
<1>8. CASE LogAccrual(c)
  <2>1. PICK next : next = Idle
    OBVIOUS
  <2>2. /\ t \in [pc : {"recording"}, occasion : BOOLEAN, units : Nat]
        /\ t.pc = "recording" /\ t.units \in Nat /\ t.occasion \in BOOLEAN
    BY <1>1, <1>2, <1>8, HeldTypes DEF LogAccrual, At
  <2>3. /\ Answer(c) /\ next.pc = "idle" /\ UNCHANGED balance
        /\ log'.sum = log.sum + t.units /\ log'.occasions = log.occasions + IF t.occasion THEN 1 ELSE 0
    BY <1>2, <1>8, <2>1 DEF LogAccrual, Idle
  <2>4. ASSUME Settled(t) PROVE Settled(next)'
    <3>1. t.occasion => log.occasions = 0
      BY <2>2, <2>4 DEF Settled, Held
    <3>2. /\ balance.taken = L + forfeited /\ balance.adjusted = 0 - E /\ forfeited >= 0
          /\ log.sum = balance.accrued + balance.adjusted - t.units /\ log.occasions <= 1
      BY <1>3, <1>4, <1>5, <2>2, <2>4 DEF Settled, TakenAhead, EncashedAhead, Unlogged, DaysBalance
    <3>3. TakenAhead(next)' = 0 /\ EncashedAhead(next)' = 0 /\ Unlogged(next)' = 0
      BY <2>3 DEF TakenAhead, EncashedAhead, Unlogged
    <3>4. log'.sum = balance.accrued + balance.adjusted /\ log'.occasions <= 1
      BY <1>5, <2>2, <2>3, <3>1, <3>2 DEF DaysBalance
    <3> QED BY <1>1, <1>4, <1>5, <2>3, <3>2, <3>3, <3>4 DEF Settled, Held, DaysBalance
  <2> QED BY <1>1, <1>2, <2>1, <2>3, <2>4, DaysMove
<1> QED BY <1>6, <1>8

\* The two steps that store a claim.
LEMMA SaveNewKeepsDays ==
  ASSUME Dates, DaysKept, Regular, NEW c \in Call, NEW y \in Claim, SaveNew(c, y)
  PROVE  DaysKept'
<1>1. /\ LeaveTypeOK /\ LeaveSingle /\ call[c].pc = "filing" /\ call[c] # Idle /\ claims[y].status = "absent"
      /\ Answer(c) /\ UNCHANGED <<balance, log, forfeited>>
  BY DEF Dates, SaveNew, At, Idle
<1>2. PICK t, next : t = call[c] /\ next = Idle
  OBVIOUS
<1>3. claims' = [claims EXCEPT ![y] = [kind |-> t.kind, status |-> "SUBMITTED", units |-> t.units, period |-> t.period]]
  BY <1>2 DEF SaveNew
<1>4. ASSUME NEW kind \in ClaimKind
      PROVE  UnitsOf(Standing(kind, {"APPROVED"}))' = UnitsOf(Standing(kind, {"APPROVED"}))
  <2>1. PICK S : S = Standing(kind, {"APPROVED"})
    OBVIOUS
  <2>2. \A x \in Claim : x # y => claims'[x] = claims[x]
    BY <1>1, <1>3 DEF LeaveTypeOK
  <2>3. claims'[y].status = "SUBMITTED"
    BY <1>1, <1>3 DEF LeaveTypeOK
  <2>4. y \notin S /\ Standing(kind, {"APPROVED"})' = S
    BY <1>1, <2>1, <2>2, <2>3 DEF Standing
  <2>5. \A x \in S : claims'[x].units = claims[x].units
    BY <2>1, <2>2, <2>4 DEF Standing
  <2> QED BY <2>1, <2>4, <2>5 DEF UnitsOf
<1>5. /\ TakenAhead(t) = 0 /\ EncashedAhead(t) = 0 /\ Unlogged(t) = 0
      /\ TakenAhead(next)' = 0 /\ EncashedAhead(next)' = 0 /\ Unlogged(next)' = 0 /\ next.pc = "idle"
  BY <1>1, <1>2 DEF TakenAhead, EncashedAhead, Unlogged, Idle
<1>6. Settled(t) => Settled(next)'
  BY <1>1, <1>4, <1>5 DEF Settled, Held, ClaimKind
<1> QED BY <1>1, <1>2, <1>6, DaysMove

LEMMA SaveClaimKeepsDays ==
  ASSUME Dates, DaysKept, Regular, NEW c \in Call, SaveClaim(c)
  PROVE  DaysKept'
<1>1. /\ LeaveTypeOK /\ LeaveSingle /\ call[c].pc = "closing" /\ call[c] # Idle
      /\ Answer(c) /\ UNCHANGED <<balance, log>>
  BY DEF Dates, SaveClaim, At, Idle
<1>2. PICK t, next : t = call[c] /\ next = Idle
  OBVIOUS
<1>3. t \in [pc : {"logging", "closing"}, x : Claim, verb : DOMAIN Becomes, seen : ClaimRow]
  BY <1>1, <1>2, HeldTypes
<1>4. /\ t.x \in Claim /\ t.seen \in ClaimRow /\ t.seen.units \in Int /\ t.seen.kind \in ClaimKind
      /\ t.seen.status \in ClaimStatus /\ t.verb \in {"approve", "reject", "cancel", "withdraw"}
  BY <1>3 DEF ClaimRow, Becomes
<1>5. PICK row : row = [t.seen EXCEPT !.status = Becomes[t.verb]]
  OBVIOUS
<1>6. /\ row \in ClaimRow /\ row.kind = t.seen.kind /\ row.units = t.seen.units /\ row.status = Becomes[t.verb]
      /\ claims' = [claims EXCEPT ![t.x] = row]
      /\ forfeited' = forfeited + IF t.verb = "reject" /\ t.seen.status = "APPROVED" THEN t.seen.units ELSE 0
  BY <1>2, <1>4, <1>5 DEF SaveClaim, ClaimRow, ClaimStatus, Becomes
<1>7. row.status = "APPROVED" <=> t.verb = "approve"
  BY <1>4, <1>6 DEF Becomes
<1>8. ASSUME Undisturbed', NoneNegative, Settled(t) PROVE Settled(next)'
  <2>1. disjoint
    BY <1>1, <1>8 DEF Answer, Undisturbed
  <2>2. t.seen = claims[t.x] /\ Permitted(t.seen, t.verb)
    BY <1>1, <1>2, <2>1 DEF Dates, SeenStands, Held
  <2>3. PICK L, E, M, F : /\ L = UnitsOf(Standing("leave", {"APPROVED"}))
                          /\ E = UnitsOf(Standing("encashment", {"APPROVED"}))
                          /\ M = UnitsOf(Standing("leave", {"APPROVED"}))'
                          /\ F = UnitsOf(Standing("encashment", {"APPROVED"}))'
    OBVIOUS
  <2>4. L \in Int /\ E \in Int /\ forfeited \in Int
    BY <1>1, <1>4, <1>6, <2>2, <2>3, StandingMoves DEF ClaimKind, LeaveTypeOK
  <2>5. /\ M = IF t.seen.kind # "leave" THEN L
               ELSE IF t.seen.status # "APPROVED" /\ row.status = "APPROVED" THEN L + row.units
               ELSE IF t.seen.status = "APPROVED" /\ row.status # "APPROVED" THEN L - row.units
               ELSE L
        /\ F = IF t.seen.kind # "encashment" THEN E
               ELSE IF t.seen.status # "APPROVED" /\ row.status = "APPROVED" THEN E + row.units
               ELSE IF t.seen.status = "APPROVED" /\ row.status # "APPROVED" THEN E - row.units
               ELSE E
    <3>1. PICK y : y = t.x
      OBVIOUS
    <3> QED BY <1>1, <1>4, <1>6, <2>2, <2>3, <3>1, StandingMoves DEF ClaimKind
  <2>6. /\ balance.taken = L + forfeited + TakenAhead(t) /\ balance.adjusted = 0 - E - EncashedAhead(t)
        /\ log.sum = balance.accrued + balance.adjusted /\ log.occasions <= 1 /\ forfeited >= 0
    <3>1. Unlogged(t) = 0
      BY <1>1, <1>2 DEF Unlogged
    <3>2. balance \in DaysBalance
      BY <1>1 DEF LeaveTypeOK
    <3> QED BY <1>8, <2>3, <3>1, <3>2 DEF Settled, DaysBalance
  <2>7. M + forfeited' = L + forfeited + TakenAhead(t)
    BY <1>1, <1>2, <1>4, <1>6, <1>7, <2>2, <2>4, <2>5 DEF TakenAhead, Permitted, ClaimKind
  <2>8. 0 - F = 0 - E - EncashedAhead(t)
    BY <1>1, <1>2, <1>4, <1>6, <1>7, <2>2, <2>4, <2>5 DEF EncashedAhead, Permitted, ClaimKind
  <2>9. M \in Int /\ F \in Int /\ forfeited' \in Int /\ forfeited' >= 0
    <3>1. t.seen.units >= 0
      BY <1>4, <1>8, <2>2 DEF NoneNegative
    <3> QED BY <1>4, <1>6, <2>4, <2>5, <2>6, <3>1
  <2>10. TakenAhead(next)' = 0 /\ EncashedAhead(next)' = 0 /\ Unlogged(next)' = 0 /\ next.pc = "idle"
    BY <1>2 DEF TakenAhead, EncashedAhead, Unlogged, Idle
  <2>11. balance' = balance /\ log' = log /\ balance \in DaysBalance /\ log \in [sum : Int, occasions : Nat]
    BY <1>1 DEF LeaveTypeOK
  <2> QED BY <2>3, <2>6, <2>7, <2>8, <2>9, <2>10, <2>11 DEF Settled, Held, DaysBalance
<1> QED BY <1>1, <1>2, <1>8, DaysMove

LEMMA DaysStep ==
  ASSUME Dates, Covered, DaysKept, [LeaveNext]_<<leaveVars, requestVars>>
  PROVE  DaysKept'
<1>0. Regular /\ SavedWhole
  BY StaysRegular DEF Regular, Covered
<1>1. ASSUME NEW c \in Call, NEW kind \in ClaimKind, NEW units, NEW p, Apply(c, kind, units, p)
      PROVE  DaysKept'
  BY <1>0, <1>1, ArrivalKeepsDays DEF Apply
<1>2. ASSUME NEW c \in Call, NEW units, NEW occasion, BeginAccrual(c, occasion, units) PROVE DaysKept'
  BY <1>0, <1>2, ArrivalKeepsDays DEF BeginAccrual
<1>3. ASSUME NEW c \in Call, NEW x \in Claim, NEW verb, FindClaim(c, x, verb) PROVE DaysKept'
  BY <1>0, <1>3, ArrivalKeepsDays DEF FindClaim, Deducts
<1>4. ASSUME NEW c \in Call, PerishInLeave(c) PROVE DaysKept'
  <2>1. faults' = faults + 1
    BY <1>4 DEF PerishInLeave, Perish
  <2>2. faults \in Nat
    BY DEF Dates, LeaveTypeOK
  <2> QED BY <2>1, <2>2 DEF DaysKept, Undisturbed
<1>5. CASE UNCHANGED <<leaveVars, requestVars>>
  <2>1. UNCHANGED <<balance, claims, log, forfeited, call, disjoint, faults>>
    BY <1>5 DEF leaveVars, requestVars
  <2>2. ASSUME NEW t PROVE Settled(t)' = Settled(t)
    BY <2>1 DEF Settled, TakenAhead, EncashedAhead, Unlogged, Held, Deducts, Prepared, Booked, UnitsOf, Standing
  <2>3. Undisturbed' = Undisturbed /\ Quiet' = Quiet /\ NoneNegative' = NoneNegative
    BY <2>1 DEF Undisturbed, Quiet, NoneNegative
  <2>4. Undisturbed' /\ NoneNegative' /\ Quiet' => Settled(Idle)'
    BY <2>2, <2>3 DEF DaysKept
  <2>5. ASSUME Undisturbed', NoneNegative', NEW c \in Call, call'[c] # Idle PROVE Settled(call[c])'
    <3>1. PICK t : t = call[c]
      OBVIOUS
    <3>2. Settled(t) /\ call'[c] = t
      BY <2>1, <2>3, <2>5, <3>1 DEF DaysKept
    <3>3. Settled(t)'
      BY <2>2, <3>2
    <3> QED BY <3>2, <3>3 DEF Settled, TakenAhead, EncashedAhead, Unlogged, Held, Deducts, Prepared, Booked
  <2> QED BY <2>4, <2>5 DEF DaysKept
<1> QED
  BY <1>0, <1>1, <1>2, <1>3, <1>4, <1>5, CheckKeepsDays, SaveNewKeepsDays, ReadingKeepsDays, SaveBalanceKeepsDays,
     LogKeepsDays, SaveClaimKeepsDays DEF LeaveNext, ClaimKind

LEMMA DaysStart == LeaveInit => DaysKept
<1> SUFFICES ASSUME LeaveInit PROVE DaysKept
  OBVIOUS
<1>1. /\ \A c \in Call : call[c] = Idle
      /\ balance = [accrued |-> 0, taken |-> 0, adjusted |-> 0]
      /\ log = [sum |-> 0, occasions |-> 0] /\ forfeited = 0
  BY DEF LeaveInit, RequestsInit
<1>2. Standing("leave", {"APPROVED"}) = {} /\ Standing("encashment", {"APPROVED"}) = {}
  BY DEF LeaveInit, Standing
<1>3. UnitsOf({}) = 0
  BY SumNone DEF UnitsOf
<1>4. TakenAhead(Idle) = 0 /\ EncashedAhead(Idle) = 0 /\ Unlogged(Idle) = 0 /\ Idle.pc = "idle"
  BY DEF TakenAhead, EncashedAhead, Unlogged, Idle
<1>5. PICK t : t = Idle
  OBVIOUS
<1>6. /\ balance.taken = 0 /\ balance.adjusted = 0 /\ balance.accrued = 0 /\ log.sum = 0 /\ log.occasions = 0
      /\ forfeited = 0 /\ Held(t) = t
      /\ t.pc = "idle" /\ TakenAhead(t) = 0 /\ EncashedAhead(t) = 0 /\ Unlogged(t) = 0
      /\ UnitsOf(Standing("leave", {"APPROVED"})) = 0 /\ UnitsOf(Standing("encashment", {"APPROVED"})) = 0
  BY <1>1, <1>2, <1>3, <1>4, <1>5 DEF Held
<1>7. Settled(t)
  BY <1>1, <1>6 DEF Settled
<1> QED BY <1>1, <1>5, <1>7 DEF DaysKept

\* Undisturbed, between requests, and without negative days, every day is accounted for: the
\* days taken are those of approved leaves and of the ones rejected after their approval, the
\* days adjusted those encashed, and the accrual log sums to what was accrued and adjusted,
\* with one occasion at most; for any number of claims and accruals (LeaveService).
THEOREM DaysAddUp == LeaveSpec => []DaysAccounted
<1>1. LeaveInit => Dates /\ Covered /\ DaysKept
  BY DatesStart, CoveredStart, DaysStart
<1>2. Dates /\ Covered /\ DaysKept /\ [LeaveNext]_<<leaveVars, requestVars>> => (Dates /\ Covered /\ DaysKept)'
  BY DatesStep, CoveredStep, DaysStep
<1>3. ASSUME Dates, DaysKept PROVE DaysAccounted
  <2>1. /\ TakenAhead(Idle) = 0 /\ EncashedAhead(Idle) = 0 /\ Unlogged(Idle) = 0
        /\ balance \in DaysBalance /\ forfeited \in Int
    BY <1>3 DEF TakenAhead, EncashedAhead, Unlogged, Idle, Dates, LeaveTypeOK
  <2>2. /\ UnitsOf(Standing("leave", {"APPROVED"})) \in Int
        /\ UnitsOf(Standing("encashment", {"APPROVED"})) \in Int
    <3>1. PICK f : f = [x \in Claim |-> claims[x].units]
      OBVIOUS
    <3> QED BY <1>3, <3>1, UnitsAre DEF Standing, Dates
  <2>3. Undisturbed /\ Quiet /\ NoneNegative => Settled(Idle)
    BY <1>3 DEF DaysKept
  <2> QED BY <2>1, <2>2, <2>3 DEF DaysAccounted, Settled, DaysBalance
<1> QED BY <1>1, <1>2, <1>3, PTL DEF LeaveSpec

-----------------------------------------------------------------------------
(* The process engine: no stage is jumped over.                              *)

USE ProcessAssumption, RequestsAssumption

\* What a request holds belongs to a stage; the stage of a stored task never
\* changes.
KnownCall(t) ==
  /\ t.pc \in {"found", "loaded", "saved"} => t.own \in DOMAIN tasks /\ t.task.stage = tasks[t.own].stage
  /\ t.pc \in {"advancing", "escalating"} =>
       \A o \in t.open : o[1] \in DOMAIN tasks /\ o[2].stage = tasks[o[1]].stage
  /\ t.pc \in {"advancing", "creating"} => t.stage \in DOMAIN stages
  /\ t.pc = "creating" => t.k \in DOMAIN stages[t.stage].approvers

TaskKnown(i) == tasks[i].stage \in DOMAIN stages

Backed(n) == \E i \in consented : tasks[i].stage = n
BackedBelow(n) == \A m \in DOMAIN stages : m < n => Backed(m)

\* What a request is about to save or create has the approvals it needs.
ExplainedCall(t) ==
  /\ t.pc \in {"loaded", "saved", "advancing"} => t.inst.status = "RUNNING" /\ BackedBelow(t.inst.stage)
  /\ t.pc = "saved" /\ t.verb = "APPROVED" => t.own \in consented
  /\ t.pc = "advancing" => BackedBelow(t.stage + 1)
  /\ t.pc = "creating" => BackedBelow(t.stage)

HeldExplained ==
  /\ \A i \in DOMAIN tasks : TaskKnown(i)
  /\ \A c \in Call : KnownCall(call[c]) /\ ExplainedCall(call[c])

Explained == ProcessTypeOK /\ HeldExplained /\ NoStageJumped

-----------------------------------------------------------------------------
LEMMA StageTypes ==
  ASSUME stages \in Processes
  PROVE  /\ stages \in Seq(StageType) /\ 1 \in DOMAIN stages
         /\ DOMAIN stages = 1 .. Len(stages) /\ Len(stages) \in Nat
         /\ \A n \in DOMAIN stages :
              /\ stages[n].approvers \in Seq(Person) /\ stages[n].mode \in Mode
              /\ stages[n].escalateTo \in Person \union {Nobody}
              /\ 1 \in DOMAIN stages[n].approvers
              /\ DOMAIN stages[n].approvers = 1 .. Len(stages[n].approvers)
              /\ \A k \in DOMAIN stages[n].approvers : stages[n].approvers[k] \in Person
<1>1. stages \in Seq(StageType) /\ WellFormed(stages)
  OBVIOUS
<1>2. ASSUME NEW n \in DOMAIN stages
      PROVE  stages[n] \in StageType
  BY <1>1
<1>3. ASSUME NEW s \in Seq(Person), s # <<>>
      PROVE  1 \in DOMAIN s /\ DOMAIN s = 1 .. Len(s) /\ \A k \in DOMAIN s : s[k] \in Person
  BY <1>3
<1>4. ASSUME NEW n \in DOMAIN stages
      PROVE  /\ stages[n].approvers \in Seq(Person) /\ stages[n].mode \in Mode
             /\ stages[n].escalateTo \in Person \union {Nobody} /\ stages[n].approvers # <<>>
  BY <1>1, <1>2 DEF StageType, WellFormed
<1>5. 1 \in DOMAIN stages /\ DOMAIN stages = 1 .. Len(stages) /\ Len(stages) \in Nat
  BY <1>1 DEF WellFormed
<1> QED BY <1>1, <1>3, <1>4, <1>5

LEMMA ProcessHeldTypes ==
  ASSUME ProcessTypeOK, NEW c \in Call
  PROVE  /\ call[c] \in ProcessCall
         /\ call[c].pc = "found" => call[c] \in [pc : {"found"}, own : Nat, task : Task, verb : Verdict]
         /\ call[c].pc \in {"loaded", "saved"} =>
              call[c] \in [pc : {"loaded", "saved"}, own : Nat, task : Task, verb : Verdict, inst : InstanceType]
         /\ call[c].pc = "advancing" =>
              call[c] \in [pc : {"advancing"}, stage : Nat, inst : InstanceType, open : SUBSET (Nat \X Task)]
         /\ call[c].pc = "creating" => call[c] \in [pc : {"creating"}, stage : Nat, k : Nat]
         /\ call[c].pc = "escalating" => call[c] \in [pc : {"escalating"}, open : SUBSET (Nat \X Task)]
<1>1. call[c] \in ProcessCall
  BY DEF ProcessTypeOK
<1> QED BY <1>1 DEF ProcessCall, Idle

RequestsOK ==
  /\ call \in [Call -> ProcessCall]
  /\ touches \in [Call -> SUBSET {"instance"}]
  /\ disjoint \in BOOLEAN /\ faults \in 0 .. MaxFaults

LEMMA ProcessTypeParts ==
  ProcessTypeOK <=> /\ stages \in Processes /\ instance \in InstanceType /\ tasks \in Seq(Task)
                    /\ rules \subseteq Delegations /\ consented \subseteq DOMAIN tasks
                    /\ RequestsOK
BY DEF ProcessTypeOK, RequestsOK

LEMMA ProcessStepTypes ==
  ASSUME RequestsOK, NEW c \in Call,
         \/ \E next \in ProcessCall : Arrive(c, {"instance"}, next) \/ Await(c, next)
         \/ Answer(c) \/ Perish(c)
  PROVE  RequestsOK'
<1> USE DEF RequestsOK
<1>1. ASSUME NEW next \in ProcessCall, Arrive(c, {"instance"}, next) PROVE RequestsOK'
  BY <1>1 DEF Arrive
<1>2. ASSUME NEW next \in ProcessCall, Await(c, next) PROVE RequestsOK'
  BY <1>2 DEF Await
<1>3. ASSUME Answer(c) \/ Perish(c) PROVE RequestsOK'
  <2>1. Idle \in ProcessCall
    BY DEF ProcessCall
  <2> QED BY <1>3, <2>1 DEF Answer, Perish
<1> QED BY <1>1, <1>2, <1>3

-----------------------------------------------------------------------------
\* No step takes an approval or the stage of a task back.
Kept ==
  /\ stages' = stages
  /\ consented \subseteq consented'
  /\ \A i \in DOMAIN tasks : i \in DOMAIN tasks' /\ tasks'[i].stage = tasks[i].stage

LEMMA KeptCalls ==
  ASSUME ProcessTypeOK, Kept, NEW t
  PROVE  /\ \A n : Backed(n) => Backed(n)'
         /\ \A n : BackedBelow(n) => BackedBelow(n)'
         /\ KnownCall(t) => KnownCall(t)'
         /\ ExplainedCall(t) => ExplainedCall(t)'
<1>1. \A n : Backed(n) => Backed(n)'
  BY DEF Kept, Backed, ProcessTypeOK
<1>2. \A n : BackedBelow(n) => BackedBelow(n)'
  BY <1>1 DEF Kept, BackedBelow
<1>3. KnownCall(t) => KnownCall(t)'
  BY DEF Kept, KnownCall
<1>4. ExplainedCall(t) => ExplainedCall(t)'
  <2>1. \A n : BackedBelow(n) => BackedBelow(n)'
    BY <1>2
  <2> QED BY <2>1 DEF Kept, ExplainedCall
<1> QED BY <1>1, <1>2, <1>3, <1>4

\* How a step is shown to keep the invariant: what the request goes on with is
\* explained, and so is what it has stored.
LEMMA StepExplained ==
  ASSUME Explained, ProcessTypeOK', Kept, NEW c \in Call, NEW next,
         call' = [call EXCEPT ![c] = next],
         KnownCall(next)', ExplainedCall(next)',
         \A i \in DOMAIN tasks' : i \in DOMAIN tasks \/ TaskKnown(i)',
         \A n \in DOMAIN stages : Past(n)' => Past(n) \/ Backed(n)'
  PROVE  Explained'
<1> USE DEF Explained
<1>1. \A n \in DOMAIN stages : Past(n)' => Backed(n)'
  <2>1. \A n : Backed(n) => Backed(n)'
    BY KeptCalls
  <2>2. \A n \in DOMAIN stages : Past(n) => Backed(n)
    BY DEF NoStageJumped, Backed
  <2> QED BY <2>1, <2>2
<1>2. NoStageJumped'
  BY <1>1 DEF NoStageJumped, Backed, Kept
<1>3. ASSUME NEW d \in Call PROVE KnownCall(call[d])' /\ ExplainedCall(call[d])'
  <2>1. PICK t : t = IF d = c THEN next ELSE call[d]
    OBVIOUS
  <2>2. call'[d] = t
    BY <2>1 DEF ProcessTypeOK
  <2>3. KnownCall(t)' /\ ExplainedCall(t)'
    <3>1. CASE d = c
      <4>1. t = next
        BY <2>1, <3>1
      <4> QED BY <4>1
    <3>2. CASE d # c
      <4>1. t = call[d] /\ KnownCall(call[d]) /\ ExplainedCall(call[d])
        BY <2>1, <3>2 DEF HeldExplained
      <4>2. KnownCall(t) /\ ExplainedCall(t)
        BY <4>1
      <4> QED BY <4>2, KeptCalls
    <3> QED BY <3>1, <3>2
  <2>4. \A n : BackedBelow(n)' <=> \A m \in DOMAIN stages' : m < n => \E i \in consented' : tasks'[i].stage = m
    BY DEF BackedBelow, Backed
  <2> QED BY <2>2, <2>3, <2>4 DEF KnownCall, ExplainedCall, BackedBelow, Backed
<1>4. \A i \in DOMAIN tasks' : TaskKnown(i)'
  BY DEF HeldExplained, TaskKnown, Kept
<1> QED BY <1>2, <1>3, <1>4 DEF HeldExplained

LEMMA IdleExplained == KnownCall(Idle) /\ ExplainedCall(Idle)
BY DEF Idle, KnownCall, ExplainedCall

\* Steps that store nothing.
LEMMA QuietProcessStep ==
  ASSUME Explained, NEW c \in Call, UNCHANGED processVars,
         \/ \E next \in ProcessCall : /\ KnownCall(next) /\ ExplainedCall(next)
                                      /\ Arrive(c, {"instance"}, next) \/ Await(c, next)
         \/ Answer(c) \/ Perish(c)
  PROVE  Explained'
<1>0. Idle \in ProcessCall
  BY DEF ProcessCall
<1>1. PICK next \in ProcessCall : KnownCall(next) /\ ExplainedCall(next) /\ call' = [call EXCEPT ![c] = next]
  BY <1>0, IdleExplained DEF Arrive, Await, Answer, Perish
<1>2. ProcessTypeOK'
  <2>1. RequestsOK
    BY ProcessTypeParts DEF Explained
  <2>2. RequestsOK'
    BY <2>1, ProcessStepTypes
  <2> QED BY <2>2 DEF Explained, ProcessTypeOK, RequestsOK, processVars
<1>3. Kept
  BY DEF Kept, processVars, Explained, ProcessTypeOK
<1>4. KnownCall(next)' /\ ExplainedCall(next)'
  BY <1>1, <1>3, KeptCalls DEF Explained
<1>5. /\ \A i \in DOMAIN tasks' : i \in DOMAIN tasks \/ TaskKnown(i)'
      /\ \A n \in DOMAIN stages : Past(n)' => Past(n) \/ Backed(n)'
  BY DEF processVars, Past
<1> QED BY <1>1, <1>2, <1>3, <1>4, <1>5, StepExplained

\* The stages behind a stored instance or task are backed.
LEMMA PastBacked ==
  ASSUME Explained
  PROVE  /\ BackedBelow(instance.stage)
         /\ \A i \in DOMAIN tasks : BackedBelow(tasks[i].stage)
<1> QED BY DEF Explained, NoStageJumped, Past, BackedBelow, Backed

LEMMA LoadStep ==
  ASSUME Explained, NEW c \in Call, LoadInstance(c)
  PROVE  Explained'
<1>1. call[c] \in [pc : {"found"}, own : Nat, task : Task, verb : Verdict] /\ KnownCall(call[c])
  BY ProcessHeldTypes DEF LoadInstance, At, Explained, HeldExplained
<1>2. UNCHANGED processVars
  BY DEF LoadInstance
<1> DEFINE next == [pc |-> "loaded", own |-> call[c].own, task |-> call[c].task,
                    verb |-> call[c].verb, inst |-> instance]
<1>3. Answer(c) \/ (instance.status = "RUNNING" /\ Await(c, next))
  BY DEF LoadInstance
<1>4. ASSUME instance.status = "RUNNING" PROVE KnownCall(next) /\ ExplainedCall(next)
  BY <1>1, <1>4, PastBacked DEF KnownCall, ExplainedCall
<1>5. next \in ProcessCall
  BY <1>1 DEF ProcessCall, Explained, ProcessTypeOK
<1> HIDE DEF next
<1> QED BY <1>2, <1>3, <1>4, <1>5, QuietProcessStep

LEMMA CountStep ==
  ASSUME Explained, NEW c \in Call, CountApprovals(c)
  PROVE  Explained'
<1> DEFINE t == call[c]
           n == t.task.stage
           open == IF stages[n].mode = "ANY"
                     THEN {<<i, tasks[i]>> : i \in {j \in OfStage(n) : Undecided(tasks[j])}} ELSE {}
           next == [pc |-> "advancing", stage |-> n, inst |-> t.inst, open |-> open]
<1>1. /\ t \in [pc : {"loaded", "saved"}, own : Nat, task : Task, verb : Verdict, inst : InstanceType]
      /\ t.pc = "saved" /\ t.verb = "APPROVED" /\ KnownCall(t) /\ ExplainedCall(t)
  BY ProcessHeldTypes DEF CountApprovals, At, Explained, HeldExplained
<1>2. UNCHANGED processVars /\ (Answer(c) \/ Await(c, next))
  BY DEF CountApprovals
<1>3. /\ t.own \in DOMAIN tasks /\ tasks[t.own].stage = n /\ t.own \in consented
      /\ n \in DOMAIN stages /\ BackedBelow(n)
  BY <1>1, PastBacked DEF KnownCall, ExplainedCall, Explained, HeldExplained, TaskKnown
<1>4. BackedBelow(n + 1)
  <2>1. ASSUME NEW m \in DOMAIN stages, m < n + 1 PROVE Backed(m)
    <3>1. m < n \/ m = n
      BY <1>3, <2>1, StageTypes DEF Explained, ProcessTypeOK
    <3> QED BY <1>3, <2>1, <3>1 DEF BackedBelow, Backed
  <2> QED BY <2>1 DEF BackedBelow
<1>5. \A o \in open : o[1] \in DOMAIN tasks /\ o[2] = tasks[o[1]]
  BY DEF OfStage
<1>6. KnownCall(next) /\ ExplainedCall(next)
  BY <1>1, <1>3, <1>4, <1>5 DEF KnownCall, ExplainedCall
<1>7. next \in ProcessCall
  <2>1. open \in SUBSET (Nat \X Task)
    BY DEF OfStage, Explained, ProcessTypeOK
  <2>2. n \in Nat
    BY <1>1 DEF Task
  <2> QED BY <1>1, <2>1, <2>2 DEF ProcessCall
<1> HIDE DEF next
<1> QED BY <1>2, <1>6, <1>7, QuietProcessStep

LEMMA FindStep ==
  ASSUME Explained, NEW c \in Call, NEW i \in DOMAIN tasks, NEW verb \in Verdict, FindTask(c, i, verb)
  PROVE  Explained'
<1> DEFINE next == [pc |-> "found", own |-> i, task |-> tasks[i], verb |-> verb]
<1>1. UNCHANGED processVars /\ Arrive(c, {"instance"}, next)
  BY DEF FindTask
<1>2. KnownCall(next) /\ ExplainedCall(next)
  BY DEF KnownCall, ExplainedCall
<1>3. next \in ProcessCall
  BY DEF ProcessCall, Explained, ProcessTypeOK
<1> HIDE DEF next
<1> QED BY <1>1, <1>2, <1>3, QuietProcessStep

LEMMA ListStep ==
  ASSUME Explained, NEW c \in Call, ListPending(c)
  PROVE  Explained'
<1> DEFINE open == {<<i, tasks[i]>> : i \in {j \in DOMAIN tasks : tasks[j].status = "PENDING"}}
           next == [pc |-> "escalating", open |-> open]
<1>1. UNCHANGED processVars /\ Arrive(c, {"instance"}, next)
  BY DEF ListPending
<1>2. open \in SUBSET (Nat \X Task) /\ \A o \in open : o[1] \in DOMAIN tasks /\ o[2] = tasks[o[1]]
  BY DEF Explained, ProcessTypeOK
<1>3. KnownCall(next) /\ ExplainedCall(next)
  BY <1>2 DEF KnownCall, ExplainedCall
<1>4. next \in ProcessCall
  BY <1>2 DEF ProcessCall
<1> HIDE DEF next
<1> QED BY <1>1, <1>3, <1>4, QuietProcessStep

\* Steps that overwrite a task with one of its stage.
LEMMA TaskSaved ==
  ASSUME Explained, NEW c \in Call, NEW i \in DOMAIN tasks, NEW task \in Task, task.stage = tasks[i].stage,
         tasks' = [tasks EXCEPT ![i] = task], UNCHANGED <<stages, instance, rules>>,
         consented \subseteq consented', consented' \subseteq DOMAIN tasks,
         NEW next \in ProcessCall, Await(c, next),
         KnownCall(next), ExplainedCall(next)'
  PROVE  Explained'
<1>1. tasks' \in Seq(Task) /\ DOMAIN tasks' = DOMAIN tasks /\ \A j \in DOMAIN tasks : tasks'[j].stage = tasks[j].stage
  BY DEF Explained, ProcessTypeOK
<1>2. Kept
  BY <1>1 DEF Kept
<1>3. ProcessTypeOK'
  <2>1. RequestsOK
    BY ProcessTypeParts DEF Explained
  <2>2. RequestsOK'
    BY <2>1, ProcessStepTypes
  <2> QED BY <1>1, <2>2 DEF Explained, ProcessTypeOK, RequestsOK
<1>4. KnownCall(next)'
  BY <1>2, KeptCalls DEF Explained
<1>5. call' = [call EXCEPT ![c] = next]
  BY DEF Await
<1>6. \A n \in DOMAIN stages : Past(n)' => Past(n) \/ Backed(n)'
  BY <1>1 DEF Past
<1> QED BY <1>1, <1>2, <1>3, <1>4, <1>5, <1>6, StepExplained

LEMMA SaveTaskStep ==
  ASSUME Explained, NEW c \in Call, SaveTask(c)
  PROVE  Explained'
<1> DEFINE t == call[c]
<1>1. /\ t \in [pc : {"loaded", "saved"}, own : Nat, task : Task, verb : Verdict, inst : InstanceType]
      /\ t.pc = "loaded" /\ KnownCall(t) /\ ExplainedCall(t)
  BY ProcessHeldTypes DEF SaveTask, At, Explained, HeldExplained
<1>2. PICK task : task = [t.task EXCEPT !.status = t.verb]
  OBVIOUS
<1>3. PICK next : next = [t EXCEPT !.pc = "saved"]
  OBVIOUS
<1>4. task \in Task /\ task.stage = tasks[t.own].stage /\ t.own \in DOMAIN tasks
  BY <1>1, <1>2 DEF Task, Verdict, TaskStatus, KnownCall
<1>5. next \in ProcessCall /\ KnownCall(next) /\ next.pc = "saved" /\ next.inst = t.inst /\ next.own = t.own /\ next.verb = t.verb
  BY <1>1, <1>3 DEF ProcessCall, KnownCall
<1>6. /\ tasks' = [tasks EXCEPT ![t.own] = task] /\ UNCHANGED <<stages, instance, rules>>
      /\ consented' = IF t.verb = "APPROVED" THEN consented \union {t.own} ELSE consented
      /\ Await(c, next)
  BY <1>2, <1>3 DEF SaveTask
<1>7. consented' \subseteq DOMAIN tasks /\ consented \subseteq consented'
  BY <1>4, <1>6 DEF Explained, ProcessTypeOK
<1>8. Kept
  BY <1>4, <1>6, <1>7 DEF Kept, Explained, ProcessTypeOK
<1>9. ExplainedCall(next)'
  <2>1. next.inst.status = "RUNNING" /\ BackedBelow(next.inst.stage)
    BY <1>1, <1>5 DEF ExplainedCall
  <2>2. BackedBelow(next.inst.stage)'
    BY <1>8, <2>1, KeptCalls DEF Explained
  <2>3. next.verb = "APPROVED" => next.own \in consented'
    BY <1>5, <1>6
  <2> QED BY <1>5, <2>1, <2>2, <2>3 DEF ExplainedCall
<1> QED BY <1>4, <1>5, <1>6, <1>7, <1>9, TaskSaved

LEMMA SkipStep ==
  ASSUME Explained, NEW c \in Call, SkipTask(c)
  PROVE  Explained'
<1>1. /\ call[c] \in [pc : {"advancing"}, stage : Nat, inst : InstanceType, open : SUBSET (Nat \X Task)]
      /\ KnownCall(call[c]) /\ ExplainedCall(call[c])
  BY ProcessHeldTypes DEF SkipTask, At, Explained, HeldExplained
<1>2. PICK o \in call[c].open :
        /\ tasks' = [tasks EXCEPT ![o[1]] = [o[2] EXCEPT !.status = "SKIPPED"]]
        /\ Await(c, [call[c] EXCEPT !.open = @ \ {o}])
  BY DEF SkipTask
<1>3. PICK i, task : i = o[1] /\ task = [o[2] EXCEPT !.status = "SKIPPED"]
  OBVIOUS
<1>4. PICK next : next = [call[c] EXCEPT !.open = @ \ {o}]
  OBVIOUS
<1>5. i \in DOMAIN tasks /\ task \in Task /\ task.stage = tasks[i].stage
  <2>1. o \in Nat \X Task /\ o[1] \in DOMAIN tasks /\ o[2].stage = tasks[o[1]].stage
    BY <1>1, <1>2 DEF KnownCall
  <2> QED BY <1>3, <2>1 DEF Task, TaskStatus
<1>6. next \in ProcessCall /\ KnownCall(next) /\ ExplainedCall(next)
  BY <1>1, <1>4 DEF ProcessCall, KnownCall, ExplainedCall
<1>7. tasks' = [tasks EXCEPT ![i] = task] /\ UNCHANGED <<stages, instance, rules, consented>> /\ Await(c, next)
  BY <1>2, <1>3, <1>4 DEF SkipTask
<1>8. Kept
  BY <1>5, <1>7 DEF Kept, Explained, ProcessTypeOK
<1>9. ExplainedCall(next)' /\ consented' \subseteq DOMAIN tasks /\ consented \subseteq consented'
  BY <1>6, <1>7, <1>8, KeptCalls DEF Explained, ProcessTypeOK
<1> QED BY <1>5, <1>6, <1>7, <1>9, TaskSaved

LEMMA EscalateStep ==
  ASSUME Explained, NEW c \in Call, Escalate(c)
  PROVE  Explained'
<1>1. /\ call[c] \in [pc : {"escalating"}, open : SUBSET (Nat \X Task)]
      /\ KnownCall(call[c])
  BY ProcessHeldTypes DEF Escalate, At, Explained, HeldExplained
<1>2. PICK o \in call[c].open :
        /\ tasks' = [tasks EXCEPT ![o[1]] = [o[2] EXCEPT !.status = "ESCALATED", !.assigned = stages[o[2].stage].escalateTo]]
        /\ Await(c, [call[c] EXCEPT !.open = @ \ {o}])
  BY DEF Escalate
<1>3. PICK i, task : i = o[1] /\ task = [o[2] EXCEPT !.status = "ESCALATED", !.assigned = stages[o[2].stage].escalateTo]
  OBVIOUS
<1>4. PICK next : next = [call[c] EXCEPT !.open = @ \ {o}]
  OBVIOUS
<1>5. i \in DOMAIN tasks /\ task \in Task /\ task.stage = tasks[i].stage
  <2>1. o \in Nat \X Task /\ o[1] \in DOMAIN tasks /\ o[2].stage = tasks[o[1]].stage
    BY <1>1, <1>2 DEF KnownCall
  <2>2. stages[o[2].stage].escalateTo \in Person \union {Nobody}
    BY <2>1, StageTypes DEF Explained, ProcessTypeOK, HeldExplained, TaskKnown
  <2> QED BY <1>3, <2>1, <2>2 DEF Task, TaskStatus
<1>6. next \in ProcessCall /\ KnownCall(next) /\ next.pc = "escalating"
  BY <1>1, <1>4 DEF ProcessCall, KnownCall
<1>7. tasks' = [tasks EXCEPT ![i] = task] /\ UNCHANGED <<stages, instance, rules, consented>> /\ Await(c, next)
  BY <1>2, <1>3, <1>4 DEF Escalate
<1>8. ExplainedCall(next)' /\ consented' \subseteq DOMAIN tasks /\ consented \subseteq consented'
  BY <1>6, <1>7 DEF Explained, ProcessTypeOK, ExplainedCall
<1> QED BY <1>5, <1>6, <1>7, <1>8, TaskSaved

\* Steps that overwrite the instance: what is stored is backed.
LEMMA InstanceSaved ==
  ASSUME Explained, NEW c \in Call, UNCHANGED <<stages, tasks, rules, consented>>,
         instance' \in InstanceType,
         \A n \in DOMAIN stages : instance'.status = "APPROVED" \/ instance'.stage > n => Backed(n),
         \/ \E next \in ProcessCall : /\ KnownCall(next) /\ ExplainedCall(next)
                                      /\ Arrive(c, {"instance"}, next) \/ Await(c, next)
         \/ Answer(c)
  PROVE  Explained'
<1>0. Idle \in ProcessCall
  BY DEF ProcessCall
<1>1. PICK next \in ProcessCall : KnownCall(next) /\ ExplainedCall(next) /\ call' = [call EXCEPT ![c] = next]
  BY <1>0, IdleExplained DEF Arrive, Await, Answer
<1>2. ProcessTypeOK'
  <2>1. RequestsOK
    BY ProcessTypeParts DEF Explained
  <2>2. RequestsOK'
    BY <2>1, ProcessStepTypes
  <2> QED BY <2>2 DEF Explained, ProcessTypeOK, RequestsOK
<1>3. Kept
  BY DEF Kept, Explained, ProcessTypeOK
<1>4. KnownCall(next)' /\ ExplainedCall(next)'
  BY <1>1, <1>3, KeptCalls DEF Explained
<1>5. \A n : Backed(n) => Backed(n)'
  BY <1>3, KeptCalls DEF Explained
<1>6. \A n \in DOMAIN stages : Past(n)' => Past(n) \/ Backed(n)'
  BY <1>5 DEF Past
<1>7. \A i \in DOMAIN tasks' : i \in DOMAIN tasks \/ TaskKnown(i)'
  OBVIOUS
<1> QED BY <1>1, <1>2, <1>3, <1>4, <1>6, <1>7, StepExplained

LEMMA StartStep ==
  ASSUME Explained, NEW c \in Call, StartProcess(c)
  PROVE  Explained'
<1> DEFINE next == [pc |-> "creating", stage |-> 1, k |-> 1]
<1>1. /\ instance' = [status |-> "RUNNING", stage |-> 1] /\ Arrive(c, {"instance"}, next)
      /\ UNCHANGED <<stages, tasks, rules, consented>>
  BY DEF StartProcess
<1>2. /\ 1 \in DOMAIN stages /\ 1 \in DOMAIN stages[1].approvers
      /\ \A n \in DOMAIN stages : n \in Nat /\ ~(1 > n)
  BY StageTypes DEF Explained, ProcessTypeOK
<1>3. KnownCall(next) /\ ExplainedCall(next) /\ next \in ProcessCall
  BY <1>2 DEF KnownCall, ExplainedCall, BackedBelow, ProcessCall
<1>4. /\ instance' \in InstanceType
      /\ \A n \in DOMAIN stages : ~(instance'.status = "APPROVED" \/ instance'.stage > n)
  BY <1>1, <1>2 DEF InstanceType
<1> HIDE DEF next
<1> QED BY <1>1, <1>3, <1>4, InstanceSaved

LEMMA RejectionStep ==
  ASSUME Explained, NEW c \in Call, SaveRejection(c)
  PROVE  Explained'
<1>1. /\ call[c] \in [pc : {"loaded", "saved"}, own : Nat, task : Task, verb : Verdict, inst : InstanceType]
      /\ call[c].pc = "saved" /\ ExplainedCall(call[c])
  BY ProcessHeldTypes DEF SaveRejection, At, Explained, HeldExplained
<1>2. /\ instance' = [call[c].inst EXCEPT !.status = "REJECTED"] /\ Answer(c)
      /\ UNCHANGED <<stages, tasks, rules, consented>>
  BY DEF SaveRejection
<1>3. /\ instance' \in InstanceType /\ instance'.status # "APPROVED" /\ instance'.stage = call[c].inst.stage
      /\ instance'.stage \in Nat
  BY <1>1, <1>2 DEF InstanceType
<1>4. ASSUME NEW n \in DOMAIN stages, instance'.stage > n PROVE Backed(n)
  <2>1. n \in Nat
    BY StageTypes DEF Explained, ProcessTypeOK
  <2> QED BY <1>1, <1>3, <1>4, <2>1 DEF ExplainedCall, BackedBelow
<1> QED BY <1>2, <1>3, <1>4, InstanceSaved

LEMMA AdvanceStep ==
  ASSUME Explained, NEW c \in Call, Advance(c)
  PROVE  Explained'
<1> DEFINE s == call[c].stage
           next == [pc |-> "creating", stage |-> s + 1, k |-> 1]
<1>1. /\ call[c] \in [pc : {"advancing"}, stage : Nat, inst : InstanceType, open : SUBSET (Nat \X Task)]
      /\ call[c].pc = "advancing" /\ KnownCall(call[c]) /\ ExplainedCall(call[c])
  BY ProcessHeldTypes DEF Advance, At, Explained, HeldExplained
<1>2. UNCHANGED <<stages, tasks, rules, consented>>
  BY DEF Advance
<1>3. s \in DOMAIN stages /\ DOMAIN stages = 1 .. Len(stages) /\ Len(stages) \in Nat /\ BackedBelow(s + 1)
  BY <1>1, StageTypes DEF KnownCall, ExplainedCall, Explained, ProcessTypeOK
<1>4. CASE s + 1 > Len(stages)
  <2>1. instance' = [call[c].inst EXCEPT !.status = "APPROVED"] /\ Answer(c)
    BY <1>4 DEF Advance
  <2>2. instance' \in InstanceType
    BY <1>1, <2>1 DEF InstanceType
  <2>3. \A n \in DOMAIN stages : Backed(n)
    BY <1>3, <1>4 DEF BackedBelow
  <2> QED BY <1>2, <2>1, <2>2, <2>3, InstanceSaved
<1>5. CASE ~(s + 1 > Len(stages))
  <2>1. instance' = [call[c].inst EXCEPT !.stage = s + 1] /\ Await(c, next)
    BY <1>5 DEF Advance
  <2>2. instance' \in InstanceType /\ instance'.status = "RUNNING" /\ instance'.stage = s + 1
    BY <1>1, <2>1 DEF InstanceType, ExplainedCall
  <2>3. s + 1 \in DOMAIN stages
    BY <1>3, <1>5
  <2>4. 1 \in DOMAIN stages[s + 1].approvers
    BY <2>3, StageTypes DEF Explained, ProcessTypeOK
  <2>5. KnownCall(next) /\ ExplainedCall(next)
    BY <1>3, <2>3, <2>4 DEF KnownCall, ExplainedCall
  <2>6. next \in ProcessCall
    BY <1>1 DEF ProcessCall
  <2>7. \A n \in DOMAIN stages : instance'.status = "APPROVED" \/ instance'.stage > n => Backed(n)
    BY <1>3, <2>2 DEF BackedBelow
  <2> HIDE DEF next
  <2> QED BY <1>2, <2>1, <2>2, <2>5, <2>6, <2>7, InstanceSaved
<1> QED BY <1>4, <1>5

LEMMA CreateStep ==
  ASSUME Explained, NEW c \in Call, CreateTask(c)
  PROVE  Explained'
<1> DEFINE n == call[c].stage
           k == call[c].k
           u == stages[n].approvers[k]
           task(a) == [stage |-> n, original |-> u, assigned |-> a, status |-> "PENDING"]
<1>1. /\ call[c] \in [pc : {"creating"}, stage : Nat, k : Nat]
      /\ KnownCall(call[c]) /\ ExplainedCall(call[c]) /\ call[c].pc = "creating"
  BY ProcessHeldTypes DEF CreateTask, At, Explained, HeldExplained
<1>2. n \in DOMAIN stages /\ k \in DOMAIN stages[n].approvers /\ BackedBelow(n)
  BY <1>1 DEF KnownCall, ExplainedCall
<1>3. /\ u \in Person /\ DOMAIN stages[n].approvers = 1 .. Len(stages[n].approvers)
      /\ Len(stages[n].approvers) \in Nat
  BY <1>2, StageTypes DEF Explained, ProcessTypeOK
<1>4. PICK a \in Resolved(u) : tasks' = Append(tasks, task(a))
  BY DEF CreateTask
<1>5. a \in Person
  BY <1>3 DEF Resolved, Explained, ProcessTypeOK
<1>6. task(a) \in Task
  BY <1>1, <1>3, <1>5 DEF Task, TaskStatus
<1>7. /\ tasks' \in Seq(Task) /\ DOMAIN tasks' = DOMAIN tasks \union {Len(tasks) + 1}
      /\ tasks'[Len(tasks) + 1].stage = n /\ \A i \in DOMAIN tasks : tasks'[i] = tasks[i]
  <2>1. tasks \in Seq(Task)
    BY DEF Explained, ProcessTypeOK
  <2>2. task(a).stage = n
    OBVIOUS
  <2> HIDE DEF task, n
  <2> QED BY <1>4, <1>6, <2>1, <2>2
<1>8. UNCHANGED <<stages, instance, rules, consented>>
  BY DEF CreateTask
<1>9. PICK next \in ProcessCall : call' = [call EXCEPT ![c] = next] /\ (Answer(c) \/ Await(c, next))
                                 /\ KnownCall(next) /\ ExplainedCall(next)
  <2> DEFINE more == [call[c] EXCEPT !.k = k + 1]
  <2>1. Answer(c) \/ (k < Len(stages[n].approvers) /\ Await(c, more))
    BY DEF CreateTask
  <2>2. CASE Answer(c)
    BY <2>2, IdleExplained DEF Answer, ProcessCall
  <2>3. CASE k < Len(stages[n].approvers) /\ Await(c, more)
    <3>1. k + 1 \in DOMAIN stages[n].approvers
      BY <1>1, <1>3, <2>3
    <3>2. KnownCall(more) /\ ExplainedCall(more)
      BY <1>1, <1>2, <3>1 DEF KnownCall, ExplainedCall
    <3>3. more \in ProcessCall
      BY <1>1 DEF ProcessCall
    <3>4. call' = [call EXCEPT ![c] = more]
      BY <2>3 DEF Await
    <3> HIDE DEF more
    <3> QED BY <2>3, <3>2, <3>3, <3>4
  <2> QED BY <2>1, <2>2, <2>3
<1>10. Kept
  BY <1>7, <1>8 DEF Kept
<1>11. ProcessTypeOK'
  <2>1. RequestsOK
    BY ProcessTypeParts DEF Explained
  <2>2. RequestsOK'
    BY <1>9, <2>1, ProcessStepTypes
  <2> QED BY <1>7, <1>8, <2>2 DEF Explained, ProcessTypeOK, RequestsOK
<1>12. KnownCall(next)' /\ ExplainedCall(next)'
  BY <1>9, <1>10, KeptCalls DEF Explained
<1>13. \A i \in DOMAIN tasks' : i \in DOMAIN tasks \/ TaskKnown(i)'
  BY <1>2, <1>7, <1>8 DEF TaskKnown
<1>14. ASSUME NEW m \in DOMAIN stages, Past(m)' PROVE Past(m) \/ Backed(m)'
  <2>1. Past(m) \/ n > m
    BY <1>7, <1>8, <1>14 DEF Past
  <2>2. CASE n > m
    <3>1. m \in Nat /\ n \in Nat
      BY <1>1, StageTypes DEF Explained, ProcessTypeOK
    <3>2. Backed(m)
      BY <1>2, <2>2, <3>1 DEF BackedBelow
    <3> QED BY <1>10, <3>2, KeptCalls DEF Explained
  <2> QED BY <2>1, <2>2
<1> QED BY <1>9, <1>10, <1>11, <1>12, <1>13, <1>14, StepExplained

LEMMA ProcessStep ==
  ASSUME Explained, [ProcessNext]_<<processVars, requestVars>>
  PROVE  Explained'
<1>1. ASSUME NEW r \in Delegations, SetDelegation(r[1], r[2]) PROVE Explained'
  <2>1. rules' \subseteq Delegations
    <3>1. r \in Person \X Person /\ r = <<r[1], r[2]>>
      OBVIOUS
    <3> QED BY <1>1, <3>1 DEF SetDelegation, Explained, ProcessTypeOK
  <2>2. UNCHANGED <<stages, instance, tasks, consented, call, touches, disjoint, faults>>
    BY <1>1 DEF SetDelegation, requestVars
  <2>3. ProcessTypeOK'
    BY <2>1, <2>2 DEF Explained, ProcessTypeOK
  <2>4. HeldExplained' /\ NoStageJumped'
    BY <2>2 DEF Explained, HeldExplained, NoStageJumped, Past, KnownCall, ExplainedCall, TaskKnown, Backed, BackedBelow
  <2> QED BY <2>3, <2>4 DEF Explained
<1>2. CASE UNCHANGED <<processVars, requestVars>>
  <2>1. ProcessTypeOK'
    BY <1>2 DEF processVars, requestVars, Explained, ProcessTypeOK
  <2>2. HeldExplained' /\ NoStageJumped'
    BY <1>2 DEF processVars, requestVars, Explained, HeldExplained, NoStageJumped, Past, KnownCall, ExplainedCall,
         TaskKnown, Backed, BackedBelow
  <2> QED BY <2>1, <2>2 DEF Explained
<1>3. ASSUME NEW c \in Call, EndSweep(c) \/ PerishInProcess(c) PROVE Explained'
  BY <1>3, QuietProcessStep DEF EndSweep, PerishInProcess
<1> QED
  BY <1>1, <1>2, <1>3, StartStep, CreateStep, FindStep, LoadStep, SaveTaskStep, RejectionStep, CountStep, SkipStep,
     AdvanceStep, ListStep, EscalateStep DEF ProcessNext

LEMMA ProcessStart == ProcessInit => Explained
<1> SUFFICES ASSUME ProcessInit PROVE Explained
  OBVIOUS
<1>1. ProcessTypeOK
  BY DEF ProcessInit, RequestsInit, ProcessTypeOK, InstanceType, ProcessCall
<1>2. HeldExplained
  BY IdleExplained DEF ProcessInit, RequestsInit, HeldExplained
<1>3. \A n \in DOMAIN stages : n \in Nat /\ n >= 1
  BY <1>1, StageTypes DEF ProcessTypeOK
<1>4. NoStageJumped
  BY <1>3 DEF ProcessInit, NoStageJumped, Past
<1> QED BY <1>1, <1>2, <1>4 DEF Explained

\* The instance, its tasks and what every request holds keep their types,
\* whatever overlaps or dies (BpmService).
THEOREM ProcessTypeCorrect == ProcessSpec => []ProcessTypeOK
<1>1. Explained => ProcessTypeOK
  BY DEF Explained
<1> QED BY <1>1, ProcessStart, ProcessStep, PTL DEF ProcessSpec

\* For any processes, users, delegations and number of requests, and whatever
\* overlaps or dies, no task of a later stage exists and no instance has ended
\* APPROVED or moved on without an approval of each earlier stage (decide,
\* createStageTasks).
THEOREM NoneJumped == ProcessSpec => []NoStageJumped
<1>1. Explained => NoStageJumped
  BY DEF Explained
<1> QED BY <1>1, ProcessStart, ProcessStep, PTL DEF ProcessSpec

-----------------------------------------------------------------------------
\* A request that is under way touches the instance, and while no two overlap
\* there is one.
Single ==
  /\ \A c \in Call : call[c] # Idle => touches[c] = {"instance"}
  /\ disjoint => \A c, d \in Call : call[c] # Idle /\ call[d] # Idle => c = d

\* The instance and the tasks in memory are those stored, and open.
AsStored(t) ==
  /\ t.pc \in {"found", "loaded"} => t.own \in DOMAIN tasks /\ t.task = tasks[t.own] /\ Undecided(t.task)
  /\ t.pc \in {"loaded", "saved", "advancing"} => t.inst = instance /\ t.inst.status = "RUNNING"
  /\ t.pc \in {"advancing", "escalating"} =>
       \A o \in t.open : o[1] \in DOMAIN tasks /\ o[2] = tasks[o[1]] /\ Undecided(o[2])

Current == Single /\ (disjoint => \A c \in Call : AsStored(call[c]))

\* What OutcomeStands asks of a step.
OutcomeKept ==
  disjoint' => /\ instance.status \in {"APPROVED", "REJECTED"} => instance' = instance
               /\ \A i \in DOMAIN tasks : ~Undecided(tasks[i]) => tasks'[i] = tasks[i]

\* A request arrives when no other is under way, or the overlap is on record.
LEMMA SingleStep ==
  ASSUME ProcessTypeOK, Single, NEW c \in Call,
         \/ \E next : next # Idle /\ (Arrive(c, {"instance"}, next) \/ (call[c] # Idle /\ Await(c, next)))
         \/ Answer(c) \/ Perish(c)
  PROVE  Single' /\ (disjoint' => disjoint)
<1> USE DEF Single, ProcessTypeOK
<1>1. ASSUME NEW next, next # Idle, Arrive(c, {"instance"}, next) PROVE Single' /\ (disjoint' => disjoint)
  BY <1>1 DEF Arrive
<1>2. ASSUME NEW next, next # Idle, call[c] # Idle, Await(c, next) PROVE Single' /\ (disjoint' => disjoint)
  BY <1>2 DEF Await
<1>3. ASSUME Answer(c) \/ Perish(c) PROVE Single' /\ (disjoint' => disjoint)
  BY <1>3 DEF Answer, Perish
<1> QED BY <1>1, <1>2, <1>3

\* How a step is shown to keep Current: what its request goes on with is as stored.
LEMMA CurrentStep ==
  ASSUME ProcessTypeOK, Current, NEW c \in Call, NEW next,
         \/ next # Idle /\ (Arrive(c, {"instance"}, next) \/ (call[c] # Idle /\ Await(c, next)))
         \/ next = Idle /\ call[c] # Idle /\ (Answer(c) \/ Perish(c)),
         disjoint /\ disjoint' => AsStored(next)'
  PROVE  Current' /\ (disjoint' => disjoint)
<1>1. Single' /\ (disjoint' => disjoint)
  BY SingleStep DEF Current
<1>2. call' = [call EXCEPT ![c] = next]
  BY DEF Arrive, Await, Answer, Perish
<1>3. ASSUME disjoint', NEW d \in Call PROVE call'[d] = next \/ call'[d] = Idle
  <2>1. CASE next # Idle
    BY <1>1, <1>2, <1>3, <2>1 DEF Single, ProcessTypeOK
  <2>2. CASE next = Idle
    BY <1>1, <1>2, <1>3, <2>2 DEF Current, Single, ProcessTypeOK
  <2> QED BY <2>1, <2>2
<1>4. AsStored(Idle)'
  BY DEF AsStored, Idle
<1>5. ASSUME disjoint', NEW d \in Call PROVE AsStored(call[d])'
  <2>1. CASE call'[d] = next
    BY <1>1, <1>5, <2>1 DEF AsStored
  <2>2. CASE call'[d] = Idle
    BY <2>2 DEF AsStored, Idle
  <2> QED BY <1>3, <1>5, <2>1, <2>2
<1> QED BY <1>1, <1>5 DEF Current

\* Steps that store nothing.
LEMMA ReadingKeeps ==
  ASSUME Explained, Current, NEW c \in Call,
         \/ \E i \in DOMAIN tasks, verb \in Verdict : FindTask(c, i, verb)
         \/ LoadInstance(c) \/ CountApprovals(c) \/ ListPending(c) \/ EndSweep(c) \/ PerishInProcess(c)
  PROVE  Current' /\ OutcomeKept
<1> USE DEF Explained
<1>1. UNCHANGED processVars
  BY DEF FindTask, LoadInstance, CountApprovals, ListPending, EndSweep, PerishInProcess
<1>2. OutcomeKept
  BY <1>1 DEF OutcomeKept, processVars
<1>3. ASSUME NEW i \in DOMAIN tasks, NEW verb \in Verdict, FindTask(c, i, verb) PROVE Current'
  <2> DEFINE next == [pc |-> "found", own |-> i, task |-> tasks[i], verb |-> verb]
  <2>1. next # Idle /\ Arrive(c, {"instance"}, next)
    BY <1>3 DEF FindTask, Idle
  <2>2. AsStored(next)
    BY <1>3 DEF FindTask, AsStored
  <2>3. next.pc = "found"
    OBVIOUS
  <2> HIDE DEF next
  <2>4. PICK t : t = next
    OBVIOUS
  <2>5. AsStored(t)'
    BY <1>1, <2>2, <2>4 DEF AsStored, processVars
  <2> QED BY <2>1, <2>4, <2>5, CurrentStep
<1>4. CASE LoadInstance(c)
  <2>1. call[c] \in [pc : {"found"}, own : Nat, task : Task, verb : Verdict] /\ call[c].pc = "found"
    BY <1>4, ProcessHeldTypes DEF LoadInstance, At
  <2>2. PICK t : t = [pc |-> "loaded", own |-> call[c].own, task |-> call[c].task,
                      verb |-> call[c].verb, inst |-> instance]
    OBVIOUS
  <2>3. call[c] # Idle /\ t # Idle /\ (Answer(c) \/ (instance.status = "RUNNING" /\ Await(c, t)))
    BY <1>4, <2>1, <2>2 DEF LoadInstance, Idle
  <2>4. disjoint /\ instance.status = "RUNNING" => AsStored(t)
    BY <2>1, <2>2 DEF Current, AsStored
  <2>5. AsStored(t) => AsStored(t)'
    BY <1>1 DEF AsStored, processVars
  <2>6. AsStored(Idle)'
    BY DEF AsStored, Idle
  <2> QED BY <1>2, <2>3, <2>4, <2>5, <2>6, CurrentStep
<1>5. CASE CountApprovals(c)
  <2>1. /\ call[c] \in [pc : {"loaded", "saved"}, own : Nat, task : Task, verb : Verdict, inst : InstanceType]
        /\ call[c].pc = "saved"
    BY <1>5, ProcessHeldTypes DEF CountApprovals, At
  <2> DEFINE n == call[c].task.stage
  <2>2. PICK open : open = IF stages[n].mode = "ANY"
                             THEN {<<i, tasks[i]>> : i \in {j \in OfStage(n) : Undecided(tasks[j])}} ELSE {}
    OBVIOUS
  <2>3. PICK t : t = [pc |-> "advancing", stage |-> n, inst |-> call[c].inst, open |-> open]
    OBVIOUS
  <2>4. call[c] # Idle /\ t # Idle /\ (Answer(c) \/ Await(c, t))
    BY <1>5, <2>1, <2>2, <2>3 DEF CountApprovals, Idle
  <2>5. \A o \in open : o[1] \in DOMAIN tasks /\ o[2] = tasks[o[1]] /\ Undecided(o[2])
    BY <2>2 DEF OfStage
  <2>6. t.pc = "advancing" /\ t.open = open /\ t.inst = call[c].inst
    BY <2>3
  <2>7. disjoint => AsStored(t)
    BY <2>1, <2>5, <2>6 DEF Current, AsStored
  <2>8. AsStored(t) => AsStored(t)'
    BY <1>1 DEF AsStored, processVars
  <2>9. AsStored(Idle)'
    BY DEF AsStored, Idle
  <2> QED BY <1>2, <2>4, <2>7, <2>8, <2>9, CurrentStep
<1>6. CASE ListPending(c)
  <2>1. PICK open : open = {<<i, tasks[i]>> : i \in {j \in DOMAIN tasks : tasks[j].status = "PENDING"}}
    OBVIOUS
  <2>2. PICK t : t = [pc |-> "escalating", open |-> open]
    OBVIOUS
  <2>3. t # Idle /\ Arrive(c, {"instance"}, t)
    BY <1>6, <2>1, <2>2 DEF ListPending, Idle
  <2>4. \A o \in open : o[1] \in DOMAIN tasks /\ o[2] = tasks[o[1]] /\ Undecided(o[2])
    BY <2>1 DEF Undecided
  <2>5. AsStored(t)
    BY <2>2, <2>4 DEF AsStored
  <2>6. AsStored(t)'
    BY <1>1, <2>5 DEF AsStored, processVars
  <2> QED BY <1>2, <2>3, <2>6, CurrentStep
<1>7. CASE EndSweep(c) \/ PerishInProcess(c)
  <2>1. call[c] # Idle /\ (Answer(c) \/ Perish(c))
    BY <1>7 DEF EndSweep, At, Idle, PerishInProcess, Perish
  <2>2. AsStored(Idle)'
    BY DEF AsStored, Idle
  <2> QED BY <1>2, <2>1, <2>2, CurrentStep
<1> QED BY <1>2, <1>3, <1>4, <1>5, <1>6, <1>7

\* Steps that store the instance.
LEMMA InstanceKeeps ==
  ASSUME Explained, Current, NEW c \in Call,
         StartProcess(c) \/ SaveRejection(c) \/ Advance(c)
  PROVE  Current' /\ OutcomeKept
<1> USE DEF Explained
<1>1. /\ UNCHANGED tasks
      /\ \/ StartProcess(c) /\ instance.status = "absent"
         \/ call[c] # Idle /\ call[c].pc \in {"saved", "advancing"}
  BY DEF StartProcess, SaveRejection, Advance, At, Idle
<1>2. disjoint => instance.status \notin {"APPROVED", "REJECTED"}
  BY <1>1 DEF Current, AsStored
<1>3. ASSUME NEW t, t.pc \in {"creating", "idle"} PROVE AsStored(t)'
  BY <1>3 DEF AsStored
<1>4. Current' /\ (disjoint' => disjoint)
  <2>1. CASE StartProcess(c)
    <3>1. PICK t : t = [pc |-> "creating", stage |-> 1, k |-> 1]
      OBVIOUS
    <3>2. t # Idle /\ Arrive(c, {"instance"}, t) /\ t.pc = "creating"
      BY <2>1, <3>1 DEF StartProcess, Idle
    <3> QED BY <1>3, <3>2, CurrentStep
  <2>2. CASE SaveRejection(c) \/ Advance(c)
    <3>1. PICK t : t = [pc |-> "creating", stage |-> call[c].stage + 1, k |-> 1]
      OBVIOUS
    <3>2. t # Idle /\ t.pc = "creating" /\ call[c] # Idle /\ (Answer(c) \/ Await(c, t))
      BY <2>2, <3>1 DEF SaveRejection, Advance, At, Idle
    <3>3. AsStored(Idle)'
      BY DEF AsStored, Idle
    <3> QED BY <1>3, <3>2, <3>3, CurrentStep
  <2> QED BY <2>1, <2>2
<1> QED BY <1>1, <1>2, <1>4 DEF OutcomeKept

\* Steps that store a task.
LEMMA TaskKeeps ==
  ASSUME Explained, Current, NEW c \in Call,
         CreateTask(c) \/ SaveTask(c) \/ SkipTask(c) \/ Escalate(c)
  PROVE  Current' /\ OutcomeKept
<1> USE DEF Explained
<1>0. tasks \in Seq(Task) /\ UNCHANGED instance /\ call[c] # Idle
  <2>1. tasks \in Seq(Task)
    BY DEF ProcessTypeOK
  <2>2. UNCHANGED instance
    BY DEF CreateTask, SaveTask, SkipTask, Escalate
  <2>3. call[c].pc # "idle"
    BY DEF CreateTask, SaveTask, SkipTask, Escalate, At
  <2> QED BY <2>1, <2>2, <2>3 DEF Idle
<1>1. CASE CreateTask(c)
  <2>1. call[c] \in [pc : {"creating"}, stage : Nat, k : Nat] /\ call[c].pc = "creating"
    BY <1>1, ProcessHeldTypes DEF CreateTask, At
  <2>2. PICK t : t = [call[c] EXCEPT !.k = call[c].k + 1]
    OBVIOUS
  <2>3. t # Idle /\ t.pc = "creating" /\ (Answer(c) \/ Await(c, t))
    BY <1>1, <2>1, <2>2 DEF CreateTask, Idle
  <2>4. AsStored(t)' /\ AsStored(Idle)'
    BY <2>3 DEF AsStored, Idle
  <2>5. Current'
    BY <1>0, <2>3, <2>4, CurrentStep
  <2>6. \E task : tasks' = Append(tasks, task)
    BY <1>1 DEF CreateTask
  <2>7. \A i \in DOMAIN tasks : tasks'[i] = tasks[i]
    BY <1>0, <2>6
  <2> QED BY <1>0, <2>5, <2>7 DEF OutcomeKept
<1>2. CASE SaveTask(c)
  <2>1. /\ call[c] \in [pc : {"loaded", "saved"}, own : Nat, task : Task, verb : Verdict, inst : InstanceType]
        /\ call[c].pc = "loaded"
    BY <1>2, ProcessHeldTypes DEF SaveTask, At
  <2>2. PICK t : t = [call[c] EXCEPT !.pc = "saved"]
    OBVIOUS
  <2>3. t # Idle /\ t.pc = "saved" /\ t.inst = call[c].inst /\ Await(c, t)
    BY <1>2, <2>1, <2>2 DEF SaveTask, Idle
  <2>4. disjoint => call[c].inst = instance /\ instance.status = "RUNNING" /\ Undecided(tasks[call[c].own])
    BY <2>1 DEF Current, AsStored
  <2>5. disjoint => AsStored(t)'
    BY <1>0, <2>3, <2>4 DEF AsStored
  <2>6. Current' /\ (disjoint' => disjoint)
    BY <1>0, <2>3, <2>5, CurrentStep
  <2>7. \A i \in DOMAIN tasks : i # call[c].own => tasks'[i] = tasks[i]
    BY <1>0, <1>2 DEF SaveTask
  <2> QED BY <1>0, <2>4, <2>6, <2>7 DEF OutcomeKept
<1>3. ASSUME SkipTask(c) \/ Escalate(c) PROVE Current' /\ OutcomeKept
  <2>1. /\ call[c].pc \in {"advancing", "escalating"}
        /\ call[c] \in [pc : {"advancing"}, stage : Nat, inst : InstanceType, open : SUBSET (Nat \X Task)]
             \union [pc : {"escalating"}, open : SUBSET (Nat \X Task)]
    BY <1>3, ProcessHeldTypes DEF SkipTask, Escalate, At
  <2>2. PICK o \in call[c].open : \E task :
          /\ tasks' = [tasks EXCEPT ![o[1]] = task]
          /\ Await(c, [call[c] EXCEPT !.open = call[c].open \ {o}])
    BY <1>3 DEF SkipTask, Escalate
  <2>3. PICK t : t = [call[c] EXCEPT !.open = call[c].open \ {o}]
    OBVIOUS
  <2>4. /\ t # Idle /\ t.pc = call[c].pc /\ t.open = call[c].open \ {o} /\ Await(c, t)
        /\ t.pc = "advancing" => t.inst = call[c].inst
    BY <2>1, <2>2, <2>3 DEF Idle
  <2>5. disjoint => /\ \A p \in call[c].open : p[1] \in DOMAIN tasks /\ p[2] = tasks[p[1]] /\ Undecided(p[2])
                    /\ call[c].pc = "advancing" => call[c].inst = instance /\ instance.status = "RUNNING"
    BY <2>1 DEF Current, AsStored
  <2>6. DOMAIN tasks' = DOMAIN tasks /\ \A i \in DOMAIN tasks : i # o[1] => tasks'[i] = tasks[i]
    BY <1>0, <2>2
  <2>7. ASSUME disjoint, NEW p \in t.open
        PROVE  p[1] \in DOMAIN tasks' /\ p[2] = tasks'[p[1]] /\ Undecided(p[2])
    <3>1. p \in Nat \X Task /\ o \in Nat \X Task /\ p # o /\ p \in call[c].open
      BY <2>1, <2>4, <2>7
    <3>2. p[1] # o[1]
      <4>1. p = <<p[1], p[2]>> /\ o = <<o[1], o[2]>>
        BY <3>1
      <4> QED BY <2>5, <2>7, <3>1, <4>1
    <3> QED BY <2>5, <2>6, <2>7, <3>1, <3>2
  <2>8. disjoint => AsStored(t)'
    BY <1>0, <2>1, <2>4, <2>5, <2>7 DEF AsStored, Undecided
  <2>9. Current' /\ (disjoint' => disjoint)
    BY <1>0, <2>4, <2>8, CurrentStep
  <2>10. disjoint => Undecided(tasks[o[1]])
    BY <2>5
  <2> QED BY <1>0, <2>6, <2>9, <2>10 DEF OutcomeKept
<1> QED BY <1>1, <1>2, <1>3

LEMMA OutcomeStep ==
  ASSUME Explained, Current, [ProcessNext]_<<processVars, requestVars>>
  PROVE  Current' /\ OutcomeKept
<1>1. ASSUME NEW r \in Delegations, SetDelegation(r[1], r[2]) PROVE Current' /\ OutcomeKept
  BY <1>1 DEF SetDelegation, requestVars, Current, Single, AsStored, OutcomeKept
<1>2. CASE UNCHANGED <<processVars, requestVars>>
  BY <1>2 DEF processVars, requestVars, Current, Single, AsStored, OutcomeKept
<1> QED BY <1>1, <1>2, ReadingKeeps, InstanceKeeps, TaskKeeps DEF ProcessNext

\* For any process, users and delegations, and whichever requests die: while no two
\* requests for the instance overlap, an instance that has ended never runs again
\* and keeps its outcome, and no decision is overwritten (decide, checkEscalations).
THEOREM DecisionsStand == ProcessSpec => OutcomeStands
<1>1. ProcessInit => Current
  BY DEF ProcessInit, RequestsInit, Current, Single, AsStored, Idle
<1>2. Explained /\ Current /\ [ProcessNext]_<<processVars, requestVars>> => Current'
  BY OutcomeStep
<1>3. Explained /\ Current /\ [ProcessNext]_<<processVars, requestVars>>
        => [disjoint' => /\ instance.status \in {"APPROVED", "REJECTED"} => instance' = instance
                      /\ \A i \in DOMAIN tasks : ~Undecided(tasks[i]) => tasks'[i] = tasks[i]]_<<processVars, requestVars>>
  BY OutcomeStep DEF OutcomeKept
<1> QED BY <1>1, <1>2, <1>3, ProcessStart, ProcessStep, PTL DEF ProcessSpec, OutcomeStands

-----------------------------------------------------------------------------
(* The process engine: every stage is served.                                *)

\* The tasks of stage n are those of its first m approvers, one after the other.
Laid(n, s, m) ==
  /\ OfStage(n) = (s + 1) .. (s + m)
  /\ \A k \in 1 .. m : tasks[s + k].original = stages[n].approvers[k]
Asked(n) == \E s \in Nat : Laid(n, s, Len(stages[n].approvers))
Closed(n) == \A i \in OfStage(n) : ~ Undecided(tasks[i]) /\ (stages[n].mode = "ALL" => tasks[i].status = "APPROVED")
Waiting == \E i \in OfStage(instance.stage) : Undecided(tasks[i])

\* Where the instance stands when t is the one request under way: the stages behind it
\* are served, and somebody is asked to decide or t goes on.
StagesAt(t) ==
  /\ instance.status = "absent" => instance.stage = 1
  /\ instance.status # "absent" => instance.stage \in DOMAIN stages
  /\ instance.status = "APPROVED" => instance.stage = Len(stages)
  /\ \A n \in DOMAIN stages :
       /\ instance.status = "absent" \/ n > instance.stage => OfStage(n) = {}
       /\ instance.status # "absent" /\ (n < instance.stage \/ (n = instance.stage /\ t.pc # "creating")) => Asked(n)
       /\ instance.status = "APPROVED" \/ (instance.status # "absent" /\ n < instance.stage) => Closed(n)
  /\ instance.status = "RUNNING" /\ stages[instance.stage].mode = "ALL" /\ ~(t.pc = "saved" /\ t.verb = "REJECTED") =>
       \A i \in OfStage(instance.stage) : tasks[i].status \in {"PENDING", "ESCALATED", "APPROVED"}
  /\ instance.status = "RUNNING" => Waiting \/ t.pc \in {"saved", "advancing", "creating"}
RequestAt(t) ==
  /\ t.pc \in {"found", "loaded", "saved"} => t.task.stage = instance.stage
  /\ t.pc = "saved" => tasks[t.own].status = t.verb
  /\ t.pc = "advancing" =>
       /\ t.stage = instance.stage /\ \A o \in t.open : tasks[o[1]].stage = t.stage
       /\ \A i \in OfStage(t.stage) :
            IF stages[t.stage].mode = "ALL" THEN tasks[i].status = "APPROVED"
            ELSE Undecided(tasks[i]) => \E o \in t.open : o[1] = i
  /\ t.pc = "creating" =>
       /\ instance.status = "RUNNING" /\ t.stage = instance.stage
       /\ \E s \in Nat : s + t.k = Len(tasks) + 1 /\ Laid(t.stage, s, t.k - 1)

InOrder ==
  Undisturbed =>
    /\ Quiet => StagesAt(Idle) /\ RequestAt(Idle)
    /\ \A c \in Call : call[c] # Idle => StagesAt(call[c]) /\ RequestAt(call[c])

-----------------------------------------------------------------------------
LEMMA TaskTerms ==
  ASSUME Explained
  PROVE  /\ Len(tasks) \in Nat /\ DOMAIN tasks = 1 .. Len(tasks) /\ \A i \in DOMAIN tasks : tasks[i] \in Task /\ tasks[i].stage \in DOMAIN stages
         /\ instance \in InstanceType /\ instance.stage \in Nat /\ Len(stages) \in Nat /\ DOMAIN stages = 1 .. Len(stages)
         /\ \A n \in DOMAIN stages : stages[n].mode \in Mode /\ Len(stages[n].approvers) \in Nat \ {0}
                                     /\ DOMAIN stages[n].approvers = 1 .. Len(stages[n].approvers)
<1>1. ProcessTypeOK /\ \A i \in DOMAIN tasks : tasks[i].stage \in DOMAIN stages
  BY DEF Explained, HeldExplained, TaskKnown
<1>2. Len(tasks) \in Nat /\ DOMAIN tasks = 1 .. Len(tasks) /\ \A i \in DOMAIN tasks : tasks[i] \in Task
  BY <1>1 DEF ProcessTypeOK
<1>3. instance \in InstanceType /\ instance.stage \in Nat
  BY <1>1 DEF ProcessTypeOK, InstanceType
<1>4. \A n \in DOMAIN stages : stages[n].mode \in Mode /\ stages[n].approvers \in Seq(Person) /\ 1 \in DOMAIN stages[n].approvers
                               /\ DOMAIN stages[n].approvers = 1 .. Len(stages[n].approvers)
  BY <1>1, StageTypes DEF ProcessTypeOK
<1>5. \A n \in DOMAIN stages : Len(stages[n].approvers) \in Nat \ {0}
  BY <1>4
<1>6. Len(stages) \in Nat /\ DOMAIN stages = 1 .. Len(stages)
  BY <1>1, StageTypes DEF ProcessTypeOK
<1> QED BY <1>1, <1>2, <1>3, <1>4, <1>5, <1>6

\* An open task belongs to the stage of an instance that has not been approved.
LEMMA OpenTask ==
  ASSUME Explained, NEW t, StagesAt(t), NEW i \in DOMAIN tasks, Undecided(tasks[i])
  PROVE  tasks[i].stage = instance.stage /\ instance.stage \in DOMAIN stages /\ instance.status \notin {"absent", "APPROVED"}
<1>1. PICK n : n = tasks[i].stage
  OBVIOUS
<1>2. n \in DOMAIN stages /\ n \in Nat /\ instance.stage \in Nat /\ i \in OfStage(n)
  BY <1>1, TaskTerms DEF OfStage
<1>3. ~ (instance.status = "absent" \/ n > instance.stage)
  BY <1>2 DEF StagesAt
<1>4. ~ (instance.status = "APPROVED" \/ n < instance.stage)
  BY <1>2, <1>3 DEF StagesAt, Closed
<1> QED BY <1>1, <1>2, <1>3, <1>4

\* How a step is shown to keep the order: the one request under way goes on in order.
LEMMA InOrderStep ==
  ASSUME Explained, Current, Current', InOrder, NEW c \in Call, NEW t, t = call[c], NEW next,
         call' = [call EXCEPT ![c] = next], Undisturbed' => Undisturbed, t # Idle \/ next # Idle,
         Undisturbed /\ Undisturbed' /\ StagesAt(t) /\ RequestAt(t) => StagesAt(next)' /\ RequestAt(next)'
  PROVE  InOrder'
<1> SUFFICES ASSUME Undisturbed'
             PROVE  /\ Quiet' => StagesAt(Idle)' /\ RequestAt(Idle)'
                    /\ \A d \in Call : call'[d] # Idle => StagesAt(call[d])' /\ RequestAt(call[d])'
  BY DEF InOrder
<1>1. Undisturbed /\ disjoint /\ disjoint' /\ call \in [Call -> ProcessCall]
  BY DEF Undisturbed, Explained, ProcessTypeOK
<1>2. \A d \in Call \ {c} : call'[d] = call[d] /\ call[d] = Idle
  BY <1>1 DEF Current, Single
<1>3. call'[c] = next
  BY <1>1
<1>4. StagesAt(t) /\ RequestAt(t)
  <2>1. CASE t = Idle
    BY <1>1, <1>2, <2>1 DEF InOrder, Quiet
  <2>2. CASE t # Idle
    BY <1>1, <2>2 DEF InOrder
  <2> QED BY <2>1, <2>2
<1>5. StagesAt(next)' /\ RequestAt(next)'
  BY <1>1, <1>4
<1>6. Quiet' => next = Idle
  BY <1>3 DEF Quiet
<1>7. ASSUME NEW d \in Call, call'[d] # Idle PROVE d = c
  BY <1>2, <1>7
<1>8. StagesAt(call[c])' /\ RequestAt(call[c])'
  BY <1>3, <1>5 DEF StagesAt, RequestAt
<1>9. next = Idle => StagesAt(Idle)' /\ RequestAt(Idle)'
  BY <1>5
<1> QED BY <1>6, <1>7, <1>8, <1>9

\* Nothing is stored.
LEMMA OrderStays ==
  ASSUME UNCHANGED processVars, NEW t, NEW next, StagesAt(t), RequestAt(next),
         t.pc # "creating", next.pc # "creating", t.pc = "saved" => t.verb = "APPROVED",
         instance.status = "RUNNING" => Waiting \/ next.pc \in {"saved", "advancing"}
  PROVE  StagesAt(next)' /\ RequestAt(next)'
<1>1. /\ stages' = stages /\ instance' = instance /\ tasks' = tasks
      /\ \A n : OfStage(n)' = OfStage(n) /\ (Asked(n) => Asked(n)') /\ (Closed(n) => Closed(n)')
      /\ Waiting => Waiting'
  BY DEF processVars, OfStage, Asked, Laid, Closed, Waiting
<1>2. RequestAt(next)'
  BY <1>1 DEF RequestAt, Laid
<1>3. StagesAt(next)'
  BY <1>1 DEF StagesAt
<1> QED BY <1>2, <1>3

LEMMA ReadingInOrder ==
  ASSUME Explained, Current, Current', InOrder, NEW c \in Call,
         \/ \E i \in DOMAIN tasks, verb \in Verdict : FindTask(c, i, verb)
         \/ LoadInstance(c) \/ CountApprovals(c) \/ ListPending(c) \/ EndSweep(c) \/ PerishInProcess(c)
  PROVE  InOrder'
<1>1. PICK t : t = call[c]
  OBVIOUS
<1>2. UNCHANGED processVars
  BY DEF FindTask, LoadInstance, CountApprovals, ListPending, EndSweep, PerishInProcess
<1>3. RequestAt(Idle)
  BY DEF RequestAt, Idle
<1>4. KnownCall(t) /\ (disjoint => AsStored(t)) /\ call \in [Call -> ProcessCall] /\ faults \in Nat
  BY <1>1 DEF Explained, HeldExplained, Current, ProcessTypeOK
<1>5. ASSUME NEW i \in DOMAIN tasks, NEW verb \in Verdict, FindTask(c, i, verb) PROVE InOrder'
  <2>1. PICK next : next = [pc |-> "found", own |-> i, task |-> tasks[i], verb |-> verb]
    OBVIOUS
  <2>2. /\ t = Idle /\ t.pc = "idle" /\ next.pc = "found" /\ next.task = tasks[i] /\ Undecided(tasks[i]) /\ next # Idle
        /\ call' = [call EXCEPT ![c] = next] /\ (Undisturbed' => Undisturbed)
    <3>1. t = Idle /\ Undecided(tasks[i]) /\ Arrive(c, {"instance"}, next)
      BY <1>1, <1>5, <2>1 DEF FindTask, Arrive
    <3>2. call' = [call EXCEPT ![c] = next] /\ (Undisturbed' => Undisturbed)
      BY <3>1 DEF Arrive, Undisturbed
    <3>3. next.pc = "found" /\ next.task = tasks[i]
      BY <2>1
    <3>4. Idle.pc = "idle"
      BY DEF Idle
    <3> QED BY <3>1, <3>2, <3>3, <3>4
  <2>3. ASSUME StagesAt(t) PROVE StagesAt(next)' /\ RequestAt(next)'
    <3>1. RequestAt(next) /\ (instance.status = "RUNNING" => Waiting)
      BY <2>2, <2>3, OpenTask DEF RequestAt, StagesAt
    <3> QED BY <1>2, <2>2, <2>3, <3>1, OrderStays
  <2> QED BY <1>1, <2>2, <2>3, InOrderStep
<1>6. CASE LoadInstance(c)
  <2>1. PICK next : next = IF instance.status = "RUNNING"
                             THEN [pc |-> "loaded", own |-> t.own, task |-> t.task, verb |-> t.verb, inst |-> instance] ELSE Idle
    OBVIOUS
  <2>2. /\ t.pc = "found" /\ t # Idle /\ (next = Idle \/ (next.pc = "loaded" /\ next.task = t.task))
        /\ call' = [call EXCEPT ![c] = next] /\ (Undisturbed' => Undisturbed)
    BY <1>1, <1>6, <2>1 DEF LoadInstance, At, Await, Answer, Idle, Undisturbed
  <2>3. ASSUME StagesAt(t), RequestAt(t) PROVE StagesAt(next)' /\ RequestAt(next)'
    <3>1. RequestAt(next) /\ next.pc \in {"idle", "loaded"} /\ (instance.status = "RUNNING" => Waiting)
      BY <1>3, <2>2, <2>3 DEF RequestAt, StagesAt, Idle
    <3> QED BY <1>2, <2>2, <2>3, <3>1, OrderStays
  <2> QED BY <1>1, <2>2, <2>3, InOrderStep
<1>7. CASE CountApprovals(c)
  <2>1. PICK n : n = t.task.stage
    OBVIOUS
  <2>2. PICK open : open = IF stages[n].mode = "ANY" THEN {<<i, tasks[i]>> : i \in {j \in OfStage(n) : Undecided(tasks[j])}} ELSE {}
    OBVIOUS
  <2>3. PICK next : next = IF StageComplete(n) THEN [pc |-> "advancing", stage |-> n, inst |-> t.inst, open |-> open] ELSE Idle
    OBVIOUS
  <2>4. /\ t.pc = "saved" /\ t.verb = "APPROVED" /\ t # Idle
        /\ call' = [call EXCEPT ![c] = next] /\ (Undisturbed' => Undisturbed)
    BY <1>1, <1>7, <2>1, <2>2, <2>3 DEF CountApprovals, At, Await, Answer, Idle, Undisturbed
  <2>5. /\ StageComplete(n) => next.pc = "advancing" /\ next.stage = n /\ next.open = open
        /\ ~ StageComplete(n) => next = Idle /\ next.pc = "idle"
    BY <2>3 DEF Idle
  <2>6. t.own \in OfStage(n) /\ n \in DOMAIN stages
    <3>1. t.own \in DOMAIN tasks /\ n = tasks[t.own].stage
      BY <1>4, <2>1, <2>4 DEF KnownCall
    <3> QED BY <3>1, TaskTerms DEF OfStage
  <2>7. ASSUME Undisturbed, StagesAt(t), RequestAt(t) PROVE StagesAt(next)' /\ RequestAt(next)'
    <3>1. n = instance.stage /\ tasks[t.own].status = "APPROVED" /\ instance.status = "RUNNING"
      BY <1>4, <2>1, <2>4, <2>7 DEF RequestAt, AsStored, Undisturbed
    <3>2. stages[n].mode \in {"ALL", "ANY"}
      BY <2>6, TaskTerms DEF Mode
    <3>3. CASE StageComplete(n)
      <4>1. \A i \in OfStage(n) : IF stages[n].mode = "ALL" THEN tasks[i].status = "APPROVED"
                                 ELSE Undecided(tasks[i]) => \E o \in open : o[1] = i
        <5>1. CASE stages[n].mode = "ALL"
          BY <3>3, <5>1 DEF StageComplete, Approved
        <5>2. CASE stages[n].mode = "ANY"
          <6> SUFFICES ASSUME NEW i \in OfStage(n), Undecided(tasks[i]) PROVE \E o \in open : o[1] = i
            BY <5>2
          <6>1. <<i, tasks[i]>> \in open
            BY <2>2, <5>2
          <6> QED BY <6>1
        <5> QED BY <3>2, <5>1, <5>2
      <4>2. \A o \in open : tasks[o[1]].stage = n
        BY <2>2 DEF OfStage
      <4>3. RequestAt(next) /\ next.pc = "advancing"
        BY <2>5, <3>1, <3>3, <4>1, <4>2 DEF RequestAt
      <4> QED BY <1>2, <2>4, <2>7, <4>3, OrderStays
    <3>4. CASE ~ StageComplete(n)
      <4>1. stages[n].mode = "ALL"
        BY <2>6, <3>1, <3>2, <3>4 DEF StageComplete, Approved
      <4>2. PICK i \in OfStage(n) : tasks[i].status # "APPROVED"
        BY <3>4, <4>1 DEF StageComplete, Approved
      <4>3. Waiting
        BY <2>4, <2>7, <3>1, <4>1, <4>2 DEF StagesAt, Waiting, Undecided
      <4>4. RequestAt(next) /\ next.pc = "idle"
        BY <1>3, <2>5, <3>4
      <4> QED BY <1>2, <2>4, <2>7, <4>3, <4>4, OrderStays
    <3> QED BY <3>3, <3>4
  <2> QED BY <1>1, <2>4, <2>7, InOrderStep
<1>8. CASE ListPending(c)
  <2>1. PICK open : open = {<<i, tasks[i]>> : i \in {j \in DOMAIN tasks : tasks[j].status = "PENDING"}}
    OBVIOUS
  <2>2. PICK next : next = [pc |-> "escalating", open |-> open]
    OBVIOUS
  <2>3. /\ t = Idle /\ t.pc = "idle" /\ next.pc = "escalating" /\ next # Idle
        /\ call' = [call EXCEPT ![c] = next] /\ (Undisturbed' => Undisturbed)
    <3>1. t = Idle /\ Arrive(c, {"instance"}, next)
      BY <1>1, <1>8, <2>1, <2>2 DEF ListPending, Arrive
    <3>2. call' = [call EXCEPT ![c] = next] /\ (Undisturbed' => Undisturbed)
      BY <3>1 DEF Arrive, Undisturbed
    <3>3. next.pc = "escalating" /\ Idle.pc = "idle"
      BY <2>2 DEF Idle
    <3> QED BY <3>1, <3>2, <3>3
  <2>4. ASSUME StagesAt(t) PROVE StagesAt(next)' /\ RequestAt(next)'
    <3>1. RequestAt(next) /\ (instance.status = "RUNNING" => Waiting)
      BY <2>3, <2>4 DEF RequestAt, StagesAt
    <3> QED BY <1>2, <2>3, <2>4, <3>1, OrderStays
  <2> QED BY <1>1, <2>3, <2>4, InOrderStep
<1>9. CASE EndSweep(c)
  <2>1. /\ t.pc = "escalating" /\ t # Idle /\ call' = [call EXCEPT ![c] = Idle] /\ (Undisturbed' => Undisturbed)
    BY <1>1, <1>9 DEF EndSweep, At, Answer, Idle, Undisturbed
  <2>2. Idle.pc = "idle"
    BY DEF Idle
  <2>3. ASSUME StagesAt(t) PROVE StagesAt(Idle) /\ (instance.status = "RUNNING" => Waiting)
    BY <2>1, <2>2, <2>3 DEF StagesAt
  <2>4. ASSUME StagesAt(t) PROVE StagesAt(Idle)' /\ RequestAt(Idle)'
    BY <1>2, <1>3, <2>2, <2>3, <2>4, OrderStays
  <2> QED BY <1>1, <2>1, <2>4, InOrderStep
<1>10. CASE PerishInProcess(c)
  <2>1. faults' # 0
    BY <1>4, <1>10 DEF PerishInProcess, Perish
  <2> QED BY <2>1 DEF InOrder, Undisturbed
<1> QED BY <1>5, <1>6, <1>7, <1>8, <1>9, <1>10

\* An open task is overwritten.
LEMMA TaskRewritten ==
  ASSUME Explained, NEW t, NEW next, StagesAt(t), t.pc \notin {"creating", "saved"}, next.pc # "creating",
         NEW i \in DOMAIN tasks, NEW task, Undecided(tasks[i]),
         task.stage = tasks[i].stage, task.original = tasks[i].original,
         tasks' = [tasks EXCEPT ![i] = task], UNCHANGED <<stages, instance>>,
         \/ task.status \in {"PENDING", "ESCALATED", "APPROVED"} \/ stages[instance.stage].mode # "ALL"
         \/ next.pc = "saved" /\ next.verb = "REJECTED",
         Undecided(task) \/ next.pc \in {"saved", "advancing"}
  PROVE  StagesAt(next)' /\ (\A n : OfStage(n)' = OfStage(n)) /\ tasks'[i] = task /\ \A j \in DOMAIN tasks : j # i => tasks'[j] = tasks[j]
<1>1. tasks[i].stage = instance.stage /\ instance.stage \in DOMAIN stages /\ instance.status \notin {"absent", "APPROVED"}
  BY OpenTask
<1>2. DOMAIN tasks = 1 .. Len(tasks) /\ Len(tasks) \in Nat /\ \A n \in DOMAIN stages : Len(stages[n].approvers) \in Nat
  BY TaskTerms
<1>3. tasks'[i] = task /\ DOMAIN tasks' = DOMAIN tasks /\ \A j \in DOMAIN tasks : j # i => tasks'[j] = tasks[j]
  BY DEF Explained, ProcessTypeOK
<1>4. \A j \in DOMAIN tasks : tasks'[j].stage = tasks[j].stage /\ tasks'[j].original = tasks[j].original
  BY <1>3
<1>5. \A n : OfStage(n)' = OfStage(n)
  BY <1>3, <1>4 DEF OfStage
<1>6. ASSUME NEW n \in DOMAIN stages, Asked(n) PROVE Asked(n)'
  <2>1. PICK s \in Nat : Laid(n, s, Len(stages[n].approvers))
    BY <1>6 DEF Asked
  <2>2. \A k \in 1 .. Len(stages[n].approvers) : s + k \in OfStage(n)
    BY <1>2, <2>1 DEF Laid
  <2>3. \A k \in 1 .. Len(stages[n].approvers) : tasks'[s + k].original = tasks[s + k].original
    BY <1>4, <2>2 DEF OfStage
  <2>4. Laid(n, s, Len(stages[n].approvers))'
    BY <1>5, <2>1, <2>3 DEF Laid
  <2> QED BY <2>1, <2>4 DEF Asked
<1>7. ASSUME NEW n \in DOMAIN stages, Closed(n), n # instance.stage PROVE Closed(n)'
  <2>1. i \notin OfStage(n)
    BY <1>1, <1>7 DEF OfStage
  <2>2. \A j \in OfStage(n) : tasks'[j] = tasks[j]
    BY <1>3, <2>1 DEF OfStage
  <2> QED BY <1>5, <1>7, <2>2 DEF Closed
<1>8. Undecided(task) => Waiting'
  BY <1>1, <1>3, <1>5 DEF Waiting, OfStage
<1>9. \A n \in DOMAIN stages : ~ (n < n)
  BY TaskTerms
<1>10. ASSUME NEW n \in DOMAIN stages
       PROVE  /\ instance.status = "absent" \/ n > instance.stage => OfStage(n)' = {}
              /\ n < instance.stage \/ n = instance.stage => Asked(n)'
              /\ n < instance.stage => Closed(n)'
  BY <1>1, <1>5, <1>6, <1>7, <1>9 DEF StagesAt
<1>11. ASSUME instance.status = "RUNNING", stages[instance.stage].mode = "ALL", ~(next.pc = "saved" /\ next.verb = "REJECTED")
       PROVE  \A j \in OfStage(instance.stage) : tasks'[j].status \in {"PENDING", "ESCALATED", "APPROVED"}
  BY <1>3, <1>11 DEF StagesAt, OfStage
<1>12. StagesAt(next)'
  BY <1>1, <1>5, <1>8, <1>10, <1>11 DEF StagesAt
<1> QED BY <1>3, <1>5, <1>12

LEMMA DecidingInOrder ==
  ASSUME Explained, Current, Current', InOrder, NEW c \in Call, SaveTask(c) \/ SkipTask(c) \/ Escalate(c)
  PROVE  InOrder'
<1>1. PICK t : t = call[c]
  OBVIOUS
<1>2. KnownCall(t) /\ (disjoint => AsStored(t)) /\ UNCHANGED <<stages, instance>>
  BY <1>1 DEF Explained, HeldExplained, Current, SaveTask, SkipTask, Escalate
<1>3. CASE SaveTask(c)
  <2>1. /\ t \in [pc : {"loaded", "saved"}, own : Nat, task : Task, verb : Verdict, inst : InstanceType]
        /\ t.pc = "loaded" /\ t # Idle /\ t.own \in DOMAIN tasks
    BY <1>1, <1>2, <1>3, ProcessHeldTypes DEF SaveTask, At, Explained, KnownCall, Idle
  <2>2. PICK next, task : next = [t EXCEPT !.pc = "saved"] /\ task = [t.task EXCEPT !.status = t.verb]
    OBVIOUS
  <2>3. /\ next.pc = "saved" /\ next.own = t.own /\ next.task = t.task /\ next.verb = t.verb /\ next # Idle
        /\ task.status = t.verb /\ task.stage = t.task.stage /\ task.original = t.task.original
        /\ t.verb \in {"APPROVED", "REJECTED"}
    BY <2>1, <2>2 DEF Task, Verdict, Idle
  <2>4. tasks' = [tasks EXCEPT ![t.own] = task] /\ Await(c, next)
    BY <1>1, <1>3, <2>2 DEF SaveTask
  <2>5. call' = [call EXCEPT ![c] = next] /\ (Undisturbed' => Undisturbed)
    BY <2>4 DEF Await, Undisturbed
  <2>6. ASSUME Undisturbed, StagesAt(t), RequestAt(t) PROVE StagesAt(next)' /\ RequestAt(next)'
    <3>1. t.task = tasks[t.own] /\ Undecided(tasks[t.own]) /\ t.task.stage = instance.stage
      BY <1>2, <2>1, <2>6 DEF AsStored, Undisturbed, RequestAt
    <3>2. StagesAt(next)' /\ tasks'[t.own] = task
      BY <1>2, <2>1, <2>3, <2>4, <2>6, <3>1, TaskRewritten
    <3>3. RequestAt(next)'
      BY <1>2, <2>3, <3>1, <3>2 DEF RequestAt
    <3> QED BY <3>2, <3>3
  <2> QED BY <1>1, <2>1, <2>5, <2>6, InOrderStep
<1>4. CASE SkipTask(c)
  <2>1. /\ t \in [pc : {"advancing"}, stage : Nat, inst : InstanceType, open : SUBSET (Nat \X Task)]
        /\ t.pc = "advancing" /\ t # Idle
    BY <1>1, <1>4, ProcessHeldTypes DEF SkipTask, At, Explained, Idle
  <2>2. PICK o \in t.open : /\ tasks' = [tasks EXCEPT ![o[1]] = [o[2] EXCEPT !.status = "SKIPPED"]]
                            /\ Await(c, [t EXCEPT !.open = @ \ {o}])
    BY <1>1, <1>4 DEF SkipTask
  <2>3. PICK i, task : i = o[1] /\ task = [o[2] EXCEPT !.status = "SKIPPED"]
    OBVIOUS
  <2>4. PICK next : next = [t EXCEPT !.open = @ \ {o}]
    OBVIOUS
  <2>5. /\ next.pc = "advancing" /\ next.stage = t.stage /\ next.open = t.open \ {o} /\ next # Idle
        /\ i \in DOMAIN tasks /\ task.stage = tasks[i].stage
        /\ task.status = "SKIPPED" /\ task.original = o[2].original
    <3>1. o \in Nat \X Task /\ i \in DOMAIN tasks /\ o[2].stage = tasks[i].stage
      BY <1>2, <2>1, <2>3 DEF KnownCall
    <3>2. next.pc = "advancing" /\ next.stage = t.stage /\ next.open = t.open \ {o}
      BY <2>1, <2>4
    <3>3. task.status = "SKIPPED" /\ task.original = o[2].original /\ task.stage = o[2].stage
      BY <2>3, <3>1 DEF Task
    <3> QED BY <3>1, <3>2, <3>3 DEF Idle
  <2>6. tasks' = [tasks EXCEPT ![i] = task] /\ Await(c, next)
    BY <2>2, <2>3, <2>4
  <2>7. call' = [call EXCEPT ![c] = next] /\ (Undisturbed' => Undisturbed)
    BY <2>6 DEF Await, Undisturbed
  <2>8. ASSUME Undisturbed, StagesAt(t), RequestAt(t) PROVE StagesAt(next)' /\ RequestAt(next)'
    <3>1. o[2] = tasks[i] /\ Undecided(tasks[i])
      BY <1>2, <2>1, <2>3, <2>8 DEF AsStored, Undisturbed
    <3>2. /\ t.stage = instance.stage /\ tasks[i].stage = t.stage /\ i \in OfStage(t.stage)
          /\ \A p \in t.open : tasks[p[1]].stage = t.stage
      BY <2>1, <2>3, <2>5, <2>8 DEF RequestAt, OfStage
    <3>3. stages[t.stage].mode # "ALL"
      BY <2>1, <2>8, <3>1, <3>2 DEF RequestAt, Undecided
    <3>4. /\ StagesAt(next)' /\ tasks'[i] = task /\ (\A n : OfStage(n)' = OfStage(n))
          /\ \A j \in DOMAIN tasks : j # i => tasks'[j] = tasks[j]
      BY <1>2, <2>1, <2>5, <2>6, <2>8, <3>1, <3>2, <3>3, TaskRewritten
    <3>5. \A p \in next.open : p \in t.open /\ p[1] \in DOMAIN tasks
      BY <1>2, <2>1, <2>5 DEF KnownCall
    <3>6. \A p \in next.open : tasks'[p[1]].stage = next.stage
      BY <2>5, <3>2, <3>4, <3>5
    <3>7. ASSUME NEW j \in OfStage(t.stage), Undecided(tasks'[j]) PROVE \E p \in next.open : p[1] = j
      <4>1. j # i /\ Undecided(tasks[j])
        BY <2>5, <3>4, <3>7 DEF Undecided, OfStage
      <4>2. PICK p \in t.open : p[1] = j
        BY <2>1, <2>8, <3>3, <4>1 DEF RequestAt
      <4> QED BY <2>3, <2>5, <4>1, <4>2
    <3>8. RequestAt(next)'
      BY <1>2, <2>5, <3>2, <3>3, <3>4, <3>6, <3>7 DEF RequestAt
    <3> QED BY <3>4, <3>8
  <2> QED BY <1>1, <2>1, <2>7, <2>8, InOrderStep
<1>5. CASE Escalate(c)
  <2>1. /\ t \in [pc : {"escalating"}, open : SUBSET (Nat \X Task)]
        /\ t.pc = "escalating" /\ t # Idle
    <3>1. t.pc = "escalating"
      BY <1>1, <1>5 DEF Escalate, At
    <3> QED BY <1>1, <3>1, ProcessHeldTypes DEF Explained, Idle
  <2>2. PICK o \in t.open : /\ tasks' = [tasks EXCEPT ![o[1]] = [o[2] EXCEPT !.status = "ESCALATED",
                                                                             !.assigned = stages[o[2].stage].escalateTo]]
                            /\ Await(c, [t EXCEPT !.open = @ \ {o}])
    BY <1>1, <1>5 DEF Escalate
  <2>3. PICK i, task : i = o[1] /\ task = [o[2] EXCEPT !.status = "ESCALATED", !.assigned = stages[o[2].stage].escalateTo]
    OBVIOUS
  <2>4. PICK next : next = [t EXCEPT !.open = @ \ {o}]
    OBVIOUS
  <2>5. /\ next.pc = "escalating" /\ next # Idle
        /\ i \in DOMAIN tasks /\ task.stage = tasks[i].stage
        /\ task.status = "ESCALATED" /\ task.original = o[2].original
    <3>1. o \in Nat \X Task /\ i \in DOMAIN tasks /\ o[2].stage = tasks[i].stage
      BY <1>2, <2>1, <2>3 DEF KnownCall
    <3>2. next.pc = "escalating"
      BY <2>1, <2>4
    <3>3. task.status = "ESCALATED" /\ task.original = o[2].original /\ task.stage = o[2].stage
      BY <2>3, <3>1 DEF Task
    <3> QED BY <3>1, <3>2, <3>3 DEF Idle
  <2>6. tasks' = [tasks EXCEPT ![i] = task] /\ Await(c, next)
    BY <2>2, <2>3, <2>4
  <2>7. call' = [call EXCEPT ![c] = next] /\ (Undisturbed' => Undisturbed)
    BY <2>6 DEF Await, Undisturbed
  <2>8. ASSUME Undisturbed, StagesAt(t) PROVE StagesAt(next)' /\ RequestAt(next)'
    <3>1. o[2] = tasks[i] /\ Undecided(tasks[i])
      BY <1>2, <2>1, <2>3, <2>8 DEF AsStored, Undisturbed
    <3>2. Undecided(task)
      BY <2>5 DEF Undecided
    <3>3. StagesAt(next)'
      BY <1>2, <2>1, <2>5, <2>6, <2>8, <3>1, <3>2, TaskRewritten
    <3> QED BY <2>5, <3>3 DEF RequestAt
  <2> QED BY <1>1, <2>1, <2>7, <2>8, InOrderStep
<1> QED BY <1>3, <1>4, <1>5

\* Steps that overwrite the instance.
LEMMA InstanceInOrder ==
  ASSUME Explained, Current, Current', InOrder, NEW c \in Call, StartProcess(c) \/ SaveRejection(c) \/ Advance(c)
  PROVE  InOrder'
<1>1. PICK t : t = call[c]
  OBVIOUS
<1>2. KnownCall(t) /\ (disjoint => AsStored(t)) /\ UNCHANGED <<stages, tasks>>
  BY <1>1 DEF Explained, HeldExplained, Current, StartProcess, SaveRejection, Advance
<1>3. \A n : OfStage(n)' = OfStage(n) /\ (Asked(n) => Asked(n)') /\ (Closed(n) => Closed(n)')
  BY <1>2 DEF OfStage, Asked, Laid, Closed
<1>4. DOMAIN stages = 1 .. Len(stages) /\ Len(stages) \in Nat /\ Len(tasks) \in Nat /\ instance.stage \in Nat
  BY TaskTerms
<1>5. Idle.pc = "idle"
  BY DEF Idle
<1>6. 1 \in DOMAIN stages
  BY StageTypes DEF Explained, ProcessTypeOK
\* The next stage is gone on to.
<1>7. ASSUME NEW n \in DOMAIN stages, NEW next, next.pc = "creating", next.stage = n, next.k = 1,
             instance'.status = "RUNNING", instance'.stage = n, OfStage(n) = {},
             \A m \in DOMAIN stages : /\ m > n => OfStage(m) = {}
                                      /\ m < n => Asked(m) /\ Closed(m)
      PROVE  StagesAt(next)' /\ RequestAt(next)'
  <2>1. PICK s \in Nat : s = Len(tasks)
    BY <1>4
  <2>2. Laid(n, s, 0)'
    <3>1. (s + 1) .. (s + 0) = {} /\ 1 .. 0 = {}
      OBVIOUS
    <3> QED BY <1>3, <1>7, <3>1 DEF Laid
  <2>3. RequestAt(next)'
    <3>1. s + next.k = Len(tasks)' + 1 /\ next.k - 1 = 0
      BY <1>2, <1>7, <2>1
    <3> QED BY <1>7, <2>2, <3>1 DEF RequestAt
  <2>4. StagesAt(next)'
    BY <1>2, <1>3, <1>4, <1>7 DEF StagesAt
  <2> QED BY <2>3, <2>4
<1>8. CASE StartProcess(c)
  <2>1. PICK next : next = [pc |-> "creating", stage |-> 1, k |-> 1]
    OBVIOUS
  <2>2. t = Idle /\ instance.status = "absent" /\ instance' = [status |-> "RUNNING", stage |-> 1] /\ Arrive(c, {"instance"}, next)
    BY <1>1, <1>8, <2>1 DEF StartProcess, Arrive
  <2>3. call' = [call EXCEPT ![c] = next] /\ (Undisturbed' => Undisturbed)
    BY <2>2 DEF Arrive, Undisturbed
  <2>4. next.pc = "creating" /\ next.stage = 1 /\ next.k = 1 /\ next # Idle
    BY <2>1 DEF Idle
  <2>5. ASSUME StagesAt(t) PROVE StagesAt(next)' /\ RequestAt(next)'
    <3>1. \A n \in DOMAIN stages : OfStage(n) = {}
      BY <2>2, <2>5 DEF StagesAt
    <3> QED BY <1>4, <1>6, <1>7, <2>2, <2>4, <3>1
  <2> QED BY <1>1, <2>3, <2>4, <2>5, InOrderStep
<1>9. CASE SaveRejection(c)
  <2>1. t.pc = "saved" /\ t # Idle /\ instance' = [t.inst EXCEPT !.status = "REJECTED"] /\ Answer(c)
    BY <1>1, <1>5, <1>9 DEF SaveRejection, At
  <2>2. call' = [call EXCEPT ![c] = Idle] /\ (Undisturbed' => Undisturbed)
    BY <2>1 DEF Answer, Undisturbed
  <2>3. ASSUME Undisturbed, StagesAt(t) PROVE StagesAt(Idle)' /\ RequestAt(Idle)'
    <3>1. t.inst = instance /\ instance.status = "RUNNING"
      BY <1>2, <2>1, <2>3 DEF AsStored, Undisturbed
    <3>2. instance'.status = "REJECTED" /\ instance'.stage = instance.stage
      BY <2>1, <3>1 DEF Explained, ProcessTypeOK, InstanceType
    <3>3. StagesAt(Idle)'
      BY <1>2, <1>3, <2>1, <2>3, <3>1, <3>2 DEF StagesAt
    <3> QED BY <1>5, <3>3 DEF RequestAt
  <2> QED BY <1>1, <2>1, <2>2, <2>3, InOrderStep
<1>10. CASE Advance(c)
  <2>1. PICK next : next = [pc |-> "creating", stage |-> t.stage + 1, k |-> 1]
    OBVIOUS
  <2>2. /\ t.pc = "advancing" /\ t # Idle /\ t.open = {}
        /\ \/ /\ t.stage + 1 > Len(stages)
              /\ instance' = [t.inst EXCEPT !.status = "APPROVED"] /\ Answer(c)
           \/ /\ ~ (t.stage + 1 > Len(stages))
              /\ instance' = [t.inst EXCEPT !.stage = t.stage + 1] /\ Await(c, next)
    BY <1>1, <1>5, <1>10, <2>1 DEF Advance, At
  <2>3. next.pc = "creating" /\ next.stage = t.stage + 1 /\ next.k = 1 /\ next # Idle
    BY <1>5, <2>1
  <2>4. ASSUME Undisturbed, StagesAt(t), RequestAt(t)
        PROVE  /\ t.stage = instance.stage /\ t.inst = instance /\ instance.status = "RUNNING" /\ instance.stage \in DOMAIN stages
               /\ \A m \in DOMAIN stages : /\ m > instance.stage => OfStage(m) = {}
                                           /\ m < instance.stage \/ m = instance.stage => Asked(m) /\ Closed(m)
    <3>1. t.inst = instance /\ instance.status = "RUNNING"
      BY <1>2, <2>2, <2>4 DEF AsStored, Undisturbed
    <3>2. t.stage = instance.stage /\ instance.stage \in DOMAIN stages
      BY <2>2, <2>4, <3>1 DEF RequestAt, StagesAt
    <3>3. Closed(instance.stage)
      <4>1. ASSUME NEW i \in OfStage(instance.stage)
            PROVE  ~ Undecided(tasks[i]) /\ (stages[instance.stage].mode = "ALL" => tasks[i].status = "APPROVED")
        BY <2>2, <2>4, <3>2 DEF RequestAt, Undecided
      <4> QED BY <4>1 DEF Closed
    <3>4. \A m \in DOMAIN stages : /\ m > instance.stage => OfStage(m) = {}
                                   /\ m < instance.stage => Asked(m) /\ Closed(m)
                                   /\ m = instance.stage => Asked(m)
      BY <2>2, <2>4, <3>1 DEF StagesAt
    <3> QED BY <3>1, <3>2, <3>3, <3>4
  <2>5. CASE t.stage + 1 > Len(stages) /\ instance' = [t.inst EXCEPT !.status = "APPROVED"] /\ Answer(c)
    <3>1. call' = [call EXCEPT ![c] = Idle] /\ (Undisturbed' => Undisturbed)
      BY <2>5 DEF Answer, Undisturbed
    <3>2. ASSUME Undisturbed, StagesAt(t), RequestAt(t) PROVE StagesAt(Idle)' /\ RequestAt(Idle)'
      <4>1. instance'.status = "APPROVED" /\ instance'.stage = instance.stage
        BY <2>4, <2>5, <3>2 DEF Explained, ProcessTypeOK, InstanceType
      <4>2. /\ instance.stage = Len(stages) /\ instance.stage \in DOMAIN stages
            /\ \A m \in DOMAIN stages : ~(m > instance.stage) /\ Asked(m) /\ Closed(m)
        BY <1>4, <2>4, <2>5, <3>2
      <4>3. StagesAt(Idle)'
        BY <1>2, <1>3, <4>1, <4>2 DEF StagesAt
      <4> QED BY <1>5, <4>3 DEF RequestAt
    <3> QED BY <1>1, <2>2, <3>1, <3>2, InOrderStep
  <2>6. CASE ~ (t.stage + 1 > Len(stages)) /\ instance' = [t.inst EXCEPT !.stage = t.stage + 1] /\ Await(c, next)
    <3>1. call' = [call EXCEPT ![c] = next] /\ (Undisturbed' => Undisturbed)
      BY <2>6 DEF Await, Undisturbed
    <3>2. ASSUME Undisturbed, StagesAt(t), RequestAt(t) PROVE StagesAt(next)' /\ RequestAt(next)'
      <4>1. instance'.status = "RUNNING" /\ instance'.stage = instance.stage + 1
        BY <2>4, <2>6, <3>2 DEF Explained, ProcessTypeOK, InstanceType
      <4>2. PICK n : n = instance.stage + 1
        OBVIOUS
      <4>3. /\ n \in DOMAIN stages /\ OfStage(n) = {}
            /\ \A m \in DOMAIN stages : (m > n => OfStage(m) = {}) /\ (m < n => Asked(m) /\ Closed(m))
        BY <1>4, <2>4, <2>6, <3>2, <4>2
      <4> QED BY <1>7, <2>3, <2>4, <3>2, <4>1, <4>2, <4>3
    <3> QED BY <1>1, <2>2, <3>1, <3>2, InOrderStep
  <2> QED BY <2>2, <2>5, <2>6
<1> QED BY <1>8, <1>9, <1>10

LEMMA CreatingInOrder ==
  ASSUME Explained, Current, Current', InOrder, NEW c \in Call, CreateTask(c)
  PROVE  InOrder'
<1>1. PICK t : t = call[c]
  OBVIOUS
<1>2. KnownCall(t) /\ UNCHANGED <<stages, instance>>
  BY <1>1 DEF Explained, HeldExplained, CreateTask
<1>3. t \in [pc : {"creating"}, stage : Nat, k : Nat] /\ t.pc = "creating" /\ t # Idle
  <2>1. t.pc = "creating"
    BY <1>1 DEF CreateTask, At
  <2> QED BY <1>1, <2>1, ProcessHeldTypes DEF Explained, Idle
<1>4. PICK n \in Nat, k \in Nat : n = t.stage /\ k = t.k
  BY <1>3
<1>5. PICK more : more = [t EXCEPT !.k = k + 1]
  OBVIOUS
<1>6. PICK next : next = IF k < Len(stages[n].approvers) THEN more ELSE Idle
  OBVIOUS
<1>7. PICK a : tasks' = Append(tasks, [stage |-> n, original |-> stages[n].approvers[k], assigned |-> a, status |-> "PENDING"])
  BY <1>1, <1>4 DEF CreateTask
<1>8. call' = [call EXCEPT ![c] = next] /\ (Undisturbed' => Undisturbed)
  <2>1. IF k < Len(stages[n].approvers) THEN Await(c, more) ELSE Answer(c)
    BY <1>1, <1>4, <1>5 DEF CreateTask
  <2> QED BY <1>6, <2>1 DEF Await, Answer, Undisturbed
<1>9. PICK task : task = [stage |-> n, original |-> stages[n].approvers[k], assigned |-> a, status |-> "PENDING"]
  OBVIOUS
<1>10. PICK l \in Nat : l = Len(tasks) + 1
  BY TaskTerms
<1>11. /\ DOMAIN tasks' = DOMAIN tasks \union {l} /\ Len(tasks') = l /\ l \notin DOMAIN tasks
       /\ tasks'[l].stage = n /\ tasks'[l].original = stages[n].approvers[k] /\ tasks'[l].status = "PENDING"
       /\ \A i \in DOMAIN tasks : tasks'[i] = tasks[i]
  <2>1. tasks \in Seq(Task) /\ tasks' = Append(tasks, task)
    BY <1>7, <1>9 DEF Explained, ProcessTypeOK
  <2>2. task.stage = n /\ task.original = stages[n].approvers[k] /\ task.status = "PENDING"
    BY <1>9
  <2>3. DOMAIN tasks' = 1 .. l /\ Len(tasks') = l /\ tasks'[l] = task /\ \A i \in DOMAIN tasks : tasks'[i] = tasks[i]
    BY <1>10, <2>1
  <2>4. DOMAIN tasks = 1 .. (l - 1)
    BY <1>10, TaskTerms
  <2>5. 1 .. l = 1 .. (l - 1) \union {l} /\ l \notin 1 .. (l - 1)
    <3>1. l >= 1
      BY <1>10, TaskTerms
    <3> QED BY <3>1
  <2> QED BY <2>2, <2>3, <2>4, <2>5
<1>12. OfStage(n)' = OfStage(n) \union {l} /\ \A m : m # n => OfStage(m)' = OfStage(m)
  BY <1>11 DEF OfStage
<1>13. n \in DOMAIN stages /\ k \in 1 .. Len(stages[n].approvers) /\ Len(stages[n].approvers) \in Nat
  BY <1>2, <1>3, <1>4, TaskTerms DEF KnownCall
<1>14. k < Len(stages[n].approvers) => next.pc = "creating" /\ next.stage = n /\ next.k = k + 1
  BY <1>3, <1>4, <1>5, <1>6
<1>15. ~ (k < Len(stages[n].approvers)) => next = Idle /\ next.pc = "idle" /\ k = Len(stages[n].approvers)
  BY <1>6, <1>13 DEF Idle
<1>16. ASSUME StagesAt(t), RequestAt(t) PROVE StagesAt(next)' /\ RequestAt(next)'
  <2>1. instance.status = "RUNNING" /\ n = instance.stage
    BY <1>3, <1>4, <1>16 DEF RequestAt
  <2>2. PICK s \in Nat : s + k = l /\ Laid(n, s, k - 1)
    BY <1>3, <1>4, <1>10, <1>16 DEF RequestAt
  <2>3. OfStage(n)' = (s + 1) .. (s + k)
    <3>1. OfStage(n) = (s + 1) .. (s + (k - 1))
      BY <2>2 DEF Laid
    <3>2. (s + 1) .. (s + k) = (s + 1) .. (s + (k - 1)) \union {s + k}
      BY <1>13
    <3> QED BY <1>12, <2>2, <3>1, <3>2
  <2>4. ASSUME NEW j \in 1 .. k PROVE tasks'[s + j].original = stages[n].approvers[j]
    <3>1. CASE j = k
      BY <1>11, <2>2, <3>1
    <3>2. CASE j # k
      <4>1. j \in 1 .. (k - 1) /\ s + j \in (s + 1) .. (s + (k - 1))
        BY <1>13, <3>2
      <4>2. s + j \in DOMAIN tasks
        BY <2>2, <4>1 DEF Laid, OfStage
      <4> QED BY <1>11, <2>2, <4>1, <4>2 DEF Laid
    <3> QED BY <3>1, <3>2
  <2>5. Laid(n, s, k)'
    BY <1>2, <2>3, <2>4 DEF Laid
  <2>6. Waiting'
    BY <1>2, <1>11, <1>12, <2>1 DEF Waiting, Undecided
  <2>7. ASSUME NEW m \in DOMAIN stages, m # n
        PROVE  OfStage(m)' = OfStage(m) /\ (Asked(m) => Asked(m)') /\ (Closed(m) => Closed(m)')
    <3>1. OfStage(m)' = OfStage(m) /\ \A i \in OfStage(m) : tasks'[i] = tasks[i]
      BY <1>11, <1>12, <2>7 DEF OfStage
    <3>2. ASSUME Asked(m) PROVE Asked(m)'
      <4>1. PICK r \in Nat : Laid(m, r, Len(stages[m].approvers))
        BY <3>2 DEF Asked
      <4>2. \A j \in 1 .. Len(stages[m].approvers) : r + j \in OfStage(m)
        BY <4>1, TaskTerms DEF Laid
      <4>3. \A j \in 1 .. Len(stages[m].approvers) : tasks'[r + j] = tasks[r + j]
        BY <3>1, <4>2
      <4>4. Laid(m, r, Len(stages[m].approvers))'
        BY <1>2, <3>1, <4>1, <4>3 DEF Laid
      <4> QED BY <1>2, <4>4 DEF Asked
    <3>3. Closed(m) => Closed(m)'
      BY <1>2, <3>1 DEF Closed
    <3> QED BY <3>1, <3>2, <3>3
  <2>8. next.pc # "creating" => Asked(n)'
    BY <1>2, <1>14, <1>15, <2>5 DEF Asked
  <2>9. stages[n].mode = "ALL" => \A i \in OfStage(n)' : tasks'[i].status \in {"PENDING", "ESCALATED", "APPROVED"}
    BY <1>3, <1>11, <1>12, <1>16, <2>1 DEF StagesAt, OfStage
  <2>10. ASSUME NEW m \in DOMAIN stages
         PROVE  /\ m > instance.stage => OfStage(m)' = {}
                /\ m < instance.stage => Asked(m)' /\ Closed(m)'
                /\ m = instance.stage /\ next.pc # "creating" => Asked(m)'
    <3>1. m \in Nat /\ n \in Nat
      BY TaskTerms
    <3> QED BY <1>16, <2>1, <2>7, <2>8, <3>1 DEF StagesAt
  <2>11. StagesAt(next)'
    BY <1>2, <1>13, <2>1, <2>6, <2>9, <2>10 DEF StagesAt
  <2>12. RequestAt(next)'
    <3>1. CASE k < Len(stages[n].approvers)
      <4>1. s + next.k = Len(tasks') + 1 /\ next.k - 1 = k
        BY <1>11, <1>14, <2>2, <3>1
      <4> QED BY <1>2, <1>14, <2>1, <2>5, <3>1, <4>1 DEF RequestAt
    <3>2. CASE ~ (k < Len(stages[n].approvers))
      BY <1>15, <3>2 DEF RequestAt
    <3> QED BY <3>1, <3>2
  <2> QED BY <2>11, <2>12
<1> QED BY <1>1, <1>3, <1>8, <1>16, InOrderStep

LEMMA OrderKept ==
  ASSUME Explained, Current, Current', InOrder, [ProcessNext]_<<processVars, requestVars>>
  PROVE  InOrder'
<1>1. ASSUME UNCHANGED <<stages, instance, tasks, requestVars>> PROVE InOrder'
  <2>1. /\ UNCHANGED <<stages, instance, tasks>>
        /\ call' = call /\ Undisturbed' = Undisturbed /\ Quiet' = Quiet
    BY <1>1 DEF requestVars, Undisturbed, Quiet
  <2>2. /\ \A n : OfStage(n)' = OfStage(n) /\ Asked(n)' = Asked(n) /\ Closed(n)' = Closed(n)
        /\ Waiting' = Waiting /\ \A n, s, k : Laid(n, s, k)' = Laid(n, s, k)
    BY <2>1 DEF OfStage, Asked, Closed, Waiting, Laid
  <2>3. ASSUME NEW t PROVE StagesAt(t)' = StagesAt(t)
    BY <2>1, <2>2 DEF StagesAt
  <2>4. ASSUME NEW t PROVE RequestAt(t)' = RequestAt(t)
    BY <2>1, <2>2 DEF RequestAt
  <2>5. StagesAt(Idle)' = StagesAt(Idle) /\ RequestAt(Idle)' = RequestAt(Idle)
    BY <2>3, <2>4
  <2>6. ASSUME NEW c \in Call PROVE StagesAt(call[c])' = StagesAt(call[c]) /\ RequestAt(call[c])' = RequestAt(call[c])
    <3>1. PICK t : t = call[c] /\ t = call'[c]
      BY <2>1
    <3>2. StagesAt(t)' = StagesAt(t) /\ RequestAt(t)' = RequestAt(t)
      BY <2>3, <2>4
    <3>3. (StagesAt(call[c])' = StagesAt(t)') /\ (RequestAt(call[c])' = RequestAt(t)')
      BY <3>1 DEF StagesAt, RequestAt
    <3>4. (StagesAt(call[c]) = StagesAt(t)) /\ (RequestAt(call[c]) = RequestAt(t))
      BY <3>1
    <3> QED BY <3>2, <3>3, <3>4
  <2> QED BY <2>1, <2>5, <2>6 DEF InOrder
<1>2. ASSUME NEW r \in Delegations, SetDelegation(r[1], r[2]) PROVE InOrder'
  BY <1>1, <1>2 DEF SetDelegation
<1>3. CASE UNCHANGED <<processVars, requestVars>>
  BY <1>1, <1>3 DEF processVars
<1> QED BY <1>2, <1>3, ReadingInOrder, DecidingInOrder, InstanceInOrder, CreatingInOrder DEF ProcessNext

LEMMA OrderStarts == ProcessInit => InOrder
<1> SUFFICES ASSUME ProcessInit PROVE InOrder
  OBVIOUS
<1>1. \A n : OfStage(n) = {}
  BY DEF ProcessInit, OfStage
<1>2. StagesAt(Idle) /\ RequestAt(Idle)
  BY <1>1 DEF ProcessInit, StagesAt, RequestAt, Idle
<1>3. Quiet
  BY DEF ProcessInit, RequestsInit, Quiet
<1> QED BY <1>2, <1>3 DEF InOrder, Quiet

\* The stages behind the instance were asked of their approvers and are closed.
LEMMA ServedAt ==
  ASSUME Explained, NEW t, StagesAt(t), RequestAt(t), NEW n \in DOMAIN stages, Past(n)
  PROVE  Asked(n) /\ Closed(n)
<1>1. n \in Nat /\ instance.stage \in Nat /\ n >= 1 /\ n <= Len(stages) /\ Len(stages) \in Nat
  BY TaskTerms
<1>2. ASSUME NEW i \in DOMAIN tasks, tasks[i].stage > n PROVE instance.stage > n /\ instance.status # "absent"
  <2>1. PICK m \in DOMAIN stages : m = tasks[i].stage /\ i \in OfStage(m) /\ m \in Nat /\ m > n
    BY <1>2, TaskTerms DEF OfStage
  <2>2. instance.status # "absent" /\ ~(m > instance.stage)
    BY <2>1 DEF StagesAt
  <2> QED BY <1>1, <2>1, <2>2
<1>3. instance.stage > n => instance.status # "absent"
  BY <1>1 DEF StagesAt
<1>4. CASE instance.status = "APPROVED"
  <2>1. n < instance.stage \/ n = instance.stage
    BY <1>1, <1>4 DEF StagesAt
  <2>2. t.pc # "creating"
    BY <1>4 DEF RequestAt
  <2> QED BY <1>4, <2>1, <2>2 DEF StagesAt
<1>5. CASE n < instance.stage /\ instance.status # "absent"
  BY <1>5 DEF StagesAt
<1> QED BY <1>1, <1>2, <1>3, <1>4, <1>5 DEF Past

\* A stage has at most one task for each of its approvers.
LEMMA FewTasks ==
  ASSUME Explained, NEW t, KnownCall(t), StagesAt(t), RequestAt(t), NEW n \in DOMAIN stages
  PROVE  Cardinality(OfStage(n)) <= Len(stages[n].approvers)
<1>1. n \in Nat /\ instance.stage \in Nat /\ Len(stages[n].approvers) \in Nat
  BY TaskTerms
<1>2. ASSUME NEW s \in Nat, NEW m \in Nat, m <= Len(stages[n].approvers), Laid(n, s, m)
      PROVE  Cardinality(OfStage(n)) <= Len(stages[n].approvers)
  <2>1. Cardinality((s + 1) .. (s + m)) = IF s + 1 > s + m THEN 0 ELSE (s + m) - (s + 1) + 1
    <3>1. s + 1 \in Int /\ s + m \in Int
      OBVIOUS
    <3> QED BY <3>1, FS_Interval
  <2>2. Cardinality((s + 1) .. (s + m)) <= m
    BY <2>1
  <2>3. OfStage(n) = (s + 1) .. (s + m)
    BY <1>2 DEF Laid
  <2>4. Cardinality(OfStage(n)) <= m
    BY <2>2, <2>3
  <2>5. Cardinality(OfStage(n)) \in Int
    BY <2>1, <2>3
  <2> QED BY <1>1, <1>2, <2>4, <2>5
<1>3. CASE instance.status = "absent" \/ n > instance.stage
  <2>1. OfStage(n) = {}
    BY <1>3 DEF StagesAt
  <2>2. Cardinality({}) = 0
    BY FS_EmptySet
  <2> QED BY <1>1, <2>1, <2>2
<1>4. CASE instance.status # "absent" /\ (n < instance.stage \/ (n = instance.stage /\ t.pc # "creating"))
  BY <1>1, <1>2, <1>4 DEF StagesAt, Asked
<1>5. CASE n = instance.stage /\ t.pc = "creating"
  <2>1. t.stage = n /\ t.k \in 1 .. Len(stages[n].approvers)
    BY <1>5, TaskTerms DEF KnownCall, RequestAt
  <2>2. PICK s \in Nat : Laid(n, s, t.k - 1)
    BY <1>5, <2>1 DEF RequestAt
  <2>3. t.k - 1 \in Nat /\ t.k - 1 <= Len(stages[n].approvers)
    BY <1>1, <2>1
  <2> QED BY <1>2, <2>2, <2>3
<1> QED BY <1>1, <1>3, <1>4, <1>5

LEMMA ServedInOrder == Explained /\ InOrder => StagesServed
<1> SUFFICES ASSUME Explained, InOrder, Undisturbed
             PROVE  /\ \A n \in DOMAIN stages :
                         /\ stages[n].mode = "ALL" /\ Past(n) =>
                              \A k \in DOMAIN stages[n].approvers :
                                \E i \in Approved(n) : tasks[i].original = stages[n].approvers[k]
                         /\ Cardinality(OfStage(n)) <= Len(stages[n].approvers)
                    /\ Quiet /\ instance.status = "RUNNING" => \E i \in OfStage(instance.stage) : Undecided(tasks[i])
  BY DEF StagesServed, EveryoneAsked, SomebodyToWaitFor
<1>1. PICK t : StagesAt(t) /\ RequestAt(t) /\ KnownCall(t) /\ (Quiet => t = Idle)
  <2>1. CASE Quiet
    BY <2>1, IdleExplained DEF InOrder
  <2>2. CASE ~ Quiet
    BY <2>2 DEF InOrder, Quiet, Explained, HeldExplained
  <2> QED BY <2>1, <2>2
<1>2. ASSUME NEW n \in DOMAIN stages, stages[n].mode = "ALL", Past(n), NEW k \in DOMAIN stages[n].approvers
      PROVE  \E i \in Approved(n) : tasks[i].original = stages[n].approvers[k]
  <2>1. Asked(n) /\ Closed(n)
    BY <1>1, <1>2, ServedAt
  <2>2. PICK s \in Nat : Laid(n, s, Len(stages[n].approvers))
    BY <2>1 DEF Asked
  <2>3. k \in 1 .. Len(stages[n].approvers) /\ Len(stages[n].approvers) \in Nat
    BY <1>2, TaskTerms
  <2>4. s + k \in OfStage(n) /\ tasks[s + k].original = stages[n].approvers[k]
    BY <2>2, <2>3 DEF Laid
  <2>5. s + k \in Approved(n)
    BY <1>2, <2>1, <2>4 DEF Approved, Closed
  <2> QED BY <2>4, <2>5
<1>3. Quiet /\ instance.status = "RUNNING" => Waiting
  BY <1>1 DEF StagesAt, Idle
<1> QED BY <1>1, <1>2, <1>3, FewTasks DEF Waiting

\* For any process, users and delegations: while no two requests for the instance
\* overlap and none dies, an ALL stage is left only with the approval of each approver
\* it names, nobody is asked twice, and an instance that runs while nothing is being
\* handled waits for somebody (createStageTasks, decide, checkEscalations).
THEOREM StagesAreServed == ProcessSpec => []StagesServed
<1>1. ProcessInit => Explained /\ Current /\ InOrder
  BY ProcessStart, OrderStarts DEF ProcessInit, RequestsInit, Current, Single, AsStored, Idle
<1>2. Explained /\ Current /\ InOrder /\ [ProcessNext]_<<processVars, requestVars>> => Explained' /\ Current' /\ InOrder'
  BY ProcessStep, OutcomeStep, OrderKept
<1> QED BY <1>1, <1>2, ServedInOrder, PTL DEF ProcessSpec
=============================================================================
