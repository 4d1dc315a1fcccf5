-------------------------------- MODULE Stock --------------------------------
(***************************************************************************)
(* Stock of one item: InventoryService of modules/inventory, and the       *)
(* shipment of a sales order, SalesService and AtpService of modules/sales, *)
(* which takes stock off the balances by itself.                           *)
(*                                                                         *)
(* A movement is kept in up to three places, saved one after the other:    *)
(* the balance of the warehouse, the stock ledger, and for a FIFO item its *)
(* layers.  Costs are left out, and so is the committed quantity, which    *)
(* refuses nothing.  A balance of zero stands for no row as well, and a    *)
(* layer with nothing left for a deleted one.  No handler looks at the sign *)
(* of the quantity it is given, and an update of the item may change its   *)
(* valuation method whatever is in stock.                                  *)
(***************************************************************************)
EXTENDS Requests, FiniteSetsExt, Functions

CONSTANTS
  Warehouse,
  Nowhere,        \* where an issue takes stock to
  Units,          \* quantities moved, which may be negative
  Changes,        \* quantities of adjustments, which may be negative
  Ordered,        \* quantities of the lines of the sales order
  MaxMovements    \* bound: movements begun, adjustments and updates of the item included

ASSUME StockAssumption ==
  /\ IsFiniteSet(Warehouse) /\ Nowhere \notin Warehouse /\ Units \subseteq Int /\ Changes \subseteq Int
  /\ Ordered \in Seq(Nat \ {0}) /\ MaxMovements \in Nat

VARIABLES
  fifo,        \* the item's valuation method is FIFO
  onHand,      \* the balance of each warehouse
  moved,       \* what the rows of the stock ledger come to, per warehouse
  layers,      \* FIFO layers, in the order they are consumed in
  adjustments,
  salesOrder,  \* its status and what its lines say was shipped
  begun,       \* movements begun
  layered,     \* history: the item was FIFO all along, and nothing less than zero was moved
  torn         \* history: a shipment stopped behind a line it had taken from stock

stockVars == <<fifo, onHand, moved, layers, adjustments, salesOrder, begun, layered, torn>>

BalanceRow(w) == <<"balance", w>>
AdjustmentRow(a) == <<"adjustment", a>>
SalesRow == <<"sales", 0>>
ItemRow == <<"item", 0>>
AllBalances == {BalanceRow(w) : w \in Warehouse}

StockInit ==
  /\ RequestsInit
  /\ fifo \in BOOLEAN
  /\ onHand = [w \in Warehouse |-> 0] /\ moved = [w \in Warehouse |-> 0]
  /\ layers = <<>> /\ adjustments = <<>>
  /\ salesOrder = [status |-> "DRAFT", shipped |-> [k \in DOMAIN Ordered |-> 0]]
  /\ begun = 0 /\ layered = fifo /\ torn = FALSE

Begin == begun < MaxMovements /\ begun' = begun + 1

\* A movement of n begins.
BeginMoving(n) == Begin /\ layered' = (layered /\ n >= 0)

-----------------------------------------------------------------------------
(* What goes in: a receipt, the second half of a transfer, an adjustment.    *)
(* places are those still to be written.                                     *)

Layered(isFifo) == IF isFifo THEN <<"layer">> ELSE <<>>

Putting(w, n, places) == [pc |-> "reading", to |-> w, n |-> n, places |-> places, adj |-> 0]

\* receiveStock
BeginReceive(c, w, n) ==
  /\ BeginMoving(n)
  /\ Arrive(c, {BalanceRow(w)}, Putting(w, n, <<"balance", "ledger">> \o Layered(fifo)))
  /\ UNCHANGED <<fifo, onHand, moved, layers, adjustments, salesOrder, torn>>

\* getOrCreateBalance
ReadOnHand(c) ==
  /\ At(c, "reading")
  /\ Await(c, [pc |-> "putting", to |-> call[c].to, n |-> call[c].n, places |-> call[c].places,
               adj |-> call[c].adj, seen |-> onHand[call[c].to]])
  /\ UNCHANGED stockVars

WritePlace(c) ==
  /\ At(c, "putting") /\ call[c].places # <<>>
  /\ LET w == call[c].to
         n == call[c].n
         place == Head(call[c].places)
         rest == Tail(call[c].places)
     IN /\ onHand' = IF place = "balance" THEN [onHand EXCEPT ![w] = call[c].seen + n] ELSE onHand
        /\ moved' = IF place = "ledger" THEN [moved EXCEPT ![w] = @ + n] ELSE moved
        /\ layers' = IF place = "layer" THEN Append(layers, [at |-> w, left |-> n]) ELSE layers
        /\ IF rest = <<>> /\ call[c].adj = 0 THEN Answer(c) ELSE Await(c, [call[c] EXCEPT !.places = rest])
  /\ UNCHANGED <<fifo, adjustments, salesOrder, begun, layered, torn>>

-----------------------------------------------------------------------------
(* What goes out: issueStock, and transferStock with its target.             *)

BeginTake(c, w, n, to) ==
  /\ onHand[w] >= n /\ BeginMoving(n)
  /\ Arrive(c, {BalanceRow(w)} \union (IF to = Nowhere THEN {} ELSE {BalanceRow(to)}),
            [pc |-> IF fifo THEN "listing" ELSE "taking", from |-> w, n |-> n, to |-> to, seen |-> onHand[w], isFifo |-> fifo])
  /\ UNCHANGED <<fifo, onHand, moved, layers, adjustments, salesOrder, torn>>

\* consumeFifoLayers: a list of the layers ...
ListLayers(c) ==
  /\ At(c, "listing")
  /\ Await(c, [pc |-> "consuming", from |-> call[c].from, n |-> call[c].n, to |-> call[c].to, seen |-> call[c].seen,
               need |-> call[c].n,
               todo |-> {<<i, layers[i].left>> : i \in {j \in DOMAIN layers : layers[j].at = call[c].from /\ layers[j].left # 0}}])
  /\ UNCHANGED stockVars

\* ... one save each, the oldest first ...
ConsumeLayer(c) ==
  /\ At(c, "consuming") /\ call[c].need > 0
  /\ \E l \in call[c].todo :
       /\ \A m \in call[c].todo : l[1] <= m[1]
       /\ LET take == Min({call[c].need, l[2]})
          IN /\ layers' = [layers EXCEPT ![l[1]].left = l[2] - take]
             /\ Await(c, [call[c] EXCEPT !.need = @ - take, !.todo = @ \ {l}])
  /\ UNCHANGED <<fifo, onHand, moved, adjustments, salesOrder, begun, layered, torn>>

\* ... and a refusal when they do not suffice, with the layers consumed.
LayersShort(c) ==
  /\ At(c, "consuming") /\ call[c].need > 0 /\ call[c].todo = {}
  /\ Answer(c)
  /\ UNCHANGED stockVars

\* What is deleted in the end is every layer of the warehouse with nothing left, or less.
EndLayers(c) ==
  /\ At(c, "consuming") /\ call[c].need <= 0
  /\ layers' = [i \in DOMAIN layers |->
                  IF layers[i].at = call[c].from /\ layers[i].left < 0 THEN [at |-> layers[i].at, left |-> 0] ELSE layers[i]]
  /\ Await(c, [pc |-> "taking", from |-> call[c].from, n |-> call[c].n, to |-> call[c].to, seen |-> call[c].seen, isFifo |-> TRUE])
  /\ UNCHANGED <<fifo, onHand, moved, adjustments, salesOrder, begun, layered, torn>>

SaveTaken(c) ==
  /\ At(c, "taking")
  /\ onHand' = [onHand EXCEPT ![call[c].from] = call[c].seen - call[c].n]
  /\ Await(c, [call[c] EXCEPT !.pc = "leaving"])
  /\ UNCHANGED <<fifo, moved, layers, adjustments, salesOrder, begun, layered, torn>>

\* A slip of BookTaken: no ledger row for what a transfer brings.
BookTakenOnly(c) ==
  /\ At(c, "leaving")
  /\ moved' = [moved EXCEPT ![call[c].from] = @ - call[c].n]
  /\ IF call[c].to = Nowhere THEN Answer(c)
     ELSE Await(c, Putting(call[c].to, call[c].n, <<"balance">> \o Layered(call[c].isFifo)))
  /\ UNCHANGED <<fifo, onHand, layers, adjustments, salesOrder, begun, layered, torn>>
BookTaken(c) ==
  /\ At(c, "leaving")
  /\ moved' = [moved EXCEPT ![call[c].from] = @ - call[c].n]
  /\ IF call[c].to = Nowhere THEN Answer(c)
     ELSE Await(c, Putting(call[c].to, call[c].n, <<"balance">> \o Layered(call[c].isFifo) \o <<"ledger">>))
  /\ UNCHANGED <<fifo, onHand, layers, adjustments, salesOrder, begun, layered, torn>>

-----------------------------------------------------------------------------
(* Adjustments, of one line each                                             *)

\* createAdjustment
CreateAdjustment(w, n) ==
  /\ Begin
  /\ adjustments' = Append(adjustments, [status |-> "DRAFT", at |-> w, n |-> n])
  /\ UNCHANGED <<fifo, onHand, moved, layers, salesOrder, layered, torn>> /\ UNCHANGED requestVars

\* postAdjustment: it looks at no balance and at no layer.
BeginAdjust(c, a) ==
  /\ adjustments[a].status = "DRAFT"
  /\ Arrive(c, {AdjustmentRow(a), BalanceRow(adjustments[a].at)},
            [Putting(adjustments[a].at, adjustments[a].n, <<"balance", "ledger">>) EXCEPT !.adj = a])
  /\ UNCHANGED stockVars

SaveAdjusted(c) ==
  /\ At(c, "putting") /\ call[c].places = <<>>
  /\ adjustments' = [adjustments EXCEPT ![call[c].adj].status = "POSTED"]
  /\ Answer(c)
  /\ UNCHANGED <<fifo, onHand, moved, layers, salesOrder, begun, layered, torn>>

-----------------------------------------------------------------------------
(* The item, whose method a movement reads when it begins                    *)

\* updateItem
ReadItemRow(c, method) ==
  /\ Begin
  /\ Arrive(c, {ItemRow}, [pc |-> "editing", method |-> method])
  /\ UNCHANGED <<fifo, onHand, moved, layers, adjustments, salesOrder, layered, torn>>

SaveItemRow(c) ==
  /\ At(c, "editing")
  /\ fifo' = call[c].method /\ layered' = (layered /\ fifo')
  /\ Answer(c)
  /\ UNCHANGED <<onHand, moved, layers, adjustments, salesOrder, begun, torn>>

-----------------------------------------------------------------------------
(* The sales order                                                           *)

SalesFrom == [confirm |-> {"DRAFT"}, complete |-> {"SHIPPED"}, cancel |-> {"DRAFT", "CONFIRMED", "SHIPPED"}]
SalesTo == [confirm |-> "CONFIRMED", complete |-> "COMPLETED", cancel |-> "CANCELLED"]

ReadSales(c, verb) ==
  /\ salesOrder.status \in SalesFrom[verb]
  /\ Arrive(c, {SalesRow}, [pc |-> "ordering", next |-> SalesTo[verb]])
  /\ UNCHANGED stockVars

SaveSales(c) ==
  /\ At(c, "ordering")
  /\ salesOrder' = [salesOrder EXCEPT !.status = call[c].next]
  /\ Answer(c)
  /\ UNCHANGED <<fifo, onHand, moved, layers, adjustments, begun, layered, torn>>

\* shipOrder: what the caller wants of each line, line by line.
BeginShip(c, want) ==
  /\ salesOrder.status = "CONFIRMED"
  /\ Arrive(c, {SalesRow} \union AllBalances,
            [pc |-> "shipping", k |-> 1, want |-> want, was |-> salesOrder.shipped, lines |-> salesOrder.shipped])
  /\ UNCHANGED stockVars

InAll(f) == SumFunction(f)

\* issueForItem reads the balances and refuses when they do not suffice: the lines
\* before are off the stock by then, and not saved as shipped.
WeighLine(c) ==
  /\ At(c, "shipping") /\ call[c].k <= Len(Ordered)
  /\ LET t == call[c]
         need == Min({t.want[t.k], Ordered[t.k] - t.lines[t.k]})
     IN /\ \/ need <= 0 /\ Await(c, [t EXCEPT !.k = @ + 1])
           \/ need > 0 /\ need > InAll(onHand) /\ Answer(c)
           \/ /\ need > 0 /\ need <= InAll(onHand)
              /\ Await(c, [pc |-> "relieving", k |-> t.k, want |-> t.want, was |-> t.was,
                           lines |-> [t.lines EXCEPT ![t.k] = @ + need],
                           seen |-> onHand, need |-> need, todo |-> Warehouse])
        /\ torn' = (torn \/ (need > 0 /\ need > InAll(onHand) /\ t.lines # t.was))
  /\ UNCHANGED <<fifo, onHand, moved, layers, adjustments, salesOrder, begun, layered>>

\* One save per warehouse, the best stocked first; no ledger row and no layer.
Relieve(c) ==
  /\ At(c, "relieving") /\ call[c].need > 0
  /\ \E w \in call[c].todo :
       LET t == call[c]
           take == Min({t.need, t.seen[w]})
       IN /\ t.seen[w] > 0 /\ \A v \in t.todo : t.seen[v] <= t.seen[w]
          /\ onHand' = [onHand EXCEPT ![w] = t.seen[w] - take]
          /\ Await(c, [t EXCEPT !.need = @ - take, !.todo = @ \ {w}])
  /\ UNCHANGED <<fifo, moved, layers, adjustments, salesOrder, begun, layered, torn>>

EndLine(c) ==
  /\ At(c, "relieving")
  /\ call[c].need = 0 \/ \A w \in call[c].todo : call[c].seen[w] <= 0
  /\ Await(c, [pc |-> "shipping", k |-> call[c].k + 1, want |-> call[c].want, was |-> call[c].was, lines |-> call[c].lines])
  /\ UNCHANGED stockVars

SaveShippedLines(c) ==
  /\ At(c, "shipping") /\ call[c].k > Len(Ordered)
  /\ salesOrder' = [salesOrder EXCEPT !.shipped = call[c].lines]
  /\ Await(c, [pc |-> "ordering", next |-> "SHIPPED"])
  /\ UNCHANGED <<fifo, onHand, moved, layers, adjustments, begun, layered, torn>>

PerishInStock(c) == Perish(c) /\ UNCHANGED stockVars

StockNext ==
  \/ \E w \in Warehouse, n \in Changes : CreateAdjustment(w, n)
  \/ \E c \in Call :
       \/ \E w \in Warehouse, n \in Units : BeginReceive(c, w, n) \/ \E to \in Warehouse \union {Nowhere} : BeginTake(c, w, n, to)
       \/ ReadOnHand(c) \/ WritePlace(c)
       \/ ListLayers(c) \/ ConsumeLayer(c) \/ LayersShort(c) \/ EndLayers(c) \/ SaveTaken(c) \/ BookTaken(c)
       \/ \E a \in DOMAIN adjustments : BeginAdjust(c, a)
       \/ SaveAdjusted(c)
       \/ (\E method \in BOOLEAN : ReadItemRow(c, method)) \/ SaveItemRow(c)
       \/ \E verb \in DOMAIN SalesFrom : ReadSales(c, verb)
       \/ SaveSales(c)
       \/ \E want \in [DOMAIN Ordered -> UNION {0 .. n : n \in Range(Ordered)}] :
            /\ \A k \in DOMAIN Ordered : want[k] <= Ordered[k]
            /\ BeginShip(c, want)
       \/ WeighLine(c) \/ Relieve(c) \/ EndLine(c) \/ SaveShippedLines(c)
       \/ PerishInStock(c)

StockSpec == StockInit /\ [][StockNext]_<<stockVars, requestVars>>

-----------------------------------------------------------------------------
LayersAt(w) == SumFunction([i \in {j \in DOMAIN layers : layers[j].at = w} |-> layers[i].left])
Adjusted == \E a \in DOMAIN adjustments : adjustments[a].status = "POSTED"

\* Undisturbed, between requests, the records of a quantity agree: the balances
\* are what the stock ledger says less what the order's lines say was shipped,
\* whatever the signs and the valuation method; and for an item that was FIFO all
\* along, without adjustments and quantities below zero, the layers of each
\* warehouse are its ledger (receiveStock, issueStock, transferStock, shipOrder).
StockAgrees ==
  Undisturbed /\ Quiet /\ ~torn =>
    /\ InAll(onHand) = InAll(moved) - InAll(salesOrder.shipped)
    /\ InAll(salesOrder.shipped) = 0 => onHand = moved
    /\ layered /\ ~Adjusted => \A w \in Warehouse : LayersAt(w) = moved[w]
=============================================================================
