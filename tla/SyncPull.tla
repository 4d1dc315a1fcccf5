------------------------------ MODULE SyncPull ------------------------------
(***************************************************************************)
(* The pull half of the offline protocol: SyncService.pull() of            *)
(* modules/sync/sync.service.ts.  A device sends its cursor and gets the   *)
(* rows of its datasets that were updated since, at most PullLimit of each *)
(* dataset, and a new cursor: the latest update among all of them.         *)
(*                                                                         *)
(* The rows are those of one employee.  The other services write them in   *)
(* transactions that stamp what they touch with the time they began at     *)
(* (TypeORM's @UpdateDateColumn is CURRENT_TIMESTAMP).  The database keeps *)
(* stamps to the microsecond and the cursor, an ISO string of a Date, to   *)
(* the millisecond, which is Tick units of the clock here.                 *)
(*                                                                         *)
(* The device is not in this repository: it keeps what it gets, and its    *)
(* new cursor, when the answer arrives, and pulls again.  hasMore tells it *)
(* to do so at once, and is left out.                                      *)
(***************************************************************************)
EXTENDS Integers, FiniteSets

CONSTANTS
  Row, Dataset,
  DatasetOf,  \* DatasetOf[r]: the dataset of row r
  Writer,     \* transactions that may be open at one time
  PullLimit,
  Tick,       \* clock units in a millisecond
  MaxBulk,    \* bound: rows a transaction touches
  MaxClock,   \* bound: transactions
  MaxLost     \* bound: answers lost on their way

ASSUME SyncPullAssumption ==
  /\ IsFiniteSet(Row)
  /\ DatasetOf \in [Row -> Dataset]
  /\ PullLimit \in Nat \ {0} /\ Tick \in Nat \ {0}
  /\ MaxBulk \in Nat \ {0} /\ MaxClock \in Nat /\ MaxLost \in Nat

VARIABLES
  clock,
  stamp,   \* stamp[r]: updatedAt of the committed version of r, 0 before the first
  open,    \* open[w]: the rows and the stamp of w's transaction
  cursor,  \* the device's cursor
  held,    \* held[r]: the version of r the device holds
  pull,    \* the pull under way: datasets still to read, since, latest stamp seen, rows read
  lost

pullVars == <<clock, stamp, open, cursor, held, pull, lost>>

Time == 0 .. MaxClock
Closed == [rows |-> {}, at |-> 0]
NoPull == [active |-> FALSE, left |-> {}, since |-> 0, seen |-> 0, got |-> [r \in Row |-> 0]]

PullTypeOK ==
  /\ clock \in Time
  /\ stamp \in [Row -> Time]
  /\ open \in [Writer -> [rows : SUBSET Row, at : Time]]
  /\ cursor \in Time
  /\ held \in [Row -> Time]
  /\ pull \in [active : BOOLEAN, left : SUBSET Dataset, since : Time, seen : Time, got : [Row -> Time]]
  /\ lost \in 0 .. MaxLost

PullInit ==
  /\ clock = 0
  /\ stamp = [r \in Row |-> 0]
  /\ open = [w \in Writer |-> Closed]
  /\ cursor = 0
  /\ held = [r \in Row |-> 0]
  /\ pull = NoPull
  /\ lost = 0

-----------------------------------------------------------------------------
(* The writers.  Transactions that are open touch different rows: the rows   *)
(* are locked.                                                               *)

Begin(w, rows) ==
  /\ open[w] = Closed /\ clock < MaxClock
  /\ \A v \in Writer : open[v].rows \intersect rows = {}
  /\ clock' = clock + 1
  /\ open' = [open EXCEPT ![w] = [rows |-> rows, at |-> clock + 1]]
  /\ UNCHANGED <<stamp, cursor, held, pull, lost>>

Commit(w) ==
  /\ open[w] # Closed
  /\ stamp' = [r \in Row |-> IF r \in open[w].rows THEN open[w].at ELSE stamp[r]]
  /\ open' = [open EXCEPT ![w] = Closed]
  /\ UNCHANGED <<clock, cursor, held, pull, lost>>

-----------------------------------------------------------------------------
(* pull()                                                                    *)

PullStart ==
  /\ ~pull.active
  /\ pull' = [active |-> TRUE, left |-> Dataset, since |-> cursor, seen |-> cursor, got |-> NoPull.got]
  /\ UNCHANGED <<clock, stamp, open, cursor, held, lost>>

Newer(d) == {r \in Row : DatasetOf[r] = d /\ stamp[r] > pull.since}

\* A slip of Pages: the query does not order the rows by their stamps.
PagesInAnyOrder(d) ==
  {P \in SUBSET Newer(d) :
     IF Cardinality(Newer(d)) <= PullLimit THEN P = Newer(d) ELSE Cardinality(P) = PullLimit}

\* The first PullLimit rows of a dataset, in the order of their stamps.
Pages(d) ==
  {P \in SUBSET Newer(d) :
     /\ IF Cardinality(Newer(d)) <= PullLimit THEN P = Newer(d) ELSE Cardinality(P) = PullLimit
     /\ \A r \in P, q \in Newer(d) \ P : stamp[r] <= stamp[q]}

\* t is the latest of some stamps.
IsLatest(t, stamps) == t \in stamps /\ \A u \in stamps : u <= t

\* The datasets are read one after the other, each as it is by then.
PullRead(d) ==
  /\ pull.active /\ d \in pull.left
  /\ \E P \in Pages(d), latest \in Time :
       /\ IsLatest(latest, {pull.seen} \union {stamp[r] : r \in P})
       /\ pull' = [active |-> TRUE, left |-> pull.left \ {d}, since |-> pull.since, seen |-> latest,
                   got |-> [r \in Row |-> IF r \in P THEN stamp[r] ELSE pull.got[r]]]
  /\ UNCHANGED <<clock, stamp, open, cursor, held, lost>>

\* What a Date and toISOString() leave of a stamp.
Milliseconds(t) == t - (t % Tick)

\* A slip of PullArrives: the cursor stays where it was.
PullArrivesInPlace ==
  /\ pull.active /\ pull.left = {}
  /\ held' = [r \in Row |-> IF pull.got[r] > 0 THEN pull.got[r] ELSE held[r]]
  /\ pull' = NoPull
  /\ UNCHANGED <<clock, stamp, open, cursor, lost>>

PullArrives ==
  /\ pull.active /\ pull.left = {}
  /\ cursor' = Milliseconds(pull.seen)
  /\ held' = [r \in Row |-> IF pull.got[r] > 0 THEN pull.got[r] ELSE held[r]]
  /\ pull' = NoPull
  /\ UNCHANGED <<clock, stamp, open, lost>>

\* The answer is lost, or the request fails: the device keeps its cursor.
PullLost ==
  /\ pull.active /\ lost < MaxLost
  /\ lost' = lost + 1
  /\ pull' = NoPull
  /\ UNCHANGED <<clock, stamp, open, cursor, held>>

-----------------------------------------------------------------------------
Bulk == {rows \in SUBSET Row : rows # {} /\ Cardinality(rows) <= MaxBulk}
Pull == PullStart \/ (\E d \in Dataset : PullRead(d)) \/ PullArrives

PullNext ==
  \/ \E w \in Writer : Commit(w) \/ \E rows \in Bulk : Begin(w, rows)
  \/ Pull \/ PullLost

\* Open transactions end and the device keeps pulling; nobody has to write.
PullFairness == WF_pullVars(Pull) /\ \A w \in Writer : WF_pullVars(Commit(w))

PullSpec == PullInit /\ [][PullNext]_pullVars
FairPullSpec == PullSpec /\ PullFairness

-----------------------------------------------------------------------------
\* "gets every row of its self-scoped datasets touched since, plus a new cursor"
\* (sync.service.ts, line 31): no row behind the cursor, which no later pull
\* will look at again, is missing on the device or an older version there.
NothingBehindCursor ==
  \A r \in Row : stamp[r] > 0 /\ stamp[r] <= cursor => held[r] = stamp[r]

\* When the writers are done the device gets everything.
CatchesUp == <>[](\A r \in Row : held[r] = stamp[r])
=============================================================================
