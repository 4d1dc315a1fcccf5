------------------------------- MODULE Lease -------------------------------
(***************************************************************************)
(* Leader election of the API's background loops: LeaseService of          *)
(* common/leases/lease.service.ts, one row of scheduler_leases, and the    *)
(* timer callbacks ("ticks") of the instances that compete for it.         *)
(*                                                                         *)
(* Time is counted in polling periods.  Instead of two absolute clocks the *)
(* row keeps the time LEFT until expires_at < NOW(): expires_at is         *)
(* computed from the instance's clock (Date.now() + ttlMs) but compared    *)
(* with the database's (NOW()), so a fresh lease has Ttl + d left for some *)
(* clock difference d in -Skew .. Skew.                                    *)
(*                                                                         *)
(* An instance draws a new random holder id each time it starts, so the id *)
(* of a crashed instance belongs to nobody: the row's holder is then Gone. *)
(***************************************************************************)
EXTENDS Integers

CONSTANTS
  Instance,   \* API processes
  Slot,       \* ticks one process may have in flight (setInterval never waits)
  Gone,       \* the holder id of a process that no longer exists
  Nobody,     \* no row for this lease name
  Ttl,        \* ttlMs, in polling periods
  Skew,       \* largest difference between a process clock and the database's
  MaxCrashes  \* bound: crashes in one behaviour

ASSUME LeaseAssumption ==
  /\ Ttl \in Nat /\ Skew \in Nat /\ Skew <= Ttl
  /\ MaxCrashes \in Nat
  /\ Gone \notin Instance /\ Nobody \notin Instance /\ Gone # Nobody

VARIABLES
  lease,    \* the row: its holder and the time left before it may be stolen
  running,  \* running[i]: the ticks of process i that are under way as leader
  since,    \* history: periods since i last won (Stale: long ago, or given up)
  crashes

vars == <<lease, running, since, crashes>>

Stale == Ttl + 1
Skews == (0 - Skew) .. Skew
Lefts == -1 .. (Ttl + Skew)

TypeOK ==
  /\ lease \in [holder : Instance \union {Gone, Nobody}, left : Lefts]
  /\ running \in [Instance -> SUBSET Slot]
  /\ since \in [Instance -> 0 .. Stale]
  /\ crashes \in 0 .. MaxCrashes

LeaseInit ==
  /\ lease = [holder |-> Nobody, left |-> -1]
  /\ since = [i \in Instance |-> Stale]
  /\ crashes = 0

Init == LeaseInit /\ running = [i \in Instance |-> {}]

-----------------------------------------------------------------------------
(* The effect of each operation on the row, shared with the modules that    *)
(* compose the lease with the loop it guards.                               *)

\* Slips of Winnable: a lease given away in the very instant it expires, and
\* one that is never taken from a holder that does not come back.
WinnableAtExpiry(i) == lease.left <= 0 \/ lease.holder = i
WinnableOwnOnly(i) == lease.holder \in {i, Nobody}

\* The upsert returns a row for i: there is no row, it has expired, or it is
\* i's own (a renewal).
Winnable(i) == lease.left < 0 \/ lease.holder = i

\* tryAcquire answers true.  It answers false in every other case, errors of
\* the store included, and then nothing changes: there is no action for that.
TryAcquire(i) ==
  /\ Winnable(i)
  /\ \E d \in Skews : lease' = [holder |-> i, left |-> Ttl + d]
  /\ since' = [since EXCEPT ![i] = 0]
  /\ UNCHANGED crashes

\* delete({name, holderId}); an error leaves the row to its expiry.
Release(i) ==
  /\ since' = [since EXCEPT ![i] = Stale]
  /\ lease' = IF lease.holder = i THEN [holder |-> Nobody, left |-> -1] ELSE lease
  /\ UNCHANGED crashes

\* Process i dies and starts again under a new holder id.
LoseHolder(i) ==
  /\ crashes < MaxCrashes
  /\ crashes' = crashes + 1
  /\ lease' = IF lease.holder = i THEN [lease EXCEPT !.holder = Gone] ELSE lease
  /\ since' = [since EXCEPT ![i] = Stale]

Age ==
  /\ lease' = [lease EXCEPT !.left = IF @ < 0 THEN @ ELSE @ - 1]
  /\ since' = [i \in Instance |-> IF since[i] = Stale THEN Stale ELSE since[i] + 1]
  /\ UNCHANGED crashes

-----------------------------------------------------------------------------
(* The loops: a timer fires, the winner runs its tick and the tick ends at   *)
(* any later moment, whatever has become of the lease by then.               *)

TickStarts(i, s) ==
  /\ s \notin running[i]
  /\ TryAcquire(i)
  /\ running' = [running EXCEPT ![i] = @ \union {s}]

TickEnds(i, s) ==
  /\ s \in running[i]
  /\ running' = [running EXCEPT ![i] = @ \ {s}]
  /\ UNCHANGED <<lease, since, crashes>>

GiveUp(i) == Release(i) /\ running[i] = {} /\ UNCHANGED running

Crash(i) == LoseHolder(i) /\ running' = [running EXCEPT ![i] = {}]

TimePasses == Age /\ UNCHANGED running

Next ==
  \/ \E i \in Instance, s \in Slot : TickStarts(i, s) \/ TickEnds(i, s)
  \/ \E i \in Instance : GiveUp(i) \/ Crash(i)
  \/ TimePasses

Spec == Init /\ [][Next]_vars

\* Timers keep firing, time passes and a tick ends: setInterval is periodic in
\* every live process.
Fairness ==
  /\ WF_vars(TimePasses)
  /\ \A i \in Instance, s \in Slot : WF_vars(TickStarts(i, s)) /\ WF_vars(TickEnds(i, s))

FairSpec == Spec /\ Fairness

-----------------------------------------------------------------------------
\* Two processes run ticks at the same time only when one of the ticks has
\* outlived the part of its lease that no clock difference can shorten: the
\* conditional upsert of tryAcquire gives a lease away only after it expired.
TimelyTicksAlone ==
  \A i, j \in Instance :
    (i # j /\ running[i] # {} /\ running[j] # {})
      => (since[i] > Ttl - Skew \/ since[j] > Ttl - Skew)

\* A process that won recently still owns the row, with the rest of its
\* minimum term ahead of it: nobody stole, shortened or renewed it away.
RecentWinnerHolds ==
  \A i \in Instance :
    since[i] <= Ttl - Skew
      => lease.holder = i /\ lease.left >= Ttl - Skew - since[i]

\* "A crashed leader is replaced automatically once its lease expires": a row
\* left behind by a dead process passes to a live one.
CrashedLeaderReplaced ==
  (lease.holder = Gone) ~> (lease.holder \in Instance)
=============================================================================
