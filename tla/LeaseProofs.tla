---------------------------- MODULE LeaseProofs ----------------------------
(***************************************************************************)
(* Proofs about Lease, for any number of processes and ticks, any term and *)
(* any clock difference up to the term.  RecentWinnerHolds is inductive    *)
(* once the types are known; TimelyTicksAlone is a consequence of it.      *)
(***************************************************************************)
EXTENDS Lease, TLAPS

USE LeaseAssumption DEF Stale, Skews, Lefts

\* The row, the ticks and the history keep their types: the time left never
\* exceeds the longest term that a clock difference can give.
THEOREM TypeCorrect == Spec => []TypeOK
<1>1. Init => TypeOK
  BY DEF Init, LeaseInit, TypeOK
<1>2. TypeOK /\ [Next]_vars => TypeOK'
  <2> SUFFICES ASSUME TypeOK, [Next]_vars PROVE TypeOK'
    OBVIOUS
  <2> USE DEF TypeOK
  <2>1. ASSUME NEW i \in Instance, NEW s \in Slot, TickStarts(i, s) PROVE TypeOK'
    BY <2>1 DEF TickStarts, TryAcquire
  <2>2. ASSUME NEW i \in Instance, NEW s \in Slot, TickEnds(i, s) PROVE TypeOK'
    BY <2>2 DEF TickEnds
  <2>3. ASSUME NEW i \in Instance, GiveUp(i) PROVE TypeOK'
    BY <2>3 DEF GiveUp, Release
  <2>4. ASSUME NEW i \in Instance, Crash(i) PROVE TypeOK'
    BY <2>4 DEF Crash, LoseHolder
  <2>5. ASSUME TimePasses PROVE TypeOK'
    BY <2>5 DEF TimePasses, Age
  <2>6. CASE UNCHANGED vars
    BY <2>6 DEF vars
  <2> QED BY <2>1, <2>2, <2>3, <2>4, <2>5, <2>6 DEF Next
<1> QED BY <1>1, <1>2, PTL DEF Spec

-----------------------------------------------------------------------------
\* Each operation on the row keeps the promise made to a recent winner.
LEMMA AcquireKeeps ==
  ASSUME TypeOK, RecentWinnerHolds, NEW i \in Instance, TryAcquire(i)
  PROVE  RecentWinnerHolds'
<1> SUFFICES ASSUME NEW k \in Instance, since'[k] <= Ttl - Skew
             PROVE  lease'.holder = k /\ lease'.left >= Ttl - Skew - since'[k]
  BY DEF RecentWinnerHolds
<1>1. CASE k = i
  BY <1>1 DEF TryAcquire, TypeOK
<1>2. CASE k # i
  <2>1. since'[k] = since[k]
    BY <1>2 DEF TryAcquire, TypeOK
  <2>2. lease.holder = k /\ lease.left >= Ttl - Skew - since[k]
    BY <2>1 DEF RecentWinnerHolds
  <2>3. lease.left >= 0
    BY <2>1, <2>2 DEF TypeOK
  <2> QED BY <1>2, <2>2, <2>3 DEF TryAcquire, Winnable, TypeOK
<1> QED BY <1>1, <1>2

\* A process that gives up, or that dies, forgets its own promise only.
LEMMA ReleaseKeeps ==
  ASSUME TypeOK, RecentWinnerHolds, NEW i \in Instance, Release(i)
  PROVE  RecentWinnerHolds'
BY DEF Release, RecentWinnerHolds, TypeOK

LEMMA LoseHolderKeeps ==
  ASSUME TypeOK, RecentWinnerHolds, NEW i \in Instance, LoseHolder(i)
  PROVE  RecentWinnerHolds'
BY DEF LoseHolder, RecentWinnerHolds, TypeOK

\* Time takes as much from the promise as from the lease.
LEMMA AgeKeeps ==
  ASSUME TypeOK, RecentWinnerHolds, Age
  PROVE  RecentWinnerHolds'
<1> SUFFICES ASSUME NEW k \in Instance, since'[k] <= Ttl - Skew
             PROVE  lease'.holder = k /\ lease'.left >= Ttl - Skew - since'[k]
  BY DEF RecentWinnerHolds
<1>1. since[k] # Stale /\ since'[k] = since[k] + 1
  BY DEF Age, TypeOK
<1>2. lease.holder = k /\ lease.left >= Ttl - Skew - since[k]
  BY <1>1 DEF RecentWinnerHolds, TypeOK
<1>3. lease.left \in Int /\ lease'.left \in Int /\ since[k] \in Int
  BY DEF Age, TypeOK
<1>4. lease'.holder = lease.holder /\ lease'.left >= lease.left - 1
  BY <1>3 DEF Age, TypeOK
<1> QED BY <1>1, <1>2, <1>3, <1>4

\* A process that won within the minimum term owns the row for the rest of it:
\* the conditional upsert neither steals nor shortens a live lease.
THEOREM RecentWinner == Spec => []RecentWinnerHolds
<1>1. Init => RecentWinnerHolds
  BY DEF Init, LeaseInit, RecentWinnerHolds
<1>2. TypeOK /\ RecentWinnerHolds /\ [Next]_vars => RecentWinnerHolds'
  <2> SUFFICES ASSUME TypeOK, RecentWinnerHolds, [Next]_vars PROVE RecentWinnerHolds'
    OBVIOUS
  <2>1. ASSUME NEW i \in Instance, NEW s \in Slot, TickStarts(i, s)
        PROVE  RecentWinnerHolds'
    BY <2>1, AcquireKeeps DEF TickStarts
  <2>2. ASSUME NEW i \in Instance, NEW s \in Slot, TickEnds(i, s)
        PROVE  RecentWinnerHolds'
    BY <2>2 DEF TickEnds, RecentWinnerHolds
  <2>3. ASSUME NEW i \in Instance, GiveUp(i) PROVE RecentWinnerHolds'
    BY <2>3, ReleaseKeeps DEF GiveUp
  <2>4. ASSUME NEW i \in Instance, Crash(i) PROVE RecentWinnerHolds'
    BY <2>4, LoseHolderKeeps DEF Crash
  <2>5. ASSUME TimePasses PROVE RecentWinnerHolds'
    BY <2>5, AgeKeeps DEF TimePasses
  <2>6. CASE UNCHANGED vars
    BY <2>6 DEF vars, RecentWinnerHolds
  <2> QED BY <2>1, <2>2, <2>3, <2>4, <2>5, <2>6 DEF Next
<1> QED BY <1>1, <1>2, TypeCorrect, PTL DEF Spec

\* No two processes tick together unless one has outlived the minimum term.
THEOREM TimelyTicks == Spec => []TimelyTicksAlone
<1>1. TypeOK /\ RecentWinnerHolds => TimelyTicksAlone
  BY DEF TypeOK, RecentWinnerHolds, TimelyTicksAlone
<1> QED BY <1>1, TypeCorrect, RecentWinner, PTL
=============================================================================
