------------------------------ MODULE RetryProofs ------------------------------
(***************************************************************************)
(* Proofs about calls that are sent again: Idempotency, SyncPush and       *)
(* SyncPull.                                                               *)
(*                                                                         *)
(* Idempotency: for any number of requests, keys and processes.  What a    *)
(* request in flight knows (Holding, Unspent) and what a call that took    *)
(* effect leaves behind (Marked) make the claim that a call takes effect   *)
(* once inductive.                                                         *)
(*                                                                         *)
(* SyncPush: for any number of mutations, requests, deaths and losses.     *)
(*                                                                         *)
(* SyncPull: for any rows, datasets, writers, transactions, clock          *)
(* resolution and page size, two kinds of step alone can leave a row       *)
(* behind the cursor: a transaction that commits behind what was read      *)
(* (not InTime), and a page that is cut before others or at a tie (not     *)
(* Whole).  The run pull_skew shows the first.                             *)
(***************************************************************************)
EXTENDS Idempotency, SyncPush, SyncPull, FiniteSetTheorems, WellFoundedInduction, TLAPS

-----------------------------------------------------------------------------
(* Idempotent POST requests                                                  *)

USE IdempotencyAssumption

\* A request in flight has a row.
Holding == \A r \in Request : stage[r] \in InFlight => row[KeyOf[r]] # Free

\* A stored response is one of a call with the key that took effect.
Stored ==
  \A k \in Key, r \in Request : row[k] = Completed(r) => r \in ran /\ KeyOf[r] = k

Answered ==
  \A r \in Request :
    /\ stage[r] = "storing" => r \in ran
    /\ stage[r] \in {"answered", "replayed"} => answer[r] # NoResponse
    /\ answer[r] # NoResponse => answer[r] \in ran /\ SameKey(answer[r], r)

\* Unless a query failed: a call that took effect has a row ...
Marked == faults = 0 => \A r \in ran : row[KeyOf[r]] # Free

\* ... and a request before or after its handler finds no effect of its key.
Unspent ==
  faults = 0 =>
    \A r \in Request : stage[r] \in {"handling", "releasing"} =>
      \A q \in ran : ~SameKey(q, r)

PostInv ==
  /\ PostTypeOK /\ OneHandler /\ EffectOnce
  /\ Holding /\ Stored /\ Answered /\ Marked /\ Unspent

-----------------------------------------------------------------------------
LEMMA Rows ==
  /\ Free # InProgress
  /\ \A r \in Request : Completed(r) # Free /\ Completed(r) # InProgress
  /\ \A q, r \in Request : Completed(q) = Completed(r) => q = r
BY DEF Free, InProgress, Completed

LEMMA Start ==
  ASSUME PostInit
  PROVE  PostInv
  BY Rows DEF PostInit, PostInv, PostTypeOK, OneHandler, EffectOnce,
       Holding, Stored, Answered, Marked, Unspent, InFlight, Over

\* A step of one request that leaves all rows but its own alone.
LEMMA Reservations ==
  ASSUME PostInv, NEW r \in Request,
         Reserve(r) \/ ReserveLoses(r) \/ ReserveFails(r)
  PROVE  PostInv'
  <1> USE DEF PostInv, Goto, SetRow, Fault, InFlight, Over, SameKey
  <1>1. CASE Reserve(r)
    BY <1>1, Rows DEF Reserve, PostTypeOK, OneHandler, EffectOnce,
         Holding, Stored, Answered, Marked, Unspent
  <1>2. CASE ReserveLoses(r)
    BY <1>2, Rows DEF ReserveLoses, PostTypeOK, OneHandler, EffectOnce,
         Holding, Stored, Answered, Marked, Unspent
  <1>3. CASE ReserveFails(r)
    BY <1>3, Rows DEF ReserveFails, PostTypeOK, OneHandler, EffectOnce,
         Holding, Stored, Answered, Marked, Unspent
  <1> QED BY <1>1, <1>2, <1>3

LEMMA Handlers ==
  ASSUME PostInv, NEW r \in Request,
         HandlerEnds(r) \/ HandlerFails(r)
  PROVE  PostInv'
  <1> USE DEF PostInv, Goto, SetRow, Fault, InFlight, Over, SameKey
  <1>1. CASE HandlerEnds(r)
    BY <1>1, Rows DEF HandlerEnds, PostTypeOK, OneHandler, EffectOnce,
         Holding, Stored, Answered, Marked, Unspent
  <1>2. CASE HandlerFails(r)
    BY <1>2, Rows DEF HandlerFails, PostTypeOK, OneHandler, EffectOnce,
         Holding, Stored, Answered, Marked, Unspent
  <1> QED BY <1>1, <1>2

LEMMA Stores ==
  ASSUME PostInv, NEW r \in Request,
         Store(r) \/ StoreFails(r)
  PROVE  PostInv'
  <1> USE DEF PostInv, Goto, SetRow, Fault, InFlight, Over, SameKey
  <1>1. CASE Store(r)
    BY <1>1, Rows DEF Store, PostTypeOK, OneHandler, EffectOnce,
         Holding, Stored, Answered, Marked, Unspent
  <1>2. CASE StoreFails(r)
    BY <1>2, Rows DEF StoreFails, PostTypeOK, OneHandler, EffectOnce,
         Holding, Stored, Answered, Marked, Unspent
  <1> QED BY <1>1, <1>2

LEMMA Releases ==
  ASSUME PostInv, NEW r \in Request,
         Release(r) \/ ReleaseFails(r)
  PROVE  PostInv'
  <1> USE DEF PostInv, Goto, SetRow, Fault, InFlight, Over, SameKey
  <1>1. CASE Release(r)
    BY <1>1, Rows DEF Release, PostTypeOK, OneHandler, EffectOnce,
         Holding, Stored, Answered, Marked, Unspent
  <1>2. CASE ReleaseFails(r)
    BY <1>2, Rows DEF ReleaseFails, PostTypeOK, OneHandler, EffectOnce,
         Holding, Stored, Answered, Marked, Unspent
  <1> QED BY <1>1, <1>2

LEMMA Reads ==
  ASSUME PostInv, NEW r \in Request,
         Replay(r) \/ Conflict(r) \/ ReadFails(r)
  PROVE  PostInv'
  <1> USE DEF PostInv, Goto, SetRow, Fault, InFlight, Over, SameKey
  <1>1. CASE Replay(r)
    <2>1. PICK q \in Request : row[KeyOf[r]] = Completed(q)
      BY <1>1 DEF Replay, PostTypeOK, Free, InProgress
    <2>2. row[KeyOf[r]].response = q /\ q \in ran /\ KeyOf[q] = KeyOf[r] /\ q # NoResponse
      BY <2>1 DEF Stored, Completed
    <2> QED BY <1>1, <2>2 DEF Replay, PostTypeOK, OneHandler, EffectOnce,
         Holding, Stored, Answered, Marked, Unspent
  <1>2. CASE Conflict(r)
    BY <1>2 DEF Conflict, PostTypeOK, OneHandler, EffectOnce,
         Holding, Stored, Answered, Marked, Unspent
  <1>3. CASE ReadFails(r)
    BY <1>3 DEF ReadFails, PostTypeOK, OneHandler, EffectOnce,
         Holding, Stored, Answered, Marked, Unspent
  <1> QED BY <1>1, <1>2, <1>3

LEMMA Crashes ==
  ASSUME PostInv, NEW i \in Instance, Crash(i)
  PROVE  PostInv'
  BY DEF PostInv, Crash, InFlight, Over, SameKey, PostTypeOK, OneHandler,
       EffectOnce, Holding, Stored, Answered, Marked, Unspent

LEMMA Stutters ==
  ASSUME PostInv, UNCHANGED postVars
  PROVE  PostInv'
  BY DEF postVars, PostInv, SameKey, PostTypeOK, OneHandler, EffectOnce, Holding, Stored, Answered, Marked, Unspent

\* The inductive invariant holds.
THEOREM PostInvariant == PostSpec => []PostInv
  <1>1. ASSUME PostInv, [PostNext]_postVars PROVE PostInv'
    BY <1>1, Reservations, Handlers, Stores, Releases, Reads, Crashes, Stutters
       DEF PostNext, Step, Terminated
  <1> QED BY <1>1, Start, PTL DEF PostSpec

\* Every variable keeps its type.
THEOREM PostTypeCorrect == PostSpec => []PostTypeOK
  <1>1. PostInv => PostTypeOK
    BY DEF PostInv
  <1> QED BY <1>1, PostInvariant, PTL

\* Two requests with one key are never past the reservation together
\* (reserve, and the row it inserts).
THEOREM HandlersAlone == PostSpec => []OneHandler
  <1>1. PostInv => OneHandler
    BY DEF PostInv
  <1> QED BY <1>1, PostInvariant, PTL

\* Unless a query fails, the calls with one key take effect at most once.
THEOREM EffectsOnce == PostSpec => []EffectOnce
  <1>1. PostInv => EffectOnce
    BY DEF PostInv
  <1> QED BY <1>1, PostInvariant, PTL

\* What a retry is answered is the response of a call with its key that took
\* effect, and the same for all of them unless a query failed.
THEOREM GenuineReplays == PostSpec => []ReplayIsGenuine
  <1>1. PostInv => ReplayIsGenuine
    BY DEF PostInv, ReplayIsGenuine, Answered, EffectOnce, SameKey
  <1> QED BY <1>1, PostInvariant, PTL

\* A stored response is never lost or replaced, unless a query fails.
THEOREM StoredStays == PostSpec => StoredForGood
  <1> DEFINE Keeps == \A k \in Key : (row[k].status = "done" /\ faults' = 0) => row'[k] = row[k]
  <1>1. ASSUME PostInv, [PostNext]_postVars PROVE Keeps
    <2> SUFFICES ASSUME NEW k \in Key, row[k].status = "done", faults' = 0
                 PROVE  row'[k] = row[k]
      OBVIOUS
    <2> USE <1>1 DEF PostInv, Goto, SetRow, Fault, SameKey
    <2>1. PICK q \in Request : row[k] = Completed(q)
      BY DEF PostTypeOK, Free, InProgress
    <2>2. q \in ran /\ KeyOf[q] = k /\ row[k] # Free
      BY <2>1, Rows DEF Stored
    <2>3. ASSUME NEW r \in Request, Reserve(r) \/ ReserveFails(r) PROVE row'[k] = row[k]
      BY <2>2, <2>3 DEF Reserve, ReserveFails, PostTypeOK
    <2>4. ASSUME NEW r \in Request, Store(r) PROVE row'[k] = row[k]
      BY <2>1, <2>2, <2>4 DEF Store, PostTypeOK, Answered, EffectOnce
    <2>5. ASSUME NEW r \in Request, Release(r) PROVE row'[k] = row[k]
      BY <2>2, <2>5 DEF Release, PostTypeOK, Unspent
    <2>6. ASSUME NEW r \in Request, StoreFails(r) \/ ReleaseFails(r) PROVE FALSE
      BY <2>6 DEF StoreFails, ReleaseFails, PostTypeOK
    <2> QED BY <2>3, <2>4, <2>5, <2>6 DEF PostNext, Step, ReserveLoses, HandlerEnds, HandlerFails,
           Replay, Conflict, ReadFails, Crash, Terminated, postVars
  <1>2. PostInv /\ [PostNext]_postVars => [Keeps]_postVars
    BY <1>1
  <1> QED BY <1>2, PostInvariant, PTL DEF PostSpec, StoredForGood

-----------------------------------------------------------------------------
(* Push                                                                      *)

USE DEF Mutation

\* What is left of a request is a set of mutations with a first one.
LEMMA FirstIsLeast ==
  ASSUME NEW c \in Call, left[c] \in SUBSET Mutation, left[c] # {}
  PROVE  First(c) \in left[c] /\ \A n \in left[c] : First(c) <= n
<1>1. left[c] \in SUBSET Nat
  BY SyncPushAssumption
<1>2. \E m \in left[c] : \A n \in left[c] : <<n, m>> \notin OpToRel(<, Nat)
  BY <1>1, NatLessThanWellFounded, WFMin, Zenon
<1>3. \E m \in left[c] : \A n \in left[c] : ~(n < m)
  BY <1>1, <1>2 DEF OpToRel
<1>4. \E m \in left[c] : \A n \in left[c] : m <= n
  BY <1>1, <1>3
<1> QED BY <1>4 DEF First

-----------------------------------------------------------------------------
\* A request that is under way has something left to do.
Busy == \A c \in Call : pc[c] \in Active => left[c] # {}

\* What is logged is an outcome: a handler has ended.
Ended == \A c \in Call : pc[c] = "logging" => outcome[c] \in Outcome

Typed == TypeOK /\ Busy /\ Ended

LEMMA ResultTyped ==
  ASSUME Typed, NEW c \in Call, pc[c] \in Active, NEW a \in Answer, Result(c, a),
         UNCHANGED outcome
  PROVE  /\ pc' \in [Call -> Active \union {"idle", "replying"}]
         /\ left' \in [Call -> SUBSET Mutation]
         /\ reply' \in [Call -> [Mutation -> Answer \union {None}]]
         /\ Busy' /\ Ended'
<1> USE DEF Typed, TypeOK
<1>1. First(c) \in left[c] /\ First(c) \in Mutation
  BY FirstIsLeast DEF Busy
<1>2. [reply[c] EXCEPT ![First(c)] = a] \in [Mutation -> Answer \union {None}]
  BY <1>1
<1>3. reply' \in [Call -> [Mutation -> Answer \union {None}]]
  BY <1>2 DEF Result
<1>4. left' \in [Call -> SUBSET Mutation]
  BY DEF Result
<1>5. pc' \in [Call -> Active \union {"idle", "replying"}]
  BY DEF Result, Active
<1>6. Busy'
  <2>1. ASSUME NEW k \in Call, pc'[k] \in Active PROVE left'[k] # {}
    <3>1. CASE k = c
      BY <1>1, <2>1, <3>1 DEF Result, Active
    <3>2. CASE k # c
      BY <2>1, <3>2 DEF Result, Busy
    <3> QED BY <3>1, <3>2
  <2> QED BY <2>1 DEF Busy
<1>7. Ended'
  BY DEF Result, Ended, Active
<1> QED BY <1>3, <1>4, <1>5, <1>6, <1>7

LEMMA StepTyped == Typed /\ [Next]_vars => Typed'
<1> SUFFICES ASSUME Typed, [Next]_vars PROVE Typed'
  OBVIOUS
<1> USE SyncPushAssumption
<1> USE DEF Typed, TypeOK
<1>1. ASSUME Queue PROVE Typed'
  BY <1>1 DEF Queue, Busy, Ended
<1>2. ASSUME NEW c \in Call, Send(c) PROVE Typed'
  <2>1. Outbox \subseteq Mutation /\ Outbox # {}
    BY <1>2 DEF Outbox, Send
  <2>2. left' \in [Call -> SUBSET Mutation] /\ pc' \in [Call -> Active \union {"idle", "replying"}]
    BY <1>2, <2>1 DEF Send, Active
  <2>3. Busy' /\ Ended'
    BY <1>2, <2>1 DEF Send, Busy, Ended, Active
  <2> QED BY <1>2, <2>2, <2>3 DEF Send, device
<1>3. ASSUME NEW c \in Call, Find(c) PROVE Typed'
  <2>1. log[First(c)] \in Outcome
    BY <1>3, FirstIsLeast DEF Find, Busy, Active
  <2> QED BY <1>3, <2>1, ResultTyped DEF Find, device, Answer, Active
<1>4. ASSUME NEW c \in Call, Reject(c) PROVE Typed'
  BY <1>4, ResultTyped DEF Reject, device, Answer, Active
<1>5. ASSUME NEW c \in Call, Take(c) PROVE Typed'
  BY <1>5 DEF Take, device, Busy, Ended, Active
<1>6. ASSUME NEW c \in Call, HandlerReturns(c) PROVE Typed'
  <2>1. First(c) \in Mutation
    BY <1>6, FirstIsLeast DEF HandlerReturns, Busy, Active
  <2>2. applied' \in [Mutation -> Nat]
    BY <1>6, <2>1 DEF HandlerReturns
  <2>3. pc' = [pc EXCEPT ![c] = "logging"] /\ outcome' = [outcome EXCEPT ![c] = "APPLIED"] /\ left' = left
        /\ pc[c] = "handling"
    BY <1>6 DEF HandlerReturns
  <2>4. pc' \in [Call -> Active \union {"idle", "replying"}] /\ outcome' \in [Call -> Outcome \union {None}]
    BY <2>3 DEF Active, Outcome
  <2>5. Busy' /\ Ended'
    BY <2>3 DEF Busy, Ended, Active, Outcome
  <2> QED BY <1>6, <2>2, <2>4, <2>5 DEF HandlerReturns, device
<1>7. ASSUME NEW c \in Call, HandlerThrows(c) PROVE Typed'
  BY <1>7 DEF HandlerThrows, device, Busy, Ended, Active, Outcome
<1>8. ASSUME NEW c \in Call, Log(c) PROVE Typed'
  <2>1. outcome[c] \in Outcome
    BY <1>8 DEF Log, Ended
  <2>2. log' \in [Mutation -> Outcome \union {None}]
    BY <1>8, <2>1 DEF Log
  <2> QED BY <1>8, <2>1, <2>2, ResultTyped DEF Log, device, Answer, Active
<1>9. ASSUME NEW c \in Call, LogClashes(c) PROVE Typed'
  BY <1>9 DEF LogClashes, device, Busy, Ended, Active
<1>10. ASSUME NEW c \in Call, Die(c) PROVE Typed'
  <2>1. alone' \in BOOLEAN
    BY <1>10 DEF Die
  <2>2. pc' \in [Call -> Active \union {"idle", "replying"}] /\ deaths' \in 0 .. MaxDeaths
    BY <1>10 DEF Die, Active
  <2>3. Busy' /\ Ended'
    BY <1>10 DEF Die, Busy, Ended, Active
  <2> QED BY <1>10, <2>1, <2>2, <2>3 DEF Die, device
<1>11. ASSUME NEW c \in Call, Deliver(c) PROVE Typed'
  BY <1>11 DEF Deliver, Busy, Ended, Active
<1>12. ASSUME NEW c \in Call, Lose(c) PROVE Typed'
  BY <1>12 DEF Lose, device, Busy, Ended, Active
<1>13. CASE UNCHANGED vars
  BY <1>13 DEF vars, device, Busy, Ended
<1> QED BY <1>1, <1>2, <1>3, <1>4, <1>5, <1>6, <1>7, <1>8, <1>9, <1>10, <1>11, <1>12, <1>13 DEF Next, Push

\* Everything keeps its type; in particular only outcomes reach the log.
THEOREM TypeCorrect == Spec => []TypeOK
<1>1. Init => Typed
  BY SyncPushAssumption DEF Init, Typed, TypeOK, Busy, Ended, Active
<1>2. Typed => TypeOK
  BY DEF Typed
<1> QED BY <1>1, <1>2, StepTyped, PTL DEF Spec

-----------------------------------------------------------------------------
\* A request says REJECTED of mutations without a handler only.
Rejected ==
  \A m \in Known :
    told[m] # "REJECTED" /\ \A c \in Call : reply[c][m] # "REJECTED"

\* When a handler has returned, its effect took place.
Done == \A c \in Call : pc[c] = "logging" /\ outcome[c] = "APPLIED" => applied[First(c)] > 0

\* A request holds every mutation that precedes one it holds, or finds it logged.
Covered ==
  \A c \in Call : pc[c] \in Active =>
    \A l \in left[c], m \in Known : m < l /\ m \notin left[c] => log[m] # None

Inv == Typed /\ AnswerIsOutcome /\ Rejected /\ Done /\ Covered /\ InOrder

\* What a result does to the request that gets it.
LEMMA ResultIs ==
  ASSUME Typed, NEW c \in Call, pc[c] \in Active, NEW a \in Answer, Result(c, a)
  PROVE  /\ First(c) \in Mutation /\ First(c) \in left[c] /\ \A n \in left[c] : First(c) <= n
         /\ \A k \in Call : left'[k] = IF k = c THEN left[c] \ {First(c)} ELSE left[k]
         /\ \A k \in Call : pc'[k] = IF k = c THEN (IF left[c] = {First(c)} THEN "replying" ELSE "finding")
                                    ELSE pc[k]
<1> USE DEF Typed, TypeOK
<1>1. First(c) \in Mutation /\ First(c) \in left[c] /\ \A n \in left[c] : First(c) <= n
  BY FirstIsLeast DEF Busy
<1>3. \A k \in Call : left'[k] = IF k = c THEN left[c] \ {First(c)} ELSE left[k]
  BY DEF Result
<1>4. \A k \in Call : pc'[k] = IF k = c THEN (IF left[c] = {First(c)} THEN "replying" ELSE "finding") ELSE pc[k]
  BY DEF Result
<1> QED BY <1>1, <1>3, <1>4

\* What it does to the results.
LEMMA ReplyIs ==
  ASSUME Typed, NEW c \in Call, pc[c] \in Active, NEW a \in Answer, Result(c, a)
  PROVE  \A k \in Call, m \in Mutation :
           reply'[k][m] = IF k = c /\ m = First(c) THEN a ELSE reply[k][m]
<1> USE DEF Typed, TypeOK
<1>1. First(c) \in Mutation
  BY ResultIs
<1>2. ASSUME NEW k \in Call, NEW m \in Mutation
      PROVE  reply'[k][m] = IF k = c /\ m = First(c) THEN a ELSE reply[k][m]
  <2>1. CASE k = c
    <3>1. reply'[c] = [reply[c] EXCEPT ![First(c)] = a]
      BY DEF Result
    <3> QED BY <2>1, <3>1
  <2>2. CASE k # c
    BY <2>2 DEF Result
  <2> QED BY <2>1, <2>2
<1> QED BY <1>2

\* A result does not disturb what other requests are about to log.
LEMMA DoneKeeps ==
  ASSUME Inv, NEW c \in Call, pc[c] \in Active, NEW a \in Answer, Result(c, a),
         outcome' = outcome, applied' = applied
  PROVE  Done'
<1> SUFFICES ASSUME NEW k \in Call, pc'[k] = "logging", outcome[k] = "APPLIED"
             PROVE  applied[First(k)'] > 0
  BY DEF Done
<1>1. k # c
  BY ResultIs DEF Inv
<1>2. left'[k] = left[k] /\ pc'[k] = pc[k]
  BY <1>1, ResultIs DEF Inv
<1>3. First(k)' = First(k)
  BY <1>2 DEF First
<1> QED BY <1>2, <1>3 DEF Inv, Done

\* A request goes on with its other mutations when the first is logged, or has
\* no handler.
LEMMA CoveredKeeps ==
  ASSUME Inv, NEW c \in Call, pc[c] \in Active, NEW a \in Answer, Result(c, a),
         First(c) \in Known => log'[First(c)] # None,
         \A m \in Mutation : log[m] # None => log'[m] # None
  PROVE  Covered'
<1> SUFFICES ASSUME NEW k \in Call, pc'[k] \in Active, NEW l \in left'[k], NEW m \in Known,
                    m < l, m \notin left'[k]
             PROVE  log'[m] # None
  BY DEF Covered
<1> Known \subseteq Mutation
  BY SyncPushAssumption
<1>1. CASE k = c /\ m = First(c)
  BY <1>1
<1>2. CASE k = c /\ m # First(c)
  <2>1. l \in left[c] /\ m \notin left[c]
    BY <1>2, ResultIs DEF Inv
  <2> QED BY <2>1 DEF Inv, Covered
<1>3. CASE k # c
  <2>1. pc[k] \in Active /\ l \in left[k] /\ m \notin left[k]
    BY <1>3, ResultIs DEF Inv
  <2> QED BY <2>1 DEF Inv, Covered
<1> QED BY <1>1, <1>2, <1>3

\* No step that leaves the log and the effects alone, and adds no result,
\* disturbs the answers.
LEMMA QuietKeeps ==
  ASSUME Inv, log' = log, applied' = applied, reply' = reply, told' = told
  PROVE  AnswerIsOutcome' /\ Rejected' /\ InOrder'
BY DEF Inv, AnswerIsOutcome, Rejected, InOrder

LEMMA StepKeeps == Inv /\ [Next]_vars => Inv'
<1> SUFFICES ASSUME Inv, [Next]_vars PROVE Inv'
  OBVIOUS
<1>0. Typed /\ Typed' /\ Known \subseteq Mutation
  BY StepTyped, SyncPushAssumption DEF Inv
<1>1. ASSUME Queue PROVE Inv'
  <2>1. Done' /\ Covered'
    BY <1>1 DEF Queue, Inv, Done, Covered, First
  <2> QED BY <1>0, <1>1, <2>1, QuietKeeps DEF Queue, Inv
<1>2. ASSUME NEW c \in Call, Send(c) PROVE Inv'
  <2>1. Done'
    BY <1>0, <1>2 DEF Send, Inv, Done, Typed, TypeOK, First
  <2>2. ASSUME NEW l \in Outbox, NEW m \in Known, m < l, m \notin Outbox PROVE log[m] # None
    <3>1. told[m] # None
      BY <1>0, <2>2 DEF Outbox, Typed, TypeOK
    <3>2. told[m] \in Outcome
      BY <1>0, <3>1 DEF Inv, Rejected, Typed, TypeOK, Answer
    <3> QED BY <1>0, <3>1, <3>2 DEF Inv, AnswerIsOutcome
  <2>3. Covered'
    BY <1>0, <1>2, <2>2 DEF Send, Inv, Covered, Typed, TypeOK
  <2>4. /\ log' = log /\ applied' = applied /\ told' = told
        /\ \A k \in Call, m \in Mutation : reply'[k][m] = IF k = c THEN None ELSE reply[k][m]
    BY <1>0, <1>2 DEF Send, device, Typed, TypeOK
  <2>5. None \notin Outcome /\ None # "REJECTED"
    BY SyncPushAssumption DEF Outcome
  <2>6. AnswerIsOutcome' /\ Rejected' /\ InOrder'
    BY <1>0, <2>4, <2>5 DEF Inv, AnswerIsOutcome, Rejected, InOrder
  <2> QED BY <1>0, <2>1, <2>3, <2>6 DEF Inv
<1>3. ASSUME NEW c \in Call, Find(c) PROVE Inv'
  <2>1. pc[c] \in Active /\ log' = log /\ applied' = applied /\ told' = told /\ outcome' = outcome
    BY <1>3 DEF Find, device, Active
  <2>2. First(c) \in Mutation
    BY <1>0, <2>1, FirstIsLeast DEF Typed, TypeOK, Busy
  <2>3. log[First(c)] \in Outcome /\ Result(c, log[First(c)])
    BY <1>0, <1>3, <2>2 DEF Find, Typed, TypeOK
  <2>4. log[First(c)] \in Answer /\ log[First(c)] # "REJECTED" /\ log[First(c)] # None
    BY <2>3, SyncPushAssumption DEF Answer, Outcome
  <2>5. \A k \in Call, m \in Mutation :
          reply'[k][m] = IF k = c /\ m = First(c) THEN log[First(c)] ELSE reply[k][m]
    BY <1>0, <2>1, <2>3, <2>4, ReplyIs
  <2>6. AnswerIsOutcome' /\ Rejected' /\ InOrder'
    BY <1>0, <2>1, <2>4, <2>5 DEF Inv, AnswerIsOutcome, Rejected, InOrder
  <2>8. Done'
    BY <2>1, <2>3, <2>4, DoneKeeps
  <2>7. Covered'
    BY <2>1, <2>3, <2>4, CoveredKeeps
  <2> QED BY <1>0, <2>6, <2>7, <2>8 DEF Inv
<1>4. ASSUME NEW c \in Call, Reject(c) PROVE Inv'
  <2>1. pc[c] \in Active /\ log' = log /\ applied' = applied /\ told' = told /\ outcome' = outcome
        /\ Result(c, "REJECTED") /\ First(c) \notin Known /\ "REJECTED" \in Answer
    BY <1>4 DEF Reject, device, Active, Answer
  <2>5. \A k \in Call, m \in Mutation :
          reply'[k][m] = IF k = c /\ m = First(c) THEN "REJECTED" ELSE reply[k][m]
    BY <1>0, <2>1, ReplyIs
  <2>2. AnswerIsOutcome' /\ Rejected' /\ InOrder'
    BY <1>0, <2>1, <2>5 DEF Inv, AnswerIsOutcome, Rejected, InOrder, Outcome
  <2>3. Done'
    BY <2>1, DoneKeeps
  <2>4. Covered'
    BY <2>1, CoveredKeeps
  <2> QED BY <1>0, <2>2, <2>3, <2>4 DEF Inv
<1>5. ASSUME NEW c \in Call, Take(c) PROVE Inv'
  <2>1. Done' /\ Covered'
    BY <1>0, <1>5 DEF Take, Inv, Done, Covered, Typed, TypeOK, First, Active
  <2> QED BY <1>0, <1>5, <2>1, QuietKeeps DEF Take, Inv, device
<1>6. ASSUME NEW c \in Call, HandlerReturns(c) PROVE Inv'
  <2>1. pc[c] \in Active /\ log' = log /\ reply' = reply /\ told' = told /\ left' = left
    BY <1>6 DEF HandlerReturns, device, Active
  <2>2. First(c) \in Mutation /\ First(c) \in left[c] /\ \A n \in left[c] : First(c) <= n
    BY <1>0, <2>1, FirstIsLeast DEF Typed, TypeOK, Busy
  <2>3. \A m \in Mutation : applied'[m] = IF m = First(c) THEN applied[m] + 1 ELSE applied[m]
    BY <1>0, <1>6 DEF HandlerReturns, Typed, TypeOK
  <2>4. \A m \in Mutation : applied[m] \in Nat
    BY <1>0 DEF Typed, TypeOK
  <2>5. AnswerIsOutcome' /\ Rejected'
    BY <2>1, <2>3, <2>4 DEF Inv, AnswerIsOutcome, Rejected
  <2>6. \A m \in Known : m < First(c) => log[m] # None
    <3> TAKE m \in Known
    <3> HAVE m < First(c)
    <3>1. m \notin left[c]
      BY <1>0, <2>2
    <3> QED BY <2>1, <2>2, <3>1 DEF Inv, Covered
  <2>7. InOrder'
    BY <1>0, <2>1, <2>2, <2>3, <2>4, <2>6 DEF Inv, InOrder
  <2>8. \A k \in Call : First(k)' = First(k)
    BY <2>1 DEF First
  <2>9. Done'
    <3> SUFFICES ASSUME NEW k \in Call, pc'[k] = "logging", outcome'[k] = "APPLIED"
                 PROVE  applied'[First(k)] > 0
      BY <2>8 DEF Done
    <3>1. CASE k = c
      BY <3>1, <2>2, <2>3, <2>4
    <3>2. CASE k # c
      <4>1. pc[k] = "logging" /\ outcome[k] = "APPLIED"
        BY <1>0, <1>6, <3>2 DEF HandlerReturns, Typed, TypeOK
      <4>2. First(k) \in Mutation
        BY <1>0, <4>1, FirstIsLeast DEF Typed, TypeOK, Busy, Active
      <4>3. applied[First(k)] > 0
        BY <4>1 DEF Inv, Done
      <4> QED BY <4>2, <4>3, <2>3, <2>4
    <3> QED BY <3>1, <3>2
  <2>10. Covered'
    BY <1>0, <1>6, <2>1 DEF HandlerReturns, Inv, Covered, Typed, TypeOK, Active
  <2> QED BY <1>0, <2>5, <2>7, <2>9, <2>10 DEF Inv
<1>7. ASSUME NEW c \in Call, HandlerThrows(c) PROVE Inv'
  <2>1. Done' /\ Covered'
    BY <1>0, <1>7 DEF HandlerThrows, Inv, Done, Covered, Typed, TypeOK, First, Active
  <2> QED BY <1>0, <1>7, <2>1, QuietKeeps DEF HandlerThrows, Inv, device
<1>8. ASSUME NEW c \in Call, Log(c) PROVE Inv'
  <2>1. pc[c] \in Active /\ applied' = applied /\ told' = told /\ outcome' = outcome /\ Result(c, outcome[c])
        /\ pc[c] = "logging" /\ log[First(c)] = None
    BY <1>8 DEF Log, device, Active
  <2>2. outcome[c] \in Outcome /\ outcome[c] \in Answer /\ outcome[c] # "REJECTED" /\ outcome[c] # None
    BY <1>0, <2>1, SyncPushAssumption DEF Typed, Ended, Outcome, Answer
  <2>3. First(c) \in Mutation
    BY <1>0, <2>1, <2>2, ResultIs
  <2>4. \A m \in Mutation : log'[m] = IF m = First(c) THEN outcome[c] ELSE log[m]
    BY <1>0, <1>8 DEF Log, Typed, TypeOK
  <2>5. \A k \in Call, m \in Mutation :
          reply'[k][m] = IF k = c /\ m = First(c) THEN outcome[c] ELSE reply[k][m]
    BY <1>0, <2>1, <2>2, ReplyIs
  <2>6. AnswerIsOutcome'
    <3>1. ASSUME NEW m \in Mutation, told'[m] \in Outcome PROVE log'[m] = told'[m]
      BY <2>1, <2>4, <3>1, SyncPushAssumption DEF Inv, AnswerIsOutcome, Outcome
    <3>2. ASSUME NEW m \in Mutation, NEW k \in Call, reply'[k][m] \in Outcome PROVE log'[m] = reply'[k][m]
      BY <2>1, <2>4, <2>5, <3>2, SyncPushAssumption DEF Inv, AnswerIsOutcome, Outcome
    <3>3. ASSUME NEW m \in Mutation, log'[m] = "APPLIED" PROVE applied'[m] > 0
      BY <2>1, <2>4, <3>3 DEF Inv, AnswerIsOutcome, Done
    <3> QED BY <3>1, <3>2, <3>3 DEF AnswerIsOutcome
  <2>7. Rejected'
    BY <1>0, <2>1, <2>2, <2>5 DEF Inv, Rejected
  <2>8. InOrder'
    BY <1>0, <2>1, <2>2, <2>4 DEF Inv, InOrder
  <2>9. Done'
    BY <2>1, <2>2, DoneKeeps
  <2>10. Covered'
    BY <2>1, <2>2, <2>3, <2>4, CoveredKeeps
  <2> QED BY <1>0, <2>6, <2>7, <2>8, <2>9, <2>10 DEF Inv
<1>9. ASSUME NEW c \in Call, LogClashes(c) PROVE Inv'
  <2>1. Done' /\ Covered'
    BY <1>0, <1>9 DEF LogClashes, Inv, Done, Covered, Typed, TypeOK, First, Active
  <2> QED BY <1>0, <1>9, <2>1, QuietKeeps DEF LogClashes, Inv, device
<1>10. ASSUME NEW c \in Call, Die(c) PROVE Inv'
  <2>1. Done' /\ Covered'
    BY <1>0, <1>10 DEF Die, Inv, Done, Covered, Typed, TypeOK, First, Active
  <2> QED BY <1>0, <1>10, <2>1, QuietKeeps DEF Die, Inv, device
<1>11. ASSUME NEW c \in Call, Deliver(c) PROVE Inv'
  <2>1. Done' /\ Covered' /\ InOrder'
    BY <1>0, <1>11 DEF Deliver, Inv, Done, Covered, InOrder, Typed, TypeOK, First, Active
  <2>2. AnswerIsOutcome' /\ Rejected'
    BY <1>0, <1>11 DEF Deliver, Inv, AnswerIsOutcome, Rejected
  <2> QED BY <1>0, <2>1, <2>2 DEF Inv
<1>12. ASSUME NEW c \in Call, Lose(c) PROVE Inv'
  <2>1. Done' /\ Covered'
    BY <1>0, <1>12 DEF Lose, Inv, Done, Covered, Typed, TypeOK, First, Active
  <2> QED BY <1>0, <1>12, <2>1, QuietKeeps DEF Lose, Inv, device
<1>13. CASE UNCHANGED vars
  <2>1. Done' /\ Covered'
    BY <1>13 DEF vars, Inv, Done, Covered, First
  <2> QED BY <1>0, <1>13, <2>1, QuietKeeps DEF vars, device, Inv
<1> QED BY <1>1, <1>2, <1>3, <1>4, <1>5, <1>6, <1>7, <1>8, <1>9, <1>10, <1>11, <1>12, <1>13 DEF Next, Push

LEMMA InitInv == Init => Inv
<1> SUFFICES ASSUME Init PROVE Inv
  OBVIOUS
<1>1. Typed
  BY SyncPushAssumption DEF Init, Typed, TypeOK, Busy, Ended, Active
<1>2. None \notin Outcome /\ None # "REJECTED" /\ Known \subseteq Mutation
  BY SyncPushAssumption DEF Outcome
<1>3. AnswerIsOutcome
  <2>1. None \notin Outcome /\ None # "APPLIED"
    BY <1>2 DEF Outcome
  <2> QED BY <2>1 DEF Init, AnswerIsOutcome
<1>4. Rejected /\ Done /\ Covered /\ InOrder
  BY <1>2 DEF Init, Rejected, Done, Covered, InOrder, Active
<1> QED BY <1>1, <1>3, <1>4 DEF Inv

\* Whatever dies, overlaps or is lost, a mutation has one outcome for good, it
\* is the one the device is told, and APPLIED means that it was.
THEOREM Honest == Spec => []AnswerIsOutcome
<1>1. Inv => AnswerIsOutcome
  BY DEF Inv
<1> QED BY <1>1, InitInv, StepKeeps, PTL DEF Spec

\* Whatever dies, overlaps or is lost, mutations take effect in their order.
THEOREM Ordered == Spec => []InOrder
<1>1. Inv => InOrder
  BY DEF Inv
<1> QED BY <1>1, InitInv, StepKeeps, PTL DEF Spec
-----------------------------------------------------------------------------
Running(c) == pc[c] \in Active \union {"replying"}
OneRuns == \A c, k \in Call : Running(c) /\ Running(k) => c = k

\* What is being handled is not in the log.
Fresh == \A c \in Call : pc[c] \in {"handling", "logging"} => log[First(c)] = None

\* The effect of a mutation took place once if it is logged as applied or is
\* about to be, and not at all otherwise.
ToLog(m) == \E c \in Call : pc[c] = "logging" /\ outcome[c] = "APPLIED" /\ First(c) = m
Count(m) == applied[m] = IF log[m] = "APPLIED" \/ ToLog(m) THEN 1 ELSE 0
Counted == \A m \in Mutation : Count(m)

Once == Inv /\ OneRuns /\ Fresh /\ Counted

\* A step that logs and applies nothing, and that ends or moves one request
\* without bringing it to its log, keeps the count.
LEMMA CountKeeps ==
  ASSUME Once, log' = log, applied' = applied, outcome' = outcome,
         \A k \in Call : pc'[k] = "logging" => pc[k] = "logging" /\ left'[k] = left[k],
         \A k \in Call : pc[k] = "logging" => pc'[k] = "logging"
  PROVE  Counted'
<1> SUFFICES ASSUME NEW m \in Mutation PROVE Count(m)'
  BY DEF Counted
<1>1. ToLog(m)' <=> ToLog(m)
  <2>1. \A k \in Call : pc[k] = "logging" => First(k)' = First(k)
    BY DEF First
  <2> QED BY <2>1 DEF ToLog
<1> QED BY <1>1 DEF Once, Counted, Count

LEMMA StepOnce == Once /\ [Next]_vars /\ alone' => Once'
<1> SUFFICES ASSUME Once, [Next]_vars, alone' PROVE Once'
  OBVIOUS
<1>0. Typed /\ Inv /\ Inv'
  BY StepKeeps DEF Once, Inv
<1> USE DEF Running
<1>1. ASSUME Queue PROVE Once'
  <2>1. Counted'
    BY <1>1, CountKeeps DEF Queue
  <2> QED BY <1>0, <1>1, <2>1 DEF Queue, Once, OneRuns, Fresh, First
<1>2. ASSUME NEW c \in Call, Send(c) PROVE Once'
  <2>1. \A k \in Call : ~Running(k)
    BY <1>2 DEF Send, Active
  <2>2. /\ log' = log /\ applied' = applied /\ outcome' = outcome
        /\ \A k \in Call : pc'[k] = IF k = c THEN "finding" ELSE pc[k]
    BY <1>0, <1>2 DEF Send, Typed, TypeOK
  <2>3. Counted'
    BY <2>1, <2>2, CountKeeps DEF Active
  <2>4. OneRuns' /\ Fresh'
    BY <2>1, <2>2 DEF OneRuns, Fresh, Active
  <2> QED BY <1>0, <2>3, <2>4 DEF Once
<1>3. ASSUME NEW c \in Call, NEW a \in Answer, pc[c] = "finding", Result(c, a),
             log' = log, applied' = applied, outcome' = outcome
      PROVE  Once'
  <2>0. pc[c] \in Active
    BY <1>3 DEF Active
  <2>1. /\ \A k \in Call : k # c => pc'[k] = pc[k] /\ left'[k] = left[k]
        /\ pc'[c] \in {"finding", "replying"}
    BY <1>0, <1>3, <2>0, ResultIs
  <2>2. Counted'
    BY <1>3, <2>1, CountKeeps
  <2>3. OneRuns'
    BY <1>3, <2>0, <2>1 DEF Once, OneRuns, Active
  <2>4. Fresh'
    BY <1>3, <2>1 DEF Once, Fresh, First
  <2> QED BY <1>0, <2>2, <2>3, <2>4 DEF Once
<1>4. ASSUME NEW c \in Call, Find(c) PROVE Once'
  <2>1. pc[c] \in Active
    BY <1>4 DEF Find, Active
  <2>2. log[First(c)] \in Answer
    BY <1>0, <1>4, <2>1, FirstIsLeast DEF Find, Typed, TypeOK, Busy, Answer
  <2> QED BY <1>3, <1>4, <2>2 DEF Find
<1>5. ASSUME NEW c \in Call, Reject(c) PROVE Once'
  BY <1>3, <1>5 DEF Reject, Answer
<1>6. ASSUME NEW c \in Call, Take(c) PROVE Once'
  <2>1. /\ log' = log /\ applied' = applied /\ outcome' = outcome /\ left' = left
        /\ \A k \in Call : pc'[k] = IF k = c THEN "handling" ELSE pc[k]
        /\ pc[c] = "finding" /\ log[First(c)] = None
    BY <1>0, <1>6 DEF Take, Typed, TypeOK
  <2>2. Counted'
    BY <2>1, CountKeeps
  <2>3. OneRuns' /\ Fresh'
    BY <2>1 DEF Once, OneRuns, Fresh, Active, First
  <2> QED BY <1>0, <2>2, <2>3 DEF Once
<1>7. ASSUME NEW c \in Call, HandlerReturns(c) PROVE Once'
  <2>1. /\ log' = log /\ left' = left /\ pc[c] = "handling"
        /\ \A k \in Call : pc'[k] = IF k = c THEN "logging" ELSE pc[k]
        /\ \A k \in Call : outcome'[k] = IF k = c THEN "APPLIED" ELSE outcome[k]
        /\ \A m \in Mutation : applied'[m] = IF m = First(c) THEN applied[m] + 1 ELSE applied[m]
    BY <1>0, <1>7 DEF HandlerReturns, Typed, TypeOK
  <2>2. \A k \in Call : First(k)' = First(k)
    BY <2>1 DEF First
  <2>3. OneRuns' /\ Fresh'
    BY <2>1, <2>2 DEF Once, OneRuns, Fresh, Active
  <2>4. \A k \in Call : pc[k] # "logging"
    BY <2>1 DEF Once, OneRuns, Active
  <2>5. \A m \in Mutation : ~ToLog(m) /\ (ToLog(m)' <=> m = First(c))
    BY <2>1, <2>2, <2>4 DEF ToLog
  <2>6. log[First(c)] = None /\ None # "APPLIED"
    BY <2>1, SyncPushAssumption DEF Once, Fresh
  <2>7. ASSUME NEW m \in Mutation PROVE Count(m)'
    <3>1. Count(m)
      BY DEF Once, Counted
    <3>2. CASE m = First(c)
      <4>1. applied[m] = 0
        BY <3>1, <3>2, <2>5, <2>6 DEF Count
      <4>2. applied'[m] = 1
        BY <4>1, <3>2, <2>1
      <4> QED BY <4>2, <3>2, <2>5 DEF Count
    <3>3. CASE m # First(c)
      BY <3>1, <3>3, <2>1, <2>5 DEF Count
    <3> QED BY <3>2, <3>3
  <2> QED BY <1>0, <2>3, <2>7 DEF Once, Counted
<1>8. ASSUME NEW c \in Call, HandlerThrows(c) PROVE Once'
  <2>1. /\ log' = log /\ left' = left /\ applied' = applied /\ pc[c] = "handling"
        /\ \A k \in Call : pc'[k] = IF k = c THEN "logging" ELSE pc[k]
        /\ \A k \in Call : outcome'[k] = IF k = c THEN "FAILED" ELSE outcome[k]
    BY <1>0, <1>8 DEF HandlerThrows, Typed, TypeOK
  <2>2. \A k \in Call : First(k)' = First(k)
    BY <2>1 DEF First
  <2>3. OneRuns' /\ Fresh'
    BY <2>1, <2>2 DEF Once, OneRuns, Fresh, Active
  <2>4. \A m \in Mutation : ToLog(m)' <=> ToLog(m)
    BY <2>1, <2>2 DEF ToLog
  <2>5. Counted'
    BY <2>1, <2>4 DEF Once, Counted, Count
  <2> QED BY <1>0, <2>3, <2>5 DEF Once
<1>9. ASSUME NEW c \in Call, Log(c) PROVE Once'
  <2>1. /\ pc[c] \in Active /\ pc[c] = "logging" /\ applied' = applied /\ outcome' = outcome
        /\ Result(c, outcome[c]) /\ log[First(c)] = None
    BY <1>9 DEF Log, Active
  <2>2. outcome[c] \in Outcome /\ outcome[c] \in Answer
    BY <1>0, <2>1 DEF Typed, Ended, Answer
  <2>3. /\ \A k \in Call : k # c => pc'[k] = pc[k] /\ left'[k] = left[k]
        /\ pc'[c] \in {"finding", "replying"} /\ First(c) \in Mutation
    BY <1>0, <2>1, <2>2, ResultIs
  <2>4. \A m \in Mutation : log'[m] = IF m = First(c) THEN outcome[c] ELSE log[m]
    BY <1>0, <1>9 DEF Log, Typed, TypeOK
  <2>5. \A k \in Call : k # c => ~Running(k)
    BY <2>1 DEF Once, OneRuns
  <2>6. OneRuns' /\ Fresh'
    BY <2>3, <2>5 DEF OneRuns, Fresh, Active
  <2>7. \A m \in Mutation : ~ToLog(m)' /\ (ToLog(m) <=> outcome[c] = "APPLIED" /\ m = First(c))
    BY <2>1, <2>3, <2>5 DEF ToLog, Active
  <2>8. Counted'
    <3> SUFFICES ASSUME NEW m \in Mutation PROVE Count(m)'
      BY DEF Counted
    <3>1. Count(m)
      BY DEF Once, Counted
    <3>2. CASE m = First(c)
      <4>1. log[m] # "APPLIED"
        BY <2>1, <3>2, SyncPushAssumption
      <4> QED BY <3>1, <3>2, <4>1, <2>1, <2>4, <2>7 DEF Count
    <3>3. CASE m # First(c)
      BY <3>1, <3>3, <2>1, <2>4, <2>7 DEF Count
    <3> QED BY <3>2, <3>3
  <2> QED BY <1>0, <2>6, <2>8 DEF Once
<1>10. ASSUME NEW c \in Call, LogClashes(c) PROVE Once'
  BY <1>10 DEF LogClashes, Once, Fresh
<1>11. ASSUME NEW c \in Call, Die(c) PROVE Once'
  BY <1>0, <1>11 DEF Die
<1>12. ASSUME NEW c \in Call, Deliver(c) \/ Lose(c) PROVE Once'
  <2>1. /\ log' = log /\ applied' = applied /\ outcome' = outcome /\ left' = left /\ pc[c] = "replying"
        /\ \A k \in Call : pc'[k] = IF k = c THEN "idle" ELSE pc[k]
    BY <1>0, <1>12 DEF Deliver, Lose, Typed, TypeOK
  <2>2. Counted'
    BY <2>1, CountKeeps
  <2>3. OneRuns' /\ Fresh'
    BY <2>1 DEF Once, OneRuns, Fresh, Active, First
  <2> QED BY <1>0, <2>2, <2>3 DEF Once
<1>13. CASE UNCHANGED vars
  <2>1. Counted'
    BY <1>13, CountKeeps DEF vars
  <2> QED BY <1>0, <1>13, <2>1 DEF vars, Once, OneRuns, Fresh, First
<1> QED BY <1>1, <1>2, <1>4, <1>5, <1>6, <1>7, <1>8, <1>9, <1>10, <1>11, <1>12, <1>13 DEF Next, Push

\* As long as requests neither die nor overlap, every mutation is executed
\* exactly once, although answers are lost and everything is sent again.
THEOREM OnceEach == Spec => []OnceUndisturbed
<1>1. Init => Once
  <2> SUFFICES ASSUME Init PROVE Once
    OBVIOUS
  <2>1. None # "APPLIED"
    BY SyncPushAssumption
  <2>2. OneRuns /\ Fresh
    BY DEF Init, OneRuns, Fresh, Running, Active
  <2>3. Counted
    BY <2>1 DEF Init, Counted, Count, ToLog
  <2> QED BY <2>2, <2>3, InitInv DEF Once
<1>2. Once => ExactlyOnce
  <2> SUFFICES ASSUME Once, NEW m \in Mutation
               PROVE  applied[m] <= 1 /\ (log[m] = "FAILED" => applied[m] = 0)
    BY DEF ExactlyOnce
  <2>1. Count(m)
    BY DEF Once, Counted
  <2>2. log[m] = "FAILED" => ~ToLog(m)
    BY SyncPushAssumption DEF ToLog, Once, Fresh
  <2> QED BY <2>1, <2>2 DEF Count
<1>3. (alone => Once) /\ [Next]_vars => (alone => Once)'
  <2> SUFFICES ASSUME alone => Once, [Next]_vars, alone' PROVE Once'
    OBVIOUS
  <2>1. alone
    BY DEF Next, Push, vars, device, Queue, Send, Find, Reject, Take, HandlerReturns, HandlerThrows,
           Log, LogClashes, Die, Deliver, Lose
  <2> QED BY <2>1, StepOnce
<1>4. (alone => Once) => OnceUndisturbed
  BY <1>2 DEF OnceUndisturbed
<1> QED BY <1>1, <1>3, <1>4, PTL DEF Spec

-----------------------------------------------------------------------------
(* Pull                                                                      *)

\* A cursor is never later than the stamp it is made of.
LEMMA MillisecondsBelow ==
  ASSUME NEW t \in Nat
  PROVE  Milliseconds(t) \in 0 .. t
<1>1. t % Tick \in 0 .. t
  BY SyncPullAssumption, Z3
<1> QED BY <1>1 DEF Milliseconds

-----------------------------------------------------------------------------
\* The cursor, the stamps and the pull under way keep their types: rounding
\* never takes the cursor past the clock.
THEOREM PullTypeCorrect == PullSpec => []PullTypeOK
<1> USE SyncPullAssumption DEF Time
<1>1. PullInit => PullTypeOK
  BY DEF PullInit, PullTypeOK, Closed, NoPull
<1>2. PullTypeOK /\ [PullNext]_pullVars => PullTypeOK'
  <2> SUFFICES ASSUME PullTypeOK, [PullNext]_pullVars PROVE PullTypeOK'
    OBVIOUS
  <2> USE DEF PullTypeOK
  <2>1. ASSUME NEW w \in Writer, NEW rows \in Bulk, Begin(w, rows) PROVE PullTypeOK'
    BY <2>1 DEF Begin, Bulk
  <2>2. ASSUME NEW w \in Writer, Commit(w) PROVE PullTypeOK'
    <3>1. open[w].at \in Time
      OBVIOUS
    <3>2. stamp' \in [Row -> Time]
      BY <2>2, <3>1 DEF Commit
    <3>3. open' \in [Writer -> [rows : SUBSET Row, at : Time]]
      BY <2>2 DEF Commit, Closed
    <3> QED BY <2>2, <3>2, <3>3 DEF Commit
  <2>3. ASSUME PullStart PROVE PullTypeOK'
    BY <2>3 DEF PullStart, NoPull
  <2>4. ASSUME NEW d \in Dataset, PullRead(d) PROVE PullTypeOK'
    <3>1. PICK P \in Pages(d), latest \in Time :
            pull' = [active |-> TRUE, left |-> pull.left \ {d}, since |-> pull.since, seen |-> latest,
                     got |-> [r \in Row |-> IF r \in P THEN stamp[r] ELSE pull.got[r]]]
      BY <2>4 DEF PullRead
    <3>2. [r \in Row |-> IF r \in P THEN stamp[r] ELSE pull.got[r]] \in [Row -> Time]
      OBVIOUS
    <3>3. pull' \in [active : BOOLEAN, left : SUBSET Dataset, since : Time, seen : Time, got : [Row -> Time]]
      BY <3>1, <3>2
    <3> QED BY <2>4, <3>3 DEF PullRead
  <2>5. ASSUME PullArrives PROVE PullTypeOK'
    <3>1. Milliseconds(pull.seen) \in Time
      BY MillisecondsBelow
    <3>2. held' \in [Row -> Time]
      BY <2>5 DEF PullArrives
    <3>3. pull' \in [active : BOOLEAN, left : SUBSET Dataset, since : Time, seen : Time, got : [Row -> Time]]
      BY <2>5 DEF PullArrives, NoPull
    <3> QED BY <2>5, <3>1, <3>2, <3>3 DEF PullArrives
  <2>6. ASSUME PullLost PROVE PullTypeOK'
    BY <2>6 DEF PullLost, NoPull
  <2>7. CASE UNCHANGED pullVars
    BY <2>7 DEF pullVars
  <2> QED BY <2>1, <2>2, <2>3, <2>4, <2>5, <2>6, <2>7 DEF PullNext, Pull
<1> QED BY <1>1, <1>2, PTL DEF PullSpec

-----------------------------------------------------------------------------
\* What w commits is later than the cursor, and if a pull is under way its dataset is
\* still to be read, or all have been and it is later than what they showed.
InTime(w) ==
  \A r \in open[w].rows :
    /\ open[w].at > cursor
    /\ pull.active => \/ DatasetOf[r] \in pull.left
                      \/ pull.left = {} /\ open[w].at > pull.seen

\* The page holds every newer row; or it is the last, and what it leaves out is later
\* than all that was read.
Whole(d) ==
  \/ Cardinality(Newer(d)) <= PullLimit
  \/ pull'.left = {} /\ \A r \in Newer(d) : pull'.got[r] = stamp[r] \/ stamp[r] > pull'.seen

Steady ==
  /\ \A w \in Writer : Commit(w) => InTime(w)
  /\ \A d \in Dataset : PullRead(d) => Whole(d)

\* What a pull has read is what is newer than the cursor, but for what came later than
\* all of it.
Reading ==
  pull.active =>
    /\ pull.since = cursor
    /\ \A r \in Row : pull.got[r] > 0 => DatasetOf[r] \notin pull.left /\ stamp[r] > cursor
    /\ \A r \in Row : DatasetOf[r] \notin pull.left /\ stamp[r] > cursor =>
                        pull.got[r] = stamp[r] \/ (pull.left = {} /\ stamp[r] > pull.seen)

PullInv == PullTypeOK /\ Reading /\ NothingBehindCursor

LEMMA Numbers ==
  ASSUME PullTypeOK
  PROVE  /\ clock \in Nat /\ cursor \in Nat /\ pull.seen \in Nat /\ pull.since \in Nat
         /\ \A r \in Row : stamp[r] \in Nat /\ held[r] \in Nat /\ pull.got[r] \in Nat
         /\ \A w \in Writer : open[w].at \in Nat /\ open[w].rows \subseteq Row
BY SyncPullAssumption DEF PullTypeOK, Time

LEMMA CommitKeeps ==
  ASSUME PullInv, PullTypeOK', NEW w \in Writer, Commit(w), InTime(w)
  PROVE  PullInv'
<1>1. cursor' = cursor /\ held' = held /\ pull' = pull
  BY DEF Commit
<1>2. \A r \in Row : stamp'[r] = IF r \in open[w].rows THEN open[w].at ELSE stamp[r]
  BY DEF Commit
<1>3. Reading'
  <2> SUFFICES ASSUME pull.active, NEW r \in Row
               PROVE  /\ pull.since = cursor
                      /\ pull.got[r] > 0 => DatasetOf[r] \notin pull.left /\ stamp'[r] > cursor
                      /\ DatasetOf[r] \notin pull.left /\ stamp'[r] > cursor =>
                           pull.got[r] = stamp'[r] \/ (pull.left = {} /\ stamp'[r] > pull.seen)
    BY <1>1 DEF Reading, PullInv
  <2>1. /\ pull.since = cursor
        /\ pull.got[r] > 0 => DatasetOf[r] \notin pull.left /\ stamp[r] > cursor
        /\ DatasetOf[r] \notin pull.left /\ stamp[r] > cursor =>
             pull.got[r] = stamp[r] \/ (pull.left = {} /\ stamp[r] > pull.seen)
    BY DEF Reading, PullInv
  <2>2. CASE r \in open[w].rows
    BY <1>2, <2>1, <2>2 DEF InTime
  <2>3. CASE r \notin open[w].rows
    BY <1>2, <2>1, <2>3
  <2> QED BY <2>2, <2>3
<1>4. NothingBehindCursor'
  <2> SUFFICES ASSUME NEW r \in Row, stamp'[r] > 0, stamp'[r] <= cursor PROVE held[r] = stamp'[r]
    BY <1>1 DEF NothingBehindCursor
  <2>1. r \notin open[w].rows
    <3> SUFFICES ASSUME r \in open[w].rows PROVE FALSE
      OBVIOUS
    <3>1. stamp'[r] = open[w].at /\ open[w].at > cursor
      BY <1>2 DEF InTime
    <3> QED BY <3>1, Numbers DEF PullInv
  <2> QED BY <1>2, <2>1 DEF NothingBehindCursor, PullInv
<1> QED BY <1>3, <1>4 DEF PullInv

\* A page that is cut leaves only later rows out.
LEMMA ReadKeeps ==
  ASSUME PullInv, PullTypeOK', NEW d \in Dataset, PullRead(d), Whole(d)
  PROVE  PullInv'
<1>1. PICK P \in Pages(d), latest \in Time :
        pull' = [active |-> TRUE, left |-> pull.left \ {d}, since |-> pull.since, seen |-> latest,
                 got |-> [r \in Row |-> IF r \in P THEN stamp[r] ELSE pull.got[r]]]
  BY DEF PullRead
<1>2. /\ stamp' = stamp /\ cursor' = cursor /\ held' = held
      /\ pull.active /\ d \in pull.left /\ pull.since = cursor
  BY DEF PullRead, PullInv, Reading
<1>3. /\ pull'.left = pull.left \ {d} /\ pull'.since = cursor
      /\ \A r \in Row : pull'.got[r] = IF r \in P THEN stamp[r] ELSE pull.got[r]
  BY <1>1, <1>2
<1>4. P \subseteq Newer(d) /\ (Cardinality(Newer(d)) <= PullLimit => P = Newer(d))
  BY DEF Pages
<1>5. Newer(d) = {r \in Row : DatasetOf[r] = d /\ stamp[r] > cursor}
  BY <1>2 DEF Newer
<1>6. Reading'
  <2> SUFFICES ASSUME NEW r \in Row
               PROVE  /\ pull'.got[r] > 0 => DatasetOf[r] \notin pull'.left /\ stamp[r] > cursor
                      /\ DatasetOf[r] \notin pull'.left /\ stamp[r] > cursor =>
                           pull'.got[r] = stamp[r] \/ (pull'.left = {} /\ stamp[r] > pull'.seen)
    BY <1>2, <1>3 DEF Reading
  <2>1. CASE r \in P
    BY <1>3, <1>4, <1>5, <2>1
  <2>2. CASE r \notin P /\ r \in Newer(d)
    <3>1. pull'.got[r] = stamp[r] \/ (pull'.left = {} /\ stamp[r] > pull'.seen)
      BY <1>4, <2>2 DEF Whole
    <3>2. DatasetOf[r] = d /\ stamp[r] > cursor /\ d \notin pull'.left
      BY <1>3, <1>5, <2>2
    <3> QED BY <3>1, <3>2
  <2>3. CASE r \notin Newer(d)
    <3>1. r \notin P /\ pull'.got[r] = pull.got[r]
      BY <1>3, <1>4, <2>3
    <3>2. /\ pull.got[r] > 0 => DatasetOf[r] \notin pull.left /\ stamp[r] > cursor
          /\ DatasetOf[r] \notin pull.left /\ stamp[r] > cursor => pull.got[r] = stamp[r]
      BY <1>2 DEF PullInv, Reading
    <3>3. stamp[r] > cursor => DatasetOf[r] # d
      BY <1>5, <2>3
    <3> QED BY <1>3, <3>1, <3>2, <3>3
  <2> QED BY <2>1, <2>2, <2>3
<1>7. NothingBehindCursor'
  BY <1>2 DEF PullInv, NothingBehindCursor
<1> QED BY <1>6, <1>7 DEF PullInv

LEMMA ArrivesKeeps ==
  ASSUME PullInv, PullTypeOK', PullArrives
  PROVE  PullInv'
<1>1. /\ stamp' = stamp /\ ~pull'.active /\ pull.active /\ pull.left = {}
      /\ cursor' = Milliseconds(pull.seen)
      /\ \A r \in Row : held'[r] = IF pull.got[r] > 0 THEN pull.got[r] ELSE held[r]
  BY DEF PullArrives, NoPull
<1>2. cursor' \in Nat /\ cursor' <= pull.seen /\ pull.seen \in Nat
  BY <1>1, MillisecondsBelow, Numbers DEF PullInv
<1>3. Reading'
  BY <1>1 DEF Reading
<1>4. ASSUME NEW r \in Row, stamp[r] > 0, stamp[r] <= cursor' PROVE held'[r] = stamp[r]
  <2>1. stamp[r] \in Nat /\ cursor \in Nat /\ pull.got[r] \in Nat /\ ~ (stamp[r] > pull.seen)
    BY <1>2, <1>4, Numbers DEF PullInv
  <2>2. CASE stamp[r] > cursor
    <3>1. pull.got[r] = stamp[r]
      BY <1>1, <2>1, <2>2 DEF PullInv, Reading
    <3> QED BY <1>1, <1>4, <3>1
  <2>3. CASE ~ (stamp[r] > cursor)
    <3>1. ~ (pull.got[r] > 0)
      BY <1>1, <2>3 DEF PullInv, Reading
    <3>2. stamp[r] <= cursor
      BY <2>1, <2>3
    <3>3. held[r] = stamp[r]
      BY <1>4, <3>2 DEF PullInv, NothingBehindCursor
    <3> QED BY <1>1, <3>1, <3>3
  <2> QED BY <2>2, <2>3
<1>5. NothingBehindCursor'
  BY <1>1, <1>4 DEF NothingBehindCursor
<1> QED BY <1>3, <1>5 DEF PullInv

\* As long as transactions commit in time and pages are whole, no row the cursor has
\* passed is missing or outdated on the device: nothing else can leave one behind,
\* whatever is written together, at the same time or within a millisecond, and
\* whatever answers are lost.
THEOREM Complete == PullSpec /\ [][Steady]_pullVars => []NothingBehindCursor
<1>1. PullInit => PullInv
  <2> SUFFICES ASSUME PullInit PROVE PullInv
    OBVIOUS
  <2>1. PullTypeOK
    BY SyncPullAssumption DEF PullInit, PullTypeOK, Time, Closed, NoPull
  <2> QED BY <2>1 DEF PullInit, PullInv, Reading, NothingBehindCursor, NoPull
<1>2. PullInv /\ PullTypeOK' /\ [PullNext]_pullVars /\ [Steady]_pullVars => PullInv'
  <2> SUFFICES ASSUME PullInv, PullTypeOK', [PullNext]_pullVars, [Steady]_pullVars PROVE PullInv'
    OBVIOUS
  <2>1. CASE UNCHANGED pullVars
    BY <2>1 DEF pullVars, PullInv, Reading, NothingBehindCursor
  <2>2. CASE PullNext /\ Steady
    <3>1. ASSUME NEW w \in Writer, NEW rows, Begin(w, rows) PROVE PullInv'
      BY <3>1 DEF Begin, PullInv, Reading, NothingBehindCursor
    <3>2. ASSUME PullStart PROVE PullInv'
      <4>1. /\ stamp' = stamp /\ cursor' = cursor /\ held' = held
            /\ pull'.since = cursor /\ pull'.left = Dataset /\ \A r \in Row : pull'.got[r] = 0
        BY <3>2 DEF PullStart, NoPull
      <4>2. \A r \in Row : DatasetOf[r] \in Dataset
        BY SyncPullAssumption
      <4> QED BY <4>1, <4>2 DEF PullInv, Reading, NothingBehindCursor
    <3>3. ASSUME PullLost PROVE PullInv'
      BY <3>3 DEF PullLost, NoPull, PullInv, Reading, NothingBehindCursor
    <3>4. ASSUME NEW w \in Writer, Commit(w) PROVE PullInv'
      BY <2>2, <3>4, CommitKeeps DEF Steady
    <3>5. ASSUME NEW d \in Dataset, PullRead(d) PROVE PullInv'
      BY <2>2, <3>5, ReadKeeps DEF Steady
    <3> QED BY <2>2, <3>1, <3>2, <3>3, <3>4, <3>5, ArrivesKeeps DEF PullNext, Pull
  <2> QED BY <2>1, <2>2
<1>3. PullInv => NothingBehindCursor
  BY DEF PullInv
<1> QED BY <1>1, <1>2, <1>3, PullTypeCorrect, PTL DEF PullSpec
=============================================================================
