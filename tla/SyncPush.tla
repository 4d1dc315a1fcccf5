------------------------------ MODULE SyncPush ------------------------------
(***************************************************************************)
(* The push half of the offline protocol: SyncService.push() of            *)
(* modules/sync/sync.service.ts.  A device keeps what its user did offline *)
(* in an outbox and posts it, again until it is answered.  The server      *)
(* looks each mutation up in its log, runs the handler of its type, and    *)
(* logs the outcome: three steps, with no transaction about them.          *)
(*                                                                         *)
(* There is one device: the log is keyed by device.  Mutations are         *)
(* numbered in the order they were queued.  The device is not in this      *)
(* repository; what it does is what the comments of the service expect.    *)
(***************************************************************************)
EXTENDS Integers

CONSTANTS
  N,         \* mutations of one behaviour
  Known,     \* those whose type has a handler
  Call,      \* requests that may be under way at one time
  None,
  MaxDeaths, \* bound: requests that die in the server
  MaxLosses  \* bound: answers lost on their way

Mutation == 1 .. N

ASSUME SyncPushAssumption ==
  /\ N \in Nat /\ Known \subseteq Mutation
  /\ None \notin {"APPLIED", "FAILED", "REJECTED"}
  /\ MaxDeaths \in Nat /\ MaxLosses \in Nat

VARIABLES
  queued,   \* how many mutations the device has queued so far
  told,     \* told[m]: what the device was answered for m
  log,      \* log[m]: the row of m in sync_mutations
  applied,  \* history: how often the effect of m took place
  pc,       \* pc[c]: where request c stands
  left,     \* left[c]: its mutations that are still to be handled
  outcome,  \* outcome[c]: how the handler of its first mutation ended
  reply,    \* reply[c][m]: its results so far
  alone,    \* history: no request has died, or been sent before another ended
  deaths, losses

device == <<queued, told>>
vars == <<queued, told, log, applied, pc, left, outcome, reply, alone, deaths, losses>>

Outcome == {"APPLIED", "FAILED"}
Answer == Outcome \union {"REJECTED"}
Active == {"finding", "handling", "logging"}

TypeOK ==
  /\ queued \in 0 .. N
  /\ told \in [Mutation -> Answer \union {None}]
  /\ log \in [Mutation -> Outcome \union {None}]
  /\ applied \in [Mutation -> Nat]
  /\ pc \in [Call -> Active \union {"idle", "replying"}]
  /\ left \in [Call -> SUBSET Mutation]
  /\ outcome \in [Call -> Outcome \union {None}]
  /\ reply \in [Call -> [Mutation -> Answer \union {None}]]
  /\ alone \in BOOLEAN
  /\ deaths \in 0 .. MaxDeaths /\ losses \in 0 .. MaxLosses

Init ==
  /\ queued = 0
  /\ told = [m \in Mutation |-> None]
  /\ log = [m \in Mutation |-> None]
  /\ applied = [m \in Mutation |-> 0]
  /\ pc = [c \in Call |-> "idle"]
  /\ left = [c \in Call |-> {}]
  /\ outcome = [c \in Call |-> None]
  /\ reply = [c \in Call |-> [m \in Mutation |-> None]]
  /\ alone = TRUE
  /\ deaths = 0 /\ losses = 0

-----------------------------------------------------------------------------
(* The device                                                                *)

Outbox == {m \in 1 .. queued : told[m] = None}

Queue ==
  /\ queued < N /\ queued' = queued + 1
  /\ UNCHANGED <<told, log, applied, pc, left, outcome, reply, alone, deaths, losses>>

\* A request carries the outbox; the device may send one while it has no
\* answer to another, which may still be running.
Send(c) ==
  /\ pc[c] = "idle" /\ Outbox # {}
  /\ pc' = [pc EXCEPT ![c] = "finding"]
  /\ left' = [left EXCEPT ![c] = Outbox]
  /\ reply' = [reply EXCEPT ![c] = [m \in Mutation |-> None]]
  /\ alone' = (alone /\ \A k \in Call : pc[k] = "idle")
  /\ UNCHANGED <<device, log, applied, outcome, deaths, losses>>

Deliver(c) ==
  /\ pc[c] = "replying"
  /\ told' = [m \in Mutation |-> IF reply[c][m] # None THEN reply[c][m] ELSE told[m]]
  /\ pc' = [pc EXCEPT ![c] = "idle"]
  /\ UNCHANGED <<queued, log, applied, left, outcome, reply, alone, deaths, losses>>

Lose(c) ==
  /\ pc[c] = "replying" /\ losses < MaxLosses
  /\ losses' = losses + 1
  /\ pc' = [pc EXCEPT ![c] = "idle"]
  /\ UNCHANGED <<device, log, applied, left, outcome, reply, alone, deaths>>

-----------------------------------------------------------------------------
(* push()                                                                    *)

First(c) == CHOOSE m \in left[c] : \A n \in left[c] : m <= n

\* The result of the first mutation is pushed and the loop goes on.
Result(c, a) ==
  /\ reply' = [reply EXCEPT ![c] = [reply[c] EXCEPT ![First(c)] = a]]
  /\ left' = [left EXCEPT ![c] = left[c] \ {First(c)}]
  /\ pc' = [pc EXCEPT ![c] = IF left[c] = {First(c)} THEN "replying" ELSE "finding"]

\* The mutation is in the log: its stored outcome is the answer.
Find(c) ==
  /\ pc[c] = "finding" /\ log[First(c)] # None
  /\ Result(c, log[First(c)])
  /\ UNCHANGED <<device, log, applied, outcome, alone, deaths, losses>>

\* A type without a handler is answered and not logged.
Reject(c) ==
  /\ pc[c] = "finding" /\ log[First(c)] = None /\ First(c) \notin Known
  /\ Result(c, "REJECTED")
  /\ UNCHANGED <<device, log, applied, outcome, alone, deaths, losses>>

\* A slip of Take: a mutation that failed is given another try.
TakeUnlessApplied(c) ==
  /\ pc[c] = "finding" /\ log[First(c)] # "APPLIED" /\ First(c) \in Known
  /\ pc' = [pc EXCEPT ![c] = "handling"]
  /\ UNCHANGED <<device, log, applied, left, outcome, reply, alone, deaths, losses>>

Take(c) ==
  /\ pc[c] = "finding" /\ log[First(c)] = None /\ First(c) \in Known
  /\ pc' = [pc EXCEPT ![c] = "handling"]
  /\ UNCHANGED <<device, log, applied, left, outcome, reply, alone, deaths, losses>>

HandlerReturns(c) ==
  /\ pc[c] = "handling"
  /\ applied' = [applied EXCEPT ![First(c)] = @ + 1]
  /\ outcome' = [outcome EXCEPT ![c] = "APPLIED"]
  /\ pc' = [pc EXCEPT ![c] = "logging"]
  /\ UNCHANGED <<device, log, left, reply, alone, deaths, losses>>

\* A slip of HandlerThrows: the error is not caught.
HandlerThrowsThrough(c) ==
  /\ pc[c] = "handling"
  /\ pc' = [pc EXCEPT ![c] = "idle"]
  /\ UNCHANGED <<device, log, applied, left, outcome, reply, alone, deaths, losses>>

\* A handler is a transaction of its own: when it throws it has done nothing.
HandlerThrows(c) ==
  /\ pc[c] = "handling"
  /\ outcome' = [outcome EXCEPT ![c] = "FAILED"]
  /\ pc' = [pc EXCEPT ![c] = "logging"]
  /\ UNCHANGED <<device, log, applied, left, reply, alone, deaths, losses>>

\* A slip of Log: only successes are logged.
LogApplied(c) ==
  /\ pc[c] = "logging" /\ log[First(c)] = None
  /\ log' = [log EXCEPT ![First(c)] = IF outcome[c] = "APPLIED" THEN "APPLIED" ELSE None]
  /\ Result(c, outcome[c])
  /\ UNCHANGED <<device, applied, outcome, alone, deaths, losses>>

Log(c) ==
  /\ pc[c] = "logging" /\ log[First(c)] = None
  /\ log' = [log EXCEPT ![First(c)] = outcome[c]]
  /\ Result(c, outcome[c])
  /\ UNCHANGED <<device, applied, outcome, alone, deaths, losses>>

\* A slip of LogClashes: the error is swallowed.
LogClashesSilently(c) ==
  /\ pc[c] = "logging" /\ log[First(c)] # None
  /\ Result(c, outcome[c])
  /\ UNCHANGED <<device, log, applied, outcome, alone, deaths, losses>>

\* Another request has logged the mutation: the unique index makes the save
\* throw, and the whole request fails.
LogClashes(c) ==
  /\ pc[c] = "logging" /\ log[First(c)] # None
  /\ pc' = [pc EXCEPT ![c] = "idle"]
  /\ UNCHANGED <<device, log, applied, left, outcome, reply, alone, deaths, losses>>

\* The process or a query dies under the request.
Die(c) ==
  /\ pc[c] \in Active /\ deaths < MaxDeaths
  /\ deaths' = deaths + 1
  /\ alone' = FALSE
  /\ pc' = [pc EXCEPT ![c] = "idle"]
  /\ UNCHANGED <<device, log, applied, left, outcome, reply, losses>>

-----------------------------------------------------------------------------
Push(c) ==
  \/ Find(c) \/ Reject(c) \/ Take(c)
  \/ HandlerReturns(c) \/ HandlerThrows(c)
  \/ Log(c) \/ LogClashes(c)

Next == Queue \/ \E c \in Call : Send(c) \/ Push(c) \/ Die(c) \/ Deliver(c) \/ Lose(c)

\* A request that does not die gets on, an answer that is not lost arrives, and
\* the device sends again while its outbox is not empty.
Fairness == \A c \in Call : WF_vars(Send(c)) /\ WF_vars(Push(c)) /\ WF_vars(Deliver(c))

Spec == Init /\ [][Next]_vars
FairSpec == Spec /\ Fairness

-----------------------------------------------------------------------------
\* "retries get the stored outcome back" (sync-mutation.entity.ts, line 11):
\* whatever dies, overlaps or is lost, all answers to a mutation are one, the
\* logged one, and APPLIED is never said of what was not done.
AnswerIsOutcome ==
  \A m \in Mutation :
    /\ told[m] \in Outcome => log[m] = told[m]
    /\ \A c \in Call : reply[c][m] \in Outcome => log[m] = reply[c][m]
    /\ log[m] = "APPLIED" => applied[m] > 0

\* Mutations take effect in the order the user made them: none does before all
\* earlier ones have their outcome in the log.
InOrder ==
  \A n \in Mutation : applied[n] > 0 => \A m \in 1 .. n - 1 : m \in Known => log[m] # None

\* "every queued action executes exactly once" (sync-mutation.entity.ts, line
\* 11): no effect takes place twice, or for a mutation that is said to have
\* failed.
ExactlyOnce ==
  \A m \in Mutation : applied[m] <= 1 /\ (log[m] = "FAILED" => applied[m] = 0)

\* That holds as long as requests do not die, and each is sent after the one
\* before it ended: retries for lost answers, and failures, do no harm.
OnceUndisturbed == alone => ExactlyOnce

\* Everything the device queues is answered in the end, failures included,
\* although requests die and clash and answers get lost.
OutboxDrains == <>[](Outbox = {})
=============================================================================
