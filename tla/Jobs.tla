-------------------------------- MODULE Jobs --------------------------------
(***************************************************************************)
(* The durable job queue, JobsService of common/jobs/jobs.service.ts: rows *)
(* of sys_jobs, and the polling ticks of every API process, which the      *)
(* "jobs-worker" lease is meant to keep to one process at a time.          *)
(*                                                                         *)
(* A tick is interleaved at its awaits: the claim, the handler, the write  *)
(* that completes the job and the write of the catch block are steps of    *)
(* their own.  setInterval does not wait for a tick, so a process may have *)
(* several under way.  A write may fail; the row may hold it all the same  *)
(* (the answer was lost).  A process may die between any two steps.        *)
(*                                                                         *)
(* Time is counted in polling periods (POLL_MS).  run_at is kept as the    *)
(* periods to wait until it is due, negative once it is overdue; Horizon   *)
(* bounds how far overdue rows are told apart.  locked_by, lastError and   *)
(* completedAt are written and never read, and are left out.               *)
(*                                                                         *)
(* What the claim's UPDATE ... RETURNING answers is the library's affair.  *)
(* The annotation in claimNext and the tests expect the entities; TypeORM  *)
(* 0.3 on Postgres answers the pair of the rows and their count, whose     *)
(* first member, a list, is then taken for the job.  Both are modelled.    *)
(***************************************************************************)
EXTENDS Integers, FiniteSets

CONSTANTS
  Instance, Slot, Gone, Nobody, Ttl, Skew, MaxCrashes,  \* see Lease
  Answers,      \* what query() may answer to the claim
  Job,          \* jobs that may be enqueued
  NoJob,
  MaxAttempts,  \* MaxAttempts[j]: the maxAttempts job j is enqueued with
  MaxPerTick,   \* jobs one tick drains at most
  BackoffBase,  \* BACKOFF_BASE_MS, in polling periods
  Delays,       \* periods until the runAt of a job that is enqueued
  Horizon,      \* bound: periods an overdue row keeps aging
  MaxFaults,    \* bound: failing writes in one behaviour
  MaxRetries    \* bound: dead jobs an operator requeues in one behaviour

ASSUME JobsAssumption ==
  /\ Ttl \in Nat /\ Skew \in Nat /\ Skew <= Ttl /\ MaxCrashes \in Nat
  /\ Gone \notin Instance /\ Nobody \notin Instance /\ Gone # Nobody
  /\ MaxAttempts \in [Job -> Nat \ {0}]
  /\ MaxPerTick \in Nat \ {0}
  /\ BackoffBase \in Nat \ {0}
  /\ Delays \subseteq Nat
  /\ Horizon \in Nat
  /\ MaxFaults \in Nat /\ MaxRetries \in Nat
  /\ NoJob \notin Job
  /\ Answers \subseteq {"entities", "pair"}

VARIABLES
  job,     \* the rows: status, attempts, wait
  answer,  \* what query() answers, the same in a whole behaviour
  tick,    \* tick[i][s]: where tick s of process i stands
  lease, since, crashes,  \* see Lease
  faults,  \* failing writes so far
  retries, \* dead jobs requeued so far
  done     \* history: how often the handler of each job has succeeded (to 2)

leaseVars == <<lease, since, crashes>>
vars == <<job, answer, tick, lease, since, crashes, faults, retries, done>>

Status == {"absent", "PENDING", "RUNNING", "COMPLETED", "DEAD"}
Row == [status : Status, attempts : Nat, wait : Int]
Tick == [pc : {"idle", "polling", "running", "completing", "catching"},
         job : Job \union {NoJob}, attempts : Nat, drained : 0 .. MaxPerTick]
Idle == [pc |-> "idle", job |-> NoJob, attempts |-> 0, drained |-> 0]
Polling(n) == [pc |-> "polling", job |-> NoJob, attempts |-> 0, drained |-> n]
Busy(t) == t.pc \in {"running", "completing", "catching"}

\* The part of the state that the election of the leader is about.
Election == INSTANCE Lease WITH
  running <- [i \in Instance |-> {s \in Slot : tick[i][s].pc # "idle"}]

TypeOK ==
  /\ job \in [Job -> Row]
  /\ answer \in Answers
  /\ tick \in [Instance -> [Slot -> Tick]]
  /\ lease \in [holder : Instance \union {Gone, Nobody}, left : Election!Lefts]
  /\ since \in [Instance -> 0 .. Election!Stale]
  /\ crashes \in 0 .. MaxCrashes
  /\ faults \in 0 .. MaxFaults
  /\ retries \in 0 .. MaxRetries
  /\ done \in [Job -> 0 .. 2]

Init ==
  /\ job = [j \in Job |-> [status |-> "absent", attempts |-> 0, wait |-> 0]]
  /\ answer \in Answers
  /\ tick = [i \in Instance |-> [s \in Slot |-> Idle]]
  /\ Election!LeaseInit
  /\ faults = 0 /\ retries = 0
  /\ done = [j \in Job |-> 0]

-----------------------------------------------------------------------------
(* Callers                                                                   *)

Fresh(j, delay) == [job EXCEPT ![j] = [status |-> "PENDING", attempts |-> 0, wait |-> delay]]

Enqueue(j, delay) ==
  /\ job[j].status = "absent"
  /\ job' = Fresh(j, delay)
  /\ UNCHANGED <<answer, tick, leaseVars, faults, retries, done>>

\* A slip of RetryDead: the status is not part of the WHERE clause.
RetryAny(j) ==
  /\ job[j].status # "absent"
  /\ retries < MaxRetries /\ retries' = retries + 1
  /\ job' = Fresh(j, 0)
  /\ UNCHANGED <<answer, tick, leaseVars, faults, done>>

\* The operator's UPDATE ... WHERE id AND status = DEAD.
RetryDead(j) ==
  /\ job[j].status = "DEAD"
  /\ retries < MaxRetries /\ retries' = retries + 1
  /\ job' = Fresh(j, 0)
  /\ UNCHANGED <<answer, tick, leaseVars, faults, done>>

-----------------------------------------------------------------------------
(* A tick                                                                    *)

SetTick(i, s, t) == tick' = [tick EXCEPT ![i][s] = t]

\* A slip of StartTick: the answer of tryAcquire is not looked at.
StartTickUngated(i, s) ==
  /\ tick[i][s].pc = "idle"
  /\ SetTick(i, s, Polling(0))
  /\ UNCHANGED <<answer, job, leaseVars, faults, retries, done>>

\* The lease is won: the tick starts to poll.  A tick that loses ends at once.
StartTick(i, s) ==
  /\ tick[i][s].pc = "idle"
  /\ Election!TryAcquire(i)
  /\ SetTick(i, s, Polling(0))
  /\ UNCHANGED <<answer, job, faults, retries, done>>

\* A slip of Due: the claim does not look at the status.
DueAnyStatus(j) == job[j].status \in {"PENDING", "RUNNING"} /\ job[j].wait <= 0

Due(j) == job[j].status = "PENDING" /\ job[j].wait <= 0
Earliest(j) == Due(j) /\ \A k \in Job : Due(k) => job[j].wait <= job[k].wait

Claimed(j) ==
  [job EXCEPT ![j] = [status |-> "RUNNING", attempts |-> @.attempts + 1, wait |-> @.wait]]

\* claimNext: one UPDATE takes the due row that has waited longest.  The tick
\* goes on with the attempts the row was returned with.
Claim(i, s, j) ==
  /\ answer = "entities"
  /\ tick[i][s].pc = "polling" /\ tick[i][s].drained < MaxPerTick
  /\ Earliest(j)
  /\ job' = Claimed(j)
  /\ SetTick(i, s, [pc |-> "running", job |-> j, attempts |-> job[j].attempts + 1,
                    drained |-> tick[i][s].drained])
  /\ UNCHANGED <<answer, leaseVars, faults, retries, done>>

\* The row is claimed, or none is due: either way the list that is taken for the
\* job has no type, no id and no attempts, the catch block's update to an invalid
\* date throws, and the tick is over.
ClaimUnread(i, s) ==
  /\ answer = "pair"
  /\ tick[i][s].pc = "polling" /\ tick[i][s].drained < MaxPerTick
  /\ \/ (\A j \in Job : ~Due(j)) /\ UNCHANGED job
     \/ \E j \in Job : Earliest(j) /\ job' = Claimed(j)
  /\ SetTick(i, s, Idle)
  /\ UNCHANGED <<answer, leaseVars, faults, retries, done>>

\* The claim throws, in the database or after it: the tick is over.
ClaimFails(i, s) ==
  /\ tick[i][s].pc = "polling" /\ tick[i][s].drained < MaxPerTick
  /\ faults < MaxFaults /\ faults' = faults + 1
  /\ \/ UNCHANGED job
     \/ \E j \in Job : Earliest(j) /\ job' = Claimed(j)
  /\ SetTick(i, s, Idle)
  /\ UNCHANGED <<answer, leaseVars, retries, done>>

\* Nothing is due, or the batch is full.
StopTick(i, s) ==
  /\ tick[i][s].pc = "polling"
  /\ tick[i][s].drained = MaxPerTick \/ (answer = "entities" /\ \A j \in Job : ~Due(j))
  /\ SetTick(i, s, Idle)
  /\ UNCHANGED <<answer, job, leaseVars, faults, retries, done>>

HandlerSucceeds(i, s) ==
  /\ tick[i][s].pc = "running"
  /\ SetTick(i, s, [tick[i][s] EXCEPT !.pc = "completing"])
  /\ done' = [done EXCEPT ![tick[i][s].job] = IF @ < 2 THEN @ + 1 ELSE 2]
  /\ UNCHANGED <<answer, job, leaseVars, faults, retries>>

\* The handler rejects, or no handler is registered for the type.
HandlerThrows(i, s) ==
  /\ tick[i][s].pc = "running"
  /\ SetTick(i, s, [tick[i][s] EXCEPT !.pc = "catching"])
  /\ UNCHANGED <<answer, job, leaseVars, faults, retries, done>>

NextJob(i, s) == SetTick(i, s, Polling(tick[i][s].drained + 1))

Completed(j) == [job EXCEPT ![j].status = "COMPLETED"]

Complete(i, s) ==
  /\ tick[i][s].pc = "completing"
  /\ job' = Completed(tick[i][s].job)
  /\ NextJob(i, s)
  /\ UNCHANGED <<answer, leaseVars, faults, retries, done>>

\* The write stands inside the try block: its failure is caught like one of
\* the handler.
CompleteFails(i, s) ==
  /\ tick[i][s].pc = "completing"
  /\ faults < MaxFaults /\ faults' = faults + 1
  /\ job' \in {job, Completed(tick[i][s].job)}
  /\ SetTick(i, s, [tick[i][s] EXCEPT !.pc = "catching"])
  /\ UNCHANGED <<answer, leaseVars, retries, done>>

Backoff(n) == BackoffBase * 2 ^ (n - 1)

\* What the catch block writes, from the attempts it holds in memory.
Caught(t) ==
  IF t.attempts >= MaxAttempts[t.job]
    THEN [job EXCEPT ![t.job].status = "DEAD"]
    ELSE
      [job EXCEPT ![t.job] = [status |-> "PENDING", attempts |-> @.attempts,
                              wait |-> Backoff(t.attempts)]]

Catch(i, s) ==
  /\ tick[i][s].pc = "catching"
  /\ job' = Caught(tick[i][s])
  /\ NextJob(i, s)
  /\ UNCHANGED <<answer, leaseVars, faults, retries, done>>

\* The write of the catch block throws out of processNext and ends the tick.
CatchFails(i, s) ==
  /\ tick[i][s].pc = "catching"
  /\ faults < MaxFaults /\ faults' = faults + 1
  /\ job' \in {job, Caught(tick[i][s])}
  /\ SetTick(i, s, Idle)
  /\ UNCHANGED <<answer, leaseVars, retries, done>>

-----------------------------------------------------------------------------
(* The environment                                                           *)

\* Process i dies with its ticks.  Nothing ever looks at RUNNING rows again.
Crash(i) ==
  /\ Election!LoseHolder(i)
  /\ tick' = [tick EXCEPT ![i] = [s \in Slot |-> Idle]]
  /\ UNCHANGED <<answer, job, faults, retries, done>>

TimePasses ==
  /\ Election!Age
  /\ job' = [j \in Job |->
       IF job[j].status = "PENDING" /\ job[j].wait > -Horizon
         THEN [job[j] EXCEPT !.wait = @ - 1] ELSE job[j]]
  /\ UNCHANGED <<answer, tick, faults, retries, done>>

Step(i, s) ==
  \/ \E j \in Job : Claim(i, s, j)
  \/ ClaimUnread(i, s) \/ StopTick(i, s)
  \/ HandlerSucceeds(i, s) \/ HandlerThrows(i, s)
  \/ Complete(i, s) \/ Catch(i, s)

Next ==
  \/ \E j \in Job : (\E d \in Delays : Enqueue(j, d)) \/ RetryDead(j)
  \/ \E i \in Instance, s \in Slot :
       \/ StartTick(i, s) \/ Step(i, s)
       \/ ClaimFails(i, s) \/ CompleteFails(i, s) \/ CatchFails(i, s)
  \/ \E i \in Instance : Crash(i)
  \/ TimePasses

Spec == Init /\ [][Next]_vars

\* Timers fire and time passes; an await settles, so a tick under way goes on.
\* Nobody has to enqueue, to retry a dead job or to crash.
FairSpec ==
  /\ Spec
  /\ WF_vars(TimePasses)
  /\ \A i \in Instance, s \in Slot : WF_vars(StartTick(i, s)) /\ WF_vars(Step(i, s))

-----------------------------------------------------------------------------
\* "claiming stays safe even if two pollers ever overlap": no job is in the
\* hands of two ticks, whichever processes they belong to.
SingleRunner ==
  \A i1, i2 \in Instance : \A s1, s2 \in Slot :
    (Busy(tick[i1][s1]) /\ Busy(tick[i2][s2]) /\ tick[i1][s1].job = tick[i2][s2].job)
      => (i1 = i2 /\ s1 = s2)

\* What a tick holds is what the row says: the row is RUNNING with the attempts
\* the tick remembers, unless its completion was written and the answer lost.
HoldsItsRow ==
  \A i \in Instance, s \in Slot :
    Busy(tick[i][s]) =>
      /\ tick[i][s].job \in Job /\ tick[i][s].drained < MaxPerTick
      /\ tick[i][s].attempts = job[tick[i][s].job].attempts
      /\ \/ job[tick[i][s].job].status = "RUNNING"
         \/ tick[i][s].pc = "catching" /\ job[tick[i][s].job].status = "COMPLETED"

\* A job that waits has attempts left; one that is DEAD has used them all, and
\* nothing ever runs a job more often than maxAttempts between two retryDead.
AttemptsWithinLimit ==
  \A j \in Job :
    /\ job[j].attempts <= MaxAttempts[j]
    /\ job[j].status = "PENDING" => job[j].attempts < MaxAttempts[j]
    /\ job[j].status \in {"RUNNING", "COMPLETED"} => job[j].attempts >= 1
    /\ job[j].status = "DEAD" => job[j].attempts = MaxAttempts[j]

\* As long as no write fails, a handler that succeeded is never run to success
\* again, crashes and overlapping ticks included.
OnceWithoutFaults ==
  faults = 0 => \A j \in Job : done[j] <= 1

HeldBy(j) == {t \in Instance \X Slot : Busy(tick[t[1]][t[2]]) /\ tick[t[1]][t[2]].job = j}
Stranded(j) == job[j].status = "RUNNING" /\ HeldBy(j) = {}

\* Every job that waits is taken, although leaders die, backoffs delay it and a
\* tick may drain other jobs first; and if query() answers as the annotation says it
\* ends COMPLETED or DEAD, unless a crash or a failing write has stranded it.
ResolvesOrStranded ==
  \A j \in Job :
    (job[j].status = "PENDING")
      ~> \/ job[j].status \in {"COMPLETED", "DEAD"}
         \/ Stranded(j) /\ (crashes + faults > 0 \/ answer = "pair")

\* The ticks of the queue behave as the election of Lease demands.
LeaderElected == Election!Spec

\* "Durable one-shot work: survives restarts" (job-record.entity.ts, line 11).
SurvivesRestarts ==
  \A j \in Job :
    (job[j].status = "PENDING") ~> (job[j].status \in {"COMPLETED", "DEAD"})
=============================================================================
