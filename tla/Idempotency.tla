----------------------------- MODULE Idempotency -----------------------------
(***************************************************************************)
(* Idempotent POST requests: IdempotencyInterceptor of                     *)
(* common/idempotency/idempotency.interceptor.ts and its table             *)
(* idempotency_keys, one row per (tenant, hash of user, method, path and   *)
(* client key).  A request without the header never meets the table and is *)
(* left out; requests with the same Key are the retries and double submits *)
(* of one call, served by any of the API processes.                        *)
(*                                                                         *)
(* A request is interleaved at its awaits: the insert that reserves the    *)
(* slot, the handler, the update that stores the response, the delete that *)
(* releases the slot and the read of a loser.  Any of them may fail, and   *)
(* the row may show its effect all the same.  A response is represented by *)
(* the request whose handler produced it.                                  *)
(***************************************************************************)
EXTENDS Integers, FiniteSets

CONSTANTS
  Request,    \* the POSTs of one behaviour
  Key,        \* scope hashes
  KeyOf,      \* KeyOf[r]: the scope hash of request r
  Instance,   \* API processes
  At,         \* At[r]: the process that serves request r
  NoResponse, \* no response
  MaxCrashes, \* bound: crashes in one behaviour
  MaxFaults   \* bound: failing queries in one behaviour

ASSUME IdempotencyAssumption ==
  /\ KeyOf \in [Request -> Key]
  /\ At \in [Request -> Instance]
  /\ NoResponse \notin Request
  /\ MaxCrashes \in Nat /\ MaxFaults \in Nat

VARIABLES
  row,     \* row[k]: the row of key k
  stage,   \* stage[r]: where request r stands
  answer,  \* answer[r]: the response request r was answered with
  ran,     \* history: the requests whose handler took effect
  faults,
  crashes

postVars == <<row, stage, answer, ran, faults, crashes>>

Free == [status |-> "free", response |-> NoResponse]
InProgress == [status |-> "in_progress", response |-> NoResponse]
Completed(r) == [status |-> "done", response |-> r]

\* Before, inside and after intercept().
InFlight == {"handling", "storing", "releasing"}
Over == {"answered", "replayed", "conflict", "error", "lost"}

PostTypeOK ==
  /\ row \in [Key -> {Free, InProgress} \union {Completed(r) : r \in Request}]
  /\ stage \in [Request -> {"new", "reading"} \union InFlight \union Over]
  /\ answer \in [Request -> Request \union {NoResponse}]
  /\ ran \subseteq Request
  /\ faults \in 0 .. MaxFaults
  /\ crashes \in 0 .. MaxCrashes

PostInit ==
  /\ row = [k \in Key |-> Free]
  /\ stage = [r \in Request |-> "new"]
  /\ answer = [r \in Request |-> NoResponse]
  /\ ran = {}
  /\ faults = 0 /\ crashes = 0

-----------------------------------------------------------------------------
Goto(r, label) == stage' = [stage EXCEPT ![r] = label]
SetRow(r, new) == row' = [row EXCEPT ![KeyOf[r]] = new]
Fault == faults < MaxFaults /\ faults' = faults + 1

\* The insert succeeds: the slot is won and the handler starts.
Reserve(r) ==
  /\ stage[r] = "new" /\ row[KeyOf[r]] = Free
  /\ SetRow(r, InProgress)
  /\ Goto(r, "handling")
  /\ UNCHANGED <<answer, ran, faults, crashes>>

\* Unique violation: another request holds the slot or has stored its response.
ReserveLoses(r) ==
  /\ stage[r] = "new" /\ row[KeyOf[r]] # Free
  /\ Goto(r, "reading")
  /\ UNCHANGED <<row, answer, ran, faults, crashes>>

\* Any other error is the client's, before the handler is reached.
ReserveFails(r) ==
  /\ stage[r] = "new" /\ Fault
  /\ \/ UNCHANGED row
     \/ row[KeyOf[r]] = Free /\ SetRow(r, InProgress)
  /\ Goto(r, "error")
  /\ UNCHANGED <<answer, ran, crashes>>

\* A handler is taken to be one transaction: its effect is all or nothing.
HandlerEnds(r) ==
  /\ stage[r] = "handling"
  /\ ran' = ran \union {r}
  /\ Goto(r, "storing")
  /\ UNCHANGED <<row, answer, faults, crashes>>

\* A slip of HandlerFails: the error goes straight to the client.
HandlerFailsThrough(r) ==
  /\ stage[r] = "handling"
  /\ Goto(r, "error")
  /\ UNCHANGED <<row, answer, ran, faults, crashes>>

HandlerFails(r) ==
  /\ stage[r] = "handling"
  /\ Goto(r, "releasing")
  /\ UNCHANGED <<row, answer, ran, faults, crashes>>

\* Slips of Store: the slot is freed, and the update is not restricted to the
\* request's own row.
StoreFrees(r) ==
  /\ stage[r] = "storing"
  /\ SetRow(r, Free)
  /\ Goto(r, "answered")
  /\ answer' = [answer EXCEPT ![r] = r]
  /\ UNCHANGED <<ran, faults, crashes>>
StoreEverywhere(r) ==
  /\ stage[r] = "storing"
  /\ row' = [k \in Key |-> IF row[k] = Free THEN Free ELSE Completed(r)]
  /\ Goto(r, "answered")
  /\ answer' = [answer EXCEPT ![r] = r]
  /\ UNCHANGED <<ran, faults, crashes>>

\* complete(): the response is stored, then sent.  The update matches no row
\* when the row is gone, which is no error.
Store(r) ==
  /\ stage[r] = "storing"
  /\ SetRow(r, IF row[KeyOf[r]] = Free THEN Free ELSE Completed(r))
  /\ Goto(r, "answered")
  /\ answer' = [answer EXCEPT ![r] = r]
  /\ UNCHANGED <<ran, faults, crashes>>

\* catchError is below complete(): its failure releases the slot like one of
\* the handler, although the handler took effect.
StoreFails(r) ==
  /\ stage[r] = "storing" /\ Fault
  /\ \/ UNCHANGED row
     \/ row[KeyOf[r]] # Free /\ SetRow(r, Completed(r))
  /\ Goto(r, "releasing")
  /\ UNCHANGED <<answer, ran, crashes>>

\* release(): the row is deleted whatever it holds.
Release(r) ==
  /\ stage[r] = "releasing"
  /\ SetRow(r, Free)
  /\ Goto(r, "error")
  /\ UNCHANGED <<answer, ran, faults, crashes>>

ReleaseFails(r) ==
  /\ stage[r] = "releasing" /\ Fault
  /\ UNCHANGED row \/ SetRow(r, Free)
  /\ Goto(r, "error")
  /\ UNCHANGED <<answer, ran, crashes>>

\* A slip of Replay: any row is taken for a stored response of the request.
ReplayUnchecked(r) ==
  /\ stage[r] = "reading" /\ row[KeyOf[r]] # Free
  /\ Goto(r, "replayed")
  /\ answer' = [answer EXCEPT ![r] = row[KeyOf[r]].response]
  /\ UNCHANGED <<row, ran, faults, crashes>>

\* The loser's read: the stored response ...
Replay(r) ==
  /\ stage[r] = "reading" /\ row[KeyOf[r]].status = "done"
  /\ Goto(r, "replayed")
  /\ answer' = [answer EXCEPT ![r] = row[KeyOf[r]].response]
  /\ UNCHANGED <<row, ran, faults, crashes>>

\* ... or 409: still in flight, or released since the insert.
Conflict(r) ==
  /\ stage[r] = "reading" /\ row[KeyOf[r]].status # "done"
  /\ Goto(r, "conflict")
  /\ UNCHANGED <<row, answer, ran, faults, crashes>>

ReadFails(r) ==
  /\ stage[r] = "reading" /\ Fault
  /\ Goto(r, "error")
  /\ UNCHANGED <<row, answer, ran, crashes>>

\* A process dies with the requests it serves.
Crash(i) ==
  /\ crashes < MaxCrashes /\ crashes' = crashes + 1
  /\ stage' = [r \in Request |->
       IF At[r] = i /\ stage[r] \in InFlight \union {"reading"} THEN "lost" ELSE stage[r]]
  /\ UNCHANGED <<row, answer, ran, faults>>

Step(r) ==
  \/ HandlerEnds(r) \/ HandlerFails(r)
  \/ Store(r) \/ Release(r)
  \/ Replay(r) \/ Conflict(r)

Terminated == (\A r \in Request : stage[r] \in Over) /\ UNCHANGED postVars

PostNext ==
  \/ \E r \in Request :
       \/ Reserve(r) \/ ReserveLoses(r) \/ Step(r)
       \/ ReserveFails(r) \/ StoreFails(r) \/ ReleaseFails(r) \/ ReadFails(r)
  \/ \E i \in Instance : Crash(i)
  \/ Terminated

PostSpec == PostInit /\ [][PostNext]_postVars

\* A request that has won its slot is carried to its end by a live process.
FairPostSpec == PostSpec /\ \A r \in Request : WF_postVars(Step(r))

-----------------------------------------------------------------------------
SameKey(q, r) == KeyOf[q] = KeyOf[r]

\* Two concurrent requests with one key never both find "no key yet": at any
\* time at most one of them is past the reservation, failures included.
OneHandler ==
  \A q, r \in Request :
    (q # r /\ SameKey(q, r)) => ~(stage[q] \in InFlight /\ stage[r] \in InFlight)

\* While no query fails, the calls with one key take effect at most once,
\* whatever crashes, retries and double submits there are.
EffectOnce ==
  faults = 0 => \A q, r \in ran : SameKey(q, r) => q = r

\* A retry is answered with the response of a call that took effect and that
\* had its key; as long as no query fails all of them get the same response.
ReplayIsGenuine ==
  \A r \in Request :
    stage[r] \in {"answered", "replayed"} =>
      /\ answer[r] \in ran /\ SameKey(answer[r], r)
      /\ faults = 0 => \A q \in Request :
           (SameKey(q, r) /\ answer[q] # NoResponse) => answer[q] = answer[r]

\* A response that is stored stays as it is, as long as no query fails: an
\* answer once given can be had again.
StoredForGood ==
  [][\A k \in Key : (row[k].status = "done" /\ faults' = 0) => row'[k] = row[k]]_postVars

\* A reservation ends, unless a crash or a failing query orphaned it.
ReservationEnds ==
  \A k \in Key : (row[k] = InProgress) ~> (row[k] # InProgress \/ faults + crashes > 0)
=============================================================================
