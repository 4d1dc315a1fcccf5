------------------------------ MODULE Requests ------------------------------
(***************************************************************************)
(* Requests of the API as the business modules see them.  A handler runs   *)
(* from one await to the next without interruption; between two awaits     *)
(* other requests run.  call[c] is what request c holds in memory and where *)
(* it stands; it dies when its process does or when a query throws, and    *)
(* what it has saved by then stays.                                        *)
(*                                                                         *)
(* Most handlers check a row they read and save it later, without a lock.  *)
(* disjoint says that no two requests that touch a common row have         *)
(* overlapped so far, faults counts the requests that died: the conditions *)
(* of some properties.                                                     *)
(*                                                                         *)
(* save() reads the row once more and writes the columns that differ from  *)
(* it.  As long as requests for the row do not overlap that comes to the   *)
(* same as writing the row as it is in memory, which is what a save does   *)
(* in the modules whose properties are about such requests.                *)
(***************************************************************************)
EXTENDS Integers, Sequences, FiniteSets

CONSTANTS
  Call,     \* requests that may be under way at the same time
  MaxFaults \* bound: requests that die

ASSUME RequestsAssumption == MaxFaults \in Nat

VARIABLES
  call,
  touches,   \* touches[c]: the rows request c works on
  disjoint,
  faults

requestVars == <<call, touches, disjoint, faults>>

Idle == [pc |-> "idle"]

RequestsInit ==
  /\ call = [c \in Call |-> Idle]
  /\ touches = [c \in Call |-> {}]
  /\ disjoint = TRUE
  /\ faults = 0

At(c, pc) == call[c].pc = pc

\* The request arrives and runs to its first await.
Arrive(c, rows, next) ==
  /\ call[c] = Idle
  /\ call' = [call EXCEPT ![c] = next]
  /\ touches' = [touches EXCEPT ![c] = rows]
  /\ disjoint' = (disjoint /\ \A d \in Call : touches[d] \intersect rows = {})
  /\ UNCHANGED faults

\* It runs on to its next await.
Await(c, next) ==
  /\ call' = [call EXCEPT ![c] = next]
  /\ UNCHANGED <<touches, disjoint, faults>>

\* It runs to its end: it answers, or throws.
Answer(c) ==
  /\ call' = [call EXCEPT ![c] = Idle]
  /\ touches' = [touches EXCEPT ![c] = {}]
  /\ UNCHANGED <<disjoint, faults>>

\* The request dies at an await, or the query it waits for throws.
Perish(c) ==
  /\ call[c] # Idle
  /\ faults < MaxFaults /\ faults' = faults + 1
  /\ call' = [call EXCEPT ![c] = Idle]
  /\ touches' = [touches EXCEPT ![c] = {}]
  /\ UNCHANGED disjoint

Undisturbed == disjoint /\ faults = 0
Quiet == \A c \in Call : call[c] = Idle
=============================================================================
