------------------------------ MODULE Workflow ------------------------------
(***************************************************************************)
(* The approval engine: WorkflowService of modules/workflow, the instances *)
(* that run through a definition, and the edits the approval matrix makes  *)
(* to a definition while instances of it are under way.                    *)
(*                                                                         *)
(* A definition is the chain of its steps' approvers, as the matrix builds *)
(* it: the step after n is n + 1, and the ids step-1, step-2, ... are      *)
(* their numbers.  Users, roles and managers are resolved to the set of    *)
(* users they stand for, which may be empty; a step without approvers is   *)
(* open to every User.                                                     *)
(*                                                                         *)
(* approveStep and rejectStep are interleaved at their awaits: the read of *)
(* the instance, the read of the definition, the save and the event.  The  *)
(* save is what TypeORM's Repository.save() does: it reads the row again,  *)
(* compares it with the entity in memory, and then updates the columns     *)
(* that differ.  It compares no version, so the column is left out.        *)
(***************************************************************************)
EXTENDS Integers, Sequences, FiniteSets

CONSTANTS
  Instance, \* workflow instances that may be started
  User,
  Call,     \* concurrent calls of approveStep and rejectStep
  Chains,   \* chains of approvers a definition may be given
  MaxEdits, \* bound: edits of the definition
  MaxFaults \* bound: failing saves and calls that die

ASSUME WorkflowAssumption ==
  /\ Chains \subseteq Seq(SUBSET User)
  /\ MaxEdits \in Nat /\ MaxFaults \in Nat

VARIABLES
  chain,     \* steps of the definition
  active,    \* isActive of the definition
  row,       \* the instances
  initiator, \* initiatorId of each instance that was started
  call,      \* the calls under way
  events,    \* events[w][e]: how often event e was emitted for w (to 2)
  decided,   \* history: the decisions a call has come to, saved or not
  disjoint,  \* history: no two calls for one instance have overlapped
  edits, faults

vars == <<chain, active, row, initiator, call, events, decided, disjoint, edits, faults>>

Verb == {"approved", "rejected"}
Status == {"absent", "in_progress", "approved", "rejected"}
Entry == [step : Nat, action : Verb, by : User]

\* currentStep null is 0.
Column == {"status", "step", "history"}
Row == [status : Status, step : Nat, history : Seq(Entry)]
Absent == [status |-> "absent", step |-> 0, history |-> <<>>]

\* seen is the entity a call holds in memory, differ the columns its save found
\* different.
Idle == [pc |-> "idle"]
Acting == [pc : {"loaded", "deciding", "writing"}, w : Instance, by : User, verb : Verb,
           seen : Row, differ : SUBSET Column]
Emitting == [pc : {"emitting"}, w : Instance, verb : Verb]

TypeOK ==
  /\ chain \in Chains
  /\ active \in BOOLEAN
  /\ row \in [Instance -> Row]
  /\ initiator \in [Instance -> User]
  /\ call \in [Call -> Acting \union Emitting \union {Idle}]
  /\ events \in [Instance -> [Verb -> 0 .. 2]]
  /\ decided \in [Instance -> SUBSET Entry]
  /\ disjoint \in BOOLEAN
  /\ edits \in 0 .. MaxEdits
  /\ faults \in 0 .. MaxFaults

Init ==
  /\ chain \in Chains
  /\ active = TRUE
  /\ row = [w \in Instance |-> Absent]
  /\ initiator \in [Instance -> User]
  /\ call = [c \in Call |-> Idle]
  /\ events = [w \in Instance |-> [v \in Verb |-> 0]]
  /\ decided = [w \in Instance |-> {}] /\ disjoint = TRUE
  /\ edits = 0 /\ faults = 0

-----------------------------------------------------------------------------
(* The definition: what the rules of the approval matrix do to it.           *)

Edit == edits < MaxEdits /\ edits' = edits + 1

\* updateRule: syncDefinition saves the steps anew, whatever instances are
\* under way.  The matrix demands at least one approver.
EditChain ==
  /\ chain # <<>> /\ Edit
  /\ chain' \in Chains \ {<<>>} /\ active' \in BOOLEAN
  /\ UNCHANGED <<row, initiator, call, events, decided, disjoint, faults>>

\* deleteRule retires the definition; its instances go on.
Retire ==
  /\ Edit
  /\ active' = FALSE
  /\ UNCHANGED <<chain, row, initiator, call, events, decided, disjoint, faults>>

\* startWorkflow: without a first step the instance is approved at once, and
\* no event says so.
Start(w) ==
  /\ active /\ row[w].status = "absent"
  /\ row' = [row EXCEPT ![w] =
       [status |-> IF chain = <<>> THEN "approved" ELSE "in_progress",
        step |-> IF chain = <<>> THEN 0 ELSE 1, history |-> <<>>]]
  /\ UNCHANGED <<chain, active, initiator, call, events, decided, disjoint, edits, faults>>

-----------------------------------------------------------------------------
(* approveStep and rejectStep                                                *)

SetCall(c, new) == call' = [call EXCEPT ![c] = new]

\* A slip of Load: the step the caller names is not compared with the current one.
LoadUnchecked(c, w, u, v) ==
  /\ call[c] = Idle
  /\ row[w].status # "absent" /\ initiator[w] # u
  /\ \E n \in DOMAIN chain :
       SetCall(c, [pc |-> "loaded", w |-> w, by |-> u, verb |-> v, seen |-> [row[w] EXCEPT !.step = n],
                   differ |-> {}])
  /\ disjoint' = (disjoint /\ \A d \in Call : call[d] # Idle => call[d].w # w)
  /\ UNCHANGED <<chain, active, row, initiator, events, decided, edits, faults>>

\* The instance is at the step the caller names, and is not the caller's own.
\* (A finished one has no current step.)
Load(c, w, u, v) ==
  /\ call[c] = Idle
  /\ row[w].step # 0 /\ initiator[w] # u
  /\ SetCall(c, [pc |-> "loaded", w |-> w, by |-> u, verb |-> v, seen |-> row[w], differ |-> {}])
  /\ disjoint' = (disjoint /\ \A d \in Call : call[d] # Idle => call[d].w # w)
  /\ UNCHANGED <<chain, active, row, initiator, events, decided, edits, faults>>

\* The approvers of a step that is not (or no longer) in the definition are
\* the empty list, like those of an open one.
Authorized(n, u) == n \in DOMAIN chain => u \in chain[n]

OnApproveNext(n) == IF n < Len(chain) THEN n + 1 ELSE 0

Decision(t) == [step |-> t.seen.step, action |-> t.verb, by |-> t.by]

Outcome(t) ==
  LET next == IF t.verb = "approved" THEN OnApproveNext(t.seen.step) ELSE 0
  IN [status  |-> IF next # 0 THEN "in_progress" ELSE t.verb,
      step    |-> next,
      history |-> Append(t.seen.history, Decision(t))]

\* The definition is read; the entity is changed in memory.
Decide(c) ==
  /\ call[c].pc = "loaded" /\ Authorized(call[c].seen.step, call[c].by)
  /\ SetCall(c, [call[c] EXCEPT !.pc = "deciding", !.seen = Outcome(call[c])])
  /\ decided' = [decided EXCEPT ![call[c].w] = @ \union {Decision(call[c])}]
  /\ UNCHANGED <<chain, active, row, initiator, events, disjoint, edits, faults>>

Forbidden(c) ==
  /\ call[c].pc = "loaded" /\ ~Authorized(call[c].seen.step, call[c].by)
  /\ SetCall(c, Idle)
  /\ UNCHANGED <<chain, active, row, initiator, events, decided, disjoint, edits, faults>>

\* save() reads the row again and compares.
Compare(c) ==
  /\ call[c].pc = "deciding"
  /\ SetCall(c, [call[c] EXCEPT !.pc = "writing",
                                !.differ = {f \in Column : call[c].seen[f] # row[call[c].w][f]}])
  /\ UNCHANGED <<chain, active, row, initiator, events, decided, disjoint, edits, faults>>

\* The UPDATE of the columns that differed.
Saved(t) ==
  [row EXCEPT ![t.w] =
     [status  |-> IF "status" \in t.differ THEN t.seen.status ELSE @.status,
      step    |-> IF "step" \in t.differ THEN t.seen.step ELSE @.step,
      history |-> IF "history" \in t.differ THEN t.seen.history ELSE @.history]]

\* Slips of AfterSave: only approvals are announced; every decision is announced.
AfterSaveApproved(t) ==
  IF t.seen.status # "approved" THEN Idle ELSE [pc |-> "emitting", w |-> t.w, verb |-> t.verb]
AfterSaveAlways(t) == [pc |-> "emitting", w |-> t.w, verb |-> t.verb]

\* What happens after the save: an event if the entity in memory has ended.
AfterSave(t) ==
  IF t.seen.status = "in_progress" THEN Idle ELSE [pc |-> "emitting", w |-> t.w, verb |-> t.verb]

Save(c) ==
  /\ call[c].pc = "writing"
  /\ row' = Saved(call[c])
  /\ SetCall(c, AfterSave(call[c]))
  /\ UNCHANGED <<chain, active, initiator, events, decided, disjoint, edits, faults>>

\* The save throws, with or without effect, and no event is emitted.
SaveFails(c) ==
  /\ call[c].pc \in {"deciding", "writing"} /\ faults < MaxFaults /\ faults' = faults + 1
  /\ \/ UNCHANGED row
     \/ call[c].pc = "writing" /\ row' = Saved(call[c])
  /\ SetCall(c, Idle)
  /\ UNCHANGED <<chain, active, initiator, events, decided, disjoint, edits>>

\* emit() never throws.
Emit(c) ==
  /\ call[c].pc = "emitting"
  /\ events' = [events EXCEPT ![call[c].w][call[c].verb] = IF @ < 2 THEN @ + 1 ELSE 2]
  /\ SetCall(c, Idle)
  /\ UNCHANGED <<chain, active, row, initiator, decided, disjoint, edits, faults>>

\* The process that serves the call dies.
Die(c) ==
  /\ call[c] # Idle /\ faults < MaxFaults /\ faults' = faults + 1
  /\ SetCall(c, Idle)
  /\ UNCHANGED <<chain, active, row, initiator, events, decided, disjoint, edits>>

Step(c) == Decide(c) \/ Forbidden(c) \/ Compare(c) \/ Save(c) \/ Emit(c)

Next ==
  \/ EditChain \/ Retire
  \/ \E w \in Instance : Start(w)
  \/ \E c \in Call :
       \/ \E w \in Instance, u \in User, v \in Verb : Load(c, w, u, v)
       \/ Step(c) \/ SaveFails(c) \/ Die(c)

Spec == Init /\ [][Next]_vars

\* A call that has read its instance is carried to its end by a live process.
FairSpec == Spec /\ \A c \in Call : WF_vars(Step(c))

-----------------------------------------------------------------------------
Approved(w, n) == \E d \in decided[w] : d.step = n /\ d.action = "approved"
ApprovedBefore(w, n) == \A i \in 1 .. n - 1 : Approved(w, i)

\* However decisions of one instance overlap, so that their saves mix columns,
\* whichever calls die and however the definition is edited under way: no step is
\* reached or decided unless somebody approved each step before it, an instance ends
\* by a decision, its history lists decisions, and the initiator takes none
\* (approveStep, rejectStep, whose saves overwrite each other).
StepsApproved ==
  \A w \in Instance :
    /\ ApprovedBefore(w, row[w].step)
    /\ row[w].status \in Verb /\ decided[w] # {} =>
         \E d \in decided[w] : d.action = row[w].status
    /\ \A i \in DOMAIN row[w].history : row[w].history[i] \in decided[w]
    /\ \A d \in decided[w] : d.by # initiator[w] /\ ApprovedBefore(w, d.step)

Explained(r) ==
  LET n == Len(r.history)
  IN /\ \A i \in 1 .. n : r.history[i].step = i /\ (i < n => r.history[i].action = "approved")
     /\ r.step = IF r.status = "in_progress" THEN n + 1 ELSE 0
     /\ r.status = "rejected" <=> (n > 0 /\ r.history[n].action = "rejected")

\* While the decisions of an instance do not overlap, deaths and failing saves
\* included, the instance is what its history says, the world hears of its end
\* once, and of the end it came to (the event follows the save).
EventMatchesOutcome ==
  disjoint =>
    \A w \in Instance :
      /\ Explained(row[w])
      /\ \A v \in Verb : events[w][v] <= 1 /\ (events[w][v] = 1 => row[w].status = v)

\* One decision at a time: a save adds one entry to the history it found, and
\* an instance that has ended stays as it ended.
OneCommitPerStep ==
  [][\A w \in Instance :
       row'[w] # row[w] =>
         \/ row[w].status = "absent"
         \/ /\ row[w].status = "in_progress"
            /\ row'[w].history =
                 Append(row[w].history, row'[w].history[Len(row[w].history) + 1])]_vars

\* A decision that ended an instance is announced, unless its call died or its
\* save was reported as failed.
EndIsAnnounced ==
  \A w \in Instance, v \in Verb :
    (row[w].status = v /\ row[w].history # <<>>) ~> (events[w][v] > 0 \/ faults > 0)
=============================================================================
