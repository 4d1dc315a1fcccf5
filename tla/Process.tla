------------------------------- MODULE Process -------------------------------
(***************************************************************************)
(* The process engine: BpmService of modules/workflow/bpm.  An instance    *)
(* runs through the stages of its process.  A stage has one task for each  *)
(* of its approvers, created one by one; ANY stages end with the first     *)
(* approval, ALL stages when every task there is has been approved.        *)
(*                                                                         *)
(* The model follows one instance; instances share nothing.  A task's id   *)
(* is its place in tasks.  Dates are left out: any delegation may be in    *)
(* force when a task is created, any pending task may be overdue.          *)
(***************************************************************************)
EXTENDS Requests, TLC

CONSTANTS
  Person,
  Nobody,     \* escalateTo of a stage that has none
  Processes,  \* process definitions: sequences of stages
  Delegations, \* bound: the <<user, delegate>> for which a rule may be made
  MaxTasks     \* bound: tasks created for the instance

VARIABLES
  stages,     \* the process of the instance
  instance,   \* status and currentStageIndex (counted from 1)
  tasks,
  rules,      \* delegation rules: <<user, delegate>>
  consented   \* history: the tasks that were approved at some time

processVars == <<stages, instance, tasks, rules, consented>>

Mode == {"ALL", "ANY"}

\* createProcess: what it demands of a definition.
WellFormed(p) ==
  /\ p # <<>>
  /\ \A n \in DOMAIN p : p[n].approvers # <<>> /\ p[n].mode \in Mode

StageType == [approvers : Seq(Person), mode : Mode, escalateTo : Person \union {Nobody}]

ASSUME ProcessAssumption ==
  /\ Processes \subseteq Seq(StageType)
  /\ \A p \in Processes : WellFormed(p)
  /\ Delegations \subseteq Person \X Person /\ MaxTasks \in Nat

TaskStatus == {"PENDING", "APPROVED", "REJECTED", "ESCALATED", "SKIPPED"}
Task == [stage : Nat, original : Person, assigned : Person \union {Nobody}, status : TaskStatus]
InstanceType == [status : {"absent", "RUNNING", "APPROVED", "REJECTED"}, stage : Nat]

Verdict == {"APPROVED", "REJECTED"}

\* What the pc's of a request hold: own, the task it decides; inst, the
\* instance in memory; open, tasks in memory that are still to be saved; stage
\* and k, the approver whose task is created next.
ProcessCall ==
  {Idle}
  \union [pc : {"found"}, own : Nat, task : Task, verb : Verdict]
  \union [pc : {"loaded", "saved"}, own : Nat, task : Task, verb : Verdict, inst : InstanceType]
  \union [pc : {"advancing"}, stage : Nat, inst : InstanceType,
          open : SUBSET (Nat \X Task)]
  \union [pc : {"creating"}, stage : Nat, k : Nat]
  \union [pc : {"escalating"}, open : SUBSET (Nat \X Task)]

ProcessTypeOK ==
  /\ stages \in Processes
  /\ instance \in InstanceType
  /\ tasks \in Seq(Task)
  /\ rules \subseteq Delegations
  /\ consented \subseteq DOMAIN tasks
  /\ call \in [Call -> ProcessCall]
  /\ touches \in [Call -> SUBSET {"instance"}]
  /\ disjoint \in BOOLEAN /\ faults \in 0 .. MaxFaults

ProcessInit ==
  /\ RequestsInit
  /\ stages \in Processes
  /\ instance = [status |-> "absent", stage |-> 1]
  /\ tasks = <<>> /\ rules = {} /\ consented = {}

Undecided(t) == t.status \in {"PENDING", "ESCALATED"}

-----------------------------------------------------------------------------
\* setDelegation
SetDelegation(u, d) ==
  /\ u # d /\ <<u, d>> \notin rules
  /\ rules' = rules \union {<<u, d>>}
  /\ UNCHANGED <<stages, instance, tasks, consented>> /\ UNCHANGED requestVars

\* resolveApprover: the delegate of some rule, or the user when no rule is in
\* force on the day.
Resolved(u) == {u} \union {r[2] : r \in {r \in rules : r[1] = u}}

\* start saves the instance and goes on to create the tasks of its first stage.
StartProcess(c) ==
  /\ instance.status = "absent"
  /\ instance' = [status |-> "RUNNING", stage |-> 1]
  /\ Arrive(c, {"instance"}, [pc |-> "creating", stage |-> 1, k |-> 1])
  /\ UNCHANGED <<stages, tasks, rules, consented>>

\* createStageTasks, one round of its loop.
CreateTask(c) ==
  /\ At(c, "creating") /\ Len(tasks) < MaxTasks
  /\ LET n == call[c].stage
         k == call[c].k
         u == stages[n].approvers[k]
     IN /\ \E a \in Resolved(u) :
             tasks' = Append(tasks, [stage |-> n, original |-> u, assigned |-> a, status |-> "PENDING"])
        /\ IF k < Len(stages[n].approvers)
             THEN Await(c, [call[c] EXCEPT !.k = k + 1])
             ELSE Answer(c)
  /\ UNCHANGED <<stages, instance, rules, consented>>

-----------------------------------------------------------------------------
(* decide                                                                    *)

\* The task is the caller's and open.  A slip: it may have been decided.
FindTaskAny(c, i, verb) ==
  /\ Arrive(c, {"instance"}, [pc |-> "found", own |-> i, task |-> tasks[i], verb |-> verb])
  /\ UNCHANGED processVars
FindTask(c, i, verb) ==
  /\ Undecided(tasks[i])
  /\ Arrive(c, {"instance"}, [pc |-> "found", own |-> i, task |-> tasks[i], verb |-> verb])
  /\ UNCHANGED processVars

\* The instance is read, and is running.
LoadInstance(c) ==
  /\ At(c, "found")
  /\ IF instance.status = "RUNNING"
       THEN Await(c, [pc |-> "loaded", own |-> call[c].own, task |-> call[c].task,
                      verb |-> call[c].verb, inst |-> instance])
       ELSE Answer(c)
  /\ UNCHANGED processVars

SaveTask(c) ==
  /\ At(c, "loaded")
  /\ tasks' = [tasks EXCEPT ![call[c].own] = [call[c].task EXCEPT !.status = call[c].verb]]
  /\ consented' = IF call[c].verb = "APPROVED" THEN consented \union {call[c].own} ELSE consented
  /\ Await(c, [call[c] EXCEPT !.pc = "saved"])
  /\ UNCHANGED <<stages, instance, rules>>

\* A rejection ends the instance.
SaveRejection(c) ==
  /\ At(c, "saved") /\ call[c].verb = "REJECTED"
  /\ instance' = [call[c].inst EXCEPT !.status = "REJECTED"]
  /\ Answer(c)
  /\ UNCHANGED <<stages, tasks, rules, consented>>

OfStage(n) == {i \in DOMAIN tasks : tasks[i].stage = n}
Approved(n) == {i \in OfStage(n) : tasks[i].status = "APPROVED"}

\* A slip of StageComplete: one approval is enough everywhere.
StageCompleteAny(n) == Approved(n) # {}
StageComplete(n) == IF stages[n].mode = "ANY" THEN Approved(n) # {} ELSE Approved(n) = OfStage(n)

\* An approval: the tasks of the task's stage are read and counted.
CountApprovals(c) ==
  /\ At(c, "saved") /\ call[c].verb = "APPROVED"
  /\ LET n == call[c].task.stage
     IN IF StageComplete(n)
          THEN Await(c, [pc |-> "advancing", stage |-> n, inst |-> call[c].inst,
                         open |-> IF stages[n].mode = "ANY"
                                    THEN {<<i, tasks[i]>> : i \in {j \in OfStage(n) : Undecided(tasks[j])}}
                                    ELSE {}])
          ELSE Answer(c)
  /\ UNCHANGED processVars

\* The open tasks of an ANY stage are skipped, one save each.
SkipTask(c) ==
  /\ At(c, "advancing")
  /\ \E t \in call[c].open :
       /\ tasks' = [tasks EXCEPT ![t[1]] = [t[2] EXCEPT !.status = "SKIPPED"]]
       /\ Await(c, [call[c] EXCEPT !.open = @ \ {t}])
  /\ UNCHANGED <<stages, instance, rules, consented>>

\* The instance moves to the stage after the task's, or ends with the last.  A slip:
\* it ends one stage early.
AdvanceEarly(c) ==
  /\ At(c, "advancing") /\ call[c].open = {}
  /\ LET next == call[c].stage + 1
     IN IF next >= Len(stages)
          THEN /\ instance' = [call[c].inst EXCEPT !.status = "APPROVED"]
               /\ Answer(c)
          ELSE /\ instance' = [call[c].inst EXCEPT !.stage = next]
               /\ Await(c, [pc |-> "creating", stage |-> next, k |-> 1])
  /\ UNCHANGED <<stages, tasks, rules, consented>>
Advance(c) ==
  /\ At(c, "advancing") /\ call[c].open = {}
  /\ LET next == call[c].stage + 1
     IN IF next > Len(stages)
          THEN /\ instance' = [call[c].inst EXCEPT !.status = "APPROVED"]
               /\ Answer(c)
          ELSE /\ instance' = [call[c].inst EXCEPT !.stage = next]
               /\ Await(c, [pc |-> "creating", stage |-> next, k |-> 1])
  /\ UNCHANGED <<stages, tasks, rules, consented>>

-----------------------------------------------------------------------------
(* checkEscalations: a list of the pending tasks, then one save for each one *)
(* that is overdue and whose stage names somebody.                           *)

ListPending(c) ==
  /\ \E i \in DOMAIN tasks : tasks[i].status = "PENDING"
  /\ Arrive(c, {"instance"}, [pc |-> "escalating",
                open |-> {<<i, tasks[i]>> : i \in {j \in DOMAIN tasks : tasks[j].status = "PENDING"}}])
  /\ UNCHANGED processVars

Escalate(c) ==
  /\ At(c, "escalating")
  /\ \E t \in call[c].open :
       /\ stages[t[2].stage].escalateTo # Nobody
       /\ tasks' = [tasks EXCEPT ![t[1]] = [t[2] EXCEPT !.status = "ESCALATED",
                                                        !.assigned = stages[t[2].stage].escalateTo]]
       /\ Await(c, [call[c] EXCEPT !.open = @ \ {t}])
  /\ UNCHANGED <<stages, instance, rules, consented>>

\* The others are not overdue, or there is nobody to escalate them to.
EndSweep(c) ==
  /\ At(c, "escalating")
  /\ Answer(c)
  /\ UNCHANGED processVars

PerishInProcess(c) == Perish(c) /\ UNCHANGED processVars

ProcessNext ==
  \/ \E r \in Delegations : SetDelegation(r[1], r[2])
  \/ \E c \in Call :
       \/ StartProcess(c) \/ CreateTask(c)
       \/ \E i \in DOMAIN tasks, verb \in Verdict : FindTask(c, i, verb)
       \/ LoadInstance(c) \/ SaveTask(c) \/ SaveRejection(c)
       \/ CountApprovals(c) \/ SkipTask(c) \/ Advance(c)
       \/ ListPending(c) \/ Escalate(c) \/ EndSweep(c)
       \/ PerishInProcess(c)

ProcessSpec == ProcessInit /\ [][ProcessNext]_<<processVars, requestVars>>

-----------------------------------------------------------------------------
\* Past(n): the instance has gone past stage n.
Past(n) == instance.status = "APPROVED" \/ instance.stage > n \/ \E i \in DOMAIN tasks : tasks[i].stage > n

\* No stage is jumped over: whatever overlaps or dies, behind every task of a
\* stage and behind the instance's end lies an approval of each earlier stage
\* (decide, createStageTasks).
NoStageJumped ==
  \A n \in DOMAIN stages : Past(n) => \E i \in consented : tasks[i].stage = n

\* Undisturbed, an ALL stage is left only with the approval of each approver it
\* names (or of who stands in), and nobody is asked twice (decide's count of
\* the tasks there are; createStageTasks).
EveryoneAsked ==
  Undisturbed =>
    \A n \in DOMAIN stages :
      /\ stages[n].mode = "ALL" /\ Past(n) =>
           \A k \in DOMAIN stages[n].approvers :
             \E i \in Approved(n) : tasks[i].original = stages[n].approvers[k]
      /\ Cardinality(OfStage(n)) <= Len(stages[n].approvers)

\* While nothing is being handled a running instance waits for somebody: it has
\* an open task (decide: the last decision of a stage moves it on).
SomebodyToWaitFor ==
  Undisturbed /\ Quiet /\ instance.status = "RUNNING" =>
    \E i \in OfStage(instance.stage) : Undecided(tasks[i])

\* Undisturbed, a stage serves everyone and waits for no one else (createStageTasks,
\* decide, checkEscalations).
StagesServed == EveryoneAsked /\ SomebodyToWaitFor

\* Undisturbed, an instance that has ended never runs again and keeps its
\* outcome, and no decision is overwritten (decide's checks, checkEscalations).
OutcomeStands ==
  [][disjoint' => /\ instance.status \in {"APPROVED", "REJECTED"} => instance' = instance
               /\ \A i \in DOMAIN tasks : ~Undecided(tasks[i]) => tasks'[i] = tasks[i]]_<<processVars, requestVars>>
=============================================================================
