--------------------------- MODULE WorkflowProofs ---------------------------
(***************************************************************************)
(* Proofs about Workflow, for any users, instances, calls and chains.      *)
(*                                                                         *)
(* StepsApproved has no condition.  A save may mix columns of two          *)
(* decisions, so each column has to be backed by decisions of its own,     *)
(* in the row and in every entity a call holds in memory (Backed).         *)
(* EventMatchesOutcome is about calls that do not overlap: then what a     *)
(* call holds is the row, or the row after its decision (Undivided).       *)
(***************************************************************************)
EXTENDS Workflow, TLAPS

USE WorkflowAssumption

\* The step and the history of r rest on decisions about w.
Backed(w, r) ==
  ApprovedBefore(w, r.step) /\ \A i \in DOMAIN r.history : r.history[i] \in decided[w]

Ended(w, s) == s \in Verb => \E d \in decided[w] : d.action = s

\* Nothing is decided about an instance that was not started, and it has no step;
\* neither has one that ended without a decision.
Stepless ==
  \A w \in Instance :
    /\ row[w].status = "absent" => decided[w] = {} /\ row[w].step = 0
    /\ row[w].status \in Verb /\ decided[w] = {} => row[w].step = 0

\* Calls are about started instances, and hold entities that are backed.
CallBacked(c) ==
  call[c] # Idle =>
    /\ row[call[c].w].status # "absent"
    /\ row[call[c].w].status \in Verb => decided[call[c].w] # {}
    /\ call[c] \in Acting => Backed(call[c].w, call[c].seen)
    /\ call[c].pc = "loaded" => call[c].by # initiator[call[c].w]
    /\ call[c].pc \in {"deciding", "writing"} =>
         /\ decided[call[c].w] # {} /\ call[c].seen.status # "absent"
         /\ Ended(call[c].w, call[c].seen.status)

HInv == TypeOK /\ StepsApproved /\ Stepless /\ \A c \in Call : CallBacked(c)

\* Without overlap, what a call holds is the row, or what the row will be.
CallApart(c) ==
  call[c] # Idle =>
    /\ call[c].pc = "emitting" \/ row[call[c].w].status = "in_progress"
    /\ call[c].pc = "loaded" => call[c].seen = row[call[c].w]
    /\ call[c].pc \in {"deciding", "writing"} =>
         Explained(call[c].seen) /\ call[c].seen.status \in {"in_progress", call[c].verb}
    /\ call[c].pc = "writing" => \A f \in Column \ call[c].differ : call[c].seen[f] = row[call[c].w][f]
    /\ call[c].pc = "emitting" => row[call[c].w].status = call[c].verb /\ events[call[c].w][call[c].verb] = 0

NoOverlap == \A c, d \in Call : c # d /\ call[c] # Idle /\ call[d] # Idle => call[c].w # call[d].w

Announced(w) == \A v \in Verb : events[w][v] <= 1 /\ (events[w][v] = 1 => row[w].status = v)

Undivided ==
  /\ NoOverlap /\ \A c \in Call : CallApart(c)
  /\ \A w \in Instance : Explained(row[w]) /\ Announced(w)

DInv == HInv /\ (disjoint => Undivided)

-----------------------------------------------------------------------------
LEMMA Kinds ==
  /\ \A t \in Acting : /\ t # Idle /\ t.pc \in {"loaded", "deciding", "writing"} /\ t.w \in Instance
                       /\ t.by \in User /\ t.verb \in Verb /\ t.seen \in Row /\ t.differ \in SUBSET Column
  /\ \A t \in Emitting : t # Idle /\ t.pc = "emitting" /\ t.w \in Instance /\ t.verb \in Verb
  /\ Idle \notin Acting /\ Idle \notin Emitting /\ Idle.pc = "idle"
BY DEF Acting, Emitting, Idle

LEMMA CallKinds ==
  ASSUME TypeOK, NEW c \in Call
  PROVE  /\ call[c] = Idle \/ call[c] \in Acting \/ call[c] \in Emitting
         /\ call[c] # Idle => call[c].w \in Instance /\ call[c].verb \in Verb
         /\ call[c].pc \in {"loaded", "deciding", "writing"} => call[c] \in Acting
         /\ call[c].pc = "emitting" => call[c] \in Emitting
         /\ call[c].pc = "idle" <=> call[c] = Idle
<1>1. call[c] = Idle \/ call[c] \in Acting \/ call[c] \in Emitting
  BY DEF TypeOK
<1> QED BY <1>1, Kinds

LEMMA RowParts ==
  ASSUME NEW r \in Row
  PROVE  r.status \in Status /\ r.step \in Nat /\ r.history \in Seq(Entry)
BY DEF Row

LEMMA ChainSteps ==
  ASSUME TypeOK, NEW n \in Nat
  PROVE  OnApproveNext(n) \in {n + 1, 0}
BY DEF TypeOK, OnApproveNext

\* Decisions are added only, and what is backed stays backed.
LEMMA BackedStays ==
  ASSUME NEW w \in Instance, NEW r \in Row, Backed(w, r), decided[w] \subseteq decided'[w]
  PROVE  Backed(w, r)'
BY DEF Backed, ApprovedBefore, Approved

LEMMA RowBacked ==
  ASSUME HInv, NEW w \in Instance
  PROVE  /\ row[w] \in Row /\ Backed(w, row[w]) /\ (decided[w] # {} => Ended(w, row[w].status))
         /\ \A d \in decided[w] : d.by # initiator[w] /\ ApprovedBefore(w, d.step)
BY DEF HInv, TypeOK, StepsApproved, Backed, Ended

\* What a row needs for HInv.
RowKept(w) ==
  /\ Backed(w, row[w]) /\ (decided[w] # {} => Ended(w, row[w].status))
  /\ \A d \in decided[w] : d.by # initiator[w] /\ ApprovedBefore(w, d.step)

LEMMA HKeeps ==
  ASSUME TypeOK', Stepless', \A c \in Call : CallBacked(c)', \A w \in Instance : RowKept(w)'
  PROVE  HInv'
<1>1. StepsApproved'
  BY DEF StepsApproved, Backed, Ended, RowKept
<1> QED BY <1>1 DEF HInv

LEMMA HInit ==
  ASSUME Init
  PROVE  HInv
<1>1. Absent \in Row /\ Absent.history = <<>> /\ Absent.status = "absent" /\ Absent.step = 0
  BY DEF Absent, Row, Status
<1>2. TypeOK
  BY <1>1 DEF Init, TypeOK
<1>3. StepsApproved /\ Stepless
  BY <1>1 DEF Init, StepsApproved, Stepless, ApprovedBefore, Verb
<1>4. \A c \in Call : CallBacked(c)
  BY DEF Init, CallBacked
<1> QED BY <1>2, <1>3, <1>4 DEF HInv

\* Steps that change neither rows nor decisions, and calls only by ending one.
LEMMA HEnds ==
  ASSUME HInv, TypeOK', UNCHANGED <<row, initiator, decided>>, \A c \in Call : call'[c] \in {call[c], Idle}
  PROVE  HInv'
<1>1. Stepless' /\ \A c \in Call : CallBacked(c)'
  BY DEF HInv, Stepless, CallBacked, Backed, Ended, ApprovedBefore, Approved
<1>2. StepsApproved'
  BY DEF HInv, StepsApproved, ApprovedBefore, Approved
<1> QED BY <1>1, <1>2 DEF HInv

LEMMA HEdits ==
  ASSUME HInv, EditChain \/ Retire
  PROVE  HInv'
<1>1. chain' \in Chains /\ active' \in BOOLEAN /\ edits' \in 0 .. MaxEdits
  <2>1. chain' \in Chains /\ active' \in BOOLEAN
    BY DEF HInv, TypeOK, EditChain, Retire
  <2>2. edits' = edits + 1 /\ edits < MaxEdits /\ edits \in 0 .. MaxEdits /\ MaxEdits \in Nat
    BY DEF HInv, TypeOK, EditChain, Retire, Edit, WorkflowAssumption
  <2> QED BY <2>1, <2>2
<1>2. UNCHANGED <<row, initiator, call, events, decided, disjoint, faults>>
  BY DEF EditChain, Retire
<1>3. TypeOK'
  BY <1>1, <1>2 DEF HInv, TypeOK
<1> QED BY <1>2, <1>3, HEnds

LEMMA HStart ==
  ASSUME HInv, NEW w \in Instance, Start(w)
  PROVE  HInv'
<1>0. PICK r : r = [status |-> IF chain = <<>> THEN "approved" ELSE "in_progress",
                    step |-> IF chain = <<>> THEN 0 ELSE 1, history |-> <<>>]
  OBVIOUS
<1>1. row' = [row EXCEPT ![w] = r] /\ UNCHANGED <<chain, active, initiator, call, events, decided, disjoint, edits, faults>>
  BY <1>0 DEF Start
<1>2. r \in Row /\ r.status # "absent" /\ r.step \in {0, 1} /\ r.history = <<>> /\ (r.status \in Verb => r.step = 0)
  BY <1>0 DEF Row, Status, Verb
<1>3. row[w].status = "absent" /\ decided[w] = {} /\ \A c \in Call : call[c] # Idle => call[c].w # w
  BY DEF Start, HInv, Stepless, CallBacked
<1>a. row \in [Instance -> Row]
  BY DEF HInv, TypeOK
<1>4. row'[w] = r /\ row' \in [Instance -> Row] /\ \A x \in Instance \ {w} : row'[x] = row[x]
  BY <1>1, <1>2, <1>a
<1>5. TypeOK'
  BY <1>1, <1>4 DEF HInv, TypeOK
<1>6. ASSUME NEW c \in Call PROVE CallBacked(c)'
  <2>1. call[c] # Idle => call[c].w \in Instance \ {w}
    BY <1>3, CallKinds DEF HInv
  <2>2. CallBacked(c)
    BY DEF HInv
  <2> QED BY <1>1, <1>4, <2>1, <2>2 DEF CallBacked, Backed, Ended, ApprovedBefore, Approved
<1>7. ASSUME NEW x \in Instance PROVE RowKept(x)'
  <2>1. CASE x = w
    <3>1. ApprovedBefore(w, r.step)'
      BY <1>2 DEF ApprovedBefore
    <3> QED BY <1>1, <1>2, <1>3, <1>4, <2>1, <3>1 DEF RowKept, Backed
  <2>2. CASE x # w
    <3>1. row'[x] = row[x]
      BY <1>4, <2>2
    <3> QED BY <1>1, <3>1, RowBacked DEF RowKept, Backed, Ended, ApprovedBefore, Approved
  <2> QED BY <2>1, <2>2
<1>8. Stepless'
  BY <1>1, <1>2, <1>4 DEF HInv, Stepless
<1> QED BY <1>5, <1>6, <1>7, <1>8, HKeeps

\* Steps of one call that change neither rows nor decisions.
LEMMA HCall ==
  ASSUME HInv, TypeOK', UNCHANGED <<row, initiator, decided>>, NEW c \in Call, CallBacked(c)',
         \A x \in Call \ {c} : call'[x] = call[x]
  PROVE  HInv'
<1>1. ASSUME NEW x \in Call PROVE CallBacked(x)'
  BY DEF HInv, CallBacked, Backed, Ended, ApprovedBefore, Approved
<1>2. StepsApproved' /\ Stepless'
  BY DEF HInv, StepsApproved, Stepless, ApprovedBefore, Approved
<1> QED BY <1>1, <1>2 DEF HInv

LEMMA CallSet ==
  ASSUME TypeOK, NEW c \in Call, NEW t \in Acting \union Emitting \union {Idle}, SetCall(c, t)
  PROVE  /\ call'[c] = t /\ \A x \in Call \ {c} : call'[x] = call[x]
         /\ call' \in [Call -> Acting \union Emitting \union {Idle}]
<1>1. call \in [Call -> Acting \union Emitting \union {Idle}]
  BY DEF TypeOK
<1> QED BY <1>1 DEF SetCall

LEMMA HLoad ==
  ASSUME HInv, NEW c \in Call, NEW w \in Instance, NEW u \in User, NEW v \in Verb, Load(c, w, u, v)
  PROVE  HInv'
<1> DEFINE t == [pc |-> "loaded", w |-> w, by |-> u, verb |-> v, seen |-> row[w], differ |-> {}]
<1>a. row[w] \in Row /\ Backed(w, row[w])
  BY RowBacked
<1>1. t \in Acting /\ t # Idle /\ t.w = w /\ t.seen = row[w] /\ t.pc = "loaded" /\ t.by = u
  BY <1>a DEF Acting, Idle
<1>2. SetCall(c, t) /\ UNCHANGED <<chain, active, row, initiator, events, decided, edits, faults>>
  BY DEF Load
<1>3. row[w].step # 0 /\ initiator[w] # u /\ disjoint' \in BOOLEAN
  BY DEF Load
<1> HIDE DEF t
<1>4. /\ call'[c] = t /\ \A x \in Call \ {c} : call'[x] = call[x]
      /\ call' \in [Call -> Acting \union Emitting \union {Idle}]
  BY <1>1, <1>2, CallSet DEF HInv
<1>5. TypeOK'
  BY <1>2, <1>3, <1>4 DEF HInv, TypeOK
<1>6. row[w].status # "absent" /\ (row[w].status \in Verb => decided[w] # {})
  BY <1>3 DEF HInv, Stepless
<1>7. CallBacked(c)'
  <2>1. Backed(w, row[w])'
    BY <1>a, <1>2 DEF Backed, ApprovedBefore, Approved
  <2> QED BY <1>1, <1>2, <1>3, <1>4, <1>6, <2>1 DEF CallBacked
<1> QED BY <1>2, <1>4, <1>5, <1>7, HCall

LEMMA HCompare ==
  ASSUME HInv, NEW c \in Call, Compare(c)
  PROVE  HInv'
<1>1. PICK k : k = call[c]
  OBVIOUS
<1>2. PICK D : D = {f \in Column : call[c].seen[f] # row[call[c].w][f]}
  OBVIOUS
<1>3. k.pc = "deciding" /\ k \in Acting /\ D \in SUBSET Column
  BY <1>1, <1>2, CallKinds DEF Compare, HInv
<1>4. PICK t : t = [k EXCEPT !.pc = "writing", !.differ = D]
  OBVIOUS
<1>5. t \in Acting /\ t.pc = "writing" /\ t.w = k.w /\ t.seen = k.seen
  BY <1>3, <1>4 DEF Acting
<1>6. SetCall(c, t) /\ UNCHANGED <<chain, active, row, initiator, events, decided, disjoint, edits, faults>>
  BY <1>1, <1>2, <1>4 DEF Compare
<1>7. /\ call'[c] = t /\ \A x \in Call \ {c} : call'[x] = call[x]
      /\ call' \in [Call -> Acting \union Emitting \union {Idle}]
  BY <1>5, <1>6, CallSet DEF HInv
<1>8. TypeOK'
  BY <1>6, <1>7 DEF HInv, TypeOK
<1>9. CallBacked(c)'
  <2>1. CallBacked(c) /\ k # Idle
    BY <1>3, Kinds DEF HInv
  <2> QED BY <1>1, <1>3, <1>5, <1>6, <1>7, <2>1 DEF CallBacked, Backed, Ended, ApprovedBefore, Approved
<1> QED BY <1>6, <1>7, <1>8, <1>9, HCall

LEMMA HIdle ==
  ASSUME HInv, NEW c \in Call, Forbidden(c) \/ Emit(c) \/ Die(c)
  PROVE  HInv'
<1>1. SetCall(c, Idle) /\ UNCHANGED <<chain, active, row, initiator, decided, disjoint, edits>>
  BY DEF Forbidden, Emit, Die
<1>2. /\ call'[c] = Idle /\ \A x \in Call \ {c} : call'[x] = call[x]
      /\ call' \in [Call -> Acting \union Emitting \union {Idle}]
  BY <1>1, CallSet DEF HInv
<1>3. events' \in [Instance -> [Verb -> 0 .. 2]]
  <2>1. events \in [Instance -> [Verb -> 0 .. 2]]
    BY DEF HInv, TypeOK
  <2>2. CASE Emit(c)
    <3>1. call[c].w \in Instance /\ call[c].verb \in Verb
      BY <2>2, CallKinds DEF Emit, HInv
    <3> QED BY <2>1, <2>2, <3>1 DEF Emit
  <2> QED BY <2>1, <2>2 DEF Forbidden, Die
<1>4. faults' \in 0 .. MaxFaults
  BY DEF HInv, TypeOK, Forbidden, Emit, Die
<1>5. TypeOK'
  BY <1>1, <1>2, <1>3, <1>4 DEF HInv, TypeOK
<1> QED BY <1>1, <1>2, <1>5, HEnds

\* What a decision adds, and what it makes of the entity.
LEMMA OutcomeBacked ==
  ASSUME HInv, NEW t \in Acting, Backed(t.w, t.seen), NEW o, o = Outcome(t), NEW d, d = Decision(t),
         decided'[t.w] = decided[t.w] \union {d}
  PROVE  /\ o \in Row /\ d \in Entry /\ o.status \in {"in_progress", t.verb}
         /\ Backed(t.w, o)' /\ ApprovedBefore(t.w, d.step)'
<1>1. PICK n \in Nat, h \in Seq(Entry) : n = t.seen.step /\ h = t.seen.history
  BY Kinds, RowParts
<1>b. d = [step |-> n, action |-> t.verb, by |-> t.by]
  BY <1>1 DEF Decision
<1>2. d \in Entry /\ d = Decision(t) /\ d.step = n /\ d.action = t.verb /\ d.by = t.by
  <2>1. n \in Nat /\ t.verb \in Verb /\ t.by \in User
    BY <1>1, Kinds
  <2> QED BY <1>b, <2>1 DEF Entry
<1>3. PICK m \in Nat : /\ m = IF t.verb = "approved" THEN OnApproveNext(n) ELSE 0
                       /\ m \in {n + 1, 0} /\ (m # 0 => t.verb = "approved")
  BY <1>1, ChainSteps DEF HInv
<1>5. o = [status |-> IF m # 0 THEN "in_progress" ELSE t.verb, step |-> m, history |-> Append(h, d)]
  BY <1>1, <1>2, <1>3 DEF Outcome
<1>6. Append(h, d) \in Seq(Entry) /\ DOMAIN Append(h, d) = 1 .. Len(h) + 1 /\ Append(h, d)[Len(h) + 1] = d
      /\ \A i \in 1 .. Len(h) : Append(h, d)[i] = h[i]
  BY <1>1, <1>2
<1>7. o \in Row /\ o.status \in {"in_progress", t.verb} /\ o.step = m /\ o.history = Append(h, d)
  BY <1>5, <1>6, Kinds DEF Row, Status, Verb
<1>8. Backed(t.w, t.seen)' /\ ApprovedBefore(t.w, n)'
  BY <1>1 DEF Backed, ApprovedBefore, Approved
<1>9. ApprovedBefore(t.w, m)'
  <2>1. CASE m = 0
    BY <2>1 DEF ApprovedBefore
  <2>2. CASE m # 0
    <3>1. m = n + 1 /\ d.action = "approved" /\ d \in decided'[t.w]
      BY <1>2, <1>3, <2>2
    <3>2. \A i \in 1 .. n - 1 : Approved(t.w, i)'
      BY <1>8 DEF ApprovedBefore
    <3>3. Approved(t.w, n)'
      BY <1>2, <3>1 DEF Approved
    <3>4. \A i \in 1 .. m - 1 : i = n \/ i \in 1 .. n - 1
      BY <3>1
    <3> QED BY <3>2, <3>3, <3>4 DEF ApprovedBefore
  <2> QED BY <2>1, <2>2
<1>10. \A i \in DOMAIN o.history : o.history[i] \in decided'[t.w]
  <2>1. \A i \in 1 .. Len(h) : h[i] \in decided'[t.w]
    BY <1>1, <1>8 DEF Backed
  <2>2. \A i \in 1 .. Len(h) + 1 : i = Len(h) + 1 \/ i \in 1 .. Len(h)
    BY <1>1
  <2> QED BY <1>2, <1>6, <1>7, <2>1, <2>2
<1>11. Backed(t.w, o)'
  BY <1>7, <1>9, <1>10 DEF Backed
<1>12. ApprovedBefore(t.w, d.step)'
  BY <1>2, <1>8
<1> QED BY <1>2, <1>7, <1>11, <1>12

LEMMA HDecide ==
  ASSUME HInv, NEW c \in Call, Decide(c)
  PROVE  HInv'
<1>1. PICK k : k = call[c]
  OBVIOUS
<1>2. k.pc = "loaded" /\ k \in Acting /\ k.w \in Instance /\ k # Idle
  BY <1>1, CallKinds, Kinds DEF Decide, HInv
<1>3. PICK d : d = Decision(k)
  OBVIOUS
<1>4. decided' = [decided EXCEPT ![k.w] = @ \union {d}] /\ UNCHANGED <<chain, active, row, initiator, events, disjoint, edits, faults>>
  BY <1>1, <1>3 DEF Decide
<1>5. decided \in [Instance -> SUBSET Entry]
  BY DEF HInv, TypeOK
<1>6. /\ decided'[k.w] = decided[k.w] \union {d}
      /\ \A x \in Instance : decided[x] \subseteq decided'[x] /\ (x # k.w => decided'[x] = decided[x])
  BY <1>2, <1>4, <1>5
<1>7. /\ Backed(k.w, k.seen) /\ k.by # initiator[k.w] /\ row[k.w].status # "absent"
      /\ (row[k.w].status \in Verb => decided[k.w] # {})
  BY <1>1, <1>2 DEF HInv, CallBacked
<1>8. PICK o : o = Outcome(k)
  OBVIOUS
<1>9. /\ o \in Row /\ d \in Entry /\ o.status \in {"in_progress", k.verb}
      /\ Backed(k.w, o)' /\ ApprovedBefore(k.w, d.step)'
  BY <1>2, <1>3, <1>6, <1>7, <1>8, OutcomeBacked
<1>10. d.by = k.by /\ d.action = k.verb
  BY <1>3 DEF Decision
<1>11. PICK t : t = [k EXCEPT !.pc = "deciding", !.seen = o]
  OBVIOUS
<1>12. t \in Acting /\ t.pc = "deciding" /\ t.w = k.w /\ t.seen = o
  BY <1>2, <1>9, <1>11 DEF Acting
<1>13. SetCall(c, t)
  BY <1>1, <1>8, <1>11 DEF Decide
<1>14. /\ call'[c] = t /\ \A x \in Call \ {c} : call'[x] = call[x]
       /\ call' \in [Call -> Acting \union Emitting \union {Idle}]
  BY <1>12, <1>13, CallSet DEF HInv
<1>15. decided' \in [Instance -> SUBSET Entry]
  BY <1>4, <1>5, <1>9
<1>16. TypeOK'
  BY <1>4, <1>14, <1>15 DEF HInv, TypeOK
<1>17. ASSUME NEW x \in Call PROVE CallBacked(x)'
  <2>1. CASE x = c
    <3>1. decided'[k.w] # {} /\ o.status # "absent" /\ Ended(k.w, o.status)'
      <4>1. d \in decided'[k.w]
        BY <1>6
      <4>2. "in_progress" \notin Verb /\ "absent" \notin Verb /\ k.verb \in Verb
        BY <1>2, Kinds DEF Verb
      <4> QED BY <1>9, <1>10, <4>1, <4>2 DEF Ended
    <3> QED BY <1>4, <1>7, <1>9, <1>12, <1>14, <2>1, <3>1 DEF CallBacked
  <2>2. CASE x # c
    <3>1. call'[x] = call[x] /\ CallBacked(x) /\ (call[x] # Idle => call[x].w \in Instance)
      BY <1>14, <2>2, CallKinds DEF HInv
    <3>2. call[x] # Idle => decided[call[x].w] \subseteq decided'[call[x].w]
      BY <1>6, <3>1
    <3> QED BY <1>4, <3>1, <3>2 DEF CallBacked, Backed, Ended, ApprovedBefore, Approved
  <2> QED BY <2>1, <2>2
<1>18. ASSUME NEW x \in Instance PROVE RowKept(x)'
  <2>1. row' = row /\ initiator' = initiator /\ decided[x] \subseteq decided'[x] /\ row[x] \in Row
    BY <1>4, <1>6, RowBacked
  <2>2. Backed(x, row[x])'
    BY <2>1, RowBacked, BackedStays
  <2>3. decided'[x] # {} => Ended(x, row[x].status)'
    <3>1. CASE decided[x] # {}
      BY <2>1, <3>1, RowBacked DEF Ended
    <3>2. CASE decided[x] = {}
      BY <1>6, <1>7, <2>1, <3>2 DEF Ended
    <3> QED BY <3>1, <3>2
  <2>4. ASSUME NEW e \in decided'[x] PROVE e.by # initiator[x] /\ ApprovedBefore(x, e.step)'
    <3>1. CASE e \in decided[x]
      BY <2>1, <3>1, RowBacked DEF ApprovedBefore, Approved
    <3>2. CASE e \notin decided[x]
      BY <1>6, <1>7, <1>9, <1>10, <3>2
    <3> QED BY <3>1, <3>2
  <2> QED BY <2>1, <2>2, <2>3, <2>4 DEF RowKept
<1>19. Stepless'
  <2>1. \A x \in Instance : row[x].status = "absent" => x # k.w
    BY <1>7
  <2>2. \A x \in Instance : decided'[x] = {} => decided[x] = {}
    BY <1>6
  <2> QED BY <1>4, <1>6, <2>1, <2>2 DEF HInv, Stepless
<1> QED BY <1>16, <1>17, <1>18, <1>19, HKeeps

\* The row after an UPDATE of some columns: each is backed by itself.
LEMMA SavedRow ==
  ASSUME HInv, NEW c \in Call, call[c].pc = "writing", row' = Saved(call[c]), UNCHANGED <<initiator, decided>>
  PROVE  /\ call[c] \in Acting /\ call[c].w \in Instance /\ decided[call[c].w] # {}
         /\ row' \in [Instance -> Row] /\ \A x \in Instance \ {call[c].w} : row'[x] = row[x]
         /\ row'[call[c].w].status # "absent"
         /\ \A x \in Instance : RowKept(x)'
         /\ Stepless'
<1>1. PICK k : k = call[c]
  OBVIOUS
<1>2. k.pc = "writing" /\ k \in Acting /\ k.w \in Instance /\ k # Idle /\ k.seen \in Row
  BY <1>1, CallKinds, Kinds DEF HInv
<1>3. /\ row[k.w].status # "absent" /\ Backed(k.w, k.seen) /\ decided[k.w] # {}
      /\ k.seen.status # "absent" /\ Ended(k.w, k.seen.status)
  BY <1>1, <1>2 DEF HInv, CallBacked
<1>4. row[k.w] \in Row /\ Backed(k.w, row[k.w]) /\ Ended(k.w, row[k.w].status)
  BY <1>2, <1>3, RowBacked
<1>5. PICK s \in {k.seen.status, row[k.w].status} : s = IF "status" \in k.differ THEN k.seen.status ELSE row[k.w].status
  OBVIOUS
<1>6. PICK n \in {k.seen.step, row[k.w].step} : n = IF "step" \in k.differ THEN k.seen.step ELSE row[k.w].step
  OBVIOUS
<1>7. PICK h \in {k.seen.history, row[k.w].history} :
        h = IF "history" \in k.differ THEN k.seen.history ELSE row[k.w].history
  OBVIOUS
<1>8. PICK r : r = [status |-> s, step |-> n, history |-> h]
  OBVIOUS
<1>9. row' = [row EXCEPT ![k.w] = r]
  BY <1>1, <1>5, <1>6, <1>7, <1>8 DEF Saved
<1>10. r \in Row /\ r.status = s /\ r.step = n /\ r.history = h
  <2>1. s \in Status /\ n \in Nat /\ h \in Seq(Entry)
    BY <1>2, <1>4, RowParts
  <2> QED BY <1>8, <2>1 DEF Row
<1>11. row \in [Instance -> Row]
  BY DEF HInv, TypeOK
<1>12. row' \in [Instance -> Row] /\ row'[k.w] = r /\ \A x \in Instance \ {k.w} : row'[x] = row[x]
  BY <1>2, <1>9, <1>10, <1>11
<1>13. r.status # "absent"
  BY <1>3, <1>5, <1>10
<1>14. RowKept(k.w)'
  <2>1. Backed(k.w, r)'
    BY <1>3, <1>4, <1>6, <1>7, <1>10 DEF Backed, ApprovedBefore, Approved
  <2>2. Ended(k.w, r.status)'
    BY <1>3, <1>4, <1>5, <1>10 DEF Ended
  <2>3. \A d \in decided[k.w] : d.by # initiator[k.w] /\ ApprovedBefore(k.w, d.step)'
    BY <1>2, RowBacked DEF ApprovedBefore, Approved
  <2> QED BY <1>12, <2>1, <2>2, <2>3 DEF RowKept
<1>15. ASSUME NEW x \in Instance, x # k.w PROVE RowKept(x)'
  <2>1. row'[x] = row[x]
    BY <1>12, <1>15
  <2> QED BY <2>1, RowBacked DEF RowKept, Backed, Ended, ApprovedBefore, Approved
<1>16. Stepless'
  BY <1>3, <1>12, <1>13 DEF HInv, Stepless
<1> QED BY <1>1, <1>2, <1>3, <1>12, <1>13, <1>14, <1>15, <1>16

LEMMA HSaved ==
  ASSUME HInv, NEW c \in Call, call[c].pc = "writing", row' = Saved(call[c]),
         NEW t \in Emitting \union {Idle}, SetCall(c, t), t # Idle => t.w = call[c].w,
         UNCHANGED <<chain, active, initiator, events, decided, disjoint, edits>>, faults' \in 0 .. MaxFaults
  PROVE  HInv'
<1>1. PICK w \in Instance : w = call[c].w /\ decided[w] # {}
  BY SavedRow
<1>2. /\ row' \in [Instance -> Row] /\ row'[w].status # "absent"
      /\ \A x \in Instance \ {w} : row'[x] = row[x]
      /\ \A x \in Instance : RowKept(x)'
      /\ Stepless'
  BY <1>1, SavedRow
<1>3. /\ call'[c] = t /\ \A x \in Call \ {c} : call'[x] = call[x]
      /\ call' \in [Call -> Acting \union Emitting \union {Idle}]
  BY CallSet DEF HInv
<1>4. TypeOK'
  BY <1>2, <1>3 DEF HInv, TypeOK
<1>5. ASSUME NEW x \in Call PROVE CallBacked(x)'
  <2>1. CASE x = c
    <3>1. t \notin Acting /\ (t # Idle => t.w = w /\ t.pc = "emitting")
      BY <1>1, Kinds DEF Acting, Emitting, Idle
    <3> QED BY <1>1, <1>2, <1>3, <2>1, <3>1 DEF CallBacked
  <2>2. CASE x # c
    <3>1. call'[x] = call[x] /\ CallBacked(x) /\ (call[x] # Idle => call[x].w \in Instance)
      BY <1>3, <2>2, CallKinds DEF HInv
    <3>2. call[x] # Idle => /\ row'[call[x].w].status # "absent"
                            /\ (row'[call[x].w].status \in Verb => decided[call[x].w] # {})
      BY <1>1, <1>2, <3>1 DEF CallBacked
    <3> QED BY <3>1, <3>2 DEF CallBacked, Backed, Ended, ApprovedBefore, Approved
  <2> QED BY <2>1, <2>2
<1> QED BY <1>2, <1>4, <1>5, HKeeps

LEMMA AfterSaveKinds ==
  ASSUME NEW k \in Acting
  PROVE  AfterSave(k) \in Emitting \union {Idle} /\ (AfterSave(k) # Idle => AfterSave(k).w = k.w)
BY Kinds DEF AfterSave, Emitting, Idle

LEMMA HSave ==
  ASSUME HInv, NEW c \in Call, Save(c) \/ SaveFails(c)
  PROVE  HInv'
<1>1. CASE Save(c)
  <2>1. call[c].pc = "writing" /\ call[c] \in Acting
    BY <1>1, CallKinds DEF Save, HInv
  <2>2. faults' \in 0 .. MaxFaults
    BY <1>1 DEF Save, HInv, TypeOK
  <2>3. PICK t : t = AfterSave(call[c])
    OBVIOUS
  <2> QED BY <1>1, <2>1, <2>2, <2>3, AfterSaveKinds, HSaved DEF Save
<1>2. CASE SaveFails(c)
  <2>1. faults' \in 0 .. MaxFaults
    BY <1>2 DEF SaveFails, HInv, TypeOK
  <2>2. CASE UNCHANGED row
    <3>1. \A x \in Call : call'[x] \in {call[x], Idle}
      BY <1>2, CallSet DEF SaveFails, HInv
    <3>2. call' \in [Call -> Acting \union Emitting \union {Idle}]
      BY <1>2, CallSet DEF SaveFails, HInv
    <3>3. TypeOK'
      BY <1>2, <2>1, <2>2, <3>2 DEF SaveFails, HInv, TypeOK
    <3> QED BY <1>2, <2>2, <3>1, <3>3, HEnds DEF SaveFails
  <2>3. CASE call[c].pc = "writing" /\ row' = Saved(call[c])
    BY <1>2, <2>1, <2>3, HSaved DEF SaveFails
  <2> QED BY <1>2, <2>2, <2>3 DEF SaveFails
<1> QED BY <1>1, <1>2

LEMMA HStep ==
  ASSUME HInv, [Next]_vars
  PROVE  HInv'
<1>1. CASE EditChain \/ Retire
  BY <1>1, HEdits
<1>2. ASSUME NEW w \in Instance, Start(w) PROVE HInv'
  BY <1>2, HStart
<1>3. ASSUME NEW c \in Call, NEW w \in Instance, NEW u \in User, NEW v \in Verb, Load(c, w, u, v) PROVE HInv'
  BY <1>3, HLoad
<1>4. ASSUME NEW c \in Call, Step(c) \/ SaveFails(c) \/ Die(c) PROVE HInv'
  BY <1>4, HDecide, HCompare, HSave, HIdle DEF Step
<1>5. CASE UNCHANGED vars
  <2>1. TypeOK' /\ \A x \in Call : call'[x] = call[x]
    BY <1>5 DEF vars, HInv, TypeOK
  <2> QED BY <1>5, <2>1, HEnds DEF vars
<1> QED BY <1>1, <1>2, <1>3, <1>4, <1>5 DEF Next

\* Workflow has its types (WorkflowService, whatever overlaps, fails or dies).
THEOREM TypeCorrect == Spec => []TypeOK
<1>1. HInv /\ [Next]_vars => HInv'
  BY HStep
<1>2. HInv => TypeOK
  BY DEF HInv
<1> QED BY <1>1, <1>2, HInit, PTL DEF Spec

\* Every step is decided after each step before it was approved, and an instance
\* ends by a decision about it, though overlapping saves mix columns
\* (workflow.service.ts, approveStep and rejectStep).
THEOREM EveryStepApproved == Spec => []StepsApproved
<1>1. HInv /\ [Next]_vars => HInv'
  BY HStep
<1>2. HInv => StepsApproved
  BY DEF HInv
<1> QED BY <1>1, <1>2, HInit, PTL DEF Spec

-----------------------------------------------------------------------------
LEMMA OutcomeExplains ==
  ASSUME TypeOK, NEW t \in Acting, t.seen.status = "in_progress", Explained(t.seen)
  PROVE  Explained(Outcome(t)) /\ Outcome(t).status \in {"in_progress", t.verb}
<1>1. PICK h \in Seq(Entry), n \in Nat : h = t.seen.history /\ n = Len(h) /\ t.seen.step = n + 1
  BY Kinds, RowParts DEF Explained
<1>2. PICK e : e = Decision(t)
  OBVIOUS
<1>3. e \in Entry /\ e.step = n + 1 /\ e.action = t.verb /\ t.verb \in Verb
  <2>1. e = [step |-> n + 1, action |-> t.verb, by |-> t.by] /\ t.verb \in Verb /\ t.by \in User
    BY <1>1, <1>2, Kinds DEF Decision
  <2> QED BY <1>1, <2>1 DEF Entry
<1>4. PICK m \in Nat : m = (IF t.verb = "approved" THEN OnApproveNext(n + 1) ELSE 0) /\ m \in {n + 2, 0}
  <2>1. OnApproveNext(n + 1) \in {n + 1 + 1, 0}
    BY <1>1, ChainSteps
  <2> QED BY <1>1, <2>1
<1>5. PICK g : g = Append(h, e)
  OBVIOUS
<1>6. Len(g) = n + 1 /\ (\A i \in 1 .. n : g[i] = h[i]) /\ g[n + 1] = e
  BY <1>1, <1>3, <1>5
<1>7. PICK o : o = Outcome(t)
  OBVIOUS
<1>8. o.history = g /\ o.step = m /\ o.status = IF m # 0 THEN "in_progress" ELSE t.verb
  BY <1>1, <1>2, <1>4, <1>5, <1>7 DEF Outcome
<1>9. ASSUME NEW i \in 1 .. n + 1
      PROVE  g[i].step = i /\ (i < n + 1 => g[i].action = "approved")
  <2>1. CASE i = n + 1
    BY <1>1, <1>3, <1>6, <2>1
  <2>2. CASE i # n + 1
    <3>1. i \in 1 .. n /\ n > 0
      BY <1>1, <2>2
    <3>2. h[i].step = i /\ (i < n => h[i].action = "approved")
      BY <1>1, <3>1 DEF Explained
    <3>3. h[n] \in Entry /\ h[n].action # "rejected"
      BY <1>1, <3>1 DEF Explained
    <3>4. h[n].action = "approved"
      BY <3>3 DEF Entry, Verb
    <3> QED BY <1>1, <1>6, <3>1, <3>2, <3>4
  <2> QED BY <2>1, <2>2
<1>10. o.status = "rejected" <=> e.action = "rejected"
  BY <1>3, <1>4, <1>8 DEF Verb
<1>11. o.step = IF o.status = "in_progress" THEN n + 1 + 1 ELSE 0
  BY <1>1, <1>3, <1>4, <1>8 DEF Verb
<1>12. Explained(o)
  <2>1. o.history = g /\ Len(g) = n + 1 /\ n + 1 > 0 /\ g[n + 1] = e
    BY <1>1, <1>6, <1>8
  <2> QED BY <1>9, <1>10, <1>11, <2>1 DEF Explained
<1> QED BY <1>7, <1>8, <1>12

LEMMA DInit ==
  ASSUME Init
  PROVE  DInv
<1>1. Explained(Absent)
  BY DEF Explained, Absent
<1>2. Undivided
  BY <1>1 DEF Init, Undivided, NoOverlap, CallApart, Announced
<1> QED BY <1>2, HInit DEF DInv

\* A step of one call that leaves the rows and the events.
LEMMA DCall ==
  ASSUME Undivided, UNCHANGED <<row, events>>, NEW c \in Call, \A x \in Call \ {c} : call'[x] = call[x],
         CallApart(c)', call'[c] # Idle => \A x \in Call \ {c} : call[x] # Idle => call[x].w # call'[c].w
  PROVE  Undivided'
<1>1. \A w \in Instance : Explained(row'[w]) /\ Announced(w)'
  BY DEF Undivided, Announced
<1>2. \A x \in Call \ {c} : CallApart(x)'
  BY DEF Undivided, CallApart
<1>3. NoOverlap'
  BY DEF Undivided, NoOverlap
<1> QED BY <1>1, <1>2, <1>3 DEF Undivided

LEMMA DLoad ==
  ASSUME HInv, Undivided, NEW c \in Call, NEW w \in Instance, NEW u \in User, NEW v \in Verb,
         Load(c, w, u, v), disjoint'
  PROVE  Undivided'
<1> DEFINE t == [pc |-> "loaded", w |-> w, by |-> u, verb |-> v, seen |-> row[w], differ |-> {}]
<1>1. t.w = w /\ t.seen = row[w] /\ t.pc = "loaded" /\ t \in Acting
  BY RowBacked DEF Acting
<1>2. SetCall(c, t) /\ UNCHANGED <<row, events>> /\ row[w].step # 0
      /\ \A x \in Call : call[x] # Idle => call[x].w # w
  BY DEF Load
<1> HIDE DEF t
<1>3. call'[c] = t /\ \A x \in Call \ {c} : call'[x] = call[x]
  BY <1>1, <1>2, CallSet DEF HInv
<1>4. row[w].status = "in_progress"
  BY <1>2 DEF Undivided, Explained
<1>5. CallApart(c)'
  BY <1>1, <1>2, <1>3, <1>4 DEF CallApart
<1> QED BY <1>1, <1>2, <1>3, <1>5, DCall

LEMMA DDecide ==
  ASSUME HInv, Undivided, NEW c \in Call, Decide(c)
  PROVE  Undivided'
<1>1. PICK k : k = call[c]
  OBVIOUS
<1>2. k.pc = "loaded" /\ k \in Acting /\ k.w \in Instance /\ k # Idle
  BY <1>1, CallKinds, Kinds DEF Decide, HInv
<1>3. row[k.w].status = "in_progress" /\ k.seen = row[k.w] /\ Explained(k.seen)
  BY <1>1, <1>2 DEF Undivided, CallApart
<1>4. PICK o : o = Outcome(k)
  OBVIOUS
<1>5. Explained(o) /\ o.status \in {"in_progress", k.verb}
  BY <1>2, <1>3, <1>4, OutcomeExplains DEF HInv
<1>a. PICK d : d = Decision(k)
  OBVIOUS
<1>b. /\ decided' = [decided EXCEPT ![k.w] = @ \union {d}] /\ UNCHANGED <<row, events>>
      /\ decided \in [Instance -> SUBSET Entry]
  BY <1>1, <1>a DEF Decide, HInv, TypeOK
<1>c. o \in Row
  <2>1. Backed(k.w, k.seen) /\ decided'[k.w] = decided[k.w] \union {d}
    BY <1>1, <1>2, <1>b DEF HInv, CallBacked
  <2> QED BY <1>2, <1>4, <1>a, <2>1, OutcomeBacked
<1>6. PICK t : t = [k EXCEPT !.pc = "deciding", !.seen = o]
  OBVIOUS
<1>7. t.pc = "deciding" /\ t.w = k.w /\ t.seen = o /\ t.verb = k.verb /\ t \in Acting
  BY <1>2, <1>6, <1>c DEF Acting
<1>8. SetCall(c, t)
  BY <1>1, <1>4, <1>6 DEF Decide
<1>9. call'[c] = t /\ \A x \in Call \ {c} : call'[x] = call[x]
  BY <1>7, <1>8, CallSet DEF HInv
<1>10. CallApart(c)'
  BY <1>3, <1>5, <1>7, <1>9, <1>b DEF CallApart
<1>11. \A x \in Call \ {c} : call[x] # Idle => call[x].w # k.w
  BY <1>1, <1>2 DEF Undivided, NoOverlap
<1> QED BY <1>7, <1>9, <1>10, <1>11, <1>b, DCall

LEMMA DCompare ==
  ASSUME HInv, Undivided, NEW c \in Call, Compare(c)
  PROVE  Undivided'
<1>1. PICK k : k = call[c]
  OBVIOUS
<1>2. PICK D : D = {f \in Column : call[c].seen[f] # row[call[c].w][f]}
  OBVIOUS
<1>3. k.pc = "deciding" /\ k \in Acting /\ D \in SUBSET Column /\ k # Idle
  BY <1>1, <1>2, CallKinds, Kinds DEF Compare, HInv
<1>4. PICK t : t = [k EXCEPT !.pc = "writing", !.differ = D]
  OBVIOUS
<1>5. t \in Acting /\ t.pc = "writing" /\ t.w = k.w /\ t.seen = k.seen /\ t.verb = k.verb /\ t.differ = D
  BY <1>3, <1>4 DEF Acting
<1>6. SetCall(c, t) /\ UNCHANGED <<row, events>>
  BY <1>1, <1>2, <1>4 DEF Compare
<1>7. call'[c] = t /\ \A x \in Call \ {c} : call'[x] = call[x]
  BY <1>5, <1>6, CallSet DEF HInv
<1>8. CallApart(c)'
  <2>1. CallApart(c)
    BY DEF Undivided
  <2>2. \A f \in Column \ D : k.seen[f] = row[k.w][f]
    BY <1>1, <1>2
  <2> QED BY <1>1, <1>3, <1>5, <1>6, <1>7, <2>1, <2>2 DEF CallApart
<1>9. \A x \in Call \ {c} : call[x] # Idle => call[x].w # k.w
  BY <1>1, <1>3 DEF Undivided, NoOverlap
<1> QED BY <1>5, <1>6, <1>7, <1>8, <1>9, DCall

\* Without overlap an UPDATE makes the row what the call holds.
LEMMA DSaved ==
  ASSUME HInv, Undivided, NEW c \in Call, call[c].pc = "writing", row' = Saved(call[c]), UNCHANGED events,
         NEW t, t \in {AfterSave(call[c]), Idle}, SetCall(c, t)
  PROVE  Undivided'
<1>1. PICK k : k = call[c]
  OBVIOUS
<1>2. k.pc = "writing" /\ k \in Acting /\ k.w \in Instance /\ k # Idle /\ k.seen \in Row /\ k.verb \in Verb
  BY <1>1, CallKinds, Kinds DEF HInv
<1>3. /\ row[k.w].status = "in_progress" /\ Explained(k.seen) /\ k.seen.status \in {"in_progress", k.verb}
      /\ \A f \in Column \ k.differ : k.seen[f] = row[k.w][f]
  BY <1>1, <1>2 DEF Undivided, CallApart
<1>4. row'[k.w] = k.seen /\ \A x \in Instance \ {k.w} : row'[x] = row[x]
  <2>1. row \in [Instance -> Row]
    BY DEF HInv, TypeOK
  <2>2. row'[k.w] = [status  |-> IF "status" \in k.differ THEN k.seen.status ELSE row[k.w].status,
                     step    |-> IF "step" \in k.differ THEN k.seen.step ELSE row[k.w].step,
                     history |-> IF "history" \in k.differ THEN k.seen.history ELSE row[k.w].history]
    BY <1>1, <1>2, <2>1 DEF Saved
  <2>3. /\ "status" \in Column /\ "step" \in Column /\ "history" \in Column
    BY DEF Column
  <2>4. /\ "status" \notin k.differ => row[k.w].status = k.seen.status
        /\ "step" \notin k.differ => row[k.w].step = k.seen.step
        /\ "history" \notin k.differ => row[k.w].history = k.seen.history
    BY <1>3, <2>3
  <2>5. row'[k.w] = [status |-> k.seen.status, step |-> k.seen.step, history |-> k.seen.history]
    BY <2>2, <2>4
  <2>6. k.seen = [status |-> k.seen.status, step |-> k.seen.step, history |-> k.seen.history]
    BY <1>2 DEF Row
  <2>7. \A x \in Instance \ {k.w} : row'[x] = row[x]
    BY <1>1, <2>1 DEF Saved
  <2> QED BY <2>5, <2>6, <2>7
<1>5. \A v \in Verb : events[k.w][v] = 0
  <2>1. \A v \in Verb : events[k.w][v] \in 0 .. 2 /\ v # "in_progress"
    BY <1>2 DEF HInv, TypeOK, Verb
  <2>2. \A v \in Verb : events[k.w][v] <= 1 /\ events[k.w][v] # 1
    BY <1>2, <1>3, <2>1 DEF Undivided, Announced
  <2> QED BY <2>1, <2>2
<1>6. t = Idle \/ (t = [pc |-> "emitting", w |-> k.w, verb |-> k.verb] /\ k.seen.status = k.verb)
  BY <1>1, <1>3 DEF AfterSave
<1>7. t \in Acting \union Emitting \union {Idle} /\ (t # Idle => t.pc = "emitting" /\ t.w = k.w /\ t.verb = k.verb)
  BY <1>2, <1>6 DEF Emitting, Idle
<1>8. call'[c] = t /\ \A x \in Call \ {c} : call'[x] = call[x]
  BY <1>7, CallSet DEF HInv
<1>9. \A x \in Call \ {c} : call[x] # Idle => call[x].w \in Instance \ {k.w}
  BY <1>1, <1>2, CallKinds DEF Undivided, NoOverlap, HInv
<1>10. CallApart(c)'
  BY <1>2, <1>4, <1>5, <1>6, <1>7, <1>8 DEF CallApart
<1>11. ASSUME NEW x \in Call \ {c} PROVE CallApart(x)'
  BY <1>4, <1>8, <1>9 DEF Undivided, CallApart
<1>12. NoOverlap'
  BY <1>7, <1>8, <1>9 DEF Undivided, NoOverlap
<1>13. ASSUME NEW w \in Instance PROVE Explained(row'[w]) /\ Announced(w)'
  <2>1. CASE w = k.w
    BY <1>3, <1>4, <1>5, <2>1 DEF Announced
  <2>2. CASE w # k.w
    BY <1>4, <2>2 DEF Undivided, Announced
  <2> QED BY <2>1, <2>2
<1> QED BY <1>10, <1>11, <1>12, <1>13 DEF Undivided

LEMMA DEmit ==
  ASSUME HInv, Undivided, NEW c \in Call, Emit(c)
  PROVE  Undivided'
<1>1. PICK w \in Instance, v \in Verb : w = call[c].w /\ v = call[c].verb /\ call[c] # Idle
  BY CallKinds, Kinds DEF Emit, HInv
<1>2. row[w].status = v /\ events[w][v] = 0
  BY <1>1 DEF Undivided, CallApart, Emit
<1>3. events \in [Instance -> [Verb -> 0 .. 2]]
  BY DEF HInv, TypeOK
<1>4. /\ events'[w][v] = 1 /\ \A x \in Instance, y \in Verb : x # w \/ y # v => events'[x][y] = events[x][y]
  BY <1>1, <1>2, <1>3 DEF Emit
<1>5. UNCHANGED row /\ call'[c] = Idle /\ \A x \in Call \ {c} : call'[x] = call[x]
  BY CallSet DEF Emit, HInv
<1>6. ASSUME NEW x \in Call \ {c} PROVE CallApart(x)'
  <2>1. call[x] # Idle => call[x].w \in Instance /\ call[x].w # w /\ call[x].verb \in Verb
    BY <1>1, CallKinds DEF Undivided, NoOverlap, HInv
  <2>2. CallApart(x)
    BY DEF Undivided
  <2> QED BY <1>4, <1>5, <2>1, <2>2 DEF CallApart
<1>7. CallApart(c)'
  BY <1>5 DEF CallApart
<1>8. ASSUME NEW x \in Instance PROVE Explained(row'[x]) /\ Announced(x)'
  BY <1>2, <1>4, <1>5 DEF Undivided, Announced
<1>9. NoOverlap'
  BY <1>5 DEF Undivided, NoOverlap
<1> QED BY <1>6, <1>7, <1>8, <1>9 DEF Undivided

LEMMA DStart ==
  ASSUME HInv, Undivided, NEW w \in Instance, Start(w)
  PROVE  Undivided'
<1>0. PICK r : r = [status |-> IF chain = <<>> THEN "approved" ELSE "in_progress",
                    step |-> IF chain = <<>> THEN 0 ELSE 1, history |-> <<>>]
  OBVIOUS
<1>1. row' = [row EXCEPT ![w] = r] /\ UNCHANGED <<call, events>> /\ row[w].status = "absent"
  BY <1>0 DEF Start
<1>2. row'[w] = r /\ \A x \in Instance \ {w} : row'[x] = row[x]
  BY <1>1 DEF HInv, TypeOK
<1>3. Explained(r)
  BY <1>0 DEF Explained
<1>4. \A v \in Verb : events[w][v] = 0
  <2>1. \A v \in Verb : events[w][v] \in 0 .. 2 /\ v # "absent"
    BY DEF HInv, TypeOK, Verb
  <2>2. \A v \in Verb : events[w][v] <= 1 /\ events[w][v] # 1
    BY <1>1, <2>1 DEF Undivided, Announced
  <2> QED BY <2>1, <2>2
<1>5. \A c \in Call : call[c] # Idle => call[c].w \in Instance \ {w}
  BY <1>1, CallKinds DEF HInv, CallBacked
<1>6. \A c \in Call : CallApart(c)'
  BY <1>1, <1>2, <1>5 DEF Undivided, CallApart
<1>7. ASSUME NEW x \in Instance PROVE Explained(row'[x]) /\ Announced(x)'
  <2>1. CASE x = w
    BY <1>1, <1>2, <1>3, <1>4, <2>1 DEF Announced
  <2>2. CASE x # w
    BY <1>1, <1>2, <2>2 DEF Undivided, Announced
  <2> QED BY <2>1, <2>2
<1>8. NoOverlap'
  BY <1>1 DEF Undivided, NoOverlap
<1> QED BY <1>6, <1>7, <1>8 DEF Undivided

LEMMA DEnds ==
  ASSUME HInv, Undivided, UNCHANGED <<row, events>>, \A c \in Call : call'[c] \in {call[c], Idle}
  PROVE  Undivided'
<1>1. \A c \in Call : CallApart(c)'
  BY DEF Undivided, CallApart
<1>2. \A w \in Instance : Explained(row'[w]) /\ Announced(w)'
  BY DEF Undivided, Announced
<1>3. NoOverlap'
  BY DEF Undivided, NoOverlap
<1> QED BY <1>1, <1>2, <1>3 DEF Undivided

LEMMA DStep ==
  ASSUME DInv, [Next]_vars
  PROVE  DInv'
<1>1. HInv /\ HInv'
  BY HStep DEF DInv
<1> SUFFICES ASSUME disjoint' PROVE Undivided'
  BY <1>1 DEF DInv
<1>2. disjoint
  BY <1>1 DEF Next, EditChain, Retire, Start, Load, Step, Decide, Forbidden, Compare, Save, Emit, SaveFails, Die, vars, HInv, TypeOK
<1>3. Undivided
  BY <1>2 DEF DInv
<1>4. CASE EditChain \/ Retire \/ UNCHANGED vars
  BY <1>1, <1>3, <1>4, DEnds DEF EditChain, Retire, vars
<1>5. ASSUME NEW w \in Instance, Start(w) PROVE Undivided'
  BY <1>1, <1>3, <1>5, DStart
<1>6. ASSUME NEW c \in Call, NEW w \in Instance, NEW u \in User, NEW v \in Verb, Load(c, w, u, v) PROVE Undivided'
  BY <1>1, <1>3, <1>6, DLoad
<1>7. ASSUME NEW c \in Call, Forbidden(c) \/ Die(c) PROVE Undivided'
  <2>1. UNCHANGED <<row, events>> /\ SetCall(c, Idle)
    BY <1>7 DEF Forbidden, Die
  <2>2. \A x \in Call : call'[x] \in {call[x], Idle}
    BY <1>1, <2>1, CallSet DEF HInv
  <2> QED BY <1>1, <1>3, <2>1, <2>2, DEnds
<1>8. ASSUME NEW c \in Call, Save(c) PROVE Undivided'
  <2>1. PICK t : t = AfterSave(call[c])
    OBVIOUS
  <2> QED BY <1>1, <1>3, <1>8, <2>1, DSaved DEF Save
<1>9. ASSUME NEW c \in Call, SaveFails(c) PROVE Undivided'
  <2>1. UNCHANGED events /\ SetCall(c, Idle)
    BY <1>9 DEF SaveFails
  <2>2. CASE UNCHANGED row
    <3>1. \A x \in Call : call'[x] \in {call[x], Idle}
      BY <1>1, <2>1, CallSet DEF HInv
    <3> QED BY <1>1, <1>3, <2>1, <2>2, <3>1, DEnds
  <2>3. CASE call[c].pc = "writing" /\ row' = Saved(call[c])
    BY <1>1, <1>3, <2>1, <2>3, DSaved
  <2> QED BY <1>9, <2>2, <2>3 DEF SaveFails
<1>10. ASSUME NEW c \in Call, Decide(c) \/ Compare(c) \/ Emit(c) PROVE Undivided'
  BY <1>1, <1>3, <1>10, DDecide, DCompare, DEmit
<1> QED BY <1>4, <1>5, <1>6, <1>7, <1>8, <1>9, <1>10 DEF Next, Step

\* While decisions of an instance do not overlap, its state is what its history
\* says and its end is announced once, as it came (approveStep, rejectStep).
THEOREM EventsMatch == Spec => []EventMatchesOutcome
<1>1. DInv /\ [Next]_vars => DInv'
  BY DStep
<1>2. DInv => EventMatchesOutcome
  BY DEF DInv, Undivided, Announced, EventMatchesOutcome
<1> QED BY <1>1, <1>2, DInit, PTL DEF Spec
=============================================================================
