----------------------------- MODULE FinanceProofs ----------------------------
(***************************************************************************)
(* Proofs about Ledger, Encumbrance, Payroll, Billing and Payables: money  *)
(* is neither lost nor counted twice, for any number of requests,          *)
(* accounts, periods and amounts.                                          *)
(*                                                                         *)
(* The modules over Requests have one argument. As long as no two requests *)
(* with a common row have overlapped (Apart), what a request has read is   *)
(* what is stored (...Held); a step moves one request, leaves the rows of  *)
(* the others alone (...Frame), and keeps its own part.                    *)
(***************************************************************************)
EXTENDS Ledger, Encumbrance, Payroll, Billing, Payables, RequestProofs

-----------------------------------------------------------------------------
(* The general ledger.                                                       *)

Zero(f) == f \in [Account -> Int] /\ SumFunction(f) = 0
Balanced(L) == IsFiniteSet(L) /\ \A b \in L : Zero(b.net)

Pc == {"new", "numbering", "inserting", "deleting", "updating", "cutting", "dropping", "checking", "posting",
       "counting", "closing", "reopening", "end"}
CallRow ==
  [pc : Pc, e : JournalEntry \union {None}, row : JournalRow, cut : SUBSET Batch, net : Nets \union {None},
   of : JournalEntry \union {None}, was : JournalRow]

LedgerTyped ==
  /\ journal \in [JournalEntry -> JournalRow]
  /\ entryLines \in [JournalEntry -> SUBSET Batch]
  /\ periodStatus \in [Period -> PeriodStatus]
  /\ caller \in [Caller -> CallRow]
  /\ alone \in BOOLEAN

LEMMA BalancedSums ==
  ASSUME NEW J, IsFiniteSet(J), NEW L, \A e \in J : Balanced(L[e]), IsFiniteSet(Account)
  PROVE  SumFunction([a \in Account |-> SumFunction([e \in J |-> SumFunction([b \in L[e] |-> b.net[a]])])]) = 0
<1> DEFINE cell(e, a) == SumFunction([b \in L[e] |-> b.net[a]])
           t == [e \in J |-> [a \in Account |-> cell(e, a)]]
           u == [a \in Account |-> [e \in J |-> cell(e, a)]]
           rows == [e \in J |-> SumFunctionOnSet(t[e], Account)]
           columns == [a \in Account |-> SumFunction([e \in J |-> cell(e, a)])]
<1>1. ASSUME NEW e \in J PROVE SumFunctionOnSet(t[e], Account) = 0 /\ \A a \in Account : t[e][a] \in Int
  <2> DEFINE v == [b \in L[e] |-> b.net]
             w == [a \in Account |-> [b \in L[e] |-> b.net[a]]]
             sums == [b \in L[e] |-> SumFunctionOnSet(v[b], Account)]
             part == t[e]
  <2>1. IsFiniteSet(L[e]) /\ \A b \in L[e] : \A a \in Account : v[b][a] \in Int /\ w[a][b] = v[b][a]
    BY DEF Balanced, Zero
  <2>2. \A b \in L[e] : sums[b] = SumFunctionOnSet(v[b], Account)
    OBVIOUS
  <2>3. \A b \in L[e] : sums[b] = 0
    BY DEF Balanced, Zero, SumFunction
  <2>4. \A a \in Account : part[a] = SumFunctionOnSet(w[a], L[e])
    BY DEF SumFunction
  <2>5. \A a \in Account : \A b \in L[e] : w[a][b] \in Int
    BY <2>1
  <2> HIDE DEF v, w, sums, part
  <2>a. Transposed(v, w, L[e], Account) /\ SumRows(sums, v, L[e], Account) /\ SumRows(part, w, Account, L[e])
    BY <2>1, <2>2, <2>4 DEF Transposed, SumRows
  <2>6. SumFunctionOnSet(sums, L[e]) = SumFunctionOnSet(part, Account)
    BY <2>1, <2>a, SumSwapped
  <2>7. SumFunctionOnSet(sums, L[e]) = 0
    BY <2>1, <2>3, SumZero
  <2>8. \A a \in Account : part[a] \in Int
    BY <2>1, <2>4, <2>5, SumStep
  <2> QED BY <2>6, <2>7, <2>8 DEF part
<1>2. \A e \in J : \A a \in Account : t[e][a] \in Int /\ u[a][e] = t[e][a]
  BY <1>1
<1>3. \A e \in J : rows[e] = 0 /\ rows[e] = SumFunctionOnSet(t[e], Account)
  BY <1>1
<1>4. \A a \in Account : columns[a] = SumFunctionOnSet(u[a], J)
  BY DEF SumFunction
<1>5. SumFunction(columns) = SumFunctionOnSet(columns, Account)
  BY DEF SumFunction
<1> HIDE DEF t, u, rows, columns
<1>6. SumFunctionOnSet(rows, J) = SumFunctionOnSet(columns, Account)
  <2>1. Transposed(t, u, J, Account) /\ SumRows(rows, t, J, Account) /\ SumRows(columns, u, Account, J)
    BY <1>2, <1>3, <1>4 DEF Transposed, SumRows
  <2> QED BY <2>1, SumSwapped
<1>7. SumFunctionOnSet(rows, J) = 0
  BY <1>3, SumZero
<1> QED BY <1>5, <1>6, <1>7 DEF columns

LEMMA NetsAreZero ==
  \A f \in Nets : Zero(f)
BY LedgerAssumption DEF Zero

LEMMA MirrorsBalance ==
  ASSUME NEW L, Balanced(L), NEW c
  PROVE  Balanced({[by |-> c, net |-> MirrorNet(b.net)] : b \in L})
<1> DEFINE f == [b \in L |-> [by |-> c, net |-> MirrorNet(b.net)]]
           M == {[by |-> c, net |-> MirrorNet(b.net)] : b \in L}
<1>1. IsFiniteSet(M)
  <2>1. f \in Surjection(L, M)
    BY DEF Surjection
  <2> QED BY <2>1, FS_Surjection DEF Balanced
<1>2. \A b \in L : Zero(MirrorNet(b.net))
  <2> TAKE b \in L
  <2> DEFINE g == b.net
             h == MirrorNet(g)
  <2>1. g \in [Account -> Int] /\ SumFunction(g) = 0 /\ IsFiniteSet(Account)
    BY LedgerAssumption DEF Balanced, Zero
  <2>2. h \in [Account -> Int] /\ \A a \in Account : h[a] = 0 - g[a]
    BY <2>1 DEF MirrorNet
  <2> HIDE DEF g, h
  <2>3. SumFunctionOnSet(h, Account) = 0 - SumFunctionOnSet(g, Account)
    BY <2>1, <2>2, SumOpposite
  <2>4. SumFunction(h) = 0
    BY <2>1, <2>2, <2>3 DEF SumFunction
  <2> QED BY <2>2, <2>4 DEF Zero, g, h
<1> QED BY <1>1, <1>2 DEF Balanced

Rows == {e \in JournalEntry : journal[e] # Absent}

LEMMA Greatest ==
  ASSUME NEW S, IsFiniteSet(S), S # {}, S \subseteq Nat
  PROVE  Max(S) \in S
<1> DEFINE T == {s \in SUBSET S : s = {} \/ \E x \in s : \A y \in s : x >= y}
<1>1. {} \in T
  OBVIOUS
<1>2. ASSUME NEW s \in SUBSET S, NEW x \in S \ s, s \in T PROVE s \union {x} \in T
  <2>1. CASE s = {}
    BY <2>1
  <2>2. CASE \E y \in s : \A z \in s : y >= z
    <3>1. PICK y \in s : \A z \in s : y >= z
      BY <2>2
    <3>2. x \in Nat /\ y \in Nat /\ \A z \in s : z \in Nat
      OBVIOUS
    <3>3. CASE x >= y
      <4>1. \A z \in s \union {x} : x >= z
        BY <3>1, <3>2, <3>3
      <4> QED BY <4>1
    <3>4. CASE ~ (x >= y)
      <4>1. \A z \in s \union {x} : y >= z
        BY <3>1, <3>2, <3>4
      <4> QED BY <4>1
    <3> QED BY <3>3, <3>4
  <2> QED BY <1>2, <2>1, <2>2
<1>3. S \in T
  <2> HIDE DEF T
  <2> QED BY <1>1, <1>2, SetReached
<1>4. \E x \in S : \A y \in S : x >= y
  BY <1>3
<1> QED BY <1>4 DEF Max

LEMMA TopTyped ==
  ASSUME LedgerTyped, IsFiniteSet(Rows)
  PROVE  Top \in Nat
<1> DEFINE f == [e \in Rows |-> journal[e].number]
           N == {journal[e].number : e \in Rows}
           A == {journal[e].number : e \in JournalEntry} \union {0}
<1>1. IsFiniteSet(N)
  <2>1. f \in Surjection(Rows, N)
    BY DEF Surjection
  <2> HIDE DEF f
  <2> QED BY <2>1, FS_Surjection
<1>2. A = N \union {0}
  BY DEF Rows, Absent
<1>3. IsFiniteSet(A)
  <2> HIDE DEF N
  <2> QED BY <1>1, <1>2, FS_AddElement
<1>4. A \subseteq Nat /\ A # {}
  BY DEF LedgerTyped, JournalRow
<1>5. Max(A) \in A
  <2> HIDE DEF A
  <2> QED BY <1>3, <1>4, Greatest
<1> QED BY <1>4, <1>5 DEF Top

\* The call brings a net of its own.
Brings(t) == t.pc \in {"numbering", "inserting"} /\ t.of = None
About(t) == t.pc \in {"new", "counting", "closing", "reopening", "end"} \/ t.e \in JournalEntry
CallBalanced(t) == t \in CallRow /\ About(t) /\ Balanced(t.cut) /\ (Brings(t) => t.net \in Nets)

LedgerBalanced ==
  /\ LedgerTyped /\ IsFiniteSet(Rows)
  /\ \A e \in JournalEntry : Balanced(entryLines[e])
  /\ \A c \in Caller : CallBalanced(caller[c])

Moves(c) == /\ caller' = [caller EXCEPT ![c] = caller'[c]] /\ CallBalanced(caller'[c])
            /\ alone' \in BOOLEAN /\ periodStatus' \in [Period -> PeriodStatus]

LEMMA FreshBalanced == Balanced({}) /\ CallBalanced(Fresh) /\ Absent \in JournalRow
BY FS_EmptySet DEF Balanced, CallBalanced, CallRow, Pc, JournalRow, EntryStatus, Fresh, Absent, About, Brings

LEMMA LedgerStarts == LedgerInit => LedgerBalanced
<1> SUFFICES ASSUME LedgerInit PROVE LedgerBalanced
  OBVIOUS
<1>1. Rows = {}
  BY DEF LedgerInit, Rows
<1>2. LedgerTyped
  BY FreshBalanced DEF LedgerInit, LedgerTyped, CallBalanced, PeriodStatus
<1> QED BY <1>1, <1>2, FS_EmptySet, FreshBalanced DEF LedgerInit, LedgerBalanced

\* Steps that read, and those that touch periods alone.
Reading(c) ==
  \/ \E e \in JournalEntry, p \in Period, f \in Nets, s \in {"DRAFT", "POSTED"} : Create(c, e, p, f, s)
  \/ Number(c) \/ Clash(c)
  \/ \E e \in JournalEntry, f \in Nets \union {None} : UpdateRead(c, e, f)
  \/ \E p \in Period : UpdateDelete(c, p)
  \/ \E e \in JournalEntry : DeleteRead(c, e) \/ PostRead(c, e)
  \/ DeleteLines(c) \/ PostCheck(c)
  \/ \E e, m \in JournalEntry, p \in Period : ReverseRead(c, e, m, p)
  \/ \E p \in Period : CloseRead(c, p) \/ ReopenRead(c, p)
  \/ CloseCount(c) \/ Close(c) \/ Reopen(c)
  \/ \E p \in Period, s \in PeriodStatus : UpdatePeriod(c, p, s)

\* The next thing a request holds in memory.
LEMMA MoveTo ==
  ASSUME LedgerTyped, NEW c \in Caller, NEW t, CallBalanced(t), SetCall(c, t),
         alone' \in BOOLEAN, periodStatus' \in [Period -> PeriodStatus]
  PROVE  Moves(c)
BY DEF LedgerTyped, SetCall, Moves

LEMMA ReadingMoves ==
  ASSUME LedgerBalanced, NEW c \in Caller, Reading(c)
  PROVE  Moves(c) /\ UNCHANGED <<journal, entryLines>>
<1> DEFINE t == caller[c]
<1>1. /\ LedgerTyped /\ t \in CallRow /\ About(t) /\ Balanced(t.cut) /\ (Brings(t) => t.net \in Nets) /\ Fresh \in CallRow /\ Balanced({})
      /\ journal \in [JournalEntry -> JournalRow] /\ alone \in BOOLEAN
      /\ periodStatus \in [Period -> PeriodStatus] /\ entryLines \in [JournalEntry -> SUBSET Batch]
      /\ \A e \in JournalEntry : Balanced(entryLines[e])
      /\ None \notin JournalEntry /\ Top \in Nat
  BY FreshBalanced, TopTyped, LedgerAssumption DEF LedgerBalanced, LedgerTyped, CallBalanced
<1> USE DEF CallBalanced, CallRow, Pc, JournalRow, EntryStatus, PeriodStatus, About, Brings
<1>2. ASSUME NEW e \in JournalEntry, NEW p \in Period, NEW f \in Nets, NEW s \in {"DRAFT", "POSTED"}, Create(c, e, p, f, s)
      PROVE  Moves(c) /\ UNCHANGED <<journal, entryLines>>
  <2> DEFINE next == [Fresh EXCEPT !.pc = "numbering", !.e = e, !.net = f,
                            !.row = [status |-> s, number |-> 0, period |-> p, link |-> None]]
  <2>1. SetCall(c, next) /\ alone' \in BOOLEAN /\ periodStatus' \in [Period -> PeriodStatus] /\ UNCHANGED <<journal, entryLines>>
    BY <1>1, <1>2 DEF Create, SetCall, Goto, Proceed, StartCall
  <2>2. CallBalanced(next)
    BY <1>1, <1>2 DEF Create, Fresh
  <2> HIDE DEF next, CallBalanced
  <2> QED BY <1>1, <2>1, <2>2, MoveTo
<1>3. CASE Number(c)
  <2> DEFINE next == [t EXCEPT !.pc = "inserting", !.row.number = Top + 1]
  <2>1. SetCall(c, next) /\ alone' \in BOOLEAN /\ periodStatus' \in [Period -> PeriodStatus] /\ UNCHANGED <<journal, entryLines>>
    BY <1>1, <1>3 DEF Number, SetCall, Goto, Proceed, StartCall
  <2>a. [t.row EXCEPT !.number = Top + 1] \in JournalRow
    BY <1>1
  <2>2. CallBalanced(next)
    BY <1>1, <2>a, <1>3 DEF Number
  <2> HIDE DEF next, CallBalanced
  <2> QED BY <1>1, <2>1, <2>2, MoveTo
<1>4. CASE Clash(c)
  <2> DEFINE next == [t EXCEPT !.pc = "end"]
  <2>1. SetCall(c, next) /\ alone' \in BOOLEAN /\ periodStatus' \in [Period -> PeriodStatus] /\ UNCHANGED <<journal, entryLines>>
    BY <1>1, <1>4 DEF Clash, SetCall, Goto, Proceed, StartCall
  <2>2. CallBalanced(next)
    BY <1>1, <1>4 DEF Clash
  <2> HIDE DEF next, CallBalanced
  <2> QED BY <1>1, <2>1, <2>2, MoveTo
<1>5. ASSUME NEW e \in JournalEntry, NEW f \in Nets \union {None}, UpdateRead(c, e, f)
      PROVE  Moves(c) /\ UNCHANGED <<journal, entryLines>>
  <2> DEFINE next == [Fresh EXCEPT !.pc = "deleting", !.e = e, !.net = f, !.row = journal[e]]
  <2>1. SetCall(c, next) /\ alone' \in BOOLEAN /\ periodStatus' \in [Period -> PeriodStatus] /\ UNCHANGED <<journal, entryLines>>
    BY <1>1, <1>5 DEF UpdateRead, SetCall, Goto, Proceed, StartCall
  <2>2. CallBalanced(next)
    BY <1>1, <1>5 DEF UpdateRead, Fresh
  <2> HIDE DEF next, CallBalanced
  <2> QED BY <1>1, <2>1, <2>2, MoveTo
<1>6. ASSUME NEW p \in Period, UpdateDelete(c, p)
      PROVE  Moves(c) /\ UNCHANGED <<journal, entryLines>>
  <2> DEFINE gone == IF t.net = None THEN {} ELSE entryLines[t.e]
             next == [t EXCEPT !.pc = "updating", !.row.period = p, !.cut = gone]
  <2>1. SetCall(c, next) /\ alone' \in BOOLEAN /\ periodStatus' \in [Period -> PeriodStatus] /\ UNCHANGED <<journal, entryLines>>
    BY <1>1, <1>6 DEF UpdateDelete, SetCall, Goto, Proceed, StartCall
  <2>a. [t.row EXCEPT !.period = p] \in JournalRow
    BY <1>1
  <2>b. Balanced(gone) /\ gone \in SUBSET Batch /\ t.e \in JournalEntry
    BY <1>1, <1>6 DEF UpdateDelete
  <2>2. CallBalanced(next)
    <3> HIDE DEF gone
    <3> QED BY <1>1, <2>a, <2>b, <1>6 DEF UpdateDelete
  <2> HIDE DEF next, CallBalanced
  <2> QED BY <1>1, <2>1, <2>2, MoveTo
<1>7. ASSUME NEW e \in JournalEntry, DeleteRead(c, e)
      PROVE  Moves(c) /\ UNCHANGED <<journal, entryLines>>
  <2> DEFINE next == [Fresh EXCEPT !.pc = "cutting", !.e = e]
  <2>1. SetCall(c, next) /\ alone' \in BOOLEAN /\ periodStatus' \in [Period -> PeriodStatus] /\ UNCHANGED <<journal, entryLines>>
    BY <1>1, <1>7 DEF DeleteRead, SetCall, Goto, Proceed, StartCall
  <2>2. CallBalanced(next)
    BY <1>1, <1>7 DEF DeleteRead, Fresh
  <2> HIDE DEF next, CallBalanced
  <2> QED BY <1>1, <2>1, <2>2, MoveTo
<1>8. ASSUME NEW e \in JournalEntry, PostRead(c, e)
      PROVE  Moves(c) /\ UNCHANGED <<journal, entryLines>>
  <2> DEFINE row == [journal[e] EXCEPT !.status = "POSTED"]
             next == [Fresh EXCEPT !.pc = "checking", !.e = e, !.row = row]
  <2>1. SetCall(c, next) /\ alone' \in BOOLEAN /\ periodStatus' \in [Period -> PeriodStatus] /\ UNCHANGED <<journal, entryLines>>
    BY <1>1, <1>8 DEF PostRead, SetCall, Goto, Proceed, StartCall
  <2>2. row \in JournalRow
    BY <1>1
  <2>3. CallBalanced(next)
    <3> HIDE DEF row
    <3> QED BY <1>1, <2>2 DEF Fresh
  <2> HIDE DEF next, CallBalanced
  <2> QED BY <1>1, <2>1, <2>3, MoveTo
<1>9. CASE DeleteLines(c)
  <2> DEFINE next == [t EXCEPT !.pc = "dropping", !.cut = entryLines[t.e]]
  <2>1. SetCall(c, next) /\ alone' \in BOOLEAN /\ periodStatus' \in [Period -> PeriodStatus] /\ UNCHANGED <<journal, entryLines>>
    BY <1>1, <1>9 DEF DeleteLines, SetCall, Goto, Proceed, StartCall
  <2>2. CallBalanced(next)
    BY <1>1, <1>9 DEF DeleteLines
  <2> HIDE DEF next, CallBalanced
  <2> QED BY <1>1, <2>1, <2>2, MoveTo
<1>10. CASE PostCheck(c)
  <2> DEFINE next == [t EXCEPT !.pc = IF Postable(t.row.period) THEN "posting" ELSE "end"]
  <2>1. SetCall(c, next) /\ alone' \in BOOLEAN /\ periodStatus' \in [Period -> PeriodStatus] /\ UNCHANGED <<journal, entryLines>>
    BY <1>1, <1>10 DEF PostCheck, SetCall, Goto, Proceed, StartCall
  <2>2. CallBalanced(next)
    BY <1>1, <1>10 DEF PostCheck
  <2> HIDE DEF next, CallBalanced
  <2> QED BY <1>1, <2>1, <2>2, MoveTo
<1>11. ASSUME NEW e \in JournalEntry, NEW m \in JournalEntry, NEW p \in Period, ReverseRead(c, e, m, p)
      PROVE  Moves(c) /\ UNCHANGED <<journal, entryLines>>
  <2> DEFINE next == [Fresh EXCEPT !.pc = "numbering", !.e = m, !.of = e, !.was = journal[e], !.cut = entryLines[e],
                            !.row = [status |-> "POSTED", number |-> 0, period |-> p, link |-> e]]
  <2>1. SetCall(c, next) /\ alone' \in BOOLEAN /\ periodStatus' \in [Period -> PeriodStatus] /\ UNCHANGED <<journal, entryLines>>
    BY <1>1, <1>11 DEF ReverseRead, SetCall, Goto, Proceed, StartCall
  <2>2. CallBalanced(next)
    BY <1>1, <1>11 DEF ReverseRead, Fresh
  <2> HIDE DEF next, CallBalanced
  <2> QED BY <1>1, <2>1, <2>2, MoveTo
<1>12. ASSUME NEW p \in Period, CloseRead(c, p)
      PROVE  Moves(c) /\ UNCHANGED <<journal, entryLines>>
  <2> DEFINE next == [Fresh EXCEPT !.pc = "counting", !.row.period = p]
  <2>1. SetCall(c, next) /\ alone' \in BOOLEAN /\ periodStatus' \in [Period -> PeriodStatus] /\ UNCHANGED <<journal, entryLines>>
    BY <1>1, <1>12 DEF CloseRead, SetCall, Goto, Proceed, StartCall
  <2>2. CallBalanced(next)
    BY <1>1, <1>12 DEF CloseRead, Fresh
  <2> HIDE DEF next, CallBalanced
  <2> QED BY <1>1, <2>1, <2>2, MoveTo
<1>13. ASSUME NEW p \in Period, ReopenRead(c, p)
      PROVE  Moves(c) /\ UNCHANGED <<journal, entryLines>>
  <2> DEFINE next == [Fresh EXCEPT !.pc = "reopening", !.row.period = p]
  <2>1. SetCall(c, next) /\ alone' \in BOOLEAN /\ periodStatus' \in [Period -> PeriodStatus] /\ UNCHANGED <<journal, entryLines>>
    BY <1>1, <1>13 DEF ReopenRead, SetCall, Goto, Proceed, StartCall
  <2>2. CallBalanced(next)
    BY <1>1, <1>13 DEF ReopenRead, Fresh
  <2> HIDE DEF next, CallBalanced
  <2> QED BY <1>1, <2>1, <2>2, MoveTo
<1>14. CASE CloseCount(c)
  <2> DEFINE next == [t EXCEPT !.pc = IF Drafts(t.row.period) = {} THEN "closing" ELSE "end"]
  <2>1. SetCall(c, next) /\ alone' \in BOOLEAN /\ periodStatus' \in [Period -> PeriodStatus] /\ UNCHANGED <<journal, entryLines>>
    BY <1>1, <1>14 DEF CloseCount, SetCall, Goto, Proceed, StartCall
  <2>2. CallBalanced(next)
    BY <1>1, <1>14 DEF CloseCount
  <2> HIDE DEF next, CallBalanced
  <2> QED BY <1>1, <2>1, <2>2, MoveTo
<1>15. CASE Close(c) \/ Reopen(c)
  <2> DEFINE next == [t EXCEPT !.pc = "end"]
  <2>1. SetCall(c, next) /\ alone' \in BOOLEAN /\ periodStatus' \in [Period -> PeriodStatus] /\ UNCHANGED <<journal, entryLines>>
    BY <1>1, <1>15 DEF Close, Reopen, SetCall, Goto, Proceed, StartCall
  <2>2. CallBalanced(next)
    BY <1>1, <1>15 DEF Close, Reopen
  <2> HIDE DEF next, CallBalanced
  <2> QED BY <1>1, <2>1, <2>2, MoveTo
<1>16. ASSUME NEW p \in Period, NEW s \in PeriodStatus, UpdatePeriod(c, p, s)
      PROVE  Moves(c) /\ UNCHANGED <<journal, entryLines>>
  <2> DEFINE next == [Fresh EXCEPT !.pc = "end"]
  <2>1. SetCall(c, next) /\ alone' \in BOOLEAN /\ periodStatus' \in [Period -> PeriodStatus] /\ UNCHANGED <<journal, entryLines>>
    BY <1>1, <1>16 DEF UpdatePeriod, SetCall, Goto, Proceed, StartCall
  <2>2. CallBalanced(next)
    BY <1>1, <1>16 DEF UpdatePeriod, Fresh
  <2> HIDE DEF next, CallBalanced
  <2> QED BY <1>1, <2>1, <2>2, MoveTo
<1> HIDE DEF t
<1> QED BY <1>2, <1>3, <1>4, <1>5, <1>6, <1>7, <1>8, <1>9, <1>10, <1>11, <1>12, <1>13, <1>14, <1>15, <1>16 DEF Reading

\* Steps that write entries or lines.
Writing(c) == Insert(c) \/ Update(c) \/ Delete(c) \/ Post(c) \/ ReverseEntry(c)

LEMMA WritingKeeps ==
  ASSUME LedgerBalanced, NEW c \in Caller, Writing(c)
  PROVE  /\ Moves(c)
         /\ journal' \in [JournalEntry -> JournalRow] /\ entryLines' \in [JournalEntry -> SUBSET Batch]
         /\ Rows' \subseteq Rows \union {caller[c].e, caller[c].of}
         /\ \A e \in JournalEntry : Balanced(entryLines'[e])
<1> DEFINE t == caller[c]
           new == [by |-> c, net |-> t.net]
<1>1. /\ LedgerTyped /\ t \in CallRow /\ About(t) /\ Balanced(t.cut) /\ (Brings(t) => t.net \in Nets)
      /\ journal \in [JournalEntry -> JournalRow] /\ alone \in BOOLEAN
      /\ periodStatus \in [Period -> PeriodStatus] /\ entryLines \in [JournalEntry -> SUBSET Batch]
      /\ \A e \in JournalEntry : Balanced(entryLines[e])
      /\ None \notin JournalEntry
  BY LedgerAssumption DEF LedgerBalanced, LedgerTyped, CallBalanced
<1>2. Moves(c)
  <2> DEFINE next == [t EXCEPT !.pc = "end"]
  <2>1. SetCall(c, next) /\ alone' \in BOOLEAN /\ periodStatus' \in [Period -> PeriodStatus]
    BY <1>1 DEF Writing, Insert, Update, Delete, Post, ReverseEntry, SetCall, Goto, Proceed
  <2>2. CallBalanced(next)
    BY <1>1 DEF CallBalanced, CallRow, Pc, About, Brings
  <2> HIDE DEF next
  <2> QED BY <1>1, <2>1, <2>2, MoveTo
<1>3. t.net \in Nets => new \in Batch /\ Zero(new.net) /\ Balanced({new})
  <2>1. new.net = t.net /\ (t.net \in Nets => new \in Batch)
    BY LedgerAssumption DEF Batch
  <2>2. IsFiniteSet({new})
    BY FS_Singleton
  <2> HIDE DEF new
  <2> QED BY <2>1, <2>2, NetsAreZero DEF Balanced
<1>4. t.row \in JournalRow /\ t.was \in JournalRow /\ t.cut \in SUBSET Batch
  BY <1>1 DEF CallRow
<1>5. \A e \in JournalEntry : Balanced(entryLines[e] \ t.cut)
  BY <1>1, FS_Difference DEF Balanced
<1> HIDE DEF t
<1>6. CASE Insert(c)
  <2>1. t.net \in Nets /\ journal' = [journal EXCEPT ![t.e] = t.row] /\ entryLines' = [entryLines EXCEPT ![t.e] = {new}]
    BY <1>1, <1>6 DEF Insert, Brings, t
  <2> HIDE DEF new
  <2> QED BY <1>1, <1>2, <1>3, <1>4, <2>1 DEF Rows, t
<1>7. CASE Update(c)
  <2>1. journal' = [journal EXCEPT ![t.e] = t.row] /\ t.e \in JournalEntry
    BY <1>1, <1>7 DEF Update, About, t
  <2>2. entryLines' = [entryLines EXCEPT ![t.e] = (@ \ t.cut) \union Sent(c)]
    BY <1>7 DEF Update, t
  <2>3. PICK sent : sent = Sent(c)
    OBVIOUS
  <2>4. sent \in SUBSET Batch /\ \A e \in JournalEntry : Balanced((entryLines[e] \ t.cut) \union sent)
    <3>1. CASE t.net = None
      BY <1>5, <2>3, <3>1 DEF Sent, t
    <3>2. CASE t.net # None
      <4>1. t.net \in Nets /\ sent = {new}
        BY <1>1, <2>3, <3>2 DEF CallRow, Sent, t
      <4> HIDE DEF new
      <4> QED BY <1>3, <1>5, <4>1, FS_AddElement DEF Balanced
    <3> QED BY <3>1, <3>2
  <2>5. entryLines' = [entryLines EXCEPT ![t.e] = (@ \ t.cut) \union sent]
    BY <2>2, <2>3
  <2>6. entryLines' \in [JournalEntry -> SUBSET Batch] /\ \A e \in JournalEntry : Balanced(entryLines'[e])
    BY <1>1, <2>4, <2>5
  <2> HIDE DEF new
  <2> QED BY <1>1, <1>2, <1>4, <2>1, <2>6 DEF Rows, t
<1>8. CASE Delete(c)
  <2>1. journal' = [journal EXCEPT ![t.e] = Absent] /\ entryLines' = [entryLines EXCEPT ![t.e] = @ \ t.cut]
    BY <1>8 DEF Delete, t
  <2> QED BY <1>1, <1>2, <1>5, <2>1, FreshBalanced DEF Rows, t
<1>9. CASE Post(c)
  <2>1. journal' = [journal EXCEPT ![t.e] = t.row] /\ entryLines' = entryLines
    BY <1>9 DEF Post, t
  <2> QED BY <1>1, <1>2, <1>4, <2>1 DEF Rows, t
<1>10. CASE ReverseEntry(c)
  <2> DEFINE was == [t.was EXCEPT !.status = "REVERSED", !.link = t.e]
             mirror == {[by |-> c, net |-> MirrorNet(b.net)] : b \in t.cut}
  <2>1. journal' = [journal EXCEPT ![t.e] = t.row, ![t.of] = was] /\ entryLines' = [entryLines EXCEPT ![t.e] = mirror]
    BY <1>10 DEF ReverseEntry, t
  <2>2. was \in JournalRow
    BY <1>1, <1>4, <1>10 DEF CallRow, JournalRow, EntryStatus, ReverseEntry
  <2>3. Balanced(mirror)
    <3>1. Balanced(t.cut)
      BY <1>1 DEF t
    <3> QED BY <3>1, MirrorsBalance
  <2>4. mirror \in SUBSET Batch
    BY <1>4 DEF Batch, MirrorNet
  <2> HIDE DEF was, mirror
  <2> QED BY <1>1, <1>2, <1>4, <2>1, <2>2, <2>3, <2>4 DEF Rows, t
<1> QED BY <1>6, <1>7, <1>8, <1>9, <1>10 DEF Writing

LEMMA LedgerBalancedKept ==
  LedgerBalanced /\ [LedgerNext]_ledgerVars => LedgerBalanced'
<1> SUFFICES ASSUME LedgerBalanced, [LedgerNext]_ledgerVars PROVE LedgerBalanced'
  OBVIOUS
<1>1. CASE UNCHANGED ledgerVars
  BY <1>1 DEF ledgerVars, LedgerBalanced, LedgerTyped, Rows
<1>2. CASE LedgerNext
  <2>1. PICK c \in Caller : Reading(c) \/ Writing(c)
    BY <1>2 DEF LedgerNext, Reading, Writing
  <2>2. /\ Moves(c)
        /\ journal' \in [JournalEntry -> JournalRow] /\ entryLines' \in [JournalEntry -> SUBSET Batch]
        /\ Rows' \subseteq Rows \union {caller[c].e, caller[c].of}
        /\ \A e \in JournalEntry : Balanced(entryLines'[e])
    <3>1. CASE Writing(c)
      BY <3>1, WritingKeeps
    <3>2. CASE Reading(c)
      BY <3>2, ReadingMoves DEF Rows, LedgerBalanced, LedgerTyped
    <3> QED BY <2>1, <3>1, <3>2
  <2>3. IsFiniteSet(Rows')
    <3>1. IsFiniteSet(Rows \union {caller[c].e, caller[c].of})
      <4>1. Rows \union {caller[c].e, caller[c].of} = (Rows \union {caller[c].e}) \union {caller[c].of}
        OBVIOUS
      <4> QED BY <4>1, FS_AddElement DEF LedgerBalanced
    <3> QED BY <2>2, <3>1, FS_Subset
  <2>4. LedgerTyped' /\ \A d \in Caller : CallBalanced(caller'[d])
    BY <2>2 DEF Moves, LedgerBalanced, LedgerTyped, CallBalanced
  <2> QED BY <2>2, <2>3, <2>4 DEF LedgerBalanced
<1> QED BY <1>1, <1>2

LEMMA BalancedBooks ==
  LedgerBalanced => BooksBalance
<1> SUFFICES ASSUME LedgerBalanced PROVE BooksBalance
  OBVIOUS
<1> DEFINE J == PostedAmong(JournalEntry)
<1>1. IsFiniteSet(J)
  <2>1. J \in SUBSET Rows
    BY DEF PostedAmong, Rows, Absent
  <2> QED BY <2>1, FS_Subset DEF LedgerBalanced
<1>2. \A e \in J : Balanced(entryLines[e])
  BY DEF LedgerBalanced, PostedAmong
<1> HIDE DEF J
<1>3. SumFunction([a \in Account |-> SumFunction([e \in J |-> SumFunction([b \in entryLines[e] |-> b.net[a]])])]) = 0
  BY <1>1, <1>2, BalancedSums, LedgerAssumption
<1> QED BY <1>3 DEF BooksBalance, Balance, Net, J

\* In every state, for any accounts, entries, periods and requests, overlapping or not:
\* the balances of the accounts add up to nothing (getTrialBalance over what
\* postJournalEntry, updateJournalEntry and reverseJournalEntry write).
THEOREM TrialBalanceBalances == LedgerSpec => []BooksBalance
<1>1. LedgerInit => LedgerBalanced
  BY LedgerStarts
<1>2. LedgerBalanced /\ [LedgerNext]_ledgerVars => LedgerBalanced'
  BY LedgerBalancedKept
<1>3. LedgerBalanced => BooksBalance
  BY BalancedBooks
<1> QED BY <1>1, <1>2, <1>3, PTL DEF LedgerSpec

-----------------------------------------------------------------------------
\* Between its steps a call that is alone sees no change: what it holds is what
\* the tables say.
MirrorOf(e, m) ==
  /\ journal[m].status \in {"POSTED", "REVERSED"}
  /\ \A a \in Account : Net(m, a) = 0 - Net(e, a)
  /\ \A d \in JournalEntry : journal[d].status = "POSTED" => (journal[d].link = e <=> d = m)
EntryKept(e) ==
  /\ \A b, d \in entryLines[e] : b = d
  /\ journal[e].status = "absent" => journal[e] = Absent /\ entryLines[e] = {}
  /\ journal[e].status = "DRAFT" => journal[e].link = None
  /\ journal[e].status = "POSTED" /\ journal[e].link # None =>
       journal[journal[e].link].status = "REVERSED" /\ journal[journal[e].link].link = e
  /\ journal[e].status = "REVERSED" => journal[e].link \in JournalEntry /\ MirrorOf(e, journal[e].link)

MakingKept(t) ==
  t.pc \in {"numbering", "inserting"} =>
    /\ t.e \in JournalEntry /\ journal[t.e] = Absent /\ entryLines[t.e] = {}
    /\ t.row.status \in {"DRAFT", "POSTED"} /\ t.row.period \in Period
    /\ Postable(t.row.period) \/ (t.of # None /\ t.row.period = t.was.period)
    /\ t.of = None => t.row.link = None
    /\ t.of # None => /\ t.of \in JournalEntry /\ t.of # t.e /\ t.was = journal[t.of] /\ t.was.status = "POSTED"
                       /\ t.cut = entryLines[t.of] /\ t.row.status = "POSTED" /\ t.row.link = t.of
EditKept(t) ==
  /\ t.pc \in {"deleting", "updating", "cutting", "dropping", "checking", "posting"} => journal[t.e].status = "DRAFT"
  /\ t.pc \in {"deleting", "updating"} => t.row.status = "DRAFT" /\ t.row.link = None
  /\ t.pc = "dropping" => t.cut = entryLines[t.e]
  /\ t.pc = "updating" => t.cut = IF t.net = None THEN {} ELSE entryLines[t.e]
  /\ t.pc \in {"checking", "posting"} => t.row = [journal[t.e] EXCEPT !.status = "POSTED"]
  /\ t.pc = "posting" => Postable(t.row.period)
PeriodKept(t) ==
  /\ t.pc \in {"counting", "closing", "reopening"} => periodStatus[t.row.period] # "LOCKED"
  /\ t.pc = "closing" => Drafts(t.row.period) = {}
CallKept(c) == MakingKept(caller[c]) /\ EditKept(caller[c]) /\ PeriodKept(caller[c])

OneAtATime == \A c, d \in Caller : Active(c) /\ Active(d) => c = d
AloneKept == OneAtATime /\ (\A e \in JournalEntry : EntryKept(e)) /\ \A c \in Caller : CallKept(c)
LedgerKept == LedgerBalanced /\ (alone => AloneKept)

LEMMA NetUnchanged ==
  ASSUME NEW e, UNCHANGED entryLines[e], NEW a
  PROVE  Net(e, a)' = Net(e, a)
BY DEF Net

\* A call that is alone, or starts alone.
Solo(c) == \A d \in Caller : Active(d) => d = c
LEMMA SoloStep ==
  ASSUME LedgerKept, NEW c \in Caller, Reading(c) \/ Writing(c), alone'
  PROVE  alone /\ AloneKept /\ Solo(c)
<1>1. CASE StartCall(c)
  <2>1. alone /\ \A k \in Caller : ~ Active(k)
    BY <1>1 DEF StartCall
  <2> QED BY <2>1 DEF LedgerKept, Solo
<1>2. CASE alone' = alone /\ Active(c)
  BY <1>2 DEF LedgerKept, AloneKept, OneAtATime, Solo
<1>3. StartCall(c) \/ (alone' = alone /\ Active(c))
  <2>1. Reading(c) => StartCall(c) \/ (alone' = alone /\ Active(c))
    BY DEF Reading, Create, Number, Clash, UpdateRead, UpdateDelete, DeleteRead, PostRead, DeleteLines, PostCheck, ReverseRead,
       CloseRead, ReopenRead, CloseCount, Close, Reopen, UpdatePeriod, Goto, Proceed, Active
  <2>2. Writing(c) => alone' = alone /\ Active(c)
    BY DEF Writing, Insert, Update, Delete, Post, ReverseEntry, Goto, Proceed, Active
  <2> QED BY <2>1, <2>2
<1> QED BY <1>1, <1>2, <1>3

\* Entries that are absent or drafts may change: no reversal is about them.
LEMMA DraftChanges ==
  ASSUME LedgerBalanced, AloneKept, NEW m \in JournalEntry, journal[m].status \in {"absent", "DRAFT"},
         NEW r \in JournalRow, r.status \in {"absent", "DRAFT", "POSTED"}, r.link = None,
         NEW L, \A b, d \in L : b = d, r.status = "absent" => r = Absent /\ L = {},
         journal' = [journal EXCEPT ![m] = r], entryLines' = [entryLines EXCEPT ![m] = L]
  PROVE  \A e \in JournalEntry : EntryKept(e)'
<1>1. /\ journal \in [JournalEntry -> JournalRow] /\ entryLines \in [JournalEntry -> SUBSET Batch] /\ None \notin JournalEntry
      /\ \A e \in JournalEntry : EntryKept(e)
  BY LedgerAssumption DEF LedgerBalanced, LedgerTyped, AloneKept
<1>2. journal'[m] = r /\ entryLines'[m] = L
  BY <1>1
<1>3. EntryKept(m)'
  BY <1>2 DEF EntryKept
<1>4. ASSUME NEW e \in JournalEntry, e # m PROVE EntryKept(e)'
  <2>1. journal'[e] = journal[e] /\ entryLines'[e] = entryLines[e]
    BY <1>1, <1>4
  <2>2. CASE journal[e].status \in {"absent", "DRAFT"}
    BY <1>1, <2>1, <2>2 DEF EntryKept
  <2>3. CASE journal[e].status = "POSTED"
    <3>1. journal[e].link # None => journal[e].link \in JournalEntry /\ journal[e].link # m
      BY <1>1, <2>3 DEF EntryKept, JournalRow
    <3> QED BY <1>1, <2>1, <2>3, <3>1 DEF EntryKept
  <2>4. CASE journal[e].status = "REVERSED"
    <3> DEFINE k == journal[e].link
    <3>1. k \in JournalEntry /\ MirrorOf(e, k)
      BY <1>1, <2>4 DEF EntryKept
    <3>2. k # m /\ journal'[k] = journal[k] /\ entryLines'[k] = entryLines[k]
      BY <1>1, <3>1 DEF MirrorOf
    <3>3. \A a \in Account : Net(k, a)' = Net(k, a) /\ Net(e, a)' = Net(e, a)
      BY <2>1, <3>2, NetUnchanged
    <3>4. \A d \in JournalEntry : journal'[d].status = "POSTED" => (journal'[d].link = e <=> d = k)
      BY <1>1, <3>1, <3>2 DEF MirrorOf
    <3>5. MirrorOf(e, k)'
      BY <3>1, <3>2, <3>3, <3>4, <2>1 DEF MirrorOf
    <3> QED BY <1>1, <2>1, <2>4, <3>1, <3>5 DEF EntryKept
  <2> QED BY <2>2, <2>3, <2>4, <1>1 DEF JournalRow, EntryStatus
<1> QED BY <1>3, <1>4

LEMMA ReversalMade ==
  ASSUME LedgerBalanced, AloneKept, NEW c \in Caller, NEW e \in JournalEntry, NEW m \in JournalEntry, e # m,
         journal[m] = Absent, entryLines[m] = {}, journal[e].status = "POSTED",
         NEW r \in JournalRow, r.status = "POSTED", r.link = e,
         NEW mirror, mirror = {[by |-> c, net |-> MirrorNet(b.net)] : b \in entryLines[e]},
         journal' = [journal EXCEPT ![m] = r, ![e] = [journal[e] EXCEPT !.status = "REVERSED", !.link = m]],
         entryLines' = [entryLines EXCEPT ![m] = mirror]
  PROVE  \A x \in JournalEntry : EntryKept(x)'
<1>1. /\ journal \in [JournalEntry -> JournalRow] /\ entryLines \in [JournalEntry -> SUBSET Batch] /\ None \notin JournalEntry
      /\ (\A x \in JournalEntry : EntryKept(x))
  BY LedgerAssumption DEF LedgerBalanced, LedgerTyped, AloneKept
<1>2. \A b, d \in mirror : b = d
  BY <1>1 DEF EntryKept
<1>3. /\ journal'[m] = r /\ entryLines'[m] = mirror /\ entryLines'[e] = entryLines[e]
      /\ journal'[e].status = "REVERSED" /\ journal'[e].link = m
      /\ \A x \in JournalEntry : x # e /\ x # m => journal'[x] = journal[x] /\ entryLines'[x] = entryLines[x]
  BY <1>1 DEF JournalRow
<1>4. EntryKept(m)'
  BY <1>2, <1>3 DEF EntryKept
<1>5. \A d \in JournalEntry : journal[d].status = "POSTED" => journal[d].link # e
  BY <1>1, <1>2 DEF EntryKept
<1>6. EntryKept(e)'
  <2>1. ASSUME NEW a \in Account PROVE Net(m, a)' = 0 - Net(e, a)'
    <3> DEFINE f == [b \in mirror |-> b.net[a]]
               g == [b \in entryLines[e] |-> b.net[a]]
    <3>1. Net(m, a)' = SumFunction(f) /\ Net(e, a)' = SumFunction(g)
      BY <1>3 DEF Net
    <3>2. DOMAIN f = mirror /\ DOMAIN g = entryLines[e]
      OBVIOUS
    <3>3. CASE entryLines[e] = {}
      <4>1. mirror = {}
        BY <3>3
      <4> HIDE DEF f, g
      <4>2. DOMAIN f = {} /\ DOMAIN g = {}
        BY <3>2, <3>3, <4>1
      <4>3. SumFunction(f) = 0 /\ SumFunction(g) = 0
        BY <4>2, SumNone
      <4> QED BY <3>1, <4>3
    <3>4. CASE entryLines[e] # {}
      <4>1. PICK b \in entryLines[e] : TRUE
        BY <3>4
      <4>2. entryLines[e] = {b} /\ b \in Batch
        BY <1>1 DEF EntryKept
      <4> DEFINE d == [by |-> c, net |-> MirrorNet(b.net)]
      <4>3. mirror = {d}
        BY <4>2
      <4>4. g[b] \in Int /\ f[d] = 0 - g[b]
        BY <4>2, <4>3 DEF Batch, MirrorNet
      <4> HIDE DEF d, f, g
      <4> QED BY <3>1, <3>2, <4>2, <4>3, <4>4, SumOne
    <3> QED BY <3>3, <3>4
  <2>2. \A d \in JournalEntry : journal'[d].status = "POSTED" => (journal'[d].link = e <=> d = m)
    BY <1>2, <1>3, <1>5
  <2>3. MirrorOf(e, m)'
    BY <1>2, <1>3, <2>1, <2>2 DEF MirrorOf
  <2> QED BY <1>1, <1>2, <1>3, <2>3 DEF EntryKept
<1>7. ASSUME NEW x \in JournalEntry, x # e, x # m PROVE EntryKept(x)'
  <2>1. journal'[x] = journal[x] /\ entryLines'[x] = entryLines[x]
    BY <1>3, <1>7
  <2>2. CASE journal[x].status \in {"absent", "DRAFT"}
    BY <1>1, <2>1, <2>2 DEF EntryKept
  <2>3. CASE journal[x].status = "POSTED"
    <3>1. CASE journal[x].link = None
      BY <1>1, <2>1, <2>3, <3>1 DEF EntryKept
    <3>2. CASE journal[x].link # None
      <4>1. PICK k \in JournalEntry : k = journal[x].link /\ journal[k].status = "REVERSED" /\ journal[k].link = x
        BY <1>1, <2>3, <3>2 DEF EntryKept, JournalRow
      <4>2. k # m
        BY <4>1 DEF Absent
      <4>3. k # e
        BY <4>1
      <4>4. journal'[k] = journal[k]
        BY <1>3, <4>2, <4>3
      <4> QED BY <1>1, <2>1, <2>3, <4>1, <4>4 DEF EntryKept
    <3> QED BY <3>1, <3>2
  <2>4. CASE journal[x].status = "REVERSED"
    <3>1. PICK k \in JournalEntry : k = journal[x].link /\ MirrorOf(x, k)
      BY <1>1, <2>4 DEF EntryKept
    <3>2. k # m
      BY <1>2, <3>1 DEF MirrorOf, Absent
    <3>3. entryLines'[k] = entryLines[k] /\ journal'[k].status \in {"POSTED", "REVERSED"}
      BY <1>3, <3>1, <3>2 DEF MirrorOf
    <3>4. \A a \in Account : Net(k, a)' = Net(k, a) /\ Net(x, a)' = Net(x, a)
      BY <2>1, <3>3, NetUnchanged
    <3>5. ASSUME NEW d \in JournalEntry, journal'[d].status = "POSTED" PROVE journal'[d].link = x <=> d = k
      <4>1. CASE d = m
        BY <1>2, <1>3, <1>7, <3>2, <4>1
      <4>2. CASE d # m
        <5>1. d # e /\ journal'[d] = journal[d]
          BY <1>3, <3>5, <4>2
        <5> QED BY <3>1, <3>5, <5>1 DEF MirrorOf
      <4> QED BY <4>1, <4>2
    <3>6. MirrorOf(x, k)'
      BY <3>1, <3>3, <3>4, <3>5 DEF MirrorOf
    <3> QED BY <1>1, <2>1, <2>4, <3>1, <3>6 DEF EntryKept
  <2> QED BY <2>2, <2>3, <2>4, <1>1 DEF JournalRow, EntryStatus
<1> QED BY <1>4, <1>6, <1>7

\* What a call that is alone has read stands.
LEMMA EntryReadingKeeps ==
  ASSUME LedgerBalanced, AloneKept, NEW c \in Caller, Reading(c)
  PROVE  CallKept(c)'
<1> DEFINE t == caller[c]
<1>1. /\ caller \in [Caller -> CallRow] /\ t \in CallRow /\ About(t)
      /\ journal \in [JournalEntry -> JournalRow] /\ None \notin JournalEntry
      /\ MakingKept(t) /\ EditKept(t) /\ PeriodKept(t)
      /\ \A e \in JournalEntry : EntryKept(e)
      /\ UNCHANGED <<journal, entryLines>>
  BY ReadingMoves, LedgerAssumption DEF LedgerBalanced, LedgerTyped, AloneKept, CallKept, CallBalanced
<1> USE DEF CallRow, Pc, JournalRow, MakingKept, EditKept, PeriodKept, Postable
<1>2. ASSUME NEW e \in JournalEntry, NEW p \in Period, NEW f \in Nets, NEW s \in {"DRAFT", "POSTED"}, Create(c, e, p, f, s)
      PROVE  CallKept(c)'
  BY <1>1, <1>2 DEF Create, Unused, Ids, Fresh, Absent, SetCall, Goto, Proceed, StartCall, CallKept
<1>3. CASE Number(c)
  BY <1>1, <1>3 DEF Number, SetCall, Goto, Proceed, StartCall, CallKept
<1>4. CASE Clash(c)
  BY <1>1, <1>4 DEF Clash, SetCall, Goto, Proceed, StartCall, CallKept
<1>5. ASSUME NEW e \in JournalEntry, NEW f \in Nets \union {None}, UpdateRead(c, e, f)
      PROVE  CallKept(c)'
  BY <1>1, <1>5 DEF UpdateRead, EntryKept, Fresh, Absent, SetCall, Goto, Proceed, StartCall, CallKept
<1>6. ASSUME NEW p \in Period, UpdateDelete(c, p)
      PROVE  CallKept(c)'
  BY <1>1, <1>6 DEF UpdateDelete, About, SetCall, Goto, Proceed, StartCall, CallKept
<1>7. ASSUME NEW e \in JournalEntry, DeleteRead(c, e)
      PROVE  CallKept(c)'
  BY <1>1, <1>7 DEF DeleteRead, Fresh, Absent, SetCall, Goto, Proceed, StartCall, CallKept
<1>8. ASSUME NEW e \in JournalEntry, PostRead(c, e)
      PROVE  CallKept(c)'
  BY <1>1, <1>8 DEF PostRead, Fresh, Absent, SetCall, Goto, Proceed, StartCall, CallKept
<1>9. CASE DeleteLines(c)
  BY <1>1, <1>9 DEF DeleteLines, SetCall, Goto, Proceed, StartCall, CallKept
<1>10. CASE PostCheck(c)
  BY <1>1, <1>10 DEF PostCheck, SetCall, Goto, Proceed, StartCall, CallKept
<1>11. ASSUME NEW e \in JournalEntry, NEW m \in JournalEntry, NEW p \in Period, ReverseRead(c, e, m, p)
      PROVE  CallKept(c)'
  BY <1>1, <1>11 DEF ReverseRead, Unused, Ids, Fresh, Absent, SetCall, Goto, Proceed, StartCall, CallKept
<1>12. ASSUME NEW p \in Period, CloseRead(c, p)
      PROVE  CallKept(c)'
  BY <1>1, <1>12 DEF CloseRead, Fresh, Absent, SetCall, Goto, Proceed, StartCall, CallKept
<1>13. ASSUME NEW p \in Period, ReopenRead(c, p)
      PROVE  CallKept(c)'
  BY <1>1, <1>13 DEF ReopenRead, Fresh, Absent, SetCall, Goto, Proceed, StartCall, CallKept
<1>14. CASE CloseCount(c)
  BY <1>1, <1>14 DEF CloseCount, Drafts, SetCall, Goto, Proceed, StartCall, CallKept
<1>15. CASE Close(c) \/ Reopen(c)
  BY <1>1, <1>15 DEF Close, Reopen, SetCall, Goto, Proceed, StartCall, CallKept
<1>16. ASSUME NEW p \in Period, NEW s \in PeriodStatus, UpdatePeriod(c, p, s)
      PROVE  CallKept(c)'
  BY <1>1, <1>16 DEF UpdatePeriod, Fresh, SetCall, Goto, Proceed, StartCall, CallKept
<1> HIDE DEF t
<1> QED BY <1>2, <1>3, <1>4, <1>5, <1>6, <1>7, <1>8, <1>9, <1>10, <1>11, <1>12, <1>13, <1>14, <1>15, <1>16 DEF Reading

LEMMA EntriesKept ==
  ASSUME LedgerBalanced, AloneKept, NEW c \in Caller, Writing(c)
  PROVE  \A e \in JournalEntry : EntryKept(e)'
<1> DEFINE t == caller[c]
           new == [by |-> c, net |-> t.net]
<1>1. /\ t \in CallRow /\ About(t) /\ None \notin JournalEntry /\ MakingKept(t) /\ EditKept(t)
      /\ journal \in [JournalEntry -> JournalRow] /\ entryLines \in [JournalEntry -> SUBSET Batch]
      /\ \A e \in JournalEntry : EntryKept(e)
  BY LedgerAssumption DEF LedgerBalanced, LedgerTyped, AloneKept, CallKept, CallBalanced
<1>2. t.row \in JournalRow /\ t.pc \notin {"new", "counting", "closing", "reopening", "end"} => t.e \in JournalEntry
  BY <1>1 DEF CallRow, About
<1>3. CASE Insert(c)
  <2>1. /\ t.e \in JournalEntry /\ journal[t.e].status \in {"absent", "DRAFT"} /\ t.row \in JournalRow
        /\ t.row.status \in {"DRAFT", "POSTED"} /\ t.row.link = None
        /\ journal' = [journal EXCEPT ![t.e] = t.row] /\ entryLines' = [entryLines EXCEPT ![t.e] = {new}]
    BY <1>1, <1>3 DEF Insert, MakingKept, CallRow, Absent
  <2>2. PICK L : L = {new} /\ (\A b, d \in L : b = d) /\ entryLines' = [entryLines EXCEPT ![t.e] = L]
    BY <2>1
  <2>3. t.row.status \in {"absent", "DRAFT", "POSTED"} /\ (t.row.status = "absent" => t.row = Absent /\ L = {})
    BY <2>1
  <2>4. PICK m \in JournalEntry, r \in JournalRow : m = t.e /\ r = t.row
    BY <2>1
  <2>5. /\ journal[m].status \in {"absent", "DRAFT"} /\ r.status \in {"absent", "DRAFT", "POSTED"} /\ r.link = None
        /\ (\A b, d \in L : b = d) /\ (r.status = "absent" => r = Absent /\ L = {})
        /\ journal' = [journal EXCEPT ![m] = r] /\ entryLines' = [entryLines EXCEPT ![m] = L]
    BY <2>1, <2>2, <2>3, <2>4
  <2> QED BY <2>5, DraftChanges
<1>4. CASE Update(c)
  <2>1. /\ t.e \in JournalEntry /\ journal[t.e].status \in {"absent", "DRAFT"} /\ t.row \in JournalRow
        /\ t.row.status \in {"DRAFT", "POSTED"} /\ t.row.link = None
        /\ t.cut = IF t.net = None THEN {} ELSE entryLines[t.e]
        /\ journal' = [journal EXCEPT ![t.e] = t.row]
        /\ entryLines' = [entryLines EXCEPT ![t.e] = (@ \ t.cut) \union Sent(c)]
    BY <1>1, <1>4 DEF Update, EditKept, CallRow, About
  <2>2. PICK L : L = (entryLines[t.e] \ t.cut) \union Sent(c) /\ entryLines' = [entryLines EXCEPT ![t.e] = L]
    BY <2>1
  <2>3. \A b, d \in L : b = d
    <3>1. \A b, d \in entryLines[t.e] : b = d
      BY <1>1, <2>1 DEF EntryKept
    <3> QED BY <2>1, <2>2, <3>1 DEF Sent
  <2>4. t.row.status \in {"absent", "DRAFT", "POSTED"} /\ (t.row.status = "absent" => t.row = Absent /\ L = {})
    BY <2>1
  <2>5. PICK m \in JournalEntry, r \in JournalRow : m = t.e /\ r = t.row
    BY <2>1
  <2>6. /\ journal[m].status \in {"absent", "DRAFT"} /\ r.status \in {"absent", "DRAFT", "POSTED"} /\ r.link = None
        /\ (\A b, d \in L : b = d) /\ (r.status = "absent" => r = Absent /\ L = {})
        /\ journal' = [journal EXCEPT ![m] = r] /\ entryLines' = [entryLines EXCEPT ![m] = L]
    BY <2>1, <2>2, <2>3, <2>4, <2>5
  <2> QED BY <2>6, DraftChanges
<1>5. CASE Delete(c)
  <2>1. /\ t.e \in JournalEntry /\ journal[t.e].status \in {"absent", "DRAFT"} /\ t.cut = entryLines[t.e]
        /\ journal' = [journal EXCEPT ![t.e] = Absent] /\ entryLines' = [entryLines EXCEPT ![t.e] = @ \ t.cut]
    BY <1>1, <1>5 DEF Delete, EditKept, About
  <2>2. entryLines' = [entryLines EXCEPT ![t.e] = {}]
    BY <2>1
  <2>3. Absent \in JournalRow /\ Absent.status = "absent" /\ Absent.link = None
    BY FreshBalanced DEF Absent
  <2> HIDE DEF t
  <2> QED BY <2>1, <2>2, <2>3, DraftChanges
<1>6. CASE Post(c)
  <2>1. /\ t.e \in JournalEntry /\ journal[t.e].status = "DRAFT" /\ t.row \in JournalRow
        /\ t.row.status = "POSTED" /\ t.row.link = None
        /\ journal' = [journal EXCEPT ![t.e] = t.row]
        /\ entryLines' = entryLines
    BY <1>1, <1>6 DEF Post, EditKept, EntryKept, CallRow, JournalRow, About
  <2>2. entryLines' = [entryLines EXCEPT ![t.e] = entryLines[t.e]] /\ \A b, d \in entryLines[t.e] : b = d
    BY <1>1, <2>1 DEF EntryKept
  <2> HIDE DEF t
  <2> QED BY <2>1, <2>2, DraftChanges
<1>7. CASE ReverseEntry(c)
  <2> DEFINE mirror == {[by |-> c, net |-> MirrorNet(b.net)] : b \in entryLines[t.of]}
  <2>1. /\ t.e \in JournalEntry /\ t.of \in JournalEntry /\ t.of # t.e
        /\ journal[t.e] = Absent /\ entryLines[t.e] = {} /\ journal[t.of].status = "POSTED"
        /\ t.row \in JournalRow /\ t.row.status = "POSTED" /\ t.row.link = t.of
        /\ t.was = journal[t.of] /\ t.cut = entryLines[t.of]
    BY <1>1, <1>7 DEF ReverseEntry, MakingKept, CallRow
  <2>2. /\ journal' = [journal EXCEPT ![t.e] = t.row, ![t.of] = [journal[t.of] EXCEPT !.status = "REVERSED", !.link = t.e]]
        /\ entryLines' = [entryLines EXCEPT ![t.e] = mirror]
    BY <1>7, <2>1 DEF ReverseEntry
  <2> HIDE DEF t
  <2> QED BY <2>1, <2>2, ReversalMade
<1> QED BY <1>3, <1>4, <1>5, <1>6, <1>7 DEF Writing

LEMMA LedgerStep ==
  ASSUME LedgerKept, LedgerNext, alone'
  PROVE  \E c \in Caller : (Reading(c) \/ Writing(c)) /\ alone /\ AloneKept /\ Solo(c) /\ Moves(c)
<1>1. PICK c \in Caller : Reading(c) \/ Writing(c)
  BY DEF LedgerNext, Reading, Writing
<1>2. Moves(c)
  BY <1>1, ReadingMoves, WritingKeeps DEF LedgerKept
<1> QED BY <1>1, <1>2, SoloStep

LEMMA LedgerKeptStarts == LedgerInit => LedgerKept
<1> SUFFICES ASSUME LedgerInit PROVE LedgerKept
  OBVIOUS
<1>1. \A c \in Caller : caller[c] = Fresh /\ ~ Active(c) /\ CallKept(c)
  BY DEF LedgerInit, Active, Fresh, CallKept, MakingKept, EditKept, PeriodKept
<1>2. \A e \in JournalEntry : EntryKept(e)
  BY DEF LedgerInit, EntryKept, Absent
<1> QED BY <1>1, <1>2, LedgerStarts DEF LedgerKept, AloneKept, OneAtATime

LEMMA LedgerKeptOn == LedgerKept /\ [LedgerNext]_ledgerVars => LedgerKept'
<1> SUFFICES ASSUME LedgerKept, [LedgerNext]_ledgerVars PROVE LedgerKept'
  OBVIOUS
<1>1. LedgerBalanced'
  BY LedgerBalancedKept DEF LedgerKept
<1>2. CASE UNCHANGED ledgerVars
  <2>1. AloneKept => AloneKept'
    BY <1>2 DEF ledgerVars, AloneKept, OneAtATime, Active, EntryKept, MirrorOf, Net, CallKept, MakingKept, EditKept, PeriodKept,
         Postable, Drafts
  <2> QED BY <1>1, <1>2, <2>1 DEF LedgerKept, ledgerVars
<1>3. ASSUME LedgerNext, alone' PROVE AloneKept'
  <2>1. PICK c \in Caller : (Reading(c) \/ Writing(c)) /\ alone /\ AloneKept /\ Solo(c) /\ Moves(c)
    BY <1>3, LedgerStep
  <2>2. \A d \in Caller : d # c => caller'[d] = caller[d] /\ ~ Active(d)
    BY <2>1 DEF Solo, Moves, LedgerKept, LedgerBalanced, LedgerTyped
  <2>3. \A d \in Caller : d # c => ~ Active(d)' /\ CallKept(d)'
    BY <2>2 DEF Active, CallKept, MakingKept, EditKept, PeriodKept
  <2>4. CallKept(c)'
    <3>1. CASE Reading(c)
      BY <2>1, <3>1, EntryReadingKeeps DEF LedgerKept
    <3>2. CASE Writing(c)
      <4>1. caller'[c].pc = "end"
        BY <3>2 DEF LedgerKept, LedgerBalanced, LedgerTyped, CallRow, Writing, Insert, Update, Delete, Post, ReverseEntry, Goto, Proceed, SetCall
      <4> QED BY <4>1 DEF CallKept, MakingKept, EditKept, PeriodKept
    <3> QED BY <2>1, <3>1, <3>2
  <2>5. \A e \in JournalEntry : EntryKept(e)'
    <3>1. CASE Reading(c)
      <4>1. UNCHANGED <<journal, entryLines>>
        BY <3>1, ReadingMoves DEF LedgerKept
      <4> QED BY <2>1, <4>1 DEF AloneKept, EntryKept, MirrorOf, Net
    <3>2. CASE Writing(c)
      BY <2>1, <3>2, EntriesKept DEF LedgerKept
    <3> QED BY <2>1, <3>1, <3>2
  <2> QED BY <2>3, <2>4, <2>5 DEF AloneKept, OneAtATime
<1> QED BY <1>1, <1>2, <1>3 DEF LedgerKept

\* In every state, as long as requests do not overlap: a reversed entry has its mirror,
\* one that cancels its lines, and nothing else posted reverses it (reverseJournalEntry).
THEOREM ReversalsMirror == LedgerSpec => []Mirrored
<1>1. LedgerInit => LedgerKept
  BY LedgerKeptStarts
<1>2. LedgerKept /\ [LedgerNext]_ledgerVars => LedgerKept'
  BY LedgerKeptOn
<1>3. LedgerKept => Mirrored
  BY DEF LedgerKept, AloneKept, EntryKept, MirrorOf, Mirrored
<1> QED BY <1>1, <1>2, <1>3, PTL DEF LedgerSpec

LEMMA PostedStays ==
  ASSUME LedgerKept, LedgerNext, alone', NEW e \in JournalEntry, journal[e].status \in {"POSTED", "REVERSED"}
  PROVE  /\ entryLines'[e] = entryLines[e]
         /\ \/ journal'[e] = journal[e]
            \/ /\ journal[e].status = "POSTED" /\ journal'[e].status = "REVERSED"
               /\ journal'[e].number = journal[e].number /\ journal'[e].period = journal[e].period
<1>1. PICK c \in Caller : (Reading(c) \/ Writing(c)) /\ AloneKept /\ Moves(c)
  BY LedgerStep
<1> DEFINE t == caller[c]
<1>2. /\ journal \in [JournalEntry -> JournalRow] /\ entryLines \in [JournalEntry -> SUBSET Batch]
      /\ MakingKept(t) /\ EditKept(t)
  BY <1>1 DEF LedgerKept, LedgerBalanced, LedgerTyped, AloneKept, CallKept
<1>3. CASE Reading(c)
  BY <1>3, ReadingMoves DEF LedgerKept
<1>4. CASE Insert(c) \/ Update(c) \/ Delete(c) \/ Post(c)
  <2>1. journal[t.e].status \in {"absent", "DRAFT"}
    BY <1>2, <1>4 DEF Insert, Update, Delete, Post, MakingKept, EditKept, Absent
  <2> QED BY <1>2, <1>4, <2>1 DEF Insert, Update, Delete, Post
<1>5. CASE ReverseEntry(c)
  <2>1. t.e \in JournalEntry /\ t.of \in JournalEntry /\ journal[t.e].status = "absent" /\ t.was = journal[t.of] /\ t.was.status = "POSTED"
    BY <1>2, <1>5 DEF ReverseEntry, MakingKept, Absent
  <2> QED BY <1>2, <1>5, <2>1 DEF ReverseEntry, JournalRow
<1> QED BY <1>1, <1>3, <1>4, <1>5 DEF Writing

LEMMA ClosersEnd ==
  ASSUME NEW c \in Caller, Reading(c), caller[c].pc \in {"reopening", "closing"}
  PROVE  Close(c) \/ Reopen(c)
<1>1. ~ StartCall(c)
  BY DEF StartCall, Fresh
<1>2. ~ (Number(c) \/ Clash(c) \/ DeleteLines(c) \/ PostCheck(c) \/ CloseCount(c))
  BY DEF Number, Clash, DeleteLines, PostCheck, CloseCount
<1>3. \A p \in Period : ~ UpdateDelete(c, p)
  BY DEF UpdateDelete
<1>4. \A e, m, p, f, s : ~ (Create(c, e, p, f, s) \/ UpdateRead(c, e, f) \/ DeleteRead(c, e) \/ PostRead(c, e)
                             \/ ReverseRead(c, e, m, p) \/ CloseRead(c, p) \/ ReopenRead(c, p) \/ UpdatePeriod(c, p, s))
  BY <1>1 DEF Create, UpdateRead, DeleteRead, PostRead, ReverseRead, CloseRead, ReopenRead, UpdatePeriod
<1> QED BY <1>2, <1>3, <1>4 DEF Reading

LEMMA PeriodsStay ==
  ASSUME LedgerKept, LedgerNext, alone'
  PROVE  /\ \A e \in JournalEntry :
              journal[e].status # "POSTED" /\ journal'[e].status = "POSTED" =>
                \/ periodStatus[journal'[e].period] = "OPEN"
                \/ journal'[e].link # None /\ journal'[e].period = journal[journal'[e].link].period
         /\ \A c \in Caller :
              caller[c].pc = "closing" /\ caller'[c].pc = "end" => Drafts(caller[c].row.period) = {}
         /\ \A p \in Period, c \in Caller :
              periodStatus[p] = "LOCKED" /\ caller[c].pc \in {"reopening", "closing"} /\ caller'[c].pc = "end"
                => periodStatus'[p] = "LOCKED"
<1>1. PICK c \in Caller : (Reading(c) \/ Writing(c)) /\ AloneKept /\ Moves(c) /\ Solo(c)
  BY LedgerStep
<1> DEFINE t == caller[c]
<1>2. /\ journal \in [JournalEntry -> JournalRow] /\ entryLines \in [JournalEntry -> SUBSET Batch]
      /\ periodStatus \in [Period -> PeriodStatus] /\ caller \in [Caller -> CallRow]
      /\ MakingKept(t) /\ EditKept(t) /\ PeriodKept(t)
  BY <1>1 DEF LedgerKept, LedgerBalanced, LedgerTyped, AloneKept, CallKept
<1>3. ASSUME NEW e \in JournalEntry, journal[e].status # "POSTED", journal'[e].status = "POSTED"
      PROVE  \/ periodStatus[journal'[e].period] = "OPEN"
             \/ journal'[e].link # None /\ journal'[e].period = journal[journal'[e].link].period
  <2>1. ~ Reading(c)
    BY <1>3, ReadingMoves DEF LedgerKept
  <2>2. CASE Insert(c)
    BY <1>2, <1>3, <2>2 DEF Insert, MakingKept, Postable
  <2>3. CASE Update(c)
    BY <1>2, <1>3, <2>3 DEF Update, EditKept
  <2>4. CASE Delete(c)
    BY <1>2, <1>3, <2>4 DEF Delete, Absent
  <2>5. CASE Post(c)
    BY <1>2, <1>3, <2>5 DEF Post, EditKept, Postable
  <2>6. CASE ReverseEntry(c)
    <3>1. /\ journal'[t.of].status # "POSTED" /\ t.of \in JournalEntry /\ t.of # t.e /\ t.row.link = t.of /\ t.of # None
          /\ Postable(t.row.period) \/ t.row.period = journal[t.of].period
      BY <1>2, <2>6 DEF ReverseEntry, MakingKept, JournalRow
    <3>2. e = t.e /\ journal'[e] = t.row
      BY <1>2, <1>3, <2>6, <3>1 DEF ReverseEntry
    <3> QED BY <3>1, <3>2 DEF Postable
  <2> QED BY <1>1, <2>1, <2>2, <2>3, <2>4, <2>5, <2>6 DEF Writing
<1>4. ASSUME NEW d \in Caller, caller[d].pc = "closing" PROVE Drafts(caller[d].row.period) = {}
  BY <1>1, <1>4 DEF AloneKept, CallKept, PeriodKept
<1>5. ASSUME NEW p \in Period, NEW d \in Caller, periodStatus[p] = "LOCKED", caller[d].pc \in {"reopening", "closing"}, caller'[d].pc = "end"
      PROVE  periodStatus'[p] = "LOCKED"
  <2>1. d = c
    BY <1>1, <1>5 DEF Solo, Active
  <2>2. t.row.period # p
    BY <1>2, <1>5, <2>1 DEF PeriodKept
  <2>3. ~ Writing(c)
    BY <1>5, <2>1 DEF Writing, Insert, Update, Delete, Post, ReverseEntry
  <2>4. Close(c) \/ Reopen(c)
    BY <1>1, <1>5, <2>1, <2>3, ClosersEnd
  <2> QED BY <1>2, <1>5, <2>2, <2>4 DEF Close, Reopen
<1> QED BY <1>3, <1>4, <1>5

\* Every step, as long as requests do not overlap, leaves posted entries as they were
\* posted but for their reversal, and every posting finds its period open, but for
\* that of a mirror in the period of the entry it reverses; closePeriod
\* closes none over drafts, and neither it nor reopenPeriod unlocks one (assertPeriodOpen).
THEOREM BooksAreKept == LedgerSpec => BooksKept
<1>1. LedgerInit => LedgerKept
  BY LedgerKeptStarts
<1>2. LedgerKept /\ [LedgerNext]_ledgerVars => LedgerKept'
  BY LedgerKeptOn
<1>3. LedgerKept /\ [LedgerNext]_ledgerVars =>
        [\A e \in JournalEntry :
           alone' /\ journal[e].status \in {"POSTED", "REVERSED"} =>
             /\ entryLines'[e] = entryLines[e]
             /\ \/ journal'[e] = journal[e]
                \/ /\ journal[e].status = "POSTED" /\ journal'[e].status = "REVERSED"
                   /\ journal'[e].number = journal[e].number /\ journal'[e].period = journal[e].period]_ledgerVars
  BY PostedStays
<1>4. LedgerKept /\ [LedgerNext]_ledgerVars =>
        [alone' =>
           /\ \A e \in JournalEntry :
                journal[e].status # "POSTED" /\ journal'[e].status = "POSTED" =>
                  \/ periodStatus[journal'[e].period] = "OPEN"
                  \/ journal'[e].link # None /\ journal'[e].period = journal[journal'[e].link].period
           /\ \A c \in Caller :
                caller[c].pc = "closing" /\ caller'[c].pc = "end" => Drafts(caller[c].row.period) = {}
           /\ \A p \in Period, c \in Caller :
                periodStatus[p] = "LOCKED" /\ caller[c].pc \in {"reopening", "closing"} /\ caller'[c].pc = "end"
                  => periodStatus'[p] = "LOCKED"]_ledgerVars
  BY PeriodsStay
<1>5. LedgerSpec => PostedForGood
  BY <1>1, <1>2, <1>3, PTL DEF LedgerSpec, PostedForGood
<1>6. LedgerSpec => PeriodsRespected
  BY <1>1, <1>2, <1>4, PTL DEF LedgerSpec, PeriodsRespected
<1> QED BY <1>5, <1>6 DEF BooksKept

-----------------------------------------------------------------------------
(* Budget encumbrance.                                                       *)

EncRow == [type : EncType, amount : Nat, liquidated : Nat, source : Source, centre : Scope]
Listed == SUBSET (Nat \X Nat)
EncCall ==
  {Idle}
  \union [pc : {"checking", "committing"}, amount : Nat, source : Source, centre : Scope, enforce : BOOLEAN]
  \union [pc : {"liquidating", "spawning"}, e : Nat, seen : EncRow, amount : Nat, next : Source, todo : Listed]
  \union [pc : {"sweeping"}, next : Source, todo : Listed]

\* What a request refers to exists, and what it liquidates is no expenditure.
EncKnown(t) ==
  /\ t.pc \in {"liquidating", "spawning"} =>
       t.e \in DOMAIN enc /\ t.seen.type # "EXPENDITURE" /\ t.seen.type = enc[t.e].type /\ t.seen.amount = enc[t.e].amount /\ t.seen.centre = enc[t.e].centre
  /\ t.pc \in {"liquidating", "spawning", "sweeping"} => \A p \in t.todo : p[1] \in DOMAIN enc

EncTyped ==
  /\ enc \in Seq(EncRow) /\ unchecked \in SUBSET Scope
  /\ call \in [Call -> EncCall]
  /\ \A c \in Call : touches[c] = IF call[c] = Idle THEN {} ELSE {"account"}
  /\ \A c \in Call : EncKnown(call[c])
  /\ Apart

Committed(k) ==
  SumFunction([e \in DOMAIN enc |-> IF Sees(k, enc[e].centre) /\ enc[e].type = "COMMITMENT" THEN enc[e].amount ELSE 0])

\* What the row being liquidated no longer has and its successor does not have yet.
Pending(t, k) == IF t.pc = "spawning" /\ Sees(k, t.seen.centre) THEN t.amount ELSE 0
\* What is checked and will be committed.
Reserved(t, k) == IF t.pc = "committing" /\ t.enforce /\ k = t.centre THEN t.amount ELSE 0

\* The one request under way has read what is stored, and the sums of every scope are
\* as they should be when it has nothing more to do.
SumsAt(t, k) ==
  /\ k \notin unchecked /\ BudgetFor(k) > 0 => Used(k) <= BudgetFor(k) /\ Used(k) + Pending(t, k) + Reserved(t, k) <= BudgetFor(k)
  /\ faults = 0 => Used(k) + Pending(t, k) = Committed(k)
FundsAt(t) ==
  /\ t.pc = "liquidating" => t.seen = enc[t.e] /\ t.amount <= Left(t.e)
  /\ \A k \in Scope : SumsAt(t, k)

FundsHeld ==
  disjoint =>
    /\ Quiet => FundsAt(Idle)
    /\ \A c \in Call : call[c] # Idle => FundsAt(call[c])

EncKept == EncTyped /\ FundsHeld
-----------------------------------------------------------------------------
LEMMA BudgetIs ==
  ASSUME NEW k \in Scope
  PROVE  BudgetFor(k) \in Int
<1>1. IsFiniteSet(Scope) /\ DOMAIN Budget = Scope /\ \A x \in Scope : Budget[x] \in Int
  <2>1. IsFiniteSet(Scope)
    BY EncumbranceAssumption, FS_AddElement DEF Scope
  <2> QED BY <2>1, EncumbranceAssumption
<1>2. SumFunctionOnSet(Budget, Scope) \in Int
  BY <1>1, SumStep
<1> QED BY <1>1, <1>2 DEF BudgetFor, SumFunction

LEMMA EncTerms ==
  ASSUME EncTyped
  PROVE  /\ Len(enc) \in Nat /\ DOMAIN enc = 1 .. Len(enc) /\ IsFiniteSet(DOMAIN enc)
         /\ \A e \in DOMAIN enc : enc[e] \in EncRow /\ Left(e) \in Int
         /\ \A k \in Scope : Used(k) \in Int /\ Committed(k) \in Int
<1>1. Len(enc) \in Nat /\ DOMAIN enc = 1 .. Len(enc) /\ \A e \in DOMAIN enc : enc[e] \in EncRow
  BY DEF EncTyped
<1>2. IsFiniteSet(DOMAIN enc)
  BY <1>1, SegmentFinite
<1>3. \A e \in DOMAIN enc : Left(e) \in Int /\ enc[e].amount \in Int
  BY <1>1 DEF EncRow, Left
<1>4. ASSUME NEW k \in Scope PROVE Used(k) \in Int /\ Committed(k) \in Int
  <2> DEFINE f == [e \in DOMAIN enc |->
               IF ~Sees(k, enc[e].centre) THEN 0 ELSE IF enc[e].type = "EXPENDITURE" THEN enc[e].amount ELSE Left(e)]
             g == [e \in DOMAIN enc |-> IF Sees(k, enc[e].centre) /\ enc[e].type = "COMMITMENT" THEN enc[e].amount ELSE 0]
  <2>1. DOMAIN f = DOMAIN enc /\ DOMAIN g = DOMAIN enc /\ \A e \in DOMAIN enc : f[e] \in Int /\ g[e] \in Int
    BY <1>3
  <2>2. Used(k) = SumFunction(f) /\ Committed(k) = SumFunction(g)
    BY DEF Used, Committed
  <2> HIDE DEF f, g
  <2>3. SumFunctionOnSet(f, DOMAIN enc) \in Int /\ SumFunctionOnSet(g, DOMAIN enc) \in Int
    BY <1>2, <2>1, SumStep
  <2> QED BY <2>1, <2>2, <2>3 DEF SumFunction
<1> QED BY <1>1, <1>2, <1>3, <1>4

\* What a new row adds to the sums of a scope.
LEMMA RowAdded ==
  ASSUME EncTyped, NEW r \in EncRow, enc' = Append(enc, r), NEW k \in Scope
  PROVE  /\ Used(k)' = Used(k) + (IF ~Sees(k, r.centre) THEN 0 ELSE IF r.type = "EXPENDITURE" THEN r.amount ELSE r.amount - r.liquidated)
         /\ Committed(k)' = Committed(k) + (IF Sees(k, r.centre) /\ r.type = "COMMITMENT" THEN r.amount ELSE 0)
<1>1. Len(enc) \in Nat /\ DOMAIN enc = 1 .. Len(enc) /\ \A e \in DOMAIN enc : enc[e] \in EncRow /\ Left(e) \in Int
  BY EncTerms
<1>2. /\ DOMAIN enc' = 1 .. Len(enc) + 1 /\ \A e \in DOMAIN enc : enc'[e] = enc[e]
      /\ enc'[Len(enc) + 1] = r
  BY <1>1 DEF EncTyped
<1>3. \A e \in DOMAIN enc : Left(e)' = Left(e)
  BY <1>2 DEF Left
<1> DEFINE u == [e \in DOMAIN enc |->
             IF ~Sees(k, enc[e].centre) THEN 0 ELSE IF enc[e].type = "EXPENDITURE" THEN enc[e].amount ELSE Left(e)]
           v == [e \in DOMAIN enc' |->
             IF ~Sees(k, enc'[e].centre) THEN 0 ELSE IF enc'[e].type = "EXPENDITURE" THEN enc'[e].amount ELSE Left(e)']
           g == [e \in DOMAIN enc |-> IF Sees(k, enc[e].centre) /\ enc[e].type = "COMMITMENT" THEN enc[e].amount ELSE 0]
           h == [e \in DOMAIN enc' |-> IF Sees(k, enc'[e].centre) /\ enc'[e].type = "COMMITMENT" THEN enc'[e].amount ELSE 0]
           n == Len(enc)
<1>4. r.amount \in Int /\ r.liquidated \in Int /\ \A e \in DOMAIN enc : enc[e].amount \in Int
  BY <1>1 DEF EncRow
<1>5. /\ DOMAIN u = 1 .. n /\ DOMAIN v = 1 .. (n + 1) /\ n \in Nat
      /\ \A i \in 1 .. n : u[i] \in Int /\ v[i] = u[i]
  BY <1>1, <1>2, <1>3, <1>4
<1>6. v[n + 1] = IF ~Sees(k, r.centre) THEN 0 ELSE IF r.type = "EXPENDITURE" THEN r.amount ELSE r.amount - r.liquidated
  BY <1>1, <1>2 DEF Left
<1>7. /\ DOMAIN g = 1 .. n /\ DOMAIN h = 1 .. (n + 1)
      /\ \A i \in 1 .. n : g[i] \in Int /\ h[i] = g[i]
  BY <1>1, <1>2, <1>4
<1>8. h[n + 1] = IF Sees(k, r.centre) /\ r.type = "COMMITMENT" THEN r.amount ELSE 0
  BY <1>1, <1>2
<1>9. Used(k) = SumFunction(u) /\ Used(k)' = SumFunction(v) /\ Committed(k) = SumFunction(g) /\ Committed(k)' = SumFunction(h)
  BY DEF Used, Committed
<1>10. v[n + 1] \in Int /\ h[n + 1] \in Int
  BY <1>4, <1>6, <1>8
<1> HIDE DEF u, v, g, h, n
<1>11. SumFunction(v) = SumFunction(u) + v[n + 1]
  BY <1>5, <1>10, SumAppend
<1>12. SumFunction(h) = SumFunction(g) + h[n + 1]
  BY <1>5, <1>7, <1>10, SumAppend
<1> QED BY <1>6, <1>8, <1>9, <1>11, <1>12

LEMMA RowsThen ==
  ASSUME EncTyped, NEW r \in EncRow, enc' = Append(enc, r)
  PROVE  DOMAIN enc' = 1 .. Len(enc) + 1 /\ enc' \in Seq(EncRow) /\ \A e \in DOMAIN enc : enc'[e] = enc[e]
BY EncTerms DEF EncTyped

\* What liquidating a row takes off the sums of a scope.
LEMMA RowLiquidated ==
  ASSUME EncTyped, NEW d \in DOMAIN enc, enc[d].type # "EXPENDITURE", NEW n \in Nat,
         enc' = [enc EXCEPT ![d] = [enc[d] EXCEPT !.liquidated = @ + n]], NEW k \in Scope
  PROVE  Used(k)' = Used(k) - (IF Sees(k, enc[d].centre) THEN n ELSE 0) /\ Committed(k)' = Committed(k)
<1>1. /\ Len(enc) \in Nat /\ DOMAIN enc = 1 .. Len(enc) /\ IsFiniteSet(DOMAIN enc)
      /\ \A e \in DOMAIN enc : enc[e] \in EncRow /\ Left(e) \in Int
  BY EncTerms
<1>2. /\ DOMAIN enc' = DOMAIN enc
      /\ \A e \in DOMAIN enc : enc'[e].type = enc[e].type /\ enc'[e].amount = enc[e].amount /\ enc'[e].centre = enc[e].centre
      /\ \A e \in DOMAIN enc \ {d} : enc'[e] = enc[e]
      /\ enc'[d].liquidated = enc[d].liquidated + n
  BY <1>1 DEF EncRow
<1>3. Left(d)' = Left(d) - n /\ \A e \in DOMAIN enc \ {d} : Left(e)' = Left(e)
  BY <1>1, <1>2 DEF Left, EncRow
<1> DEFINE S == DOMAIN enc
           u == [e \in S |->
             IF ~Sees(k, enc[e].centre) THEN 0 ELSE IF enc[e].type = "EXPENDITURE" THEN enc[e].amount ELSE Left(e)]
           v == [e \in S |->
             IF ~Sees(k, enc'[e].centre) THEN 0 ELSE IF enc'[e].type = "EXPENDITURE" THEN enc'[e].amount ELSE Left(e)']
           g == [e \in S |-> IF Sees(k, enc[e].centre) /\ enc[e].type = "COMMITMENT" THEN enc[e].amount ELSE 0]
           h == [e \in S |-> IF Sees(k, enc'[e].centre) /\ enc'[e].type = "COMMITMENT" THEN enc'[e].amount ELSE 0]
           off == IF Sees(k, enc[d].centre) THEN n ELSE 0
<1>4. Used(k) = SumFunction(u) /\ Used(k)' = SumFunction(v) /\ Committed(k) = SumFunction(g) /\ Committed(k)' = SumFunction(h)
  BY <1>2 DEF Used, Committed
<1>5. \A e \in DOMAIN enc : enc[e].amount \in Int
  BY <1>1 DEF EncRow
<1>6. /\ \A e \in S : u[e] \in Int
      /\ \A e \in S \ {d} : v[e] = u[e]
      /\ v[d] = u[d] - off /\ off \in Int
  BY <1>1, <1>2, <1>3, <1>5
<1>7. g = h
  BY <1>2
<1>8. DOMAIN u = S /\ DOMAIN v = S /\ d \in S /\ v[d] = u[d] - off /\ v[d] \in Int /\ u[d] \in Int /\ IsFiniteSet(S)
      /\ (\A e \in S : u[e] \in Int) /\ (\A e \in S \ {d} : v[e] = u[e]) /\ off \in Int
  BY <1>1, <1>6
<1> HIDE DEF u, v, g, h, S, off
<1>9. SumFunctionOnSet(v, S) = SumFunctionOnSet(u, S) - u[d] + v[d]
  BY <1>8, SumChange
<1>10. SumFunctionOnSet(u, S) \in Int
  BY <1>8, SumStep
<1>11. SumFunctionOnSet(v, S) = SumFunctionOnSet(u, S) - off
  BY <1>8, <1>9, <1>10
<1> QED BY <1>4, <1>7, <1>8, <1>11 DEF SumFunction, off

-----------------------------------------------------------------------------
\* While requests do not overlap, the one that takes a step is the only one.
LEMMA OthersIdle ==
  ASSUME EncTyped, NEW c \in Call, Moved(c), call[c] # Idle \/ touches'[c] = {"account"}, disjoint'
  PROVE  disjoint /\ \A d \in Call \ {c} : call[d] = Idle /\ call'[d] = Idle
<1>1. disjoint /\ \A d \in Call \ {c} : call'[d] = call[d] /\ touches[d] \intersect touches'[c] = {}
  BY DEF Moved
<1>2. \A d \in Call : touches[d] = IF call[d] = Idle THEN {} ELSE {"account"}
  BY DEF EncTyped
<1>3. \A d \in Call \ {c} : touches[c] \intersect touches[d] = {}
  BY <1>1 DEF EncTyped, Apart
<1> QED BY <1>1, <1>2, <1>3

LEMMA FundsStep ==
  ASSUME EncKept, NEW c \in Call, Moved(c), call[c] # Idle \/ touches'[c] = {"account"},
         disjoint', FundsAt(call[c]) => FundsAt(call[c])'
  PROVE  FundsHeld'
<1>1. disjoint /\ \A d \in Call \ {c} : call[d] = Idle /\ call'[d] = Idle
  BY OthersIdle DEF EncKept
<1>2. FundsAt(call[c])
  <2>1. CASE call[c] = Idle
    BY <1>1, <2>1 DEF EncKept, FundsHeld, Quiet
  <2>2. CASE call[c] # Idle
    BY <1>1, <2>2 DEF EncKept, FundsHeld
  <2> QED BY <2>1, <2>2
<1>3. FundsAt(call[c])'
  BY <1>2
<1>4. Quiet' => FundsAt(Idle)'
  <2>1. Quiet' => call'[c] = Idle
    BY DEF Quiet
  <2> QED BY <1>3, <2>1 DEF FundsAt, SumsAt, Pending, Reserved, Left, Used, Committed
<1>5. \A d \in Call : call'[d] # Idle => d = c
  BY <1>1
<1> QED BY <1>3, <1>4, <1>5 DEF FundsHeld

-----------------------------------------------------------------------------
LEMMA EncCallForms ==
  ASSUME NEW t \in EncCall
  PROVE  /\ t.pc \in {"idle", "checking", "committing", "liquidating", "spawning", "sweeping"}
         /\ t = Idle <=> t.pc = "idle"
         /\ t.pc \in {"checking", "committing"} => t \in [pc : {"checking", "committing"}, amount : Nat, source : Source, centre : Scope, enforce : BOOLEAN]
         /\ t.pc \in {"liquidating", "spawning"} =>
              t \in [pc : {"liquidating", "spawning"}, e : Nat, seen : EncRow, amount : Nat, next : Source, todo : Listed]
         /\ t.pc = "sweeping" => t \in [pc : {"sweeping"}, next : Source, todo : Listed]
BY DEF EncCall, Idle

LEMMA EncTypedStep ==
  ASSUME EncTyped, NEW c \in Call, Apart', Moved(c), call'[c] \in EncCall,
         touches'[c] = IF call'[c] = Idle THEN {} ELSE {"account"},
         enc' \in Seq(EncRow), unchecked' \in SUBSET Scope,
         \A e \in DOMAIN enc : e \in DOMAIN enc' /\ enc'[e].type = enc[e].type /\ enc'[e].amount = enc[e].amount /\ enc'[e].centre = enc[e].centre,
         EncKnown(call[c])'
  PROVE  EncTyped'
<1>1. call' \in [Call -> EncCall]
  BY DEF EncTyped, Moved
<1>2. \A d \in Call : touches'[d] = IF call'[d] = Idle THEN {} ELSE {"account"}
  BY DEF EncTyped, Moved
<1>3. \A d \in Call \ {c} : EncKnown(call[d])'
  <2>1. \A d \in Call \ {c} : EncKnown(call[d]) /\ call'[d] = call[d]
    BY DEF EncTyped, Moved
  <2> QED BY <2>1 DEF EncKnown
<1> QED BY <1>1, <1>2, <1>3 DEF EncTyped

LEMMA EncSame ==
  ASSUME UNCHANGED encVars
  PROVE  /\ enc' = enc /\ unchecked' = unchecked /\ \A e : Left(e)' = Left(e)
         /\ \A k \in Scope : Used(k)' = Used(k) /\ Committed(k)' = Committed(k)
BY DEF encVars, Used, Committed, Left

\* A request goes on, and what is stored stays.
LEMMA EncStill ==
  ASSUME EncKept, NEW c \in Call, UNCHANGED encVars, NEW next \in EncCall, next.pc \notin {"idle", "spawning"}, EncKnown(next),
         next.pc = "liquidating" => next.seen = enc[next.e] /\ next.amount <= Left(next.e),
         \A k \in Scope : Reserved(next, k) = 0 \/ (BudgetFor(k) > 0 => Used(k) + Reserved(next, k) <= BudgetFor(k)), call[c].pc # "spawning",
         Arrive(c, {"account"}, next) \/ (call[c] # Idle /\ Await(c, next))
  PROVE  EncKept'
<1>1. EncTyped /\ Apart
  BY DEF EncKept, EncTyped
<1>2. /\ Apart' /\ Moved(c) /\ call'[c] = next /\ touches'[c] = {"account"} /\ faults' = faults
  <2>1. CASE Arrive(c, {"account"}, next)
    BY <1>1, <2>1, Arriving
  <2>2. CASE call[c] # Idle /\ Await(c, next)
    <3>1. touches[c] = {"account"}
      BY <1>1, <2>2 DEF EncTyped
    <3> QED BY <1>1, <2>2, <3>1, Awaiting
  <2> QED BY <2>1, <2>2
<1>3. enc' = enc /\ unchecked' = unchecked /\ (\A e : Left(e)' = Left(e))
      /\ \A k \in Scope : Used(k)' = Used(k) /\ Committed(k)' = Committed(k)
  BY EncSame
<1>4. EncTyped'
  <2>1. EncKnown(call[c])'
    BY <1>2, <1>3 DEF EncKnown
  <2>2. next # Idle /\ enc' \in Seq(EncRow) /\ unchecked' \in SUBSET Scope
    BY <1>1, <1>3 DEF Idle, EncTyped
  <2> QED BY <1>1, <1>2, <1>3, <2>1, <2>2, EncTypedStep
<1>5. ASSUME disjoint', FundsAt(call[c]) PROVE FundsAt(call[c])'
  <2>1. ASSUME NEW k \in Scope PROVE SumsAt(call[c], k)'
    <3>1. /\ Pending(call[c], k) = 0 /\ Pending(next, k) = 0 /\ Pending(call[c], k)' = 0
          /\ Reserved(call[c], k)' = Reserved(next, k)
      BY <1>2 DEF Pending, Reserved
    <3>2. Used(k) \in Int /\ Committed(k) \in Int /\ BudgetFor(k) \in Int /\ BudgetFor(k)' = BudgetFor(k) /\ SumsAt(call[c], k)
      BY <1>1, <1>5, EncTerms, BudgetIs DEF FundsAt, BudgetFor
    <3>3. Used(k)' = Used(k) /\ Committed(k)' = Committed(k) /\ unchecked' = unchecked /\ faults' = faults
      BY <1>2, <1>3
    <3>4. Reserved(next, k) = 0 \/ (BudgetFor(k) > 0 => Used(k) + Reserved(next, k) <= BudgetFor(k))
      OBVIOUS
    <3> QED BY <3>1, <3>2, <3>3, <3>4 DEF SumsAt
  <2> QED BY <1>2, <1>3, <1>5, <2>1 DEF FundsAt
<1>6. disjoint' => FundsHeld'
  BY <1>2, <1>5, FundsStep
<1> QED BY <1>4, <1>6 DEF EncKept, FundsHeld

\* A request ends, and what is stored stays.
LEMMA EncEnds ==
  ASSUME EncKept, NEW c \in Call, UNCHANGED encVars, call[c] # Idle,
         (Answer(c) /\ call[c].pc # "spawning") \/ Perish(c)
  PROVE  EncKept'
<1>1. EncTyped /\ Apart
  BY DEF EncKept, EncTyped
<1>2. /\ Apart' /\ Moved(c) /\ call'[c] = Idle /\ touches'[c] = {} /\ (disjoint' => disjoint)
      /\ (faults' = 0 => call[c].pc # "spawning" /\ faults = 0)
  BY <1>1, Answering, Perishing DEF Undisturbed, Moved, Apart
<1>3. enc' = enc /\ unchecked' = unchecked /\ (\A e : Left(e)' = Left(e))
      /\ \A k \in Scope : Used(k)' = Used(k) /\ Committed(k)' = Committed(k)
  BY EncSame
<1>4. EncTyped'
  <2>1. EncKnown(call[c])'
    BY <1>2 DEF EncKnown, Idle
  <2>2. Idle \in EncCall /\ enc' \in Seq(EncRow) /\ unchecked' \in SUBSET Scope
    BY <1>1, <1>3 DEF EncCall, EncTyped
  <2> QED BY <1>1, <1>2, <1>3, <2>1, <2>2, EncTypedStep
<1>5. ASSUME disjoint', FundsAt(call[c]) PROVE FundsAt(call[c])'
  <2>1. ASSUME NEW k \in Scope PROVE SumsAt(call[c], k)'
    <3>1. /\ Pending(call[c], k)' = 0 /\ Reserved(call[c], k)' = 0
          /\ (faults' = 0 => Pending(call[c], k) = 0 /\ faults = 0)
      BY <1>2 DEF Pending, Reserved, Idle
    <3>2. Used(k) \in Int /\ Committed(k) \in Int /\ BudgetFor(k) \in Int /\ BudgetFor(k)' = BudgetFor(k) /\ SumsAt(call[c], k)
      BY <1>1, <1>5, EncTerms, BudgetIs DEF FundsAt, BudgetFor
    <3>3. Used(k)' = Used(k) /\ Committed(k)' = Committed(k) /\ unchecked' = unchecked
      BY <1>3
    <3> QED BY <3>1, <3>2, <3>3 DEF SumsAt
  <2> QED BY <1>2, <2>1 DEF FundsAt, Idle
<1>6. disjoint' => FundsHeld'
  BY <1>2, <1>5, FundsStep
<1> QED BY <1>4, <1>6 DEF EncKept, FundsHeld

-----------------------------------------------------------------------------
LEMMA CommitmentSaved ==
  ASSUME EncKept, NEW c \in Call, SaveCommitment(c)
  PROVE  EncKept'
<1> DEFINE t == call[c]
           r == [type |-> "COMMITMENT", amount |-> t.amount, liquidated |-> 0, source |-> t.source, centre |-> t.centre]
<1>1. EncTyped /\ Apart /\ t \in EncCall /\ t.pc = "committing" /\ t # Idle
  BY DEF EncKept, EncTyped, SaveCommitment, At, Idle
<1>2. t.amount \in Nat /\ t.source \in Source /\ t.centre \in Scope /\ t.enforce \in BOOLEAN /\ r \in EncRow
  <2>1. t \in [pc : {"checking", "committing"}, amount : Nat, source : Source, centre : Scope, enforce : BOOLEAN]
    BY <1>1, EncCallForms
  <2> QED BY <2>1 DEF EncRow, EncType
<1>3. /\ Apart' /\ Moved(c) /\ call'[c] = Idle /\ touches'[c] = {} /\ faults' = faults /\ disjoint' = disjoint
  BY <1>1, Answering DEF SaveCommitment
<1>4. enc' = Append(enc, r) /\ unchecked' = unchecked \union {k \in Scope : Sees(k, t.centre) /\ ~(t.enforce /\ k = t.centre)}
  BY DEF SaveCommitment
<1>5. DOMAIN enc' = 1 .. Len(enc) + 1 /\ enc' \in Seq(EncRow) /\ \A e \in DOMAIN enc : enc'[e] = enc[e]
  <2> HIDE DEF r
  <2> QED BY <1>1, <1>2, <1>4, RowsThen
<1>6. DOMAIN enc = 1 .. Len(enc) /\ Len(enc) \in Nat /\ \A k \in Scope : Used(k) \in Int /\ Committed(k) \in Int
  BY <1>1, EncTerms
<1>10. ASSUME NEW k \in Scope
       PROVE  LET n == IF Sees(k, t.centre) THEN t.amount ELSE 0
              IN Used(k)' = Used(k) + n /\ Committed(k)' = Committed(k) + n
  <2>1. r.type = "COMMITMENT" /\ r.amount = t.amount /\ r.liquidated = 0 /\ t.amount - 0 = t.amount /\ r.centre = t.centre
    BY <1>2
  <2> HIDE DEF r
  <2> QED BY <1>1, <1>2, <1>4, <2>1, RowAdded
<1> HIDE DEF t, r
<1>7. EncTyped'
  <2>1. EncKnown(call[c])'
    BY <1>3 DEF EncKnown, Idle
  <2>2. Idle \in EncCall /\ unchecked' \in SUBSET Scope
    BY <1>1, <1>2, <1>4 DEF EncCall, EncTyped
  <2>3. \A e \in DOMAIN enc : e \in DOMAIN enc' /\ enc'[e].type = enc[e].type /\ enc'[e].amount = enc[e].amount /\ enc'[e].centre = enc[e].centre
    BY <1>5, <1>6
  <2> QED BY <1>1, <1>3, <1>5, <2>1, <2>2, <2>3, EncTypedStep
<1>8. ASSUME disjoint', FundsAt(t) PROVE FundsAt(call[c])'
  <2>1. ASSUME NEW k \in Scope PROVE SumsAt(call[c], k)'
    <3>1. PICK n : n = IF Sees(k, t.centre) THEN t.amount ELSE 0
      OBVIOUS
    <3>2. Used(k)' = Used(k) + n /\ Committed(k)' = Committed(k) + n /\ n \in Int
      BY <1>2, <1>10, <3>1
    <3>3. Pending(t, k) = 0 /\ Reserved(t, k) = IF t.enforce /\ k = t.centre THEN t.amount ELSE 0
      BY <1>1 DEF Pending, Reserved
    <3>4. Pending(call[c], k)' = 0 /\ Reserved(call[c], k)' = 0
      BY <1>3 DEF Pending, Reserved, Idle
    <3>5. k \notin unchecked' => k \notin unchecked /\ n = Reserved(t, k)
      BY <1>4, <3>1, <3>3 DEF Sees
    <3>6. Used(k) \in Int /\ Committed(k) \in Int /\ BudgetFor(k) \in Int /\ BudgetFor(k)' = BudgetFor(k) /\ SumsAt(t, k)
      BY <1>6, <1>8, BudgetIs DEF FundsAt, BudgetFor
    <3>7. k \notin unchecked' /\ BudgetFor(k) > 0 => Used(k)' <= BudgetFor(k)
      BY <3>2, <3>3, <3>5, <3>6 DEF SumsAt
    <3>8. faults' = 0 => Used(k)' = Committed(k)'
      BY <1>3, <3>2, <3>3, <3>6 DEF SumsAt
    <3> QED BY <3>2, <3>4, <3>6, <3>7, <3>8 DEF SumsAt
  <2> QED BY <1>3, <2>1 DEF FundsAt, Idle
<1>9. disjoint' => FundsHeld'
  BY <1>1, <1>3, <1>8, FundsStep DEF t
<1> QED BY <1>7, <1>9 DEF EncKept, FundsHeld

LEMMA LiquidationSaved ==
  ASSUME EncKept, NEW c \in Call, SaveLiquidated(c)
  PROVE  EncKept'
<1> DEFINE t == call[c]
           next == [t EXCEPT !.pc = "spawning"]
           r == [t.seen EXCEPT !.liquidated = @ + t.amount]
<1>1. EncTyped /\ Apart /\ t \in EncCall /\ t.pc = "liquidating" /\ t # Idle /\ EncKnown(t)
  BY DEF EncKept, EncTyped, SaveLiquidated, At, Idle
<1>2. /\ t \in [pc : {"liquidating", "spawning"}, e : Nat, seen : EncRow, amount : Nat, next : Source, todo : Listed]
      /\ t.e \in DOMAIN enc /\ t.seen.type # "EXPENDITURE" /\ t.seen.type = enc[t.e].type /\ t.seen.amount = enc[t.e].amount /\ t.seen.centre = enc[t.e].centre
      /\ \A p \in t.todo : p[1] \in DOMAIN enc
  BY <1>1, EncCallForms DEF EncKnown
<1>3. /\ next \in [pc : {"liquidating", "spawning"}, e : Nat, seen : EncRow, amount : Nat, next : Source, todo : Listed]
      /\ next.pc = "spawning" /\ next.e = t.e /\ next.seen = t.seen /\ next.amount = t.amount /\ next.todo = t.todo
  BY <1>2
<1>4. r \in EncRow /\ r.type = t.seen.type /\ r.amount = t.seen.amount /\ r.centre = t.seen.centre /\ t.amount \in Nat
  BY <1>2 DEF EncRow
<1>5. enc' = [enc EXCEPT ![t.e] = r] /\ unchecked' = unchecked /\ Await(c, next)
  BY DEF SaveLiquidated
<1>6. (\A k \in Scope : Used(k) \in Int /\ Committed(k) \in Int) /\ DOMAIN enc = 1 .. Len(enc) /\ Len(enc) \in Nat /\ \A e \in DOMAIN enc : enc[e] \in EncRow
  BY <1>1, EncTerms
<1> HIDE DEF t, next, r
<1>7. /\ Apart' /\ Moved(c) /\ call'[c] = next /\ touches' = touches /\ faults' = faults /\ disjoint' = disjoint
  BY <1>1, <1>3, <1>5, Awaiting DEF t
<1>8. touches'[c] = {"account"} /\ next \in EncCall /\ next # Idle
  BY <1>1, <1>3, <1>7 DEF EncTyped, EncCall, t, Idle
<1>9. /\ enc' \in Seq(EncRow)
      /\ \A e \in DOMAIN enc : e \in DOMAIN enc' /\ enc'[e].type = enc[e].type /\ enc'[e].amount = enc[e].amount /\ enc'[e].centre = enc[e].centre
  BY <1>1, <1>2, <1>4, <1>5, <1>6 DEF EncTyped
<1>10. EncTyped'
  <2>1. EncKnown(call[c])'
    BY <1>2, <1>3, <1>7, <1>9 DEF EncKnown
  <2>2. unchecked' \in SUBSET Scope
    BY <1>1, <1>5 DEF EncTyped
  <2> QED BY <1>1, <1>7, <1>8, <1>9, <2>1, <2>2, EncTypedStep
<1>11. ASSUME disjoint', FundsAt(t) PROVE FundsAt(call[c])'
  <2>1. PICK d \in DOMAIN enc, n \in Nat : d = t.e /\ n = t.amount
    BY <1>2, <1>4
  <2>2. t.seen = enc[d] /\ enc[d].type # "EXPENDITURE"
    BY <1>1, <1>2, <1>11, <2>1 DEF FundsAt
  <2>3. enc' = [enc EXCEPT ![d] = [enc[d] EXCEPT !.liquidated = @ + n]]
    BY <1>5, <2>1, <2>2 DEF r
  <2>4. ASSUME NEW k \in Scope PROVE SumsAt(call[c], k)'
    <3>1. PICK off : off = IF Sees(k, enc[d].centre) THEN n ELSE 0
      OBVIOUS
    <3>2. Used(k)' = Used(k) - off /\ Committed(k)' = Committed(k) /\ off \in Nat
      BY <1>1, <2>2, <2>3, <3>1, RowLiquidated
    <3>3. Pending(t, k) = 0 /\ Reserved(t, k) = 0 /\ Pending(call[c], k)' = off /\ Reserved(call[c], k)' = 0
      BY <1>1, <1>3, <1>7, <2>1, <2>2, <3>1 DEF Pending, Reserved
    <3>4. Used(k) \in Int /\ Committed(k) \in Int /\ BudgetFor(k) \in Int /\ BudgetFor(k)' = BudgetFor(k) /\ SumsAt(t, k)
      BY <1>6, <1>11, BudgetIs DEF FundsAt, BudgetFor
    <3>5. unchecked' = unchecked /\ faults' = faults
      BY <1>5, <1>7
    <3> QED BY <3>2, <3>3, <3>4, <3>5 DEF SumsAt
  <2>5. call'[c].pc = "spawning"
    BY <1>3, <1>7
  <2> QED BY <2>4, <2>5 DEF FundsAt
<1>12. disjoint' => FundsHeld'
  BY <1>1, <1>7, <1>11, FundsStep DEF t
<1> QED BY <1>10, <1>12 DEF EncKept, FundsHeld

LEMMA SuccessorSaved ==
  ASSUME EncKept, NEW c \in Call, SaveNext(c)
  PROVE  EncKept'
<1> DEFINE t == call[c]
           type == Successor[t.seen.type]
           r == [type |-> type, amount |-> t.amount, source |-> t.next, centre |-> t.seen.centre,
                 liquidated |-> IF type = "EXPENDITURE" THEN t.amount ELSE 0]
           next == [pc |-> "sweeping", next |-> t.next, todo |-> t.todo]
<1>1. EncTyped /\ Apart /\ t \in EncCall /\ t.pc = "spawning" /\ t # Idle /\ EncKnown(t)
  BY DEF EncKept, EncTyped, SaveNext, At, Idle
<1>2. /\ t \in [pc : {"liquidating", "spawning"}, e : Nat, seen : EncRow, amount : Nat, next : Source, todo : Listed]
      /\ t.seen.type # "EXPENDITURE" /\ \A p \in t.todo : p[1] \in DOMAIN enc
  BY <1>1, EncCallForms DEF EncKnown
<1>3. type \in {"OBLIGATION", "EXPENDITURE"}
  BY <1>2 DEF EncRow, EncType, Successor
<1>4. /\ r \in EncRow /\ r.type = type /\ r.amount = t.amount /\ t.amount \in Nat /\ r.centre = t.seen.centre
      /\ (IF r.type = "EXPENDITURE" THEN r.amount ELSE r.amount - r.liquidated) = t.amount
  BY <1>2, <1>3 DEF EncRow, EncType
<1>5. enc' = Append(enc, r) /\ unchecked' = unchecked
  BY DEF SaveNext
<1>6. \/ t.todo = {} /\ Answer(c)
      \/ Await(c, next)
  BY DEF SaveNext, GoOn
<1>7. next \in [pc : {"sweeping"}, next : Source, todo : Listed] /\ next.pc = "sweeping" /\ next.todo = t.todo
  BY <1>2
<1>8. (\A k \in Scope : Used(k) \in Int /\ Committed(k) \in Int) /\ DOMAIN enc = 1 .. Len(enc) /\ Len(enc) \in Nat
  BY <1>1, EncTerms
<1> HIDE DEF t, next, r, type
<1>9. /\ Apart' /\ Moved(c) /\ (call'[c] = next \/ call'[c] = Idle) /\ touches'[c] = (IF call'[c] = Idle THEN {} ELSE {"account"})
      /\ faults' = faults /\ disjoint' = disjoint
  <2>1. CASE Answer(c)
    BY <1>1, <2>1, Answering
  <2>2. CASE Await(c, next)
    <3>1. next # Idle /\ next.pc # "idle"
      BY <1>7 DEF Idle
    <3>2. touches[c] = {"account"}
      BY <1>1 DEF EncTyped, t
    <3> QED BY <1>1, <2>2, <3>1, <3>2, Awaiting DEF t
  <2> QED BY <1>6, <2>1, <2>2
<1>10. DOMAIN enc' = 1 .. Len(enc) + 1 /\ enc' \in Seq(EncRow) /\ \A e \in DOMAIN enc : enc'[e] = enc[e]
  BY <1>1, <1>4, <1>5, RowsThen
<1>14. ASSUME NEW k \in Scope
       PROVE  Used(k)' = Used(k) + (IF Sees(k, t.seen.centre) THEN t.amount ELSE 0) /\ Committed(k)' = Committed(k)
  <2>1. r.type # "COMMITMENT"
    BY <1>3, <1>4
  <2>2. PICK q \in EncRow : q = r
    BY <1>4
  <2>3. /\ Used(k)' = Used(k) + (IF ~Sees(k, q.centre) THEN 0 ELSE IF q.type = "EXPENDITURE" THEN q.amount ELSE q.amount - q.liquidated)
        /\ Committed(k)' = Committed(k) + 0
    BY <1>1, <1>5, <2>1, <2>2, RowAdded
  <2> QED BY <1>4, <1>8, <2>2, <2>3
<1>11. EncTyped'
  <2>1. \A e \in DOMAIN enc : e \in DOMAIN enc' /\ enc'[e].type = enc[e].type /\ enc'[e].amount = enc[e].amount /\ enc'[e].centre = enc[e].centre
    BY <1>8, <1>10
  <2>2. EncKnown(call[c])'
    BY <1>2, <1>7, <1>9, <2>1 DEF EncKnown, Idle
  <2>3. Idle \in EncCall /\ next \in EncCall /\ unchecked' \in SUBSET Scope
    BY <1>1, <1>5, <1>7 DEF EncCall, EncTyped
  <2> QED BY <1>1, <1>9, <1>10, <2>1, <2>2, <2>3, EncTypedStep
<1>12. ASSUME disjoint', FundsAt(t) PROVE FundsAt(call[c])'
  <2>1. ASSUME NEW k \in Scope PROVE SumsAt(call[c], k)'
    <3>1. PICK n : n = IF Sees(k, t.seen.centre) THEN t.amount ELSE 0
      OBVIOUS
    <3>2. Used(k)' = Used(k) + n /\ Committed(k)' = Committed(k) /\ n \in Nat
      BY <1>4, <1>14, <3>1
    <3>3. Pending(t, k) = n /\ Reserved(t, k) = 0
      BY <1>1, <3>1 DEF Pending, Reserved
    <3>4. Pending(call[c], k)' = 0 /\ Reserved(call[c], k)' = 0
      BY <1>7, <1>9 DEF Pending, Reserved, Idle
    <3>5. Used(k) \in Int /\ Committed(k) \in Int /\ BudgetFor(k) \in Int /\ BudgetFor(k)' = BudgetFor(k) /\ SumsAt(t, k)
      BY <1>8, <1>12, BudgetIs DEF FundsAt, BudgetFor
    <3>6. unchecked' = unchecked /\ faults' = faults
      BY <1>5, <1>9
    <3> QED BY <3>2, <3>3, <3>4, <3>5, <3>6 DEF SumsAt
  <2>2. call'[c].pc # "liquidating"
    BY <1>7, <1>9 DEF Idle
  <2> QED BY <2>1, <2>2 DEF FundsAt
<1>13. disjoint' => FundsHeld'
  BY <1>1, <1>9, <1>12, FundsStep DEF t
<1> QED BY <1>11, <1>13 DEF EncKept, FundsHeld

-----------------------------------------------------------------------------
LEMMA EncStep == EncKept /\ [EncumbranceNext]_<<encVars, requestVars>> => EncKept'
<1> SUFFICES ASSUME EncKept, [EncumbranceNext]_<<encVars, requestVars>> PROVE EncKept'
  OBVIOUS
<1>1. EncTyped /\ Apart /\ \A c \in Call : call[c] \in EncCall /\ EncKnown(call[c])
  BY DEF EncKept, EncTyped
<1>2. (\A k \in Scope : Used(k) \in Int) /\ DOMAIN enc = 1 .. Len(enc) /\ Len(enc) \in Nat /\ \A e \in DOMAIN enc : enc[e] \in EncRow /\ Left(e) \in Int
  BY <1>1, EncTerms
<1>3. ASSUME NEW c \in Call, NEW n \in Sums, NEW s \in Source, NEW k \in Scope, NEW b \in BOOLEAN, BeginCommitment(c, n, s, k, b)
      PROVE  EncKept'
  <2> DEFINE next == [pc |-> IF b THEN "checking" ELSE "committing", amount |-> n, source |-> s, centre |-> k, enforce |-> b]
  <2>1. next \in [pc : {"checking", "committing"}, amount : Nat, source : Source, centre : Scope, enforce : BOOLEAN]
    BY EncumbranceAssumption
  <2>2. Arrive(c, {"account"}, next) /\ UNCHANGED encVars /\ call[c].pc # "spawning"
    BY <1>3 DEF BeginCommitment, Arrive, Idle
  <2>3. next.pc \notin {"idle", "spawning", "liquidating"} /\ (\A q \in Scope : Reserved(next, q) = 0) /\ EncKnown(next) /\ next \in EncCall
    BY <2>1 DEF Reserved, EncKnown, EncCall
  <2> HIDE DEF next
  <2> QED BY <2>2, <2>3, EncStill
<1>4. ASSUME NEW c \in Call, CheckFunds(c) PROVE EncKept'
  <2> DEFINE t == call[c]
             next == [t EXCEPT !.pc = "committing"]
  <2>1. t.pc = "checking" /\ UNCHANGED encVars /\ t # Idle /\ t.pc # "spawning"
    BY <1>4 DEF CheckFunds, At, Idle
  <2>2. CASE Exceeds(t.amount, t.centre)
    BY <1>4, <2>1, <2>2, EncEnds DEF CheckFunds
  <2>3. CASE ~ Exceeds(t.amount, t.centre)
    <3>1. t \in [pc : {"checking", "committing"}, amount : Nat, source : Source, centre : Scope, enforce : BOOLEAN]
      BY <1>1, <2>1, EncCallForms
    <3>2. /\ next \in [pc : {"checking", "committing"}, amount : Nat, source : Source, centre : Scope, enforce : BOOLEAN]
          /\ next.pc = "committing" /\ next.amount = t.amount /\ next.centre = t.centre /\ t.centre \in Scope /\ t.amount \in Nat
      BY <3>1
    <3>3. Await(c, next)
      BY <1>4, <2>3 DEF CheckFunds
    <3>4. next \in EncCall /\ EncKnown(next)
      BY <3>2 DEF EncCall, EncKnown
    <3>5. ASSUME NEW k \in Scope PROVE Reserved(next, k) = 0 \/ (BudgetFor(k) > 0 => Used(k) + Reserved(next, k) <= BudgetFor(k))
      <4>1. Used(k) \in Int /\ BudgetFor(k) \in Int
        BY <1>2, BudgetIs
      <4>2. Reserved(next, k) = 0 \/ (k = t.centre /\ Reserved(next, k) = t.amount)
        BY <3>2 DEF Reserved
      <4> QED BY <2>3, <3>2, <4>1, <4>2 DEF Exceeds
    <3>6. next.pc \notin {"idle", "spawning", "liquidating"}
      BY <3>2
    <3> HIDE DEF next
    <3> QED BY <2>1, <3>3, <3>4, <3>5, <3>6, EncStill
  <2> QED BY <2>2, <2>3
<1>5. ASSUME NEW c \in Call, NEW e \in DOMAIN enc, NEW n \in Nat, NEW s \in Source, NEW todo \in Listed,
             Liquidable(e, n), \A p \in todo : p[1] \in DOMAIN enc
      PROVE  LET next == Liquidating(e, n, s, todo)
             IN /\ next \in EncCall /\ next.pc = "liquidating" /\ EncKnown(next) /\ (\A q \in Scope : Reserved(next, q) = 0)
                /\ next.seen = enc[next.e] /\ next.amount <= Left(next.e)
  <2> DEFINE next == Liquidating(e, n, s, todo)
  <2>1. /\ next \in [pc : {"liquidating", "spawning"}, e : Nat, seen : EncRow, amount : Nat, next : Source, todo : Listed]
        /\ next.pc = "liquidating" /\ next.e = e /\ next.amount = n /\ next.todo = todo /\ next.seen = enc[e]
    BY <1>2 DEF Liquidating
  <2>2. EncKnown(next)
    BY <1>5, <2>1 DEF EncKnown, Liquidable
  <2>3. (\A q \in Scope : Reserved(next, q) = 0) /\ next.amount <= Left(e)
    BY <1>5, <2>1 DEF Reserved, Liquidable
  <2> QED BY <2>1, <2>2, <2>3 DEF EncCall
<1>6. ASSUME NEW c \in Call, NEW e \in DOMAIN enc, NEW n \in Sums, NEW s \in Source, BeginLiquidate(c, e, n, s)
      PROVE  EncKept'
  <2> DEFINE next == Liquidating(e, n, s, {})
  <2>1. Arrive(c, {"account"}, next) /\ UNCHANGED encVars /\ call[c].pc # "spawning" /\ Liquidable(e, n) /\ n \in Nat
    BY <1>6, EncumbranceAssumption DEF BeginLiquidate, Arrive, Idle
  <2>2. {} \in Listed
    BY DEF Listed
  <2>3. /\ next \in EncCall /\ next.pc = "liquidating" /\ EncKnown(next) /\ (\A q \in Scope : Reserved(next, q) = 0)
        /\ next.seen = enc[next.e] /\ next.amount <= Left(next.e)
    BY <1>5, <2>1, <2>2
  <2> HIDE DEF next
  <2>4. next.pc \notin {"idle", "spawning"}
    BY <2>3
  <2> QED BY <2>1, <2>3, <2>4, EncStill
<1>7. ASSUME NEW c \in Call, NEW s \in Source, NEW u \in Source, ListSource(c, s, u) PROVE EncKept'
  <2> DEFINE all == {<<e, Left(e)>> : e \in {d \in DOMAIN enc : enc[d].source = s /\ Left(d) > 0}}
             next == [pc |-> "sweeping", next |-> u, todo |-> all]
  <2>1. Arrive(c, {"account"}, next) /\ UNCHANGED encVars /\ call[c].pc # "spawning"
    BY <1>7 DEF ListSource, Arrive, Idle
  <2>2. all \in Listed /\ \A p \in all : p[1] \in DOMAIN enc
    BY <1>2 DEF Listed
  <2> HIDE DEF all
  <2>3. next \in [pc : {"sweeping"}, next : Source, todo : Listed] /\ next.pc \notin {"idle", "spawning", "liquidating"} /\ next.todo = all
    BY <2>2
  <2>4. next \in EncCall /\ EncKnown(next) /\ (\A q \in Scope : Reserved(next, q) = 0)
    BY <2>2, <2>3 DEF EncCall, EncKnown, Reserved
  <2> HIDE DEF next
  <2> QED BY <2>1, <2>3, <2>4, EncStill
<1>8. ASSUME NEW c \in Call, NextOfSource(c) PROVE EncKept'
  <2> DEFINE t == call[c]
  <2>1. t.pc = "sweeping" /\ UNCHANGED encVars /\ t # Idle /\ t.pc # "spawning"
    BY <1>8 DEF NextOfSource, At, Idle
  <2>2. t \in [pc : {"sweeping"}, next : Source, todo : Listed] /\ \A p \in t.todo : p[1] \in DOMAIN enc
    BY <1>1, <2>1, EncCallForms DEF EncKnown
  <2>3. PICK p \in t.todo : IF Liquidable(p[1], p[2]) THEN Await(c, Liquidating(p[1], p[2], t.next, t.todo \ {p}))
                            ELSE Answer(c)
    BY <1>8 DEF NextOfSource
  <2>4. CASE ~ Liquidable(p[1], p[2])
    BY <2>1, <2>3, <2>4, EncEnds
  <2>5. CASE Liquidable(p[1], p[2])
    <3> DEFINE next == Liquidating(p[1], p[2], t.next, t.todo \ {p})
    <3>1. p[1] \in DOMAIN enc /\ p[2] \in Nat /\ t.next \in Source /\ t.todo \ {p} \in Listed
          /\ \A q \in t.todo \ {p} : q[1] \in DOMAIN enc
      BY <2>2 DEF Listed
    <3>2. /\ next \in EncCall /\ next.pc = "liquidating" /\ EncKnown(next) /\ (\A q \in Scope : Reserved(next, q) = 0)
          /\ next.seen = enc[next.e] /\ next.amount <= Left(next.e)
      BY <1>5, <2>5, <3>1
    <3>3. Await(c, next)
      BY <2>3, <2>5
    <3> HIDE DEF next
    <3>4. next.pc \notin {"idle", "spawning"}
      BY <3>2
    <3> QED BY <2>1, <3>2, <3>3, <3>4, EncStill
  <2> QED BY <2>4, <2>5
<1>9. ASSUME NEW c \in Call, PerishInEncumbrance(c) PROVE EncKept'
  BY <1>9, EncEnds DEF PerishInEncumbrance, Perish
<1>10. CASE UNCHANGED <<encVars, requestVars>>
  <2>1. Apart'
    BY <1>1, <1>10, ApartStays
  <2>2. UNCHANGED <<enc, unchecked, call, touches, disjoint, faults>>
    BY <1>10 DEF encVars, requestVars
  <2>3. EncTyped'
    BY <2>1, <2>2 DEF EncKept, EncTyped, EncKnown
  <2> QED BY <2>2, <2>3 DEF EncKept, FundsHeld, FundsAt, SumsAt, Pending, Reserved, Quiet, Left, Used, Committed, BudgetFor
<1> QED BY <1>3, <1>4, <1>6, <1>7, <1>8, <1>9, <1>10, CommitmentSaved, LiquidationSaved, SuccessorSaved DEF EncumbranceNext

LEMMA EncStarts == EncumbranceInit => EncKept
<1> SUFFICES ASSUME EncumbranceInit PROVE EncKept
  OBVIOUS
<1>1. Apart /\ enc = <<>> /\ unchecked = {} /\ \A c \in Call : call[c] = Idle /\ touches[c] = {}
  BY ApartStarts DEF EncumbranceInit, RequestsInit
<1>2. EncTyped
  <2>1. call \in [Call -> EncCall]
    BY DEF EncumbranceInit, RequestsInit, EncCall
  <2>2. <<>> \in Seq(EncRow)
    OBVIOUS
  <2>3. \A c \in Call : EncKnown(call[c])
    BY <1>1 DEF EncKnown, Idle
  <2> QED BY <1>1, <2>1, <2>2, <2>3 DEF EncTyped
<1>3. \A k \in Scope : Used(k) = 0 /\ Committed(k) = 0 /\ BudgetFor(k) \in Int
  BY <1>1, SumNone, BudgetIs DEF Used, Committed
<1>4. FundsAt(Idle)
  BY <1>3 DEF FundsAt, SumsAt, Pending, Reserved, Idle
<1> QED BY <1>1, <1>2, <1>4 DEF EncKept, FundsHeld

\* In every state, and whatever requests come and die: as long as they do not overlap,
\* no more is used than the budget holds, of the account or a cost centre, where every
\* commitment was checked; undisturbed, a liquidation changes nothing of what is used
\* of either (encumbrance.service).
THEOREM FundsAreKept == EncumbranceSpec => []FundsKept
<1>1. EncumbranceInit => EncKept
  BY EncStarts
<1>2. EncKept /\ [EncumbranceNext]_<<encVars, requestVars>> => EncKept'
  BY EncStep
<1>3. EncKept => FundsKept
  <2> SUFFICES ASSUME EncKept PROVE FundsKept
    OBVIOUS
  <2>1. disjoint => FundsAt(Idle) \/ \E c \in Call : FundsAt(call[c])
    BY DEF EncKept, FundsHeld, Quiet
  <2>2. WithinBudget
    BY <2>1 DEF FundsAt, SumsAt, WithinBudget
  <2>3. \A k \in Scope : Used(k) \in Int
    BY EncTerms DEF EncKept
  <2>4. FundsUnchanged
    BY <2>3 DEF EncKept, FundsHeld, FundsAt, SumsAt, Undisturbed, FundsUnchanged, Committed, Pending, Idle
  <2> QED BY <2>2, <2>4 DEF FundsKept
<1> QED BY <1>1, <1>2, <1>3, PTL DEF EncumbranceSpec

-----------------------------------------------------------------------------
(* Payroll.                                                                  *)

PayrollStatus == {"DRAFT", "PROCESSED", "APPROVED", "PAID", "CANCELLED"}
PayPeriod == Nat \X RunTypes
PayrollRow == [period : PayPeriod, status : PayrollStatus, net : Int]
Payslip == [pay : Int, arrears : Int]
PayEntry == [accrued : Int, paid : Int, mapped : Nat]
SalaryRow == [from : Nat, amount : Nat, to : Nat]
Reads == {"processing", "approving", "paying", "cancelling"}

PayCall ==
  {Idle}
  \union [pc : {"creating"}, period : PayPeriod]
  \union [pc : Reads \union {"mapped", "posted"}, r : Nat, seen : PayrollRow]
  \union [pc : {"retro", "mapping"}, r : Nat]
  \union [pc : {"adding", "recording", "totalling"}, r : Nat, seen : PayrollRow, slip : Payslip, arrears : Int, from : Nat]
  \union [pc : {"accruing"}, r : Nat, seen : PayrollRow, slip : Payslip]

HasSeen == Reads \union {"mapped", "posted", "adding", "recording", "totalling", "accruing"}
HasRun == HasSeen \union {"retro", "mapping"}

\* A request works on the rows of one period.
PeriodsOf(t) == IF t.pc = "idle" THEN {} ELSE IF t.pc = "creating" THEN {t.period} ELSE {runs[t.r].period}
PayKnown(t) ==
  /\ t.pc \in HasRun => t.r \in DOMAIN runs
  /\ t.pc \in HasSeen => t.seen.period = runs[t.r].period

PayTyped ==
  /\ runs \in Seq(PayrollRow) /\ slips \in Seq(Payslip) /\ entries \in Seq(PayEntry) /\ salaries \in Seq(SalaryRow)
  /\ Len(slips) = Len(runs) /\ Len(entries) = Len(runs)
  /\ call \in [Call -> PayCall]
  /\ \A c \in Call : touches[c] = PeriodsOf(call[c]) /\ PayKnown(call[c])
  /\ Apart

Pay(r) == slips[r].pay + slips[r].arrears

\* What a request has read is what is stored, and it is where the run's status says.
PayHeld(t) ==
  /\ t.pc = "creating" => \A r \in DOMAIN runs : runs[r].period # t.period
  /\ t.pc \in HasSeen => t.seen = runs[t.r]
  /\ t.pc \in Reads => runs[t.r].status \in Needed[t.pc]
  /\ t.pc \in {"retro", "adding", "recording", "totalling", "accruing"} => runs[t.r].status = "PROCESSED"
  /\ t.pc \in {"retro", "adding"} => slips[t.r].arrears = 0
  /\ t.pc \in {"adding", "accruing"} => t.slip = slips[t.r]
  /\ t.pc \in {"recording", "totalling"} => slips[t.r].arrears = t.arrears /\ (faults = 0 => runs[t.r].net = slips[t.r].pay)

Totalling(r) == \E c \in Call : call[c].pc \in {"recording", "totalling"} /\ call[c].r = r

RunKept(r) ==
  /\ runs[r].status \in {"DRAFT", "PROCESSED", "CANCELLED"} => entries[r].accrued = 0 /\ entries[r].paid = 0
  /\ runs[r].status = "APPROVED" => entries[r].accrued = Pay(r) /\ entries[r].paid = 0
  /\ runs[r].status = "PAID" => entries[r].accrued = Pay(r) /\ entries[r].paid = runs[r].net
  /\ faults = 0 /\ ~ Totalling(r) /\ runs[r].status \in {"PROCESSED", "APPROVED", "PAID"} => runs[r].net = Pay(r)

OneRunAPeriod == \A r, s \in DOMAIN runs : runs[r].period = runs[s].period => r = s

PayHolds ==
  /\ \A c \in Call : PayHeld(call[c])
  /\ \A r \in DOMAIN runs : RunKept(r)
  /\ OneRunAPeriod

PayKept == PayTyped /\ (disjoint => PayHolds)

-----------------------------------------------------------------------------
LEMMA PayCallForms ==
  ASSUME NEW t \in PayCall
  PROVE  /\ t.pc \in HasRun \union {"idle", "creating"} /\ (t = Idle <=> t.pc = "idle")
         /\ t.pc = "creating" => t \in [pc : {"creating"}, period : PayPeriod]
         /\ t.pc \in Reads \union {"mapped", "posted"} => t \in [pc : Reads \union {"mapped", "posted"}, r : Nat, seen : PayrollRow]
         /\ t.pc \in {"retro", "mapping"} => t \in [pc : {"retro", "mapping"}, r : Nat]
         /\ t.pc \in {"adding", "recording", "totalling"} =>
              t \in [pc : {"adding", "recording", "totalling"}, r : Nat, seen : PayrollRow, slip : Payslip, arrears : Int, from : Nat]
         /\ t.pc = "accruing" => t \in [pc : {"accruing"}, r : Nat, seen : PayrollRow, slip : Payslip]
BY DEF PayCall, Idle, HasRun, HasSeen, Reads

LEMMA PayTerms ==
  ASSUME PayTyped
  PROVE  /\ Len(runs) \in Nat /\ DOMAIN runs = 1 .. Len(runs) /\ DOMAIN slips = DOMAIN runs /\ DOMAIN entries = DOMAIN runs
         /\ \A r \in DOMAIN runs : runs[r] \in PayrollRow /\ slips[r] \in Payslip /\ entries[r] \in PayEntry /\ Pay(r) \in Int
<1>1. /\ Len(runs) \in Nat /\ DOMAIN runs = 1 .. Len(runs) /\ DOMAIN slips = DOMAIN runs /\ DOMAIN entries = DOMAIN runs
      /\ \A r \in DOMAIN runs : runs[r] \in PayrollRow
  BY DEF PayTyped
<1>2. \A r \in DOMAIN slips : slips[r] \in Payslip
  BY DEF PayTyped
<1>3. \A r \in DOMAIN entries : entries[r] \in PayEntry
  BY DEF PayTyped
<1> QED BY <1>1, <1>2, <1>3 DEF Pay, Payslip

LEMMA PayTypedStep ==
  ASSUME PayTyped, NEW c \in Call, Apart', Moved(c), call'[c] \in PayCall, touches'[c] = PeriodsOf(call[c])', PayKnown(call[c])',
         runs' \in Seq(PayrollRow), slips' \in Seq(Payslip), entries' \in Seq(PayEntry), salaries' \in Seq(SalaryRow),
         Len(slips') = Len(runs'), Len(entries') = Len(runs'),
         \A r \in DOMAIN runs : r \in DOMAIN runs' /\ runs'[r].period = runs[r].period
  PROVE  PayTyped'
<1>1. call' \in [Call -> PayCall]
  BY DEF PayTyped, Moved
<1>2. ASSUME NEW d \in Call \ {c} PROVE touches'[d] = PeriodsOf(call[d])' /\ PayKnown(call[d])'
  <2>1. touches[d] = PeriodsOf(call[d]) /\ PayKnown(call[d]) /\ call'[d] = call[d] /\ touches'[d] = touches[d] /\ call[d] \in PayCall
    BY DEF PayTyped, Moved
  <2>2. PayKnown(call[d])'
    BY <2>1 DEF PayKnown, HasRun, HasSeen
  <2>3. PeriodsOf(call[d])' = PeriodsOf(call[d])
    <3>1. call[d].pc \in HasRun \union {"idle", "creating"}
      BY <2>1, PayCallForms
    <3> QED BY <2>1, <3>1 DEF PayKnown, PeriodsOf
  <2> QED BY <2>1, <2>2, <2>3
<1> QED BY <1>1, <1>2 DEF PayTyped

\* What a request does not work on stays as it is for the others.
LEMMA PayFrame ==
  ASSUME PayKept, PayTyped', NEW c \in Call, Moved(c), disjoint', NEW W, W = touches[c] \union touches'[c],
         \A k \in DOMAIN runs : k \in DOMAIN runs' /\ runs'[k].period = runs[k].period,
         \A k \in DOMAIN runs' : runs'[k].period \notin W =>
           k \in DOMAIN runs /\ runs'[k] = runs[k] /\ slips'[k] = slips[k] /\ entries'[k] = entries[k],
         PayHeld(call[c])', \A k \in DOMAIN runs' : runs'[k].period \in W => RunKept(k)', OneRunAPeriod'
  PROVE  PayHolds'
<1>1. /\ PayTyped /\ PayHolds /\ disjoint /\ Apart
      /\ \A d \in Call \ {c} : call'[d] = call[d] /\ touches'[d] = touches[d] /\ touches[d] \intersect W = {}
      /\ faults' = 0 => faults = 0
  BY DEF PayKept, PayTyped, Moved, Apart
<1>2. ASSUME NEW d \in Call \ {c} PROVE PayHeld(call[d])'
  <2> DEFINE t == call[d]
  <2>1. call'[d] = t /\ t \in PayCall /\ PayHeld(t) /\ PayKnown(t) /\ touches[d] = PeriodsOf(t) /\ touches[d] \intersect W = {}
    BY <1>1 DEF PayTyped, PayHolds
  <2>2. t.pc \in HasRun \union {"idle", "creating"}
    BY <2>1, PayCallForms
  <2> HIDE DEF t
  <2>3. CASE t.pc = "idle"
    BY <2>1, <2>3 DEF PayHeld, HasSeen, Reads
  <2>4. CASE t.pc = "creating"
    <3>1. t.period \notin W
      BY <2>1, <2>4 DEF PeriodsOf
    <3>2. \A k \in DOMAIN runs' : runs'[k].period # t.period
      BY <2>1, <2>4, <3>1 DEF PayHeld
    <3> QED BY <2>1, <2>4, <3>2 DEF PayHeld, HasSeen, Reads
  <2>5. CASE t.pc \in HasRun
    <3>1. t.r \in DOMAIN runs /\ runs[t.r].period \notin W
      BY <2>1, <2>5 DEF PeriodsOf, PayKnown, HasRun, HasSeen, Reads
    <3>2. runs'[t.r] = runs[t.r] /\ slips'[t.r] = slips[t.r]
      BY <3>1
    <3>3. t.pc # "creating"
      BY <2>5 DEF HasRun, HasSeen, Reads
    <3> QED BY <1>1, <2>1, <3>2, <3>3 DEF PayHeld
  <2> QED BY <2>2, <2>3, <2>4, <2>5
<1>3. ASSUME NEW k \in DOMAIN runs', runs'[k].period \notin W PROVE RunKept(k)'
  <2>1. k \in DOMAIN runs /\ runs'[k] = runs[k] /\ slips'[k] = slips[k] /\ entries'[k] = entries[k] /\ RunKept(k)
    BY <1>1, <1>3 DEF PayHolds
  <2>2. Totalling(k) => Totalling(k)'
    <3> SUFFICES ASSUME NEW d \in Call, call[d].pc \in {"recording", "totalling"}, call[d].r = k PROVE Totalling(k)'
      BY DEF Totalling
    <3>1. runs[k].period \in touches[d]
      <4>1. touches[d] = PeriodsOf(call[d])
        BY <1>1 DEF PayTyped
      <4> QED BY <4>1 DEF PeriodsOf
    <3>2. d # c
      BY <1>3, <2>1, <3>1
    <3> QED BY <1>1, <3>2 DEF Totalling
  <2> QED BY <1>1, <2>1, <2>2 DEF RunKept, Pay
<1>4. \A d \in Call : PayHeld(call[d])'
  BY <1>2
<1>5. \A k \in DOMAIN runs' : RunKept(k)'
  BY <1>3
<1> QED BY <1>4, <1>5 DEF PayHolds

-----------------------------------------------------------------------------
\* A request goes on or ends, and the runs stay.
LEMMA PayStill ==
  ASSUME PayKept, NEW c \in Call, UNCHANGED <<runs, slips, entries>>, salaries' \in Seq(SalaryRow), NEW next \in PayCall,
         PayKnown(next), disjoint => PayHeld(next),
         \/ next # Idle /\ Arrive(c, PeriodsOf(next), next)
         \/ next # Idle /\ call[c] # Idle /\ PeriodsOf(next) = PeriodsOf(call[c]) /\ Await(c, next)
         \/ next = Idle /\ Answer(c)
         \/ next = Idle /\ Perish(c),
         call[c].pc \in {"recording", "totalling"} => Perish(c) \/ (next.pc \in {"recording", "totalling"} /\ next.r = call[c].r)
  PROVE  PayKept'
<1>1. PayTyped /\ Apart /\ touches[c] = PeriodsOf(call[c])
  BY DEF PayKept, PayTyped
<1>2. next = Idle <=> next.pc = "idle"
  BY PayCallForms
<1>3. /\ Apart' /\ Moved(c) /\ call'[c] = next /\ touches'[c] = PeriodsOf(next) /\ (disjoint' => disjoint)
      /\ faults' = 0 => faults = 0 /\ ~ Perish(c)
  <2>1. CASE next # Idle /\ Arrive(c, PeriodsOf(next), next)
    <3>1. PeriodsOf(next) # {}
      BY <1>2, <2>1 DEF PeriodsOf
    <3>2. ~ Perish(c)
      BY <2>1 DEF Arrive, Perish
    <3> QED BY <1>1, <1>2, <2>1, <3>1, <3>2, Arriving DEF Moved
  <2>2. CASE next # Idle /\ call[c] # Idle /\ PeriodsOf(next) = PeriodsOf(call[c]) /\ Await(c, next)
    <3>1. ~ Perish(c)
      BY <1>1, <2>2 DEF Await, Perish, Apart
    <3> QED BY <1>1, <1>2, <2>2, <3>1, Awaiting DEF Moved
  <2>3. CASE next = Idle /\ Answer(c)
    <3>1. ~ Perish(c)
      BY <1>1, <2>3 DEF Answer, Perish, Apart
    <3>2. PeriodsOf(next) = {}
      BY <1>2, <2>3 DEF PeriodsOf
    <3> QED BY <1>1, <1>2, <2>3, <3>1, <3>2, Answering DEF Moved
  <2>4. CASE next = Idle /\ Perish(c)
    <3>1. PeriodsOf(next) = {}
      BY <1>2, <2>4 DEF PeriodsOf
    <3> QED BY <1>1, <1>2, <2>4, <3>1, Perishing DEF Moved
  <2> QED BY <2>1, <2>2, <2>3, <2>4
<1>4. PayTyped'
  <2>1. touches'[c] = PeriodsOf(call[c])' /\ PayKnown(call[c])'
    BY <1>3 DEF PeriodsOf, PayKnown
  <2>2. runs' \in Seq(PayrollRow) /\ slips' \in Seq(Payslip) /\ entries' \in Seq(PayEntry) /\ Len(slips') = Len(runs') /\ Len(entries') = Len(runs')
    BY <1>1 DEF PayTyped
  <2> QED BY <1>1, <1>3, <2>1, <2>2, PayTypedStep
<1>5. ASSUME disjoint' PROVE PayHolds'
  <2>1. disjoint /\ PayHolds /\ PayHeld(next)
    BY <1>3, <1>5 DEF PayKept
  <2>2. PayHeld(call[c])'
    BY <1>3, <2>1 DEF PayHeld
  <2>3. OneRunAPeriod'
    BY <2>1 DEF OneRunAPeriod, PayHolds
  <2>4. ASSUME NEW k \in DOMAIN runs' PROVE RunKept(k)'
    <3>1. k \in DOMAIN runs /\ RunKept(k)
      BY <2>1, <2>4 DEF PayHolds
    <3>2. Totalling(k) /\ faults' = 0 => Totalling(k)'
      <4> SUFFICES ASSUME NEW d \in Call, call[d].pc \in {"recording", "totalling"}, call[d].r = k, faults' = 0 PROVE Totalling(k)'
        BY DEF Totalling
      <4>1. CASE d = c
        BY <1>3, <4>1 DEF Totalling
      <4>2. CASE d # c
        BY <1>3, <4>2 DEF Totalling, Moved
      <4> QED BY <4>1, <4>2
    <3> QED BY <1>3, <3>1, <3>2 DEF RunKept, Pay
  <2>5. PICK W : W = touches[c] \union touches'[c]
    OBVIOUS
  <2> QED BY <1>3, <1>4, <1>5, <2>2, <2>3, <2>4, <2>5, PayFrame
<1> QED BY <1>4, <1>5 DEF PayKept

\* Request c has changed the rows of its run.
LEMMA PayChanges ==
  ASSUME PayKept, NEW c \in Call, NEW t, t = call[c], t.pc \in HasRun, NEW q \in PayrollRow, q.period = runs[t.r].period,
         NEW s \in Payslip, NEW e \in PayEntry,
         runs' = [runs EXCEPT ![t.r] = q], slips' = [slips EXCEPT ![t.r] = s], entries' = [entries EXCEPT ![t.r] = e],
         salaries' = salaries, NEW next \in PayCall,
         \/ next # Idle /\ next.pc \in HasRun /\ next.r = t.r /\ Await(c, next)
         \/ next = Idle /\ Answer(c),
         PayKnown(next)', disjoint /\ PayHeld(t) /\ RunKept(t.r) => PayHeld(next)' /\ RunKept(t.r)'
  PROVE  PayKept'
<1>1. PayTyped /\ Apart /\ touches[c] = PeriodsOf(t) /\ PayKnown(t) /\ t \in PayCall
  BY DEF PayKept, PayTyped
<1>2. (next = Idle <=> next.pc = "idle") /\ (t = Idle <=> t.pc = "idle") /\ t.r \in DOMAIN runs /\ t.pc \notin {"idle", "creating"}
      /\ "idle" \notin HasRun /\ "creating" \notin HasRun
  BY <1>1, PayCallForms DEF PayKnown, HasRun, HasSeen, Reads
<1>3. /\ DOMAIN runs = 1 .. Len(runs) /\ DOMAIN slips = DOMAIN runs /\ DOMAIN entries = DOMAIN runs /\ Len(runs) \in Nat
  BY <1>1, PayTerms
<1>4. /\ runs' \in Seq(PayrollRow) /\ slips' \in Seq(Payslip) /\ entries' \in Seq(PayEntry) /\ salaries' \in Seq(SalaryRow)
      /\ Len(slips') = Len(runs') /\ Len(entries') = Len(runs')
      /\ DOMAIN runs' = DOMAIN runs /\ \A r \in DOMAIN runs : runs'[r].period = runs[r].period
  BY <1>1, <1>2, <1>3 DEF PayTyped
<1>5. Apart' /\ Moved(c) /\ call'[c] = next /\ touches'[c] = PeriodsOf(next)' /\ (disjoint' => disjoint)
  <2>1. CASE next # Idle /\ next.pc \in HasRun /\ next.r = t.r /\ Await(c, next)
    <3>1. PeriodsOf(next)' = {runs[t.r].period} /\ touches[c] = {runs[t.r].period}
      BY <1>1, <1>2, <1>4, <2>1 DEF PeriodsOf
    <3> QED BY <1>1, <1>2, <2>1, <3>1, Awaiting
  <2>2. CASE next = Idle /\ Answer(c)
    <3>1. PeriodsOf(next)' = {}
      BY <1>2, <2>2 DEF PeriodsOf
    <3> QED BY <1>1, <2>2, <3>1, Answering
  <2> QED BY <2>1, <2>2
<1>6. PayTyped'
  <2>1. touches'[c] = PeriodsOf(call[c])' /\ PayKnown(call[c])'
    BY <1>5 DEF PeriodsOf, PayKnown
  <2> QED BY <1>1, <1>4, <1>5, <2>1, PayTypedStep
<1>7. ASSUME disjoint' PROVE PayHolds'
  <2>1. disjoint /\ PayHolds /\ PayHeld(t) /\ RunKept(t.r)
    BY <1>2, <1>5, <1>7 DEF PayKept, PayHolds
  <2>2. PayHeld(next)' /\ RunKept(t.r)'
    BY <2>1
  <2>3. PayHeld(call[c])'
    BY <1>5, <2>2 DEF PayHeld
  <2>4. OneRunAPeriod'
    BY <1>4, <2>1 DEF OneRunAPeriod, PayHolds
  <2>5. PICK W : W = touches[c] \union touches'[c]
    OBVIOUS
  <2>6. W = {runs[t.r].period}
    BY <1>1, <1>2, <1>4, <1>5, <2>5 DEF PeriodsOf
  <2>7. ASSUME NEW k \in DOMAIN runs' PROVE runs'[k].period \in W => k = t.r
    BY <1>2, <1>4, <2>1, <2>6 DEF PayHolds, OneRunAPeriod
  <2>8. ASSUME NEW k \in DOMAIN runs', runs'[k].period \notin W
        PROVE  k \in DOMAIN runs /\ runs'[k] = runs[k] /\ slips'[k] = slips[k] /\ entries'[k] = entries[k]
    <3>1. k # t.r
      BY <1>2, <1>4, <2>6, <2>8
    <3> QED BY <1>3, <1>4, <3>1, <2>8
  <2>9. \A k \in DOMAIN runs' : runs'[k].period \in W => RunKept(k)'
    <3> SUFFICES ASSUME NEW k \in DOMAIN runs', runs'[k].period \in W PROVE RunKept(k)'
      OBVIOUS
    <3>1. k = t.r
      BY <2>7
    <3> QED BY <2>2, <3>1
  <2>10. \A k \in DOMAIN runs : k \in DOMAIN runs' /\ runs'[k].period = runs[k].period
    BY <1>4
  <2>11. Moved(c)
    BY <1>5
  <2> QED BY <1>6, <1>7, <2>3, <2>4, <2>5, <2>8, <2>9, <2>10, <2>11, PayFrame
<1> QED BY <1>6, <1>7 DEF PayKept

-----------------------------------------------------------------------------
\* The newest of some salaries that begin by a month is one of them.
LEMMA NewestIs ==
  ASSUME salaries \in Seq(SalaryRow), NEW m \in Nat, NEW S \in SUBSET Applicable(m), S # {}
  PROVE  Newest(S) \in S
<1>1. Len(salaries) \in Nat /\ DOMAIN salaries = 1 .. Len(salaries) /\ \A k \in DOMAIN salaries : salaries[k] \in SalaryRow
  OBVIOUS
<1>2. Len(salaries) \in Nat /\ \A k \in S : k \in 1 .. Len(salaries) /\ salaries[k].from \in Nat /\ salaries[k].from <= m
  BY <1>1 DEF Applicable, SalaryRow
<1> DEFINE T == {m - salaries[k].from : k \in S}
<1>3. PICK x \in T : \A y \in T : x <= y
  <2>1. T \in SUBSET Nat /\ T # {}
    BY <1>2
  <2> HIDE DEF T
  <2> QED BY <2>1, LeastNumber
<1>4. PICK k \in S : x = m - salaries[k].from
  BY <1>3
<1>5. ASSUME NEW j \in S PROVE salaries[j].from <= salaries[k].from
  <2>1. x <= m - salaries[j].from
    BY <1>3
  <2> QED BY <1>2, <1>4, <2>1
<1> DEFINE U == {Len(salaries) - j : j \in {i \in S : salaries[i].from = salaries[k].from}}
<1>6. PICK u \in U : \A y \in U : u <= y
  <2>1. U \in SUBSET Nat /\ U # {}
    BY <1>2, <1>4
  <2> HIDE DEF U
  <2> QED BY <2>1, LeastNumber
<1>7. PICK n \in S : salaries[n].from = salaries[k].from /\ u = Len(salaries) - n
  BY <1>6
<1>8. \A j \in S : salaries[j].from < salaries[n].from \/ (salaries[j].from = salaries[n].from /\ j <= n)
  <2> SUFFICES ASSUME NEW j \in S, ~ (salaries[j].from < salaries[n].from) PROVE salaries[j].from = salaries[n].from /\ j <= n
    OBVIOUS
  <2>1. salaries[j].from = salaries[k].from
    BY <1>2, <1>5, <1>7
  <2>2. u <= Len(salaries) - j
    BY <1>6, <2>1
  <2> QED BY <1>2, <1>7, <2>1, <2>2
<1> HIDE DEF T, U
<1> QED BY <1>8 DEF Newest

LEMMA SalaryIs ==
  ASSUME salaries \in Seq(SalaryRow), NEW m \in Nat
  PROVE  SalaryOf(m) \in Int
<1> DEFINE S == {k \in DOMAIN salaries : InForce(k, m)}
           T == {m - salaries[k].from : k \in S}
<1>1. \A k \in DOMAIN salaries : salaries[k] \in SalaryRow
  OBVIOUS
<1>2. \A k \in S : salaries[k].from \in Nat /\ salaries[k].amount \in Nat /\ salaries[k].from <= m
  BY <1>1 DEF InForce, SalaryRow
<1>3. CASE S = {}
  <2>1. ~ \E k \in DOMAIN salaries : InForce(k, m)
    BY <1>3
  <2> QED BY <2>1 DEF SalaryOf
<1>4. CASE S # {}
  <2>1. PICK x \in T : \A y \in T : x <= y
    <3>1. T \in SUBSET Nat /\ T # {}
      BY <1>2, <1>4
    <3> HIDE DEF T
    <3> QED BY <3>1, LeastNumber
  <2>2. PICK k \in S : x = m - salaries[k].from
    BY <2>1
  <2>3. ASSUME NEW j \in S PROVE salaries[j].from <= salaries[k].from
    <3>1. x <= m - salaries[j].from
      BY <2>1
    <3> HIDE DEF T, S
    <3> QED BY <1>2, <2>2, <3>1
  <2>4. \E i \in DOMAIN salaries : InForce(i, m) /\ \A j \in DOMAIN salaries : InForce(j, m) => salaries[j].from <= salaries[i].from
    BY <2>3
  <2>5. \E i \in DOMAIN salaries : InForce(i, m)
    BY <2>4
  <2> DEFINE i == CHOOSE i \in DOMAIN salaries : InForce(i, m) /\
                    \A j \in DOMAIN salaries : InForce(j, m) => salaries[j].from <= salaries[i].from
  <2>6. i \in DOMAIN salaries
    BY <2>4
  <2>7. SalaryOf(m) = salaries[i].amount
    BY <2>5 DEF SalaryOf
  <2> HIDE DEF i
  <2> QED BY <1>1, <2>6, <2>7 DEF SalaryRow
<1> QED BY <1>3, <1>4

LEMMA ArrearsAre ==
  ASSUME salaries \in Seq(SalaryRow), NEW m \in Nat
  PROVE  Arrears(m) \in Int /\ (Arrears(m) > 0 => salaries[Newest(Applicable(m))].from \in Nat)
<1> DEFINE S == Applicable(m)
<1>1. \A k \in S : k \in DOMAIN salaries /\ salaries[k] \in SalaryRow
  BY DEF Applicable
<1>2. CASE Cardinality(S) < 2
  <2>1. Arrears(m) = 0
    BY <1>2 DEF Arrears
  <2> QED BY <2>1
<1>3. CASE ~ (Cardinality(S) < 2)
  <2> DEFINE new == Newest(S)
  <2>1. S # {} /\ IsFiniteSet(S)
    <3>1. Cardinality({}) = 0
      BY FS_EmptySet
    <3>2. IsFiniteSet(1 .. Len(salaries)) /\ S \subseteq 1 .. Len(salaries)
      BY FS_Interval DEF Applicable
    <3>3. IsFiniteSet(S)
      BY <3>2, FS_Subset
    <3>4. S # {}
      <4> SUFFICES ASSUME S = {} PROVE FALSE
        OBVIOUS
      <4>1. Cardinality(S) = 0
        BY <3>1
      <4> QED BY <1>3, <4>1
    <3> QED BY <3>3, <3>4
  <2>2. new \in S
    <3> HIDE DEF new
    <3> QED BY <2>1, NewestIs DEF new
  <2>3. S \ {new} # {}
    <3> SUFFICES ASSUME S \ {new} = {} PROVE FALSE
      OBVIOUS
    <3>1. S = {new}
      BY <2>2
    <3>2. Cardinality({new}) = 1
      BY FS_Singleton
    <3>3. Cardinality(S) = 1
      BY <3>1, <3>2
    <3> HIDE DEF S
    <3> QED BY <1>3, <3>3
  <2> DEFINE old == Newest(S \ {new})
  <2>4. old \in S
    <3>1. S \ {new} \in SUBSET Applicable(m)
      OBVIOUS
    <3> HIDE DEF new
    <3>2. old \in S \ {new}
      BY <2>3, <3>1, NewestIs
    <3> QED BY <3>2
  <2>5. salaries[new].from \in Nat /\ salaries[new].amount \in Int /\ salaries[old].amount \in Int
    BY <1>1, <2>2, <2>4 DEF Applicable, SalaryRow
  <2>6. \/ Arrears(m) = 0
        \/ Arrears(m) = (salaries[new].amount - salaries[old].amount) * (m - salaries[new].from)
    BY <1>3 DEF Arrears
  <2> HIDE DEF new, old
  <2>7. Arrears(m) \in Int
    BY <2>5, <2>6
  <2> QED BY <2>5, <2>7 DEF new
<1> QED BY <1>2, <1>3

-----------------------------------------------------------------------------
\* While requests do not overlap, one at most is at work on a run.
LEMMA OneAtRun ==
  ASSUME PayTyped, disjoint, NEW c \in Call, call[c].pc \in HasRun
  PROVE  /\ \A d \in Call : call[d].pc \in HasRun /\ call[d].r = call[c].r => d = c
         /\ call[c].pc \notin {"recording", "totalling"} => ~ Totalling(call[c].r)
<1>1. \A d \in Call : call[d].pc \in HasRun => touches[d] = {runs[call[d].r].period}
  <2> SUFFICES ASSUME NEW d \in Call, call[d].pc \in HasRun PROVE touches[d] = {runs[call[d].r].period}
    OBVIOUS
  <2>1. touches[d] = PeriodsOf(call[d])
    BY DEF PayTyped
  <2>2. call[d].pc \notin {"idle", "creating"}
    BY DEF HasRun, HasSeen, Reads
  <2> QED BY <2>1, <2>2 DEF PeriodsOf
<1>2. \A d \in Call : d # c => touches[c] \intersect touches[d] = {}
  BY DEF PayTyped, Apart
<1>3. \A d \in Call : call[d].pc \in HasRun /\ call[d].r = call[c].r => d = c
  BY <1>1, <1>2
<1> QED BY <1>3 DEF Totalling, HasRun, HasSeen

\* The rows of the run a request works on.
LEMMA PayRows ==
  ASSUME PayTyped, NEW c \in Call, NEW t, t = call[c], t.pc \in HasRun
  PROVE  /\ t \in PayCall /\ PayKnown(t) /\ t.r \in DOMAIN runs /\ t.r \in Nat /\ t # Idle
         /\ runs[t.r] \in PayrollRow /\ slips[t.r] \in Payslip /\ entries[t.r] \in PayEntry
         /\ runs = [runs EXCEPT ![t.r] = runs[t.r]] /\ slips = [slips EXCEPT ![t.r] = slips[t.r]]
         /\ entries = [entries EXCEPT ![t.r] = entries[t.r]]
         /\ t.pc \in HasSeen => t.seen \in PayrollRow /\ t.seen.period = runs[t.r].period
<1>1. t \in PayCall /\ PayKnown(t)
  BY DEF PayTyped
<1>2. t.r \in DOMAIN runs /\ t # Idle
  BY <1>1 DEF PayKnown, HasRun, HasSeen, Reads, Idle
<1>3. /\ DOMAIN runs = 1 .. Len(runs) /\ DOMAIN slips = DOMAIN runs /\ DOMAIN entries = DOMAIN runs /\ Len(runs) \in Nat
      /\ \A r \in DOMAIN runs : runs[r] \in PayrollRow /\ slips[r] \in Payslip /\ entries[r] \in PayEntry
  BY PayTerms
<1>4. /\ runs = [runs EXCEPT ![t.r] = runs[t.r]] /\ slips = [slips EXCEPT ![t.r] = slips[t.r]]
      /\ entries = [entries EXCEPT ![t.r] = entries[t.r]]
  BY <1>2, <1>3 DEF PayTyped
<1>5. t.pc \in HasSeen => t.seen \in PayrollRow /\ t.seen.period = runs[t.r].period
  BY <1>1, PayCallForms DEF PayKnown, HasSeen, Reads
<1> QED BY <1>1, <1>2, <1>3, <1>4, <1>5

\* Only what the run's row or its entries say has changed.
LEMMA SalariesAssigned ==
  ASSUME PayKept, NEW m \in 1 .. PayMonths, NEW n \in Salaries, AssignSalary(m, n)
  PROVE  PayKept'
<1>1. UNCHANGED <<runs, slips, entries, call, touches, disjoint, faults>>
  BY DEF AssignSalary, requestVars
<1>2. salaries' \in Seq(SalaryRow)
  <2> DEFINE ended == [k \in DOMAIN salaries |-> IF k = Len(salaries) THEN [salaries[k] EXCEPT !.to = m] ELSE salaries[k]]
             r == [from |-> m, amount |-> n, to |-> 0]
  <2>1. salaries \in Seq(SalaryRow) /\ Len(salaries) \in Nat /\ DOMAIN salaries = 1 .. Len(salaries)
        /\ \A k \in DOMAIN salaries : salaries[k] \in SalaryRow
    BY DEF PayKept, PayTyped
  <2>2. m \in Nat /\ n \in Nat /\ r \in SalaryRow
    BY PayrollAssumption DEF SalaryRow
  <2>3. \A k \in DOMAIN salaries : ended[k] \in SalaryRow
    BY <2>1, <2>2 DEF SalaryRow
  <2>4. ended \in Seq(SalaryRow)
    BY <2>1, <2>3
  <2>5. salaries' = Append(ended, r)
    BY DEF AssignSalary
  <2> HIDE DEF ended, r
  <2> QED BY <2>2, <2>4, <2>5
<1>3. PayTyped'
  <2>1. Apart'
    BY <1>1, ApartStays DEF PayKept, PayTyped, requestVars
  <2> QED BY <1>1, <1>2, <2>1 DEF PayKept, PayTyped, PeriodsOf, PayKnown
<1> QED BY <1>1, <1>3 DEF PayKept, PayHolds, PayHeld, RunKept, Totalling, Pay, OneRunAPeriod

LEMMA RunCreated ==
  ASSUME PayKept, NEW c \in Call, SaveRunRow(c)
  PROVE  PayKept'
<1> DEFINE t == call[c]
           q == [period |-> t.period, status |-> "DRAFT", net |-> 0]
           e == [accrued |-> 0, paid |-> 0, mapped |-> 0]
<1>1. PayTyped /\ Apart /\ t \in PayCall /\ t.pc = "creating" /\ touches[c] = {t.period}
  BY DEF PayKept, PayTyped, SaveRunRow, At, PeriodsOf
<1>2. t.period \in PayPeriod /\ q \in PayrollRow /\ NoSlip \in Payslip /\ e \in PayEntry
  BY <1>1, PayCallForms DEF PayrollRow, PayrollStatus, Payslip, NoSlip, PayEntry
<1>3. Apart' /\ Moved(c) /\ call'[c] = Idle /\ touches'[c] = {} /\ disjoint' = disjoint
  BY <1>1, Answering DEF SaveRunRow
<1>4. runs' = Append(runs, q) /\ slips' = Append(slips, NoSlip) /\ entries' = Append(entries, e) /\ salaries' = salaries
  BY DEF SaveRunRow
<1>5. /\ Len(runs) \in Nat /\ DOMAIN runs = 1 .. Len(runs) /\ DOMAIN slips = DOMAIN runs /\ DOMAIN entries = DOMAIN runs
      /\ Len(slips) = Len(runs) /\ Len(entries) = Len(runs)
  BY <1>1, PayTerms DEF PayTyped
<1> HIDE DEF q, e, t
<1>6. PICK n \in Nat : n = Len(runs) + 1
  BY <1>5
<1>7. /\ runs' \in Seq(PayrollRow) /\ slips' \in Seq(Payslip) /\ entries' \in Seq(PayEntry) /\ salaries' \in Seq(SalaryRow)
      /\ Len(runs') = n /\ Len(slips') = n /\ Len(entries') = n
      /\ DOMAIN runs' = 1 .. n /\ runs'[n] = q /\ entries'[n] = e
      /\ \A r \in DOMAIN runs : runs'[r] = runs[r] /\ slips'[r] = slips[r] /\ entries'[r] = entries[r]
  BY <1>1, <1>2, <1>4, <1>5, <1>6 DEF PayTyped
<1>8. PayTyped'
  <2>1. touches'[c] = PeriodsOf(call[c])' /\ PayKnown(call[c])' /\ Idle \in PayCall
    BY <1>3 DEF PeriodsOf, PayKnown, Idle, HasRun, HasSeen, Reads, PayCall
  <2>2. \A r \in DOMAIN runs : r \in DOMAIN runs' /\ runs'[r].period = runs[r].period
    BY <1>5, <1>7, <1>6
  <2>3. Len(slips') = Len(runs') /\ Len(entries') = Len(runs')
    BY <1>7
  <2> QED BY <1>1, <1>3, <1>7, <2>1, <2>2, <2>3, PayTypedStep
<1>9. ASSUME disjoint' PROVE PayHolds'
  <2>1. PayHolds /\ \A r \in DOMAIN runs : runs[r].period # t.period
    BY <1>1, <1>3, <1>9 DEF PayKept, PayHolds, PayHeld, t
  <2>2. PayHeld(call[c])'
    BY <1>3 DEF PayHeld, Idle, HasSeen, Reads
  <2>3. \A k \in DOMAIN runs' : k \in DOMAIN runs \/ k = n
    BY <1>5, <1>7, <1>6
  <2>4. OneRunAPeriod'
    BY <1>7, <2>1, <2>3 DEF OneRunAPeriod, PayHolds, q
  <2>5. PICK W : W = touches[c] \union touches'[c]
    OBVIOUS
  <2>6. W = {t.period}
    BY <1>1, <1>3, <2>5
  <2>7. RunKept(n)'
    <3>1. runs'[n].status = "DRAFT" /\ entries'[n].accrued = 0 /\ entries'[n].paid = 0
      BY <1>7 DEF q, e
    <3> QED BY <3>1 DEF RunKept
  <2>8. \A k \in DOMAIN runs' : runs'[k].period \in W => RunKept(k)'
    <3> SUFFICES ASSUME NEW k \in DOMAIN runs', runs'[k].period \in W PROVE RunKept(k)'
      OBVIOUS
    <3>1. k = n
      BY <1>7, <2>3, <2>6, <2>1, <1>5
    <3> QED BY <2>7, <3>1, Zenon
  <2>9. ASSUME NEW k \in DOMAIN runs', runs'[k].period \notin W
        PROVE  k \in DOMAIN runs /\ runs'[k] = runs[k] /\ slips'[k] = slips[k] /\ entries'[k] = entries[k]
    <3>1. k # n
      BY <1>7, <2>6, <2>9 DEF q
    <3> QED BY <1>7, <2>3, <3>1
  <2>10. \A k \in DOMAIN runs : k \in DOMAIN runs' /\ runs'[k].period = runs[k].period
    BY <1>5, <1>7, <1>6
  <2>11. Moved(c)
    BY <1>3
  <2> QED BY <1>8, <1>9, <2>2, <2>4, <2>5, <2>8, <2>9, <2>10, <2>11, PayFrame
<1> QED BY <1>8, <1>9 DEF PayKept

-----------------------------------------------------------------------------
LEMMA ReadingStep ==
  ASSUME PayKept, NEW c \in Call, NEW r \in DOMAIN runs, NEW pc \in Reads, ReadRunRow(c, r, pc)
  PROVE  PayKept'
<1> DEFINE next == [pc |-> pc, r |-> r, seen |-> runs[r]]
<1>1. /\ runs[r].status \in Needed[pc] /\ Arrive(c, {runs[r].period}, next) /\ call[c].pc = "idle"
      /\ UNCHANGED <<runs, slips, entries>> /\ salaries' = salaries
  BY DEF ReadRunRow, payrollVars, Arrive, Idle
<1>2. salaries \in Seq(SalaryRow) /\ runs[r] \in PayrollRow /\ r \in Nat
  BY PayTerms DEF PayKept, PayTyped
<1>3. /\ next \in [pc : Reads \union {"mapped", "posted"}, r : Nat, seen : PayrollRow]
      /\ next.pc = pc /\ next.r = r /\ next.seen = runs[r] /\ next # Idle /\ pc \in HasRun /\ pc \notin {"idle", "creating"}
  BY <1>2 DEF Idle, HasRun, HasSeen, Reads
<1>4. next \in PayCall /\ PeriodsOf(next) = {runs[r].period} /\ PayKnown(next)
  BY <1>3 DEF PayCall, PeriodsOf, PayKnown
<1>5. PayHeld(next)
  BY <1>1, <1>3 DEF PayHeld, HasSeen, Reads
<1> HIDE DEF next
<1> QED BY <1>1, <1>2, <1>3, <1>4, <1>5, PayStill

LEMMA ProcessingStep ==
  ASSUME PayKept, NEW c \in Call, CommitProcess(c)
  PROVE  PayKept'
<1>1. PICK t : t = call[c]
  OBVIOUS
<1>2. PICK pay : pay = SalaryOf(t.seen.period[1])
  OBVIOUS
<1> DEFINE q == [t.seen EXCEPT !.status = "PROCESSED", !.net = pay]
           s == [pay |-> pay, arrears |-> 0]
           next == [pc |-> "retro", r |-> t.r]
<1>3. t.pc = "processing" /\ t.pc \in HasRun /\ t.pc \in HasSeen /\ PayTyped
  BY <1>1 DEF CommitProcess, At, HasRun, HasSeen, Reads, PayKept
<1>4. /\ t.r \in DOMAIN runs /\ t.r \in Nat /\ slips[t.r] \in Payslip /\ entries[t.r] \in PayEntry /\ runs[t.r] \in PayrollRow
      /\ entries = [entries EXCEPT ![t.r] = entries[t.r]] /\ t.seen \in PayrollRow /\ t.seen.period = runs[t.r].period
  BY <1>1, <1>3, PayRows
<1>5. pay \in Int
  BY <1>2, <1>3, <1>4, SalaryIs DEF PayTyped, PayrollRow, PayPeriod
<1>6. /\ q \in PayrollRow /\ q.period = runs[t.r].period /\ q.status = "PROCESSED" /\ q.net = pay
      /\ s \in Payslip /\ s.pay = pay /\ s.arrears = 0
      /\ next \in [pc : {"retro", "mapping"}, r : Nat] /\ next.pc = "retro" /\ next.r = t.r /\ next # Idle
  <2>1. q \in PayrollRow /\ q.period = t.seen.period /\ q.status = "PROCESSED" /\ q.net = pay
    BY <1>4, <1>5 DEF PayrollRow, PayrollStatus
  <2> QED BY <1>4, <1>5, <2>1 DEF Payslip, Idle
<1>7. /\ slips' = [slips EXCEPT ![t.r] = s] /\ runs' = [runs EXCEPT ![t.r] = q] /\ Await(c, next)
      /\ entries' = entries /\ salaries' = salaries
  BY <1>1, <1>2 DEF CommitProcess
<1> HIDE DEF q, s, next
<1>8. /\ t.r \in DOMAIN runs' /\ runs'[t.r] = q /\ slips'[t.r] = s /\ entries'[t.r] = entries[t.r]
      /\ entries' = [entries EXCEPT ![t.r] = entries[t.r]]
  BY <1>3, <1>4, <1>7, PayTerms
<1>9. next \in PayCall /\ PayKnown(next)' /\ next.pc \in HasRun
  BY <1>6, <1>8 DEF PayCall, PayKnown, HasSeen, HasRun, Reads
<1>10. ASSUME disjoint, PayHeld(t), RunKept(t.r) PROVE PayHeld(next)' /\ RunKept(t.r)'
  <2>1. runs[t.r].status \in {"DRAFT", "PROCESSED"}
    BY <1>3, <1>10 DEF PayHeld, Needed, Reads
  <2>2. PayHeld(next)'
    BY <1>6, <1>8 DEF PayHeld, HasSeen, Reads
  <2>3. Pay(t.r)' = pay
    BY <1>5, <1>6, <1>8 DEF Pay
  <2>4. entries[t.r].accrued = 0 /\ entries[t.r].paid = 0
    BY <1>10, <2>1 DEF RunKept
  <2> QED BY <1>6, <1>8, <2>2, <2>3, <2>4 DEF RunKept
<1>11. PICK e \in PayEntry : e = entries[t.r]
  BY <1>4
<1>12. entries' = [entries EXCEPT ![t.r] = e] /\ next # Idle /\ next.pc \in HasRun /\ next.r = t.r /\ q.period = runs[t.r].period
       /\ q \in PayrollRow /\ s \in Payslip /\ t.pc \in HasRun
  BY <1>3, <1>6, <1>8, <1>9, <1>11
<1> QED BY <1>1, <1>7, <1>9, <1>10, <1>12, PayChanges

LEMMA RetroStep ==
  ASSUME PayKept, NEW c \in Call, DetectArrears(c)
  PROVE  PayKept'
<1>1. PICK t : t = call[c]
  OBVIOUS
<1>2. PICK r, a : r = t.r /\ a = Arrears(runs[r].period[1])
  OBVIOUS
<1> DEFINE from == salaries[Newest(Applicable(runs[r].period[1]))].from
           next == [pc |-> "adding", r |-> r, seen |-> runs[r], slip |-> slips[r], arrears |-> a, from |-> from]
<1>3. /\ t.pc = "retro" /\ t.pc \in HasRun /\ PayTyped /\ UNCHANGED <<runs, slips, entries>> /\ salaries' = salaries
      /\ salaries \in Seq(SalaryRow)
  BY <1>1 DEF DetectArrears, At, HasRun, HasSeen, Reads, PayKept, PayTyped, payrollVars
<1>4. /\ r \in DOMAIN runs /\ r \in Nat /\ slips[r] \in Payslip /\ runs[r] \in PayrollRow /\ t # Idle
  BY <1>1, <1>2, <1>3, PayRows
<1>5. CASE Answer(c)
  <2>1. Idle \in PayCall /\ PayKnown(Idle) /\ PayHeld(Idle)
    BY DEF PayCall, PayKnown, PayHeld, Idle, HasRun, HasSeen, Reads
  <2> QED BY <1>1, <1>3, <1>5, <2>1, PayStill
<1>6. CASE Await(c, next) /\ a > 0
  <2>1. a \in Int /\ from \in Nat
    <3>1. runs[r].period[1] \in Nat
      BY <1>4 DEF PayrollRow, PayPeriod
    <3> QED BY <1>2, <1>3, <1>6, <3>1, ArrearsAre
  <2> HIDE DEF from
  <2>2. /\ next \in [pc : {"adding", "recording", "totalling"}, r : Nat, seen : PayrollRow, slip : Payslip, arrears : Int, from : Nat]
        /\ next.pc = "adding" /\ next.r = r /\ next.seen = runs[r] /\ next.slip = slips[r] /\ next # Idle
    BY <1>4, <2>1 DEF Idle
  <2> HIDE DEF next
  <2>3. next \in PayCall /\ PayKnown(next) /\ PeriodsOf(next) = PeriodsOf(t)
    BY <1>2, <1>3, <1>4, <2>2 DEF PayCall, PayKnown, PeriodsOf
  <2>4. disjoint => PayHeld(next)
    <3>1. disjoint => PayHeld(t)
      BY <1>1 DEF PayKept, PayHolds
    <3> QED BY <1>2, <1>3, <2>2, <3>1 DEF PayHeld, HasSeen, Reads
  <2> QED BY <1>1, <1>3, <1>4, <1>6, <2>2, <2>3, <2>4, PayStill
<1>7. Answer(c) \/ (Await(c, next) /\ a > 0)
  BY <1>1, <1>2 DEF DetectArrears
<1> QED BY <1>5, <1>6, <1>7

LEMMA ArrearsStep ==
  ASSUME PayKept, NEW c \in Call, SaveArrears(c)
  PROVE  PayKept'
<1>1. PICK t : t = call[c]
  OBVIOUS
<1> DEFINE s == [t.slip EXCEPT !.arrears = t.arrears]
           next == [t EXCEPT !.pc = "recording"]
<1>2. t.pc = "adding" /\ t.pc \in HasRun /\ t.pc \in HasSeen /\ PayTyped
  BY <1>1 DEF SaveArrears, At, HasRun, HasSeen, Reads, PayKept
<1>3. /\ t \in PayCall /\ PayKnown(t) /\ t.r \in DOMAIN runs /\ t.r \in Nat /\ slips[t.r] \in Payslip /\ entries[t.r] \in PayEntry
      /\ runs[t.r] \in PayrollRow
      /\ entries = [entries EXCEPT ![t.r] = entries[t.r]] /\ runs = [runs EXCEPT ![t.r] = runs[t.r]]
      /\ t.seen.period = runs[t.r].period
  BY <1>1, <1>2, PayRows
<1>4. t \in [pc : {"adding", "recording", "totalling"}, r : Nat, seen : PayrollRow, slip : Payslip, arrears : Int, from : Nat]
  BY <1>2, <1>3, PayCallForms
<1>5. /\ s \in Payslip /\ s.pay = t.slip.pay /\ s.arrears = t.arrears
      /\ next \in [pc : {"adding", "recording", "totalling"}, r : Nat, seen : PayrollRow, slip : Payslip, arrears : Int, from : Nat]
      /\ next.pc = "recording" /\ next.r = t.r /\ next.seen = t.seen /\ next.arrears = t.arrears /\ next # Idle
  BY <1>4 DEF Payslip, Idle
<1>6. slips' = [slips EXCEPT ![t.r] = s] /\ Await(c, next) /\ runs' = runs /\ entries' = entries /\ salaries' = salaries
  BY <1>1 DEF SaveArrears
<1> HIDE DEF s, next
<1>7. /\ t.r \in DOMAIN runs' /\ runs'[t.r] = runs[t.r] /\ slips'[t.r] = s /\ entries'[t.r] = entries[t.r]
      /\ runs' = [runs EXCEPT ![t.r] = runs[t.r]] /\ entries' = [entries EXCEPT ![t.r] = entries[t.r]]
  BY <1>2, <1>3, <1>6, PayTerms
<1>8. next \in PayCall /\ PayKnown(next)' /\ next.pc \in HasRun
  BY <1>3, <1>5, <1>7 DEF PayCall, PayKnown, HasSeen, HasRun, Reads
<1>9. call'[c] = next /\ faults' = faults
  BY <1>1, <1>6, <1>2 DEF Await, PayTyped
<1>10. ASSUME disjoint, PayHeld(t), RunKept(t.r) PROVE PayHeld(next)' /\ RunKept(t.r)'
  <2>1. /\ runs[t.r].status = "PROCESSED" /\ t.seen = runs[t.r] /\ t.slip = slips[t.r] /\ slips[t.r].arrears = 0
        /\ ~ Totalling(t.r)
    BY <1>1, <1>2, <1>10, OneAtRun DEF PayHeld
  <2>2. faults = 0 => runs[t.r].net = slips[t.r].pay
    BY <1>3, <1>10, <2>1 DEF RunKept, Pay, Payslip
  <2>3. PayHeld(next)'
    BY <1>5, <1>7, <1>9, <2>1, <2>2 DEF PayHeld, HasSeen, Reads
  <2>4. Totalling(t.r)'
    BY <1>5, <1>9 DEF Totalling
  <2>5. entries[t.r].accrued = 0 /\ entries[t.r].paid = 0
    BY <1>10, <2>1 DEF RunKept
  <2> QED BY <1>7, <2>1, <2>3, <2>4, <2>5 DEF RunKept
<1>11. PICK q \in PayrollRow, e \in PayEntry : q = runs[t.r] /\ e = entries[t.r]
  BY <1>3
<1>12. /\ runs' = [runs EXCEPT ![t.r] = q] /\ entries' = [entries EXCEPT ![t.r] = e] /\ q.period = runs[t.r].period
       /\ next # Idle /\ next.pc \in HasRun /\ next.r = t.r /\ s \in Payslip /\ t.pc \in HasRun
  BY <1>2, <1>5, <1>7, <1>8, <1>11
<1> QED BY <1>1, <1>6, <1>8, <1>10, <1>12, PayChanges

-----------------------------------------------------------------------------
LEMMA TotalsStep ==
  ASSUME PayKept, NEW c \in Call, SaveTotals(c)
  PROVE  PayKept'
<1>1. PICK t : t = call[c]
  OBVIOUS
<1>2. t.pc = "totalling" /\ t.pc \in HasRun /\ t.pc \in HasSeen /\ PayTyped
  BY <1>1 DEF SaveTotals, At, HasRun, HasSeen, Reads, PayKept
<1>3. /\ t \in PayCall /\ PayKnown(t) /\ t.r \in DOMAIN runs /\ t.r \in Nat /\ slips[t.r] \in Payslip /\ entries[t.r] \in PayEntry
      /\ runs[t.r] \in PayrollRow /\ t.seen \in PayrollRow
      /\ entries = [entries EXCEPT ![t.r] = entries[t.r]] /\ slips = [slips EXCEPT ![t.r] = slips[t.r]]
      /\ t.seen.period = runs[t.r].period
  BY <1>1, <1>2, PayRows
<1>4. PICK q, s, e : q = [t.seen EXCEPT !.net = @ + t.arrears] /\ s = slips[t.r] /\ e = entries[t.r]
  OBVIOUS
<1>5. /\ q \in PayrollRow /\ q.period = runs[t.r].period /\ q.net = t.seen.net + t.arrears /\ q.status = t.seen.status
  <2>1. t \in [pc : {"adding", "recording", "totalling"}, r : Nat, seen : PayrollRow, slip : Payslip, arrears : Int, from : Nat]
    BY <1>2, <1>3, PayCallForms
  <2> QED BY <1>3, <1>4, <2>1 DEF PayrollRow
<1>6. s \in Payslip /\ e \in PayEntry
  BY <1>3, <1>4 DEF Payslip, PayEntry, NoSlip
<1>7. /\ runs' = [runs EXCEPT ![t.r] = q] /\ slips' = [slips EXCEPT ![t.r] = s] /\ entries' = [entries EXCEPT ![t.r] = e]
      /\ salaries' = salaries
  BY <1>1, <1>3, <1>4 DEF SaveTotals
<1>8. /\ t.r \in DOMAIN runs' /\ runs'[t.r] = q /\ slips'[t.r] = s /\ entries'[t.r] = e
  BY <1>2, <1>3, <1>7, PayTerms
<1>9. PICK next \in PayCall : next = Idle
  BY DEF PayCall
<1>10. Answer(c) /\ PayKnown(next)' /\ PayHeld(next)'
  BY <1>9 DEF SaveTotals, PayKnown, PayHeld, Idle, HasRun, HasSeen, Reads
<1>11. ASSUME disjoint, PayHeld(t), RunKept(t.r) PROVE PayHeld(next)' /\ RunKept(t.r)'
  <2>1. /\ runs[t.r].status = "PROCESSED" /\ t.seen = runs[t.r] /\ slips[t.r].arrears = t.arrears
        /\ (faults = 0 => runs[t.r].net = slips[t.r].pay)
    BY <1>2, <1>11 DEF PayHeld
  <2>2. entries[t.r].accrued = 0 /\ entries[t.r].paid = 0
    BY <1>11, <2>1 DEF RunKept
  <2>3. faults' = faults
    BY <1>10 DEF Answer
  <2>4. faults' = 0 => q.net = s.pay + s.arrears
    BY <1>4, <1>5, <2>1, <2>3
  <2>5. Pay(t.r)' = s.pay + s.arrears
    BY <1>8 DEF Pay
  <2>6. q.status = "PROCESSED" /\ e.accrued = 0 /\ e.paid = 0
    BY <1>4, <1>5, <2>1, <2>2
  <2>7. RunKept(t.r)'
    BY <1>8, <2>4, <2>5, <2>6 DEF RunKept
  <2> QED BY <1>10, <2>7
<1> QED BY <1>1, <1>2, <1>5, <1>6, <1>7, <1>9, <1>10, <1>11, PayChanges

LEMMA ApprovalStep ==
  ASSUME PayKept, NEW c \in Call, CommitApproval(c)
  PROVE  PayKept'
<1>1. PICK t : t = call[c]
  OBVIOUS
<1>2. t.pc = "accruing" /\ t.pc \in HasRun /\ t.pc \in HasSeen /\ PayTyped
  BY <1>1 DEF CommitApproval, At, HasRun, HasSeen, Reads, PayKept
<1>3. /\ t \in PayCall /\ PayKnown(t) /\ t.r \in DOMAIN runs /\ t.r \in Nat /\ slips[t.r] \in Payslip /\ entries[t.r] \in PayEntry
      /\ runs[t.r] \in PayrollRow /\ t.seen \in PayrollRow
      /\ entries = [entries EXCEPT ![t.r] = entries[t.r]] /\ slips = [slips EXCEPT ![t.r] = slips[t.r]]
      /\ t.seen.period = runs[t.r].period
  BY <1>1, <1>2, PayRows
<1>4. PICK q, s, e : q = [t.seen EXCEPT !.status = "APPROVED"] /\ s = slips[t.r] /\ e = [entries[t.r] EXCEPT !.accrued = @ + t.slip.pay + t.slip.arrears]
  OBVIOUS
<1>5. /\ q \in PayrollRow /\ q.period = runs[t.r].period /\ q.net = t.seen.net /\ q.status = "APPROVED"
  BY <1>3, <1>4 DEF PayrollRow, PayrollStatus
<1>6. t.slip.pay \in Int /\ t.slip.arrears \in Int /\ s.pay \in Int /\ s.arrears \in Int
  <2>1. t \in [pc : {"accruing"}, r : Nat, seen : PayrollRow, slip : Payslip]
    BY <1>2, <1>3, PayCallForms
  <2> QED BY <1>3, <1>4, <2>1 DEF Payslip
<1>7. s \in Payslip /\ e \in PayEntry /\ e.paid = entries[t.r].paid /\ e.accrued = entries[t.r].accrued + t.slip.pay + t.slip.arrears
  BY <1>3, <1>4, <1>6 DEF Payslip, PayEntry, NoSlip
<1>8. /\ runs' = [runs EXCEPT ![t.r] = q] /\ slips' = [slips EXCEPT ![t.r] = s] /\ entries' = [entries EXCEPT ![t.r] = e]
      /\ salaries' = salaries
  BY <1>1, <1>3, <1>4 DEF CommitApproval
<1>9. /\ t.r \in DOMAIN runs' /\ runs'[t.r] = q /\ slips'[t.r] = s /\ entries'[t.r] = e
  BY <1>2, <1>3, <1>8, PayTerms
<1>10. PICK next \in PayCall : next = [pc |-> "mapping", r |-> t.r]
  <2>1. [pc |-> "mapping", r |-> t.r] \in [pc : {"retro", "mapping"}, r : Nat]
    BY <1>3
  <2> QED BY <2>1 DEF PayCall
<1>11. Await(c, next) /\ PayKnown(next)' /\ next # Idle /\ next.pc \in HasRun /\ next.r = t.r
  BY <1>1, <1>9, <1>10 DEF CommitApproval, PayKnown, Idle, HasRun, HasSeen, Reads
<1>12. ASSUME disjoint, PayHeld(t), RunKept(t.r) PROVE PayHeld(next)' /\ RunKept(t.r)'
  <2>1. /\ runs[t.r].status = "PROCESSED" /\ t.seen = runs[t.r] /\ t.slip = slips[t.r] /\ ~ Totalling(t.r)
    BY <1>1, <1>2, <1>12, OneAtRun DEF PayHeld
  <2>2. entries[t.r].accrued = 0 /\ entries[t.r].paid = 0
    BY <1>12, <2>1 DEF RunKept
  <2>3. faults' = faults
    BY <1>11 DEF Await
  <2>4. Pay(t.r)' = s.pay + s.arrears /\ Pay(t.r) = s.pay + s.arrears
    BY <1>4, <1>9 DEF Pay
  <2>5. faults' = 0 => q.net = s.pay + s.arrears
    BY <1>5, <1>12, <2>1, <2>3, <2>4 DEF RunKept
  <2>6. e.accrued = s.pay + s.arrears /\ e.paid = 0
    BY <1>4, <1>6, <1>7, <2>1, <2>2
  <2>7. RunKept(t.r)'
    BY <1>5, <1>9, <2>4, <2>5, <2>6 DEF RunKept
  <2>8. PayHeld(next)'
    BY <1>5, <1>9, <1>10 DEF PayHeld, HasSeen, Reads
  <2> QED BY <2>7, <2>8
<1> QED BY <1>1, <1>2, <1>5, <1>7, <1>8, <1>10, <1>11, <1>12, PayChanges

LEMMA PostingStep ==
  ASSUME PayKept, NEW c \in Call, PostMapping(c)
  PROVE  PayKept'
<1>1. PICK t : t = call[c]
  OBVIOUS
<1>2. t.pc = "mapped" /\ t.pc \in HasRun /\ t.pc \in HasSeen /\ PayTyped
  BY <1>1 DEF PostMapping, At, HasRun, HasSeen, Reads, PayKept
<1>3. /\ t \in PayCall /\ PayKnown(t) /\ t.r \in DOMAIN runs /\ t.r \in Nat /\ slips[t.r] \in Payslip /\ entries[t.r] \in PayEntry
      /\ runs[t.r] \in PayrollRow /\ t.seen \in PayrollRow
      /\ entries = [entries EXCEPT ![t.r] = entries[t.r]] /\ slips = [slips EXCEPT ![t.r] = slips[t.r]]
      /\ t.seen.period = runs[t.r].period
  BY <1>1, <1>2, PayRows
<1>4. PICK q, s, e : q = runs[t.r] /\ s = slips[t.r] /\ e = [entries[t.r] EXCEPT !.mapped = @ + 1]
  OBVIOUS
<1>5. /\ q \in PayrollRow /\ q.period = runs[t.r].period /\ q.status = runs[t.r].status
  BY <1>3, <1>4
<1>6. s \in Payslip /\ e \in PayEntry
  BY <1>3, <1>4 DEF Payslip, PayEntry, NoSlip
<1>7. /\ runs' = [runs EXCEPT ![t.r] = q] /\ slips' = [slips EXCEPT ![t.r] = s] /\ entries' = [entries EXCEPT ![t.r] = e]
      /\ salaries' = salaries
  <2>1. /\ entries' = [entries EXCEPT ![t.r].mapped = @ + 1] /\ runs' = runs /\ slips' = slips /\ salaries' = salaries
    BY <1>1 DEF PostMapping
  <2>2. entries' = [entries EXCEPT ![t.r] = e]
    BY <1>4, <2>1
  <2>3. runs = [runs EXCEPT ![t.r] = runs[t.r]]
    BY <1>1, <1>2, PayRows
  <2> QED BY <1>3, <1>4, <2>1, <2>2, <2>3
<1>8. /\ t.r \in DOMAIN runs' /\ runs'[t.r] = q /\ slips'[t.r] = s /\ entries'[t.r] = e
  BY <1>2, <1>3, <1>7, PayTerms
<1>9. PICK next : next = [t EXCEPT !.pc = "posted"]
  OBVIOUS
<1>10. t \in [pc : Reads \union {"mapped", "posted"}, r : Nat, seen : PayrollRow]
  BY <1>2, <1>3, PayCallForms
<1>11. /\ next \in [pc : Reads \union {"mapped", "posted"}, r : Nat, seen : PayrollRow]
       /\ next.pc = "posted" /\ next.r = t.r /\ next.seen = t.seen /\ next # Idle
  BY <1>9, <1>10 DEF Idle
<1>12. next \in PayCall /\ next.pc \in HasRun /\ Await(c, next) /\ PayKnown(next)'
  BY <1>1, <1>3, <1>4, <1>8, <1>9, <1>11 DEF PayCall, HasRun, HasSeen, Reads, PostMapping, PayKnown
<1>13. e.accrued = entries[t.r].accrued /\ e.paid = entries[t.r].paid
  BY <1>3, <1>4 DEF PayEntry
<1>14. ASSUME disjoint, PayHeld(t), RunKept(t.r) PROVE PayHeld(next)' /\ RunKept(t.r)'
  <2>1. t.seen = runs[t.r] /\ ~ Totalling(t.r)
    BY <1>1, <1>2, <1>14, OneAtRun DEF PayHeld
  <2>2. faults' = faults
    BY <1>12 DEF Await
  <2>3. Pay(t.r)' = Pay(t.r) /\ q = runs[t.r]
    BY <1>4, <1>8 DEF Pay
  <2>4. RunKept(t.r)'
    BY <1>8, <1>13, <1>14, <2>1, <2>2, <2>3 DEF RunKept
  <2>5. PayHeld(next)'
    BY <1>4, <1>8, <1>11, <2>1 DEF PayHeld, HasSeen, Reads
  <2> QED BY <2>4, <2>5
<1> QED BY <1>1, <1>2, <1>5, <1>6, <1>7, <1>11, <1>12, <1>14, PayChanges

LEMMA MappingStep ==
  ASSUME PayKept, NEW c \in Call, SaveMapping(c)
  PROVE  PayKept'
<1>1. PICK t : t = call[c]
  OBVIOUS
<1>2. t.pc = "posted" /\ t.pc \in HasRun /\ t.pc \in HasSeen /\ PayTyped
  BY <1>1 DEF SaveMapping, At, HasRun, HasSeen, Reads, PayKept
<1>3. /\ t \in PayCall /\ PayKnown(t) /\ t.r \in DOMAIN runs /\ t.r \in Nat /\ slips[t.r] \in Payslip /\ entries[t.r] \in PayEntry
      /\ runs[t.r] \in PayrollRow /\ t.seen \in PayrollRow
      /\ entries = [entries EXCEPT ![t.r] = entries[t.r]] /\ slips = [slips EXCEPT ![t.r] = slips[t.r]]
      /\ t.seen.period = runs[t.r].period
  BY <1>1, <1>2, PayRows
<1>4. PICK q, s, e : q = t.seen /\ s = slips[t.r] /\ e = entries[t.r]
  OBVIOUS
<1>5. /\ q \in PayrollRow /\ q.period = runs[t.r].period /\ q.status = t.seen.status
  BY <1>3, <1>4
<1>6. s \in Payslip /\ e \in PayEntry
  BY <1>3, <1>4 DEF Payslip, PayEntry, NoSlip
<1>7. /\ runs' = [runs EXCEPT ![t.r] = q] /\ slips' = [slips EXCEPT ![t.r] = s] /\ entries' = [entries EXCEPT ![t.r] = e]
      /\ salaries' = salaries
  BY <1>1, <1>3, <1>4 DEF SaveMapping
<1>8. /\ t.r \in DOMAIN runs' /\ runs'[t.r] = q /\ slips'[t.r] = s /\ entries'[t.r] = e
  BY <1>2, <1>3, <1>7, PayTerms
<1>9. PICK next \in PayCall : next = Idle
  BY DEF PayCall
<1>10. Answer(c) /\ PayKnown(next)' /\ PayHeld(next)'
  BY <1>9 DEF SaveMapping, PayKnown, PayHeld, Idle, HasRun, HasSeen, Reads
<1>11. ASSUME disjoint, PayHeld(t), RunKept(t.r) PROVE PayHeld(next)' /\ RunKept(t.r)'
  <2>1. t.seen = runs[t.r] /\ ~ Totalling(t.r)
    BY <1>1, <1>2, <1>11, OneAtRun DEF PayHeld
  <2>2. faults' = faults
    BY <1>10 DEF Answer
  <2>3. Pay(t.r)' = Pay(t.r) /\ q = runs[t.r] /\ e = entries[t.r]
    BY <1>4, <1>8, <2>1 DEF Pay
  <2>4. RunKept(t.r)'
    BY <1>8, <1>11, <2>1, <2>2, <2>3 DEF RunKept
  <2> QED BY <1>10, <2>4
<1> QED BY <1>1, <1>2, <1>5, <1>6, <1>7, <1>9, <1>10, <1>11, PayChanges

LEMMA PaidStep ==
  ASSUME PayKept, NEW c \in Call, CommitPaid(c)
  PROVE  PayKept'
<1>1. PICK t : t = call[c]
  OBVIOUS
<1>2. t.pc = "paying" /\ t.pc \in HasRun /\ t.pc \in HasSeen /\ PayTyped
  BY <1>1 DEF CommitPaid, At, HasRun, HasSeen, Reads, PayKept
<1>3. /\ t \in PayCall /\ PayKnown(t) /\ t.r \in DOMAIN runs /\ t.r \in Nat /\ slips[t.r] \in Payslip /\ entries[t.r] \in PayEntry
      /\ runs[t.r] \in PayrollRow /\ t.seen \in PayrollRow
      /\ entries = [entries EXCEPT ![t.r] = entries[t.r]] /\ slips = [slips EXCEPT ![t.r] = slips[t.r]]
      /\ t.seen.period = runs[t.r].period
  BY <1>1, <1>2, PayRows
<1>4. PICK q, s, e : q = [t.seen EXCEPT !.status = "PAID"] /\ s = slips[t.r] /\ e = [entries[t.r] EXCEPT !.paid = @ + t.seen.net]
  OBVIOUS
<1>5. /\ q \in PayrollRow /\ q.period = runs[t.r].period /\ q.net = t.seen.net /\ q.status = "PAID"
  BY <1>3, <1>4 DEF PayrollRow, PayrollStatus
<1>6. t.seen.net \in Int
  BY <1>3 DEF PayrollRow
<1>7. s \in Payslip /\ e \in PayEntry /\ e.accrued = entries[t.r].accrued /\ e.paid = entries[t.r].paid + t.seen.net
  BY <1>3, <1>4, <1>6 DEF Payslip, PayEntry, NoSlip
<1>8. /\ runs' = [runs EXCEPT ![t.r] = q] /\ slips' = [slips EXCEPT ![t.r] = s] /\ entries' = [entries EXCEPT ![t.r] = e]
      /\ salaries' = salaries
  BY <1>1, <1>3, <1>4 DEF CommitPaid
<1>9. /\ t.r \in DOMAIN runs' /\ runs'[t.r] = q /\ slips'[t.r] = s /\ entries'[t.r] = e
  BY <1>2, <1>3, <1>8, PayTerms
<1>10. PICK next \in PayCall : next = Idle
  BY DEF PayCall
<1>11. Answer(c) /\ PayKnown(next)' /\ PayHeld(next)'
  BY <1>10 DEF CommitPaid, PayKnown, PayHeld, Idle, HasRun, HasSeen, Reads
<1>12. ASSUME disjoint, PayHeld(t), RunKept(t.r) PROVE PayHeld(next)' /\ RunKept(t.r)'
  <2>1. runs[t.r].status = "APPROVED" /\ t.seen = runs[t.r] /\ ~ Totalling(t.r)
    BY <1>1, <1>2, <1>12, OneAtRun DEF PayHeld, Needed, Reads
  <2>2. faults' = faults
    BY <1>11 DEF Answer
  <2>3. Pay(t.r)' = Pay(t.r)
    BY <1>4, <1>9 DEF Pay
  <2>4. e.accrued = Pay(t.r) /\ e.paid = q.net
    BY <1>5, <1>6, <1>7, <1>12, <2>1 DEF RunKept
  <2>5. faults' = 0 => q.net = Pay(t.r)
    BY <1>5, <1>12, <2>1, <2>2 DEF RunKept
  <2>6. RunKept(t.r)'
    BY <1>5, <1>9, <2>3, <2>4, <2>5 DEF RunKept
  <2> QED BY <1>11, <2>6
<1> QED BY <1>1, <1>2, <1>5, <1>7, <1>8, <1>10, <1>11, <1>12, PayChanges

LEMMA CancelStep ==
  ASSUME PayKept, NEW c \in Call, CommitCancel(c)
  PROVE  PayKept'
<1>1. PICK t : t = call[c]
  OBVIOUS
<1>2. t.pc = "cancelling" /\ t.pc \in HasRun /\ t.pc \in HasSeen /\ PayTyped
  BY <1>1 DEF CommitCancel, At, HasRun, HasSeen, Reads, PayKept
<1>3. /\ t \in PayCall /\ PayKnown(t) /\ t.r \in DOMAIN runs /\ t.r \in Nat /\ slips[t.r] \in Payslip /\ entries[t.r] \in PayEntry
      /\ runs[t.r] \in PayrollRow /\ t.seen \in PayrollRow
      /\ entries = [entries EXCEPT ![t.r] = entries[t.r]] /\ slips = [slips EXCEPT ![t.r] = slips[t.r]]
      /\ t.seen.period = runs[t.r].period
  BY <1>1, <1>2, PayRows
<1>4. PICK q, s, e : q = [t.seen EXCEPT !.status = "CANCELLED", !.net = 0] /\ s = NoSlip /\ e = entries[t.r]
  OBVIOUS
<1>5. /\ q \in PayrollRow /\ q.period = runs[t.r].period /\ q.status = "CANCELLED"
  <2>1. PICK p : p = [t.seen EXCEPT !.status = "CANCELLED"]
    OBVIOUS
  <2>2. p \in PayrollRow /\ p.period = t.seen.period /\ p.status = "CANCELLED"
    BY <1>3, <2>1 DEF PayrollRow, PayrollStatus
  <2>3. q = [p EXCEPT !.net = 0]
    BY <1>4, <2>1
  <2>4. q \in PayrollRow /\ q.period = p.period /\ q.status = p.status
    BY <2>2, <2>3 DEF PayrollRow
  <2> QED BY <1>3, <2>2, <2>4
<1>6. s \in Payslip /\ e \in PayEntry
  BY <1>3, <1>4 DEF Payslip, PayEntry, NoSlip
<1>7. /\ runs' = [runs EXCEPT ![t.r] = q] /\ slips' = [slips EXCEPT ![t.r] = s] /\ entries' = [entries EXCEPT ![t.r] = e]
      /\ salaries' = salaries
  BY <1>1, <1>3, <1>4 DEF CommitCancel
<1>8. /\ t.r \in DOMAIN runs' /\ runs'[t.r] = q /\ slips'[t.r] = s /\ entries'[t.r] = e
  BY <1>2, <1>3, <1>7, PayTerms
<1>9. PICK next \in PayCall : next = Idle
  BY DEF PayCall
<1>10. Answer(c) /\ PayKnown(next)' /\ PayHeld(next)'
  BY <1>9 DEF CommitCancel, PayKnown, PayHeld, Idle, HasRun, HasSeen, Reads
<1>11. ASSUME disjoint, PayHeld(t), RunKept(t.r) PROVE PayHeld(next)' /\ RunKept(t.r)'
  <2>1. runs[t.r].status \in {"DRAFT", "PROCESSED"}
    BY <1>2, <1>11 DEF PayHeld, Needed, Reads
  <2>2. e.accrued = 0 /\ e.paid = 0
    BY <1>4, <1>11, <2>1 DEF RunKept
  <2>3. RunKept(t.r)'
    BY <1>5, <1>8, <2>2 DEF RunKept
  <2> QED BY <1>10, <2>3
<1> QED BY <1>1, <1>2, <1>5, <1>6, <1>7, <1>9, <1>10, <1>11, PayChanges

-----------------------------------------------------------------------------
LEMMA PayEnds ==
  ASSUME PayKept, NEW c \in Call, UNCHANGED payrollVars,
         (Answer(c) /\ call[c].pc \notin {"recording", "totalling"}) \/ Perish(c)
  PROVE  PayKept'
<1>1. PICK next \in PayCall : next = Idle
  BY DEF PayCall
<1>2. PayKnown(next) /\ PayHeld(next)
  BY <1>1 DEF PayKnown, PayHeld, Idle, HasRun, HasSeen, Reads
<1>3. UNCHANGED <<runs, slips, entries>> /\ salaries' \in Seq(SalaryRow)
  BY DEF payrollVars, PayKept, PayTyped
<1> QED BY <1>1, <1>2, <1>3, PayStill

LEMMA PayGoesOn ==
  ASSUME PayKept, NEW c \in Call, NEW t, t = call[c], t.pc \in HasRun, UNCHANGED <<runs, slips, entries, salaries>>,
         NEW next \in PayCall, next # Idle, next.pc \in HasRun, next.r = t.r, next.pc \in HasSeen => next.seen.period = runs[t.r].period,
         Await(c, next), disjoint /\ PayHeld(t) => PayHeld(next),
         t.pc \in {"recording", "totalling"} => next.pc \in {"recording", "totalling"}
  PROVE  PayKept'
<1>1. PayTyped /\ t.r \in DOMAIN runs /\ t # Idle
  BY PayRows DEF PayKept
<1>2. PayKnown(next) /\ PeriodsOf(next) = PeriodsOf(t)
  BY <1>1 DEF PayKnown, PeriodsOf, HasRun, HasSeen, Reads
<1>3. disjoint => PayHeld(next)
  BY DEF PayKept, PayHolds
<1>4. UNCHANGED <<runs, slips, entries>> /\ salaries' \in Seq(SalaryRow)
  BY <1>1 DEF PayTyped
<1> QED BY <1>1, <1>2, <1>3, <1>4, PayStill

LEMMA RecordStep ==
  ASSUME PayKept, NEW c \in Call, SaveRecord(c)
  PROVE  PayKept'
<1>1. PICK t : t = call[c]
  OBVIOUS
<1>2. t.pc = "recording" /\ t.pc \in HasRun /\ t.pc \in HasSeen /\ PayTyped /\ UNCHANGED <<runs, slips, entries, salaries>>
  BY <1>1 DEF SaveRecord, At, HasRun, HasSeen, Reads, PayKept
<1>3. t \in PayCall /\ t.seen.period = runs[t.r].period
  BY <1>1, <1>2, PayRows
<1>4. t \in [pc : {"adding", "recording", "totalling"}, r : Nat, seen : PayrollRow, slip : Payslip, arrears : Int, from : Nat]
  BY <1>2, <1>3, PayCallForms
<1>5. PICK next : next = [t EXCEPT !.pc = "totalling"]
  OBVIOUS
<1>6. /\ next \in [pc : {"adding", "recording", "totalling"}, r : Nat, seen : PayrollRow, slip : Payslip, arrears : Int, from : Nat]
      /\ next.pc = "totalling" /\ next.r = t.r /\ next.seen = t.seen /\ next.arrears = t.arrears /\ next # Idle
  BY <1>4, <1>5 DEF Idle
<1>7. next \in PayCall /\ next.pc \in HasRun /\ Await(c, next)
  BY <1>1, <1>5, <1>6 DEF PayCall, HasRun, HasSeen, SaveRecord
<1>8. PayHeld(t) => PayHeld(next)
  BY <1>2, <1>6 DEF PayHeld, HasSeen, Reads
<1> QED BY <1>1, <1>2, <1>3, <1>6, <1>7, <1>8, PayGoesOn

LEMMA SlipsStep ==
  ASSUME PayKept, NEW c \in Call, ReadSlips(c)
  PROVE  PayKept'
<1>1. PICK t : t = call[c]
  OBVIOUS
<1>2. /\ t.pc = "approving" /\ t.pc \in HasRun /\ t.pc \in HasSeen /\ PayTyped /\ UNCHANGED <<runs, slips, entries, salaries>>
      /\ UNCHANGED payrollVars
  BY <1>1 DEF ReadSlips, At, HasRun, HasSeen, Reads, PayKept, payrollVars
<1>3. /\ t \in PayCall /\ t.seen.period = runs[t.r].period /\ t.seen \in PayrollRow /\ t.r \in Nat /\ slips[t.r] \in Payslip
  BY <1>1, <1>2, PayRows
<1>4. PICK next : next = [pc |-> "accruing", r |-> t.r, seen |-> t.seen, slip |-> slips[t.r]]
  OBVIOUS
<1>5. /\ next \in [pc : {"accruing"}, r : Nat, seen : PayrollRow, slip : Payslip]
      /\ next.pc = "accruing" /\ next.r = t.r /\ next.seen = t.seen /\ next.slip = slips[t.r] /\ next # Idle
  BY <1>3, <1>4 DEF Idle
<1>6. next \in PayCall /\ next.pc \in HasRun /\ (Answer(c) \/ Await(c, next))
  BY <1>1, <1>4, <1>5 DEF PayCall, HasRun, HasSeen, ReadSlips
<1>7. PayHeld(t) => PayHeld(next)
  BY <1>2, <1>5 DEF PayHeld, HasSeen, Reads, Needed
<1>8. CASE Answer(c)
  BY <1>1, <1>2, <1>8, PayEnds
<1>9. CASE Await(c, next)
  BY <1>1, <1>2, <1>3, <1>5, <1>6, <1>7, <1>9, PayGoesOn
<1> QED BY <1>6, <1>8, <1>9

LEMMA MappingRead ==
  ASSUME PayKept, NEW c \in Call, ReadForMapping(c)
  PROVE  PayKept'
<1>1. PICK t : t = call[c]
  OBVIOUS
<1>2. /\ t.pc = "mapping" /\ t.pc \in HasRun /\ PayTyped /\ UNCHANGED <<runs, slips, entries, salaries>>
  BY <1>1 DEF ReadForMapping, At, HasRun, HasSeen, Reads, PayKept, payrollVars
<1>3. t \in PayCall /\ t.r \in Nat /\ runs[t.r] \in PayrollRow
  BY <1>1, <1>2, PayRows
<1>4. PICK next : next = [pc |-> "mapped", r |-> t.r, seen |-> runs[t.r]]
  OBVIOUS
<1>5. /\ next \in [pc : Reads \union {"mapped", "posted"}, r : Nat, seen : PayrollRow]
      /\ next.pc = "mapped" /\ next.r = t.r /\ next.seen = runs[t.r] /\ next # Idle
  BY <1>3, <1>4 DEF Idle
<1>6. next \in PayCall /\ next.pc \in HasRun /\ Await(c, next)
  BY <1>1, <1>4, <1>5 DEF PayCall, HasRun, HasSeen, ReadForMapping
<1>7. PayHeld(t) => PayHeld(next)
  BY <1>2, <1>5 DEF PayHeld, HasSeen, Reads
<1> QED BY <1>1, <1>2, <1>3, <1>5, <1>6, <1>7, PayGoesOn

LEMMA MapRunStep ==
  ASSUME PayKept, NEW c \in Call, NEW r \in DOMAIN runs, MapRun(c, r)
  PROVE  PayKept'
<1>1. PICK next : next = [pc |-> "mapping", r |-> r]
  OBVIOUS
<1>2. salaries \in Seq(SalaryRow) /\ runs[r] \in PayrollRow /\ r \in Nat
  BY PayTerms DEF PayKept, PayTyped
<1>3. /\ next \in [pc : {"retro", "mapping"}, r : Nat] /\ next.pc = "mapping" /\ next.r = r /\ next # Idle
  BY <1>1, <1>2 DEF Idle
<1>4. next \in PayCall /\ PeriodsOf(next) = {runs[r].period} /\ PayKnown(next)
  BY <1>3 DEF PayCall, PeriodsOf, PayKnown, HasSeen, Reads
<1>5. PayHeld(next)
  BY <1>3 DEF PayHeld, HasSeen, Reads
<1>6. Arrive(c, {runs[r].period}, next) /\ call[c].pc = "idle" /\ UNCHANGED <<runs, slips, entries>> /\ salaries' = salaries
  BY <1>1 DEF MapRun, payrollVars, Arrive, Idle
<1> QED BY <1>2, <1>3, <1>4, <1>5, <1>6, PayStill

LEMMA DuplicateCheck ==
  ASSUME PayKept, NEW c \in Call, NEW m \in (1 .. PayMonths) \X RunTypes, CheckDuplicate(c, m)
  PROVE  PayKept'
<1>1. PICK next : next = [pc |-> "creating", period |-> m]
  OBVIOUS
<1>2. next \in PayCall /\ next.pc = "creating" /\ next.period = m /\ next # Idle
  <2>1. m \in PayPeriod
    BY PayrollAssumption DEF PayPeriod
  <2> QED BY <1>1, <2>1 DEF PayCall, Idle
<1>3. /\ Arrive(c, {m}, next) /\ UNCHANGED <<runs, slips, entries, salaries>> /\ call[c].pc = "idle"
      /\ \A r \in DOMAIN runs : runs[r].period # m
  BY <1>1 DEF CheckDuplicate, payrollVars, Arrive, Idle
<1>4. PeriodsOf(next) = {m} /\ PayKnown(next) /\ PayHeld(next)
  BY <1>2, <1>3 DEF PeriodsOf, PayKnown, PayHeld, HasRun, HasSeen, Reads
<1>5. UNCHANGED <<runs, slips, entries>> /\ salaries' \in Seq(SalaryRow)
  BY <1>3 DEF PayKept, PayTyped
<1> QED BY <1>2, <1>3, <1>4, <1>5, PayStill

LEMMA PayrollStep == PayKept /\ [PayrollNext]_<<payrollVars, requestVars>> => PayKept'
<1> SUFFICES ASSUME PayKept, [PayrollNext]_<<payrollVars, requestVars>> PROVE PayKept'
  OBVIOUS
<1>1. CASE UNCHANGED <<payrollVars, requestVars>>
  <2>1. UNCHANGED <<runs, slips, entries, salaries, call, touches, disjoint, faults>>
    BY <1>1 DEF payrollVars, requestVars
  <2>2. Apart'
    BY <1>1, ApartStays DEF PayKept, PayTyped
  <2>3. PayTyped'
    BY <2>1, <2>2 DEF PayKept, PayTyped, PeriodsOf, PayKnown
  <2>4. ASSUME disjoint' PROVE PayHolds'
    <3>1. PayHolds
      BY <2>1, <2>4 DEF PayKept
    <3>2. \A c \in Call : PayHeld(call[c])'
      BY <2>1, <3>1 DEF PayHolds, PayHeld
    <3>3. \A r \in DOMAIN runs' : RunKept(r)'
      BY <2>1, <3>1 DEF PayHolds, RunKept, Totalling, Pay
    <3> QED BY <2>1, <3>1, <3>2, <3>3 DEF PayHolds, OneRunAPeriod
  <2> QED BY <2>3, <2>4 DEF PayKept
<1>2. ASSUME NEW c \in Call, NEW r \in DOMAIN runs, NEW pc \in DOMAIN Needed, ReadRunRow(c, r, pc) PROVE PayKept'
  <2>1. pc \in Reads
    BY DEF Needed, Reads
  <2> QED BY <1>2, <2>1, ReadingStep
<1>3. ASSUME NEW c \in Call, GiveUpRun(c) PROVE PayKept'
  <2>1. UNCHANGED payrollVars /\ Answer(c) /\ call[c].pc \notin {"recording", "totalling"}
    BY <1>3 DEF GiveUpRun, At
  <2> QED BY <2>1, PayEnds
<1>4. ASSUME NEW c \in Call, PerishInPayroll(c) PROVE PayKept'
  BY <1>4, PayEnds DEF PerishInPayroll
<1> QED BY <1>1, <1>2, <1>3, <1>4, SalariesAssigned, DuplicateCheck, RunCreated, ProcessingStep, RetroStep, ArrearsStep, RecordStep,
     TotalsStep, SlipsStep, ApprovalStep, MapRunStep, MappingRead, PostingStep, MappingStep, PaidStep, CancelStep DEF PayrollNext

LEMMA PayrollStarts == PayrollInit => PayKept
<1> SUFFICES ASSUME PayrollInit PROVE PayKept
  OBVIOUS
<1>1. Apart /\ runs = <<>> /\ \A c \in Call : call[c] = Idle /\ touches[c] = {}
  BY ApartStarts DEF PayrollInit, RequestsInit
<1>2. PayTyped
  <2>1. call \in [Call -> PayCall]
    BY DEF PayrollInit, RequestsInit, PayCall
  <2>2. runs \in Seq(PayrollRow) /\ slips \in Seq(Payslip) /\ entries \in Seq(PayEntry) /\ salaries \in Seq(SalaryRow)
        /\ Len(slips) = Len(runs) /\ Len(entries) = Len(runs)
    BY DEF PayrollInit
  <2>3. \A c \in Call : touches[c] = PeriodsOf(call[c]) /\ PayKnown(call[c])
    <3>1. Idle.pc = "idle"
      BY DEF Idle
    <3>2. PeriodsOf(Idle) = {} /\ PayKnown(Idle)
      BY <3>1 DEF PeriodsOf, PayKnown, HasRun, HasSeen, Reads
    <3> QED BY <1>1, <3>2
  <2> QED BY <1>1, <2>1, <2>2, <2>3 DEF PayTyped
<1>3. \A c \in Call : PayHeld(call[c])
  BY <1>1 DEF PayHeld, Idle, HasSeen, Reads
<1> QED BY <1>1, <1>2, <1>3 DEF PayKept, PayHolds, OneRunAPeriod

\* In every state, and for any salaries: a period that no two requests worked on at
\* once has one run of each type at most, accrued once and paid once, and undisturbed nothing stays
\* on salaries payable (PayrollRunService, RetroPayrollService).
THEOREM PayrollIsSettled == PayrollSpec => []PayrollSettles
<1>1. PayrollInit => PayKept
  BY PayrollStarts
<1>2. PayKept /\ [PayrollNext]_<<payrollVars, requestVars>> => PayKept'
  BY PayrollStep
<1>3. PayKept => PayrollSettles
  <2> SUFFICES ASSUME PayKept PROVE PayrollSettles
    OBVIOUS
  <2>1. PeriodPaidOnce
    <3> SUFFICES ASSUME disjoint
                 PROVE  /\ \A r, s \in DOMAIN runs : runs[r].period = runs[s].period => r = s
                        /\ \A r \in DOMAIN runs :
                             /\ runs[r].status \in {"APPROVED", "PAID"} => entries[r].accrued = slips[r].pay + slips[r].arrears
                             /\ entries[r].paid = IF runs[r].status = "PAID" THEN runs[r].net ELSE 0
      BY DEF PeriodPaidOnce
    <3>1. PayTyped /\ PayHolds
      BY DEF PayKept
    <3>2. ASSUME NEW r \in DOMAIN runs
          PROVE  /\ runs[r].status \in {"APPROVED", "PAID"} => entries[r].accrued = slips[r].pay + slips[r].arrears
                 /\ entries[r].paid = IF runs[r].status = "PAID" THEN runs[r].net ELSE 0
      <4>1. RunKept(r) /\ runs[r].status \in PayrollStatus
        BY <3>1, PayTerms DEF PayHolds, PayrollRow
      <4> QED BY <4>1 DEF RunKept, PayrollStatus, Pay
    <3>3. \A r, s \in DOMAIN runs : runs[r].period = runs[s].period => r = s
      BY <3>1 DEF PayHolds, OneRunAPeriod
    <3> QED BY <3>2, <3>3
  <2>2. PayableClears
    <3> SUFFICES ASSUME Undisturbed, NEW r \in DOMAIN runs
                 PROVE  entries[r].accrued - entries[r].paid = IF runs[r].status = "APPROVED" THEN runs[r].net ELSE 0
      BY DEF PayableClears
    <3>1. PayTyped /\ PayHolds /\ RunKept(r) /\ faults = 0 /\ disjoint
      BY DEF PayKept, Undisturbed, PayHolds
    <3>2. /\ entries[r].accrued \in Int /\ entries[r].paid \in Int /\ runs[r].net \in Int /\ Pay(r) \in Int
          /\ runs[r].status \in PayrollStatus
      BY <3>1, PayTerms DEF PayEntry, PayrollRow
    <3>3. CASE runs[r].status \in {"APPROVED", "PAID"}
      <4>1. ~ Totalling(r)
        <5> SUFFICES ASSUME NEW c \in Call, call[c].pc \in {"recording", "totalling"}, call[c].r = r PROVE FALSE
          BY DEF Totalling
        <5>1. runs[r].status = "PROCESSED"
          BY <3>1 DEF PayHolds, PayHeld
        <5> QED BY <3>3, <5>1
      <4> QED BY <3>1, <3>2, <3>3, <4>1 DEF RunKept
    <3>4. CASE runs[r].status \in {"DRAFT", "PROCESSED", "CANCELLED"}
      BY <3>1, <3>2, <3>4 DEF RunKept
    <3> QED BY <3>2, <3>3, <3>4 DEF PayrollStatus
  <2> QED BY <2>1, <2>2 DEF PayrollSettles
<1> QED BY <1>1, <1>2, <1>3, PTL DEF PayrollSpec

-----------------------------------------------------------------------------
(* The billing cycle.                                                        *)

ContractRow == [status : {"absent", "TRIAL", "ACTIVE"}, cycle : Nat \ {0}, start : Nat]
InvoicedPeriod == [contract : Contract, from : Int, to : Nat, by : {"sweep", "user"}, itemized : BOOLEAN]
Sweep == {s \in [pc : {"sweeping"}, m : Nat, todo : SUBSET Contract, all : SUBSET Contract] : s.todo \subseteq s.all}
BillCall ==
  {Idle} \union Sweep
  \union [pc : {"invoicing"}, contract : Contract, from : Int, to : Nat, by : {"sweep", "user"}, back : {Idle} \union Sweep]
  \union [pc : {"itemizing"}, b : Nat, back : {Idle} \union Sweep]

BillTyped ==
  /\ contract \in [Contract -> ContractRow] /\ bills \in Seq(InvoicedPeriod) /\ swept \subseteq Contract \X Nat
  /\ call \in [Call -> BillCall]
  /\ \A c \in Call : touches[c] = IF call[c] = Idle THEN {} ELSE {Bills}
  /\ Apart

\* Contract k exists; a sweep of month m has nothing more to do for it.
Signed(k) == contract[k].status # "absent"
Served(k, m) == Due(contract[k].cycle, m) /\ contract[k].start <= m => Billed(k, PeriodEnding(contract[k].cycle, m))

BillCallKept(t) ==
  /\ t.pc = "sweeping" => \A j \in t.all : Signed(j) /\ (faults = 0 /\ j \notin t.todo => Served(j, t.m))
  /\ t.pc = "invoicing" =>
       /\ t.by = "sweep" <=> t.back # Idle
       /\ t.back # Idle =>
            /\ Signed(t.contract) /\ t.to = t.back.m /\ Due(contract[t.contract].cycle, t.to)
            /\ t.from = t.to - contract[t.contract].cycle + 1
            /\ \A j \in t.back.all : Signed(j) /\ (faults = 0 /\ j \notin t.back.todo /\ j # t.contract => Served(j, t.back.m))
  /\ t.pc = "itemizing" =>
       /\ t.b \in DOMAIN bills
       /\ t.back # Idle => \A j \in t.back.all : Signed(j) /\ (faults = 0 /\ j \notin t.back.todo => Served(j, t.back.m))

\* The period to invoice has no invoice.
Unbilled(t) == t.pc = "invoicing" /\ t.back # Idle => ~ Billed(t.contract, [from |-> t.from, to |-> t.to])

Swept(i) == bills[i].by = "sweep"
BillsKept ==
  /\ \A i \in DOMAIN bills : Swept(i) =>
       /\ Signed(bills[i].contract) /\ Due(contract[bills[i].contract].cycle, bills[i].to)
       /\ bills[i].from = bills[i].to - contract[bills[i].contract].cycle + 1
  /\ disjoint => \A i, j \in DOMAIN bills :
       Swept(i) /\ Swept(j) /\ bills[i].contract = bills[j].contract /\ bills[i].to = bills[j].to => i = j
  /\ faults = 0 => \A i \in DOMAIN bills : bills[i].itemized \/ \E c \in Call : call[c].pc = "itemizing" /\ call[c].b = i
  /\ \A s \in swept : Signed(s[1]) /\ (faults = 0 => Served(s[1], s[2]))

BillKept ==
  /\ BillTyped /\ BillsKept
  /\ \A c \in Call : BillCallKept(call[c]) /\ (disjoint => Unbilled(call[c]))

-----------------------------------------------------------------------------
LEMMA BillCallForms ==
  ASSUME NEW t \in BillCall
  PROVE  /\ t.pc \in {"idle", "sweeping", "invoicing", "itemizing"} /\ (t = Idle <=> t.pc = "idle")
         /\ t.pc = "sweeping" => t \in Sweep
         /\ t.pc = "invoicing" =>
              t \in [pc : {"invoicing"}, contract : Contract, from : Int, to : Nat, by : {"sweep", "user"}, back : {Idle} \union Sweep]
         /\ t.pc = "itemizing" => t \in [pc : {"itemizing"}, b : Nat, back : {Idle} \union Sweep]
BY DEF BillCall, Idle, Sweep

LEMMA SweepsAreCalls ==
  ASSUME NEW t \in Sweep
  PROVE  t \in BillCall /\ t # Idle /\ t.pc = "sweeping" /\ t.m \in Nat /\ t.todo \subseteq t.all /\ t.all \subseteq Contract
BY DEF BillCall, Idle, Sweep

\* Periods of one cycle are the same or do not overlap.
LEMMA CyclesApart ==
  ASSUME NEW n \in Nat \ {0}, NEW a \in Nat, NEW b \in Nat, Due(n, a), Due(n, b), a < b
  PROVE  a < b - n + 1
<1>1. a % n = 0 /\ b % n = 0
  BY DEF Due
<1>2. PICK p \in Int : a = n * p
  BY <1>1
<1>3. PICK q \in Int : b = n * q
  BY <1>1
<1>4. p < q
  <2>1. SUFFICES ASSUME q <= p PROVE FALSE
    OBVIOUS
  <2>2. n * q <= n * p
    BY <2>1
  <2> QED BY <1>2, <1>3, <2>2
<1>5. n * (p + 1) <= n * q
  BY <1>4
<1>6. n * (p + 1) = n * p + n
  OBVIOUS
<1> QED BY <1>2, <1>3, <1>5, <1>6

\* What no step takes back.
Grown ==
  /\ \A k \in Contract : Signed(k) => Signed(k)' /\ contract'[k].cycle = contract[k].cycle /\ contract'[k].start = contract[k].start
  /\ \A i \in DOMAIN bills : /\ i \in DOMAIN bills' /\ bills'[i].contract = bills[i].contract
                             /\ bills'[i].from = bills[i].from /\ bills'[i].to = bills[i].to

LEMMA ServedStays ==
  ASSUME Grown, NEW k \in Contract, Signed(k), NEW m, Served(k, m)
  PROVE  Served(k, m)'
<1>1. contract'[k].cycle = contract[k].cycle /\ contract'[k].start = contract[k].start
  BY DEF Grown
<1>2. ASSUME NEW p, Billed(k, p) PROVE Billed(k, p)'
  BY <1>2 DEF Billed, Grown
<1>3. CASE Due(contract[k].cycle, m) /\ contract[k].start <= m
  <2>1. PICK p : p = PeriodEnding(contract[k].cycle, m)
    OBVIOUS
  <2>2. Billed(k, p)'
    BY <1>2, <1>3, <2>1 DEF Served
  <2>3. PeriodEnding(contract[k].cycle, m)' = p
    BY <1>1, <2>1 DEF PeriodEnding
  <2> QED BY <2>2, <2>3 DEF Served
<1>4. CASE ~ (Due(contract[k].cycle, m) /\ contract[k].start <= m)
  BY <1>1, <1>4 DEF Served, Due
<1> QED BY <1>3, <1>4

\* The other requests are where they were.
LEMMA CallStaysKept ==
  ASSUME Grown, NEW t \in BillCall, BillCallKept(t), faults' = 0 => faults = 0
  PROVE  BillCallKept(t)'
<1>1. CASE t.pc = "sweeping"
  <2>1. t.all \subseteq Contract
    BY <1>1, BillCallForms, SweepsAreCalls
  <2> QED BY <1>1, <2>1, ServedStays DEF BillCallKept, Grown
<1>2. CASE t.pc = "invoicing"
  <2>1. t.contract \in Contract /\ t.back \in {Idle} \union Sweep
    BY <1>2, BillCallForms
  <2>2. t.back # Idle => t.back.all \subseteq Contract
    BY <2>1, SweepsAreCalls
  <2>3. t.back # Idle => Signed(t.contract)' /\ contract'[t.contract].cycle = contract[t.contract].cycle
    BY <1>2, <2>1 DEF BillCallKept, Grown
  <2>4. t.back # Idle => \A j \in t.back.all :
          Signed(j)' /\ (faults' = 0 /\ j \notin t.back.todo /\ j # t.contract => Served(j, t.back.m)')
    BY <1>2, <2>2, ServedStays DEF BillCallKept, Grown
  <2> QED BY <1>2, <2>3, <2>4 DEF BillCallKept, Due
<1>3. CASE t.pc = "itemizing"
  <2>1. t.back \in {Idle} \union Sweep
    BY <1>3, BillCallForms
  <2>2. t.back # Idle => t.back.all \subseteq Contract
    BY <2>1, SweepsAreCalls
  <2>3. t.back # Idle => \A j \in t.back.all : Signed(j)' /\ (faults' = 0 /\ j \notin t.back.todo => Served(j, t.back.m)')
    BY <1>3, <2>2, ServedStays DEF BillCallKept, Grown
  <2>4. t.b \in DOMAIN bills'
    BY <1>3 DEF BillCallKept, Grown
  <2> QED BY <1>3, <2>3, <2>4 DEF BillCallKept
<1>4. CASE t.pc = "idle"
  BY <1>4 DEF BillCallKept
<1> QED BY <1>1, <1>2, <1>3, <1>4, BillCallForms

\* Request c makes a step and has kept its part.
LEMMA BillFrame ==
  ASSUME BillKept, NEW c \in Call, Grown, Apart', Moved(c), call'[c] \in BillCall, touches'[c] = IF call'[c] = Idle THEN {} ELSE {Bills},
         contract' \in [Contract -> ContractRow], bills' \in Seq(InvoicedPeriod), swept' \subseteq Contract \X Nat, BillsKept',
         call[c] # Idle \/ call'[c] # Idle, BillCallKept(call[c])', disjoint' => Unbilled(call[c])'
  PROVE  BillKept'
<1>1. BillTyped'
  BY DEF BillKept, BillTyped, Moved
<1>2. ASSUME NEW d \in Call \ {c} PROVE BillCallKept(call[d])' /\ (disjoint' => Unbilled(call[d])')
  <2>1. call'[d] = call[d] /\ touches'[d] = touches[d] /\ (faults' = 0 => faults = 0) /\ call[d] \in BillCall
    BY DEF Moved, BillKept, BillTyped
  <2>2. PICK t : t = call[d]
    OBVIOUS
  <2>3. BillCallKept(t)'
    BY <2>1, <2>2, CallStaysKept DEF BillKept
  <2>4. BillCallKept(call[d])'
    BY <2>1, <2>2, <2>3 DEF BillCallKept
  <2>5. disjoint' => call'[d] = Idle
    <3>1. disjoint' => touches[d] \intersect (touches[c] \union touches'[c]) = {}
      BY DEF Moved, BillKept, BillTyped, Apart
    <3>2. touches[c] \union touches'[c] = {Bills}
      BY DEF BillKept, BillTyped
    <3>3. touches[d] = IF call[d] = Idle THEN {} ELSE {Bills}
      BY DEF BillKept, BillTyped
    <3> QED BY <2>1, <3>1, <3>2, <3>3
  <2>6. disjoint' => Unbilled(call[d])'
    BY <2>5 DEF Unbilled, Idle
  <2> QED BY <2>4, <2>6
<1> QED BY <1>1, <1>2 DEF BillKept

\* The invoices stay, and what is known of them.
LEMMA BillsStayKept ==
  ASSUME BillKept, Grown, bills' = bills, swept' = swept, faults' = 0 => faults = 0, disjoint' => disjoint,
         \A d \in Call : call[d].pc = "itemizing" => call'[d] = call[d] \/ faults' # 0
  PROVE  BillsKept'
<1>1. /\ \A i \in DOMAIN bills : bills[i].contract \in Contract
      /\ \A s \in swept : s[1] \in Contract
  <2>1. \A i \in DOMAIN bills : bills[i] \in InvoicedPeriod
    BY DEF BillKept, BillTyped
  <2>2. swept \subseteq Contract \X Nat
    BY DEF BillKept, BillTyped
  <2> QED BY <2>1, <2>2 DEF InvoicedPeriod
<1>2. \A i \in DOMAIN bills' : Swept(i)' =>
        /\ Signed(bills[i].contract)' /\ Due(contract'[bills[i].contract].cycle, bills[i].to)
        /\ bills[i].from = bills[i].to - contract'[bills[i].contract].cycle + 1
  BY <1>1 DEF BillKept, BillsKept, Swept, Grown
<1>3. disjoint' => \A i, j \in DOMAIN bills' :
        Swept(i)' /\ Swept(j)' /\ bills[i].contract = bills[j].contract /\ bills[i].to = bills[j].to => i = j
  BY DEF BillKept, BillsKept, Swept
<1>4. faults' = 0 => \A i \in DOMAIN bills' : bills'[i].itemized \/ \E d \in Call : call'[d].pc = "itemizing" /\ call'[d].b = i
  BY DEF BillKept, BillsKept
<1>5. \A s \in swept' : Signed(s[1])' /\ (faults' = 0 => Served(s[1], s[2])')
  BY <1>1, ServedStays DEF BillKept, BillsKept, Grown
<1> QED BY <1>2, <1>3, <1>4, <1>5 DEF BillsKept, Due

\* A request goes on or ends, and only it changes.
LEMMA BillStill ==
  ASSUME BillKept, NEW c \in Call, UNCHANGED billingVars, NEW next \in BillCall, BillCallKept(next), disjoint' => Unbilled(next),
         call[c].pc # "itemizing",
         \/ next # Idle /\ Arrive(c, {Bills}, next)
         \/ next # Idle /\ call[c] # Idle /\ Await(c, next)
  PROVE  BillKept'
<1>1. contract' = contract /\ bills' = bills /\ swept' = swept /\ Apart
  BY DEF billingVars, BillKept, BillTyped
<1>2. Grown
  BY <1>1 DEF Grown, Signed
<1>3. next.pc # "idle"
  BY BillCallForms
<1>4. Apart' /\ Moved(c) /\ call'[c] = next /\ touches'[c] = {Bills}
  <2>1. CASE Arrive(c, {Bills}, next)
    BY <1>1, <1>3, <2>1, Arriving
  <2>2. CASE call[c] # Idle /\ Await(c, next)
    <3>1. touches[c] = {Bills}
      BY <2>2 DEF BillKept, BillTyped
    <3> QED BY <1>1, <1>3, <2>2, <3>1, Awaiting
  <2> QED BY <2>1, <2>2
<1>5. BillCallKept(next)'
  BY <1>2, <1>4, CallStaysKept DEF Moved
<1>6. BillCallKept(call[c])'
  BY <1>4, <1>5 DEF BillCallKept
<1>7. disjoint' => Unbilled(call[c])'
  BY <1>1, <1>4 DEF Unbilled, Billed
<1>8. \A d \in Call : call[d].pc = "itemizing" => call'[d] = call[d] \/ faults' # 0
  BY <1>4 DEF Moved
<1>9. BillsKept'
  BY <1>1, <1>2, <1>4, <1>8, BillsStayKept DEF Moved
<1>10. contract' \in [Contract -> ContractRow] /\ bills' \in Seq(InvoicedPeriod) /\ swept' \subseteq Contract \X Nat
  BY <1>1 DEF BillKept, BillTyped
<1> QED BY <1>2, <1>3, <1>4, <1>6, <1>7, <1>9, <1>10, BillFrame

LEMMA BillingBegun ==
  ASSUME BillKept, NEW c \in Call, NEW m \in BilledMonths, BeginBilling(c, m)
  PROVE  BillKept'
<1>1. PICK next : next = [pc |-> "sweeping", m |-> m, todo |-> {k \in Contract : contract[k].status = "ACTIVE"},
                          all |-> {k \in Contract : contract[k].status = "ACTIVE"}]
  OBVIOUS
<1>2. next \in Sweep
  BY <1>1, BillingAssumption DEF Sweep
<1>3. next \in BillCall /\ next # Idle /\ next.pc = "sweeping"
  BY <1>2, SweepsAreCalls
<1>4. BillCallKept(next) /\ Unbilled(next)
  BY <1>1, <1>3 DEF BillCallKept, Signed, Unbilled
<1>5. Arrive(c, {Bills}, next) /\ UNCHANGED billingVars /\ call[c].pc # "itemizing"
  BY <1>1 DEF BeginBilling, Arrive, Idle
<1> QED BY <1>3, <1>4, <1>5, BillStill

LEMMA PeriodsTyped ==
  ASSUME NEW n \in Nat \ {0}, NEW m \in Nat
  PROVE  PeriodEnding(n, m).from = m - n + 1 /\ PeriodEnding(n, m).to = m /\ m - n + 1 \in Int
BY DEF PeriodEnding

LEMMA InvoiceBegun ==
  ASSUME BillKept, NEW c \in Call, NEW k \in Contract, NEW n \in Cycles, NEW m \in BilledMonths, BeginInvoice(c, k, n, m)
  PROVE  BillKept'
<1>1. n \in Nat \ {0} /\ m \in Nat
  BY BillingAssumption
<1>2. PICK next : next = [pc |-> "invoicing", contract |-> k, from |-> PeriodEnding(n, m).from, to |-> PeriodEnding(n, m).to,
                          by |-> "user", back |-> Idle]
  OBVIOUS
<1>3. next \in [pc : {"invoicing"}, contract : Contract, from : Int, to : Nat, by : {"sweep", "user"}, back : {Idle} \union Sweep]
  BY <1>1, <1>2, PeriodsTyped
<1>4. next \in BillCall /\ next # Idle /\ next.pc = "invoicing" /\ next.by = "user" /\ next.back = Idle
  BY <1>2, <1>3, BillCallForms DEF BillCall, Idle
<1>5. BillCallKept(next) /\ Unbilled(next)
  BY <1>4 DEF BillCallKept, Unbilled
<1>6. Arrive(c, {Bills}, next) /\ UNCHANGED billingVars /\ call[c].pc # "itemizing"
  BY <1>2 DEF BeginInvoice, Arrive, Idle
<1> QED BY <1>4, <1>5, <1>6, BillStill

LEMMA ContractChecked ==
  ASSUME BillKept, NEW c \in Call, NEW k \in Contract, CheckContract(c, k)
  PROVE  BillKept'
<1>1. PICK t : t = call[c]
  OBVIOUS
<1>2. t \in Sweep /\ t # Idle /\ t.pc = "sweeping" /\ k \in t.todo /\ t.m \in Nat /\ BillCallKept(t)
      /\ t.todo \subseteq t.all /\ t.all \subseteq Contract
  BY <1>1, BillCallForms, SweepsAreCalls DEF CheckContract, At, BillKept, BillTyped
<1>3. contract[k].cycle \in Nat \ {0}
  <2>1. contract[k] \in ContractRow
    BY DEF BillKept, BillTyped
  <2> QED BY <2>1 DEF ContractRow
<1>4. PICK p : p = PeriodEnding(contract[k].cycle, t.m)
  OBVIOUS
<1>5. p.from = t.m - contract[k].cycle + 1 /\ p.to = t.m /\ p.from \in Int
  BY <1>2, <1>3, <1>4, PeriodsTyped
<1>6. PICK rest : rest = [t EXCEPT !.todo = @ \ {k}]
  OBVIOUS
<1>7. rest \in Sweep /\ rest.todo = t.todo \ {k} /\ rest.all = t.all /\ rest.m = t.m
  BY <1>2, <1>6 DEF Sweep
<1>8. PICK invoice : invoice = [pc |-> "invoicing", contract |-> k, from |-> p.from, to |-> p.to, by |-> "sweep", back |-> rest]
  OBVIOUS
<1>9. /\ invoice \in [pc : {"invoicing"}, contract : Contract, from : Int, to : Nat, by : {"sweep", "user"}, back : {Idle} \union Sweep]
      /\ invoice.pc = "invoicing" /\ invoice.contract = k /\ invoice.from = p.from /\ invoice.to = t.m /\ invoice.by = "sweep"
      /\ invoice.back = rest
  BY <1>2, <1>5, <1>7, <1>8
<1>10. rest \in BillCall /\ rest # Idle /\ rest.pc = "sweeping" /\ invoice \in BillCall /\ invoice # Idle
  BY <1>7, <1>9, SweepsAreCalls, BillCallForms DEF BillCall, Idle
<1>11. UNCHANGED billingVars /\ call[c] # Idle /\ call[c].pc # "itemizing"
  BY <1>1, <1>2 DEF CheckContract
<1>12. CASE Due(contract[k].cycle, t.m) /\ contract[k].start <= t.m /\ ~ Billed(k, p)
  <2>1. Await(c, invoice)
    BY <1>1, <1>4, <1>6, <1>8, <1>12 DEF CheckContract
  <2>2. BillCallKept(invoice)
    <3>1. \A j \in rest.all : Signed(j) /\ (faults = 0 /\ j \notin rest.todo /\ j # k => Served(j, rest.m))
      BY <1>2, <1>7 DEF BillCallKept
    <3>2. Signed(k)
      BY <1>2 DEF BillCallKept
    <3> QED BY <1>5, <1>7, <1>9, <1>10, <1>12, <3>1, <3>2 DEF BillCallKept
  <2>3. Unbilled(invoice)
    BY <1>5, <1>9, <1>12 DEF Unbilled, Billed
  <2> QED BY <1>10, <1>11, <2>1, <2>2, <2>3, BillStill
<1>13. CASE ~ (Due(contract[k].cycle, t.m) /\ contract[k].start <= t.m /\ ~ Billed(k, p))
  <2>1. Await(c, rest)
    BY <1>1, <1>4, <1>6, <1>13 DEF CheckContract
  <2>2. Served(k, t.m)
    BY <1>4, <1>13 DEF Served
  <2>3. BillCallKept(rest) /\ Unbilled(rest)
    BY <1>2, <1>7, <1>10, <2>2 DEF BillCallKept, Unbilled
  <2> QED BY <1>10, <1>11, <2>1, <2>3, BillStill
<1> QED BY <1>12, <1>13

\* A request goes on or ends.
LEMMA BillMoves ==
  ASSUME BillKept, NEW c \in Call, call[c] # Idle, NEW next \in BillCall,
         \/ next # Idle /\ Await(c, next)
         \/ next = Idle /\ (Answer(c) \/ Perish(c))
  PROVE  Apart' /\ Moved(c) /\ call'[c] = next /\ touches'[c] = IF next = Idle THEN {} ELSE {Bills}
<1>1. Apart /\ touches[c] = {Bills} /\ (next = Idle <=> next.pc = "idle")
  BY BillCallForms DEF BillKept, BillTyped
<1>2. CASE next # Idle /\ Await(c, next)
  BY <1>1, <1>2, Awaiting
<1>3. CASE next = Idle /\ Answer(c)
  BY <1>1, <1>3, Answering
<1>4. CASE next = Idle /\ Perish(c)
  BY <1>1, <1>4, Perishing
<1> QED BY <1>2, <1>3, <1>4

LEMMA BillingEnded ==
  ASSUME BillKept, NEW c \in Call, EndBilling(c)
  PROVE  BillKept'
<1>1. PICK t : t = call[c]
  OBVIOUS
<1>2. t \in Sweep /\ t # Idle /\ BillCallKept(t) /\ t.pc = "sweeping" /\ t.todo = {} /\ t.m \in Nat /\ t.all \subseteq Contract
  BY <1>1, BillCallForms, SweepsAreCalls DEF EndBilling, At, BillKept, BillTyped
<1>3. Idle \in BillCall /\ Idle.pc = "idle"
  BY DEF BillCall, Idle
<1>4. Apart' /\ Moved(c) /\ call'[c] = Idle /\ touches'[c] = {} /\ contract' = contract /\ bills' = bills /\ faults' = faults
  BY <1>1, <1>2, <1>3, BillMoves DEF EndBilling, Answer
<1>5. Grown
  BY <1>4 DEF Grown, Signed
<1>6. contract' \in [Contract -> ContractRow] /\ bills' \in Seq(InvoicedPeriod) /\ swept' \subseteq Contract \X Nat
  BY <1>1, <1>2, <1>4 DEF EndBilling, BillKept, BillTyped
<1>7. BillsKept'
  <2>1. PICK S : S = swept
    OBVIOUS
  <2>2. \A s \in swept' : Signed(s[1])' /\ (faults' = 0 => Served(s[1], s[2])')
    <3> SUFFICES ASSUME NEW s \in swept' PROVE Signed(s[1])' /\ (faults' = 0 => Served(s[1], s[2])')
      OBVIOUS
    <3>1. s[1] \in Contract
      BY <1>6
    <3>2. CASE s \in swept
      BY <1>4, <1>5, <3>1, <3>2, ServedStays DEF BillKept, BillsKept, Grown
    <3>3. CASE s \in {<<k, t.m>> : k \in t.all}
      BY <1>2, <1>4, <1>5, <3>1, <3>3, ServedStays DEF BillCallKept, Grown
    <3> QED BY <1>1, <3>2, <3>3 DEF EndBilling
  <2>3. \A i \in DOMAIN bills : bills[i] \in InvoicedPeriod
    BY DEF BillKept, BillTyped
  <2>4. \A i \in DOMAIN bills' : Swept(i)' =>
          /\ Signed(bills[i].contract)' /\ Due(contract'[bills[i].contract].cycle, bills[i].to)
          /\ bills[i].from = bills[i].to - contract'[bills[i].contract].cycle + 1
    BY <1>4, <2>3 DEF BillKept, BillsKept, Swept, Signed
  <2>5. faults' = 0 => \A i \in DOMAIN bills' : bills'[i].itemized \/ \E d \in Call : call'[d].pc = "itemizing" /\ call'[d].b = i
    <3> SUFFICES ASSUME faults' = 0, NEW i \in DOMAIN bills, ~ bills[i].itemized
                 PROVE  \E d \in Call : call'[d].pc = "itemizing" /\ call'[d].b = i
      BY <1>4
    <3>1. PICK d \in Call : call[d].pc = "itemizing" /\ call[d].b = i
      BY <1>4 DEF BillKept, BillsKept
    <3>2. d # c
      BY <1>1, <1>2, <3>1
    <3> QED BY <1>4, <3>1, <3>2 DEF Moved
  <2> QED BY <1>4, <2>2, <2>4, <2>5 DEF BillKept, BillsKept, Moved, Swept, Due
<1>8. BillCallKept(call[c])' /\ Unbilled(call[c])'
  BY <1>3, <1>4 DEF BillCallKept, Unbilled
<1> QED BY <1>1, <1>2, <1>3, <1>4, <1>5, <1>6, <1>7, <1>8, BillFrame

LEMMA BillSaved ==
  ASSUME BillKept, NEW c \in Call, SaveBill(c)
  PROVE  BillKept'
<1>1. PICK t : t = call[c]
  OBVIOUS
<1>2. /\ t \in [pc : {"invoicing"}, contract : Contract, from : Int, to : Nat, by : {"sweep", "user"}, back : {Idle} \union Sweep]
      /\ t # Idle /\ t.pc = "invoicing" /\ BillCallKept(t) /\ (disjoint => Unbilled(t))
  BY <1>1, BillCallForms DEF SaveBill, At, BillKept, BillTyped
<1>3. PICK b : b = [contract |-> t.contract, from |-> t.from, to |-> t.to, by |-> t.by, itemized |-> FALSE]
  OBVIOUS
<1>4. b \in InvoicedPeriod /\ b.contract = t.contract /\ b.from = t.from /\ b.to = t.to /\ b.by = t.by
  BY <1>2, <1>3 DEF InvoicedPeriod
<1>5. PICK last : last = Len(bills) + 1
  OBVIOUS
<1>6. /\ bills \in Seq(InvoicedPeriod) /\ Len(bills) \in Nat /\ DOMAIN bills = 1 .. Len(bills) /\ contract \in [Contract -> ContractRow]
      /\ swept \subseteq Contract \X Nat /\ \A i \in DOMAIN bills : bills[i] \in InvoicedPeriod
  BY DEF BillKept, BillTyped
<1>7. bills' = Append(bills, b) /\ contract' = contract /\ swept' = swept
  BY <1>1, <1>3 DEF SaveBill
<1>8. /\ bills' \in Seq(InvoicedPeriod) /\ DOMAIN bills' = 1 .. last /\ Len(bills') = last /\ last \in DOMAIN bills' /\ bills'[last] = b
      /\ \A i \in DOMAIN bills : i # last /\ bills'[i] = bills[i]
      /\ \A i \in DOMAIN bills' : i = last \/ i \in DOMAIN bills
  BY <1>4, <1>5, <1>6, <1>7
<1>9. Grown
  BY <1>5, <1>6, <1>7, <1>8 DEF Grown, Signed
<1>10. PICK next : next = [pc |-> "itemizing", b |-> last, back |-> t.back]
  OBVIOUS
<1>11. /\ next \in [pc : {"itemizing"}, b : Nat, back : {Idle} \union Sweep] /\ next.pc = "itemizing" /\ next.b = last
       /\ next.back = t.back /\ next # Idle
  BY <1>2, <1>8, <1>10 DEF Idle
<1>12. next \in BillCall /\ Await(c, next)
  BY <1>1, <1>8, <1>10, <1>11 DEF BillCall, SaveBill
<1>13. Apart' /\ Moved(c) /\ call'[c] = next /\ touches'[c] = {Bills} /\ faults' = faults /\ disjoint' = disjoint
  BY <1>1, <1>2, <1>11, <1>12, BillMoves DEF Await
<1>14. BillCallKept(call[c])' /\ Unbilled(call[c])'
  <2>1. t.back # Idle => /\ t.back \in Sweep /\ t.to = t.back.m /\ t.from = PeriodEnding(contract[t.contract].cycle, t.to).from
                         /\ t.to = PeriodEnding(contract[t.contract].cycle, t.to).to
                         /\ \A j \in t.back.all : Signed(j) /\ (faults = 0 /\ j \notin t.back.todo /\ j # t.contract => Served(j, t.back.m))
    BY <1>2 DEF BillCallKept, PeriodEnding
  <2>2. t.back # Idle => \A j \in t.back.all :
          Signed(j)' /\ (faults' = 0 /\ j \notin t.back.todo /\ j # t.contract => Served(j, t.back.m)')
    BY <1>9, <1>13, <2>1, ServedStays, SweepsAreCalls DEF Grown
  <2>3. t.back # Idle => Served(t.contract, t.back.m)'
    <3> SUFFICES ASSUME t.back # Idle PROVE Served(t.contract, t.back.m)'
      OBVIOUS
    <3>1. PICK p : p = PeriodEnding(contract[t.contract].cycle, t.to)
      OBVIOUS
    <3>2. Billed(t.contract, p)'
      <4>1. p.from = t.from /\ p.to = t.to
        BY <2>1, <3>1
      <4> QED BY <1>4, <1>8, <4>1 DEF Billed
    <3>3. PeriodEnding(contract[t.contract].cycle, t.back.m)' = p
      BY <1>7, <2>1, <3>1
    <3> QED BY <3>2, <3>3 DEF Served
  <2> QED BY <1>8, <1>11, <1>13, <2>2, <2>3 DEF BillCallKept, Unbilled
<1>15. BillsKept'
  <2>1. ASSUME NEW i \in DOMAIN bills', Swept(i)'
        PROVE  (/\ Signed(bills[i].contract) /\ Due(contract[bills[i].contract].cycle, bills[i].to)
                /\ bills[i].from = bills[i].to - contract[bills[i].contract].cycle + 1)'
    <3>1. PICK x : x = bills'[i]
      OBVIOUS
    <3>2. Signed(x.contract) /\ Due(contract[x.contract].cycle, x.to) /\ x.from = x.to - contract[x.contract].cycle + 1
      <4>1. CASE i = last
        <5>1. x = b /\ t.back # Idle
          BY <1>2, <1>4, <1>8, <2>1, <3>1, <4>1 DEF BillCallKept, Swept
        <5>2. Signed(t.contract) /\ Due(contract[t.contract].cycle, t.to) /\ t.from = t.to - contract[t.contract].cycle + 1
          BY <1>2, <5>1 DEF BillCallKept
        <5> QED BY <1>4, <5>1, <5>2
      <4>2. CASE i \in DOMAIN bills
        <5>1. x = bills[i] /\ Swept(i)
          BY <1>8, <2>1, <3>1, <4>2 DEF Swept
        <5> QED BY <4>2, <5>1 DEF BillKept, BillsKept
      <4> QED BY <1>8, <4>1, <4>2
    <3> QED BY <1>7, <3>1, <3>2 DEF Signed
  <2>2. ASSUME disjoint', NEW i \in DOMAIN bills', NEW j \in DOMAIN bills', Swept(i)', Swept(j)',
               bills'[i].contract = bills'[j].contract, bills'[i].to = bills'[j].to
        PROVE  i = j
    <3>1. ASSUME NEW k \in DOMAIN bills, Swept(k), t.by = "sweep", bills[k].contract = t.contract, bills[k].to = t.to PROVE FALSE
      <4>1. t.back # Idle /\ t.from = bills[k].from
        BY <1>2, <3>1 DEF BillCallKept, BillKept, BillsKept
      <4>2. Billed(t.contract, [from |-> t.from, to |-> t.to])
        BY <3>1, <4>1 DEF Billed
      <4> QED BY <1>2, <1>13, <2>2, <4>1, <4>2 DEF Unbilled
    <3>2. CASE i \in DOMAIN bills /\ j \in DOMAIN bills
      BY <1>8, <1>13, <2>2, <3>2 DEF BillKept, BillsKept, Swept
    <3>3. CASE i = last /\ j \in DOMAIN bills
      BY <1>4, <1>8, <2>2, <3>1, <3>3 DEF Swept
    <3>4. CASE i \in DOMAIN bills /\ j = last
      BY <1>4, <1>8, <2>2, <3>1, <3>4 DEF Swept
    <3> QED BY <1>8, <3>2, <3>3, <3>4
  <2>3. ASSUME faults' = 0, NEW i \in DOMAIN bills', ~ bills'[i].itemized
        PROVE  \E d \in Call : call'[d].pc = "itemizing" /\ call'[d].b = i
    <3>1. CASE i = last
      BY <1>11, <1>13, <3>1
    <3>2. CASE i \in DOMAIN bills
      <4>1. PICK d \in Call : call[d].pc = "itemizing" /\ call[d].b = i
        BY <1>8, <1>13, <2>3, <3>2 DEF BillKept, BillsKept
      <4>2. d # c
        BY <1>1, <1>2, <4>1
      <4> QED BY <1>13, <4>1, <4>2 DEF Moved
    <3> QED BY <1>8, <3>1, <3>2
  <2>4. \A s \in swept' : Signed(s[1])' /\ (faults' = 0 => Served(s[1], s[2])')
    BY <1>6, <1>7, <1>9, <1>13, ServedStays DEF BillKept, BillsKept, Grown
  <2> QED BY <1>7, <2>1, <2>2, <2>3, <2>4 DEF BillsKept
<1> QED BY <1>1, <1>2, <1>6, <1>7, <1>8, <1>9, <1>11, <1>12, <1>13, <1>14, <1>15, BillFrame

LEMMA BillItemized ==
  ASSUME BillKept, NEW c \in Call, SaveBillLines(c)
  PROVE  BillKept'
<1>1. PICK t : t = call[c]
  OBVIOUS
<1>2. /\ t.pc = "itemizing" /\ t # Idle /\ t.b \in DOMAIN bills /\ t.back \in {Idle} \union Sweep /\ BillCallKept(t)
      /\ bills \in Seq(InvoicedPeriod) /\ \A i \in DOMAIN bills : bills[i] \in InvoicedPeriod
  BY <1>1, BillCallForms DEF SaveBillLines, At, BillKept, BillTyped, BillCallKept
<1>3. PICK b : b = [bills[t.b] EXCEPT !.itemized = TRUE]
  OBVIOUS
<1>4. b \in InvoicedPeriod /\ b.itemized /\ b.contract = bills[t.b].contract /\ b.from = bills[t.b].from /\ b.to = bills[t.b].to
      /\ b.by = bills[t.b].by
  BY <1>2, <1>3 DEF InvoicedPeriod
<1>5. bills' = [bills EXCEPT ![t.b] = b] /\ contract' = contract /\ swept' = swept
  BY <1>1, <1>3 DEF SaveBillLines
<1>6. /\ bills' \in Seq(InvoicedPeriod) /\ DOMAIN bills' = DOMAIN bills /\ bills'[t.b] = b
      /\ \A i \in DOMAIN bills : bills'[i].contract = bills[i].contract /\ bills'[i].from = bills[i].from /\ bills'[i].to = bills[i].to
                                 /\ bills'[i].by = bills[i].by /\ (bills'[i].itemized \/ (i # t.b /\ bills'[i] = bills[i]))
  BY <1>2, <1>4, <1>5
<1>7. Grown
  BY <1>5, <1>6 DEF Grown, Signed
<1>8. PICK next : next = t.back
  OBVIOUS
<1>9. next \in BillCall /\ (next # Idle => next \in Sweep /\ next.pc = "sweeping" /\ next.all \subseteq Contract)
  BY <1>2, <1>8, SweepsAreCalls DEF BillCall
<1>10. /\ Apart' /\ Moved(c) /\ call'[c] = next /\ touches'[c] = IF next = Idle THEN {} ELSE {Bills}
       /\ faults' = faults /\ disjoint' = disjoint
  <2>1. IF next = Idle THEN Answer(c) ELSE Await(c, next)
    BY <1>1, <1>8 DEF SaveBillLines, GoBack
  <2> QED BY <1>1, <1>2, <1>9, <2>1, BillMoves DEF Answer, Await
<1>11. BillCallKept(call[c])' /\ Unbilled(call[c])'
  <2>1. next # Idle => \A j \in next.all : Signed(j)' /\ (faults = 0 /\ j \notin next.todo => Served(j, next.m)')
    BY <1>2, <1>7, <1>8, <1>9, ServedStays DEF BillCallKept, Grown
  <2> QED BY <1>9, <1>10, <2>1 DEF BillCallKept, Unbilled, Idle
<1>12. BillsKept'
  <2>1. \A s \in swept' : Signed(s[1])' /\ (faults' = 0 => Served(s[1], s[2])')
    BY <1>5, <1>7, <1>10, ServedStays DEF BillKept, BillTyped, BillsKept, Grown
  <2>2. \A i \in DOMAIN bills' : Swept(i)' =>
          (/\ Signed(bills[i].contract) /\ Due(contract[bills[i].contract].cycle, bills[i].to)
           /\ bills[i].from = bills[i].to - contract[bills[i].contract].cycle + 1)'
    <3> SUFFICES ASSUME NEW i \in DOMAIN bills', Swept(i)'
                 PROVE  (/\ Signed(bills[i].contract) /\ Due(contract[bills[i].contract].cycle, bills[i].to)
                         /\ bills[i].from = bills[i].to - contract[bills[i].contract].cycle + 1)'
      OBVIOUS
    <3>1. PICK x : x = bills[i]
      OBVIOUS
    <3>2. Signed(x.contract) /\ Due(contract[x.contract].cycle, x.to) /\ x.from = x.to - contract[x.contract].cycle + 1
      BY <1>6, <3>1 DEF BillKept, BillsKept, Swept
    <3>3. bills'[i].contract = x.contract /\ bills'[i].from = x.from /\ bills'[i].to = x.to
      BY <1>6, <3>1
    <3> QED BY <1>5, <3>2, <3>3 DEF Signed
  <2>3. ASSUME disjoint', NEW i \in DOMAIN bills', NEW j \in DOMAIN bills', Swept(i)', Swept(j)',
               bills'[i].contract = bills'[j].contract, bills'[i].to = bills'[j].to
        PROVE  i = j
    <3>1. /\ disjoint /\ i \in DOMAIN bills /\ j \in DOMAIN bills /\ Swept(i) /\ Swept(j)
          /\ bills[i].contract = bills[j].contract /\ bills[i].to = bills[j].to
      BY <1>6, <1>10, <2>3 DEF Swept
    <3> QED BY <3>1 DEF BillKept, BillsKept
  <2>4. ASSUME faults' = 0, NEW i \in DOMAIN bills', ~ bills'[i].itemized
        PROVE  \E d \in Call : call'[d].pc = "itemizing" /\ call'[d].b = i
    <3>1. i \in DOMAIN bills /\ i # t.b /\ ~ bills[i].itemized
      BY <1>6, <2>4
    <3>2. PICK d \in Call : call[d].pc = "itemizing" /\ call[d].b = i
      BY <1>10, <2>4, <3>1 DEF BillKept, BillsKept
    <3>3. d # c
      BY <1>1, <3>1, <3>2
    <3> QED BY <1>10, <3>2, <3>3 DEF Moved
  <2> QED BY <2>1, <2>2, <2>3, <2>4 DEF BillsKept
<1>13. contract' \in [Contract -> ContractRow] /\ swept' \subseteq Contract \X Nat
  BY <1>5 DEF BillKept, BillTyped
<1> QED BY <1>1, <1>2, <1>6, <1>7, <1>9, <1>10, <1>11, <1>12, <1>13, BillFrame

\* A request dies, or the sweep goes on after an invoice that failed.
LEMMA BillLost ==
  ASSUME BillKept, NEW c \in Call, UNCHANGED billingVars, FailInvoice(c) \/ Perish(c)
  PROVE  BillKept'
<1>1. PICK t : t = call[c]
  OBVIOUS
<1>2. t # Idle /\ t \in BillCall /\ contract' = contract /\ bills' = bills /\ swept' = swept
  BY <1>1 DEF FailInvoice, Perish, Idle, billingVars, BillKept, BillTyped
<1>3. Apart /\ touches[c] = {Bills}
  BY <1>1, <1>2 DEF BillKept, BillTyped
<1>4. Idle \in BillCall
  BY DEF BillCall
<1>5. PICK next \in BillCall :
        /\ Apart' /\ Moved(c) /\ call'[c] = next /\ touches'[c] = IF next = Idle THEN {} ELSE {Bills}
        /\ faults' # 0 /\ disjoint' = disjoint /\ (next = Idle \/ (next \in Sweep /\ t.pc \in {"invoicing", "itemizing"} /\ next = t.back))
  <2>1. CASE Perish(c)
    BY <1>1, <1>2, <1>3, <1>4, <2>1, Perishing
  <2>2. CASE FailInvoice(c)
    <3>1. /\ t.pc \in {"invoicing", "itemizing"} /\ t.back # Idle /\ faults' = faults + 1 /\ faults \in Nat
          /\ call' = [call EXCEPT ![c] = t.back] /\ UNCHANGED <<touches, disjoint>>
      BY <1>1, <1>3, <2>2 DEF FailInvoice, Apart
    <3>2. t.back \in Sweep /\ t.back \in BillCall
      BY <1>2, <3>1, BillCallForms, SweepsAreCalls
    <3>3. faults' \in Nat /\ faults' # 0
      BY <3>1
    <3>4. Apart' /\ Moved(c) /\ call'[c] = t.back /\ touches'[c] = {Bills}
      BY <1>1, <1>2, <1>3, <3>1, <3>3 DEF Apart, Moved, Undisturbed
    <3> QED BY <3>1, <3>2, <3>3, <3>4
  <2> QED BY <2>1, <2>2
<1>6. Grown
  BY <1>2 DEF Grown, Signed
<1>7. BillCallKept(call[c])' /\ Unbilled(call[c])'
  <2>1. CASE next = Idle
    BY <1>5, <2>1 DEF BillCallKept, Unbilled, Idle
  <2>2. CASE next \in Sweep /\ t.pc \in {"invoicing", "itemizing"} /\ next = t.back
    <3>1. next.pc = "sweeping" /\ next # Idle
      BY <2>2, SweepsAreCalls
    <3>2. BillCallKept(t)
      BY <1>1 DEF BillKept
    <3>3. \A j \in next.all : Signed(j)
      BY <2>2, <3>1, <3>2 DEF BillCallKept
    <3> QED BY <1>2, <1>5, <3>1, <3>3 DEF BillCallKept, Unbilled, Signed
  <2> QED BY <1>5, <2>1, <2>2
<1>8. BillsKept'
  BY <1>2, <1>5, <1>6, BillsStayKept
<1>9. contract' \in [Contract -> ContractRow] /\ bills' \in Seq(InvoicedPeriod) /\ swept' \subseteq Contract \X Nat
  BY <1>2 DEF BillKept, BillTyped
<1> QED BY <1>1, <1>2, <1>5, <1>6, <1>7, <1>8, <1>9, BillFrame

\* A contract is made, or its status changes.
LEMMA BillContracts ==
  ASSUME BillKept, UNCHANGED <<bills, swept>>, UNCHANGED requestVars, NEW k \in Contract, NEW x \in ContractRow, x.status # "absent",
         contract' = [contract EXCEPT ![k] = x], Signed(k) => x.cycle = contract[k].cycle /\ x.start = contract[k].start
  PROVE  BillKept'
<1>1. /\ call' = call /\ touches' = touches /\ disjoint' = disjoint /\ faults' = faults /\ bills' = bills /\ swept' = swept
      /\ contract \in [Contract -> ContractRow]
  BY DEF requestVars, BillKept, BillTyped
<1>2. contract' \in [Contract -> ContractRow] /\ Grown
  BY <1>1 DEF Grown, Signed
<1>3. Apart'
  BY ApartStays DEF BillKept, BillTyped
<1>4. BillTyped'
  BY <1>1, <1>2, <1>3 DEF BillKept, BillTyped
<1>5. BillsKept'
  BY <1>1, <1>2, BillsStayKept
<1>6. ASSUME NEW d \in Call PROVE BillCallKept(call[d])' /\ (disjoint' => Unbilled(call[d])')
  <2>1. PICK t : t = call[d]
    OBVIOUS
  <2>2. t \in BillCall /\ BillCallKept(t) /\ (disjoint => Unbilled(t))
    BY <2>1 DEF BillKept, BillTyped
  <2>3. BillCallKept(t)'
    BY <1>1, <1>2, <2>2, CallStaysKept
  <2> QED BY <1>1, <2>1, <2>2, <2>3 DEF BillCallKept, Unbilled, Billed
<1> QED BY <1>4, <1>5, <1>6 DEF BillKept

LEMMA BillStep == BillKept /\ [BillingNext]_<<billingVars, requestVars>> => BillKept'
<1> SUFFICES ASSUME BillKept, [BillingNext]_<<billingVars, requestVars>> PROVE BillKept'
  OBVIOUS
<1>1. contract \in [Contract -> ContractRow]
  BY DEF BillKept, BillTyped
<1>2. ASSUME NEW k \in Contract, NEW n \in Cycles, NEW m \in BilledMonths, CreateContract(k, n, m) PROVE BillKept'
  <2>1. PICK x : x = [status |-> "TRIAL", cycle |-> n, start |-> m]
    OBVIOUS
  <2>2. x \in ContractRow /\ x.status # "absent"
    BY <2>1, BillingAssumption DEF ContractRow
  <2>3. UNCHANGED <<bills, swept>> /\ UNCHANGED requestVars /\ contract' = [contract EXCEPT ![k] = x] /\ ~ Signed(k)
    BY <1>2, <2>1 DEF CreateContract, Signed
  <2> QED BY <2>2, <2>3, BillContracts
<1>3. ASSUME NEW k \in Contract, NEW s \in {"TRIAL", "ACTIVE"}, SetContractStatus(k, s) PROVE BillKept'
  <2>1. PICK x : x = [contract[k] EXCEPT !.status = s]
    OBVIOUS
  <2>2. x \in ContractRow /\ x.status # "absent" /\ x.cycle = contract[k].cycle /\ x.start = contract[k].start
    BY <1>1, <1>3, <2>1 DEF ContractRow
  <2>3. UNCHANGED <<bills, swept>> /\ UNCHANGED requestVars /\ contract' = [contract EXCEPT ![k] = x]
    BY <1>1, <1>3, <2>1 DEF SetContractStatus
  <2> QED BY <2>2, <2>3, BillContracts
<1>4. ASSUME NEW c \in Call, FailInvoice(c) \/ PerishInBilling(c) PROVE BillKept'
  <2>1. UNCHANGED billingVars /\ (FailInvoice(c) \/ Perish(c))
    BY <1>4 DEF FailInvoice, PerishInBilling
  <2> QED BY <2>1, BillLost
<1>5. CASE UNCHANGED <<billingVars, requestVars>>
  <2>1. UNCHANGED <<contract, bills, swept, call, touches, disjoint, faults>>
    BY <1>5 DEF billingVars, requestVars
  <2>2. Apart'
    BY <1>5, ApartStays DEF BillKept, BillTyped
  <2>3. BillTyped'
    BY <2>1, <2>2 DEF BillKept, BillTyped
  <2>4. Grown
    BY <2>1 DEF Grown, Signed
  <2>5. BillsKept'
    BY <2>1, <2>4, BillsStayKept
  <2>6. ASSUME NEW d \in Call PROVE BillCallKept(call[d])' /\ (disjoint' => Unbilled(call[d])')
    <3>1. PICK t : t = call[d]
      OBVIOUS
    <3>2. t \in BillCall /\ BillCallKept(t) /\ (disjoint => Unbilled(t))
      BY <3>1 DEF BillKept, BillTyped
    <3>3. BillCallKept(t)'
      BY <2>1, <2>4, <3>2, CallStaysKept
    <3> QED BY <2>1, <3>1, <3>2, <3>3 DEF BillCallKept, Unbilled, Billed
  <2> QED BY <2>3, <2>5, <2>6 DEF BillKept
<1> QED BY <1>2, <1>3, <1>4, <1>5, BillingBegun, InvoiceBegun, ContractChecked, BillingEnded, BillSaved, BillItemized DEF BillingNext

LEMMA BillStarts == BillingInit => BillKept
<1> SUFFICES ASSUME BillingInit PROVE BillKept
  OBVIOUS
<1>1. /\ Apart /\ bills = <<>> /\ swept = {} /\ \A c \in Call : call[c] = Idle /\ touches[c] = {}
      /\ contract = [k \in Contract |-> [status |-> "absent", cycle |-> 1, start |-> 1]]
  BY ApartStarts DEF BillingInit, RequestsInit
<1>2. BillTyped
  <2>1. call \in [Call -> BillCall]
    BY DEF BillingInit, RequestsInit, BillCall
  <2>2. contract \in [Contract -> ContractRow]
    BY <1>1 DEF ContractRow
  <2>3. bills \in Seq(InvoicedPeriod) /\ swept \subseteq Contract \X Nat
    BY <1>1
  <2>4. \A c \in Call : touches[c] = IF call[c] = Idle THEN {} ELSE {Bills}
    BY <1>1
  <2> QED BY <1>1, <2>1, <2>2, <2>3, <2>4 DEF BillTyped
<1>3. BillsKept
  BY <1>1 DEF BillsKept
<1>4. \A c \in Call : BillCallKept(call[c]) /\ Unbilled(call[c])
  BY <1>1 DEF BillCallKept, Unbilled, Idle
<1> QED BY <1>2, <1>3, <1>4 DEF BillKept

\* In every state, for any contracts and cycles: sweeps that do not overlap bill no
\* month of a contract twice; undisturbed, a sweep that has ended has billed
\* what it was to, with all lines (runMonthlyBillingCycle, generateInvoice).
THEOREM MonthsAreBilled == BillingSpec => []MonthsBilledOnce
<1>1. BillingInit => BillKept
  BY BillStarts
<1>2. BillKept /\ [BillingNext]_<<billingVars, requestVars>> => BillKept'
  BY BillStep
<1>3. BillKept => MonthsBilledOnce
  <2> SUFFICES ASSUME BillKept PROVE MonthsBilledOnce
    OBVIOUS
  <2>1. ASSUME disjoint, NEW i \in DOMAIN bills, NEW j \in DOMAIN bills, i # j, bills[i].contract = bills[j].contract,
               bills[i].by = "sweep", bills[j].by = "sweep"
        PROVE  bills[i].to < bills[j].from \/ bills[j].to < bills[i].from
    <3>1. PICK n, a, b : n = contract[bills[i].contract].cycle /\ a = bills[i].to /\ b = bills[j].to
      OBVIOUS
    <3>2. n \in Nat \ {0} /\ a \in Nat /\ b \in Nat
      <4>1. bills[i] \in InvoicedPeriod /\ bills[j] \in InvoicedPeriod
        BY DEF BillKept, BillTyped
      <4>2. contract[bills[i].contract] \in ContractRow
        BY <4>1 DEF BillKept, BillTyped, InvoicedPeriod
      <4> QED BY <3>1, <4>1, <4>2 DEF InvoicedPeriod, ContractRow
    <3>3. Due(n, a) /\ Due(n, b) /\ bills[i].from = a - n + 1 /\ bills[j].from = b - n + 1 /\ a # b
      BY <2>1, <3>1 DEF BillKept, BillsKept, Swept
    <3>4. CASE a < b
      BY <3>1, <3>2, <3>3, <3>4, CyclesApart
    <3>5. CASE b < a
      BY <3>1, <3>2, <3>3, <3>5, CyclesApart
    <3> QED BY <3>2, <3>3, <3>4, <3>5
  <2>2. ASSUME Undisturbed, Quiet
        PROVE  /\ \A s \in swept : Due(contract[s[1]].cycle, s[2]) /\ contract[s[1]].start <= s[2] =>
                    Billed(s[1], PeriodEnding(contract[s[1]].cycle, s[2]))
               /\ \A i \in DOMAIN bills : bills[i].itemized
    <3>1. \A c \in Call : call[c].pc # "itemizing"
      BY <2>2 DEF Quiet, Idle
    <3> QED BY <2>2, <3>1 DEF Undisturbed, BillKept, BillsKept, Served
  <2> QED BY <2>1, <2>2 DEF MonthsBilledOnce
<1> QED BY <1>1, <1>2, <1>3, PTL DEF BillingSpec

-----------------------------------------------------------------------------
(* Payables and payment runs.                                                *)

ApItems == [Bill -> Int]
ApCall ==
  {Idle}
  \union [pc : {"editing", "posting", "voiding", "reversed"}, b : Bill, seen : BillRow]
  \union [pc : {"paying"}, from : {"new", "old", "run"}, payment : Nat, vendor : Vendor, gross : Int, remaining : Int,
          amounts : ApItems, written : [Bill -> BillRow], alloc : ApItems, vendors : SUBSET Vendor, items : ApItems]
  \union [pc : {"proposing", "itemizing"}, items : ApItems]
  \union [pc : {"toggling", "approving"}, b : Bill]
  \union [pc : {"running"}, vendors : SUBSET Vendor, items : ApItems]

\* The request posts the run.
Posting(t) == t.pc = "running" \/ (t.pc = "paying" /\ t.from = "run")

\* What a request refers to exists, and it works on these rows.
ApKnown(t) ==
  t.pc = "paying" => /\ t.from = "old" => t.payment \in DOMAIN payment
                     /\ \A b \in Bill : t.amounts[b] = 0 \/ t.alloc[b] = 0
ApRows(t, R) ==
  /\ t.pc \in {"editing", "posting", "voiding", "reversed"} => t.b \in R
  /\ t.pc = "paying" => /\ \A b \in Bill : t.amounts[b] # 0 \/ t.alloc[b] # 0 => b \in R
                        /\ t.from = "old" => "payments" \in R
  /\ t.pc \in {"proposing", "itemizing", "toggling", "approving"} => "run" \in R
  /\ Posting(t) => "run" \in R /\ \A b \in Bill : t.items[b] # 0 => b \in R

ApTyped ==
  /\ bill \in [Bill -> BillRow] /\ entry \in Seq(Entry) /\ payment \in Seq(Payment)
  /\ run \in RunRow /\ aborted \in BOOLEAN
  /\ call \in [Call -> ApCall]
  /\ \A c \in Call : ApKnown(call[c]) /\ ApRows(call[c], touches[c])
  /\ Apart

\* The bill a paying request has written: what is stored and what it allocates.
WrittenFor(t, b) ==
  /\ Live(b) /\ t.alloc[b] > 0 /\ bill[b].paid + t.alloc[b] <= bill[b].total
  /\ t.written[b].total = bill[b].total /\ t.written[b].paid = bill[b].paid + t.alloc[b]
  /\ t.written[b].due = bill[b].total - (bill[b].paid + t.alloc[b])
  /\ t.written[b].entry = bill[b].entry /\ t.written[b].status \in {"PARTIAL", "PAID"}

UnpaidBy(v) == \A p \in DOMAIN payment : payment[p].byRun => payment[p].vendor # v

\* What a request has read is what is stored.
ApHeld(t) ==
  /\ t.pc \in {"editing", "posting"} => t.seen = bill[t.b] /\ t.seen.status = "DRAFT"
  /\ t.pc \in {"voiding", "reversed"} => t.seen = bill[t.b] /\ t.seen.status # "absent" /\ t.seen.paid <= 0
  /\ t.pc \in {"toggling", "approving"} => run.status = "PROPOSED"
  /\ t.pc = "paying" =>
       /\ \A b \in Bill : t.alloc[b] # 0 => WrittenFor(t, b)
       /\ TotalOf(t.alloc, Bill) + t.remaining = IF t.from = "old" THEN payment[t.payment].unapplied ELSE t.gross
  /\ Posting(t) =>
       /\ run.status = "APPROVED"
       /\ ~ aborted => \A v \in t.vendors : UnpaidBy(v)
       /\ t.pc = "paying" => t.vendor \notin t.vendors /\ (~ aborted => UnpaidBy(t.vendor))

PaidTo(b) == [p \in DOMAIN payment |-> payment[p].alloc[b]]
BillSound(b) ==
  /\ TotalOf(PaidTo(b), DOMAIN payment) = bill[b].paid
  /\ bill[b].paid <= bill[b].total
  /\ IF Live(b) THEN bill[b].due = bill[b].total - bill[b].paid ELSE bill[b].paid = 0
RunSound ==
  ~ aborted =>
    /\ \A p, q \in DOMAIN payment : payment[p].byRun /\ payment[q].byRun /\ payment[p].vendor = payment[q].vendor => p = q
    /\ (\E p \in DOMAIN payment : payment[p].byRun) => run.status = "POSTED" \/ \E c \in Call : Posting(call[c])

ApHolds ==
  /\ \A c \in Call : ApHeld(call[c])
  /\ \A b \in Bill : BillSound(b)
  /\ RunSound

ApKept == ApTyped /\ (disjoint => ApHolds)

Reversing(b) == \E c \in Call : call[c].pc = "reversed" /\ call[c].b = b

\* A bill that is owed has an entry, of its total, and no other bill has that entry.
EntrySound(b) ==
  /\ bill[b].entry # 0 => bill[b].entry \in DOMAIN entry
  /\ bill[b].status \in {"absent", "DRAFT"} => bill[b].entry = 0
  /\ Live(b) => bill[b].entry # 0
  /\ bill[b].entry # 0 => entry[bill[b].entry].amount = bill[b].total
  /\ bill[b].status = "VOID" /\ bill[b].entry # 0 => entry[bill[b].entry].reversed
  /\ Live(b) /\ entry[bill[b].entry].reversed => Reversing(b)
  /\ \A a \in Bill : bill[a].entry = bill[b].entry /\ bill[b].entry # 0 => a = b

Posted == [e \in DOMAIN entry |-> OnAccount(entry[e])]
Grosses == [p \in DOMAIN payment |-> payment[p].gross]
Unapplied == [p \in DOMAIN payment |-> payment[p].unapplied]

\* What is owed for a bill: once its entry has been reversed, less than nothing.
Owed == [b \in Bill |-> IF bill[b].entry # 0 /\ entry[bill[b].entry].reversed THEN 0 - bill[b].total
                        ELSE IF Live(b) THEN bill[b].due ELSE 0]

AccountsSound ==
  /\ \A b \in Bill : EntrySound(b)
  /\ \A c \in Call : call[c].pc = "reversed" /\ call[c].seen.entry # 0 => entry[call[c].seen.entry].reversed
  /\ TotalOf(Posted, DOMAIN entry) - TotalOf(Grosses, DOMAIN payment) = TotalOf(Owed, Bill) - TotalOf(Unapplied, DOMAIN payment)

ControlKept == Undisturbed => AccountsSound

-----------------------------------------------------------------------------
LEMMA ApCallForms ==
  ASSUME NEW t \in ApCall
  PROVE  /\ t.pc \in {"idle", "editing", "posting", "voiding", "reversed", "paying", "proposing", "itemizing", "toggling",
                      "approving", "running"}
         /\ t = Idle <=> t.pc = "idle"
         /\ t.pc \in {"editing", "posting", "voiding", "reversed"} =>
              t \in [pc : {"editing", "posting", "voiding", "reversed"}, b : Bill, seen : BillRow]
         /\ t.pc = "paying" =>
              t \in [pc : {"paying"}, from : {"new", "old", "run"}, payment : Nat, vendor : Vendor, gross : Int, remaining : Int,
                     amounts : ApItems, written : [Bill -> BillRow], alloc : ApItems, vendors : SUBSET Vendor, items : ApItems]
         /\ t.pc \in {"proposing", "itemizing"} => t \in [pc : {"proposing", "itemizing"}, items : ApItems]
         /\ t.pc \in {"toggling", "approving"} => t \in [pc : {"toggling", "approving"}, b : Bill]
         /\ t.pc = "running" => t \in [pc : {"running"}, vendors : SUBSET Vendor, items : ApItems]
BY DEF ApCall, Idle

LEMMA ApTerms ==
  ASSUME ApTyped
  PROVE  /\ bill \in [Bill -> BillRow] /\ \A b \in Bill : bill[b] \in BillRow
         /\ Len(entry) \in Nat /\ DOMAIN entry = 1 .. Len(entry) /\ \A e \in DOMAIN entry : entry[e] \in Entry
         /\ Len(payment) \in Nat /\ DOMAIN payment = 1 .. Len(payment) /\ \A p \in DOMAIN payment : payment[p] \in Payment
         /\ run \in RunRow /\ IsFiniteSet(Bill) /\ Bill \subseteq DOMAIN VendorOf /\ \A b \in Bill : VendorOf[b] \in Vendor
<1>1. bill \in [Bill -> BillRow] /\ run \in RunRow
  BY DEF ApTyped
<1>2. Len(entry) \in Nat /\ DOMAIN entry = 1 .. Len(entry) /\ \A e \in DOMAIN entry : entry[e] \in Entry
  BY DEF ApTyped
<1>3. Len(payment) \in Nat /\ DOMAIN payment = 1 .. Len(payment) /\ \A p \in DOMAIN payment : payment[p] \in Payment
  BY DEF ApTyped
<1> QED BY <1>1, <1>2, <1>3, PayablesAssumption

\* What no step takes back.
ApGrown == /\ \A p \in DOMAIN payment : p \in DOMAIN payment'
           /\ aborted => aborted'

\* What a step leaves alone of what a request that works on R refers to.
ApUntouched(R) ==
  /\ \A b \in Bill : b \in R /\ bill[b].status # "absent" => bill'[b] = bill[b]
  /\ "payments" \in R => \A p \in DOMAIN payment : payment'[p].unapplied = payment[p].unapplied
  /\ "run" \in R => run'.status = run.status /\ (~ aborted' => \A v \in Vendor : UnpaidBy(v) => UnpaidBy(v)')

LEMMA ApHeldStays ==
  ASSUME ApGrown, NEW t \in ApCall, NEW R, ApKnown(t), ApRows(t, R)
  PROVE  ApKnown(t)' /\ (ApUntouched(R) /\ ApHeld(t) => ApHeld(t)')
<1>1. ApKnown(t)'
  BY DEF ApKnown, ApGrown
<1>2. ASSUME ApUntouched(R), ApHeld(t) PROVE ApHeld(t)'
  <2>1. t.pc \in {"editing", "posting", "voiding", "reversed"} => t.b \in Bill /\ bill'[t.b] = bill[t.b]
    BY <1>2, ApCallForms DEF ApRows, ApUntouched, ApHeld
  <2>2. /\ t.pc \in {"editing", "posting"} => t.seen = bill'[t.b] /\ t.seen.status = "DRAFT"
        /\ t.pc \in {"voiding", "reversed"} => t.seen = bill'[t.b] /\ t.seen.status # "absent" /\ t.seen.paid <= 0
    BY <1>2, <2>1 DEF ApHeld
  <2>3. t.pc \in {"toggling", "approving"} => run'.status = "PROPOSED"
    BY <1>2 DEF ApHeld, ApRows, ApUntouched
  <2>4. ASSUME t.pc = "paying"
        PROVE  /\ \A b \in Bill : t.alloc[b] # 0 => WrittenFor(t, b)'
               /\ TotalOf(t.alloc, Bill) + t.remaining = IF t.from = "old" THEN payment'[t.payment].unapplied ELSE t.gross
    <3>1. ASSUME NEW b \in Bill, t.alloc[b] # 0 PROVE WrittenFor(t, b)'
      <4>1. WrittenFor(t, b) /\ bill'[b] = bill[b]
        BY <1>2, <2>4, <3>1 DEF ApHeld, ApRows, ApUntouched, WrittenFor, Live
      <4> QED BY <4>1 DEF WrittenFor, Live
    <3>2. t.from = "old" => payment'[t.payment].unapplied = payment[t.payment].unapplied
      BY <1>2, <2>4 DEF ApKnown, ApRows, ApUntouched
    <3> QED BY <1>2, <2>4, <3>1, <3>2 DEF ApHeld
  <2>5. ASSUME Posting(t)
        PROVE  /\ run'.status = "APPROVED"
               /\ ~ aborted' => \A v \in t.vendors : UnpaidBy(v)'
               /\ t.pc = "paying" => t.vendor \notin t.vendors /\ (~ aborted' => UnpaidBy(t.vendor)')
    <3>1. t.vendors \subseteq Vendor /\ (t.pc = "paying" => t.vendor \in Vendor)
      BY <2>5, ApCallForms DEF Posting
    <3>2. run'.status = run.status /\ (~ aborted' => ~ aborted /\ \A v \in Vendor : UnpaidBy(v) => UnpaidBy(v)')
      BY <1>2, <2>5 DEF ApRows, ApUntouched, ApGrown
    <3>3. run.status = "APPROVED" /\ (~ aborted => \A v \in t.vendors : UnpaidBy(v))
          /\ (t.pc = "paying" => t.vendor \notin t.vendors /\ (~ aborted => UnpaidBy(t.vendor)))
      BY <1>2, <2>5 DEF ApHeld
    <3>4. ASSUME ~ aborted', NEW v \in t.vendors PROVE UnpaidBy(v)'
      BY <3>1, <3>2, <3>3, <3>4
    <3>5. ASSUME ~ aborted', t.pc = "paying" PROVE UnpaidBy(t.vendor)'
      <4>1. PICK v \in Vendor : v = t.vendor
        BY <3>1, <3>5
      <4>2. UnpaidBy(v)'
        BY <3>2, <3>3, <3>5, <4>1
      <4> QED BY <4>1, <4>2
    <3> QED BY <3>2, <3>3, <3>4, <3>5
  <2> QED BY <2>2, <2>3, <2>4, <2>5 DEF ApHeld
<1> QED BY <1>1, <1>2

\* Request c makes a step on rows of its own, and keeps its part.
LEMMA ApFrame ==
  ASSUME ApKept, NEW c \in Call, ApGrown, Apart', Moved(c), NEW next \in ApCall, call'[c] = next,
         bill' \in [Bill -> BillRow], entry' \in Seq(Entry), payment' \in Seq(Payment), run' \in RunRow, aborted' \in BOOLEAN,
         ApKnown(next)', ApRows(next, touches'[c]),
         \A b \in Bill : b \notin touches[c] => bill'[b] = bill[b],
         "payments" \notin touches[c] => \A p \in DOMAIN payment : payment'[p].unapplied = payment[p].unapplied,
         "run" \notin touches[c] => run'.status = run.status /\ (~ aborted' => \A v \in Vendor : UnpaidBy(v) => UnpaidBy(v)'),
         disjoint' /\ ApHolds => ApHeld(next)',
         disjoint' /\ ApHolds => \A b \in Bill : BillSound(b)',
         disjoint' /\ ApHolds => RunSound'
  PROVE  ApKept'
<1>1. ApTyped /\ Apart
  BY DEF ApKept, ApTyped
<1>2. ASSUME NEW d \in Call \ {c}
      PROVE  /\ ApKnown(call[d])' /\ ApRows(call'[d], touches'[d])
             /\ disjoint' /\ ApHolds => ApHeld(call[d])'
  <2>1. PICK t, R : t = call[d] /\ R = touches[d]
    OBVIOUS
  <2>2. t \in ApCall /\ ApKnown(t) /\ ApRows(t, R) /\ call'[d] = t /\ touches'[d] = R
    BY <1>1, <2>1 DEF ApTyped, Moved
  <2>3. ApKnown(t)' /\ (ApUntouched(R) /\ ApHeld(t) => ApHeld(t)')
    BY <2>2, ApHeldStays
  <2>4. disjoint' => ApUntouched(R)
    <3>1. disjoint' => R \intersect touches[c] = {}
      BY <1>1, <2>1 DEF Moved, Apart
    <3> QED BY <3>1 DEF ApUntouched
  <2>5. ApHolds => ApHeld(t)
    BY <2>1 DEF ApHolds
  <2>6. ApKnown(call[d])' <=> ApKnown(t)'
    BY <2>2 DEF ApKnown
  <2>7. ApHeld(call[d])' <=> ApHeld(t)'
    <3>1. \A u : UnpaidBy(u)' <=> \A p \in DOMAIN payment' : payment'[p].byRun => payment'[p].vendor # u
      BY DEF UnpaidBy
    <3> QED BY <2>2, <3>1 DEF ApHeld, WrittenFor, Posting, UnpaidBy, TotalOf
  <2> QED BY <2>2, <2>3, <2>4, <2>5, <2>6, <2>7
<1>3. ApTyped'
  <2>1. call' \in [Call -> ApCall]
    BY <1>1 DEF ApTyped, Moved
  <2>2. ApKnown(call[c])' /\ ApRows(call[c], touches[c])'
    BY DEF ApKnown, ApRows
  <2>3. \A d \in Call : ApKnown(call[d])' /\ ApRows(call[d], touches[d])'
    BY <1>2, <2>2 DEF ApRows
  <2> QED BY <2>1, <2>3 DEF ApTyped
<1>4. ASSUME disjoint' PROVE ApHolds'
  <2>1. ApHolds
    BY <1>4 DEF ApKept, Moved
  <2>2. ApHeld(call[c])'
    BY <1>4, <2>1 DEF ApHeld, WrittenFor, Posting, UnpaidBy, TotalOf
  <2>3. \A d \in Call : ApHeld(call[d])'
    BY <1>2, <1>4, <2>1, <2>2
  <2>4. (\A b \in Bill : BillSound(b)') /\ RunSound'
    BY <1>4, <2>1
  <2> QED BY <2>3, <2>4 DEF ApHolds
<1> QED BY <1>3, <1>4 DEF ApKept

\* A request goes on, or ends.
LEMMA ApMoves ==
  ASSUME ApTyped, NEW c \in Call, NEW next \in ApCall,
         \/ next # Idle /\ \E R : R # {} /\ ApRows(next, R) /\ Arrive(c, R, next)
         \/ next # Idle /\ call[c] # Idle /\ ApRows(next, touches[c]) /\ Await(c, next)
         \/ next = Idle /\ (Answer(c) \/ Perish(c))
  PROVE  Apart' /\ Moved(c) /\ call'[c] = next /\ ApRows(next, touches'[c])
<1>1. Apart /\ (next = Idle <=> next.pc = "idle")
  BY ApCallForms DEF ApTyped
<1>2. CASE next # Idle /\ \E R : R # {} /\ ApRows(next, R) /\ Arrive(c, R, next)
  <2>1. PICK R : R # {} /\ ApRows(next, R) /\ Arrive(c, R, next)
    BY <1>2
  <2> QED BY <1>1, <1>2, <2>1, Arriving
<1>3. CASE next # Idle /\ call[c] # Idle /\ ApRows(next, touches[c]) /\ Await(c, next)
  BY <1>1, <1>3, Awaiting
<1>4. ApRows(Idle, {})
  BY DEF ApRows, Idle, Posting
<1>5. CASE next = Idle /\ Answer(c)
  BY <1>1, <1>4, <1>5, Answering
<1>6. CASE next = Idle /\ Perish(c)
  BY <1>1, <1>4, <1>6, Perishing
<1> QED BY <1>2, <1>3, <1>5, <1>6

\* Nothing but the request's state changes, and whether posting the run broke off.
LEMMA ApStill ==
  ASSUME ApKept, NEW c \in Call, UNCHANGED <<bill, entry, payment, run>>, NEW next \in ApCall, ApKnown(next),
         aborted' \in BOOLEAN, aborted => aborted', Posting(call[c]) => Posting(next) \/ aborted',
         disjoint /\ disjoint' => ApHeld(next),
         \/ next # Idle /\ \E R : R # {} /\ ApRows(next, R) /\ Arrive(c, R, next)
         \/ next # Idle /\ call[c] # Idle /\ ApRows(next, touches[c]) /\ Await(c, next)
         \/ next = Idle /\ (Answer(c) \/ Perish(c))
  PROVE  ApKept'
<1>1. bill' = bill /\ entry' = entry /\ payment' = payment /\ run' = run /\ ApTyped
  BY DEF ApKept
<1>2. Apart' /\ Moved(c) /\ call'[c] = next /\ ApRows(next, touches'[c])
  BY <1>1, ApMoves
<1>3. ApGrown /\ bill' \in [Bill -> BillRow] /\ entry' \in Seq(Entry) /\ payment' \in Seq(Payment) /\ run' \in RunRow
  BY <1>1 DEF ApGrown, ApTyped
<1>4. ApKnown(next)'
  BY <1>1 DEF ApKnown
<1>5. \A v : UnpaidBy(v) => UnpaidBy(v)'
  BY <1>1 DEF UnpaidBy
<1>6. disjoint' => ApHeld(next)'
  <2>1. disjoint' => disjoint /\ ApHeld(next)
    BY <1>2 DEF Moved
  <2> QED BY <1>1, <1>5, <2>1 DEF ApHeld, WrittenFor, Live
<1>7. ApHolds => \A b \in Bill : BillSound(b)'
  <2> SUFFICES ASSUME ApHolds, NEW b \in Bill PROVE BillSound(b)'
    OBVIOUS
  <2>1. BillSound(b) /\ bill'[b] = bill[b] /\ payment' = payment
    BY <1>1 DEF ApHolds
  <2>2. PaidTo(b)' = PaidTo(b) /\ (Live(b)' <=> Live(b))
    BY <2>1 DEF PaidTo, Live
  <2> QED BY <2>1, <2>2 DEF BillSound, TotalOf
<1>8. ApHolds => RunSound'
  <2> SUFFICES ASSUME ApHolds, ~ aborted' PROVE RunSound'
    BY DEF RunSound
  <2>1. RunSound /\ ~ aborted
    BY DEF ApHolds
  <2>2. ASSUME NEW d \in Call, Posting(call[d]) PROVE \E e \in Call : Posting(call'[e])
    <3>1. CASE d = c
      BY <1>2, <2>2, <3>1
    <3>2. CASE d # c
      BY <1>2, <2>2, <3>2 DEF Moved
    <3> QED BY <3>1, <3>2
  <2>3. \A d \in Call : Posting(call[d])' <=> Posting(call'[d])
    BY DEF Posting
  <2> QED BY <1>1, <2>1, <2>2, <2>3 DEF RunSound
<1> QED BY <1>1, <1>2, <1>3, <1>4, <1>5, <1>6, <1>7, <1>8, ApFrame

-----------------------------------------------------------------------------
LEMMA BillRead ==
  ASSUME ApKept, NEW c \in Call, NEW b \in Bill, NEW pc \in {"editing", "posting", "voiding"}, ReadBill(c, b, pc)
  PROVE  ApKept'
<1>1. bill[b] \in BillRow
  BY ApTerms DEF ApKept
<1>2. PICK next, R : next = [pc |-> pc, b |-> b, seen |-> bill[b]] /\ R = {b}
  OBVIOUS
<1>3. next \in ApCall /\ next # Idle /\ next.pc = pc /\ next.b = b /\ next.seen = bill[b]
  BY <1>1, <1>2 DEF ApCall, Idle
<1>4. ApKnown(next) /\ ApRows(next, R) /\ R # {} /\ ~ Posting(next)
  BY <1>2, <1>3 DEF ApKnown, ApRows, Posting
<1>5. ApHeld(next)
  BY <1>3, <1>4 DEF ApHeld, ReadBill
<1>6. UNCHANGED payablesVars /\ Arrive(c, R, next) /\ ~ Posting(call[c])
  BY <1>2 DEF ReadBill, Arrive, Idle, Posting
<1>7. aborted' = aborted /\ aborted \in BOOLEAN
  BY <1>6 DEF payablesVars, ApKept, ApTyped
<1> QED BY <1>3, <1>4, <1>5, <1>6, <1>7, ApStill DEF payablesVars

LEMMA NothingAllocated ==
  /\ NoBills \in [Bill -> BillRow] /\ NoAllocation \in ApItems /\ \A b \in Bill : NoAllocation[b] = 0
  /\ TotalOf(NoAllocation, Bill) = 0
<1>1. NoBills \in [Bill -> BillRow] /\ NoAllocation \in ApItems /\ \A b \in Bill : NoAllocation[b] = 0
  BY DEF NoBills, NoAllocation, BillRow, BillStatus, ApItems
<1>2. TotalOf(NoAllocation, Bill) = 0
  BY <1>1, SumZero, PayablesAssumption DEF TotalOf
<1> QED BY <1>1, <1>2

LEMMA PaymentBegun ==
  ASSUME ApKept, NEW c \in Call, NEW b \in Bill, NEW n \in Amounts, CreatePayment(c, b, n)
  PROVE  ApKept'
<1>1. n \in Int /\ VendorOf[b] \in Vendor
  BY PayablesAssumption
<1>2. PICK next, R : next = Paying("new", 0, VendorOf[b], n, n, [NoAllocation EXCEPT ![b] = n], {}, NoAllocation) /\ R = {b}
  OBVIOUS
<1>3. NoAllocation \in ApItems /\ [NoAllocation EXCEPT ![b] = n] \in ApItems
      /\ \A a \in Bill : [NoAllocation EXCEPT ![b] = n][a] # 0 => a = b
  BY <1>1 DEF NoAllocation, ApItems
<1>4. /\ next \in ApCall /\ next # Idle /\ next.pc = "paying" /\ next.from = "new" /\ next.gross = n /\ next.remaining = n
      /\ next.amounts = [NoAllocation EXCEPT ![b] = n] /\ \A a \in Bill : next.alloc[a] = 0
      /\ TotalOf(next.alloc, Bill) = 0
  <2>1. next.pc = "paying" /\ next \in ApCall
    BY <1>1, <1>2, <1>3, NothingAllocated DEF Paying, ApCall
  <2>2. next.from = "new" /\ next.gross = n /\ next.remaining = n /\ next.amounts = [NoAllocation EXCEPT ![b] = n]
        /\ next.alloc = NoAllocation
    BY <1>2 DEF Paying
  <2> QED BY <2>1, <2>2, NothingAllocated DEF Idle
<1>5. ApKnown(next) /\ ApRows(next, R) /\ R # {} /\ ~ Posting(next)
  BY <1>2, <1>3, <1>4 DEF ApKnown, ApRows, Posting
<1>6. ApHeld(next)
  BY <1>1, <1>4, <1>5 DEF ApHeld
<1>7. UNCHANGED payablesVars /\ Arrive(c, R, next) /\ ~ Posting(call[c])
  BY <1>2 DEF CreatePayment, Arrive, Idle, Posting
<1>8. aborted' = aborted /\ aborted \in BOOLEAN
  BY <1>7 DEF payablesVars, ApKept, ApTyped
<1> QED BY <1>4, <1>5, <1>6, <1>7, <1>8, ApStill DEF payablesVars

LEMMA AllocationBegun ==
  ASSUME ApKept, NEW c \in Call, NEW p \in DOMAIN payment, NEW b \in Bill, AllocatePayment(c, p, b)
  PROVE  ApKept'
<1>1. payment[p].unapplied \in Int /\ payment[p].vendor \in Vendor /\ p \in Nat
  BY ApTerms DEF ApKept, Payment
<1>2. PICK n : n = payment[p].unapplied
  OBVIOUS
<1>3. PICK next, R : /\ next = Paying("old", p, payment[p].vendor, 0, n, [NoAllocation EXCEPT ![b] = n], {}, NoAllocation)
                     /\ R = {b, "payments"}
  OBVIOUS
<1>4. NoAllocation \in ApItems /\ [NoAllocation EXCEPT ![b] = n] \in ApItems
      /\ \A a \in Bill : [NoAllocation EXCEPT ![b] = n][a] # 0 => a = b
  BY <1>1, <1>2 DEF NoAllocation, ApItems
<1>5. /\ next \in ApCall /\ next # Idle /\ next.pc = "paying" /\ next.from = "old" /\ next.remaining = n /\ next.payment = p
      /\ next.amounts = [NoAllocation EXCEPT ![b] = n] /\ \A a \in Bill : next.alloc[a] = 0
      /\ TotalOf(next.alloc, Bill) = 0
  <2>1. next.pc = "paying" /\ next \in ApCall
    BY <1>1, <1>2, <1>3, <1>4, NothingAllocated DEF Paying, ApCall
  <2>2. next.from = "old" /\ next.payment = p /\ next.remaining = n /\ next.amounts = [NoAllocation EXCEPT ![b] = n]
        /\ next.alloc = NoAllocation
    BY <1>3 DEF Paying
  <2> QED BY <2>1, <2>2, NothingAllocated DEF Idle
<1>6. ApKnown(next) /\ ApRows(next, R) /\ R # {} /\ ~ Posting(next)
  BY <1>3, <1>4, <1>5 DEF ApKnown, ApRows, Posting
<1>7. ApHeld(next)
  BY <1>1, <1>2, <1>5, <1>6 DEF ApHeld
<1>8. UNCHANGED payablesVars /\ Arrive(c, R, next) /\ ~ Posting(call[c])
  BY <1>2, <1>3 DEF AllocatePayment, Arrive, Idle, Posting
<1>9. aborted' = aborted /\ aborted \in BOOLEAN
  BY <1>8 DEF payablesVars, ApKept, ApTyped
<1> QED BY <1>5, <1>6, <1>7, <1>8, <1>9, ApStill DEF payablesVars

\* What a request that pays has in hand.
LEMMA PayingHas ==
  ASSUME ApKept, NEW c \in Call, call[c].pc = "paying", NEW t, t = call[c]
  PROVE  /\ t \in [pc : {"paying"}, from : {"new", "old", "run"}, payment : Nat, vendor : Vendor, gross : Int, remaining : Int,
                   amounts : ApItems, written : [Bill -> BillRow], alloc : ApItems, vendors : SUBSET Vendor, items : ApItems]
         /\ t \in ApCall /\ t # Idle /\ ApKnown(t) /\ ApRows(t, touches[c]) /\ (disjoint => ApHeld(t))
         /\ Idle \in ApCall /\ ApKnown(Idle) /\ ApHeld(Idle)
<1>1. t \in ApCall /\ ApKnown(t) /\ ApRows(t, touches[c]) /\ (disjoint => ApHeld(t)) /\ t.pc = "paying"
  BY DEF ApKept, ApTyped, ApHolds
<1>2. Idle \in ApCall /\ ApKnown(Idle) /\ ApHeld(Idle)
  BY DEF ApCall, ApKnown, ApHeld, Idle, Posting
<1> QED BY <1>1, <1>2, ApCallForms DEF Idle

LEMMA AllocationApplied ==
  ASSUME ApKept, NEW c \in Call, NEW b \in Bill, ApplyAllocation(c, b)
  PROVE  ApKept'
<1>1. PICK t : t = call[c]
  OBVIOUS
<1>2. call[c].pc = "paying"
  BY DEF ApplyAllocation, At
<1>3. /\ t \in [pc : {"paying"}, from : {"new", "old", "run"}, payment : Nat, vendor : Vendor, gross : Int, remaining : Int,
                amounts : ApItems, written : [Bill -> BillRow], alloc : ApItems, vendors : SUBSET Vendor, items : ApItems]
      /\ t \in ApCall /\ t # Idle /\ ApKnown(t) /\ ApRows(t, touches[c]) /\ (disjoint => ApHeld(t))
      /\ Idle \in ApCall /\ ApKnown(Idle) /\ ApHeld(Idle)
  BY <1>1, <1>2, PayingHas
<1>4. UNCHANGED <<bill, entry, payment, run>> /\ aborted \in BOOLEAN /\ bill[b] \in BillRow
  BY ApTerms DEF ApplyAllocation, ApKept, ApTyped
<1>5. CASE Rollback(c)
  <2>1. aborted' = (aborted \/ t.from = "run") /\ Answer(c)
    BY <1>1, <1>5 DEF Rollback
  <2>2. Posting(call[c]) => aborted'
    BY <1>1, <1>2, <2>1 DEF Posting
  <2> QED BY <1>3, <1>4, <2>1, <2>2, ApStill
<1>6. CASE ~ Rollback(c)
  <2>1. PICK amount : amount = Applied(t.amounts[b], bill[b].due, t.remaining)
    OBVIOUS
  <2>2. t.amounts[b] \in Int /\ t.amounts[b] > 0 /\ t.remaining \in Int /\ bill[b].due \in Int /\ bill[b].paid \in Nat /\ bill[b].total \in Nat
    BY <1>1, <1>3, <1>4 DEF ApplyAllocation, ApItems, BillRow
  <2>3. amount \in Int /\ amount <= bill[b].due
    BY <2>1, <2>2 DEF Applied, Least
  <2>4. b \in touches[c] /\ t.alloc[b] = 0
    BY <1>2, <1>1, <1>3, <2>2 DEF ApRows, ApKnown
  <2>5. PICK rest : rest = [t EXCEPT !.amounts = [t.amounts EXCEPT ![b] = 0]]
    OBVIOUS
  <2>6. [t.amounts EXCEPT ![b] = 0] \in ApItems
    BY <1>3 DEF ApItems
  <2>7. /\ rest \in [pc : {"paying"}, from : {"new", "old", "run"}, payment : Nat, vendor : Vendor, gross : Int, remaining : Int,
                amounts : ApItems, written : [Bill -> BillRow], alloc : ApItems, vendors : SUBSET Vendor, items : ApItems]
        /\ rest.pc = "paying" /\ rest.from = t.from /\ rest.payment = t.payment /\ rest.vendor = t.vendor /\ rest.gross = t.gross
        /\ rest.remaining = t.remaining /\ rest.amounts = [t.amounts EXCEPT ![b] = 0] /\ rest.written = t.written
        /\ rest.alloc = t.alloc /\ rest.vendors = t.vendors /\ rest.items = t.items
    BY <1>3, <2>5, <2>6
  <2>8. PICK row : row = [bill[b] EXCEPT !.paid = bill[b].paid + amount, !.due = bill[b].total - (bill[b].paid + amount),
                            !.status = IF bill[b].total - (bill[b].paid + amount) <= 0 THEN "PAID" ELSE "PARTIAL"]
    OBVIOUS
  <2>9. /\ Live(b) /\ UNCHANGED aborted
        /\ Await(c, IF amount <= 0 THEN rest
                    ELSE [rest EXCEPT !.remaining = rest.remaining - amount, !.alloc[b] = amount, !.written[b] = row])
    BY <1>1, <1>6, <2>1, <2>5, <2>8 DEF ApplyAllocation
  <2>10. CASE amount <= 0
    <3>1. Await(c, rest) /\ aborted' = aborted
      BY <2>9, <2>10
    <3>2. rest \in ApCall /\ rest # Idle
      BY <2>7 DEF ApCall, Idle
    <3>3. ApKnown(rest) /\ ApRows(rest, touches[c])
      <4>1. \A a \in Bill : a # b => rest.amounts[a] = t.amounts[a]
        BY <1>3, <2>7 DEF ApItems
      <4>2. \A a \in Bill : rest.amounts[a] = 0 \/ rest.alloc[a] = 0
        BY <1>2, <1>1, <1>3, <2>4, <2>7, <4>1 DEF ApKnown
      <4>3. \A a \in Bill : rest.amounts[a] # 0 \/ rest.alloc[a] # 0 => a \in touches[c]
        BY <1>2, <1>1, <1>3, <2>4, <2>7, <4>1 DEF ApRows
      <4> QED BY <1>1, <1>2, <1>3, <2>7, <4>2, <4>3 DEF ApKnown, ApRows, Posting
    <3>4. disjoint => ApHeld(rest)
      BY <1>1, <1>2, <1>3, <2>7 DEF ApHeld, WrittenFor, Posting
    <3>5. Posting(call[c]) => Posting(rest)
      BY <1>1, <1>2, <2>7 DEF Posting
    <3> QED BY <1>1, <1>3, <1>4, <3>1, <3>2, <3>3, <3>4, <3>5, ApStill
  <2>11. CASE amount > 0
    <3>1. PICK alloc, written, left : /\ alloc = [rest.alloc EXCEPT ![b] = amount]
                                      /\ written = [rest.written EXCEPT ![b] = row]
                                      /\ left = rest.remaining - amount
      OBVIOUS
    <3>2. row \in BillRow /\ row.paid = bill[b].paid + amount /\ row.due = bill[b].total - (bill[b].paid + amount)
          /\ row.total = bill[b].total /\ row.entry = bill[b].entry /\ row.status \in {"PARTIAL", "PAID"}
      <4>1. PICK paid, due, status : /\ paid = bill[b].paid + amount /\ due = bill[b].total - paid
                                     /\ status = IF due <= 0 THEN "PAID" ELSE "PARTIAL"
        OBVIOUS
      <4>2. paid \in Nat /\ due \in Int /\ status \in {"PARTIAL", "PAID"}
        BY <2>2, <2>3, <2>11, <4>1
      <4>3. row = [bill[b] EXCEPT !.paid = paid, !.due = due, !.status = status]
        BY <2>8, <4>1
      <4>4. row \in BillRow /\ row.paid = paid /\ row.due = due /\ row.status = status /\ row.total = bill[b].total
            /\ row.entry = bill[b].entry
        BY <1>4, <4>2, <4>3 DEF BillRow, BillStatus
      <4> QED BY <4>1, <4>2, <4>4
    <3>3. alloc \in ApItems /\ written \in [Bill -> BillRow] /\ left \in Int
      BY <1>3, <2>2, <2>3, <2>7, <3>1, <3>2 DEF ApItems
    <3>4. PICK next : next = [rest EXCEPT !.remaining = left, !.alloc = alloc, !.written = written]
      OBVIOUS
    <3>5. Await(c, next) /\ aborted' = aborted
      <4>1. ~ (amount <= 0)
        BY <2>3, <2>11
      <4>2. Await(c, [rest EXCEPT !.remaining = rest.remaining - amount, !.alloc[b] = amount, !.written[b] = row])
        BY <2>9, <4>1
      <4> QED BY <2>9, <3>1, <3>4, <4>2
    <3>6. next \in [pc : {"paying"}, from : {"new", "old", "run"}, payment : Nat, vendor : Vendor, gross : Int, remaining : Int,
                    amounts : ApItems, written : [Bill -> BillRow], alloc : ApItems, vendors : SUBSET Vendor, items : ApItems]
          /\ next.pc = "paying" /\ next.from = t.from /\ next.payment = t.payment /\ next.vendor = t.vendor /\ next.gross = t.gross
          /\ next.remaining = left /\ next.amounts = [t.amounts EXCEPT ![b] = 0] /\ next.written = written
          /\ next.alloc = alloc /\ next.vendors = t.vendors /\ next.items = t.items
      BY <2>7, <3>3, <3>4
    <3>7. next \in ApCall /\ next # Idle
      BY <3>6 DEF ApCall, Idle
    <3>8. /\ \A a \in Bill : a # b => next.amounts[a] = t.amounts[a] /\ next.alloc[a] = t.alloc[a] /\ next.written[a] = t.written[a]
          /\ next.amounts[b] = 0 /\ next.alloc[b] = amount /\ next.written[b] = row
      BY <1>3, <2>7, <3>1, <3>6 DEF ApItems
    <3>9. ApKnown(next) /\ ApRows(next, touches[c])
      <4>1. \A a \in Bill : next.amounts[a] = 0 \/ next.alloc[a] = 0
        BY <1>2, <1>1, <1>3, <3>8 DEF ApKnown
      <4>2. \A a \in Bill : next.amounts[a] # 0 \/ next.alloc[a] # 0 => a \in touches[c]
        BY <1>2, <1>1, <1>3, <2>4, <3>8 DEF ApRows
      <4> QED BY <1>1, <1>2, <1>3, <3>6, <4>1, <4>2 DEF ApKnown, ApRows, Posting
    <3>10. ASSUME disjoint PROVE ApHeld(next)
      <4>1. ApHeld(t) /\ t.pc = "paying" /\ BillSound(b)
        BY <1>1, <1>2, <1>3, <3>10 DEF ApKept, ApHolds
      <4>2. bill[b].due = bill[b].total - bill[b].paid
        BY <2>9, <4>1 DEF BillSound
      <4>3. ASSUME NEW a \in Bill, next.alloc[a] # 0 PROVE WrittenFor(next, a)
        <5>1. CASE a = b
          BY <2>2, <2>3, <2>9, <2>11, <3>2, <3>8, <4>2, <5>1 DEF WrittenFor
        <5>2. CASE a # b
          BY <3>8, <4>1, <4>3, <5>2 DEF ApHeld, WrittenFor
        <5> QED BY <5>1, <5>2
      <4>4. TotalOf(alloc, Bill) = TotalOf(t.alloc, Bill) + amount
        <5>1. \A a \in Bill : t.alloc[a] \in Int
          BY <1>3 DEF ApItems
        <5>2. alloc[b] = amount /\ \A a \in Bill \ {b} : alloc[a] = t.alloc[a]
          BY <3>6, <3>8
        <5>3. SumFunctionOnSet(alloc, Bill) = SumFunctionOnSet(t.alloc, Bill) - t.alloc[b] + alloc[b]
          BY <2>3, <5>1, <5>2, SumChange, PayablesAssumption
        <5>4. SumFunctionOnSet(t.alloc, Bill) \in Int
          BY <5>1, SumStep, PayablesAssumption
        <5> QED BY <2>3, <2>4, <5>2, <5>3, <5>4 DEF TotalOf
      <4>5. TotalOf(t.alloc, Bill) \in Int
        BY <1>3, SumStep, PayablesAssumption DEF TotalOf, ApItems
      <4>6. TotalOf(next.alloc, Bill) + next.remaining = TotalOf(t.alloc, Bill) + t.remaining
        BY <2>2, <2>3, <2>7, <3>1, <3>6, <4>4, <4>5
      <4>7. TotalOf(next.alloc, Bill) + next.remaining = IF next.from = "old" THEN payment[next.payment].unapplied ELSE next.gross
        BY <3>6, <4>1, <4>6 DEF ApHeld
      <4> QED BY <3>6, <4>1, <4>3, <4>7 DEF ApHeld, Posting
    <3>11. Posting(call[c]) => Posting(next)
      BY <1>1, <1>2, <3>6 DEF Posting
    <3> QED BY <1>1, <1>3, <1>4, <3>5, <3>7, <3>9, <3>10, <3>11, ApStill
  <2> QED BY <2>3, <2>10, <2>11
<1> QED BY <1>5, <1>6

\* A request is refused, or dies.
LEMMA PayablesEnds ==
  ASSUME ApKept, NEW c \in Call, Refused(c) \/ PerishInPayables(c)
  PROVE  ApKept'
<1>1. Idle \in ApCall /\ ApKnown(Idle) /\ ApHeld(Idle)
  BY DEF ApCall, ApKnown, ApHeld, Idle, Posting
<1>2. UNCHANGED <<bill, entry, payment, run>> /\ (Answer(c) \/ Perish(c)) /\ aborted \in BOOLEAN /\ aborted' \in BOOLEAN
      /\ (aborted => aborted') /\ (Posting(call[c]) => aborted')
  BY DEF Refused, PerishInPayables, Posting, At, ApKept, ApTyped
<1> QED BY <1>1, <1>2, ApStill

LEMMA DueListed ==
  ASSUME ApKept, NEW c \in Call, ListDue(c)
  PROVE  ApKept'
<1>1. PICK due \in SUBSET Bill :
        /\ Arrive(c, due \union {"run"}, [pc |-> "proposing", items |-> [b \in Bill |-> IF b \in due \ held THEN bill[b].due ELSE 0]])
        /\ UNCHANGED payablesVars
  BY DEF ListDue
<1>2. PICK items : items = [b \in Bill |-> IF b \in due \ held THEN bill[b].due ELSE 0]
  OBVIOUS
<1>3. items \in ApItems
  BY <1>2, ApTerms DEF ApItems, BillRow, ApKept
<1>4. PICK next, R : next = [pc |-> "proposing", items |-> items] /\ R = due \union {"run"}
  OBVIOUS
<1>5. next \in ApCall /\ next # Idle /\ next.pc = "proposing"
  BY <1>3, <1>4 DEF ApCall, Idle
<1>6. ApKnown(next) /\ ApRows(next, R) /\ R # {} /\ ~ Posting(next) /\ ApHeld(next)
  BY <1>4, <1>5 DEF ApKnown, ApRows, Posting, ApHeld
<1>7. Arrive(c, R, next) /\ ~ Posting(call[c])
  BY <1>1, <1>2, <1>4 DEF Arrive, Idle, Posting
<1>8. aborted' = aborted /\ aborted \in BOOLEAN
  BY <1>1 DEF payablesVars, ApKept, ApTyped
<1> QED BY <1>1, <1>5, <1>6, <1>7, <1>8, ApStill DEF payablesVars

LEMMA RunRead ==
  ASSUME ApKept, NEW c \in Call, NEW b \in Bill, NEW pc \in {"toggling", "approving"}, ReadRun(c, b, pc)
  PROVE  ApKept'
<1>1. PICK next, R : next = [pc |-> pc, b |-> b] /\ R = {"run"}
  OBVIOUS
<1>2. next \in ApCall /\ next # Idle /\ next.pc = pc
  BY <1>1 DEF ApCall, Idle
<1>3. ApKnown(next) /\ ApRows(next, R) /\ R # {} /\ ~ Posting(next)
  BY <1>1, <1>2 DEF ApKnown, ApRows, Posting
<1>4. ApHeld(next)
  BY <1>2, <1>3 DEF ApHeld, ReadRun
<1>5. UNCHANGED payablesVars /\ Arrive(c, R, next) /\ ~ Posting(call[c])
  BY <1>1 DEF ReadRun, Arrive, Idle, Posting
<1>6. aborted' = aborted /\ aborted \in BOOLEAN
  BY <1>5 DEF payablesVars, ApKept, ApTyped
<1> QED BY <1>2, <1>3, <1>4, <1>5, <1>6, ApStill DEF payablesVars

LEMMA PostBegun ==
  ASSUME ApKept, NEW c \in Call, BeginPost(c)
  PROVE  ApKept'
<1>1. run \in RunRow /\ run.included \subseteq Bill /\ \A b \in Bill : run.items[b] \in Int
  BY ApTerms DEF ApKept, RunRow
<1>2. PICK items, vendors : /\ items = [b \in Bill |-> IF b \in run.included THEN run.items[b] ELSE 0]
                            /\ vendors = {VendorOf[b] : b \in run.included}
  OBVIOUS
<1>3. items \in ApItems /\ vendors \in SUBSET Vendor /\ \A b \in Bill : items[b] # 0 => b \in run.included
  BY <1>1, <1>2, ApTerms DEF ApItems, ApKept
<1>4. PICK next, R : next = [pc |-> "running", vendors |-> vendors, items |-> items] /\ R = run.included \union {"run"}
  OBVIOUS
<1>5. next \in ApCall /\ next # Idle /\ next.pc = "running" /\ next.vendors = vendors /\ next.items = items
  BY <1>3, <1>4 DEF ApCall, Idle
<1>6. ApKnown(next) /\ ApRows(next, R) /\ R # {} /\ Posting(next)
  BY <1>3, <1>4, <1>5 DEF ApKnown, ApRows, Posting
<1>7. UNCHANGED payablesVars /\ Arrive(c, R, next) /\ ~ Posting(call[c]) /\ call[c] = Idle /\ run.status = "APPROVED"
  BY <1>2, <1>4 DEF BeginPost, Arrive, Idle, Posting
<1>8. aborted' = aborted /\ aborted \in BOOLEAN
  BY <1>7 DEF payablesVars, ApKept, ApTyped
<1>9. ASSUME disjoint, disjoint' PROVE ApHeld(next)
  <2>1. ASSUME NEW d \in Call, Posting(call[d]) PROVE FALSE
    <3>1. touches[d] \intersect R = {}
      BY <1>7, <1>9, <2>1 DEF Arrive
    <3>2. "run" \in touches[d]
      BY <2>1 DEF ApKept, ApTyped, ApRows
    <3> QED BY <1>4, <3>1, <3>2
  <2>2. RunSound
    BY <1>9 DEF ApKept, ApHolds
  <2>3. ~ aborted => \A p \in DOMAIN payment : ~ payment[p].byRun
    BY <1>7, <2>1, <2>2 DEF RunSound
  <2> QED BY <1>5, <1>7, <2>3 DEF ApHeld, UnpaidBy
<1> QED BY <1>5, <1>6, <1>7, <1>8, <1>9, ApStill DEF payablesVars

LEMMA VendorPaid ==
  ASSUME ApKept, NEW c \in Call, NEW v \in Vendor, PayVendor(c, v)
  PROVE  ApKept'
<1>1. PICK t : t = call[c]
  OBVIOUS
<1>2. /\ t \in [pc : {"running"}, vendors : SUBSET Vendor, items : ApItems] /\ t.pc = "running" /\ t # Idle
      /\ ApRows(t, touches[c]) /\ (disjoint => ApHeld(t)) /\ Posting(t) /\ v \in t.vendors
  BY <1>1, ApCallForms DEF PayVendor, At, ApKept, ApTyped, ApHolds, Posting, Idle
<1>3. PICK amounts, gross, vendors : /\ amounts = [b \in Bill |-> IF VendorOf[b] = v THEN t.items[b] ELSE 0]
                                     /\ gross = TotalOf(amounts, Bill) /\ vendors = t.vendors \ {v}
  OBVIOUS
<1>4. /\ amounts \in ApItems /\ vendors \in SUBSET Vendor /\ \A b \in Bill : amounts[b] # 0 => b \in touches[c]
      /\ \A b \in Bill : t.items[b] # 0 => b \in touches[c]
  BY <1>2, <1>3 DEF ApItems, ApRows
<1>5. gross \in Int
  BY <1>3, <1>4, SumStep, PayablesAssumption DEF TotalOf, ApItems
<1>6. PICK next : next = Paying("run", 0, v, gross, gross, amounts, vendors, t.items)
  OBVIOUS
<1>7. next.pc = "paying" /\ next \in ApCall
  BY <1>2, <1>4, <1>5, <1>6, NothingAllocated DEF Paying, ApCall
<1>8. /\ next.from = "run" /\ next.gross = gross /\ next.remaining = gross /\ next.amounts = amounts /\ next.vendor = v
      /\ next.alloc = NoAllocation /\ next.vendors = vendors /\ next.items = t.items
  BY <1>6 DEF Paying
<1>9. ApKnown(next) /\ ApRows(next, touches[c]) /\ next # Idle /\ Posting(next)
  <2>1. \A b \in Bill : next.alloc[b] = 0
    BY <1>8, NothingAllocated
  <2> QED BY <1>2, <1>4, <1>7, <1>8, <2>1 DEF ApKnown, ApRows, Posting, Idle
<1>10. ASSUME disjoint PROVE ApHeld(next)
  <2>1. ApHeld(t) /\ v \notin vendors /\ vendors \subseteq t.vendors
    BY <1>2, <1>3, <1>10
  <2>2. TotalOf(next.alloc, Bill) = 0 /\ \A b \in Bill : next.alloc[b] = 0
    BY <1>8, NothingAllocated
  <2> QED BY <1>2, <1>5, <1>7, <1>8, <1>9, <2>1, <2>2 DEF ApHeld
<1>11. UNCHANGED payablesVars /\ Await(c, next)
  BY <1>1, <1>3, <1>6 DEF PayVendor
<1>12. aborted' = aborted /\ aborted \in BOOLEAN
  BY <1>11 DEF payablesVars, ApKept, ApTyped
<1> QED BY <1>1, <1>2, <1>7, <1>9, <1>10, <1>11, <1>12, ApStill DEF payablesVars

-----------------------------------------------------------------------------
\* The run is saved by a request that works on it.
LEMMA RunSaved ==
  ASSUME ApKept, NEW c \in Call, UNCHANGED <<bill, entry, payment, aborted>>, run' \in RunRow, "run" \in touches[c],
         NEW next \in ApCall, next.pc \in {"itemizing", "idle"},
         Posting(call[c]) => run'.status = "POSTED",
         disjoint /\ run.status = "POSTED" => run'.status = "POSTED",
         \/ next # Idle /\ call[c] # Idle /\ Await(c, next)
         \/ next = Idle /\ Answer(c)
  PROVE  ApKept'
<1>1. bill' = bill /\ entry' = entry /\ payment' = payment /\ aborted' = aborted /\ ApTyped
  BY DEF ApKept
<1>2. ApKnown(next)' /\ ApRows(next, touches[c]) /\ ~ Posting(next) /\ ApHeld(next)'
  BY DEF ApKnown, ApRows, Posting, ApHeld
<1>3. Apart' /\ Moved(c) /\ call'[c] = next /\ ApRows(next, touches'[c])
  <2>1. CASE next # Idle /\ call[c] # Idle /\ Await(c, next)
    BY <1>1, <1>2, <2>1, ApMoves
  <2>2. CASE next = Idle /\ Answer(c)
    BY <1>1, <1>2, <2>2, ApMoves
  <2> QED BY <2>1, <2>2
<1>4. ApGrown /\ bill' \in [Bill -> BillRow] /\ entry' \in Seq(Entry) /\ payment' \in Seq(Payment) /\ aborted' \in BOOLEAN
  BY <1>1 DEF ApGrown, ApTyped
<1>5. ApHolds => \A b \in Bill : BillSound(b)'
  <2> SUFFICES ASSUME ApHolds, NEW b \in Bill PROVE BillSound(b)'
    OBVIOUS
  <2>1. BillSound(b) /\ bill'[b] = bill[b] /\ payment' = payment
    BY <1>1 DEF ApHolds
  <2>2. PaidTo(b)' = PaidTo(b) /\ (Live(b)' <=> Live(b))
    BY <2>1 DEF PaidTo, Live
  <2> QED BY <2>1, <2>2 DEF BillSound, TotalOf
<1>6. disjoint' /\ ApHolds => RunSound'
  <2> SUFFICES ASSUME ApHolds, disjoint, ~ aborted PROVE RunSound'
    BY <1>1, <1>3 DEF RunSound, Moved
  <2>1. RunSound
    BY DEF ApHolds
  <2>2. ASSUME NEW d \in Call, Posting(call[d]) PROVE run'.status = "POSTED" \/ \E e \in Call : Posting(call'[e])
    <3>1. CASE d = c
      BY <2>2, <3>1
    <3>2. CASE d # c
      BY <1>3, <2>2, <3>2 DEF Moved
    <3> QED BY <3>1, <3>2
  <2>3. \A d \in Call : Posting(call[d])' <=> Posting(call'[d])
    BY DEF Posting
  <2> QED BY <1>1, <2>1, <2>2, <2>3 DEF RunSound
<1> QED BY <1>1, <1>2, <1>3, <1>4, <1>5, <1>6, ApFrame

LEMMA RunChanges ==
  ASSUME ApKept, NEW c \in Call, SaveRun(c) \/ SaveItems(c) \/ SaveItem(c) \/ SaveApproval(c) \/ FinishRun(c)
  PROVE  ApKept'
<1>1. PICK t : t = call[c]
  OBVIOUS
<1>2. t \in ApCall /\ ApRows(t, touches[c]) /\ (disjoint => ApHeld(t)) /\ run \in RunRow
  BY <1>1 DEF ApKept, ApTyped, ApHolds
<1>3. Idle \in ApCall /\ Idle.pc = "idle"
  BY DEF ApCall, Idle
<1>4. ASSUME SaveRun(c) PROVE ApKept'
  <2>1. t.pc = "proposing" /\ t # Idle /\ ~ Posting(t) /\ run.status = "absent"
    BY <1>1, <1>4 DEF SaveRun, At, Idle, Posting
  <2>2. PICK next : next = [t EXCEPT !.pc = "itemizing"]
    OBVIOUS
  <2>3. next \in [pc : {"proposing", "itemizing"}, items : ApItems] /\ next.pc = "itemizing"
    BY <1>2, <2>1, <2>2, ApCallForms
  <2>4. next \in ApCall /\ next # Idle
    BY <2>3 DEF ApCall, Idle
  <2>5. run' = [run EXCEPT !.status = "PROPOSED"] /\ Await(c, next) /\ UNCHANGED <<bill, entry, payment, aborted>>
    BY <1>1, <1>4, <2>2 DEF SaveRun
  <2>6. run' \in RunRow /\ "run" \in touches[c]
    BY <1>2, <2>1, <2>5 DEF RunRow, RunStatus, ApRows
  <2> QED BY <1>1, <2>1, <2>3, <2>4, <2>5, <2>6, RunSaved
<1>5. ASSUME SaveItems(c) PROVE ApKept'
  <2>1. t.pc = "itemizing" /\ t # Idle /\ ~ Posting(t) /\ t.items \in ApItems
    BY <1>1, <1>2, <1>5, ApCallForms DEF SaveItems, At, Idle, Posting
  <2>2. run' = [run EXCEPT !.items = t.items, !.included = {b \in Bill : t.items[b] > 0}] /\ Answer(c)
        /\ UNCHANGED <<bill, entry, payment, aborted>>
    BY <1>1, <1>5 DEF SaveItems
  <2>3. run' \in RunRow /\ run'.status = run.status /\ "run" \in touches[c]
    BY <1>2, <2>1, <2>2 DEF RunRow, ApRows, ApItems
  <2> QED BY <1>1, <1>3, <2>1, <2>2, <2>3, RunSaved
<1>6. ASSUME SaveItem(c) PROVE ApKept'
  <2>1. t.pc = "toggling" /\ t # Idle /\ ~ Posting(t) /\ t.b \in Bill
    BY <1>1, <1>2, <1>6, ApCallForms DEF SaveItem, At, Idle, Posting
  <2>2. PICK included : included = IF t.b \in run.included THEN run.included \ {t.b} ELSE run.included \union {t.b}
    OBVIOUS
  <2>3. run' = [run EXCEPT !.included = included] /\ Answer(c) /\ UNCHANGED <<bill, entry, payment, aborted>>
    BY <1>1, <1>6, <2>2 DEF SaveItem
  <2>4. run' \in RunRow /\ run'.status = run.status /\ "run" \in touches[c]
    BY <1>2, <2>1, <2>2, <2>3 DEF RunRow, ApRows
  <2> QED BY <1>1, <1>3, <2>1, <2>3, <2>4, RunSaved
<1>7. ASSUME SaveApproval(c) PROVE ApKept'
  <2>1. t.pc = "approving" /\ t # Idle /\ ~ Posting(t)
    BY <1>1, <1>7 DEF SaveApproval, At, Idle, Posting
  <2>2. run' = [run EXCEPT !.status = "APPROVED"] /\ Answer(c) /\ UNCHANGED <<bill, entry, payment, aborted>>
    BY <1>7 DEF SaveApproval
  <2>3. run' \in RunRow /\ "run" \in touches[c] /\ (disjoint => run.status = "PROPOSED")
    BY <1>2, <2>1, <2>2 DEF RunRow, RunStatus, ApRows, ApHeld
  <2> QED BY <1>1, <1>3, <2>1, <2>2, <2>3, RunSaved
<1>8. ASSUME FinishRun(c) PROVE ApKept'
  <2>1. t.pc = "running" /\ t # Idle
    BY <1>1, <1>8 DEF FinishRun, At, Idle
  <2>2. run' = [run EXCEPT !.status = "POSTED"] /\ Answer(c) /\ UNCHANGED <<bill, entry, payment, aborted>>
    BY <1>8 DEF FinishRun
  <2>3. run' \in RunRow /\ run'.status = "POSTED" /\ "run" \in touches[c]
    BY <1>2, <2>1, <2>2 DEF RunRow, RunStatus, ApRows, Posting
  <2> QED BY <1>1, <1>3, <2>1, <2>2, <2>3, RunSaved
<1> QED BY <1>4, <1>5, <1>6, <1>7, <1>8

-----------------------------------------------------------------------------
LEMMA EntryReversed ==
  ASSUME entry \in Seq(Entry), NEW e, entry' = [entry EXCEPT ![e].reversed = TRUE]
  PROVE  /\ entry' \in Seq(Entry) /\ DOMAIN entry' = DOMAIN entry
         /\ \A f \in DOMAIN entry : /\ entry'[f].amount = entry[f].amount
                                   /\ IF f = e THEN entry'[f].reversed ELSE entry'[f] = entry[f]
<1>1. CASE e \in DOMAIN entry
  <2>1. PICK y : y = entry[e]
    OBVIOUS
  <2>2. PICK x : x = [y EXCEPT !.reversed = TRUE]
    OBVIOUS
  <2>3. y \in Entry
    BY <1>1, <2>1
  <2>4. x \in Entry /\ x.amount = y.amount /\ x.reversed
    BY <2>2, <2>3 DEF Entry
  <2>5. entry' = [entry EXCEPT ![e] = x]
    BY <2>1, <2>2
  <2>6. entry' \in Seq(Entry) /\ DOMAIN entry' = DOMAIN entry /\ entry'[e] = x /\ \A f \in DOMAIN entry \ {e} : entry'[f] = entry[f]
    <3>1. PICK n \in Nat : entry \in [1 .. n -> Entry] /\ DOMAIN entry = 1 .. n
      BY SMT
    <3>2. entry' \in [1 .. n -> Entry] /\ entry'[e] = x /\ \A f \in 1 .. n : f # e => entry'[f] = entry[f]
      BY <1>1, <2>4, <2>5, <3>1
    <3> QED BY <3>1, <3>2
  <2> QED BY <2>1, <2>4, <2>6
<1>2. CASE e \notin DOMAIN entry
  <2>1. PICK n \in Nat : entry \in [1 .. n -> Entry] /\ DOMAIN entry = 1 .. n
    BY SMT
  <2>2. entry' \in [1 .. n -> Entry] /\ \A f \in 1 .. n : entry'[f] = entry[f]
    BY <1>2, <2>1
  <2> QED BY <1>2, <2>1, <2>2
<1> QED BY <1>1, <1>2

\* A bill is saved, and perhaps its entry, by a request that works on it.
LEMMA BillSavedBy ==
  ASSUME ApKept, NEW c \in Call, NEW b \in Bill, b \in touches[c], NEW row \in BillRow, bill' = [bill EXCEPT ![b] = row],
         entry' \in Seq(Entry), UNCHANGED <<payment, run, aborted>>, ~ Posting(call[c]),
         disjoint /\ ApHolds => row.paid = bill[b].paid /\ row.paid <= row.total
                                /\ IF row.status \in {"OPEN", "PARTIAL", "PAID"} THEN row.due = row.total - row.paid ELSE row.paid = 0,
         NEW next \in ApCall, next.pc \in {"reversed", "idle"}, ApRows(next, touches[c]),
         disjoint => ApHeld(next)',
         \/ next # Idle /\ call[c] # Idle /\ Await(c, next)
         \/ next = Idle /\ Answer(c)
  PROVE  ApKept'
<1>1. payment' = payment /\ run' = run /\ aborted' = aborted /\ ApTyped /\ bill \in [Bill -> BillRow]
  BY DEF ApKept, ApTyped
<1>2. ApKnown(next)' /\ ~ Posting(next)
  BY DEF ApKnown, Posting
<1>3. Apart' /\ Moved(c) /\ call'[c] = next /\ ApRows(next, touches'[c])
  <2>1. CASE next # Idle /\ call[c] # Idle /\ Await(c, next)
    BY <1>1, <1>2, <2>1, ApMoves
  <2>2. CASE next = Idle /\ Answer(c)
    BY <1>1, <1>2, <2>2, ApMoves
  <2> QED BY <2>1, <2>2
<1>4. /\ ApGrown /\ bill' \in [Bill -> BillRow] /\ payment' \in Seq(Payment) /\ run' \in RunRow /\ aborted' \in BOOLEAN
      /\ bill'[b] = row /\ \A a \in Bill : a # b => bill'[a] = bill[a]
  BY <1>1 DEF ApGrown, ApTyped
<1>5. \A v : UnpaidBy(v) => UnpaidBy(v)'
  BY <1>1 DEF UnpaidBy
<1>6. disjoint' => disjoint
  BY <1>3 DEF Moved
<1>7. disjoint' /\ ApHolds => \A a \in Bill : BillSound(a)'
  <2> SUFFICES ASSUME disjoint, ApHolds, NEW a \in Bill PROVE BillSound(a)'
    BY <1>6
  <2>1. PaidTo(a)' = PaidTo(a) /\ BillSound(a) /\ payment' = payment
    BY <1>1 DEF PaidTo, ApHolds
  <2>2. CASE a # b
    <3>1. bill'[a] = bill[a] /\ (Live(a)' <=> Live(a))
      BY <1>4, <2>2 DEF Live
    <3> QED BY <2>1, <3>1 DEF BillSound, TotalOf
  <2>3. CASE a = b
    <3>1. bill'[a] = row /\ row.paid = bill[a].paid
      BY <1>4, <2>3
    <3>2. Live(a)' <=> row.status \in {"OPEN", "PARTIAL", "PAID"}
      BY <3>1 DEF Live
    <3> QED BY <2>1, <2>3, <3>1, <3>2 DEF BillSound, TotalOf
  <2> QED BY <2>2, <2>3
<1>8. ApHolds => RunSound'
  <2> SUFFICES ASSUME ApHolds PROVE RunSound'
    OBVIOUS
  <2>1. RunSound
    BY DEF ApHolds
  <2>2. ASSUME NEW d \in Call, Posting(call[d]) PROVE Posting(call'[d])
    BY <1>3, <2>2 DEF Moved
  <2>3. \A d \in Call : Posting(call[d])' <=> Posting(call'[d])
    BY DEF Posting
  <2> QED BY <1>1, <2>1, <2>2, <2>3 DEF RunSound
<1> QED BY <1>1, <1>2, <1>3, <1>4, <1>5, <1>6, <1>7, <1>8, ApFrame

LEMMA BillChanges ==
  ASSUME ApKept, NEW c \in Call,
         (\E n \in Totals : SaveEdit(c, n)) \/ CommitPost(c) \/ ReverseBillEntry(c) \/ CommitVoid(c)
  PROVE  ApKept'
<1>1. PICK t : t = call[c]
  OBVIOUS
<1>2. t \in ApCall /\ ApRows(t, touches[c]) /\ (disjoint => ApHeld(t)) /\ entry \in Seq(Entry) /\ bill \in [Bill -> BillRow]
  BY <1>1 DEF ApKept, ApTyped, ApHolds
<1>3. Idle \in ApCall /\ Idle.pc = "idle" /\ ApRows(Idle, touches[c]) /\ ApHeld(Idle)'
  BY DEF ApCall, Idle, ApRows, ApHeld, Posting
<1>4. t.pc \in {"editing", "posting", "voiding", "reversed"}
  BY <1>1 DEF SaveEdit, CommitPost, ReverseBillEntry, CommitVoid, At
<1>5. /\ t \in [pc : {"editing", "posting", "voiding", "reversed"}, b : Bill, seen : BillRow]
      /\ t.b \in touches[c] /\ t # Idle /\ ~ Posting(t)
  BY <1>2, <1>4, ApCallForms DEF ApRows, Posting, Idle
<1>6. PICK b, s : b = t.b /\ s = t.seen
  OBVIOUS
<1>7. b \in Bill /\ s \in BillRow /\ s.paid \in Nat /\ s.total \in Nat /\ bill[b] \in BillRow
  BY <1>2, <1>5, <1>6 DEF BillRow
<1>8. disjoint /\ ApHolds => s = bill[b] /\ BillSound(b)
  BY <1>2, <1>4, <1>6, <1>7 DEF ApHeld, ApHolds
<1>9. ASSUME NEW n \in Totals, SaveEdit(c, n) PROVE ApKept'
  <2>1. t.pc = "editing" /\ n \in Nat
    BY <1>1, <1>9, PayablesAssumption DEF SaveEdit, At
  <2>2. PICK due : due = n - s.paid
    OBVIOUS
  <2>3. PICK row : row = [s EXCEPT !.total = n, !.due = due]
    OBVIOUS
  <2>4. row \in BillRow /\ row.status = s.status /\ row.paid = s.paid /\ row.total = n
    <3>1. PICK x : x = [s EXCEPT !.total = n]
      OBVIOUS
    <3>2. x \in BillRow /\ x.status = s.status /\ x.paid = s.paid /\ x.total = n
      BY <1>7, <2>1, <3>1 DEF BillRow
    <3>3. row = [x EXCEPT !.due = due]
      BY <1>7, <2>3, <3>1 DEF BillRow
    <3>4. due \in Int
      BY <1>7, <2>1, <2>2
    <3> QED BY <3>2, <3>3, <3>4 DEF BillRow
  <2>5. bill' = [bill EXCEPT ![b] = row] /\ Answer(c) /\ UNCHANGED <<entry, payment, run, aborted>>
    BY <1>1, <1>6, <1>9, <2>2, <2>3 DEF SaveEdit
  <2>6. ASSUME disjoint, ApHolds
        PROVE  row.paid = bill[b].paid /\ row.paid <= row.total
               /\ IF row.status \in {"OPEN", "PARTIAL", "PAID"} THEN row.due = row.total - row.paid ELSE row.paid = 0
    <3>1. s.status = "DRAFT" /\ bill[b].paid = 0 /\ s = bill[b]
      BY <1>2, <1>6, <1>8, <2>1, <2>6 DEF ApHeld, BillSound, Live
    <3> QED BY <2>1, <2>4, <3>1
  <2> QED BY <1>1, <1>2, <1>3, <1>5, <1>6, <1>7, <2>4, <2>5, <2>6, BillSavedBy
<1>10. ASSUME CommitPost(c) PROVE ApKept'
  <2>1. t.pc = "posting"
    BY <1>1, <1>10 DEF CommitPost, At
  <2>2. PICK x, due : x = [amount |-> s.total, reversed |-> FALSE] /\ due = s.total - s.paid
    OBVIOUS
  <2>3. x \in Entry /\ due \in Int
    BY <1>7, <2>2 DEF Entry
  <2>4. PICK row : row = [s EXCEPT !.status = "OPEN", !.due = due, !.entry = Len(entry')]
    OBVIOUS
  <2>5. entry' = Append(entry, x) /\ entry' \in Seq(Entry) /\ Len(entry') \in Nat
    BY <1>1, <1>2, <1>6, <1>10, <2>2, <2>3 DEF CommitPost
  <2>6. row \in BillRow /\ row.status = "OPEN" /\ row.paid = s.paid /\ row.total = s.total /\ row.due = due
    BY <1>7, <2>3, <2>4, <2>5 DEF BillRow, BillStatus
  <2>7. bill' = [bill EXCEPT ![b] = row] /\ Answer(c) /\ UNCHANGED <<payment, run, aborted>>
    BY <1>1, <1>6, <1>10, <2>2, <2>4 DEF CommitPost
  <2>8. ASSUME disjoint, ApHolds
        PROVE  row.paid = bill[b].paid /\ row.paid <= row.total
               /\ IF row.status \in {"OPEN", "PARTIAL", "PAID"} THEN row.due = row.total - row.paid ELSE row.paid = 0
    <3>1. s = bill[b] /\ bill[b].paid <= bill[b].total
      BY <1>8, <2>8 DEF BillSound
    <3> QED BY <2>2, <2>6, <3>1
  <2> QED BY <1>1, <1>2, <1>3, <1>5, <1>6, <1>7, <2>5, <2>6, <2>7, <2>8, BillSavedBy
<1>11. ASSUME ReverseBillEntry(c) PROVE ApKept'
  <2>1. t.pc = "voiding" /\ UNCHANGED <<bill, payment, run, aborted>>
    BY <1>1, <1>11 DEF ReverseBillEntry, At
  <2>2. bill' = [bill EXCEPT ![b] = bill[b]]
    BY <1>2, <1>7, <2>1
  <2>3. entry' \in Seq(Entry)
    <3>1. CASE entry' = entry
      BY <1>2, <3>1
    <3>2. ASSUME entry' # entry PROVE entry' \in Seq(Entry)
      <4>1. entry' = [entry EXCEPT ![s.entry].reversed = TRUE]
        BY <1>1, <1>6, <1>11, <3>2 DEF ReverseBillEntry
      <4> QED BY <1>2, <4>1, EntryReversed
    <3> QED BY <3>1, <3>2
  <2>4. disjoint /\ ApHolds =>
          bill[b].paid <= bill[b].total
          /\ IF bill[b].status \in {"OPEN", "PARTIAL", "PAID"} THEN bill[b].due = bill[b].total - bill[b].paid ELSE bill[b].paid = 0
    BY <1>8 DEF BillSound, Live
  <2>5. PICK next : next = [t EXCEPT !.pc = "reversed"]
    OBVIOUS
  <2>6. next \in [pc : {"editing", "posting", "voiding", "reversed"}, b : Bill, seen : BillRow] /\ next.pc = "reversed"
        /\ next.b = b /\ next.seen = s
    BY <1>5, <1>6, <2>5
  <2>7. next \in ApCall /\ next # Idle /\ ApRows(next, touches[c])
    BY <1>5, <1>6, <2>6 DEF ApCall, Idle, ApRows, Posting
  <2>8. disjoint => ApHeld(next)'
    <3> SUFFICES ASSUME disjoint PROVE ApHeld(next)'
      OBVIOUS
    <3>1. s = bill'[b] /\ s.status # "absent" /\ s.paid <= 0
      BY <1>2, <1>6, <2>1 DEF ApHeld
    <3> QED BY <2>6, <3>1 DEF ApHeld, Posting
  <2>9. Await(c, next) \/ Answer(c)
    BY <1>1, <1>11, <2>5 DEF ReverseBillEntry
  <2>10. CASE Await(c, next)
    BY <1>1, <1>5, <1>6, <1>7, <2>1, <2>2, <2>3, <2>4, <2>6, <2>7, <2>8, <2>10, BillSavedBy
  <2>11. CASE Answer(c)
    BY <1>1, <1>3, <1>5, <1>6, <1>7, <2>1, <2>2, <2>3, <2>4, <2>11, BillSavedBy
  <2> QED BY <2>9, <2>10, <2>11
<1>12. ASSUME CommitVoid(c) PROVE ApKept'
  <2>1. t.pc = "reversed"
    BY <1>1, <1>12 DEF CommitVoid, At
  <2>2. PICK row : row = [s EXCEPT !.status = "VOID", !.due = 0]
    OBVIOUS
  <2>3. row \in BillRow /\ row.status = "VOID" /\ row.paid = s.paid /\ row.total = s.total
    <3>1. PICK x : x = [s EXCEPT !.status = "VOID"]
      OBVIOUS
    <3>2. x \in BillRow /\ x.status = "VOID" /\ x.paid = s.paid /\ x.total = s.total
      BY <1>7, <3>1 DEF BillRow, BillStatus
    <3>3. row = [x EXCEPT !.due = 0]
      BY <1>7, <2>2, <3>1 DEF BillRow
    <3> QED BY <3>2, <3>3 DEF BillRow
  <2>4. bill' = [bill EXCEPT ![b] = row] /\ Answer(c) /\ UNCHANGED <<entry, payment, run, aborted>>
    BY <1>1, <1>6, <1>12, <2>2 DEF CommitVoid
  <2>5. ASSUME disjoint, ApHolds
        PROVE  row.paid = bill[b].paid /\ row.paid <= row.total
               /\ IF row.status \in {"OPEN", "PARTIAL", "PAID"} THEN row.due = row.total - row.paid ELSE row.paid = 0
    <3>1. s = bill[b] /\ s.paid <= 0
      BY <1>2, <1>6, <1>8, <2>1, <2>5 DEF ApHeld
    <3> QED BY <1>7, <2>3, <3>1
  <2> QED BY <1>1, <1>2, <1>3, <1>5, <1>6, <1>7, <2>3, <2>4, <2>5, BillSavedBy
<1> QED BY <1>9, <1>10, <1>11, <1>12

-----------------------------------------------------------------------------
\* What is added up over the payments.
LEMMA PaymentSums ==
  ASSUME ApTyped
  PROVE  /\ \A b \in Bill : /\ DOMAIN PaidTo(b) = DOMAIN payment
                            /\ \A p \in DOMAIN payment : PaidTo(b)[p] = payment[p].alloc[b] /\ PaidTo(b)[p] \in Int
                            /\ TotalOf(PaidTo(b), DOMAIN payment) = SumFunction(PaidTo(b))
         /\ DOMAIN Grosses = DOMAIN payment /\ DOMAIN Unapplied = DOMAIN payment
         /\ \A p \in DOMAIN payment : /\ Grosses[p] = payment[p].gross /\ Grosses[p] \in Int
                                      /\ Unapplied[p] = payment[p].unapplied /\ Unapplied[p] \in Int
         /\ TotalOf(Grosses, DOMAIN payment) = SumFunction(Grosses)
         /\ TotalOf(Unapplied, DOMAIN payment) = SumFunction(Unapplied)
<1>1. \A p \in DOMAIN payment : payment[p].gross \in Int /\ payment[p].unapplied \in Int /\ \A b \in Bill : payment[p].alloc[b] \in Int
  BY ApTerms DEF Payment
<1> QED BY <1>1 DEF PaidTo, Grosses, Unapplied, TotalOf, SumFunction

\* A payment is recorded.
LEMMA PaymentRecorded ==
  ASSUME ApTyped, NEW x \in Payment, payment' = Append(payment, x)
  PROVE  /\ payment' \in Seq(Payment) /\ DOMAIN payment' = 1 .. (Len(payment) + 1) /\ payment'[Len(payment) + 1] = x
         /\ \A p \in DOMAIN payment : payment'[p] = payment[p]
         /\ \A b \in Bill : TotalOf(PaidTo(b), DOMAIN payment)' = TotalOf(PaidTo(b), DOMAIN payment) + x.alloc[b]
         /\ TotalOf(Grosses, DOMAIN payment)' = TotalOf(Grosses, DOMAIN payment) + x.gross
         /\ TotalOf(Unapplied, DOMAIN payment)' = TotalOf(Unapplied, DOMAIN payment) + x.unapplied
<1>1. PICK n \in Nat : n = Len(payment) /\ DOMAIN payment = 1 .. n
  BY ApTerms
<1>2. /\ payment' \in Seq(Payment) /\ DOMAIN payment' = 1 .. (n + 1) /\ payment'[n + 1] = x
      /\ \A p \in 1 .. n : payment'[p] = payment[p]
  BY <1>1 DEF ApTyped
<1>3. x.gross \in Int /\ x.unapplied \in Int /\ \A b \in Bill : x.alloc[b] \in Int
  BY DEF Payment
<1>4. ASSUME NEW b \in Bill
      PROVE  TotalOf(PaidTo(b), DOMAIN payment)' = TotalOf(PaidTo(b), DOMAIN payment) + x.alloc[b]
  <2>1. PICK f, g : f = PaidTo(b) /\ g = PaidTo(b)'
    OBVIOUS
  <2>2. DOMAIN f = 1 .. n /\ \A p \in 1 .. n : f[p] = payment[p].alloc[b] /\ f[p] \in Int
    BY <1>1, <2>1, PaymentSums
  <2>3. DOMAIN g = 1 .. (n + 1) /\ g[n + 1] = x.alloc[b] /\ \A p \in 1 .. n : g[p] = payment[p].alloc[b]
    BY <1>2, <2>1 DEF PaidTo
  <2>4. SumFunction(g) = SumFunction(f) + g[n + 1]
    BY <1>3, <2>2, <2>3, SumAppend
  <2> QED BY <1>1, <1>2, <2>1, <2>2, <2>3, <2>4 DEF TotalOf, SumFunction
<1>5. TotalOf(Grosses, DOMAIN payment)' = TotalOf(Grosses, DOMAIN payment) + x.gross
  <2>1. PICK f, g : f = Grosses /\ g = Grosses'
    OBVIOUS
  <2>2. DOMAIN f = 1 .. n /\ \A p \in 1 .. n : f[p] = payment[p].gross /\ f[p] \in Int
    BY <1>1, <2>1, PaymentSums
  <2>3. DOMAIN g = 1 .. (n + 1) /\ g[n + 1] = x.gross /\ \A p \in 1 .. n : g[p] = payment[p].gross
    BY <1>2, <2>1 DEF Grosses
  <2>4. SumFunction(g) = SumFunction(f) + g[n + 1]
    BY <1>3, <2>2, <2>3, SumAppend
  <2> QED BY <1>1, <1>2, <2>1, <2>2, <2>3, <2>4 DEF TotalOf, SumFunction
<1>6. TotalOf(Unapplied, DOMAIN payment)' = TotalOf(Unapplied, DOMAIN payment) + x.unapplied
  <2>1. PICK f, g : f = Unapplied /\ g = Unapplied'
    OBVIOUS
  <2>2. DOMAIN f = 1 .. n /\ \A p \in 1 .. n : f[p] = payment[p].unapplied /\ f[p] \in Int
    BY <1>1, <2>1, PaymentSums
  <2>3. DOMAIN g = 1 .. (n + 1) /\ g[n + 1] = x.unapplied /\ \A p \in 1 .. n : g[p] = payment[p].unapplied
    BY <1>2, <2>1 DEF Unapplied
  <2>4. SumFunction(g) = SumFunction(f) + g[n + 1]
    BY <1>3, <2>2, <2>3, SumAppend
  <2> QED BY <1>1, <1>2, <2>1, <2>2, <2>3, <2>4 DEF TotalOf, SumFunction
<1> QED BY <1>1, <1>2, <1>4, <1>5, <1>6

\* One payment changes.
LEMMA PaymentChanged ==
  ASSUME ApTyped, NEW q \in DOMAIN payment, payment' \in Seq(Payment), DOMAIN payment' = DOMAIN payment,
         \A p \in DOMAIN payment \ {q} : payment'[p] = payment[p]
  PROVE  /\ \A b \in Bill : TotalOf(PaidTo(b), DOMAIN payment)' = TotalOf(PaidTo(b), DOMAIN payment) - payment[q].alloc[b] + payment'[q].alloc[b]
         /\ TotalOf(Grosses, DOMAIN payment)' = TotalOf(Grosses, DOMAIN payment) - payment[q].gross + payment'[q].gross
         /\ TotalOf(Unapplied, DOMAIN payment)' = TotalOf(Unapplied, DOMAIN payment) - payment[q].unapplied + payment'[q].unapplied
         /\ \A b \in Bill : TotalOf(PaidTo(b), DOMAIN payment) \in Int
         /\ TotalOf(Grosses, DOMAIN payment) \in Int
<1>1. PICK D : D = DOMAIN payment
  OBVIOUS
<1>2. IsFiniteSet(D)
  <2>1. PICK n \in Nat : D = 1 .. n
    BY <1>1, ApTerms
  <2> QED BY <2>1, SegmentFinite
<1>3. q \in D /\ payment'[q] \in Payment
  BY <1>1
<1>4. ASSUME NEW f, NEW g, \A p \in D : f[p] \in Int, g[q] \in Int, \A p \in D \ {q} : g[p] = f[p]
      PROVE  SumFunctionOnSet(g, D) = SumFunctionOnSet(f, D) - f[q] + g[q] /\ SumFunctionOnSet(f, D) \in Int
  BY <1>2, <1>3, <1>4, SumChange, SumStep
<1>5. ASSUME NEW b \in Bill
      PROVE  /\ TotalOf(PaidTo(b), DOMAIN payment)' = TotalOf(PaidTo(b), DOMAIN payment) - payment[q].alloc[b] + payment'[q].alloc[b]
             /\ TotalOf(PaidTo(b), DOMAIN payment) \in Int
  <2>1. PICK f, g : f = PaidTo(b) /\ g = PaidTo(b)'
    OBVIOUS
  <2>2. \A p \in D : f[p] = payment[p].alloc[b] /\ f[p] \in Int
    BY <1>1, <2>1, PaymentSums
  <2>3. g[q] = payment'[q].alloc[b] /\ g[q] \in Int /\ \A p \in D \ {q} : g[p] = f[p]
    BY <1>1, <1>3, <2>1, <2>2 DEF PaidTo, Payment
  <2>4. SumFunctionOnSet(g, D) = SumFunctionOnSet(f, D) - f[q] + g[q] /\ SumFunctionOnSet(f, D) \in Int
    BY <1>4, <2>2, <2>3
  <2> QED BY <1>1, <1>3, <2>1, <2>2, <2>3, <2>4 DEF TotalOf
<1>6. /\ TotalOf(Grosses, DOMAIN payment)' = TotalOf(Grosses, DOMAIN payment) - payment[q].gross + payment'[q].gross
      /\ TotalOf(Grosses, DOMAIN payment) \in Int
  <2>1. PICK f, g : f = Grosses /\ g = Grosses'
    OBVIOUS
  <2>2. \A p \in D : f[p] = payment[p].gross /\ f[p] \in Int
    BY <1>1, <2>1, PaymentSums
  <2>3. g[q] = payment'[q].gross /\ g[q] \in Int /\ \A p \in D \ {q} : g[p] = f[p]
    BY <1>1, <1>3, <2>1, <2>2 DEF Grosses, Payment
  <2>4. SumFunctionOnSet(g, D) = SumFunctionOnSet(f, D) - f[q] + g[q] /\ SumFunctionOnSet(f, D) \in Int
    BY <1>4, <2>2, <2>3
  <2> QED BY <1>1, <1>3, <2>1, <2>2, <2>3, <2>4 DEF TotalOf
<1>7. TotalOf(Unapplied, DOMAIN payment)' = TotalOf(Unapplied, DOMAIN payment) - payment[q].unapplied + payment'[q].unapplied
  <2>1. PICK f, g : f = Unapplied /\ g = Unapplied'
    OBVIOUS
  <2>2. \A p \in D : f[p] = payment[p].unapplied /\ f[p] \in Int
    BY <1>1, <2>1, PaymentSums
  <2>3. g[q] = payment'[q].unapplied /\ g[q] \in Int /\ \A p \in D \ {q} : g[p] = f[p]
    BY <1>1, <1>3, <2>1, <2>2 DEF Unapplied, Payment
  <2>4. SumFunctionOnSet(g, D) = SumFunctionOnSet(f, D) - f[q] + g[q]
    BY <1>4, <2>2, <2>3
  <2> QED BY <1>1, <1>3, <2>1, <2>2, <2>3, <2>4 DEF TotalOf
<1> QED BY <1>5, <1>6, <1>7

\* More of a payment is allocated.
Reallocated(q, left, alloc) == [payment EXCEPT ![q].unapplied = left, ![q].alloc = [b \in Bill |-> @[b] + alloc[b]]]

LEMMA PaymentAllocated ==
  ASSUME ApTyped, NEW q \in DOMAIN payment, NEW left \in Int, NEW alloc \in ApItems,
         payment' = Reallocated(q, left, alloc)
  PROVE  /\ payment' \in Seq(Payment) /\ DOMAIN payment' = DOMAIN payment
         /\ \A p \in DOMAIN payment : payment'[p].byRun = payment[p].byRun /\ payment'[p].vendor = payment[p].vendor
         /\ \A b \in Bill : TotalOf(PaidTo(b), DOMAIN payment)' = TotalOf(PaidTo(b), DOMAIN payment) + alloc[b]
         /\ TotalOf(Grosses, DOMAIN payment)' = TotalOf(Grosses, DOMAIN payment)
         /\ TotalOf(Unapplied, DOMAIN payment)' = TotalOf(Unapplied, DOMAIN payment) - payment[q].unapplied + left
<1>1. PICK n \in Nat : n = Len(payment) /\ DOMAIN payment = 1 .. n
  BY ApTerms
<1>2. PICK y : y = payment[q]
  OBVIOUS
<1>3. y \in Payment
  BY <1>2, ApTerms
<1>4. PICK sums : sums = [b \in Bill |-> y.alloc[b] + alloc[b]]
  OBVIOUS
<1>5. sums \in [Bill -> Int] /\ \A b \in Bill : sums[b] = y.alloc[b] + alloc[b] /\ y.alloc[b] \in Int /\ alloc[b] \in Int
  BY <1>3, <1>4 DEF Payment, ApItems
<1>6. PICK x : x = [y EXCEPT !.unapplied = left, !.alloc = sums]
  OBVIOUS
<1>7. /\ x \in Payment /\ x.unapplied = left /\ x.alloc = sums /\ x.gross = y.gross /\ x.vendor = y.vendor /\ x.byRun = y.byRun
      /\ y.unapplied \in Int /\ y.gross \in Int
  BY <1>3, <1>5, <1>6 DEF Payment
<1>8. payment' = [payment EXCEPT ![q] = x]
  <2>1. PICK z, m : z = [y EXCEPT !.unapplied = left] /\ m = [payment EXCEPT ![q] = z]
    OBVIOUS
  <2>2. m = [payment EXCEPT ![q].unapplied = left] /\ z.alloc = y.alloc /\ m[q] = z
    BY <1>2, <1>3, <2>1, ApTerms DEF Payment
  <2>3. payment' = [m EXCEPT ![q].alloc = sums]
    BY <1>2, <1>4, <2>2 DEF Reallocated
  <2>4. x = [z EXCEPT !.alloc = sums]
    BY <1>3, <1>6, <2>1 DEF Payment
  <2> QED BY <2>1, <2>2, <2>3, <2>4 DEF ApTyped
<1>9. /\ payment' \in Seq(Payment) /\ DOMAIN payment' = DOMAIN payment /\ payment'[q] = x
      /\ \A p \in DOMAIN payment \ {q} : payment'[p] = payment[p]
  BY <1>7, <1>8 DEF ApTyped
<1>10. /\ \A b \in Bill : TotalOf(PaidTo(b), DOMAIN payment)' = TotalOf(PaidTo(b), DOMAIN payment) - y.alloc[b] + x.alloc[b]
       /\ TotalOf(Grosses, DOMAIN payment)' = TotalOf(Grosses, DOMAIN payment) - y.gross + x.gross
       /\ TotalOf(Unapplied, DOMAIN payment)' = TotalOf(Unapplied, DOMAIN payment) - y.unapplied + x.unapplied
       /\ \A b \in Bill : TotalOf(PaidTo(b), DOMAIN payment) \in Int
       /\ TotalOf(Grosses, DOMAIN payment) \in Int
  <2>1. /\ \A b \in Bill : TotalOf(PaidTo(b), DOMAIN payment)' = TotalOf(PaidTo(b), DOMAIN payment) - payment[q].alloc[b] + payment'[q].alloc[b]
        /\ TotalOf(Grosses, DOMAIN payment)' = TotalOf(Grosses, DOMAIN payment) - payment[q].gross + payment'[q].gross
        /\ TotalOf(Unapplied, DOMAIN payment)' = TotalOf(Unapplied, DOMAIN payment) - payment[q].unapplied + payment'[q].unapplied
        /\ \A b \in Bill : TotalOf(PaidTo(b), DOMAIN payment) \in Int
        /\ TotalOf(Grosses, DOMAIN payment) \in Int
    BY <1>9, PaymentChanged
  <2> QED BY <1>2, <1>9, <2>1
<1>11. \A b \in Bill : TotalOf(PaidTo(b), DOMAIN payment)' = TotalOf(PaidTo(b), DOMAIN payment) + alloc[b]
  BY <1>5, <1>7, <1>10
<1>12. TotalOf(Grosses, DOMAIN payment)' = TotalOf(Grosses, DOMAIN payment)
  BY <1>7, <1>10
<1>13. TotalOf(Unapplied, DOMAIN payment)' = TotalOf(Unapplied, DOMAIN payment) - payment[q].unapplied + left
  BY <1>2, <1>7, <1>10
<1>14. \A p \in DOMAIN payment : payment'[p].byRun = payment[p].byRun /\ payment'[p].vendor = payment[p].vendor
  BY <1>2, <1>7, <1>9
<1> QED BY <1>9, <1>11, <1>12, <1>13, <1>14

\* What a payment's transaction makes of the bills and the payments.
LEMMA PaymentWrites ==
  ASSUME ApKept, NEW c \in Call, CommitPayment(c), NEW t, t = call[c]
  PROVE  /\ t.pc = "paying" /\ UNCHANGED <<entry, run, aborted>>
         /\ bill' \in [Bill -> BillRow] /\ payment' \in Seq(Payment) /\ \A p \in DOMAIN payment : p \in DOMAIN payment'
         /\ \A b \in Bill : bill'[b] = IF t.alloc[b] = 0 THEN bill[b] ELSE t.written[b]
         /\ \A b \in Bill : TotalOf(PaidTo(b), DOMAIN payment)' = TotalOf(PaidTo(b), DOMAIN payment) + t.alloc[b]
         /\ \A p \in DOMAIN payment : payment'[p].byRun = payment[p].byRun /\ payment'[p].vendor = payment[p].vendor
         /\ t.from = "old" => DOMAIN payment' = DOMAIN payment
         /\ t.from # "old" =>
              \E q \in Nat : /\ q \notin DOMAIN payment /\ DOMAIN payment' = DOMAIN payment \union {q}
                             /\ payment'[q].vendor = t.vendor /\ (payment'[q].byRun <=> t.from = "run")
                             /\ \A p \in DOMAIN payment : payment'[p].unapplied = payment[p].unapplied
         /\ IF t.from = "old"
              THEN /\ TotalOf(Grosses, DOMAIN payment)' = TotalOf(Grosses, DOMAIN payment)
                   /\ TotalOf(Unapplied, DOMAIN payment)'
                        = TotalOf(Unapplied, DOMAIN payment) - payment[t.payment].unapplied + t.remaining
              ELSE /\ TotalOf(Grosses, DOMAIN payment)' = TotalOf(Grosses, DOMAIN payment) + t.gross
                   /\ TotalOf(Unapplied, DOMAIN payment)' = TotalOf(Unapplied, DOMAIN payment) + t.remaining
<1>1. t.pc = "paying" /\ UNCHANGED <<entry, run, aborted>> /\ ApTyped
  BY DEF CommitPayment, At, ApKept
<1>2. /\ t \in [pc : {"paying"}, from : {"new", "old", "run"}, payment : Nat, vendor : Vendor, gross : Int, remaining : Int,
                amounts : ApItems, written : [Bill -> BillRow], alloc : ApItems, vendors : SUBSET Vendor, items : ApItems]
      /\ ApKnown(t)
  BY <1>1, PayingHas
<1>3. bill' = [b \in Bill |-> IF t.alloc[b] = 0 THEN bill[b] ELSE t.written[b]]
  BY DEF CommitPayment
<1>4. bill' \in [Bill -> BillRow] /\ \A b \in Bill : bill'[b] = IF t.alloc[b] = 0 THEN bill[b] ELSE t.written[b]
  BY <1>1, <1>2, <1>3 DEF ApTyped
<1>5. ASSUME t.from = "old"
      PROVE  /\ payment' \in Seq(Payment) /\ DOMAIN payment' = DOMAIN payment
             /\ \A p \in DOMAIN payment : payment'[p].byRun = payment[p].byRun /\ payment'[p].vendor = payment[p].vendor
             /\ \A b \in Bill : TotalOf(PaidTo(b), DOMAIN payment)' = TotalOf(PaidTo(b), DOMAIN payment) + t.alloc[b]
             /\ TotalOf(Grosses, DOMAIN payment)' = TotalOf(Grosses, DOMAIN payment)
             /\ TotalOf(Unapplied, DOMAIN payment)'
                  = TotalOf(Unapplied, DOMAIN payment) - payment[t.payment].unapplied + t.remaining
  <2>1. PICK q, left, alloc : q = t.payment /\ left = t.remaining /\ alloc = t.alloc
    OBVIOUS
  <2>2. q \in DOMAIN payment /\ left \in Int /\ alloc \in ApItems
    BY <1>1, <1>2, <1>5, <2>1 DEF ApKnown
  <2>3. payment' = Reallocated(q, left, alloc)
    BY <1>5, <2>1 DEF CommitPayment, Reallocated
  <2> QED BY <1>1, <2>1, <2>2, <2>3, PaymentAllocated
<1>6. ASSUME t.from # "old"
      PROVE  /\ payment' \in Seq(Payment) /\ \A p \in DOMAIN payment : payment'[p] = payment[p]
             /\ \E q \in Nat : /\ q \notin DOMAIN payment /\ DOMAIN payment' = DOMAIN payment \union {q}
                               /\ payment'[q].vendor = t.vendor /\ (payment'[q].byRun <=> t.from = "run")
             /\ \A b \in Bill : TotalOf(PaidTo(b), DOMAIN payment)' = TotalOf(PaidTo(b), DOMAIN payment) + t.alloc[b]
             /\ TotalOf(Grosses, DOMAIN payment)' = TotalOf(Grosses, DOMAIN payment) + t.gross
             /\ TotalOf(Unapplied, DOMAIN payment)' = TotalOf(Unapplied, DOMAIN payment) + t.remaining
  <2>1. PICK by \in BOOLEAN : by <=> t.from = "run"
    OBVIOUS
  <2>2. PICK x : x = [gross |-> t.gross, unapplied |-> t.remaining, alloc |-> t.alloc, vendor |-> t.vendor, byRun |-> by]
    OBVIOUS
  <2>3. x \in Payment /\ x.gross = t.gross /\ x.unapplied = t.remaining /\ x.alloc = t.alloc /\ x.vendor = t.vendor
        /\ x.byRun = by
    BY <1>2, <2>2 DEF Payment, ApItems
  <2>4. payment' = Append(payment, x)
    <3>1. by = (t.from = "run")
      BY <2>1
    <3> QED BY <1>6, <2>2, <3>1 DEF CommitPayment
  <2>5. PICK q : q = Len(payment) + 1
    OBVIOUS
  <2>6. /\ payment' \in Seq(Payment) /\ DOMAIN payment' = 1 .. q /\ payment'[q] = x
        /\ \A p \in DOMAIN payment : payment'[p] = payment[p]
        /\ \A b \in Bill : TotalOf(PaidTo(b), DOMAIN payment)' = TotalOf(PaidTo(b), DOMAIN payment) + x.alloc[b]
        /\ TotalOf(Grosses, DOMAIN payment)' = TotalOf(Grosses, DOMAIN payment) + x.gross
        /\ TotalOf(Unapplied, DOMAIN payment)' = TotalOf(Unapplied, DOMAIN payment) + x.unapplied
    BY <1>1, <2>3, <2>4, <2>5, PaymentRecorded
  <2>7. q \in Nat /\ q \notin DOMAIN payment /\ DOMAIN payment' = DOMAIN payment \union {q}
    BY <1>1, <2>5, <2>6, ApTerms
  <2>8. payment'[q].vendor = t.vendor /\ (payment'[q].byRun <=> t.from = "run")
    BY <2>1, <2>3, <2>6
  <2> QED BY <2>3, <2>6, <2>7, <2>8
<1> QED BY <1>1, <1>4, <1>5, <1>6

LEMMA PaymentCommitted ==
  ASSUME ApKept, NEW c \in Call, CommitPayment(c)
  PROVE  ApKept'
<1>1. PICK t : t = call[c]
  OBVIOUS
<1>2. /\ t.pc = "paying" /\ entry' = entry /\ run' = run /\ aborted' = aborted
      /\ bill' \in [Bill -> BillRow] /\ payment' \in Seq(Payment) /\ \A p \in DOMAIN payment : p \in DOMAIN payment'
      /\ \A b \in Bill : bill'[b] = IF t.alloc[b] = 0 THEN bill[b] ELSE t.written[b]
      /\ \A b \in Bill : TotalOf(PaidTo(b), DOMAIN payment)' = TotalOf(PaidTo(b), DOMAIN payment) + t.alloc[b]
      /\ \A p \in DOMAIN payment : payment'[p].byRun = payment[p].byRun /\ payment'[p].vendor = payment[p].vendor
      /\ t.from = "old" => DOMAIN payment' = DOMAIN payment
      /\ t.from # "old" =>
           \E q \in Nat : /\ q \notin DOMAIN payment /\ DOMAIN payment' = DOMAIN payment \union {q}
                          /\ payment'[q].vendor = t.vendor /\ (payment'[q].byRun <=> t.from = "run")
                          /\ \A p \in DOMAIN payment : payment'[p].unapplied = payment[p].unapplied
  BY <1>1, PaymentWrites
<1>3. /\ t \in [pc : {"paying"}, from : {"new", "old", "run"}, payment : Nat, vendor : Vendor, gross : Int, remaining : Int,
                amounts : ApItems, written : [Bill -> BillRow], alloc : ApItems, vendors : SUBSET Vendor, items : ApItems]
      /\ t # Idle /\ ApKnown(t) /\ ApRows(t, touches[c]) /\ (disjoint => ApHeld(t))
      /\ Idle \in ApCall /\ ApKnown(Idle) /\ ApHeld(Idle)
  BY <1>1, <1>2, PayingHas
<1>4. ApTyped /\ aborted' \in BOOLEAN /\ entry' \in Seq(Entry) /\ run' \in RunRow /\ ApGrown
  BY <1>2 DEF ApKept, ApTyped, ApGrown
<1>5. PICK next : next = IF t.from = "run" THEN [pc |-> "running", vendors |-> t.vendors, items |-> t.items] ELSE Idle
  OBVIOUS
<1>6. next \in ApCall /\ (t.from = "run" => next # Idle /\ next.pc = "running" /\ next.vendors = t.vendors /\ next.items = t.items)
      /\ (t.from # "run" => next = Idle /\ next.pc = "idle")
  BY <1>3, <1>5 DEF ApCall, Idle
<1>7. ApKnown(next)' /\ ApRows(next, touches[c]) /\ (Posting(next) <=> t.from = "run")
  BY <1>2, <1>3, <1>6 DEF ApKnown, ApRows, Posting
<1>8. /\ t.from = "run" => Await(c, next)
      /\ t.from # "run" => Answer(c)
  BY <1>1, <1>5 DEF CommitPayment
<1>9. Apart' /\ Moved(c) /\ call'[c] = next /\ ApRows(next, touches'[c])
  <2>1. CASE t.from = "run"
    BY <1>1, <1>3, <1>4, <1>6, <1>7, <1>8, <2>1, ApMoves
  <2>2. CASE t.from # "run"
    BY <1>4, <1>6, <1>8, <2>2, ApMoves
  <2> QED BY <2>1, <2>2
<1>10. \A b \in Bill : b \notin touches[c] => bill'[b] = bill[b]
  BY <1>2, <1>3 DEF ApRows
<1>11. "payments" \notin touches[c] => \A p \in DOMAIN payment : payment'[p].unapplied = payment[p].unapplied
  BY <1>2, <1>3 DEF ApRows
<1>12. ASSUME NEW v, UnpaidBy(v), t.from # "run" \/ v # t.vendor PROVE UnpaidBy(v)'
  <2>1. \A p \in DOMAIN payment : payment'[p].byRun => payment'[p].vendor # v
    BY <1>2, <1>12 DEF UnpaidBy
  <2>2. CASE t.from = "old"
    BY <1>2, <2>1, <2>2 DEF UnpaidBy
  <2>3. CASE t.from # "old"
    <3>1. PICK q \in Nat : /\ q \notin DOMAIN payment /\ DOMAIN payment' = DOMAIN payment \union {q}
                           /\ payment'[q].vendor = t.vendor /\ (payment'[q].byRun <=> t.from = "run")
      BY <1>2, <2>3
    <3> QED BY <1>12, <2>1, <3>1 DEF UnpaidBy
  <2> QED BY <2>2, <2>3
<1>13. "run" \notin touches[c] => run'.status = run.status /\ (~ aborted' => \A v \in Vendor : UnpaidBy(v) => UnpaidBy(v)')
  <2>1. "run" \notin touches[c] => t.from # "run"
    BY <1>2, <1>3 DEF ApRows, Posting
  <2> QED BY <1>2, <1>12, <2>1
<1>14. disjoint' => disjoint
  BY <1>9 DEF Moved
<1>15. ASSUME disjoint PROVE ApHeld(next)'
  <2>1. ApHeld(t) /\ (t.from = "run" => Posting(t))
    BY <1>2, <1>3, <1>15 DEF Posting
  <2>2. ASSUME t.from = "run", ~ aborted', NEW v \in t.vendors PROVE UnpaidBy(v)'
    BY <1>2, <1>12, <2>1, <2>2 DEF ApHeld
  <2>3. CASE t.from = "run"
    BY <1>2, <1>6, <1>7, <2>1, <2>2, <2>3 DEF ApHeld
  <2>4. CASE t.from # "run"
    BY <1>6, <1>7, <2>4 DEF ApHeld
  <2> QED BY <2>3, <2>4
<1>16. ASSUME disjoint, ApHolds, NEW b \in Bill PROVE BillSound(b)'
  <2>1. BillSound(b) /\ ApHeld(t)
    BY <1>3, <1>16 DEF ApHolds
  <2>2. TotalOf(PaidTo(b), DOMAIN payment)' = bill[b].paid + t.alloc[b]
    BY <1>2, <2>1 DEF BillSound
  <2>3. CASE t.alloc[b] = 0
    <3>1. bill'[b] = bill[b] /\ bill[b].paid \in Nat /\ (Live(b)' <=> Live(b))
      BY <1>2, <1>4, <2>3, ApTerms DEF BillRow, Live
    <3> QED BY <2>1, <2>2, <2>3, <3>1 DEF BillSound
  <2>4. CASE t.alloc[b] # 0
    <3>1. WrittenFor(t, b) /\ bill'[b] = t.written[b]
      BY <1>2, <2>1, <2>4 DEF ApHeld
    <3>2. Live(b)'
      BY <3>1 DEF WrittenFor, Live
    <3> QED BY <2>1, <2>2, <3>1, <3>2 DEF BillSound, WrittenFor
  <2> QED BY <2>3, <2>4
<1>17. ASSUME disjoint, ApHolds, ~ aborted PROVE RunSound'
  <2>1. RunSound /\ ApHeld(t)
    BY <1>3, <1>17 DEF ApHolds
  <2>2. t.from = "run" => UnpaidBy(t.vendor)
    BY <1>2, <1>17, <2>1 DEF ApHeld, Posting
  <2>3. \A p, q \in DOMAIN payment' : payment'[p].byRun /\ payment'[q].byRun /\ payment'[p].vendor = payment'[q].vendor => p = q
    <3>1. \A p, q \in DOMAIN payment : payment'[p].byRun /\ payment'[q].byRun /\ payment'[p].vendor = payment'[q].vendor => p = q
      BY <1>2, <1>17, <2>1 DEF RunSound
    <3>2. CASE t.from = "old"
      BY <1>2, <3>1, <3>2
    <3>3. CASE t.from # "old"
      <4>1. PICK r \in Nat : /\ r \notin DOMAIN payment /\ DOMAIN payment' = DOMAIN payment \union {r}
                             /\ payment'[r].vendor = t.vendor /\ (payment'[r].byRun <=> t.from = "run")
        BY <1>2, <3>3
      <4>2. ASSUME NEW p \in DOMAIN payment, payment'[p].byRun, payment'[r].byRun PROVE payment'[p].vendor # payment'[r].vendor
        BY <1>2, <2>2, <4>1, <4>2 DEF UnpaidBy
      <4> QED BY <3>1, <4>1, <4>2
    <3> QED BY <3>2, <3>3
  <2>4. (\E p \in DOMAIN payment' : payment'[p].byRun) => run'.status = "POSTED" \/ \E d \in Call : Posting(call'[d])
    <3>1. CASE t.from = "run"
      BY <1>7, <1>9, <3>1
    <3>2. CASE t.from # "run"
      <4>1. (\E p \in DOMAIN payment' : payment'[p].byRun) => \E p \in DOMAIN payment : payment[p].byRun
        <5>1. CASE t.from = "old"
          BY <1>2, <5>1
        <5>2. CASE t.from # "old"
          BY <1>2, <3>2, <5>2
        <5> QED BY <5>1, <5>2
      <4>2. ASSUME NEW d \in Call, Posting(call[d]) PROVE Posting(call'[d])
        <5>1. d # c
          BY <1>1, <1>2, <3>2, <4>2 DEF Posting
        <5> QED BY <1>9, <4>2, <5>1 DEF Moved
      <4> QED BY <1>2, <1>17, <2>1, <4>1, <4>2 DEF RunSound
    <3> QED BY <3>1, <3>2
  <2>5. \A d \in Call : Posting(call[d])' <=> Posting(call'[d])
    BY DEF Posting
  <2> QED BY <1>2, <1>17, <2>3, <2>4, <2>5 DEF RunSound
<1>18. disjoint' /\ ApHolds => RunSound'
  <2>1. aborted' => RunSound'
    BY DEF RunSound
  <2> QED BY <1>2, <1>14, <1>17, <2>1
<1> QED BY <1>2, <1>4, <1>6, <1>7, <1>9, <1>10, <1>11, <1>13, <1>14, <1>15, <1>16, <1>18, ApFrame

-----------------------------------------------------------------------------
\* A bill is created, or nothing happens.
LEMMA ApFree ==
  ASSUME ApKept, UNCHANGED requestVars, UNCHANGED <<entry, payment, run, aborted>>, bill' \in [Bill -> BillRow],
         \A b \in Bill : \/ bill'[b] = bill[b]
                         \/ bill[b].status = "absent" /\ bill'[b].status = "DRAFT" /\ bill'[b].paid = bill[b].paid
  PROVE  ApKept'
<1>1. /\ call' = call /\ touches' = touches /\ disjoint' = disjoint /\ faults' = faults /\ ApTyped
      /\ entry' = entry /\ payment' = payment /\ run' = run /\ aborted' = aborted
  BY DEF requestVars, ApKept
<1>2. Apart' /\ ApGrown
  BY <1>1, ApartStays DEF ApTyped, ApGrown
<1>3. ASSUME NEW d \in Call
      PROVE  ApKnown(call[d])' /\ ApRows(call[d], touches[d])' /\ (ApHolds => ApHeld(call[d])')
  <2>1. PICK t, R : t = call[d] /\ R = touches[d]
    OBVIOUS
  <2>2. t \in ApCall /\ ApKnown(t) /\ ApRows(t, R) /\ call'[d] = t /\ touches'[d] = R
    BY <1>1, <2>1 DEF ApTyped
  <2>3. ApUntouched(R)
    BY <1>1 DEF ApUntouched, UnpaidBy
  <2>4. ApKnown(t)' /\ (ApHeld(t) => ApHeld(t)')
    BY <1>2, <2>2, <2>3, ApHeldStays
  <2>5. ApHolds => ApHeld(t)
    BY <2>1 DEF ApHolds
  <2>6. (ApKnown(call[d])' <=> ApKnown(t)') /\ (ApRows(call[d], touches[d])' <=> ApRows(t, R))
    BY <2>2 DEF ApKnown, ApRows, Posting
  <2>7. ApHeld(call[d])' <=> ApHeld(t)'
    BY <2>2 DEF ApHeld, WrittenFor, Posting, UnpaidBy, TotalOf, Live
  <2> QED BY <2>2, <2>4, <2>5, <2>6, <2>7
<1>4. ApTyped'
  <2>1. \A d \in Call : ApKnown(call[d])' /\ ApRows(call[d], touches[d])'
    BY <1>3
  <2> QED BY <1>1, <1>2, <2>1 DEF ApTyped
<1>5. ASSUME disjoint PROVE ApHolds'
  <2>1. ApHolds
    BY <1>5 DEF ApKept
  <2>2. ASSUME NEW b \in Bill PROVE BillSound(b)'
    <3>1. BillSound(b) /\ PaidTo(b)' = PaidTo(b)
      BY <1>1, <2>1 DEF ApHolds, PaidTo
    <3>2. CASE bill'[b] = bill[b]
      <4>1. Live(b)' <=> Live(b)
        BY <3>2 DEF Live
      <4> QED BY <1>1, <3>1, <3>2, <4>1 DEF BillSound, TotalOf
    <3>3. CASE bill[b].status = "absent" /\ bill'[b].status = "DRAFT" /\ bill'[b].paid = bill[b].paid
      <4>1. ~ Live(b) /\ ~ Live(b)' /\ bill'[b].total \in Nat
        BY <3>3 DEF Live, BillRow
      <4> QED BY <1>1, <3>1, <3>3, <4>1 DEF BillSound, TotalOf
    <3> QED BY <3>2, <3>3
  <2>3. RunSound'
    BY <1>1, <2>1 DEF ApHolds, RunSound, Posting
  <2>4. \A d \in Call : ApHeld(call[d])'
    BY <1>3, <2>1
  <2> QED BY <2>2, <2>3, <2>4 DEF ApHolds
<1> QED BY <1>1, <1>4, <1>5 DEF ApKept

LEMMA BillCreated ==
  ASSUME ApKept, NEW b \in Bill, NEW n \in Totals, CreateBill(b, n)
  PROVE  ApKept'
<1>1. bill \in [Bill -> BillRow] /\ bill[b] \in BillRow /\ n \in Nat
  BY ApTerms, PayablesAssumption DEF ApKept
<1>2. PICK x : x = [bill[b] EXCEPT !.status = "DRAFT"]
  OBVIOUS
<1>3. x \in BillRow /\ x.status = "DRAFT" /\ x.paid = bill[b].paid
  BY <1>1, <1>2 DEF BillRow, BillStatus
<1>4. PICK row : row = [x EXCEPT !.total = n, !.due = n]
  OBVIOUS
<1>5. row \in BillRow /\ row.status = "DRAFT" /\ row.paid = bill[b].paid
  <2>1. PICK y : y = [x EXCEPT !.total = n]
    OBVIOUS
  <2>2. y \in BillRow /\ y.status = "DRAFT" /\ y.paid = bill[b].paid
    BY <1>1, <1>3, <2>1 DEF BillRow
  <2>3. row = [y EXCEPT !.due = n]
    BY <1>3, <1>4, <2>1 DEF BillRow
  <2> QED BY <1>1, <2>2, <2>3 DEF BillRow
<1>6. bill' = [bill EXCEPT ![b] = row] /\ bill[b].status = "absent" /\ UNCHANGED requestVars /\ UNCHANGED <<entry, payment, run, aborted>>
  BY <1>1, <1>2, <1>4 DEF CreateBill, BillRow
<1>7. bill' \in [Bill -> BillRow] /\ bill'[b] = row /\ \A a \in Bill : a # b => bill'[a] = bill[a]
  BY <1>1, <1>5, <1>6
<1> QED BY <1>5, <1>6, <1>7, ApFree

LEMMA ApStep == ApKept /\ [PayablesNext]_<<payablesVars, requestVars>> => ApKept'
<1> SUFFICES ASSUME ApKept, [PayablesNext]_<<payablesVars, requestVars>> PROVE ApKept'
  OBVIOUS
<1>1. bill \in [Bill -> BillRow]
  BY DEF ApKept, ApTyped
<1>2. ASSUME NEW b \in Bill, Hold(b) PROVE ApKept'
  <2>1. bill' = bill /\ UNCHANGED <<entry, payment, run, aborted>> /\ UNCHANGED requestVars
    BY <1>2 DEF Hold
  <2> QED BY <1>1, <2>1, ApFree
<1>3. CASE UNCHANGED <<payablesVars, requestVars>>
  <2>1. bill' = bill /\ UNCHANGED <<entry, payment, run, aborted>> /\ UNCHANGED requestVars
    BY <1>3 DEF payablesVars
  <2> QED BY <1>1, <2>1, ApFree
<1>4. ASSUME NEW c \in Call, NEW b \in Bill, NEW pc \in {"editing", "posting", "voiding"}, ReadBill(c, b, pc) PROVE ApKept'
  BY <1>4, BillRead
<1>5. ASSUME NEW c \in Call, NEW b \in Bill, ReadRun(c, b, "toggling") \/ ReadRun(c, b, "approving") PROVE ApKept'
  BY <1>5, RunRead
<1>6. ASSUME NEW c \in Call,
             \/ \E b \in Bill : \/ \E n \in Amounts : CreatePayment(c, b, n)
                                \/ \E p \in DOMAIN payment : AllocatePayment(c, p, b)
                                \/ ApplyAllocation(c, b)
             \/ CommitPayment(c) \/ (\E v \in Vendor : PayVendor(c, v)) \/ BeginPost(c) \/ ListDue(c)
      PROVE  ApKept'
  BY <1>6, PaymentBegun, AllocationBegun, AllocationApplied, PaymentCommitted, VendorPaid, PostBegun, DueListed
<1>7. ASSUME NEW c \in Call,
             \/ (\E n \in Totals : SaveEdit(c, n)) \/ CommitPost(c) \/ ReverseBillEntry(c) \/ CommitVoid(c)
             \/ SaveRun(c) \/ SaveItems(c) \/ SaveItem(c) \/ SaveApproval(c) \/ FinishRun(c)
             \/ Refused(c) \/ PerishInPayables(c)
      PROVE  ApKept'
  BY <1>7, BillChanges, RunChanges, PayablesEnds
<1> QED BY <1>2, <1>3, <1>4, <1>5, <1>6, <1>7, BillCreated DEF PayablesNext

LEMMA ApStarts == PayablesInit => ApKept
<1> SUFFICES ASSUME PayablesInit PROVE ApKept
  OBVIOUS
<1>1. /\ Apart /\ bill = NoBills /\ entry = <<>> /\ payment = <<>> /\ aborted = FALSE /\ \A c \in Call : call[c] = Idle
      /\ run = [status |-> "absent", items |-> NoAllocation, included |-> {}]
  BY ApartStarts DEF PayablesInit, RequestsInit
<1>2. ApTyped
  <2>1. call \in [Call -> ApCall]
    BY DEF PayablesInit, RequestsInit, ApCall
  <2>2. run \in RunRow
    BY <1>1, NothingAllocated DEF RunRow, RunStatus, ApItems
  <2>3. \A c \in Call : ApKnown(call[c]) /\ ApRows(call[c], touches[c])
    BY <1>1 DEF ApKnown, ApRows, Idle, Posting
  <2>4. bill \in [Bill -> BillRow]
    BY <1>1, NothingAllocated
  <2>5. entry \in Seq(Entry) /\ payment \in Seq(Payment)
    BY <1>1
  <2>6. aborted \in BOOLEAN
    BY <1>1
  <2> QED BY <1>1, <2>1, <2>2, <2>3, <2>4, <2>5, <2>6 DEF ApTyped
<1>3. \A c \in Call : ApHeld(call[c]) /\ ~ Posting(call[c])
  BY <1>1 DEF ApHeld, Idle, Posting
<1>4. ASSUME NEW b \in Bill PROVE BillSound(b)
  <2>1. bill[b].status = "absent" /\ bill[b].paid = 0 /\ bill[b].total = 0
    BY <1>1 DEF NoBills
  <2>2. DOMAIN payment = {}
    BY <1>1
  <2>3. TotalOf(PaidTo(b), DOMAIN payment) = 0
    BY <2>2, SumEmpty DEF TotalOf
  <2> QED BY <2>1, <2>3 DEF BillSound, Live
<1>5. RunSound
  BY <1>1 DEF RunSound
<1> QED BY <1>2, <1>3, <1>4, <1>5 DEF ApKept, ApHolds

\* In every state, for any bills, vendors and amounts, and whatever requests come, fail
\* and die: as long as those for common rows do not overlap, what a bill says was paid is
\* what was allocated to it and no more than its total, and a run whose posting never
\* broke off pays each vendor once (ApService, PaymentRunService).
THEOREM BillsArePaidOnce == PayablesSpec => []BillPaidOnce
<1>1. PayablesInit => ApKept
  BY ApStarts
<1>2. ApKept /\ [PayablesNext]_<<payablesVars, requestVars>> => ApKept'
  BY ApStep
<1>3. ApKept => BillPaidOnce
  <2> SUFFICES ASSUME ApKept, disjoint PROVE BillPaidOnce
    BY DEF BillPaidOnce
  <2>1. ApHolds
    BY DEF ApKept
  <2>2. \A b \in Bill : /\ TotalOf([p \in DOMAIN payment |-> payment[p].alloc[b]], DOMAIN payment) = bill[b].paid
                        /\ bill[b].paid <= bill[b].total
    BY <2>1 DEF ApHolds, BillSound, PaidTo
  <2>3. ASSUME ~ aborted, NEW v \in Vendor
        PROVE  Cardinality({p \in DOMAIN payment : payment[p].byRun /\ payment[p].vendor = v}) <= 1
    <3>1. PICK P : P = {p \in DOMAIN payment : payment[p].byRun /\ payment[p].vendor = v}
      OBVIOUS
    <3>2. \A p, q \in P : p = q
      BY <2>1, <2>3, <3>1 DEF ApHolds, RunSound
    <3>3. CASE P = {}
      <4>1. Cardinality(P) = 0
        BY <3>3, FS_EmptySet
      <4> QED BY <3>1, <4>1
    <3>4. CASE P # {}
      <4>1. PICK p : P = {p}
        BY <3>2, <3>4
      <4>2. Cardinality(P) = 1
        BY <4>1, FS_Singleton
      <4> QED BY <3>1, <4>2
    <3> QED BY <3>3, <3>4
  <2> QED BY <2>2, <2>3 DEF BillPaidOnce
<1> QED BY <1>1, <1>2, <1>3, PTL DEF PayablesSpec

-----------------------------------------------------------------------------
\* What AccountsSound adds up.
LEMMA AccountTerms ==
  ASSUME ApTyped
  PROVE  /\ DOMAIN Posted = DOMAIN entry /\ \A e \in DOMAIN entry : Posted[e] = OnAccount(entry[e]) /\ Posted[e] \in Int
         /\ TotalOf(Posted, DOMAIN entry) \in Int /\ TotalOf(Posted, DOMAIN entry) = SumFunction(Posted)
         /\ TotalOf(Grosses, DOMAIN payment) \in Int /\ TotalOf(Unapplied, DOMAIN payment) \in Int
         /\ \A b \in Bill : Owed[b] = (IF bill[b].entry # 0 /\ entry[bill[b].entry].reversed THEN 0 - bill[b].total ELSE IF Live(b) THEN bill[b].due ELSE 0) /\ Owed[b] \in Int
         /\ TotalOf(Owed, Bill) \in Int
<1>1. IsFiniteSet(DOMAIN entry) /\ IsFiniteSet(DOMAIN payment)
  <2>1. PICK n \in Nat, m \in Nat : DOMAIN entry = 1 .. n /\ DOMAIN payment = 1 .. m
    BY ApTerms
  <2> QED BY <2>1, SegmentFinite
<1>2. \A e \in DOMAIN entry : entry[e].amount \in Int
  BY ApTerms DEF Entry
<1>3. DOMAIN Posted = DOMAIN entry /\ \A e \in DOMAIN entry : Posted[e] = OnAccount(entry[e]) /\ Posted[e] \in Int
  BY <1>2 DEF Posted, OnAccount
<1>4. TotalOf(Posted, DOMAIN entry) \in Int /\ TotalOf(Posted, DOMAIN entry) = SumFunction(Posted)
  BY <1>1, <1>3, SumStep DEF TotalOf, SumFunction
<1>5. \A b \in Bill : Owed[b] = (IF bill[b].entry # 0 /\ entry[bill[b].entry].reversed THEN 0 - bill[b].total ELSE IF Live(b) THEN bill[b].due ELSE 0) /\ Owed[b] \in Int
  <2>1. \A b \in Bill : bill[b].due \in Int /\ bill[b].total \in Int
    BY ApTerms DEF BillRow
  <2> QED BY <2>1 DEF Owed
<1>6. TotalOf(Owed, Bill) \in Int
  BY <1>5, SumStep, PayablesAssumption DEF TotalOf
<1>7. TotalOf(Grosses, DOMAIN payment) \in Int
  BY <1>1, PaymentSums, SumStep DEF TotalOf
<1>8. TotalOf(Unapplied, DOMAIN payment) \in Int
  BY <1>1, PaymentSums, SumStep DEF TotalOf
<1> QED BY <1>3, <1>4, <1>5, <1>6, <1>7, <1>8

\* A step that changes no amount.
LEMMA ControlStill ==
  ASSUME ApKept, ControlKept, Undisturbed' => Undisturbed, UNCHANGED <<entry, payment>>,
         Undisturbed' => \A b \in Bill :
           \/ bill'[b] = bill[b]
           \/ /\ bill[b].status \in {"absent", "DRAFT"} /\ bill'[b].status \in {"absent", "DRAFT"}
              /\ bill'[b].entry = bill[b].entry,
         Undisturbed' => \A d \in Call :
           /\ call[d].pc = "reversed" => call'[d] = call[d]
           /\ call'[d].pc = "reversed" => call'[d] = call[d] \/ call'[d].seen.entry = 0
  PROVE  ControlKept'
<1> SUFFICES ASSUME Undisturbed' PROVE AccountsSound'
  BY DEF ControlKept
<1>1. AccountsSound /\ entry' = entry /\ payment' = payment /\ IsFiniteSet(Bill)
  BY PayablesAssumption DEF ControlKept
<1>2. ASSUME NEW b \in Bill PROVE Reversing(b) => Reversing(b)'
  BY DEF Reversing
<1>3. ASSUME NEW b \in Bill
      PROVE  bill'[b].entry = bill[b].entry /\ (Live(b)' <=> Live(b)) /\ (Live(b) => bill'[b] = bill[b])
  BY DEF Live
<1>4. ASSUME NEW b \in Bill PROVE EntrySound(b)'
  <2>1. EntrySound(b)
    BY <1>1 DEF AccountsSound
  <2>2. bill'[b].status = "VOID" => bill[b].status = "VOID"
    OBVIOUS
  <2>3. bill'[b].status \in {"absent", "DRAFT"} => bill[b].status \in {"absent", "DRAFT"}
    OBVIOUS
  <2> QED BY <1>1, <1>2, <1>3, <2>1, <2>2, <2>3 DEF EntrySound
<1>5. ASSUME NEW b \in Bill PROVE Owed'[b] = Owed[b]
  <2>1. CASE bill'[b] = bill[b]
    BY <1>1, <1>3, <2>1 DEF Owed
  <2>2. CASE bill'[b] # bill[b]
    <3>1. bill[b].entry = 0 /\ bill'[b].entry = 0
      BY <1>1, <1>3, <2>2 DEF AccountsSound, EntrySound
    <3>2. ~ Live(b) /\ ~ Live(b)'
      BY <1>3, <2>2
    <3> QED BY <3>1, <3>2 DEF Owed
  <2> QED BY <2>1, <2>2
<1>6. TotalOf(Owed, Bill)' = TotalOf(Owed, Bill)
  BY <1>1, <1>5, SumSame DEF TotalOf
<1>7. Posted' = Posted /\ Grosses' = Grosses /\ Unapplied' = Unapplied
  BY <1>1 DEF Posted, Grosses, Unapplied
<1>8. \A d \in Call : call'[d].pc = "reversed" /\ call'[d].seen.entry # 0 => entry'[call'[d].seen.entry].reversed
  BY <1>1 DEF AccountsSound
<1> QED BY <1>1, <1>4, <1>6, <1>7, <1>8 DEF AccountsSound, TotalOf

\* A step of a request that changes no amount.
LEMMA ControlMoves ==
  ASSUME ApKept, ControlKept, NEW c \in Call, NEW next, UNCHANGED <<entry, payment>>, call[c].pc # "reversed",
         \/ next.pc # "idle" /\ \E R : R # {} /\ Arrive(c, R, next)
         \/ next.pc # "idle" /\ call[c] # Idle /\ Await(c, next)
         \/ next = Idle /\ Answer(c),
         next.pc = "reversed" => next.seen.entry = 0,
         Undisturbed' => \A b \in Bill :
           \/ bill'[b] = bill[b]
           \/ /\ bill[b].status \in {"absent", "DRAFT"} /\ bill'[b].status \in {"absent", "DRAFT"}
              /\ bill'[b].entry = bill[b].entry
  PROVE  ControlKept'
<1>1. Apart /\ Idle.pc = "idle"
  BY DEF ApKept, ApTyped, Idle
<1>2. Moved(c) /\ call'[c] = next
  BY <1>1, Arriving, Awaiting, Answering
<1>3. ASSUME NEW d \in Call
      PROVE  /\ call[d].pc = "reversed" => call'[d] = call[d]
             /\ call'[d].pc = "reversed" => call'[d] = call[d] \/ call'[d].seen.entry = 0
  BY <1>2 DEF Moved
<1>4. Undisturbed' => Undisturbed
  BY <1>2 DEF Moved
<1> QED BY <1>3, <1>4, ControlStill

\* Steps that change no amount.
LEMMA ControlArrives ==
  ASSUME ApKept, ControlKept, NEW c \in Call,
         \/ \E b \in Bill : \/ \E pc \in {"editing", "posting", "voiding"} : ReadBill(c, b, pc)
                            \/ \E n \in Amounts : CreatePayment(c, b, n)
                            \/ \E p \in DOMAIN payment : AllocatePayment(c, p, b)
                            \/ ReadRun(c, b, "toggling") \/ ReadRun(c, b, "approving")
         \/ ListDue(c) \/ BeginPost(c)
  PROVE  ControlKept'
<1>1. UNCHANGED payablesVars
  BY DEF ReadBill, CreatePayment, AllocatePayment, ReadRun, ListDue, BeginPost
<1>2. entry' = entry /\ payment' = payment /\ \A b \in Bill : bill'[b] = bill[b]
  BY <1>1 DEF payablesVars
<1>3. PICK next, R : next.pc \notin {"idle", "reversed"} /\ R # {} /\ Arrive(c, R, next)
  <2>1. CASE \E b \in Bill : \E pc \in {"editing", "posting", "voiding"} : ReadBill(c, b, pc)
    <3>1. PICK b \in Bill, pc \in {"editing", "posting", "voiding"} : Arrive(c, {b}, [pc |-> pc, b |-> b, seen |-> bill[b]])
      BY <2>1 DEF ReadBill
    <3>2. PICK next : next = [pc |-> pc, b |-> b, seen |-> bill[b]]
      OBVIOUS
    <3>3. next.pc \notin {"idle", "reversed"} /\ Arrive(c, {b}, next)
      BY <3>1, <3>2
    <3> QED BY <3>3
  <2>2. CASE \E b \in Bill : \/ \E n \in Amounts : CreatePayment(c, b, n)
                             \/ \E p \in DOMAIN payment : AllocatePayment(c, p, b)
    <3>1. PICK b \in Bill : \/ \E n \in Amounts : CreatePayment(c, b, n)
                            \/ \E p \in DOMAIN payment : AllocatePayment(c, p, b)
      BY <2>2
    <3>2. CASE \E n \in Amounts : CreatePayment(c, b, n)
      <4>1. PICK n \in Amounts : CreatePayment(c, b, n)
        BY <3>2
      <4>2. PICK next : next = Paying("new", 0, VendorOf[b], n, n, [NoAllocation EXCEPT ![b] = n], {}, NoAllocation)
        OBVIOUS
      <4>3. Arrive(c, {b}, next)
        BY <4>1, <4>2 DEF CreatePayment
      <4>4. next.pc = "paying"
        BY <4>2 DEF Paying
      <4> QED BY <4>3, <4>4
    <3>3. CASE \E p \in DOMAIN payment : AllocatePayment(c, p, b)
      <4>1. PICK p \in DOMAIN payment : AllocatePayment(c, p, b)
        BY <3>3
      <4>2. PICK next : next = Paying("old", p, payment[p].vendor, 0, payment[p].unapplied,
                                      [NoAllocation EXCEPT ![b] = payment[p].unapplied], {}, NoAllocation)
        OBVIOUS
      <4>3. Arrive(c, {b, "payments"}, next)
        BY <4>1, <4>2 DEF AllocatePayment
      <4>4. next.pc = "paying"
        BY <4>2 DEF Paying
      <4> QED BY <4>3, <4>4
    <3> QED BY <3>1, <3>2, <3>3
  <2>3. CASE \E b \in Bill : ReadRun(c, b, "toggling") \/ ReadRun(c, b, "approving")
    <3>1. PICK b \in Bill, pc \in {"toggling", "approving"} : Arrive(c, {"run"}, [pc |-> pc, b |-> b])
      BY <2>3 DEF ReadRun
    <3>2. PICK next : next = [pc |-> pc, b |-> b]
      OBVIOUS
    <3>3. next.pc \notin {"idle", "reversed"} /\ Arrive(c, {"run"}, next)
      BY <3>1, <3>2
    <3> QED BY <3>3
  <2>4. CASE ListDue(c)
    <3>1. PICK due : Arrive(c, due \union {"run"},
                            [pc |-> "proposing", items |-> [b \in Bill |-> IF b \in due \ held THEN bill[b].due ELSE 0]])
      BY <2>4 DEF ListDue
    <3>2. PICK next : next = [pc |-> "proposing", items |-> [b \in Bill |-> IF b \in due \ held THEN bill[b].due ELSE 0]]
      OBVIOUS
    <3>3. Arrive(c, due \union {"run"}, next)
      BY <3>1, <3>2
    <3>4. next.pc \notin {"idle", "reversed"}
      BY <3>2
    <3> QED BY <3>3, <3>4
  <2>5. CASE BeginPost(c)
    <3>1. PICK next : next = [pc |-> "running", vendors |-> {VendorOf[b] : b \in run.included},
                              items |-> [b \in Bill |-> IF b \in run.included THEN run.items[b] ELSE 0]]
      OBVIOUS
    <3>2. Arrive(c, run.included \union {"run"}, next)
      BY <2>5, <3>1 DEF BeginPost
    <3>3. next.pc \notin {"idle", "reversed"}
      BY <3>1
    <3> QED BY <3>2, <3>3
  <2> QED BY <2>1, <2>2, <2>3, <2>4, <2>5
<1>4. call[c].pc # "reversed"
  BY <1>3 DEF Arrive, Idle
<1> QED BY <1>2, <1>3, <1>4, ControlMoves

LEMMA ControlGoesOn ==
  ASSUME ApKept, ControlKept, NEW c \in Call,
         \/ \E b \in Bill : ApplyAllocation(c, b)
         \/ \E v \in Vendor : PayVendor(c, v)
         \/ SaveRun(c) \/ SaveItems(c) \/ SaveItem(c) \/ SaveApproval(c) \/ FinishRun(c) \/ Refused(c)
  PROVE  ControlKept'
<1>1. UNCHANGED <<bill, entry, payment>>
  BY DEF ApplyAllocation, PayVendor, payablesVars, SaveRun, SaveItems, SaveItem, SaveApproval, FinishRun, Refused
<1>2. \A b \in Bill : bill'[b] = bill[b]
  BY <1>1
<1>3. call[c].pc \notin {"idle", "reversed"}
  BY DEF ApplyAllocation, PayVendor, SaveRun, SaveItems, SaveItem, SaveApproval, FinishRun, Refused, At
<1>4. call[c] # Idle
  BY <1>3 DEF Idle
<1>5. CASE Answer(c)
  <2>1. Idle.pc = "idle"
    BY DEF Idle
  <2> QED BY <1>1, <1>2, <1>3, <1>5, <2>1, ControlMoves
<1>6. CASE \E next : next.pc \notin {"idle", "reversed"} /\ Await(c, next)
  BY <1>1, <1>2, <1>3, <1>4, <1>6, ControlMoves
<1>7. ASSUME NEW b \in Bill, ApplyAllocation(c, b)
      PROVE  Answer(c) \/ \E next : next.pc \notin {"idle", "reversed"} /\ Await(c, next)
  <2>1. PICK t : t = call[c]
    OBVIOUS
  <2>2. t.pc = "paying"
    BY <1>7, <2>1 DEF ApplyAllocation, At
  <2>3. t \in [pc : {"paying"}, from : {"new", "old", "run"}, payment : Nat, vendor : Vendor, gross : Int, remaining : Int,
               amounts : ApItems, written : [Bill -> BillRow], alloc : ApItems, vendors : SUBSET Vendor, items : ApItems]
    BY <2>1, <2>2, PayingHas
  <2>4. CASE Rollback(c)
    BY <2>4 DEF Rollback
  <2>5. CASE ~ Rollback(c)
    <3>1. PICK amount, paid, due : /\ amount = Applied(t.amounts[b], bill[b].due, t.remaining)
                                   /\ paid = bill[b].paid + amount /\ due = bill[b].total - paid
      OBVIOUS
    <3>2. PICK rest : rest = [t EXCEPT !.amounts[b] = 0]
      OBVIOUS
    <3>3. rest.pc = "paying"
      BY <2>2, <2>3, <3>2
    <3>4. PICK next : next = IF amount <= 0 THEN rest
                             ELSE [rest EXCEPT !.remaining = @ - amount, !.alloc[b] = amount,
                                     !.written[b] = [bill[b] EXCEPT !.paid = paid, !.due = due,
                                                       !.status = IF due <= 0 THEN "PAID" ELSE "PARTIAL"]]
      OBVIOUS
    <3>5. Await(c, next)
      BY <1>7, <2>1, <2>5, <3>1, <3>2, <3>4 DEF ApplyAllocation
    <3>6. next.pc = "paying"
      BY <2>3, <3>2, <3>3, <3>4
    <3> QED BY <3>5, <3>6
  <2> QED BY <2>4, <2>5
<1>8. ASSUME NEW v \in Vendor, PayVendor(c, v) PROVE \E next : next.pc \notin {"idle", "reversed"} /\ Await(c, next)
  <2>1. PICK t, amounts : t = call[c] /\ amounts = [b \in Bill |-> IF VendorOf[b] = v THEN t.items[b] ELSE 0]
    OBVIOUS
  <2>2. PICK gross : gross = TotalOf(amounts, Bill)
    OBVIOUS
  <2>3. PICK next : next = Paying("run", 0, v, gross, gross, amounts, t.vendors \ {v}, t.items)
    OBVIOUS
  <2>4. Await(c, next)
    BY <1>8, <2>1, <2>2, <2>3 DEF PayVendor
  <2>5. next.pc = "paying"
    BY <2>3 DEF Paying
  <2> QED BY <2>4, <2>5
<1>9. ASSUME SaveRun(c) PROVE \E next : next.pc \notin {"idle", "reversed"} /\ Await(c, next)
  <2>1. PICK t : t = call[c]
    OBVIOUS
  <2>2. t \in ApCall /\ t.pc = "proposing"
    BY <1>9, <2>1 DEF SaveRun, At, ApKept, ApTyped
  <2>3. PICK next : next = [t EXCEPT !.pc = "itemizing"]
    OBVIOUS
  <2>4. next.pc = "itemizing"
    BY <2>2, <2>3, ApCallForms
  <2>5. Await(c, next)
    BY <1>9, <2>1, <2>3 DEF SaveRun
  <2> QED BY <2>4, <2>5
<1>10. SaveItems(c) \/ SaveItem(c) \/ SaveApproval(c) \/ FinishRun(c) \/ Refused(c) => Answer(c)
  BY DEF SaveItems, SaveItem, SaveApproval, FinishRun, Refused
<1> QED BY <1>5, <1>6, <1>7, <1>8, <1>9, <1>10

-----------------------------------------------------------------------------
\* The request works on the bill it has read.
LEMMA BillHas ==
  ASSUME ApKept, NEW c \in Call, NEW t, t = call[c], t.pc \in {"editing", "posting", "voiding", "reversed"}
  PROVE  /\ t \in [pc : {"editing", "posting", "voiding", "reversed"}, b : Bill, seen : BillRow]
         /\ t # Idle /\ t.b \in Bill /\ t.b \in touches[c] /\ bill[t.b] \in BillRow /\ bill \in [Bill -> BillRow]
         /\ disjoint => t.seen = bill[t.b] /\ ApHeld(t) /\ BillSound(t.b)
<1>1. t \in ApCall /\ ApRows(t, touches[c]) /\ (disjoint => ApHeld(t)) /\ bill \in [Bill -> BillRow]
  BY DEF ApKept, ApTyped, ApHolds
<1>2. /\ t \in [pc : {"editing", "posting", "voiding", "reversed"}, b : Bill, seen : BillRow]
      /\ t.b \in touches[c] /\ t # Idle
  BY <1>1, ApCallForms DEF ApRows, Idle
<1>3. disjoint => BillSound(t.b)
  BY <1>2 DEF ApKept, ApHolds
<1> QED BY <1>1, <1>2, <1>3 DEF ApHeld

\* No other request works on it.
LEMMA AloneOnBill ==
  ASSUME ApKept, disjoint, NEW c \in Call, NEW b \in Bill, b \in touches[c]
  PROVE  /\ Reversing(b) => call[c].pc = "reversed"
         /\ \A d \in Call : d # c /\ call[d].pc = "reversed" => call[d].b # b
<1>1. ASSUME NEW d \in Call, call[d].pc = "reversed", call[d].b = b PROVE d = c
  <2>1. b \in touches[d]
    BY <1>1, BillHas
  <2> QED BY <2>1 DEF ApKept, ApTyped, Apart
<1> QED BY <1>1 DEF Reversing

\* The bills that are not yet owed, and the entries of the others, are left alone.
LEMMA BillEdited ==
  ASSUME ApKept, ControlKept, NEW c \in Call, NEW n \in Totals, SaveEdit(c, n)
  PROVE  ControlKept'
<1>1. PICK t, b, s : t = call[c] /\ b = t.b /\ s = t.seen
  OBVIOUS
<1>2. t.pc = "editing" /\ Answer(c) /\ UNCHANGED <<entry, payment>>
  BY <1>1 DEF SaveEdit, At
<1>3. /\ b \in Bill /\ bill[b] \in BillRow /\ bill \in [Bill -> BillRow]
      /\ disjoint => s = bill[b] /\ ApHeld(t)
  BY <1>1, <1>2, BillHas
<1>4. PICK due : due = n - s.paid
  OBVIOUS
<1>5. PICK row : row = [s EXCEPT !.total = n, !.due = due]
  OBVIOUS
<1>6. bill' = [bill EXCEPT ![b] = row]
  BY <1>1, <1>4, <1>5 DEF SaveEdit
<1>7. Idle.pc = "idle"
  BY DEF Idle
<1>8. Undisturbed' => disjoint
  <2>1. Apart
    BY DEF ApKept, ApTyped
  <2>2. Undisturbed' = Undisturbed
    BY <1>2, <2>1, Answering
  <2> QED BY <2>2 DEF Undisturbed
<1>9. ASSUME disjoint, NEW a \in Bill
      PROVE  \/ bill'[a] = bill[a]
             \/ /\ bill[a].status \in {"absent", "DRAFT"} /\ bill'[a].status \in {"absent", "DRAFT"}
                /\ bill'[a].entry = bill[a].entry
  <2>1. s.status = "DRAFT" /\ s = bill[b]
    BY <1>1, <1>2, <1>3, <1>9 DEF ApHeld
  <2>2. row.status = s.status /\ row.entry = s.entry
    BY <1>3, <1>5, <2>1 DEF BillRow
  <2>3. CASE a = b
    BY <1>3, <1>6, <2>1, <2>2, <2>3
  <2>4. CASE a # b
    BY <1>3, <1>6, <2>4
  <2> QED BY <2>3, <2>4
<1> QED BY <1>1, <1>2, <1>7, <1>8, <1>9, ControlMoves

LEMMA BillAdded ==
  ASSUME ApKept, ControlKept, NEW b \in Bill, NEW n \in Totals, CreateBill(b, n)
  PROVE  ControlKept'
<1>1. bill \in [Bill -> BillRow] /\ bill[b] \in BillRow
  BY ApTerms DEF ApKept
<1>2. PICK x : x = [bill[b] EXCEPT !.status = "DRAFT"]
  OBVIOUS
<1>3. x \in BillRow /\ x.status = "DRAFT" /\ x.entry = bill[b].entry
  BY <1>1, <1>2 DEF BillRow, BillStatus
<1>4. PICK row : row = [x EXCEPT !.total = n, !.due = n]
  OBVIOUS
<1>5. row.status = "DRAFT" /\ row.entry = bill[b].entry
  BY <1>3, <1>4 DEF BillRow
<1>6. bill' = [bill EXCEPT ![b] = row] /\ bill[b].status = "absent" /\ UNCHANGED requestVars /\ UNCHANGED <<entry, payment>>
  BY <1>1, <1>2, <1>4 DEF CreateBill, BillRow
<1>7. ASSUME NEW a \in Bill
      PROVE  \/ bill'[a] = bill[a]
             \/ /\ bill[a].status \in {"absent", "DRAFT"} /\ bill'[a].status \in {"absent", "DRAFT"}
                /\ bill'[a].entry = bill[a].entry
  BY <1>1, <1>5, <1>6
<1>8. call' = call /\ (Undisturbed' => Undisturbed)
  BY <1>6 DEF requestVars, Undisturbed
<1> QED BY <1>6, <1>7, <1>8, ControlStill

\* A bill is voided whose entry has been reversed.
LEMMA BillVoided ==
  ASSUME ApKept, ControlKept, NEW c \in Call, CommitVoid(c)
  PROVE  ControlKept'
<1> SUFFICES ASSUME Undisturbed' PROVE AccountsSound'
  BY DEF ControlKept
<1>1. PICK t, b, s : t = call[c] /\ b = t.b /\ s = t.seen
  OBVIOUS
<1>2. t.pc = "reversed" /\ Answer(c) /\ entry' = entry /\ payment' = payment
  BY <1>1 DEF CommitVoid, At
<1>3. Moved(c) /\ call'[c] = Idle /\ disjoint /\ Undisturbed /\ Idle.pc = "idle"
  <2>1. Apart
    BY DEF ApKept, ApTyped
  <2> QED BY <1>2, <2>1, Answering DEF Undisturbed, Idle
<1>4. /\ b \in Bill /\ bill[b] \in BillRow /\ bill \in [Bill -> BillRow] /\ b \in touches[c]
      /\ s = bill[b] /\ s.status # "absent"
  BY <1>1, <1>2, <1>3, BillHas DEF ApHeld
<1>5. PICK row : row = [s EXCEPT !.status = "VOID", !.due = 0]
  OBVIOUS
<1>6. row.status = "VOID" /\ row.entry = s.entry /\ row.total = s.total
  BY <1>4, <1>5 DEF BillRow
<1>7. bill'[b] = row /\ \A a \in Bill : a # b => bill'[a] = bill[a]
  BY <1>1, <1>2, <1>4, <1>5 DEF CommitVoid
<1>8. AccountsSound
  BY <1>3 DEF ControlKept
<1>9. s.entry # 0 => entry[s.entry].reversed
  BY <1>1, <1>2, <1>8 DEF AccountsSound
<1>10. \A a \in Bill : bill'[a].entry = bill[a].entry
  BY <1>4, <1>6, <1>7
<1>11. ASSUME NEW a \in Bill PROVE EntrySound(a)'
  <2>1. EntrySound(a) /\ EntrySound(b)
    BY <1>4, <1>8 DEF AccountsSound
  <2>2. CASE a = b
    <3>1. ~ Live(b)' /\ bill'[b].status = "VOID" /\ bill'[b].total = bill[b].total
      BY <1>4, <1>6, <1>7 DEF Live
    <3> QED BY <1>2, <1>4, <1>9, <1>10, <2>1, <2>2, <3>1 DEF EntrySound
  <2>3. CASE a # b
    <3>1. bill'[a] = bill[a] /\ (Live(a)' <=> Live(a))
      BY <1>7, <2>3 DEF Live
    <3>2. ASSUME Reversing(a) PROVE Reversing(a)'
      <4>1. PICK d \in Call : call[d].pc = "reversed" /\ call[d].b = a
        BY <3>2 DEF Reversing
      <4>2. d # c
        BY <1>1, <2>3, <4>1
      <4>3. call'[d] = call[d]
        BY <1>3, <4>2 DEF Moved
      <4> QED BY <4>1, <4>3 DEF Reversing
    <3> QED BY <1>2, <1>10, <2>1, <3>1, <3>2 DEF EntrySound
  <2> QED BY <2>2, <2>3
<1>12. \A d \in Call : call'[d].pc = "reversed" /\ call'[d].seen.entry # 0 => entry'[call'[d].seen.entry].reversed
  BY <1>2, <1>3, <1>8 DEF AccountsSound, Moved
<1>13. ASSUME NEW a \in Bill PROVE Owed'[a] = Owed[a]
  <2>1. CASE a # b
    BY <1>2, <1>7, <2>1 DEF Owed, Live
  <2>2. CASE a = b
    <3>1. ~ Live(b)'
      BY <1>6, <1>7 DEF Live
    <3>2. Live(b) => bill[b].entry # 0
      BY <1>4, <1>8 DEF AccountsSound, EntrySound
    <3>3. bill'[b].entry = bill[b].entry /\ bill'[b].total = bill[b].total
      BY <1>4, <1>6, <1>7
    <3>4. bill[b].entry # 0 => entry[bill[b].entry].reversed /\ entry'[bill[b].entry].reversed
      BY <1>2, <1>4, <1>9
    <3> QED BY <1>4, <2>2, <3>1, <3>2, <3>3, <3>4 DEF Owed
  <2> QED BY <2>1, <2>2
<1>14. TotalOf(Owed, Bill)' = TotalOf(Owed, Bill)
  BY <1>13, SumSame, PayablesAssumption DEF TotalOf
<1>15. Posted' = Posted /\ Grosses' = Grosses /\ Unapplied' = Unapplied
  BY <1>2 DEF Posted, Grosses, Unapplied
<1> QED BY <1>2, <1>8, <1>11, <1>12, <1>14, <1>15 DEF AccountsSound, TotalOf

\* What a request that has reversed an entry refers to.
LEMMA ReversedHas ==
  ASSUME ApKept, disjoint, AccountsSound, NEW d \in Call, call[d].pc = "reversed", call[d].seen.entry # 0
  PROVE  call[d].seen.entry \in DOMAIN entry /\ entry[call[d].seen.entry].reversed
<1>1. call[d].b \in Bill /\ call[d].seen = bill[call[d].b]
  BY BillHas
<1> QED BY <1>1 DEF AccountsSound, EntrySound

\* The entry of a bill that is owed is reversed: the bill is not owed any more.
LEMMA EntryTakenBack ==
  ASSUME ApKept, ControlKept, NEW c \in Call, NEW t, t = call[c], t.pc = "voiding", NEW e, e = t.seen.entry,
         e # 0, ~ entry[e].reversed, entry' = [entry EXCEPT ![e].reversed = TRUE],
         NEW next, next.pc = "reversed", next.b = t.b, next.seen = t.seen, Await(c, next), UNCHANGED <<bill, payment>>
  PROVE  ControlKept'
<1> SUFFICES ASSUME Undisturbed' PROVE AccountsSound'
  BY DEF ControlKept
<1>1. Moved(c) /\ call'[c] = next /\ disjoint /\ Undisturbed
  <2>1. Apart /\ t # Idle
    BY DEF ApKept, ApTyped, Idle
  <2> QED BY <2>1, Awaiting DEF Undisturbed
<1>2. PICK b : b = t.b
  OBVIOUS
<1>3. /\ b \in Bill /\ bill[b] \in BillRow /\ b \in touches[c] /\ t.seen = bill[b] /\ bill[b].status # "absent"
      /\ bill[b].paid = 0 /\ BillSound(b)
  <2>1. /\ b \in Bill /\ bill[b] \in BillRow /\ b \in touches[c] /\ t.seen = bill[b] /\ ApHeld(t) /\ BillSound(b)
    BY <1>1, <1>2, BillHas
  <2>2. bill[b].status # "absent" /\ bill[b].paid <= 0 /\ bill[b].paid \in Nat
    BY <2>1 DEF ApHeld, BillRow
  <2> QED BY <2>1, <2>2
<1>4. AccountsSound
  BY <1>1 DEF ControlKept
<1>5. e \in DOMAIN entry /\ Live(b) /\ entry[e].amount = bill[b].total /\ bill[b].entry = e
  <2>1. EntrySound(b) /\ bill[b].status \in BillStatus
    BY <1>3, <1>4 DEF AccountsSound, BillRow
  <2> QED BY <1>3, <2>1 DEF EntrySound, BillStatus, Live
<1>6. bill[b].due = bill[b].total /\ bill[b].total \in Nat
  BY <1>3, <1>5 DEF BillSound, BillRow
<1>7. ApTyped /\ bill' = bill /\ payment' = payment
  BY DEF ApKept
<1>8. /\ entry' \in Seq(Entry) /\ DOMAIN entry' = DOMAIN entry
      /\ \A f \in DOMAIN entry : /\ entry'[f].amount = entry[f].amount
                                /\ IF f = e THEN entry'[f].reversed ELSE entry'[f] = entry[f]
  BY <1>7, EntryReversed DEF ApTyped
<1>9. ASSUME NEW a \in Bill PROVE EntrySound(a)'
  <2>1. EntrySound(a) /\ EntrySound(b)
    BY <1>3, <1>4 DEF AccountsSound
  <2>2. Live(a)' <=> Live(a)
    BY <1>7 DEF Live
  <2>3. Live(a)' /\ entry'[bill[a].entry].reversed => Reversing(a)'
    <3>1. CASE a = b
      BY <1>1, <1>2, <3>1 DEF Reversing
    <3>2. CASE a # b
      <4>1. ASSUME Live(a), entry'[bill[a].entry].reversed PROVE Reversing(a)
        BY <1>5, <1>8, <2>1, <3>2, <4>1 DEF EntrySound
      <4>2. ASSUME Reversing(a) PROVE Reversing(a)'
        <5>1. PICK d \in Call : call[d].pc = "reversed" /\ call[d].b = a
          BY <4>2 DEF Reversing
        <5>2. call'[d] = call[d]
          BY <1>1, <5>1 DEF Moved
        <5> QED BY <5>1, <5>2 DEF Reversing
      <4> QED BY <2>2, <4>1, <4>2
    <3> QED BY <3>1, <3>2
  <2> QED BY <1>7, <1>8, <2>1, <2>2, <2>3 DEF EntrySound
<1>10. ASSUME NEW d \in Call, call'[d].pc = "reversed", call'[d].seen.entry # 0 PROVE entry'[call'[d].seen.entry].reversed
  <2>1. CASE d = c
    BY <1>1, <1>5, <1>8, <2>1
  <2>2. CASE d # c
    <3>1. call'[d] = call[d]
      BY <1>1, <2>2 DEF Moved
    <3>2. call[d].seen.entry \in DOMAIN entry /\ entry[call[d].seen.entry].reversed
      BY <1>1, <1>4, <1>10, <3>1, ReversedHas
    <3> QED BY <1>8, <3>1, <3>2
  <2> QED BY <2>1, <2>2
<1>11. TotalOf(Posted, DOMAIN entry)' = TotalOf(Posted, DOMAIN entry) - (bill[b].total + bill[b].total)
  <2>1. PICK f, g, S : f = Posted /\ g = Posted' /\ S = DOMAIN entry
    OBVIOUS
  <2>2. /\ \A x \in S : f[x] = OnAccount(entry[x]) /\ f[x] \in Int
        /\ \A x \in S : g[x] = OnAccount(entry'[x])
    BY <1>7, <1>8, <2>1, AccountTerms DEF Posted
  <2>3. f[e] = bill[b].total /\ g[e] = 0 - bill[b].total /\ e \in S /\ \A x \in S \ {e} : g[x] = f[x]
    BY <1>5, <1>8, <2>1, <2>2 DEF OnAccount
  <2>4. IsFiniteSet(S)
    <3>1. PICK n \in Nat : S = 1 .. n
      BY <1>7, <2>1, ApTerms
    <3> QED BY <3>1, SegmentFinite
  <2>5. g[e] \in Int
    BY <1>6, <2>3
  <2>6. SumFunctionOnSet(g, S) = SumFunctionOnSet(f, S) - f[e] + g[e]
    BY <2>2, <2>3, <2>4, <2>5, SumChange
  <2>7. SumFunctionOnSet(f, S) \in Int
    BY <2>2, <2>4, SumStep
  <2>8. SumFunctionOnSet(g, S) = SumFunctionOnSet(f, S) - (bill[b].total + bill[b].total)
    BY <1>6, <2>3, <2>6, <2>7
  <2> QED BY <1>8, <2>1, <2>8 DEF TotalOf
<1>12. TotalOf(Owed, Bill)' = TotalOf(Owed, Bill) - (bill[b].total + bill[b].total)
  <2>1. PICK f, g : f = Owed /\ g = Owed'
    OBVIOUS
  <2>2. /\ \A a \in Bill : f[a] = (IF bill[a].entry # 0 /\ entry[bill[a].entry].reversed THEN 0 - bill[a].total
                                ELSE IF Live(a) THEN bill[a].due ELSE 0) /\ f[a] \in Int
        /\ \A a \in Bill : g[a] = (IF bill[a].entry # 0 /\ entry'[bill[a].entry].reversed THEN 0 - bill[a].total
                                ELSE IF Live(a) THEN bill[a].due ELSE 0)
    <3>1. \A a \in Bill : Live(a)' <=> Live(a)
      BY <1>7 DEF Live
    <3> QED BY <1>7, <2>1, <3>1, AccountTerms DEF Owed
  <2>3. f[b] = bill[b].total /\ g[b] = 0 - bill[b].total
    BY <1>3, <1>5, <1>6, <1>8, <2>2
  <2>4. ASSUME NEW a \in Bill \ {b} PROVE g[a] = f[a]
    <3>1. EntrySound(a) /\ EntrySound(b)
      BY <1>3, <1>4 DEF AccountsSound
    <3>2. bill[a].entry # 0 => bill[a].entry \in DOMAIN entry /\ bill[a].entry # e
      BY <1>3, <1>5, <3>1 DEF EntrySound
    <3>3. bill[a].entry # 0 => entry'[bill[a].entry] = entry[bill[a].entry]
      BY <1>8, <3>2
    <3> QED BY <2>2, <3>3
  <2>5. g[b] \in Int /\ IsFiniteSet(Bill)
    BY <1>6, <2>3, PayablesAssumption
  <2>6. SumFunctionOnSet(g, Bill) = SumFunctionOnSet(f, Bill) - f[b] + g[b]
    BY <1>3, <2>2, <2>4, <2>5, SumChange
  <2>7. SumFunctionOnSet(f, Bill) \in Int
    BY <2>2, <2>5, SumStep
  <2>8. SumFunctionOnSet(g, Bill) = SumFunctionOnSet(f, Bill) - (bill[b].total + bill[b].total)
    BY <1>6, <2>3, <2>6, <2>7
  <2> QED BY <2>1, <2>8 DEF TotalOf
<1>13. Grosses' = Grosses /\ Unapplied' = Unapplied
  BY <1>7 DEF Grosses, Unapplied
<1>14. /\ TotalOf(Posted, DOMAIN entry)' - TotalOf(Grosses, DOMAIN payment)'
            = TotalOf(Owed, Bill)' - TotalOf(Unapplied, DOMAIN payment)'
  <2>1. TotalOf(Grosses, DOMAIN payment)' = TotalOf(Grosses, DOMAIN payment)
        /\ TotalOf(Unapplied, DOMAIN payment)' = TotalOf(Unapplied, DOMAIN payment)
    BY <1>7, <1>13 DEF TotalOf
  <2>2. /\ TotalOf(Posted, DOMAIN entry) \in Int /\ TotalOf(Grosses, DOMAIN payment) \in Int
        /\ TotalOf(Unapplied, DOMAIN payment) \in Int /\ TotalOf(Owed, Bill) \in Int
    BY <1>7, AccountTerms
  <2>3. TotalOf(Posted, DOMAIN entry) - TotalOf(Grosses, DOMAIN payment) = TotalOf(Owed, Bill) - TotalOf(Unapplied, DOMAIN payment)
    BY <1>4 DEF AccountsSound
  <2> QED BY <1>6, <1>11, <1>12, <2>1, <2>2, <2>3
<1> QED BY <1>9, <1>10, <1>14 DEF AccountsSound

LEMMA EntryTried ==
  ASSUME ApKept, ControlKept, NEW c \in Call, ReverseBillEntry(c)
  PROVE  ControlKept'
<1>1. PICK t : t = call[c]
  OBVIOUS
<1>2. t.pc = "voiding" /\ UNCHANGED <<bill, payment>>
  BY <1>1 DEF ReverseBillEntry, At
<1>3. t \in [pc : {"editing", "posting", "voiding", "reversed"}, b : Bill, seen : BillRow] /\ t # Idle
  BY <1>1, <1>2, BillHas
<1>4. PICK e, next : e = t.seen.entry /\ next = [t EXCEPT !.pc = "reversed"]
  OBVIOUS
<1>5. next.pc = "reversed" /\ next.b = t.b /\ next.seen = t.seen
  BY <1>3, <1>4
<1>6. \/ e = 0 /\ Await(c, next) /\ UNCHANGED entry
      \/ e # 0 /\ ~ entry[e].reversed /\ entry' = [entry EXCEPT ![e].reversed = TRUE] /\ Await(c, next)
      \/ e # 0 /\ entry[e].reversed /\ Answer(c) /\ UNCHANGED entry
  BY <1>1, <1>4 DEF ReverseBillEntry
<1>7. \A b \in Bill : bill'[b] = bill[b]
  BY <1>2
<1>8. CASE e = 0 /\ Await(c, next) /\ UNCHANGED entry
  <2>1. next.seen.entry = 0 /\ next.pc # "idle" /\ call[c] # Idle /\ call[c].pc # "reversed" /\ UNCHANGED <<entry, payment>>
    BY <1>1, <1>2, <1>3, <1>4, <1>5, <1>8
  <2> QED BY <1>7, <1>8, <2>1, ControlMoves
<1>9. CASE e # 0 /\ ~ entry[e].reversed /\ entry' = [entry EXCEPT ![e].reversed = TRUE] /\ Await(c, next)
  BY <1>1, <1>2, <1>4, <1>5, <1>9, EntryTakenBack
<1>10. CASE e # 0 /\ entry[e].reversed /\ Answer(c) /\ UNCHANGED entry
  <2>1. Idle.pc # "reversed"
    BY DEF Idle
  <2> QED BY <1>1, <1>2, <1>7, <1>10, <2>1, ControlMoves
<1> QED BY <1>6, <1>8, <1>9, <1>10

\* A bill is posted: it is owed, and its entry is new.
LEMMA BillPosted ==
  ASSUME ApKept, ControlKept, NEW c \in Call, CommitPost(c)
  PROVE  ControlKept'
<1> SUFFICES ASSUME Undisturbed' PROVE AccountsSound'
  BY DEF ControlKept
<1>1. PICK t, b, s : t = call[c] /\ b = t.b /\ s = t.seen
  OBVIOUS
<1>2. t.pc = "posting" /\ Answer(c) /\ payment' = payment
  BY <1>1 DEF CommitPost, At
<1>3. Moved(c) /\ call'[c] = Idle /\ disjoint /\ Undisturbed /\ Idle.pc = "idle"
  <2>1. Apart
    BY DEF ApKept, ApTyped
  <2> QED BY <1>2, <2>1, Answering DEF Undisturbed, Idle
<1>4. /\ b \in Bill /\ bill[b] \in BillRow /\ bill \in [Bill -> BillRow] /\ s = bill[b] /\ s.status = "DRAFT" /\ s.paid = 0
      /\ s.total \in Nat
  <2>1. /\ b \in Bill /\ bill[b] \in BillRow /\ bill \in [Bill -> BillRow] /\ s = bill[b] /\ s.status = "DRAFT" /\ BillSound(b)
    BY <1>1, <1>2, <1>3, BillHas DEF ApHeld
  <2>2. s.paid = 0 /\ s.total \in Nat
    BY <2>1 DEF BillSound, Live, BillRow
  <2> QED BY <2>1, <2>2
<1>5. AccountsSound /\ ApTyped
  BY <1>3 DEF ControlKept, ApKept
<1>6. PICK n \in Nat : n = Len(entry) /\ DOMAIN entry = 1 .. n
  BY <1>5, ApTerms
<1>7. PICK x : x = [amount |-> s.total, reversed |-> FALSE] /\ n = Len(entry) /\ DOMAIN entry = 1 .. n
  BY <1>6
<1>8. entry' = Append(entry, x)
  BY <1>1, <1>7 DEF CommitPost
<1>9. /\ DOMAIN entry' = 1 .. (n + 1) /\ Len(entry') = n + 1 /\ \A f \in DOMAIN entry : entry'[f] = entry[f]
      /\ entry'[n + 1] = x /\ x.amount = s.total /\ x.reversed = FALSE
  <2>1. entry \in Seq(Entry) /\ x \in Entry
    BY <1>4, <1>5, <1>7 DEF ApTyped, Entry
  <2> QED BY <1>7, <1>8, <2>1
<1>10. PICK due : due = s.total - s.paid
  OBVIOUS
<1>11. PICK row : row = [s EXCEPT !.status = "OPEN", !.due = due, !.entry = n + 1]
  OBVIOUS
<1>12. row.status = "OPEN" /\ row.due = s.total /\ row.total = s.total /\ row.entry = n + 1
  BY <1>4, <1>10, <1>11 DEF BillRow
<1>13. bill'[b] = row /\ \A a \in Bill : a # b => bill'[a] = bill[a]
  <2>1. bill' = [bill EXCEPT ![b] = row]
    BY <1>1, <1>9, <1>10, <1>11 DEF CommitPost
  <2> QED BY <1>4, <2>1
<1>14. ASSUME NEW a \in Bill, a # b
       PROVE  /\ bill'[a] = bill[a] /\ (Live(a)' <=> Live(a)) /\ EntrySound(a)
              /\ bill[a].entry # 0 => bill[a].entry \in DOMAIN entry /\ bill[a].entry # n + 1
                                      /\ entry'[bill[a].entry] = entry[bill[a].entry]
  <2>1. bill'[a] = bill[a] /\ (Live(a)' <=> Live(a)) /\ EntrySound(a)
    BY <1>5, <1>13, <1>14 DEF AccountsSound, Live
  <2>2. bill[a].entry # 0 => bill[a].entry \in DOMAIN entry
    BY <2>1 DEF EntrySound
  <2> QED BY <1>7, <1>9, <2>1, <2>2
<1>15. EntrySound(b)'
  <2>1. Live(b)' /\ bill'[b].entry = n + 1 /\ bill'[b].status = "OPEN" /\ bill'[b].total = s.total
    BY <1>12, <1>13 DEF Live
  <2>2. n + 1 \in DOMAIN entry' /\ n + 1 # 0 /\ entry'[n + 1].amount = s.total /\ ~ entry'[n + 1].reversed
    BY <1>9
  <2>3. \A a \in Bill : bill'[a].entry = n + 1 => a = b
    <3> SUFFICES ASSUME NEW a \in Bill, a # b PROVE bill'[a].entry # n + 1
      OBVIOUS
    <3>1. bill[a].entry # 0 => bill[a].entry # n + 1
      BY <1>14
    <3>2. bill'[a] = bill[a]
      BY <1>14
    <3> QED BY <2>2, <3>1, <3>2
  <2> QED BY <2>1, <2>2, <2>3 DEF EntrySound
<1>16. ASSUME NEW a \in Bill, a # b PROVE EntrySound(a)'
  <2>1. /\ bill'[a] = bill[a] /\ (Live(a)' <=> Live(a)) /\ EntrySound(a)
        /\ bill[a].entry # 0 => bill[a].entry \in DOMAIN entry /\ bill[a].entry # n + 1
                                /\ entry'[bill[a].entry] = entry[bill[a].entry]
    BY <1>14, <1>16
  <2>2. ASSUME Reversing(a) PROVE Reversing(a)'
    <3>1. PICK d \in Call : call[d].pc = "reversed" /\ call[d].b = a
      BY <2>2 DEF Reversing
    <3>2. call'[d] = call[d]
      BY <1>1, <1>2, <1>3, <3>1 DEF Moved
    <3> QED BY <3>1, <3>2 DEF Reversing
  <2>3. bill[a].entry # 0 => bill[a].entry \in DOMAIN entry'
    BY <1>7, <1>9, <2>1
  <2>4. ASSUME NEW d \in Bill, bill'[d].entry = bill[a].entry, bill[a].entry # 0 PROVE d = a
    <3>1. d # b
      BY <1>12, <1>13, <2>1, <2>4
    <3> QED BY <1>13, <2>1, <2>4, <3>1 DEF EntrySound
  <2>5. /\ Live(a) => bill[a].entry # 0
        /\ bill[a].entry # 0 => entry[bill[a].entry].amount = bill[a].total
        /\ bill[a].status \in {"absent", "DRAFT"} => bill[a].entry = 0
        /\ bill[a].status = "VOID" /\ bill[a].entry # 0 => entry[bill[a].entry].reversed
        /\ Live(a) /\ entry[bill[a].entry].reversed => Reversing(a)
    BY <2>1 DEF EntrySound
  <2> QED BY <2>1, <2>2, <2>3, <2>4, <2>5 DEF EntrySound
<1>17. ASSUME NEW d \in Call, call'[d].pc = "reversed", call'[d].seen.entry # 0 PROVE entry'[call'[d].seen.entry].reversed
  <2>1. call'[d] = call[d]
    BY <1>3, <1>17 DEF Moved
  <2>2. call[d].seen.entry \in DOMAIN entry /\ entry[call[d].seen.entry].reversed
    BY <1>3, <1>5, <1>17, <2>1, ReversedHas
  <2> QED BY <1>9, <2>1, <2>2
<1>18. TotalOf(Posted, DOMAIN entry)' = TotalOf(Posted, DOMAIN entry) + s.total
  <2>1. PICK f, g : f = Posted /\ g = Posted'
    OBVIOUS
  <2>2. DOMAIN f = 1 .. n /\ \A i \in 1 .. n : f[i] = OnAccount(entry[i]) /\ f[i] \in Int
    BY <1>5, <1>7, <2>1, AccountTerms
  <2>3. DOMAIN g = 1 .. (n + 1) /\ \A i \in 1 .. (n + 1) : g[i] = OnAccount(entry'[i])
    BY <1>9, <2>1 DEF Posted
  <2>4. \A i \in 1 .. n : f[i] \in Int /\ g[i] = f[i]
    BY <1>7, <1>9, <2>2, <2>3
  <2>5. g[n + 1] = s.total /\ g[n + 1] \in Int
    BY <1>4, <1>9, <2>3 DEF OnAccount
  <2>6. SumFunction(g) = SumFunction(f) + g[n + 1]
    BY <2>2, <2>3, <2>4, <2>5, SumAppend
  <2>7. TotalOf(Posted, DOMAIN entry)' = SumFunction(g)
    BY <1>9, <2>1, <2>3 DEF TotalOf, SumFunction
  <2>8. TotalOf(Posted, DOMAIN entry) = SumFunction(f)
    BY <1>5, <2>1, AccountTerms
  <2> QED BY <2>5, <2>6, <2>7, <2>8
<1>19. TotalOf(Owed, Bill)' = TotalOf(Owed, Bill) + s.total
  <2>1. PICK f, g : f = Owed /\ g = Owed'
    OBVIOUS
  <2>2. /\ \A a \in Bill : f[a] = (IF bill[a].entry # 0 /\ entry[bill[a].entry].reversed THEN 0 - bill[a].total
                                ELSE IF Live(a) THEN bill[a].due ELSE 0) /\ f[a] \in Int
        /\ \A a \in Bill : g[a] = (IF bill'[a].entry # 0 /\ entry'[bill'[a].entry].reversed THEN 0 - bill'[a].total
                                ELSE IF Live(a)' THEN bill'[a].due ELSE 0)
    BY <1>5, <2>1, AccountTerms DEF Owed
  <2>3. f[b] = 0 /\ g[b] = s.total
    <3>1. ~ Live(b) /\ Live(b)' /\ bill'[b].entry = n + 1 /\ bill'[b].due = s.total
      BY <1>4, <1>12, <1>13 DEF Live
    <3>2. bill[b].entry = 0
      BY <1>4, <1>5 DEF AccountsSound, EntrySound
    <3> QED BY <1>4, <1>9, <2>2, <3>1, <3>2
  <2>4. ASSUME NEW a \in Bill \ {b} PROVE g[a] = f[a]
    <3>1. bill'[a] = bill[a] /\ (Live(a)' <=> Live(a))
      BY <1>14
    <3>2. bill[a].entry # 0 => entry'[bill[a].entry] = entry[bill[a].entry]
      BY <1>14
    <3> QED BY <2>2, <3>1, <3>2
  <2>5. g[b] \in Int /\ IsFiniteSet(Bill)
    BY <1>4, <2>3, PayablesAssumption
  <2>6. SumFunctionOnSet(g, Bill) = SumFunctionOnSet(f, Bill) - f[b] + g[b]
    BY <1>4, <2>2, <2>4, <2>5, SumChange
  <2>7. SumFunctionOnSet(f, Bill) \in Int
    BY <2>2, <2>5, SumStep
  <2>8. SumFunctionOnSet(g, Bill) = SumFunctionOnSet(f, Bill) + s.total
    BY <1>4, <2>3, <2>6, <2>7
  <2> QED BY <2>1, <2>8 DEF TotalOf
<1>20. Grosses' = Grosses /\ Unapplied' = Unapplied
  BY <1>2 DEF Grosses, Unapplied
<1>21. TotalOf(Posted, DOMAIN entry)' - TotalOf(Grosses, DOMAIN payment)' = TotalOf(Owed, Bill)' - TotalOf(Unapplied, DOMAIN payment)'
  <2>1. TotalOf(Grosses, DOMAIN payment)' = TotalOf(Grosses, DOMAIN payment)
        /\ TotalOf(Unapplied, DOMAIN payment)' = TotalOf(Unapplied, DOMAIN payment)
    BY <1>2, <1>20 DEF TotalOf
  <2>2. /\ TotalOf(Posted, DOMAIN entry) \in Int /\ TotalOf(Grosses, DOMAIN payment) \in Int
        /\ TotalOf(Unapplied, DOMAIN payment) \in Int /\ TotalOf(Owed, Bill) \in Int
    BY <1>5, AccountTerms
  <2>3. TotalOf(Posted, DOMAIN entry) - TotalOf(Grosses, DOMAIN payment) = TotalOf(Owed, Bill) - TotalOf(Unapplied, DOMAIN payment)
    BY <1>5 DEF AccountsSound
  <2> QED BY <1>4, <1>18, <1>19, <2>1, <2>2, <2>3
<1> QED BY <1>15, <1>16, <1>17, <1>21 DEF AccountsSound

\* A payment is written with what is left of it: what it takes off the bills is not owed any more.
LEMMA ControlPaid ==
  ASSUME ApKept, ControlKept, NEW c \in Call, CommitPayment(c)
  PROVE  ControlKept'
<1> SUFFICES ASSUME Undisturbed' PROVE AccountsSound'
  BY DEF ControlKept
<1>1. PICK t : t = call[c]
  OBVIOUS
<1>2. /\ t.pc = "paying" /\ entry' = entry
      /\ \A b \in Bill : bill'[b] = IF t.alloc[b] = 0 THEN bill[b] ELSE t.written[b]
      /\ IF t.from = "old"
           THEN /\ TotalOf(Grosses, DOMAIN payment)' = TotalOf(Grosses, DOMAIN payment)
                /\ TotalOf(Unapplied, DOMAIN payment)'
                     = TotalOf(Unapplied, DOMAIN payment) - payment[t.payment].unapplied + t.remaining
           ELSE /\ TotalOf(Grosses, DOMAIN payment)' = TotalOf(Grosses, DOMAIN payment) + t.gross
                /\ TotalOf(Unapplied, DOMAIN payment)' = TotalOf(Unapplied, DOMAIN payment) + t.remaining
  BY <1>1, PaymentWrites
<1>3. /\ t \in [pc : {"paying"}, from : {"new", "old", "run"}, payment : Nat, vendor : Vendor, gross : Int, remaining : Int,
                amounts : ApItems, written : [Bill -> BillRow], alloc : ApItems, vendors : SUBSET Vendor, items : ApItems]
      /\ t # Idle /\ ApKnown(t) /\ ApRows(t, touches[c]) /\ (disjoint => ApHeld(t))
  BY <1>1, <1>2, PayingHas
<1>4. PICK next : next = IF t.from = "run" THEN [pc |-> "running", vendors |-> t.vendors, items |-> t.items] ELSE Idle
  OBVIOUS
<1>5. next.pc # "reversed" /\ (t.from = "run" => next.pc # "idle") /\ (t.from # "run" => next = Idle)
  BY <1>4 DEF Idle
<1>6. /\ t.from = "run" => Await(c, next)
      /\ t.from # "run" => Answer(c)
  BY <1>1, <1>4 DEF CommitPayment
<1>7. Moved(c) /\ call'[c] = next /\ disjoint /\ Undisturbed
  <2>1. Apart
    BY DEF ApKept, ApTyped
  <2>2. CASE t.from = "run"
    BY <1>1, <1>3, <1>5, <1>6, <2>1, <2>2, Awaiting DEF Undisturbed
  <2>3. CASE t.from # "run"
    BY <1>5, <1>6, <2>1, <2>3, Answering DEF Undisturbed
  <2> QED BY <2>2, <2>3
<1>8. AccountsSound /\ ApTyped /\ ApHeld(t)
  BY <1>3, <1>7 DEF ControlKept, ApKept
<1>9. ASSUME NEW b \in Bill, t.alloc[b] # 0
      PROVE  /\ WrittenFor(t, b) /\ bill'[b] = t.written[b] /\ EntrySound(b) /\ ~ entry[bill[b].entry].reversed /\ BillSound(b)
  <2>1. WrittenFor(t, b) /\ bill'[b] = t.written[b] /\ EntrySound(b) /\ BillSound(b)
    BY <1>2, <1>7, <1>8, <1>9 DEF ApHeld, AccountsSound, ApKept, ApHolds
  <2>2. b \in touches[c] /\ call[c].pc # "reversed"
    BY <1>1, <1>2, <1>3, <1>9 DEF ApRows
  <2>3. ~ Reversing(b)
    BY <1>7, <2>2, AloneOnBill
  <2> QED BY <2>1, <2>3 DEF WrittenFor, EntrySound
<1>10. ASSUME NEW b \in Bill
       PROVE  /\ bill'[b].entry = bill[b].entry /\ (Live(b)' <=> Live(b)) /\ (Live(b) => bill'[b].total = bill[b].total)
              /\ Live(b) \/ bill'[b] = bill[b]
  <2>1. CASE t.alloc[b] = 0
    BY <1>2, <2>1 DEF Live
  <2>2. CASE t.alloc[b] # 0
    BY <1>9, <2>2 DEF WrittenFor, Live
  <2> QED BY <2>1, <2>2
<1>11. ASSUME NEW b \in Bill PROVE EntrySound(b)'
  <2>1. /\ bill'[b].entry = bill[b].entry /\ (Live(b)' <=> Live(b)) /\ (Live(b) => bill'[b].total = bill[b].total)
        /\ Live(b) \/ bill'[b] = bill[b]
    BY <1>10
  <2>2. EntrySound(b)
    BY <1>8 DEF AccountsSound
  <2>3. ASSUME Reversing(b) PROVE Reversing(b)'
    <3>1. PICK d \in Call : call[d].pc = "reversed" /\ call[d].b = b
      BY <2>3 DEF Reversing
    <3>2. call'[d] = call[d]
      BY <1>1, <1>2, <1>7, <3>1 DEF Moved
    <3> QED BY <3>1, <3>2 DEF Reversing
  <2>4. bill'[b].status \in {"absent", "DRAFT", "VOID"} => bill'[b] = bill[b]
    BY <2>1 DEF Live
  <2>5. \A a \in Bill : bill'[a].entry = bill[a].entry
    BY <1>10
  <2> QED BY <1>2, <2>1, <2>2, <2>3, <2>4, <2>5 DEF EntrySound
<1>12. \A d \in Call : call'[d].pc = "reversed" /\ call'[d].seen.entry # 0 => entry'[call'[d].seen.entry].reversed
  BY <1>2, <1>5, <1>7, <1>8 DEF AccountsSound, Moved
<1>13. TotalOf(Owed, Bill) = TotalOf(Owed, Bill)' + TotalOf(t.alloc, Bill) /\ TotalOf(Owed, Bill)' \in Int
  <2>1. PICK f, g, h : f = Owed' /\ g = t.alloc /\ h = Owed
    OBVIOUS
  <2>2. /\ \A b \in Bill : h[b] = (IF bill[b].entry # 0 /\ entry[bill[b].entry].reversed THEN 0 - bill[b].total
                                ELSE IF Live(b) THEN bill[b].due ELSE 0) /\ h[b] \in Int
        /\ \A b \in Bill : f[b] = (IF bill'[b].entry # 0 /\ entry[bill'[b].entry].reversed THEN 0 - bill'[b].total
                                ELSE IF Live(b)' THEN bill'[b].due ELSE 0)
    BY <1>2, <1>8, <2>1, AccountTerms DEF Owed
  <2>3. ASSUME NEW b \in Bill PROVE f[b] \in Int /\ g[b] \in Int /\ h[b] = f[b] + g[b]
    <3>1. g[b] \in Int
      BY <1>3, <2>1 DEF ApItems
    <3>2. CASE t.alloc[b] = 0
      <4>1. bill'[b] = bill[b] /\ (Live(b)' <=> Live(b))
        BY <1>2, <1>10, <3>2
      <4>2. f[b] = h[b] /\ g[b] = 0
        BY <2>1, <2>2, <3>2, <4>1
      <4> QED BY <2>2, <4>2
    <3>3. CASE t.alloc[b] # 0
      <4>1. /\ WrittenFor(t, b) /\ bill'[b] = t.written[b] /\ ~ entry[bill[b].entry].reversed /\ BillSound(b)
            /\ (Live(b)' <=> Live(b)) /\ bill'[b].entry = bill[b].entry /\ bill[b] \in BillRow
        BY <1>8, <1>9, <1>10, <3>3, ApTerms
      <4>2. h[b] = bill[b].due /\ f[b] = bill'[b].due
        BY <2>2, <4>1 DEF WrittenFor
      <4>3. bill[b].due = bill[b].total - bill[b].paid /\ bill'[b].due = bill[b].total - (bill[b].paid + g[b])
        BY <2>1, <4>1 DEF WrittenFor, BillSound
      <4>4. bill[b].total \in Nat /\ bill[b].paid \in Nat
        BY <4>1 DEF BillRow
      <4> QED BY <3>1, <4>2, <4>3, <4>4
    <3> QED BY <3>2, <3>3
  <2>4. IsFiniteSet(Bill)
    BY PayablesAssumption
  <2>5. SumFunctionOnSet(h, Bill) = SumFunctionOnSet(f, Bill) + SumFunctionOnSet(g, Bill)
    BY <2>3, <2>4, SumPlus
  <2>6. SumFunctionOnSet(f, Bill) \in Int
    BY <2>3, <2>4, SumStep
  <2> QED BY <2>1, <2>5, <2>6 DEF TotalOf
<1>14. TotalOf(Posted, DOMAIN entry)' = TotalOf(Posted, DOMAIN entry)
  <2>1. Posted' = Posted
    BY <1>2 DEF Posted
  <2> QED BY <1>2, <2>1 DEF TotalOf
<1>15. TotalOf(Posted, DOMAIN entry)' - TotalOf(Grosses, DOMAIN payment)' = TotalOf(Owed, Bill)' - TotalOf(Unapplied, DOMAIN payment)'
  <2>1. /\ TotalOf(Posted, DOMAIN entry) \in Int /\ TotalOf(Grosses, DOMAIN payment) \in Int
        /\ TotalOf(Unapplied, DOMAIN payment) \in Int /\ TotalOf(Owed, Bill) \in Int
    BY <1>8, AccountTerms
  <2>2. TotalOf(Posted, DOMAIN entry) - TotalOf(Grosses, DOMAIN payment) = TotalOf(Owed, Bill) - TotalOf(Unapplied, DOMAIN payment)
    BY <1>8 DEF AccountsSound
  <2>3. TotalOf(t.alloc, Bill) + t.remaining = IF t.from = "old" THEN payment[t.payment].unapplied ELSE t.gross
    BY <1>2, <1>8 DEF ApHeld
  <2>4. TotalOf(t.alloc, Bill) \in Int /\ t.remaining \in Int /\ t.gross \in Int
    <3>1. \A b \in Bill : t.alloc[b] \in Int
      BY <1>3 DEF ApItems
    <3> QED BY <1>3, <3>1, SumStep, PayablesAssumption DEF TotalOf
  <2>5. CASE t.from = "old"
    <3>1. payment[t.payment].unapplied \in Int
      BY <2>3, <2>4, <2>5
    <3> QED BY <1>2, <1>13, <1>14, <2>1, <2>2, <2>3, <2>4, <2>5, <3>1
  <2>6. CASE t.from # "old"
    BY <1>2, <1>13, <1>14, <2>1, <2>2, <2>3, <2>4, <2>6
  <2> QED BY <2>5, <2>6
<1> QED BY <1>11, <1>12, <1>15 DEF AccountsSound

LEMMA ControlStep == ApKept /\ ControlKept /\ [PayablesNext]_<<payablesVars, requestVars>> => ControlKept'
<1> SUFFICES ASSUME ApKept, ControlKept, [PayablesNext]_<<payablesVars, requestVars>> PROVE ControlKept'
  OBVIOUS
<1>1. ASSUME bill' = bill, UNCHANGED <<entry, payment>>, UNCHANGED requestVars PROVE ControlKept'
  <2>1. call' = call /\ (Undisturbed' => Undisturbed)
    BY <1>1 DEF requestVars, Undisturbed
  <2> QED BY <1>1, <2>1, ControlStill
<1>2. ASSUME NEW b \in Bill, Hold(b) PROVE ControlKept'
  BY <1>1, <1>2 DEF Hold
<1>3. CASE UNCHANGED <<payablesVars, requestVars>>
  BY <1>1, <1>3 DEF payablesVars
<1>4. ASSUME NEW c \in Call, PerishInPayables(c) PROVE ControlKept'
  <2>1. Apart
    BY DEF ApKept, ApTyped
  <2>2. ~ Undisturbed'
    BY <1>4, <2>1, Perishing DEF PerishInPayables
  <2> QED BY <2>2 DEF ControlKept
<1>5. ASSUME NEW c \in Call,
             \/ \E b \in Bill : \/ \E pc \in {"editing", "posting", "voiding"} : ReadBill(c, b, pc)
                                \/ \E n \in Amounts : CreatePayment(c, b, n)
                                \/ \E p \in DOMAIN payment : AllocatePayment(c, p, b)
                                \/ ReadRun(c, b, "toggling") \/ ReadRun(c, b, "approving")
             \/ ListDue(c) \/ BeginPost(c)
      PROVE  ControlKept'
  BY <1>5, ControlArrives
<1>6. ASSUME NEW c \in Call,
             \/ \E b \in Bill : ApplyAllocation(c, b)
             \/ \E v \in Vendor : PayVendor(c, v)
             \/ SaveRun(c) \/ SaveItems(c) \/ SaveItem(c) \/ SaveApproval(c) \/ FinishRun(c) \/ Refused(c)
      PROVE  ControlKept'
  BY <1>6, ControlGoesOn
<1>7. ASSUME NEW c \in Call,
             \/ \E n \in Totals : SaveEdit(c, n)
             \/ CommitPost(c) \/ ReverseBillEntry(c) \/ CommitVoid(c) \/ CommitPayment(c)
      PROVE  ControlKept'
  BY <1>7, BillEdited, BillPosted, EntryTried, BillVoided, ControlPaid
<1>8. ASSUME NEW b \in Bill, NEW n \in Totals, CreateBill(b, n) PROVE ControlKept'
  BY <1>8, BillAdded
<1>9. CASE PayablesNext
  <2>1. CASE \/ \E b \in Bill, n \in Totals : CreateBill(b, n)
             \/ \E b \in Bill : Hold(b)
    BY <1>2, <1>8, <2>1
  <2>2. ASSUME ~ (\E b \in Bill, n \in Totals : CreateBill(b, n)), ~ (\E b \in Bill : Hold(b)) PROVE ControlKept'
    <3>1. PICK c \in Call :
            \/ \/ \E b \in Bill : \/ \E pc \in {"editing", "posting", "voiding"} : ReadBill(c, b, pc)
                                  \/ \E n \in Amounts : CreatePayment(c, b, n)
                                  \/ \E p \in DOMAIN payment : AllocatePayment(c, p, b)
                                  \/ ReadRun(c, b, "toggling") \/ ReadRun(c, b, "approving")
               \/ ListDue(c) \/ BeginPost(c)
            \/ \/ \E b \in Bill : ApplyAllocation(c, b)
               \/ \E v \in Vendor : PayVendor(c, v)
               \/ SaveRun(c) \/ SaveItems(c) \/ SaveItem(c) \/ SaveApproval(c) \/ FinishRun(c) \/ Refused(c)
            \/ \/ \E n \in Totals : SaveEdit(c, n)
               \/ CommitPost(c) \/ ReverseBillEntry(c) \/ CommitVoid(c) \/ CommitPayment(c)
            \/ PerishInPayables(c)
      BY <1>9, <2>2 DEF PayablesNext
    <3> QED BY <1>4, <1>5, <1>6, <1>7, <3>1
  <2> QED BY <2>1, <2>2
<1> QED BY <1>3, <1>9

LEMMA ControlStarts == PayablesInit => ControlKept
<1> SUFFICES ASSUME PayablesInit PROVE AccountsSound
  BY DEF ControlKept
<1>1. /\ \A b \in Bill : bill[b].status = "absent" /\ bill[b].entry = 0 /\ ~ Live(b)
      /\ DOMAIN entry = {} /\ DOMAIN payment = {} /\ \A c \in Call : call[c].pc = "idle"
  BY DEF PayablesInit, RequestsInit, Idle, NoBills, Live
<1>2. \A b \in Bill : EntrySound(b)
  BY <1>1 DEF EntrySound
<1>3. TotalOf(Posted, DOMAIN entry) = 0 /\ TotalOf(Grosses, DOMAIN payment) = 0 /\ TotalOf(Unapplied, DOMAIN payment) = 0
  BY <1>1, SumEmpty DEF TotalOf
<1>4. TotalOf(Owed, Bill) = 0
  <2>1. \A b \in Bill : Owed[b] = 0
    BY <1>1 DEF Owed
  <2> QED BY <2>1, SumZero, PayablesAssumption DEF TotalOf
<1> QED BY <1>1, <1>2, <1>3, <1>4 DEF AccountsSound

\* In every state, for any bills, vendors and amounts: as long as no request died and those
\* for common rows did not overlap, the control account and the subledger agree whenever no
\* request is under way, but for the bills voided after they were posted (postBill, voidBill with its nested transaction, createVendorPayment,
\* allocatePayment, postRun).
THEOREM ControlAccountAgrees == PayablesSpec => []ControlAgrees
<1>1. PayablesInit => ApKept /\ ControlKept
  BY ApStarts, ControlStarts
<1>2. ApKept /\ ControlKept /\ [PayablesNext]_<<payablesVars, requestVars>> => ApKept' /\ ControlKept'
  BY ApStep, ControlStep
<1>3. ApKept /\ ControlKept => ControlAgrees
  <2> SUFFICES ASSUME ApKept, ControlKept, Undisturbed, Quiet PROVE ControlAgrees
    BY DEF ControlAgrees
  <2>1. PICK g, h : /\ g = [b \in Bill |-> IF Live(b) THEN bill[b].due ELSE 0]
                    /\ h = [b \in Bill |-> IF bill[b].status = "VOID" /\ bill[b].entry # 0 THEN bill[b].total ELSE 0]
    OBVIOUS
  <2>2. ASSUME NEW b \in Bill PROVE Owed[b] \in Int /\ h[b] \in Int /\ g[b] = Owed[b] + h[b]
    <3>1. ~ Reversing(b)
      BY DEF Quiet, Reversing, Idle
    <3>2. EntrySound(b)
      BY DEF ControlKept, AccountsSound
    <3>3. /\ Live(b) => ~ entry[bill[b].entry].reversed
          /\ bill[b].status \in {"absent", "DRAFT"} => bill[b].entry = 0
          /\ bill[b].status = "VOID" /\ bill[b].entry # 0 => entry[bill[b].entry].reversed
      BY <3>1, <3>2 DEF EntrySound
    <3>4. bill[b].status \in BillStatus /\ bill[b].total \in Int /\ bill[b].due \in Int
      BY ApTerms DEF ApKept, BillRow
    <3>5. h[b] = IF bill[b].status = "VOID" /\ bill[b].entry # 0 THEN bill[b].total ELSE 0
      BY <2>1
    <3>6. g[b] = IF Live(b) THEN bill[b].due ELSE 0
      BY <2>1
    <3>7. Owed[b] = IF bill[b].entry # 0 /\ entry[bill[b].entry].reversed THEN 0 - bill[b].total
                    ELSE IF Live(b) THEN bill[b].due ELSE 0
      BY DEF Owed
    <3>8. CASE Live(b)
      BY <3>3, <3>4, <3>5, <3>6, <3>7, <3>8 DEF Live
    <3>9. CASE bill[b].status \in {"absent", "DRAFT", "VOID"}
      BY <3>3, <3>4, <3>5, <3>6, <3>7, <3>9 DEF Live
    <3> QED BY <3>4, <3>8, <3>9 DEF Live, BillStatus
  <2>3. TotalOf(g, Bill) = TotalOf(Owed, Bill) + TotalOf(h, Bill)
    BY <2>2, SumPlus, PayablesAssumption DEF TotalOf
  <2>4. TotalOf(Posted, DOMAIN entry) - TotalOf(Grosses, DOMAIN payment) = TotalOf(Owed, Bill) - TotalOf(Unapplied, DOMAIN payment)
    BY DEF ControlKept, AccountsSound
  <2>5. /\ TotalOf(Posted, DOMAIN entry) \in Int /\ TotalOf(Grosses, DOMAIN payment) \in Int
        /\ TotalOf(Unapplied, DOMAIN payment) \in Int /\ TotalOf(Owed, Bill) \in Int
    BY AccountTerms DEF ApKept
  <2>6. TotalOf(h, Bill) \in Int
    BY <2>2, SumStep, PayablesAssumption DEF TotalOf
  <2>7. TotalOf(Posted, DOMAIN entry) - TotalOf(Grosses, DOMAIN payment) + TotalOf(h, Bill)
          = TotalOf(g, Bill) - TotalOf(Unapplied, DOMAIN payment)
    BY <2>3, <2>4, <2>5, <2>6
  <2> QED BY <2>1, <2>7 DEF ControlAgrees, Posted, Grosses, Unapplied
<1> QED BY <1>1, <1>2, <1>3, PTL DEF PayablesSpec
=============================================================================
