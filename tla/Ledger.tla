------------------------------- MODULE Ledger -------------------------------
(***************************************************************************)
(* The general ledger: journal entries, their lines and the accounting     *)
(* periods of GlService in modules/finance/gl/gl.service.ts.               *)
(*                                                                         *)
(* A transaction runs at READ COMMITTED, so another call's commit may fall *)
(* between its queries: the reads, the numbering and the commit of a call  *)
(* are steps of their own.  A call saves the whole entity it read, as it   *)
(* is in memory, and inserts it anew when the row is gone.  The lines of   *)
(* an entry are sets of batches, one per call that persisted them: a       *)
(* DELETE takes the batches that were committed when it began.             *)
(*                                                                         *)
(* A batch is its net (debit minus credit) per account; validateLines lets *)
(* only balanced ones pass.  Dates stand for the period they fall in; an   *)
(* entry of no period is always postable, and is left out.                 *)
(***************************************************************************)
EXTENDS Integers, FiniteSetsExt, Functions

CONSTANTS
  JournalEntry, \* ids of journal entries, handed out from the least on
  Account,
  Period,
  Caller,       \* the requests of one behaviour, which come in this order
  Nets,         \* nets a caller may submit
  None,
  MaxActive     \* bound: requests under way at one time

ASSUME LedgerAssumption ==
  /\ IsFiniteSet(Account)
  /\ Nets \subseteq [Account -> Int] /\ \A f \in Nets : SumFunction(f) = 0
  /\ JournalEntry \subseteq Nat /\ Caller \subseteq Nat /\ None \notin JournalEntry
  /\ MaxActive \in Nat \ {0}

VARIABLES
  journal,      \* the rows of fin_journal_entries
  entryLines,   \* entryLines[e]: the batches of lines of entry e
  periodStatus, \* the status of each period
  caller,       \* what each request has read so far
  alone         \* history: no request has started before another ended

ledgerVars == <<journal, entryLines, periodStatus, caller, alone>>

EntryStatus == {"absent", "DRAFT", "POSTED", "REVERSED"}
PeriodStatus == {"OPEN", "CLOSED", "LOCKED"}
JournalRow == [status : EntryStatus, number : Nat, period : Period \union {None}, link : JournalEntry \union {None}]
Absent == [status |-> "absent", number |-> 0, period |-> None, link |-> None]
Batch == [by : Caller, net : [Account -> Int]]

\* What a request remembers: its step, the entry it is about, the row it will
\* save, the batches it will delete or mirror, the lines to persist, and the
\* entry it reverses with that entry's row.
Fresh == [pc |-> "new", e |-> None, row |-> Absent, cut |-> {}, net |-> None, of |-> None, was |-> Absent]
Active(c) == caller[c].pc \notin {"new", "end"}

LedgerInit ==
  /\ journal = [e \in JournalEntry |-> Absent]
  /\ entryLines = [e \in JournalEntry |-> {}]
  /\ periodStatus = [p \in Period |-> "OPEN"]
  /\ caller = [c \in Caller |-> Fresh]
  /\ alone = TRUE

-----------------------------------------------------------------------------
SetCall(c, t) == caller' = [caller EXCEPT ![c] = t]
Proceed(c, t) == SetCall(c, t) /\ UNCHANGED alone
Goto(c, label) == Proceed(c, [caller[c] EXCEPT !.pc = label])

StartCall(c) ==
  /\ caller[c] = Fresh /\ \A k \in Caller : k < c => caller[k] # Fresh
  /\ Cardinality({k \in Caller : Active(k)}) < MaxActive
  /\ alone' = (alone /\ \A k \in Caller : ~Active(k))

\* assertPeriodPostable
Postable(p) == periodStatus[p] = "OPEN"

\* The least id no row and no request has.
Ids == {e \in JournalEntry : journal[e] = Absent /\ entryLines[e] = {} /\ \A c \in Caller : caller[c].e # e}
Unused(e) == e \in Ids /\ \A d \in Ids : e <= d

Top == Max({journal[e].number : e \in JournalEntry} \union {0})
Taken(n, e) == \E d \in JournalEntry \ {e} : journal[d].status # "absent" /\ journal[d].number = n

-----------------------------------------------------------------------------
(* createJournalEntry (a DRAFT) and postJournalEntry (POSTED at once)        *)

Create(c, e, p, f, status) ==
  /\ StartCall(c) /\ Unused(e) /\ Postable(p)
  /\ SetCall(c, [Fresh EXCEPT !.pc = "numbering", !.e = e, !.net = f,
                            !.row = [status |-> status, number |-> 0, period |-> p, link |-> None]])
  /\ UNCHANGED <<journal, entryLines, periodStatus>>

\* nextEntryNumber: MAX + 1
Number(c) ==
  /\ caller[c].pc = "numbering"
  /\ Proceed(c, [caller[c] EXCEPT !.pc = "inserting", !.row.number = Top + 1])
  /\ UNCHANGED <<journal, entryLines, periodStatus>>

Insert(c) ==
  /\ caller[c].pc = "inserting" /\ caller[c].of = None /\ ~Taken(caller[c].row.number, caller[c].e)
  /\ journal' = [journal EXCEPT ![caller[c].e] = caller[c].row]
  /\ entryLines' = [entryLines EXCEPT ![caller[c].e] = {[by |-> c, net |-> caller[c].net]}]
  /\ Goto(c, "end")
  /\ UNCHANGED periodStatus

\* The unique index on the number aborts the transaction.
Clash(c) ==
  /\ caller[c].pc \in {"inserting", "updating", "posting"}
  /\ Taken(caller[c].row.number, caller[c].e)
  /\ Goto(c, "end")
  /\ UNCHANGED <<journal, entryLines, periodStatus>>

-----------------------------------------------------------------------------
(* updateJournalEntry                                                        *)

\* The lines the caller sends; None: it sends none, and they stay.
UpdateRead(c, e, f) ==
  /\ StartCall(c) /\ journal[e].status = "DRAFT"
  /\ SetCall(c, [Fresh EXCEPT !.pc = "deleting", !.e = e, !.net = f, !.row = journal[e]])
  /\ UNCHANGED <<journal, entryLines, periodStatus>>

\* A caller may send a new period, which must be open.
UpdateDelete(c, p) ==
  /\ caller[c].pc = "deleting" /\ (p = caller[c].row.period \/ Postable(p))
  /\ Proceed(c, [caller[c] EXCEPT !.pc = "updating", !.row.period = p,
                                 !.cut = IF caller[c].net = None THEN {} ELSE entryLines[caller[c].e]])
  /\ UNCHANGED <<journal, entryLines, periodStatus>>

Sent(c) == IF caller[c].net = None THEN {} ELSE {[by |-> c, net |-> caller[c].net]}

Update(c) ==
  /\ caller[c].pc = "updating" /\ ~Taken(caller[c].row.number, caller[c].e)
  /\ journal' = [journal EXCEPT ![caller[c].e] = caller[c].row]
  /\ entryLines' = [entryLines EXCEPT ![caller[c].e] = (@ \ caller[c].cut) \union Sent(c)]
  /\ Goto(c, "end")
  /\ UNCHANGED periodStatus

-----------------------------------------------------------------------------
(* deleteJournalEntry                                                        *)

DeleteRead(c, e) ==
  /\ StartCall(c) /\ journal[e].status = "DRAFT"
  /\ SetCall(c, [Fresh EXCEPT !.pc = "cutting", !.e = e])
  /\ UNCHANGED <<journal, entryLines, periodStatus>>

DeleteLines(c) ==
  /\ caller[c].pc = "cutting"
  /\ Proceed(c, [caller[c] EXCEPT !.pc = "dropping", !.cut = entryLines[caller[c].e]])
  /\ UNCHANGED <<journal, entryLines, periodStatus>>

\* DELETE by id, whatever the row is by now.
Delete(c) ==
  /\ caller[c].pc = "dropping"
  /\ journal' = [journal EXCEPT ![caller[c].e] = Absent]
  /\ entryLines' = [entryLines EXCEPT ![caller[c].e] = @ \ caller[c].cut]
  /\ Goto(c, "end")
  /\ UNCHANGED periodStatus

-----------------------------------------------------------------------------
(* postJournalEntryById                                                      *)

\* The entry and its lines are read; validateLines wants at least two.
PostRead(c, e) ==
  /\ StartCall(c) /\ journal[e].status = "DRAFT" /\ entryLines[e] # {}
  /\ SetCall(c, [Fresh EXCEPT !.pc = "checking", !.e = e, !.row = [journal[e] EXCEPT !.status = "POSTED"]])
  /\ UNCHANGED <<journal, entryLines, periodStatus>>

\* A slip of PostCheck: only a locked period refuses.
PostCheckLocked(c) ==
  /\ caller[c].pc = "checking"
  /\ Goto(c, IF periodStatus[caller[c].row.period] # "LOCKED" THEN "posting" ELSE "end")
  /\ UNCHANGED <<journal, entryLines, periodStatus>>

PostCheck(c) ==
  /\ caller[c].pc = "checking"
  /\ Goto(c, IF Postable(caller[c].row.period) THEN "posting" ELSE "end")
  /\ UNCHANGED <<journal, entryLines, periodStatus>>

Post(c) ==
  /\ caller[c].pc = "posting" /\ ~Taken(caller[c].row.number, caller[c].e)
  /\ journal' = [journal EXCEPT ![caller[c].e] = caller[c].row]
  /\ Goto(c, "end")
  /\ UNCHANGED <<entryLines, periodStatus>>

-----------------------------------------------------------------------------
(* reverseJournalEntry: the mirror goes to the period of its date, which must *)
(* be open, or to that of the original, whatever it is, if there is none.     *)

\* A slip of ReverseRead: a reversed entry may be reversed again.
ReverseReadAny(c, e, m, p) ==
  /\ StartCall(c) /\ journal[e].status \in {"POSTED", "REVERSED"} /\ Unused(m) /\ m # e
  /\ Postable(p) \/ p = journal[e].period
  /\ SetCall(c, [Fresh EXCEPT !.pc = "numbering", !.e = m, !.of = e, !.was = journal[e], !.cut = entryLines[e],
                            !.row = [status |-> "POSTED", number |-> 0, period |-> p, link |-> e]])
  /\ UNCHANGED <<journal, entryLines, periodStatus>>

ReverseRead(c, e, m, p) ==
  /\ StartCall(c) /\ journal[e].status = "POSTED" /\ Unused(m) /\ m # e
  /\ Postable(p) \/ p = journal[e].period
  /\ SetCall(c, [Fresh EXCEPT !.pc = "numbering", !.e = m, !.of = e, !.was = journal[e], !.cut = entryLines[e],
                            !.row = [status |-> "POSTED", number |-> 0, period |-> p, link |-> e]])
  /\ UNCHANGED <<journal, entryLines, periodStatus>>

\* A slip of Mirror: only the debits are swapped.
MirrorDebits(f) == [a \in Account |-> IF f[a] > 0 THEN 0 - f[a] ELSE 0]
MirrorNet(f) == [a \in Account |-> 0 - f[a]]

\* The mirror entry is inserted and the original is marked and linked.
ReverseEntry(c) ==
  /\ caller[c].pc = "inserting" /\ caller[c].of # None /\ ~Taken(caller[c].row.number, caller[c].e)
  /\ journal' = [journal EXCEPT
                 ![caller[c].e] = caller[c].row,
                 ![caller[c].of] = [caller[c].was EXCEPT !.status = "REVERSED", !.link = caller[c].e]]
  /\ entryLines' = [entryLines EXCEPT ![caller[c].e] = {[by |-> c, net |-> MirrorNet(b.net)] : b \in caller[c].cut}]
  /\ Goto(c, "end")
  /\ UNCHANGED periodStatus

-----------------------------------------------------------------------------
(* Periods                                                                   *)

CloseRead(c, p) ==
  /\ StartCall(c) /\ periodStatus[p] # "LOCKED"
  /\ SetCall(c, [Fresh EXCEPT !.pc = "counting", !.row.period = p])
  /\ UNCHANGED <<journal, entryLines, periodStatus>>

Drafts(p) == {e \in JournalEntry : journal[e].status = "DRAFT" /\ journal[e].period = p}

CloseCount(c) ==
  /\ caller[c].pc = "counting"
  /\ Goto(c, IF Drafts(caller[c].row.period) = {} THEN "closing" ELSE "end")
  /\ UNCHANGED <<journal, entryLines, periodStatus>>

Close(c) ==
  /\ caller[c].pc = "closing"
  /\ periodStatus' = [periodStatus EXCEPT ![caller[c].row.period] = "CLOSED"]
  /\ Goto(c, "end")
  /\ UNCHANGED <<journal, entryLines>>

ReopenRead(c, p) ==
  /\ StartCall(c) /\ periodStatus[p] # "LOCKED"
  /\ SetCall(c, [Fresh EXCEPT !.pc = "reopening", !.row.period = p])
  /\ UNCHANGED <<journal, entryLines, periodStatus>>

Reopen(c) ==
  /\ caller[c].pc = "reopening"
  /\ periodStatus' = [periodStatus EXCEPT ![caller[c].row.period] = "OPEN"]
  /\ Goto(c, "end")
  /\ UNCHANGED <<journal, entryLines>>

\* updatePeriod saves whatever status the caller sends.
UpdatePeriod(c, p, s) ==
  /\ StartCall(c)
  /\ periodStatus' = [periodStatus EXCEPT ![p] = s]
  /\ SetCall(c, [Fresh EXCEPT !.pc = "end"])
  /\ UNCHANGED <<journal, entryLines>>

-----------------------------------------------------------------------------
LedgerNext ==
  \E c \in Caller :
    \/ \E e \in JournalEntry, p \in Period, f \in Nets, s \in {"DRAFT", "POSTED"} : Create(c, e, p, f, s)
    \/ Number(c) \/ Insert(c) \/ Clash(c)
    \/ \E e \in JournalEntry, f \in Nets \union {None} : UpdateRead(c, e, f)
    \/ \E p \in Period : UpdateDelete(c, p)
    \/ Update(c)
    \/ \E e \in JournalEntry : DeleteRead(c, e) \/ PostRead(c, e)
    \/ DeleteLines(c) \/ Delete(c) \/ PostCheck(c) \/ Post(c)
    \/ \E e, m \in JournalEntry, p \in Period : ReverseRead(c, e, m, p)
    \/ ReverseEntry(c)
    \/ \E p \in Period : CloseRead(c, p) \/ ReopenRead(c, p)
    \/ CloseCount(c) \/ Close(c) \/ Reopen(c)
    \/ \E p \in Period, s \in PeriodStatus : UpdatePeriod(c, p, s)

LedgerSpec == LedgerInit /\ [][LedgerNext]_ledgerVars

-----------------------------------------------------------------------------
Net(e, a) == SumFunction([b \in entryLines[e] |-> b.net[a]])

\* getAccountBalance and the trial balance: the lines of POSTED entries.
PostedAmong(S) == {e \in S : journal[e].status = "POSTED"}
Balance(a) == SumFunction([e \in PostedAmong(JournalEntry) |-> Net(e, a)])

\* The trial balance balances, whatever runs at the same time: entries are
\* posted, edited, reversed and deleted as wholes.
BooksBalance == SumFunction([a \in Account |-> Balance(a)]) = 0

\* "mark POSTED, immutable thereafter" (gl.service.ts, line 587): unless
\* requests overlap, all that ever happens to a posted entry is that it is
\* reversed, and nothing happens to a reversed one.
PostedForGood ==
  [][\A e \in JournalEntry :
       alone' /\ journal[e].status \in {"POSTED", "REVERSED"} =>
         /\ entryLines'[e] = entryLines[e]
         /\ \/ journal'[e] = journal[e]
            \/ /\ journal[e].status = "POSTED" /\ journal'[e].status = "REVERSED"
               /\ journal'[e].number = journal[e].number /\ journal'[e].period = journal[e].period]_ledgerVars

\* "create a mirror (swap dr/cr), link both ways" (gl.service.ts, line 673):
\* unless requests overlap, a reversed entry is linked to its mirror, which
\* cancels its lines and links back until it is itself reversed, and no other
\* posted entry reverses it.
Mirrored ==
  alone =>
    \A e \in JournalEntry :
      journal[e].status = "REVERSED" =>
        /\ journal[e].link \in JournalEntry
        /\ journal[journal[e].link].status \in {"POSTED", "REVERSED"}
        /\ \A a \in Account : Net(journal[e].link, a) = 0 - Net(e, a)
        /\ \A m \in JournalEntry :
             journal[m].status = "POSTED" =>
               (journal[m].link = e <=> m = journal[e].link)

\* Periods are respected, unless requests overlap.  "Post a draft journal entry
\* (enforces balance + period)" (gl.controller.ts, line 270): an entry is posted
\* in an open period, or is a mirror in the period of the entry it reverses.
\* "draft journal entries must be posted or deleted first" (gl.service.ts, line
\* 335): closePeriod closes a period without drafts.
\* "Locked periods cannot be reopened" (gl.service.ts, line 345), except by an
\* update of the period.
PeriodsRespected ==
  [][alone' =>
       /\ \A e \in JournalEntry :
            journal[e].status # "POSTED" /\ journal'[e].status = "POSTED" =>
              \/ periodStatus[journal'[e].period] = "OPEN"
              \/ journal'[e].link # None /\ journal'[e].period = journal[journal'[e].link].period
       /\ \A c \in Caller :
            caller[c].pc = "closing" /\ caller'[c].pc = "end" => Drafts(caller[c].row.period) = {}
       /\ \A p \in Period, c \in Caller :
            periodStatus[p] = "LOCKED" /\ caller[c].pc \in {"reopening", "closing"} /\ caller'[c].pc = "end"
              => periodStatus'[p] = "LOCKED"]_ledgerVars

\* Unless requests overlap, what is posted stays as it was posted, in a period that
\* was open then or is that of the entry it reverses, and no period closes over
\* drafts (updateJournalEntry, deleteJournalEntry, postJournalEntryById,
\* reverseJournalEntry, closePeriod).
BooksKept == PostedForGood /\ PeriodsRespected

\* Reversing takes an entry off the balances: what the original and its mirror
\* contribute to the balance of an account is nothing together.
ReversalCancels ==
  \A e \in JournalEntry, a \in Account :
    journal[e].status = "REVERSED" =>
      SumFunction([d \in PostedAmong({e, journal[e].link}) |-> Net(d, a)]) = 0
=============================================================================
