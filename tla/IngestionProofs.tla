--------------------------- MODULE IngestionProofs ---------------------------
(***************************************************************************)
(* Proofs about Ingestion, for any files, threads, users and budgets: a    *)
(* queued row is on its way to the worker whatever dies, and a document    *)
(* has one original and a row one draft unless commits overlook others or  *)
(* the row is adrift.                                                      *)
(*                                                                         *)
(* Both rest on Kept: what is stored and held is of its type, ids are      *)
(* those of rows and contracts, and what a request decided fits what it    *)
(* had read.  Waits and Documents are the two inductive invariants.        *)
(***************************************************************************)
EXTENDS Ingestion, SequenceTheorems, WellFoundedInduction, TLAPS

-----------------------------------------------------------------------------
(* Sequences, and the first of some numbers                                  *)

\* One element of a sequence is replaced.
LEMMA OneReplaced ==
  ASSUME NEW S, NEW s \in Seq(S), NEW i \in DOMAIN s, NEW x \in S, NEW z, z = [s EXCEPT ![i] = x]
  PROVE  /\ z \in Seq(S) /\ DOMAIN z = DOMAIN s /\ Len(z) = Len(s) /\ z[i] = x
         /\ \A j \in DOMAIN s : j # i => z[j] = s[j]
<1>1. PICK n \in Nat : s \in [1 .. n -> S] /\ DOMAIN s = 1 .. n /\ Len(s) = n
  OBVIOUS
<1>2. z \in [1 .. n -> S]
  BY <1>1
<1>3. z \in Seq(S) /\ Len(z) = n
  BY <1>1, <1>2
<1> QED BY <1>1, <1>2, <1>3

LEMMA OneAppended ==
  ASSUME NEW S, NEW s \in Seq(S), NEW x \in S, NEW z, z = Append(s, x)
  PROVE  /\ z \in Seq(S) /\ Len(s) \in Nat /\ Len(z) = Len(s) + 1 /\ DOMAIN s = 1 .. Len(s)
         /\ DOMAIN z = DOMAIN s \union {Len(s) + 1} /\ Len(s) + 1 \notin DOMAIN s
         /\ z[Len(s) + 1] = x /\ \A j \in DOMAIN s : z[j] = s[j]
  OBVIOUS

LEMMA FirstIs ==
  ASSUME NEW S \in SUBSET (Nat \ {0})
  PROVE  First(S) \in Nat /\ (S # {} => First(S) \in S) /\ (First(S) = 0 <=> S = {})
<1>1. CASE S = {}
  BY <1>1 DEF First
<1>2. CASE S # {}
  <2>1. \E i \in S : \A j \in S : <<j, i>> \notin OpToRel(<, Nat)
    BY <1>2, NatLessThanWellFounded, WFMin, Zenon
  <2>2. \E i \in S : \A j \in S : ~ (j < i)
    BY <2>1 DEF OpToRel
  <2>3. \E i \in S : \A j \in S : i <= j
    BY <2>2
  <2>4. First(S) \in S
    BY <1>2, <2>3 DEF First
  <2> QED BY <1>2, <2>4
<1> QED BY <1>1, <1>2

-----------------------------------------------------------------------------
(* Types                                                                     *)

ThreadState ==
  {Idle}
  \union [pc : {"next"}, scan : BOOLEAN, todo : SUBSET File]
  \union [pc : {"hashing"}, scan : BOOLEAN, todo : SUBSET File, f : File]
  \union [pc : {"inserting"}, scan : BOOLEAN, todo : SUBSET File, f : File, hash : Hash \union File, original : Nat]
  \union [pc : {"queueing"}, scan : BOOLEAN, todo : SUBSET File, id : Nat]

WorkerState == {Idle} \union [pc : {"waiting", "dead"}] \union [pc : {"taken", "found", "extracting", "extracted"}, id : Nat]

RequestState ==
  {Idle}
  \union [pc : {"saving"}, i : Nat, c : Nat, put : BOOLEAN, row : Row \union {NoRow}, newRow : Row \union {NoRow},
          contract : Contract \union {NoRow}, newContract : Contract \union {NoRow}]
  \union [pc : {"queueing"}, id : Nat]

\* What is stored and what the threads hold.
Typed ==
  /\ rows \in Seq(Row) /\ contracts \in Seq(Contract)
  /\ disk \in SUBSET File /\ growing \in SUBSET File /\ events \in SUBSET File
  /\ phase \in {"down", "requeueing", "watching", "up"}
  /\ boot \in [left : SUBSET Nat, mid : SUBSET Nat]
  /\ queue \in Seq(Nat)
  /\ worker \in WorkerState
  /\ threads \in [Thread -> ThreadState]
  /\ requests \in [User -> RequestState]

\* An id is that of a row, or of a contract.
Linked ==
  /\ \A i \in DOMAIN rows : rows[i].contract \in 0 .. Len(contracts)
  /\ \A c \in DOMAIN contracts : contracts[c].row \in DOMAIN rows
  /\ \A k \in DOMAIN queue : queue[k] \in DOMAIN rows
  /\ worker.pc \in {"taken", "found", "extracting", "extracted"} => worker.id \in DOMAIN rows
  /\ \A t \in Thread : threads[t].pc = "queueing" => threads[t].id \in DOMAIN rows
  /\ \A u \in User : requests[u].pc = "queueing" => requests[u].id \in DOMAIN rows
  /\ boot.left \subseteq DOMAIN rows

\* What a request decided makes sense of what it read.  The last three: a row that goes
\* back on the queue loses its draft, a validated one keeps it, and a decision on a
\* contract alone validates none that stands.
Sound(r) ==
  /\ r.i # 0 => /\ r.i \in DOMAIN rows /\ r.row \in Row /\ r.newRow \in Row
                /\ r.newRow.path = r.row.path /\ r.newRow.hash = r.row.hash /\ r.newRow.original = r.row.original
                /\ r.newRow.status \in {"QUEUED", "VALIDATED"}
                /\ r.row.contract \in 0 .. Len(contracts) /\ r.newRow.contract \in 0 .. Len(contracts)
  /\ r.c # 0 => /\ r.c \in DOMAIN contracts /\ r.contract \in Contract /\ r.newContract \in Contract
                /\ r.newContract.row = r.contract.row
  /\ r.newRow.status = "QUEUED" => r.put
  /\ r.put => /\ r.i # 0 /\ r.newRow.status = "QUEUED"
              /\ r.c = 0 => r.row.status = "FAILED" \/ r.row.contract = 0
              /\ r.c # 0 => /\ r.newContract.deleted
                            /\ r.c = r.row.contract \/ (r.contract.row = r.i /\ ~ r.contract.deleted)
  /\ ~ r.put /\ r.i # 0 =>
       /\ r.c # 0 /\ r.contract.row = r.i /\ ~ r.contract.deleted
       /\ r.newRow.status = "VALIDATED" /\ r.newRow.contract = r.row.contract
  /\ r.i = 0 => /\ r.c # 0
                /\ r.contract.deleted \/ r.newContract.deleted \/ r.newContract.status # "VALIDATED"

AllSound == \A u \in User : requests[u].pc = "saving" => Sound(requests[u])

\* A duplicate has an original; nothing becomes one later.
Duplicates == \A i \in DOMAIN rows : rows[i].original = 0 => rows[i].status # "DUPLICATE"

\* Threads and requests begin when the rows have been queued again; until then those
\* found in the middle of their extraction stay as they are.
Beginning ==
  /\ phase \in {"down", "requeueing"} =>
       /\ \A t \in Thread : threads[t] = Idle
       /\ \A u \in User : requests[u] = Idle
       /\ events = {} /\ ~ observing
  /\ phase = "down" => queue = <<>> /\ worker = Idle
  /\ phase # "requeueing" => boot = NoBoot
  /\ boot.mid \subseteq DOMAIN rows
  /\ failed \/ \A i \in boot.mid :
                 /\ rows[i].status = "EXTRACTING"
                 /\ worker.pc \in {"found", "extracting", "extracted"} => worker.id # i
  /\ worker.pc = "dead" => failed
  /\ observing \in BOOLEAN /\ failed \in BOOLEAN /\ stale \in BOOLEAN /\ early \in BOOLEAN

Kept == Typed /\ Linked /\ AllSound /\ Duplicates /\ Beginning

-----------------------------------------------------------------------------
(* Each step keeps them.                                                     *)

\* The tables grow.
Grows ==
  /\ DOMAIN rows \subseteq DOMAIN rows' /\ DOMAIN contracts \subseteq DOMAIN contracts'
  /\ Len(contracts) \in Nat /\ Len(contracts)' \in Nat /\ Len(contracts) <= Len(contracts)'

LEMMA SoundStays ==
  ASSUME Typed, Grows, NEW r, Sound(r)
  PROVE  Sound(r)'
<1>1. /\ \A x : x \in 0 .. Len(contracts) => x \in (0 .. Len(contracts))'
      /\ \A c : c \in DOMAIN contracts => c \in (DOMAIN contracts)'
      /\ \A i : i \in DOMAIN rows => i \in (DOMAIN rows)'
  BY DEF Grows
<1> QED BY <1>1 DEF Sound

LEMMA TablesSame ==
  ASSUME Kept, UNCHANGED <<rows, contracts>>
  PROVE  /\ Grows /\ Duplicates'
         /\ \A i \in DOMAIN rows : rows'[i].contract \in (0 .. Len(contracts))'
         /\ \A c \in DOMAIN contracts : contracts'[c].row \in DOMAIN rows'
<1>1. Grows
  BY DEF Grows, Kept, Typed
<1> QED BY <1>1 DEF Kept, Duplicates, Linked

LEMMA RequestsSame ==
  ASSUME Kept, Grows, UNCHANGED requests
  PROVE  AllSound'
<1> SUFFICES ASSUME NEW u \in User, requests'[u].pc = "saving" PROVE Sound(requests[u])'
  BY DEF AllSound
<1>1. PICK r : r = requests[u]
  OBVIOUS
<1>2. Sound(r) /\ requests'[u] = r
  BY <1>1 DEF Kept, AllSound
<1>3. Sound(r)'
  BY <1>2, SoundStays DEF Kept
<1> QED BY <1>2, <1>3 DEF Sound

\* Steps of the files, the threads and the start that store nothing.
LEMMA FilesKept ==
  ASSUME Kept,
         \/ \E f \in File : FileAppears(f) \/ CopyEnds(f) \/ GiveUpEvent(f)
         \/ SetExtraction
  PROVE  Kept'
<1>1. UNCHANGED <<rows, contracts, phase, boot, queue, worker, threads, requests, observing>>
  BY DEF FileAppears, CopyEnds, GiveUpEvent, SetExtraction, tables, process, work
<1>2. Typed'
  BY <1>1 DEF Kept, Typed, FileAppears, CopyEnds, GiveUpEvent, SetExtraction, disks, process
<1>3. Linked'
  BY <1>1 DEF Kept, Linked
<1>4. Beginning'
  BY <1>1 DEF Kept, Beginning, FileAppears, CopyEnds, GiveUpEvent, SetExtraction, process, history, Fail
<1> QED BY <1>1, <1>2, <1>3, <1>4, TablesSame, RequestsSame DEF Kept

LEMMA ThreadsKept ==
  ASSUME Kept, NEW t \in Thread, NEW next \in ThreadState, next.pc # "queueing", Goto(t, next),
         UNCHANGED <<rows, contracts, boot, queue, worker, requests, disk, growing, stale, early>>,
         failed' \in BOOLEAN, failed => failed',
         events' \subseteq events, phase \in {"watching", "up"}, phase' \in {"watching", "up"},
         observing' \in BOOLEAN
  PROVE  Kept'
<1>1. Typed'
  BY DEF Kept, Typed, Goto
<1>2. Linked'
  BY DEF Kept, Typed, Linked, Goto
<1>3. Beginning'
  BY DEF Kept, Beginning
<1> QED BY <1>1, <1>2, <1>3, TablesSame, RequestsSame DEF Kept

LEMMA ThreadTypes ==
  ASSUME Typed, NEW t \in Thread
  PROVE  /\ threads[t] \in ThreadState
         /\ threads[t].pc = "next" => threads[t] \in [pc : {"next"}, scan : BOOLEAN, todo : SUBSET File]
         /\ threads[t].pc = "hashing" => threads[t] \in [pc : {"hashing"}, scan : BOOLEAN, todo : SUBSET File, f : File]
         /\ threads[t].pc = "inserting" =>
              threads[t] \in [pc : {"inserting"}, scan : BOOLEAN, todo : SUBSET File, f : File,
                              hash : Hash \union File, original : Nat]
         /\ threads[t].pc = "queueing" =>
              threads[t] \in [pc : {"queueing"}, scan : BOOLEAN, todo : SUBSET File, id : Nat]
<1>1. threads[t] \in ThreadState
  BY DEF Typed
<1> QED BY <1>1 DEF ThreadState, Idle

LEMMA Begun ==
  ASSUME Kept, NEW t \in Thread, threads[t].pc # "idle"
  PROVE  phase \in {"watching", "up"}
BY DEF Kept, Typed, Beginning, Idle

LEMMA RegisterKept ==
  ASSUME Kept, NEW t \in Thread,
         \/ \E f \in File : HandleEvent(t, f) \/ CheckPath(t, f)
         \/ Poll(t) \/ LookUp(t) \/ EndThread(t) \/ RestartWatcher(t) \/ RegisterFails(t)
  PROVE  Kept'
<1>1. /\ UNCHANGED <<rows, contracts, boot, queue, worker, requests, disk, growing, stale, early>>
      /\ failed' \in BOOLEAN /\ (failed => failed')
  BY DEF HandleEvent, CheckPath, Poll, LookUp, EndThread, RestartWatcher, RegisterFails, Fail,
         tables, process, work, disks, history, Kept, Beginning
<1>2. threads[t].pc # "idle" => phase \in {"watching", "up"}
  BY Begun
<1>3. ASSUME NEW f \in File, HandleEvent(t, f) PROVE Kept'
  <2>1. PICK next : next = [pc |-> "next", scan |-> FALSE, todo |-> {f}]
    OBVIOUS
  <2>2. Goto(t, next) /\ phase' = phase /\ events' \subseteq events /\ observing' = observing /\ f \in events
    BY <1>3, <2>1 DEF HandleEvent, Goto
  <2>3. next \in ThreadState /\ next.pc # "queueing"
    BY <2>1 DEF ThreadState
  <2>4. phase \in {"watching", "up"} /\ observing \in BOOLEAN
    BY <2>2 DEF Kept, Beginning, Typed
  <2> QED BY <1>1, <2>2, <2>3, <2>4, ThreadsKept
<1>4. ASSUME NEW f \in File, CheckPath(t, f) PROVE Kept'
  <2>1. threads[t] \in [pc : {"next"}, scan : BOOLEAN, todo : SUBSET File] /\ phase \in {"watching", "up"}
    BY <1>2, <1>4, ThreadTypes DEF CheckPath, Kept
  <2>2. PICK next : Goto(t, next) /\ next \in ThreadState /\ next.pc # "queueing"
    <3>1. [threads[t] EXCEPT !.todo = @ \ {f}] \in [pc : {"next"}, scan : BOOLEAN, todo : SUBSET File]
      BY <2>1
    <3>2. [pc |-> "hashing", scan |-> threads[t].scan, todo |-> threads[t].todo \ {f}, f |-> f]
            \in [pc : {"hashing"}, scan : BOOLEAN, todo : SUBSET File, f : File]
      BY <2>1
    <3>3. [threads[t] EXCEPT !.todo = @ \ {f}].pc = "next"
      BY <2>1
    <3>4. CASE Known(f)
      BY <1>4, <3>1, <3>3, <3>4 DEF CheckPath, ThreadState
    <3>5. CASE ~ Known(f)
      BY <1>4, <3>2, <3>5 DEF CheckPath, ThreadState
    <3> QED BY <3>4, <3>5
  <2>3. UNCHANGED <<phase, events, observing>> /\ observing \in BOOLEAN
    BY <1>4 DEF CheckPath, process, Kept, Beginning
  <2> QED BY <1>1, <2>1, <2>2, <2>3, ThreadsKept
<1>5. CASE Poll(t)
  <2>1. PICK next : next = [pc |-> "next", scan |-> FALSE, todo |-> {f \in Remote \intersect disk : ~Known(f)}]
    OBVIOUS
  <2>2. Goto(t, next) /\ UNCHANGED <<phase, events, observing>> /\ phase = "up" /\ observing \in BOOLEAN
    BY <1>5, <2>1 DEF Poll, Goto, process, Kept, Beginning
  <2>3. next \in ThreadState /\ next.pc # "queueing"
    BY <2>1 DEF ThreadState, Kept, Typed
  <2> QED BY <1>1, <2>2, <2>3, ThreadsKept
<1>6. CASE LookUp(t)
  <2>1. /\ threads[t] \in [pc : {"hashing"}, scan : BOOLEAN, todo : SUBSET File, f : File]
        /\ phase \in {"watching", "up"}
    BY <1>2, <1>6, ThreadTypes DEF LookUp, Kept
  <2>2. PICK hash : hash = Digest(threads[t].f)
    OBVIOUS
  <2>3. PICK original : original = First(SameHash(hash))
    OBVIOUS
  <2>4. hash \in Hash \union File
    BY <2>1, <2>2, IngestionAssumption DEF Digest
  <2>5. original \in Nat
    <3>1. SameHash(hash) \in SUBSET (Nat \ {0})
      BY DEF SameHash, Kept, Typed
    <3> QED BY <2>3, <3>1, FirstIs
  <2>6. PICK next : next = [pc |-> "inserting", scan |-> threads[t].scan, todo |-> threads[t].todo,
                            f |-> threads[t].f, hash |-> hash, original |-> original]
    OBVIOUS
  <2>7. Goto(t, next) /\ UNCHANGED <<phase, events, observing>> /\ observing \in BOOLEAN
    BY <1>6, <2>2, <2>3, <2>6 DEF LookUp, process, Kept, Beginning
  <2>8. next \in ThreadState /\ next.pc # "queueing"
    BY <2>1, <2>4, <2>5, <2>6 DEF ThreadState
  <2> QED BY <1>1, <2>1, <2>7, <2>8, ThreadsKept
<1>7. CASE EndThread(t)
  <2>1. /\ threads[t] \in [pc : {"next"}, scan : BOOLEAN, todo : SUBSET File]
        /\ phase \in {"watching", "up"}
    BY <1>2, <1>7, ThreadTypes DEF EndThread, Kept
  <2>2. PICK next : next = Idle
    OBVIOUS
  <2>3. Goto(t, next) /\ UNCHANGED events /\ phase' \in {"watching", "up"} /\ observing' \in BOOLEAN
    BY <1>7, <2>1, <2>2 DEF EndThread
  <2>4. next \in ThreadState /\ next.pc # "queueing"
    BY <2>2 DEF ThreadState, Idle
  <2> QED BY <1>1, <2>1, <2>3, <2>4, ThreadsKept
<1>8. CASE RestartWatcher(t)
  <2>1. PICK next : next = Scanning
    OBVIOUS
  <2>2. Goto(t, next) /\ UNCHANGED <<phase, events>> /\ observing' \in BOOLEAN /\ phase = "up"
    BY <1>8, <2>1 DEF RestartWatcher, Goto
  <2>3. next \in ThreadState /\ next.pc # "queueing"
    BY <2>1 DEF ThreadState, Scanning, Listing, Kept, Typed
  <2> QED BY <1>1, <2>2, <2>3, ThreadsKept
<1>9. CASE RegisterFails(t)
  <2>1. threads[t].scan \in BOOLEAN /\ threads[t].todo \in SUBSET File /\ phase \in {"watching", "up"}
    BY <1>2, <1>9, ThreadTypes DEF RegisterFails, Kept
  <2>2. PICK next : next = [pc |-> "next", scan |-> threads[t].scan, todo |-> threads[t].todo]
    OBVIOUS
  <2>3. Goto(t, next) /\ UNCHANGED <<phase, events, observing>> /\ observing \in BOOLEAN
    BY <1>9, <2>2 DEF RegisterFails, GoOn, process, Kept, Beginning
  <2>4. next \in ThreadState /\ next.pc # "queueing"
    BY <2>1, <2>2 DEF ThreadState
  <2> QED BY <1>1, <2>1, <2>3, <2>4, ThreadsKept
<1> QED BY <1>3, <1>4, <1>5, <1>6, <1>7, <1>8, <1>9

\* The two steps of a thread that register a row and queue it.
LEMMA InsertKept ==
  ASSUME Kept, NEW t \in Thread, Insert(t)
  PROVE  Kept' /\ Grows
<1> USE DEF Kept
<1>1. /\ threads[t] \in [pc : {"inserting"}, scan : BOOLEAN, todo : SUBSET File, f : File,
                         hash : Hash \union File, original : Nat]
      /\ phase \in {"watching", "up"}
  BY Begun, ThreadTypes DEF Insert
<1>2. PICK r : r = threads[t]
  OBVIOUS
<1>3. PICK x : x = [path |-> r.f, hash |-> r.hash, original |-> r.original, contract |-> 0,
                    status |-> IF r.original = 0 THEN "QUEUED" ELSE "DUPLICATE"]
  OBVIOUS
<1>4. x \in Row /\ x.contract = 0 /\ (x.original = 0 => x.status # "DUPLICATE")
  BY <1>1, <1>2, <1>3 DEF Row, RowStatus
<1>5. rows' = Append(rows, x) /\ rows \in Seq(Row)
  BY <1>2, <1>3 DEF Insert, Typed
<1>6. /\ rows' \in Seq(Row) /\ DOMAIN rows' = DOMAIN rows \union {Len(rows) + 1} /\ Len(rows) \in Nat
      /\ rows'[Len(rows) + 1] = x /\ \A j \in DOMAIN rows : rows'[j] = rows[j]
  BY <1>4, <1>5, OneAppended
<1>7. PICK next : next = IF r.original = 0 THEN [pc |-> "queueing", scan |-> r.scan, todo |-> r.todo, id |-> Len(rows) + 1]
                         ELSE [pc |-> "next", scan |-> r.scan, todo |-> r.todo]
  OBVIOUS
<1>8. /\ Goto(t, next)
      /\ UNCHANGED <<contracts, phase, boot, observing, events, queue, worker, requests, disk, growing, failed, early>>
  BY <1>2, <1>7 DEF Insert, GoOn, process, work, disks
<1>9. next \in ThreadState /\ (next.pc = "queueing" => next.id = Len(rows) + 1)
  BY <1>1, <1>2, <1>6, <1>7 DEF ThreadState
<1>10. Grows
  BY <1>6, <1>8 DEF Grows, Typed
<1>11. Typed'
  BY <1>6, <1>8, <1>9 DEF Typed, Goto
<1>12. Linked'
  <2>1. \A s \in Thread : threads'[s].pc = "queueing" => threads'[s].id \in DOMAIN rows'
    BY <1>6, <1>8, <1>9 DEF Linked, Goto, Typed
  <2>2. \A i \in DOMAIN rows' : rows'[i].contract \in 0 .. Len(contracts)
    BY <1>4, <1>6, <1>10 DEF Linked, Grows
  <2> QED BY <1>6, <1>8, <2>1, <2>2 DEF Linked
<1>13. Duplicates'
  BY <1>4, <1>6 DEF Duplicates
<1>14. Beginning'
  <2>1. stale' \in BOOLEAN
    BY DEF Insert, Beginning
  <2> QED BY <1>1, <1>6, <1>8, <2>1 DEF Beginning
<1> QED BY <1>8, <1>10, <1>11, <1>12, <1>13, <1>14, RequestsSame

LEMMA QueueGrows ==
  ASSUME Typed, Linked, NEW id \in DOMAIN rows, queue' = queue \/ queue' = Append(queue, id)
  PROVE  queue' \in Seq(Nat) /\ \A k \in DOMAIN queue' : queue'[k] \in DOMAIN rows
<1>1. queue \in Seq(Nat) /\ id \in Nat /\ \A k \in DOMAIN queue : queue[k] \in DOMAIN rows
  BY DEF Typed, Linked
<1>2. CASE queue' = Append(queue, id)
  <2>1. /\ queue' \in Seq(Nat) /\ DOMAIN queue' = DOMAIN queue \union {Len(queue) + 1}
        /\ queue'[Len(queue) + 1] = id /\ \A k \in DOMAIN queue : queue'[k] = queue[k]
    BY <1>1, <1>2, OneAppended
  <2> QED BY <1>1, <2>1
<1> QED BY <1>1, <1>2

LEMMA PutKept ==
  ASSUME Kept, NEW t \in Thread, Put(t)
  PROVE  Kept'
<1> USE DEF Kept
<1>1. /\ threads[t] \in [pc : {"queueing"}, scan : BOOLEAN, todo : SUBSET File, id : Nat]
      /\ threads[t].id \in DOMAIN rows /\ phase \in {"watching", "up"}
  BY Begun, ThreadTypes DEF Put, Linked
<1>2. PICK next, id : /\ next = [pc |-> "next", scan |-> threads[t].scan, todo |-> threads[t].todo]
                      /\ id = threads[t].id
  OBVIOUS
<1>3. /\ Goto(t, next) /\ next \in ThreadState /\ next.pc = "next"
      /\ UNCHANGED <<rows, contracts, phase, boot, observing, events, worker, requests, disk, growing, failed, stale, early>>
  BY <1>1, <1>2 DEF Put, GoOn, process, tables, disks, history, ThreadState
<1>4. queue' = queue \/ queue' = Append(queue, id)
  BY <1>2 DEF Put
<1>5. queue' \in Seq(Nat) /\ \A k \in DOMAIN queue' : queue'[k] \in DOMAIN rows
  BY <1>1, <1>2, <1>4, QueueGrows DEF Typed, Linked
<1>6. Typed'
  BY <1>3, <1>5 DEF Typed, Goto
<1>7. Linked'
  BY <1>3, <1>5 DEF Linked, Goto, Typed
<1>8. Beginning'
  BY <1>1, <1>3 DEF Beginning
<1> QED BY <1>3, <1>6, <1>7, <1>8, TablesSame, RequestsSame

-----------------------------------------------------------------------------
(* The start and the end of the process                                      *)

LEMMA StartKept ==
  ASSUME Kept, Boot \/ \E i \in boot.left : PutLeft(i)
  PROVE  Kept'
<1> USE DEF Kept
<1>1. CASE Boot
  <2>1. /\ UNCHANGED <<rows, contracts, observing, events, queue, worker, threads, requests, disk, growing, failed, stale, early>>
        /\ phase = "down" /\ phase' = "requeueing"
        /\ boot' = [left |-> Unsettled, mid |-> {i \in Unsettled : rows[i].status = "EXTRACTING"}]
    BY <1>1 DEF Boot, disks, tables, work, history
  <2>2. Unsettled \subseteq DOMAIN rows /\ DOMAIN rows \subseteq Nat
    BY DEF Unsettled, Typed
  <2>3. Typed' /\ Linked'
    BY <2>1, <2>2 DEF Typed, Linked
  <2>4. Beginning'
    BY <2>1, <2>2 DEF Beginning, Idle
  <2> QED BY <2>1, <2>3, <2>4, TablesSame, RequestsSame
<1>2. ASSUME NEW i \in boot.left, PutLeft(i) PROVE Kept'
  <2>1. /\ UNCHANGED <<rows, contracts, phase, observing, events, worker, threads, requests, disk, growing, failed, stale, early>>
        /\ phase = "requeueing" /\ queue' = Append(queue, i)
        /\ boot' = [boot EXCEPT !.left = @ \ {i}]
    BY <1>2 DEF PutLeft, disks, tables, history
  <2>2. i \in DOMAIN rows /\ boot'.left = boot.left \ {i} /\ boot'.mid = boot.mid
    BY <1>2, <2>1 DEF Linked, Typed
  <2>3. queue' \in Seq(Nat) /\ \A k \in DOMAIN queue' : queue'[k] \in DOMAIN rows
    BY <2>1, <2>2, QueueGrows
  <2>4. Typed'
    BY <2>1, <2>3 DEF Typed
  <2>5. Linked'
    BY <2>1, <2>2, <2>3 DEF Linked
  <2>6. Beginning'
    BY <2>1, <2>2 DEF Beginning
  <2> QED BY <2>1, <2>4, <2>5, <2>6, TablesSame, RequestsSame
<1> QED BY <1>1, <1>2

\* What is queued again.
LEMMA RequeuedRows ==
  ASSUME Typed, NEW t \in Thread, CommitLeft(t)
  PROVE  /\ rows' \in Seq(Row) /\ DOMAIN rows' = DOMAIN rows
         /\ \A i \in DOMAIN rows :
              /\ rows'[i].path = rows[i].path /\ rows'[i].hash = rows[i].hash
              /\ rows'[i].original = rows[i].original /\ rows'[i].contract = rows[i].contract
              /\ rows'[i].status = IF i \in boot.mid THEN "QUEUED" ELSE rows[i].status
<1>1. rows' = [i \in DOMAIN rows |-> IF i \in boot.mid THEN [rows[i] EXCEPT !.status = "QUEUED"] ELSE rows[i]]
  BY DEF CommitLeft
<1>2. PICK n \in Nat : rows \in [1 .. n -> Row] /\ DOMAIN rows = 1 .. n
  BY DEF Typed
<1>3. ASSUME NEW i \in DOMAIN rows
      PROVE  /\ rows'[i] \in Row
             /\ rows'[i].path = rows[i].path /\ rows'[i].hash = rows[i].hash
             /\ rows'[i].original = rows[i].original /\ rows'[i].contract = rows[i].contract
             /\ rows'[i].status = IF i \in boot.mid THEN "QUEUED" ELSE rows[i].status
  <2>1. rows[i] \in Row
    BY <1>2
  <2>2. [rows[i] EXCEPT !.status = "QUEUED"] \in Row
    BY <2>1 DEF Row, RowStatus
  <2> QED BY <1>1, <2>1, <2>2 DEF Row
<1>4. rows' \in [1 .. n -> Row]
  BY <1>1, <1>2, <1>3
<1>5. rows' \in Seq(Row)
  BY <1>4
<1> QED BY <1>1, <1>3, <1>5

LEMMA CommitLeftKept ==
  ASSUME Kept, NEW t \in Thread, CommitLeft(t)
  PROVE  Kept' /\ Grows
<1> USE DEF Kept
<1>1. /\ rows' \in Seq(Row) /\ DOMAIN rows' = DOMAIN rows
      /\ \A i \in DOMAIN rows :
           /\ rows'[i].original = rows[i].original /\ rows'[i].contract = rows[i].contract
           /\ rows'[i].status = IF i \in boot.mid THEN "QUEUED" ELSE rows[i].status
  BY RequeuedRows
<1>2. PICK next : next = Scanning
  OBVIOUS
<1>3. /\ UNCHANGED <<contracts, observing, events, queue, worker, requests, disk, growing, failed, early>>
      /\ stale' \in BOOLEAN
      /\ phase' = "watching" /\ boot' = NoBoot /\ threads' = [threads EXCEPT ![t] = next]
  BY <1>2 DEF CommitLeft, disks, work, Beginning
<1>4. next \in ThreadState /\ next.pc = "next"
  BY <1>2 DEF ThreadState, Scanning, Listing, Typed
<1>5. Grows
  BY <1>1, <1>3 DEF Grows, Typed
<1>6. Typed'
  BY <1>1, <1>3, <1>4 DEF Typed, NoBoot
<1>7. Linked'
  BY <1>1, <1>3, <1>4 DEF Linked, NoBoot, Typed
<1>8. Duplicates'
  BY <1>1 DEF Duplicates
<1>9. Beginning'
  BY <1>3 DEF Beginning, NoBoot
<1> QED BY <1>3, <1>5, <1>6, <1>7, <1>8, <1>9, RequestsSame

LEMMA CrashKept ==
  ASSUME Kept, Crash
  PROVE  Kept'
<1> USE DEF Kept
<1>1. /\ UNCHANGED <<rows, contracts, disk, growing, failed, stale, early>>
      /\ phase' = "down" /\ boot' = NoBoot /\ observing' = FALSE /\ events' = {}
      /\ queue' = <<>> /\ worker' = Idle
      /\ threads' = [t \in Thread |-> Idle] /\ requests' = [u \in User |-> Idle]
  BY DEF Crash, disks, tables, history
<1>2. Idle \in ThreadState /\ Idle \in WorkerState /\ Idle \in RequestState /\ Idle.pc = "idle"
  BY DEF Idle, ThreadState, WorkerState, RequestState
<1>3. Typed'
  BY <1>1, <1>2 DEF Typed, NoBoot
<1>4. Linked'
  BY <1>1, <1>2 DEF Linked, NoBoot
<1>5. Beginning'
  BY <1>1, <1>2 DEF Beginning, NoBoot
<1>6. AllSound'
  BY <1>1, <1>2 DEF AllSound
<1> QED BY <1>1, <1>3, <1>4, <1>5, <1>6, TablesSame

-----------------------------------------------------------------------------
(* The worker                                                                *)

LEMMA WorkerTypes ==
  ASSUME Kept, worker.pc \in {"taken", "found", "extracting", "extracted"}
  PROVE  /\ worker \in [pc : {"taken", "found", "extracting", "extracted"}, id : Nat]
         /\ worker.id \in DOMAIN rows /\ worker.id \in Nat
BY DEF Kept, Typed, Linked, WorkerState, Idle

\* Its steps that store nothing.
LEMMA WorkerKept ==
  ASSUME Kept, CheckSwitch \/ WaitEnds \/ Take \/ ReadRow \/ WorkerDies
  PROVE  Kept'
<1> USE DEF Kept
<1>1. /\ UNCHANGED <<rows, contracts, phase, boot, observing, events, threads, requests, disk, growing, stale>>
      /\ failed' \in BOOLEAN /\ early' \in BOOLEAN
  BY DEF CheckSwitch, WaitEnds, Take, ReadRow, WorkerDies, Fail, disks, tables, process, history, Beginning
<1>2. CASE CheckSwitch \/ WaitEnds
  <2>1. worker' \in {Idle, [pc |-> "waiting"]} /\ queue' = queue /\ failed' = failed /\ phase # "down"
    BY <1>2 DEF CheckSwitch, WaitEnds, work, history, Beginning, Idle
  <2>2. worker' \in WorkerState /\ worker'.pc \in {"idle", "waiting"}
    BY <2>1 DEF WorkerState, Idle
  <2>3. Typed' /\ Linked' /\ Beginning'
    BY <1>1, <2>1, <2>2 DEF Typed, Linked, Beginning
  <2> QED BY <1>1, <2>3, TablesSame, RequestsSame
<1>3. CASE Take
  <2>1. /\ worker.pc = "waiting" /\ queue # <<>> /\ worker' = [pc |-> "taken", id |-> Head(queue)] /\ queue' = Tail(queue)
        /\ failed' = failed /\ phase # "down"
    BY <1>3 DEF Take, history, Beginning, Idle
  <2>2. /\ Head(queue) \in Nat /\ queue' \in Seq(Nat) /\ Len(queue') = Len(queue) - 1
        /\ \A k \in 1 .. Len(queue') : queue'[k] = queue[k + 1]
        /\ Len(queue) \in Nat /\ DOMAIN queue = 1 .. Len(queue) /\ DOMAIN queue' = 1 .. Len(queue')
    BY <2>1, HeadTailProperties DEF Typed
  <2>3. Head(queue) = queue[1] /\ 1 \in DOMAIN queue /\ \A k \in DOMAIN queue' : k + 1 \in DOMAIN queue
    <3>1. Len(queue) # 0
      BY <2>1, EmptySeq DEF Typed
    <3> QED BY <2>2, <3>1
  <2>4. worker' \in WorkerState /\ worker'.pc = "taken" /\ worker'.id \in DOMAIN rows
    BY <2>1, <2>2, <2>3 DEF WorkerState, Linked
  <2>5. \A k \in DOMAIN queue' : queue'[k] \in DOMAIN rows
    BY <2>2, <2>3 DEF Linked
  <2>6. Typed' /\ Linked' /\ Beginning'
    BY <1>1, <2>1, <2>2, <2>4, <2>5 DEF Typed, Linked, Beginning
  <2> QED BY <1>1, <2>6, TablesSame, RequestsSame
<1>4. CASE ReadRow
  <2>1. /\ worker \in [pc : {"taken", "found", "extracting", "extracted"}, id : Nat] /\ worker.id \in DOMAIN rows
        /\ worker.pc = "taken" /\ queue' = queue /\ failed' = failed
        /\ worker' = IF rows[worker.id].status \in {"QUEUED", "FAILED"} THEN [worker EXCEPT !.pc = "found"] ELSE Idle
    BY <1>4, WorkerTypes DEF ReadRow
  <2>2. /\ worker' \in WorkerState
        /\ worker'.pc # "idle" => worker'.pc = "found" /\ worker'.id = worker.id /\ rows[worker.id].status # "EXTRACTING"
    BY <2>1 DEF WorkerState, Idle
  <2>3. phase # "down"
    BY <2>1 DEF Beginning, Idle
  <2>4. worker'.pc \in {"idle", "found"}
    BY <2>1 DEF Idle
  <2>5. Typed' /\ Linked'
    BY <1>1, <2>1, <2>2, <2>4 DEF Typed, Linked
  <2>6. Beginning'
    BY <1>1, <2>1, <2>2, <2>3, <2>4 DEF Beginning
  <2> QED BY <1>1, <2>5, <2>6, TablesSame, RequestsSame
<1>5. CASE WorkerDies
  <2>1. worker' = [pc |-> "dead"] /\ failed' = TRUE /\ queue' = queue /\ worker.pc # "idle"
    BY <1>5 DEF WorkerDies, Fail
  <2>2. worker' \in WorkerState /\ worker'.pc = "dead" /\ phase # "down"
    BY <2>1 DEF WorkerState, Beginning, Idle
  <2>3. Typed' /\ Linked' /\ Beginning'
    BY <1>1, <2>1, <2>2 DEF Typed, Linked, Beginning
  <2> QED BY <1>1, <2>3, TablesSame, RequestsSame
<1> QED BY <1>2, <1>3, <1>4, <1>5

\* The worker stores its row's status and, in the end, a contract.
LEMMA StatusSet ==
  ASSUME Typed, NEW i \in DOMAIN rows, NEW s \in RowStatus, rows' = [rows EXCEPT ![i].status = s]
  PROVE  /\ rows' \in Seq(Row) /\ DOMAIN rows' = DOMAIN rows /\ rows'[i].status = s
         /\ rows'[i].path = rows[i].path /\ rows'[i].hash = rows[i].hash
         /\ rows'[i].original = rows[i].original /\ rows'[i].contract = rows[i].contract
         /\ \A j \in DOMAIN rows : j # i => rows'[j] = rows[j]
<1>1. PICK x : x = [rows[i] EXCEPT !.status = s]
  OBVIOUS
<1>2. rows[i] \in Row
  BY DEF Typed
<1>3. /\ x \in Row /\ x.status = s /\ x.path = rows[i].path /\ x.hash = rows[i].hash
      /\ x.original = rows[i].original /\ x.contract = rows[i].contract
  BY <1>1, <1>2 DEF Row
<1>4. rows' = [rows EXCEPT ![i] = x] /\ rows \in Seq(Row)
  BY <1>1 DEF Typed
<1>5. PICK z : z = rows'
  OBVIOUS
<1>6. z \in Seq(Row) /\ DOMAIN z = DOMAIN rows /\ z[i] = x /\ \A j \in DOMAIN rows : j # i => z[j] = rows[j]
  BY <1>3, <1>4, <1>5, OneReplaced
<1> QED BY <1>3, <1>5, <1>6

\* Its step from one status of the row to the next.
LEMMA StepKept ==
  ASSUME Kept, NEW from \in SUBSET {"found", "extracting", "extracted"}, NEW s \in {"EXTRACTING", "EXTRACTED", "FAILED"},
         NEW to \in WorkerState, Step(from, s, to),
         to.pc # "dead", to.pc \in {"taken", "found", "extracting", "extracted"} => to.id = worker.id
  PROVE  Kept' /\ Grows
<1> USE DEF Kept
<1>1. /\ UNCHANGED <<contracts, phase, boot, observing, events, queue, threads, requests, disk, growing, failed, stale, early>>
      /\ worker.pc \in {"found", "extracting", "extracted"} /\ worker' = to
      /\ rows' = [rows EXCEPT ![worker.id].status = s]
  BY DEF Step, process, disks, history
<1>2. worker.id \in DOMAIN rows /\ s \in RowStatus
  BY <1>1, WorkerTypes DEF RowStatus
<1>3. PICK i : i = worker.id
  OBVIOUS
<1>4. /\ rows' \in Seq(Row) /\ DOMAIN rows' = DOMAIN rows /\ rows'[i].status = s
      /\ rows'[i].original = rows[i].original /\ rows'[i].contract = rows[i].contract
      /\ \A j \in DOMAIN rows : j # i => rows'[j] = rows[j]
  BY <1>1, <1>2, <1>3, StatusSet
<1>5. Grows
  BY <1>1, <1>4 DEF Grows, Typed
<1>6. Typed'
  BY <1>1, <1>4 DEF Typed
<1>7. Linked'
  BY <1>1, <1>2, <1>3, <1>4 DEF Linked
<1>8. Duplicates'
  BY <1>2, <1>3, <1>4 DEF Duplicates
<1>9. Beginning'
  <2>1. phase # "down"
    BY <1>1 DEF Beginning, Idle
  <2>2. failed \/ i \notin boot.mid
    BY <1>1, <1>3 DEF Beginning
  <2> QED BY <1>1, <1>3, <1>4, <2>1, <2>2 DEF Beginning
<1> QED BY <1>1, <1>5, <1>6, <1>7, <1>8, <1>9, RequestsSame

LEMMA LookUpKept ==
  ASSUME Kept, LookUpFails
  PROVE  Kept' /\ Grows
<1> USE DEF Kept
<1>1. /\ UNCHANGED <<contracts, phase, boot, observing, events, queue, threads, requests, disk, growing, stale, early>>
      /\ worker.pc \in {"taken", "found"} /\ worker' = Idle /\ failed' = TRUE
      /\ rows' = [rows EXCEPT ![worker.id].status = "FAILED"]
  BY DEF LookUpFails, Fail, process, disks
<1>2. worker.id \in DOMAIN rows /\ "FAILED" \in RowStatus
  BY <1>1, WorkerTypes DEF RowStatus
<1>3. PICK i : i = worker.id
  OBVIOUS
<1>4. /\ rows' \in Seq(Row) /\ DOMAIN rows' = DOMAIN rows /\ rows'[i].status = "FAILED"
      /\ rows'[i].original = rows[i].original /\ rows'[i].contract = rows[i].contract
      /\ \A j \in DOMAIN rows : j # i => rows'[j] = rows[j]
  BY <1>1, <1>2, <1>3, StatusSet
<1>5. Grows
  BY <1>1, <1>4 DEF Grows, Typed
<1>6. Typed'
  BY <1>1, <1>4 DEF Typed, WorkerState
<1>7. Linked'
  BY <1>1, <1>2, <1>3, <1>4 DEF Linked, Idle
<1>8. Duplicates'
  BY <1>2, <1>3, <1>4 DEF Duplicates
<1>9. Beginning'
  <2>1. phase # "down"
    BY <1>1 DEF Beginning, Idle
  <2> QED BY <1>1, <1>3, <1>4, <2>1 DEF Beginning, Idle
<1> QED BY <1>1, <1>5, <1>6, <1>7, <1>8, <1>9, RequestsSame

\* Row i got contract n.
Stored(i, n) ==
  /\ i \in DOMAIN rows /\ n \in Nat \ {0} /\ n \notin DOMAIN contracts
  /\ rows' \in Seq(Row) /\ DOMAIN rows' = DOMAIN rows
  /\ rows'[i].status = "PENDING_VALIDATION" /\ rows'[i].contract = n
  /\ rows'[i].hash = rows[i].hash /\ rows'[i].original = rows[i].original
  /\ \A j \in DOMAIN rows : j # i => rows'[j] = rows[j]
  /\ contracts' \in Seq(Contract) /\ DOMAIN contracts' = DOMAIN contracts \union {n}
  /\ Len(contracts') = n /\ Len(contracts) \in Nat
  /\ contracts'[n] = [row |-> i, status |-> "PENDING_VALIDATION", deleted |-> FALSE]
  /\ \A c \in DOMAIN contracts : contracts'[c] = contracts[c]

LEMMA StoreIs ==
  ASSUME Kept, Store, NEW i, i = worker.id, NEW n, n = Len(contracts) + 1
  PROVE  Stored(i, n)
<1> USE DEF Kept
<1>1. i \in DOMAIN rows /\ i \in Nat
  BY WorkerTypes DEF Store
<1>2. PICK y : y = [row |-> i, status |-> "PENDING_VALIDATION", deleted |-> FALSE]
  OBVIOUS
<1>3. y \in Contract /\ contracts \in Seq(Contract) /\ contracts' = Append(contracts, y)
  BY <1>1, <1>2 DEF Contract, Store, Typed
<1>4. /\ contracts' \in Seq(Contract) /\ DOMAIN contracts' = DOMAIN contracts \union {n}
      /\ Len(contracts') = n /\ Len(contracts) \in Nat /\ n \notin DOMAIN contracts
      /\ contracts'[n] = y /\ \A c \in DOMAIN contracts : contracts'[c] = contracts[c]
  BY <1>3, OneAppended
<1>5. PICK x : x = [rows[i] EXCEPT !.status = "PENDING_VALIDATION", !.contract = n]
  OBVIOUS
<1>6. rows[i] \in Row /\ rows \in Seq(Row)
  BY <1>1 DEF Typed
<1>7. /\ x \in Row /\ x.status = "PENDING_VALIDATION" /\ x.contract = n
      /\ x.hash = rows[i].hash /\ x.original = rows[i].original
  <2>1. PICK v : v = [rows[i] EXCEPT !.status = "PENDING_VALIDATION"]
    OBVIOUS
  <2>2. v \in Row /\ v.status = "PENDING_VALIDATION" /\ v.hash = rows[i].hash /\ v.original = rows[i].original
    BY <1>6, <2>1 DEF Row, RowStatus
  <2>3. x = [v EXCEPT !.contract = n]
    BY <1>5, <2>1
  <2> QED BY <1>4, <2>2, <2>3 DEF Row
<1>8. rows' = [rows EXCEPT ![i] = x]
  <2>1. rows' = [rows EXCEPT ![i].status = "PENDING_VALIDATION", ![i].contract = n]
    BY DEF Store
  <2>2. PICK w : w = [rows EXCEPT ![i].status = "PENDING_VALIDATION"]
    OBVIOUS
  <2>3. w[i] = [rows[i] EXCEPT !.status = "PENDING_VALIDATION"]
    BY <1>1, <2>2
  <2>4. rows' = [w EXCEPT ![i].contract = n]
    BY <2>1, <2>2
  <2>5. rows' = [w EXCEPT ![i] = x]
    BY <1>5, <2>3, <2>4
  <2> QED BY <1>1, <2>2, <2>5
<1>9. PICK z : z = rows'
  OBVIOUS
<1>10. z \in Seq(Row) /\ DOMAIN z = DOMAIN rows /\ z[i] = x /\ \A j \in DOMAIN rows : j # i => z[j] = rows[j]
  BY <1>1, <1>6, <1>7, <1>8, <1>9, OneReplaced
<1> QED BY <1>1, <1>2, <1>4, <1>7, <1>9, <1>10 DEF Stored

LEMMA StoreKept ==
  ASSUME Kept, Store
  PROVE  Kept' /\ Grows
<1>1. /\ UNCHANGED <<phase, boot, observing, events, queue, threads, requests, disk, growing, failed, stale, early>>
      /\ worker.pc = "extracted" /\ worker' = Idle
  BY DEF Store, process, disks, history
<1>2. PICK i, n : i = worker.id /\ n = Len(contracts) + 1
  OBVIOUS
<1>3. Stored(i, n)
  BY <1>2, StoreIs
<1> USE DEF Kept, Stored
<1>4. Grows
  BY <1>2, <1>3 DEF Grows
<1>5. Typed'
  BY <1>1, <1>3 DEF Typed, WorkerState
<1>6. Linked'
  <2>1. \A j \in DOMAIN rows' : rows'[j].contract \in 0 .. n
    BY <1>2, <1>3 DEF Linked
  <2>2. \A c \in DOMAIN contracts' : contracts'[c].row \in DOMAIN rows
    BY <1>3 DEF Linked
  <2> QED BY <1>1, <1>3, <2>1, <2>2 DEF Linked, Idle
<1>7. Duplicates'
  BY <1>3 DEF Duplicates
<1>8. Beginning'
  <2>1. phase # "down"
    BY <1>1 DEF Beginning, Idle
  <2>2. failed \/ i \notin boot.mid
    BY <1>1, <1>2 DEF Beginning
  <2> QED BY <1>1, <1>3, <2>1, <2>2 DEF Beginning, Idle
<1> QED BY <1>1, <1>4, <1>5, <1>6, <1>7, <1>8, RequestsSame

-----------------------------------------------------------------------------
(* Requests                                                                  *)

LEMMA DecideKept ==
  ASSUME Kept, NEW u \in User, NEW i, NEW row, NEW c, NEW contract, NEW put, Decide(u, i, row, c, contract, put),
         NEW r, r = [pc |-> "saving", i |-> i, c |-> c, put |-> put,
                     row |-> IF i = 0 THEN NoRow ELSE rows[i], newRow |-> row,
                     contract |-> IF c = 0 THEN NoRow ELSE contracts[c], newContract |-> contract],
         r \in RequestState, Sound(r)
  PROVE  Kept'
<1> USE DEF Kept
<1>1. /\ UNCHANGED <<rows, contracts, phase, boot, observing, events, queue, worker, threads, disk, growing, failed, stale, early>>
      /\ phase = "up" /\ requests' = [requests EXCEPT ![u] = r]
  BY DEF Decide, disks, tables, process, work, history
<1>2. r.pc = "saving"
  OBVIOUS
<1>3. Typed'
  BY <1>1 DEF Typed
<1>4. Linked'
  BY <1>1, <1>2 DEF Linked, Typed
<1>5. Beginning'
  BY <1>1 DEF Beginning
<1>6. AllSound'
  <2> SUFFICES ASSUME NEW v \in User, requests'[v].pc = "saving" PROVE Sound(requests[v])'
    BY DEF AllSound
  <2>1. PICK q : q = requests'[v]
    OBVIOUS
  <2>2. Sound(q)
    BY <1>1, <2>1 DEF AllSound, Typed
  <2>3. Sound(q)'
    BY <2>2, <1>1, TablesSame, SoundStays
  <2> QED BY <2>1, <2>3 DEF Sound
<1> QED BY <1>1, <1>3, <1>4, <1>5, <1>6, TablesSame

LEMMA RequeuedIs ==
  ASSUME NEW i, rows[i] \in Row
  PROVE  /\ Requeued(i) \in Row /\ Requeued(i).path = rows[i].path /\ Requeued(i).hash = rows[i].hash
         /\ Requeued(i).original = rows[i].original /\ Requeued(i).status = "QUEUED" /\ Requeued(i).contract = 0
<1>1. PICK v : v = [rows[i] EXCEPT !.status = "QUEUED"]
  OBVIOUS
<1>2. /\ v \in Row /\ v.status = "QUEUED" /\ v.path = rows[i].path /\ v.hash = rows[i].hash
      /\ v.original = rows[i].original
  BY <1>1 DEF Row, RowStatus
<1>3. Requeued(i) = [v EXCEPT !.contract = 0]
  BY <1>1 DEF Requeued
<1> QED BY <1>2, <1>3 DEF Row

\* The decisions on a row: its draft, if it has one, is superseded.
LEMMA RetryKept ==
  ASSUME Kept, NEW u \in User, NEW i \in DOMAIN rows, Retry(u, i)
  PROVE  Kept'
<1>1. PICK c : c = IF rows[i].status = "FAILED" THEN 0 ELSE rows[i].contract
  OBVIOUS
<1>2. Decide(u, i, Requeued(i), c, IF c = 0 THEN NoRow ELSE Superseded(c), TRUE)
  BY <1>1 DEF Retry
<1>3. PICK r : r = [pc |-> "saving", i |-> i, c |-> c, put |-> TRUE,
                    row |-> IF i = 0 THEN NoRow ELSE rows[i], newRow |-> Requeued(i),
                    contract |-> IF c = 0 THEN NoRow ELSE contracts[c],
                    newContract |-> IF c = 0 THEN NoRow ELSE Superseded(c)]
  OBVIOUS
<1>4. rows[i] \in Row /\ i \in Nat \ {0} /\ rows[i].contract \in 0 .. Len(contracts) /\ Len(contracts) \in Nat
  BY DEF Kept, Typed, Linked
<1>5. c \in 0 .. Len(contracts) /\ c \in Nat
  BY <1>1, <1>4
<1>6. c # 0 => c \in DOMAIN contracts /\ contracts[c] \in Contract
  BY <1>4, <1>5 DEF Kept, Typed
<1>7. /\ Requeued(i) \in Row /\ Requeued(i).path = rows[i].path /\ Requeued(i).hash = rows[i].hash
      /\ Requeued(i).original = rows[i].original /\ Requeued(i).status = "QUEUED" /\ Requeued(i).contract = 0
  BY <1>4, RequeuedIs
<1>8. c # 0 => /\ Superseded(c) \in Contract /\ Superseded(c).deleted /\ Superseded(c).row = contracts[c].row
  BY <1>6 DEF Superseded, Contract
<1>9. /\ r.pc = "saving" /\ r.i = i /\ r.c = c /\ r.put = TRUE /\ r.row = rows[i] /\ r.newRow = Requeued(i)
      /\ c # 0 => r.contract = contracts[c] /\ r.newContract = Superseded(c)
      /\ c = 0 => r.contract = NoRow /\ r.newContract = NoRow
  BY <1>3, <1>4
<1>10. r \in RequestState
  BY <1>3, <1>4, <1>5, <1>6, <1>7, <1>8 DEF RequestState
<1>11. Sound(r)
  <2>1. /\ r.i \in DOMAIN rows /\ r.row \in Row /\ r.newRow \in Row
        /\ r.newRow.path = r.row.path /\ r.newRow.hash = r.row.hash /\ r.newRow.original = r.row.original
        /\ r.newRow.status = "QUEUED"
        /\ r.row.contract \in 0 .. Len(contracts) /\ r.newRow.contract \in 0 .. Len(contracts)
    BY <1>4, <1>7, <1>9
  <2>2. r.c # 0 => /\ r.c \in DOMAIN contracts /\ r.contract \in Contract /\ r.newContract \in Contract
                   /\ r.newContract.row = r.contract.row /\ r.newContract.deleted
    BY <1>6, <1>8, <1>9
  <2>3. r.c = 0 => r.row.status = "FAILED" \/ r.row.contract = 0
    BY <1>1, <1>9
  <2>4. r.c # 0 => r.c = r.row.contract
    BY <1>1, <1>9
  <2>5. r.put /\ r.i # 0
    BY <1>4, <1>9
  <2> QED BY <2>1, <2>2, <2>3, <2>4, <2>5 DEF Sound
<1> QED BY <1>2, <1>3, <1>10, <1>11, DecideKept

\* The decisions on a contract that was not deleted.
LEMMA LiveContract ==
  ASSUME Kept, NEW c \in DOMAIN contracts, Live(c)
  PROVE  /\ contracts[c] \in Contract /\ ~ contracts[c].deleted /\ c \in Nat \ {0}
         /\ contracts[c].row \in DOMAIN rows /\ contracts[c].row \in Nat \ {0} /\ rows[contracts[c].row] \in Row
         /\ rows[contracts[c].row].contract \in 0 .. Len(contracts) /\ 0 \in 0 .. Len(contracts)
         /\ Superseded(c) \in Contract /\ Superseded(c).deleted /\ Superseded(c).row = contracts[c].row
<1>1. contracts[c] \in Contract /\ c \in Nat \ {0} /\ Len(contracts) \in Nat
  BY DEF Kept, Typed
<1>2. contracts[c].row \in DOMAIN rows /\ DOMAIN rows \subseteq Nat \ {0} /\ \A i \in DOMAIN rows : rows[i] \in Row
  BY DEF Kept, Typed, Linked
<1>3. rows[contracts[c].row].contract \in 0 .. Len(contracts)
  BY <1>2 DEF Kept, Linked
<1>4. Superseded(c) \in Contract /\ Superseded(c).deleted /\ Superseded(c).row = contracts[c].row
  BY <1>1 DEF Superseded, Contract
<1>5. ~ contracts[c].deleted /\ 0 \in 0 .. Len(contracts)
  BY <1>1 DEF Live
<1> QED BY <1>1, <1>2, <1>3, <1>4, <1>5

LEMMA ReExtractKept ==
  ASSUME Kept, NEW u \in User, NEW c \in DOMAIN contracts, ReExtract(u, c)
  PROVE  Kept'
<1>1. PICK i : i = contracts[c].row
  OBVIOUS
<1>2. PICK r : r = [pc |-> "saving", i |-> i, c |-> c, put |-> TRUE,
                    row |-> IF i = 0 THEN NoRow ELSE rows[i], newRow |-> Requeued(i),
                    contract |-> IF c = 0 THEN NoRow ELSE contracts[c], newContract |-> Superseded(c)]
  OBVIOUS
<1>3. Decide(u, i, Requeued(i), c, Superseded(c), TRUE) /\ Live(c)
  BY <1>1 DEF ReExtract
<1>4. /\ contracts[c] \in Contract /\ ~ contracts[c].deleted /\ c \in Nat \ {0}
      /\ i \in DOMAIN rows /\ i \in Nat \ {0} /\ rows[i] \in Row
      /\ rows[i].contract \in 0 .. Len(contracts) /\ 0 \in 0 .. Len(contracts)
      /\ Superseded(c) \in Contract /\ Superseded(c).deleted /\ Superseded(c).row = contracts[c].row
  BY <1>1, <1>3, LiveContract
<1>5. /\ Requeued(i) \in Row /\ Requeued(i).path = rows[i].path /\ Requeued(i).hash = rows[i].hash
      /\ Requeued(i).original = rows[i].original /\ Requeued(i).status = "QUEUED" /\ Requeued(i).contract = 0
  BY <1>4, RequeuedIs
<1>6. /\ r.pc = "saving" /\ r.i = i /\ r.c = c /\ r.put = TRUE /\ r.row = rows[i] /\ r.newRow = Requeued(i)
      /\ r.contract = contracts[c] /\ r.newContract = Superseded(c)
  BY <1>2, <1>4
<1>7. r \in RequestState
  BY <1>2, <1>4, <1>5 DEF RequestState
<1>8. Sound(r)
  BY <1>1, <1>4, <1>5, <1>6 DEF Sound
<1> QED BY <1>2, <1>3, <1>7, <1>8, DecideKept

LEMMA ValidateKept ==
  ASSUME Kept, NEW u \in User, NEW c \in DOMAIN contracts, Validate(u, c)
  PROVE  Kept'
<1>1. PICK i, x, y : /\ i = contracts[c].row /\ x = [rows[i] EXCEPT !.status = "VALIDATED"]
                     /\ y = [contracts[c] EXCEPT !.status = "VALIDATED"]
  OBVIOUS
<1>2. PICK r : r = [pc |-> "saving", i |-> i, c |-> c, put |-> FALSE,
                    row |-> IF i = 0 THEN NoRow ELSE rows[i], newRow |-> x,
                    contract |-> IF c = 0 THEN NoRow ELSE contracts[c], newContract |-> y]
  OBVIOUS
<1>3. Decide(u, i, x, c, y, FALSE) /\ Live(c)
  BY <1>1 DEF Validate
<1>4. /\ contracts[c] \in Contract /\ ~ contracts[c].deleted /\ c \in Nat \ {0}
      /\ i \in DOMAIN rows /\ i \in Nat \ {0} /\ rows[i] \in Row /\ rows[i].contract \in 0 .. Len(contracts)
  BY <1>1, <1>3, LiveContract
<1>5. /\ x \in Row /\ x.path = rows[i].path /\ x.hash = rows[i].hash /\ x.original = rows[i].original
      /\ x.status = "VALIDATED" /\ x.contract = rows[i].contract
      /\ y \in Contract /\ y.row = contracts[c].row
  BY <1>1, <1>4 DEF Row, RowStatus, Contract
<1>6. /\ r.pc = "saving" /\ r.i = i /\ r.c = c /\ r.put = FALSE /\ r.row = rows[i] /\ r.newRow = x
      /\ r.contract = contracts[c] /\ r.newContract = y
  BY <1>2, <1>4
<1>7. r \in RequestState
  BY <1>2, <1>4, <1>5 DEF RequestState
<1>8. Sound(r)
  BY <1>1, <1>4, <1>5, <1>6 DEF Sound
<1> QED BY <1>2, <1>3, <1>7, <1>8, DecideKept

\* Those on a contract alone.
Judge(u, c) == Reject(u, c) \/ Restore(u, c) \/ Delete(u, c) \/ Archive(u, c) \/ Return(u, c)
LEMMA JudgeKept ==
  ASSUME Kept, NEW u \in User, NEW c \in DOMAIN contracts, Judge(u, c)
  PROVE  Kept'
<1>1. contracts[c] \in Contract /\ c \in Nat \ {0}
  BY DEF Kept, Typed
<1>2. PICK y : /\ Decide(u, 0, NoRow, c, y, FALSE)
               /\ y \in Contract /\ y.row = contracts[c].row
               /\ contracts[c].deleted \/ y.deleted \/ y.status # "VALIDATED"
  <2>1. ASSUME NEW s \in {"REJECTED", "PENDING_VALIDATION", "ARCHIVED"},
               Decide(u, 0, NoRow, c, [contracts[c] EXCEPT !.status = s], FALSE)
        PROVE  \E y : /\ Decide(u, 0, NoRow, c, y, FALSE)
                      /\ y \in Contract /\ y.row = contracts[c].row
                      /\ contracts[c].deleted \/ y.deleted \/ y.status # "VALIDATED"
    <3>1. PICK y : y = [contracts[c] EXCEPT !.status = s]
      OBVIOUS
    <3>2. y \in Contract /\ y.row = contracts[c].row /\ y.status # "VALIDATED"
      BY <1>1, <3>1 DEF Contract
    <3> QED BY <2>1, <3>1, <3>2
  <2>2. CASE Delete(u, c)
    <3>1. Superseded(c) \in Contract /\ Superseded(c).deleted /\ Superseded(c).row = contracts[c].row
      BY <2>2, LiveContract DEF Delete
    <3> QED BY <2>2, <3>1 DEF Delete
  <2>3. CASE Return(u, c)
    <3>1. PICK y : y = [contracts[c] EXCEPT !.deleted = FALSE]
      OBVIOUS
    <3>2. y \in Contract /\ y.row = contracts[c].row
      BY <1>1, <3>1 DEF Contract
    <3> QED BY <2>3, <3>1, <3>2 DEF Return
  <2> QED BY <2>1, <2>2, <2>3 DEF Judge, Reject, Restore, Archive
<1>3. PICK r : r = [pc |-> "saving", i |-> 0, c |-> c, put |-> FALSE,
                    row |-> IF 0 = 0 THEN NoRow ELSE rows[0], newRow |-> NoRow,
                    contract |-> IF c = 0 THEN NoRow ELSE contracts[c], newContract |-> y]
  OBVIOUS
<1>4. /\ r.pc = "saving" /\ r.i = 0 /\ r.c = c /\ r.put = FALSE /\ r.row = NoRow /\ r.newRow = NoRow
      /\ r.contract = contracts[c] /\ r.newContract = y
  BY <1>1, <1>3
<1>5. r \in RequestState
  BY <1>1, <1>2, <1>3 DEF RequestState
<1>6. Sound(r)
  BY <1>1, <1>2, <1>4 DEF Sound, NoRow
<1> QED BY <1>2, <1>3, <1>5, <1>6, DecideKept

\* What a commit makes of a row and of a contract: what others have committed since it
\* was read survives in the fields that the request does not change.
LEMMA WrittenRow ==
  ASSUME NEW old \in Row, NEW new \in Row, NEW now \in Row
  PROVE  /\ Written(old, new, now) \in Row
         /\ Written(old, new, now).path = Changed(old.path, new.path, now.path)
         /\ Written(old, new, now).hash = Changed(old.hash, new.hash, now.hash)
         /\ Written(old, new, now).original = Changed(old.original, new.original, now.original)
         /\ Written(old, new, now).status = Changed(old.status, new.status, now.status)
         /\ Written(old, new, now).contract = Changed(old.contract, new.contract, now.contract)
         /\ now = old => Written(old, new, now) = new
<1>1. DOMAIN now = {"path", "hash", "status", "original", "contract"} /\ DOMAIN new = DOMAIN now /\ DOMAIN old = DOMAIN now
  BY DEF Row
<1>2. PICK w : w = Written(old, new, now)
  OBVIOUS
<1>3. w = [f \in DOMAIN now |-> Changed(old[f], new[f], now[f])]
  BY <1>2 DEF Written
<1>4. /\ w.path = Changed(old.path, new.path, now.path)
      /\ w.hash = Changed(old.hash, new.hash, now.hash)
      /\ w.original = Changed(old.original, new.original, now.original)
      /\ w.status = Changed(old.status, new.status, now.status)
      /\ w.contract = Changed(old.contract, new.contract, now.contract)
  BY <1>1, <1>3
<1>5. w = [path |-> w.path, hash |-> w.hash, status |-> w.status, original |-> w.original, contract |-> w.contract]
  BY <1>1, <1>3
<1>6. /\ w.path \in File /\ w.hash \in Hash \union File /\ w.status \in RowStatus /\ w.original \in Nat
      /\ w.contract \in Nat
  BY <1>4 DEF Changed, Row
<1>7. w \in Row
  BY <1>5, <1>6 DEF Row
<1>8. now = old => w = new
  <2> SUFFICES ASSUME now = old PROVE w = new
    OBVIOUS
  <2>1. w = [f \in DOMAIN now |-> new[f]]
    BY <1>3 DEF Changed
  <2>2. new = [f \in DOMAIN new |-> new[f]]
    BY DEF Row
  <2> QED BY <1>1, <2>1, <2>2
<1> QED BY <1>2, <1>4, <1>7, <1>8

LEMMA WrittenContract ==
  ASSUME NEW old \in Contract, NEW new \in Contract, NEW now \in Contract
  PROVE  /\ Written(old, new, now) \in Contract
         /\ Written(old, new, now).row = Changed(old.row, new.row, now.row)
         /\ Written(old, new, now).status = Changed(old.status, new.status, now.status)
         /\ Written(old, new, now).deleted = Changed(old.deleted, new.deleted, now.deleted)
         /\ now = old => Written(old, new, now) = new
<1>1. DOMAIN now = {"row", "status", "deleted"} /\ DOMAIN new = DOMAIN now /\ DOMAIN old = DOMAIN now
  BY DEF Contract
<1>2. PICK w : w = Written(old, new, now)
  OBVIOUS
<1>3. w = [f \in DOMAIN now |-> Changed(old[f], new[f], now[f])]
  BY <1>2 DEF Written
<1>4. /\ w.row = Changed(old.row, new.row, now.row)
      /\ w.status = Changed(old.status, new.status, now.status)
      /\ w.deleted = Changed(old.deleted, new.deleted, now.deleted)
  BY <1>1, <1>3
<1>5. w = [row |-> w.row, status |-> w.status, deleted |-> w.deleted]
  BY <1>1, <1>3
<1>6. w.row \in Nat /\ w.status \in {"PENDING_VALIDATION", "VALIDATED", "REJECTED", "ARCHIVED"} /\ w.deleted \in BOOLEAN
  BY <1>4 DEF Changed, Contract
<1>7. w \in Contract
  BY <1>5, <1>6 DEF Contract
<1>8. now = old => w = new
  <2> SUFFICES ASSUME now = old PROVE w = new
    OBVIOUS
  <2>1. w = [f \in DOMAIN now |-> new[f]]
    BY <1>3 DEF Changed
  <2>2. new = [f \in DOMAIN new |-> new[f]]
    BY DEF Contract
  <2> QED BY <1>1, <2>1, <2>2
<1> QED BY <1>2, <1>4, <1>7, <1>8

\* What the commit of r does to its row, and to its contract.
RowSaved(r) ==
  /\ rows' \in Seq(Row) /\ DOMAIN rows' = DOMAIN rows
  /\ \A j \in DOMAIN rows : j # r.i => rows'[j] = rows[j]
  /\ r.i # 0 => /\ rows'[r.i].hash = rows[r.i].hash /\ rows'[r.i].original = rows[r.i].original
                /\ rows'[r.i].status = Changed(r.row.status, r.newRow.status, rows[r.i].status)
                /\ rows'[r.i].contract = Changed(r.row.contract, r.newRow.contract, rows[r.i].contract)
                /\ ~ stale' => rows[r.i] = r.row /\ rows'[r.i] = r.newRow
ContractSaved(r) ==
  /\ contracts' \in Seq(Contract) /\ DOMAIN contracts' = DOMAIN contracts /\ Len(contracts') = Len(contracts)
  /\ \A d \in DOMAIN contracts : d # r.c => contracts'[d] = contracts[d]
  /\ r.c # 0 => /\ contracts'[r.c].row = contracts[r.c].row
                /\ ~ stale' => contracts[r.c] = r.contract /\ contracts'[r.c] = r.newContract

LEMMA SaveIs ==
  ASSUME Kept, NEW u \in User, Save(u), NEW r, r = requests[u]
  PROVE  /\ Sound(r) /\ RowSaved(r) /\ ContractSaved(r)
         /\ r \in [pc : {"saving"}, i : Nat, c : Nat, put : BOOLEAN, row : Row \union {NoRow}, newRow : Row \union {NoRow},
                   contract : Contract \union {NoRow}, newContract : Contract \union {NoRow}]
         /\ requests' = [requests EXCEPT ![u] = IF r.put THEN [pc |-> "queueing", id |-> r.i] ELSE Idle]
         /\ stale' = (stale \/ (r.i # 0 /\ rows[r.i] # r.row) \/ (r.c # 0 /\ contracts[r.c] # r.contract))
<1>1. Sound(r) /\ r \in RequestState /\ r.pc = "saving"
  BY DEF Save, Kept, AllSound, Typed
<1>2. r \in [pc : {"saving"}, i : Nat, c : Nat, put : BOOLEAN, row : Row \union {NoRow}, newRow : Row \union {NoRow},
             contract : Contract \union {NoRow}, newContract : Contract \union {NoRow}]
  BY <1>1 DEF RequestState, Idle
<1>3. stale' = (stale \/ (r.i # 0 /\ rows[r.i] # r.row) \/ (r.c # 0 /\ contracts[r.c] # r.contract))
  BY DEF Save
<1>4. RowSaved(r)
  <2>1. CASE r.i = 0
    <3>1. rows' = rows /\ rows \in Seq(Row)
      BY <2>1 DEF Save, Kept, Typed
    <3> QED BY <2>1, <3>1 DEF RowSaved
  <2>2. CASE r.i # 0
    <3>1. /\ r.i \in DOMAIN rows /\ r.row \in Row /\ r.newRow \in Row /\ rows[r.i] \in Row /\ rows \in Seq(Row)
          /\ r.newRow.hash = r.row.hash /\ r.newRow.original = r.row.original
      BY <1>1, <2>2 DEF Sound, Kept, Typed
    <3>2. PICK x : x = Written(r.row, r.newRow, rows[r.i])
      OBVIOUS
    <3>3. rows' = [rows EXCEPT ![r.i] = x]
      BY <2>2, <3>2 DEF Save
    <3>4. /\ x \in Row /\ x.hash = rows[r.i].hash /\ x.original = rows[r.i].original
          /\ x.status = Changed(r.row.status, r.newRow.status, rows[r.i].status)
          /\ x.contract = Changed(r.row.contract, r.newRow.contract, rows[r.i].contract)
          /\ rows[r.i] = r.row => x = r.newRow
      BY <3>1, <3>2, WrittenRow DEF Changed
    <3>5. PICK z, i : z = rows' /\ i = r.i
      OBVIOUS
    <3>6. z \in Seq(Row) /\ DOMAIN z = DOMAIN rows /\ z[i] = x /\ \A j \in DOMAIN rows : j # i => z[j] = rows[j]
      BY <3>1, <3>3, <3>4, <3>5, OneReplaced
    <3>7. ~ stale' => rows[r.i] = r.row
      BY <1>3, <2>2
    <3> QED BY <3>4, <3>5, <3>6, <3>7 DEF RowSaved
  <2> QED BY <2>1, <2>2
<1>5. ContractSaved(r)
  <2>1. CASE r.c = 0
    <3>1. contracts' = contracts /\ contracts \in Seq(Contract)
      BY <2>1 DEF Save, Kept, Typed
    <3> QED BY <2>1, <3>1 DEF ContractSaved
  <2>2. CASE r.c # 0
    <3>1. /\ r.c \in DOMAIN contracts /\ r.contract \in Contract /\ r.newContract \in Contract
          /\ contracts[r.c] \in Contract /\ contracts \in Seq(Contract)
          /\ r.newContract.row = r.contract.row
      BY <1>1, <2>2 DEF Sound, Kept, Typed
    <3>2. PICK x : x = Written(r.contract, r.newContract, contracts[r.c])
      OBVIOUS
    <3>3. contracts' = [contracts EXCEPT ![r.c] = x]
      BY <2>2, <3>2 DEF Save
    <3>4. /\ x \in Contract /\ x.row = contracts[r.c].row
          /\ contracts[r.c] = r.contract => x = r.newContract
      BY <3>1, <3>2, WrittenContract DEF Changed
    <3>5. PICK z, c : z = contracts' /\ c = r.c
      OBVIOUS
    <3>6. /\ z \in Seq(Contract) /\ DOMAIN z = DOMAIN contracts /\ Len(z) = Len(contracts) /\ z[c] = x
          /\ \A d \in DOMAIN contracts : d # c => z[d] = contracts[d]
      BY <3>1, <3>3, <3>4, <3>5, OneReplaced
    <3>7. ~ stale' => contracts[r.c] = r.contract
      BY <1>3, <2>2
    <3> QED BY <3>4, <3>5, <3>6, <3>7 DEF ContractSaved
  <2> QED BY <2>1, <2>2
<1>6. requests' = [requests EXCEPT ![u] = IF r.put THEN [pc |-> "queueing", id |-> r.i] ELSE Idle]
  BY DEF Save
<1> QED BY <1>1, <1>2, <1>3, <1>4, <1>5, <1>6

LEMMA SaveKept ==
  ASSUME Kept, NEW u \in User, Save(u)
  PROVE  Kept' /\ Grows
<1>1. PICK r : r = requests[u]
  OBVIOUS
<1>2. /\ Sound(r) /\ RowSaved(r) /\ ContractSaved(r)
      /\ r \in [pc : {"saving"}, i : Nat, c : Nat, put : BOOLEAN, row : Row \union {NoRow}, newRow : Row \union {NoRow},
                contract : Contract \union {NoRow}, newContract : Contract \union {NoRow}]
      /\ requests' = [requests EXCEPT ![u] = IF r.put THEN [pc |-> "queueing", id |-> r.i] ELSE Idle]
  BY <1>1, SaveIs
<1> USE DEF Kept
<1>3. /\ UNCHANGED <<phase, boot, observing, events, queue, worker, threads, disk, growing, failed, early>>
      /\ stale' \in BOOLEAN /\ r.pc = "saving"
  BY <1>1 DEF Save, disks, process, work, Beginning
<1>4. PICK next : next = IF r.put THEN [pc |-> "queueing", id |-> r.i] ELSE Idle
  OBVIOUS
<1>5. /\ requests' = [requests EXCEPT ![u] = next] /\ next \in RequestState /\ next.pc # "saving"
      /\ next.pc = "queueing" => next.id \in DOMAIN rows
  BY <1>2, <1>4 DEF RequestState, Idle, Sound
<1>6. Grows
  <2>1. DOMAIN rows' = DOMAIN rows /\ DOMAIN contracts' = DOMAIN contracts /\ Len(contracts') = Len(contracts)
    BY <1>2 DEF RowSaved, ContractSaved
  <2>2. Len(contracts) \in Nat
    BY DEF Typed
  <2> QED BY <2>1, <2>2 DEF Grows
<1>7. Typed'
  BY <1>2, <1>3, <1>5 DEF Typed, RowSaved, ContractSaved
<1>8. Linked'
  <2>1. \A i \in DOMAIN rows' : rows'[i].contract \in 0 .. Len(contracts')
    <3> SUFFICES ASSUME NEW i \in DOMAIN rows' PROVE rows'[i].contract \in 0 .. Len(contracts')
      OBVIOUS
    <3>1. i \in DOMAIN rows /\ rows[i].contract \in 0 .. Len(contracts) /\ Len(contracts') = Len(contracts)
      BY <1>2 DEF RowSaved, ContractSaved, Linked
    <3>2. CASE i # r.i
      BY <1>2, <3>1, <3>2 DEF RowSaved
    <3>3. CASE i = r.i
      <4>1. r.i # 0
        BY <3>1, <3>3 DEF Typed
      <4>2. r.newRow.contract \in 0 .. Len(contracts)
        BY <1>2, <4>1 DEF Sound
      <4> QED BY <1>2, <3>1, <3>3, <4>1, <4>2 DEF RowSaved, Changed
    <3> QED BY <3>2, <3>3
  <2>2. \A c \in DOMAIN contracts' : contracts'[c].row \in DOMAIN rows'
    BY <1>2 DEF RowSaved, ContractSaved, Linked, Typed
  <2>3. \A v \in User : requests'[v].pc = "queueing" => requests'[v].id \in DOMAIN rows
    BY <1>5 DEF Linked, Typed
  <2> QED BY <1>2, <1>3, <2>1, <2>2, <2>3 DEF Linked, RowSaved
<1>9. Duplicates'
  <2> SUFFICES ASSUME NEW i \in DOMAIN rows', rows'[i].original = 0 PROVE rows'[i].status # "DUPLICATE"
    BY DEF Duplicates
  <2>1. i \in DOMAIN rows
    BY <1>2 DEF RowSaved
  <2>2. CASE i # r.i
    BY <1>2, <2>1, <2>2 DEF RowSaved, Duplicates
  <2>3. CASE i = r.i
    <3>1. r.i # 0
      BY <2>1, <2>3 DEF Typed
    <3>2. r.newRow.status # "DUPLICATE"
      BY <1>2, <3>1 DEF Sound
    <3>3. rows[i].original = 0 /\ rows'[i].status = Changed(r.row.status, r.newRow.status, rows[i].status)
      BY <1>2, <2>1, <2>3, <3>1 DEF RowSaved
    <3> QED BY <2>1, <3>2, <3>3 DEF Duplicates, Changed
  <2> QED BY <2>2, <2>3
<1>10. phase \in {"watching", "up"}
  BY <1>1, <1>3 DEF Beginning, Typed, Idle
<1>11. Beginning'
  BY <1>3, <1>10 DEF Beginning, NoBoot
<1>12. AllSound'
  <2> SUFFICES ASSUME NEW v \in User, requests'[v].pc = "saving" PROVE Sound(requests[v])'
    BY DEF AllSound
  <2>1. PICK q : q = requests[v]
    OBVIOUS
  <2>2. v # u /\ requests'[v] = q /\ q.pc = "saving"
    BY <1>5, <2>1 DEF Typed
  <2>3. Sound(q)'
    BY <1>6, <2>1, <2>2, SoundStays DEF AllSound
  <2> QED BY <2>2, <2>3 DEF Sound
<1> QED BY <1>6, <1>7, <1>8, <1>9, <1>11, <1>12

LEMMA PutBackKept ==
  ASSUME Kept, NEW u \in User, PutBack(u)
  PROVE  Kept'
<1> USE DEF Kept
<1>1. /\ UNCHANGED <<rows, contracts, phase, boot, observing, events, worker, threads, disk, growing, failed, stale, early>>
      /\ requests[u].pc = "queueing" /\ queue' = Append(queue, requests[u].id)
      /\ requests' = [requests EXCEPT ![u] = Idle]
  BY DEF PutBack, disks, tables, process, history
<1>2. PICK id, next : id = requests[u].id /\ next = Idle
  OBVIOUS
<1>3. id \in DOMAIN rows /\ next \in RequestState /\ next.pc = "idle" /\ phase \in {"watching", "up"}
  BY <1>1, <1>2 DEF Linked, RequestState, Idle, Beginning, Typed
<1>4. queue' \in Seq(Nat) /\ \A k \in DOMAIN queue' : queue'[k] \in DOMAIN rows
  BY <1>1, <1>2, <1>3, QueueGrows
<1>5. Typed'
  BY <1>1, <1>2, <1>3, <1>4 DEF Typed
<1>6. Linked'
  BY <1>1, <1>2, <1>3, <1>4 DEF Linked, Typed
<1>7. Beginning'
  BY <1>1, <1>3 DEF Beginning
<1>8. AllSound'
  <2> SUFFICES ASSUME NEW v \in User, requests'[v].pc = "saving" PROVE Sound(requests[v])'
    BY DEF AllSound
  <2>1. PICK q : q = requests[v]
    OBVIOUS
  <2>2. requests'[v] = q /\ q.pc = "saving"
    BY <1>1, <1>2, <1>3, <2>1 DEF Typed
  <2>3. Sound(q)'
    BY <1>1, <2>1, <2>2, TablesSame, SoundStays DEF AllSound
  <2> QED BY <2>2, <2>3 DEF Sound
<1> QED BY <1>1, <1>5, <1>6, <1>7, <1>8, TablesSame

LEMMA KeptStep ==
  ASSUME Kept, [Next]_ingestionVars
  PROVE  Kept'
<1>1. CASE ExtractFails \/ StartExtract \/ Extracted
  <2>1. worker \in [pc : {"taken", "found", "extracting", "extracted"}, id : Nat]
    BY <1>1, WorkerTypes DEF ExtractFails, StartExtract, Extracted, Step
  <2>2. CASE ExtractFails
    <3>1. PICK to : to = Idle
      OBVIOUS
    <3>2. to \in WorkerState /\ to.pc = "idle" /\ Step({"extracting", "extracted"}, "FAILED", to)
      BY <2>2, <3>1 DEF WorkerState, ExtractFails, Idle
    <3> QED BY <3>2, StepKept
  <2>3. CASE StartExtract
    <3>1. PICK to : to = [worker EXCEPT !.pc = "extracting"]
      OBVIOUS
    <3>2. to \in WorkerState /\ to.pc = "extracting" /\ to.id = worker.id /\ Step({"found"}, "EXTRACTING", to)
      BY <2>1, <2>3, <3>1 DEF WorkerState, StartExtract
    <3> QED BY <3>2, StepKept
  <2>4. CASE Extracted
    <3>1. PICK to : to = [worker EXCEPT !.pc = "extracted"]
      OBVIOUS
    <3>2. to \in WorkerState /\ to.pc = "extracted" /\ to.id = worker.id /\ Step({"extracting"}, "EXTRACTED", to)
      BY <2>1, <2>4, <3>1 DEF WorkerState, Extracted
    <3> QED BY <3>2, StepKept
  <2> QED BY <1>1, <2>2, <2>3, <2>4
<1>2. CASE UNCHANGED ingestionVars
  <2>1. UNCHANGED <<rows, contracts, phase, boot, observing, events, queue, worker, threads, requests, disk, growing,
                    failed, stale, early>>
    BY <1>2 DEF ingestionVars, disks, tables, process, work, history
  <2>2. Typed' /\ Linked' /\ Beginning'
    BY <2>1 DEF Kept, Typed, Linked, Beginning
  <2> QED BY <2>1, <2>2, TablesSame, RequestsSame DEF Kept
<1>3. CASE Work
  BY <1>1, <1>3, FilesKept, StartKept, CommitLeftKept, RegisterKept, InsertKept, PutKept, WorkerKept, StoreKept,
     SaveKept, PutBackKept DEF Work, Start, Register, Extract
<1>4. CASE Event
  BY <1>1, <1>4, FilesKept, CrashKept, RegisterKept, WorkerKept, LookUpKept, RetryKept, ReExtractKept, ValidateKept, JudgeKept
     DEF Event, Request, Judge
<1> QED BY <1>2, <1>3, <1>4 DEF Next

LEMMA KeptStart == Init => Kept
<1> SUFFICES ASSUME Init PROVE Kept
  OBVIOUS
<1>1. Idle \in ThreadState /\ Idle \in WorkerState /\ Idle \in RequestState /\ Idle.pc = "idle"
  BY DEF Idle, ThreadState, WorkerState, RequestState
<1>2. Typed
  BY <1>1 DEF Init, Typed, NoBoot
<1>3. Linked /\ AllSound /\ Duplicates
  BY <1>1 DEF Init, Linked, NoBoot, AllSound, Duplicates
<1>4. Beginning
  BY <1>1 DEF Init, Beginning, NoBoot
<1> QED BY <1>2, <1>3, <1>4 DEF Kept

-----------------------------------------------------------------------------
(* Queued rows                                                               *)

\* While a start puts the rows back they may wait in its list, and those it found
\* in the middle of their extraction are queued rows to be.
Waiting(i) ==
  /\ rows[i].status = "QUEUED" => OnTheWay(i) \/ i \in boot.left
  /\ rows[i].status = "EXTRACTING" => (worker.pc = "extracting" /\ worker.id = i) \/ i \in boot.mid
  /\ i \in boot.mid => i \in boot.left \/ OnTheWay(i)
Waits == ~ failed /\ ~ early /\ phase # "down" => \A i \in DOMAIN rows : Waiting(i)

\* A step that stores nothing of the kind, and takes no row out of sight.
LEMMA WaitsStays ==
  ASSUME Waits, boot' = boot, phase = "down" => phase' = "down", failed => failed', early => early',
         DOMAIN rows' = DOMAIN rows,
         \A i \in DOMAIN rows :
           /\ rows'[i].status \in {"QUEUED", "EXTRACTING"} => rows'[i].status = rows[i].status
           /\ OnTheWay(i) => OnTheWay(i)'
           /\ worker.pc = "extracting" /\ worker.id = i /\ rows'[i].status = "EXTRACTING" =>
                worker'.pc = "extracting" /\ worker'.id = i
  PROVE  Waits'
<1> SUFFICES ASSUME ~ failed', ~ early', phase' # "down", NEW i \in DOMAIN rows PROVE Waiting(i)'
  BY DEF Waits
<1>1. Waiting(i)
  BY DEF Waits
<1> QED BY <1>1 DEF Waiting

LEMMA FilesWait ==
  ASSUME Waits,
         \/ \E f \in File : FileAppears(f) \/ CopyEnds(f) \/ GiveUpEvent(f)
         \/ SetExtraction
  PROVE  Waits'
<1>1. UNCHANGED <<rows, phase, boot, queue, worker, threads, requests, early>> /\ (failed => failed')
  BY DEF FileAppears, CopyEnds, GiveUpEvent, SetExtraction, tables, process, work, history, Fail
<1> QED BY <1>1, WaitsStays DEF OnTheWay

\* A thread that has no row to queue goes on.
LEMMA RegisterWaits ==
  ASSUME Kept, Waits, NEW t \in Thread,
         \/ \E f \in File : HandleEvent(t, f) \/ CheckPath(t, f)
         \/ Poll(t) \/ LookUp(t) \/ EndThread(t) \/ RestartWatcher(t) \/ RegisterFails(t)
  PROVE  Waits'
<1>1. CASE RegisterFails(t)
  BY <1>1 DEF RegisterFails, Fail, Waits
<1>2. CASE ~ RegisterFails(t)
  <2>1. /\ UNCHANGED <<rows, boot, queue, worker, requests, failed, early>>
        /\ \A s \in Thread : s # t => threads'[s] = threads[s]
    BY <1>2 DEF HandleEvent, CheckPath, Poll, LookUp, EndThread, RestartWatcher, tables, process, work, history,
       Goto, Kept, Typed
  <2>2. threads[t].pc # "queueing"
    <3>1. threads[t] = Idle \/ threads[t].pc \in {"next", "hashing"}
      BY <1>2 DEF HandleEvent, CheckPath, Poll, LookUp, EndThread, RestartWatcher, Free
    <3> QED BY <3>1 DEF Idle
  <2>3. phase = "down" => phase' = "down"
    <3>1. CASE EndThread(t)
      BY <3>1, Begun DEF EndThread
    <3>2. CASE ~ EndThread(t)
      BY <1>2, <3>2 DEF HandleEvent, CheckPath, Poll, LookUp, RestartWatcher, process
    <3> QED BY <3>1, <3>2
  <2>4. \A i \in DOMAIN rows : OnTheWay(i) => OnTheWay(i)'
    BY <2>1, <2>2 DEF OnTheWay
  <2> QED BY <2>1, <2>3, <2>4, WaitsStays
<1> QED BY <1>1, <1>2

LEMMA InsertWaits ==
  ASSUME Kept, Waits, NEW t \in Thread, Insert(t)
  PROVE  Waits'
<1> SUFFICES ASSUME ~ failed', ~ early', phase' # "down", NEW i \in DOMAIN rows' PROVE Waiting(i)'
  BY DEF Waits
<1>1. UNCHANGED <<phase, boot, queue, worker, requests, failed, early>> /\ threads[t].pc = "inserting"
  BY DEF Insert, process, work
<1>2. phase \in {"watching", "up"} /\ boot = NoBoot
  BY <1>1, Begun DEF Kept, Beginning
<1>3. PICK r, n : r = threads[t] /\ n = Len(rows) + 1
  OBVIOUS
<1>4. PICK x : x = [path |-> r.f, hash |-> r.hash, original |-> r.original, contract |-> 0,
                    status |-> IF r.original = 0 THEN "QUEUED" ELSE "DUPLICATE"]
  OBVIOUS
<1>5. rows' = Append(rows, x) /\ rows \in Seq(Row)
  BY <1>3, <1>4 DEF Insert, Kept, Typed
<1>6. rows'[n] = x /\ DOMAIN rows' = DOMAIN rows \union {n} /\ \A j \in DOMAIN rows : rows'[j] = rows[j]
  BY <1>3, <1>5
<1>7. /\ \A s \in Thread : s # t => threads'[s] = threads[s]
      /\ r.original = 0 => threads'[t].pc = "queueing" /\ threads'[t].id = n
  BY <1>3 DEF Insert, Goto, GoOn, Kept, Typed
<1>8. CASE i \in DOMAIN rows /\ i # n
  <2>1. Waiting(i)
    BY <1>1, <1>2, <1>8 DEF Waits
  <2>2. OnTheWay(i) => OnTheWay(i)'
    BY <1>1, <1>7 DEF OnTheWay
  <2> QED BY <1>1, <1>6, <1>8, <2>1, <2>2 DEF Waiting
<1>9. CASE i = n
  <2>1. rows'[i] = x /\ (x.status = "QUEUED" => r.original = 0) /\ x.status # "EXTRACTING"
    BY <1>4, <1>6, <1>9
  <2>2. r.original = 0 => OnTheWay(i)'
    BY <1>7, <1>9 DEF OnTheWay
  <2> QED BY <1>1, <1>2, <2>1, <2>2 DEF Waiting, NoBoot
<1> QED BY <1>6, <1>8, <1>9

\* What is put on the queue is there, and what was there stays.
LEMMA OnTheQueue ==
  ASSUME Typed, NEW id \in Nat, queue' = Append(queue, id)
  PROVE  /\ \E k \in DOMAIN queue' : queue'[k] = id
         /\ \A i : (\E k \in DOMAIN queue : queue[k] = i) => \E k \in DOMAIN queue' : queue'[k] = i
<1>1. /\ DOMAIN queue' = DOMAIN queue \union {Len(queue) + 1}
      /\ queue'[Len(queue) + 1] = id /\ \A k \in DOMAIN queue : queue'[k] = queue[k]
  BY OneAppended DEF Typed
<1> QED BY <1>1

LEMMA PutWaits ==
  ASSUME Kept, Waits, NEW t \in Thread, Put(t)
  PROVE  Waits'
<1> SUFFICES ASSUME ~ failed', ~ early', phase' # "down", NEW i \in DOMAIN rows' PROVE Waiting(i)'
  BY DEF Waits
<1>1. UNCHANGED <<rows, phase, boot, worker, requests, failed, early>> /\ threads[t].pc = "queueing"
  BY DEF Put, process, tables, history
<1>2. boot = NoBoot /\ i \in DOMAIN rows
  BY <1>1, Begun DEF Kept, Beginning
<1>3. PICK id : id = threads[t].id
  OBVIOUS
<1>4. id \in DOMAIN rows /\ id \in Nat /\ \A s \in Thread : s # t => threads'[s] = threads[s]
  BY <1>1, <1>3 DEF Put, GoOn, Goto, Kept, Typed, Linked
<1>5. queue' = IF rows[id].status = "QUEUED" THEN Append(queue, id) ELSE queue
  BY <1>3 DEF Put
<1>6. rows[i].status = "QUEUED" /\ OnTheWay(i) => OnTheWay(i)'
  <2> SUFFICES ASSUME rows[i].status = "QUEUED", OnTheWay(i) PROVE OnTheWay(i)'
    OBVIOUS
  <2>1. (\E k \in DOMAIN queue : queue[k] = i) => \E k \in DOMAIN queue' : queue'[k] = i
    BY <1>4, <1>5, OnTheQueue DEF Kept
  <2>2. i = id => \E k \in DOMAIN queue' : queue'[k] = i
    BY <1>4, <1>5, OnTheQueue DEF Kept
  <2> QED BY <1>1, <1>3, <1>4, <2>1, <2>2 DEF OnTheWay
<1>7. Waiting(i)
  BY <1>1, <1>2 DEF Waits
<1> QED BY <1>1, <1>2, <1>6, <1>7 DEF Waiting, NoBoot

LEMMA StartWaits ==
  ASSUME Kept, Waits, Boot \/ \E i \in boot.left : PutLeft(i)
  PROVE  Waits'
<1>1. CASE Boot
  <2>1. UNCHANGED rows /\ boot' = [left |-> Unsettled, mid |-> {i \in Unsettled : rows[i].status = "EXTRACTING"}]
    BY <1>1 DEF Boot, tables
  <2>2. \A i \in DOMAIN rows : Waiting(i)'
    BY <2>1 DEF Waiting, Unsettled
  <2> QED BY <2>1, <2>2 DEF Waits
<1>2. ASSUME NEW j \in boot.left, PutLeft(j) PROVE Waits'
  <2> SUFFICES ASSUME ~ failed', ~ early', phase' # "down", NEW i \in DOMAIN rows' PROVE Waiting(i)'
    BY DEF Waits
  <2>1. /\ UNCHANGED <<rows, phase, worker, threads, requests, failed, early>>
        /\ boot' = [boot EXCEPT !.left = @ \ {j}] /\ queue' = Append(queue, j) /\ j \in Nat
    BY <1>2 DEF PutLeft, tables, history, Kept, Typed
  <2>2. boot'.left = boot.left \ {j} /\ boot'.mid = boot.mid
    BY <2>1 DEF Kept, Typed
  <2>3. (OnTheWay(i) => OnTheWay(i)') /\ OnTheWay(j)'
    BY <2>1, OnTheQueue DEF OnTheWay, Kept
  <2>4. Waiting(i)
    BY <2>1 DEF Waits
  <2>5. i \in boot.left => i \in boot'.left \/ OnTheWay(i)'
    BY <2>2, <2>3
  <2> QED BY <2>1, <2>2, <2>3, <2>4, <2>5 DEF Waiting
<1> QED BY <1>1, <1>2

LEMMA CommitLeftWaits ==
  ASSUME Kept, Waits, NEW t \in Thread, CommitLeft(t)
  PROVE  Waits'
<1> SUFFICES ASSUME ~ failed', ~ early', phase' # "down", NEW i \in DOMAIN rows' PROVE Waiting(i)'
  BY DEF Waits
<1>1. /\ UNCHANGED <<queue, worker, requests, failed, early>> /\ boot' = NoBoot /\ boot.left = {}
      /\ phase # "down" /\ threads[t] = Idle /\ \A s \in Thread : s # t => threads'[s] = threads[s]
  BY DEF CommitLeft, work, Free, Kept, Typed
<1>2. i \in DOMAIN rows /\ rows'[i].status = IF i \in boot.mid THEN "QUEUED" ELSE rows[i].status
  BY RequeuedRows DEF Kept
<1>3. Waiting(i)
  BY <1>1, <1>2 DEF Waits
<1>4. OnTheWay(i) => OnTheWay(i)'
  BY <1>1 DEF OnTheWay, Idle
<1>5. i \in boot.mid => OnTheWay(i)'
  BY <1>1, <1>3, <1>4 DEF Waiting
<1>6. rows'[i].status = "QUEUED" => OnTheWay(i)'
  BY <1>1, <1>2, <1>3, <1>4, <1>5 DEF Waiting
<1>7. rows'[i].status = "EXTRACTING" => worker'.pc = "extracting" /\ worker'.id = i
  BY <1>1, <1>2, <1>3 DEF Waiting
<1> QED BY <1>1, <1>6, <1>7 DEF Waiting, NoBoot

LEMMA WorkerWaits ==
  ASSUME Kept, Waits, CheckSwitch \/ WaitEnds \/ Take \/ ReadRow \/ WorkerDies
  PROVE  Waits'
<1>1. CASE WorkerDies
  BY <1>1 DEF WorkerDies, Fail, Waits
<1>2. CASE CheckSwitch \/ WaitEnds
  <2>1. /\ UNCHANGED <<rows, phase, boot, queue, threads, requests, failed, early>> /\ worker.pc \in {"idle", "waiting"}
    BY <1>2 DEF CheckSwitch, WaitEnds, tables, process, history
  <2>2. \A i \in DOMAIN rows : OnTheWay(i) => OnTheWay(i)'
    BY <2>1 DEF OnTheWay
  <2> QED BY <2>1, <2>2, WaitsStays
<1>3. CASE Take
  <2>1. /\ UNCHANGED <<rows, phase, boot, threads, requests, failed, early>> /\ worker.pc = "waiting"
        /\ worker' = [pc |-> "taken", id |-> Head(queue)] /\ queue' = Tail(queue) /\ queue # <<>>
    BY <1>3 DEF Take, tables, process, history
  <2>2. ASSUME NEW i, NEW k \in DOMAIN queue, queue[k] = i
        PROVE  (worker'.pc = "taken" /\ worker'.id = i) \/ \E l \in DOMAIN queue' : queue'[l] = i
    <3>1. queue \in Seq(Nat) /\ k \in 1 .. Len(queue) /\ Len(queue) \in Nat
      BY DEF Kept, Typed
    <3>2. CASE k = 1
      BY <2>1, <2>2, <3>1, <3>2
    <3>3. CASE k # 1
      <4>1. k - 1 \in 1 .. Len(queue) - 1 /\ queue'[k - 1] = queue[k] /\ DOMAIN queue' = 1 .. Len(queue) - 1
        BY <2>1, <3>1, <3>3
      <4> QED BY <2>2, <4>1
    <3> QED BY <3>2, <3>3
  <2>3. \A i \in DOMAIN rows : OnTheWay(i) => OnTheWay(i)'
    BY <2>1, <2>2 DEF OnTheWay
  <2> QED BY <2>1, <2>3, WaitsStays
<1>4. CASE ReadRow
  <2> SUFFICES ASSUME ~ failed', ~ early', phase' # "down", NEW i \in DOMAIN rows' PROVE Waiting(i)'
    BY DEF Waits
  <2>1. /\ UNCHANGED <<rows, phase, boot, queue, threads, requests, failed>> /\ worker.pc = "taken"
        /\ ~ early /\ worker.id \notin boot.mid
    BY <1>4 DEF ReadRow, tables, process
  <2>2. Waiting(i)
    BY <2>1 DEF Waits
  <2>3. CASE i = worker.id /\ rows[i].status # "QUEUED"
    BY <2>1, <2>2, <2>3 DEF Waiting
  <2>4. CASE i # worker.id \/ rows[i].status = "QUEUED"
    <3>1. i = worker.id => worker'.pc = "found" /\ worker'.id = i
      <4> SUFFICES ASSUME i = worker.id PROVE worker'.pc = "found" /\ worker'.id = i
        OBVIOUS
      <4>1. worker' = [worker EXCEPT !.pc = "found"]
        BY <1>4, <2>4 DEF ReadRow
      <4>2. worker \in [pc : {"taken", "found", "extracting", "extracted"}, id : Nat]
        BY <2>1, WorkerTypes
      <4> QED BY <4>1, <4>2
    <3>2. OnTheWay(i) => OnTheWay(i)'
      BY <2>1, <3>1 DEF OnTheWay
    <3> QED BY <2>1, <2>2, <3>2 DEF Waiting
  <2> QED BY <2>3, <2>4
<1> QED BY <1>1, <1>2, <1>3, <1>4

LEMMA StepWaits ==
  ASSUME Kept, Waits, StartExtract \/ Extracted \/ ExtractFails \/ Store
  PROVE  Waits'
<1> SUFFICES ASSUME ~ failed', ~ early', phase' # "down", NEW i \in DOMAIN rows' PROVE Waiting(i)'
  BY DEF Waits
<1>1. PICK id : id = worker.id
  OBVIOUS
<1>2. /\ UNCHANGED <<phase, boot, queue, threads, requests, failed, early>>
      /\ worker.pc \in {"found", "extracting", "extracted"}
  BY DEF StartExtract, Extracted, ExtractFails, Step, Store, process, history
<1>3. worker \in [pc : {"taken", "found", "extracting", "extracted"}, id : Nat] /\ id \in DOMAIN rows /\ id \notin boot.mid
  BY <1>1, <1>2, WorkerTypes DEF Kept, Beginning
<1>4. DOMAIN rows' = DOMAIN rows /\ \A j \in DOMAIN rows : j # id => rows'[j] = rows[j]
  <2>1. CASE Store
    <3>1. PICK n : n = Len(contracts) + 1
      OBVIOUS
    <3>2. Stored(id, n)
      BY <1>1, <2>1, <3>1, StoreIs
    <3> QED BY <3>2 DEF Stored
  <2>2. ASSUME NEW s \in {"EXTRACTING", "EXTRACTED", "FAILED"}, rows' = [rows EXCEPT ![id].status = s]
        PROVE  DOMAIN rows' = DOMAIN rows /\ \A j \in DOMAIN rows : j # id => rows'[j] = rows[j]
    <3>1. s \in RowStatus
      BY DEF RowStatus
    <3> QED BY <1>3, <2>2, <3>1, StatusSet DEF Kept
  <2> QED BY <1>1, <2>1, <2>2 DEF StartExtract, Extracted, ExtractFails, Step
<1>5. Waiting(i) /\ i \in DOMAIN rows
  BY <1>2, <1>4 DEF Waits
<1>6. CASE i # id
  <2>1. OnTheWay(i) => OnTheWay(i)'
    BY <1>1, <1>2, <1>6 DEF OnTheWay
  <2> QED BY <1>1, <1>2, <1>4, <1>5, <1>6, <2>1 DEF Waiting
<1>7. CASE i = id
  <2>1. CASE StartExtract
    <3>1. rows'[i].status = "EXTRACTING"
      <4>1. "EXTRACTING" \in RowStatus /\ rows' = [rows EXCEPT ![id].status = "EXTRACTING"]
        BY <1>1, <2>1 DEF StartExtract, Step, RowStatus
      <4> QED BY <1>3, <1>7, <4>1, StatusSet DEF Kept
    <3>2. worker' = [worker EXCEPT !.pc = "extracting"]
      BY <2>1 DEF StartExtract, Step
    <3>3. worker'.pc = "extracting" /\ worker'.id = id
      BY <1>1, <1>3, <3>2
    <3> QED BY <1>2, <1>3, <1>7, <3>1, <3>3 DEF Waiting
  <2>2. CASE ~ StartExtract
    <3>1. rows'[i].status \notin {"QUEUED", "EXTRACTING"}
      <4>1. CASE Store
        <5>1. PICK n : n = Len(contracts) + 1
          OBVIOUS
        <5>2. Stored(id, n)
          BY <1>1, <4>1, <5>1, StoreIs
        <5> QED BY <1>7, <5>2 DEF Stored
      <4>2. ASSUME NEW s \in {"EXTRACTED", "FAILED"}, rows' = [rows EXCEPT ![id].status = s]
            PROVE  rows'[i].status \notin {"QUEUED", "EXTRACTING"}
        <5>1. s \in RowStatus
          BY DEF RowStatus
        <5>2. rows'[id].status = s
          BY <1>3, <4>2, <5>1, StatusSet DEF Kept
        <5> QED BY <1>7, <5>2
      <4> QED BY <1>1, <2>2, <4>1, <4>2 DEF Extracted, ExtractFails, Step
    <3> QED BY <1>2, <1>3, <1>7, <3>1 DEF Waiting
  <2> QED BY <2>1, <2>2
<1> QED BY <1>6, <1>7

LEMMA RequestWaits ==
  ASSUME Kept, Waits, NEW u \in User, Request(u)
  PROVE  Waits'
<1>1. /\ UNCHANGED <<rows, phase, boot, queue, worker, threads, failed, early>> /\ requests[u].pc = "idle"
      /\ \A v \in User : v # u => requests'[v] = requests[v]
  <2>1. ASSUME NEW i, NEW row, NEW c, NEW contract, NEW put, Decide(u, i, row, c, contract, put)
        PROVE  /\ UNCHANGED <<rows, phase, boot, queue, worker, threads, failed, early>> /\ requests[u] = Idle
               /\ \A v \in User : v # u => requests'[v] = requests[v]
    <3>1. UNCHANGED <<rows, phase, boot, queue, worker, threads, failed, early>> /\ requests[u] = Idle
      BY <2>1 DEF Decide, tables, process, work, history
    <3>2. PICK x : requests' = [requests EXCEPT ![u] = x]
      BY <2>1 DEF Decide
    <3> QED BY <3>1, <3>2 DEF Kept, Typed
  <2>2. requests[u] = Idle => requests[u].pc = "idle"
    BY DEF Idle
  <2>3. ASSUME NEW i \in DOMAIN rows, Retry(u, i)
        PROVE  \E row, c, contract, put : Decide(u, i, row, c, contract, put)
    BY <2>3 DEF Retry
  <2>4. ASSUME NEW d \in DOMAIN contracts, ReExtract(u, d) \/ Validate(u, d) \/ Judge(u, d)
        PROVE  \E i, row, c, contract, put : Decide(u, i, row, c, contract, put)
    BY <2>4, Zenon DEF ReExtract, Validate, Judge, Reject, Restore, Delete, Archive, Return
  <2> QED BY <2>1, <2>2, <2>3, <2>4 DEF Request, Judge
<1>2. \A i \in DOMAIN rows : OnTheWay(i) => OnTheWay(i)'
  BY <1>1 DEF OnTheWay
<1> QED BY <1>1, <1>2, WaitsStays

LEMMA SaveWaits ==
  ASSUME Kept, Waits, NEW u \in User, Save(u)
  PROVE  Waits'
<1> SUFFICES ASSUME ~ failed', ~ early', phase' # "down", NEW i \in DOMAIN rows' PROVE Waiting(i)'
  BY DEF Waits
<1>1. PICK r : r = requests[u]
  OBVIOUS
<1>2. /\ Sound(r) /\ RowSaved(r) /\ r.put \in BOOLEAN
      /\ requests' = [requests EXCEPT ![u] = IF r.put THEN [pc |-> "queueing", id |-> r.i] ELSE Idle]
  BY <1>1, SaveIs
<1>3. UNCHANGED <<phase, boot, queue, worker, threads, failed, early>> /\ requests[u].pc = "saving"
  BY DEF Save, process, work
<1>4. /\ \A v \in User : v # u => requests'[v] = requests[v]
      /\ r.put => requests'[u].pc = "queueing" /\ requests'[u].id = r.i
  BY <1>2 DEF Kept, Typed
<1>5. boot = NoBoot
  BY <1>3 DEF Kept, Typed, Beginning, Idle
<1>6. Waiting(i) /\ i \in DOMAIN rows
  BY <1>2, <1>3 DEF Waits, RowSaved
<1>7. OnTheWay(i) => OnTheWay(i)'
  BY <1>3, <1>4 DEF OnTheWay
<1>8. CASE i # r.i
  BY <1>2, <1>3, <1>6, <1>7, <1>8 DEF Waiting, RowSaved
<1>9. CASE i = r.i
  <2>1. /\ rows'[i].status = Changed(r.row.status, r.newRow.status, rows[i].status)
        /\ r.newRow.status \in {"QUEUED", "VALIDATED"} /\ (r.newRow.status = "QUEUED" => r.put)
    BY <1>2, <1>6, <1>9 DEF RowSaved, Sound, Kept, Typed
  <2>2. r.put => OnTheWay(i)'
    BY <1>4, <1>9 DEF OnTheWay
  <2>3. rows'[i].status = "QUEUED" => OnTheWay(i)' \/ i \in boot'.left
    BY <1>3, <1>6, <1>7, <2>1, <2>2 DEF Changed, Waiting
  <2>4. rows'[i].status = "EXTRACTING" => rows[i].status = "EXTRACTING"
    BY <2>1 DEF Changed
  <2> QED BY <1>3, <1>5, <1>6, <2>3, <2>4 DEF Waiting, NoBoot
<1> QED BY <1>8, <1>9

LEMMA PutBackWaits ==
  ASSUME Kept, Waits, NEW u \in User, PutBack(u)
  PROVE  Waits'
<1>1. PICK id : id = requests[u].id
  OBVIOUS
<1>2. /\ UNCHANGED <<rows, phase, boot, worker, threads, failed, early>>
      /\ requests[u].pc = "queueing" /\ queue' = Append(queue, id) /\ id \in Nat
      /\ \A v \in User : v # u => requests'[v] = requests[v]
  BY <1>1 DEF PutBack, tables, process, history, Kept, Typed, Linked
<1>3. \A i \in DOMAIN rows : OnTheWay(i) => OnTheWay(i)'
  BY <1>1, <1>2, OnTheQueue DEF OnTheWay, Kept
<1> QED BY <1>2, <1>3, WaitsStays

LEMMA WaitsStep ==
  ASSUME Kept, Waits, [Next]_ingestionVars
  PROVE  Waits'
<1>1. CASE UNCHANGED ingestionVars
  <2>1. UNCHANGED <<rows, phase, boot, queue, worker, threads, requests, failed, early>>
    BY <1>1 DEF ingestionVars, tables, process, work, history
  <2> QED BY <2>1, WaitsStays DEF OnTheWay
<1>2. CASE Crash
  BY <1>2 DEF Crash, Waits
<1>3. CASE Work
  BY <1>3, FilesWait, StartWaits, CommitLeftWaits, RegisterWaits, InsertWaits, PutWaits, WorkerWaits, StepWaits,
     SaveWaits, PutBackWaits DEF Work, Start, Register, Extract
<1>4. CASE Event
  <2>1. CASE LookUpFails
    BY <2>1 DEF LookUpFails, Fail, Waits
  <2> QED BY <1>2, <1>4, <2>1, FilesWait, RegisterWaits, WorkerWaits, StepWaits, RequestWaits DEF Event
<1> QED BY <1>1, <1>3, <1>4 DEF Next

\* Whatever dies, no queued row is out of sight of a process that has started.
THEOREM QueuedRowsRun == Spec => []QueuedWillRun
<1>1. Init => Waits
  BY DEF Init, Waits
<1>2. Kept /\ Waits => QueuedWillRun
  BY DEF Waits, Waiting, QueuedWillRun, Kept, Beginning, NoBoot
<1> QED BY KeptStart, KeptStep, WaitsStep, <1>1, <1>2, PTL DEF Spec

-----------------------------------------------------------------------------
(* Documents and drafts                                                      *)

\* A row is extracted only when no contract of it is left, and none that could come
\* back fits it.
WorkerAlone ==
  worker.pc \in {"found", "extracting", "extracted"} /\ worker.id \notin adrift =>
    /\ rows[worker.id].status \notin {"PENDING_VALIDATION", "VALIDATED"}
    /\ \A c \in DOMAIN contracts : Live(c) => contracts[c].row # worker.id
Documents == ~ stale => OneOriginal /\ DraftsAgree /\ WorkerAlone

\* A step that stores nothing, and begins no extraction.
LEMMA DocumentsStay ==
  ASSUME Documents, UNCHANGED <<rows, contracts, adrift>>, stale => stale',
         worker'.pc \in {"found", "extracting", "extracted"} =>
           worker.pc \in {"found", "extracting", "extracted"} /\ worker'.id = worker.id
  PROVE  Documents'
<1> SUFFICES ASSUME ~ stale' PROVE (OneOriginal /\ DraftsAgree /\ WorkerAlone)'
  BY DEF Documents
<1>1. OneOriginal /\ DraftsAgree /\ WorkerAlone
  BY DEF Documents
<1>2. OneOriginal' /\ DraftsAgree'
  BY <1>1 DEF OneOriginal, DraftsAgree, Agrees, Live
<1>3. WorkerAlone'
  BY <1>1 DEF WorkerAlone, Live
<1> QED BY <1>2, <1>3

\* Statuses change, of rows that have no contract or are adrift.
LEMMA StatusesAgree ==
  ASSUME OneOriginal, DraftsAgree, Linked, UNCHANGED contracts, DOMAIN rows' = DOMAIN rows, adrift \subseteq adrift',
         \A i \in DOMAIN rows :
           /\ rows'[i].hash = rows[i].hash /\ rows'[i].original = rows[i].original /\ rows'[i].contract = rows[i].contract
           /\ rows'[i].status # rows[i].status =>
                i \in adrift' \/ \A c \in DOMAIN contracts : Live(c) => contracts[c].row # i
  PROVE  OneOriginal' /\ DraftsAgree'
<1>1. OneOriginal'
  BY DEF OneOriginal
<1>2. DraftsAgree'
  <2> SUFFICES ASSUME NEW c \in DOMAIN contracts, Live(c), contracts[c].row \notin adrift' PROVE Agrees(c)'
    BY DEF DraftsAgree, Live
  <2>1. PICK i : i = contracts[c].row
    OBVIOUS
  <2>2. i \in DOMAIN rows /\ rows'[i].contract = rows[i].contract /\ rows'[i].status = rows[i].status
    BY <2>1 DEF Linked
  <2>3. Agrees(c)
    BY DEF DraftsAgree
  <2> QED BY <2>1, <2>2, <2>3 DEF Agrees
<1> QED BY <1>1, <1>2

LEMMA InsertAgrees ==
  ASSUME Kept, Documents, NEW t \in Thread, Insert(t)
  PROVE  Documents'
<1> SUFFICES ASSUME ~ stale' PROVE (OneOriginal /\ DraftsAgree /\ WorkerAlone)'
  BY DEF Documents
<1>1. PICK r, n : r = threads[t] /\ n = Len(rows) + 1
  OBVIOUS
<1>2. PICK x : x = [path |-> r.f, hash |-> r.hash, original |-> r.original, contract |-> 0,
                    status |-> IF r.original = 0 THEN "QUEUED" ELSE "DUPLICATE"]
  OBVIOUS
<1>3. /\ rows' = Append(rows, x) /\ rows \in Seq(Row) /\ UNCHANGED <<contracts, worker, adrift>>
      /\ ~ stale /\ First(SameHash(r.hash)) = r.original
  BY <1>1, <1>2 DEF Insert, Kept, Typed, work
<1>4. rows'[n] = x /\ DOMAIN rows' = DOMAIN rows \union {n} /\ \A j \in DOMAIN rows : rows'[j] = rows[j]
  BY <1>1, <1>3
<1>5. OneOriginal /\ DraftsAgree /\ WorkerAlone
  BY <1>3 DEF Documents
<1>6. ASSUME x.original = 0, NEW j \in DOMAIN rows, rows[j].hash = x.hash PROVE rows[j].original # 0
  <2>1. SameHash(r.hash) \in SUBSET (Nat \ {0})
    BY <1>3 DEF SameHash
  <2>2. SameHash(r.hash) = {}
    BY <1>2, <1>3, <1>6, <2>1, FirstIs
  <2>3. rows[j].status = "DUPLICATE"
    BY <1>2, <1>6, <2>2 DEF SameHash
  <2> QED BY <2>3 DEF Kept, Duplicates
<1>7. OneOriginal'
  <2> SUFFICES ASSUME NEW i \in DOMAIN rows', NEW j \in DOMAIN rows',
                      rows'[i].hash = rows'[j].hash, rows'[i].original = 0, rows'[j].original = 0
               PROVE  i = j
    BY DEF OneOriginal
  <2>1. CASE i \in DOMAIN rows /\ j \in DOMAIN rows
    BY <1>4, <1>5, <2>1 DEF OneOriginal
  <2>2. CASE i \notin DOMAIN rows \/ j \notin DOMAIN rows
    BY <1>4, <1>6, <2>2
  <2> QED BY <2>1, <2>2
<1>8. DraftsAgree' /\ WorkerAlone'
  <2>1. \A c \in DOMAIN contracts : rows'[contracts[c].row] = rows[contracts[c].row]
    BY <1>4 DEF Kept, Linked
  <2>2. DraftsAgree'
    <3> SUFFICES ASSUME NEW c \in DOMAIN contracts, Live(c), contracts[c].row \notin adrift PROVE Agrees(c)'
      BY <1>3 DEF DraftsAgree, Live
    <3>1. Agrees(c)
      BY <1>5 DEF DraftsAgree
    <3> QED BY <1>3, <2>1, <3>1 DEF Agrees
  <2>3. worker.pc \in {"found", "extracting", "extracted"} => rows'[worker.id] = rows[worker.id]
    BY <1>4, WorkerTypes
  <2> QED BY <1>3, <1>5, <2>2, <2>3 DEF WorkerAlone, Live
<1> QED BY <1>7, <1>8

LEMMA CommitLeftAgrees ==
  ASSUME Kept, Documents, NEW t \in Thread, CommitLeft(t)
  PROVE  Documents'
<1> SUFFICES ASSUME ~ stale' PROVE (OneOriginal /\ DraftsAgree /\ WorkerAlone)'
  BY DEF Documents
<1>1. UNCHANGED <<contracts, worker, adrift>> /\ ~ stale /\ \A i \in boot.mid : rows[i].status = "EXTRACTING"
  BY DEF CommitLeft, work
<1>2. OneOriginal /\ DraftsAgree /\ WorkerAlone
  BY <1>1 DEF Documents
<1>3. /\ DOMAIN rows' = DOMAIN rows
      /\ \A i \in DOMAIN rows :
           /\ rows'[i].hash = rows[i].hash /\ rows'[i].original = rows[i].original /\ rows'[i].contract = rows[i].contract
           /\ rows'[i].status = IF i \in boot.mid THEN "QUEUED" ELSE rows[i].status
  BY RequeuedRows DEF Kept
<1>4. ASSUME NEW i \in DOMAIN rows, rows'[i].status # rows[i].status, i \notin adrift, NEW c \in DOMAIN contracts, Live(c)
      PROVE  contracts[c].row # i
  <2>1. rows[i].status = "EXTRACTING"
    BY <1>1, <1>3, <1>4
  <2> QED BY <1>2, <1>4, <2>1 DEF DraftsAgree, Agrees
<1>5. OneOriginal' /\ DraftsAgree'
  BY <1>1, <1>2, <1>3, <1>4, StatusesAgree DEF Kept
<1>6. WorkerAlone'
  <2>1. worker.pc \in {"found", "extracting", "extracted"} => rows'[worker.id].status \in {"QUEUED", rows[worker.id].status}
    BY <1>3, WorkerTypes
  <2> QED BY <1>1, <1>2, <2>1 DEF WorkerAlone, Live
<1> QED BY <1>5, <1>6

LEMMA WorkerAgrees ==
  ASSUME Kept, Documents, CheckSwitch \/ WaitEnds \/ Take \/ ReadRow \/ WorkerDies
  PROVE  Documents'
<1>1. UNCHANGED <<rows, contracts, adrift>> /\ (stale => stale')
  BY DEF CheckSwitch, WaitEnds, Take, ReadRow, WorkerDies, tables, history
<1>2. CASE ~ ReadRow
  <2>1. worker'.pc \in {"idle", "waiting", "taken", "dead"}
    BY <1>2 DEF CheckSwitch, WaitEnds, Take, WorkerDies, Idle
  <2> QED BY <1>1, <2>1, DocumentsStay
<1>3. CASE ReadRow
  <2> SUFFICES ASSUME ~ stale' PROVE (OneOriginal /\ DraftsAgree /\ WorkerAlone)'
    BY DEF Documents
  <2>1. OneOriginal /\ DraftsAgree
    BY <1>1 DEF Documents
  <2>2. OneOriginal' /\ DraftsAgree'
    BY <1>1, <2>1 DEF OneOriginal, DraftsAgree, Agrees, Live
  <2>3. worker \in [pc : {"taken", "found", "extracting", "extracted"}, id : Nat] /\ worker.id \in DOMAIN rows
    BY <1>3, WorkerTypes DEF ReadRow
  <2>4. CASE rows[worker.id].status \in {"QUEUED", "FAILED"}
    <3>1. worker.id \notin adrift => \A c \in DOMAIN contracts : Live(c) => contracts[c].row # worker.id
      BY <2>1, <2>4 DEF DraftsAgree, Agrees
    <3>2. worker' = [worker EXCEPT !.pc = "found"]
      BY <1>3, <2>4 DEF ReadRow
    <3>3. worker'.id = worker.id
      BY <2>3, <3>2
    <3> QED BY <1>1, <2>2, <2>4, <3>1, <3>3 DEF WorkerAlone, Live
  <2>5. CASE rows[worker.id].status \notin {"QUEUED", "FAILED"}
    <3>1. worker' = Idle
      BY <1>3, <2>5 DEF ReadRow
    <3> QED BY <2>2, <3>1 DEF WorkerAlone, Idle
  <2> QED BY <2>4, <2>5
<1> QED BY <1>2, <1>3

LEMMA StepAgrees ==
  ASSUME Kept, Documents, NEW from \in SUBSET {"found", "extracting", "extracted"}, NEW s \in {"EXTRACTING", "EXTRACTED", "FAILED"},
         NEW to, Step(from, s, to), to.pc \in {"found", "extracting", "extracted"} => to.id = worker.id
  PROVE  Documents'
<1> SUFFICES ASSUME ~ stale' PROVE (OneOriginal /\ DraftsAgree /\ WorkerAlone)'
  BY DEF Documents
<1>1. PICK id : id = worker.id
  OBVIOUS
<1>2. /\ UNCHANGED <<contracts, stale, adrift>> /\ worker' = to /\ worker.pc \in {"found", "extracting", "extracted"}
      /\ rows' = [rows EXCEPT ![id].status = s] /\ s \in RowStatus
      /\ s \notin {"PENDING_VALIDATION", "VALIDATED"}
  BY <1>1 DEF Step, history, RowStatus
<1>3. OneOriginal /\ DraftsAgree /\ WorkerAlone /\ id \in DOMAIN rows
  BY <1>1, <1>2, WorkerTypes DEF Documents
<1>4. /\ DOMAIN rows' = DOMAIN rows
      /\ rows'[id].hash = rows[id].hash /\ rows'[id].original = rows[id].original /\ rows'[id].contract = rows[id].contract
      /\ \A j \in DOMAIN rows : j # id => rows'[j] = rows[j]
  BY <1>2, <1>3, StatusSet DEF Kept
<1>5. id \in adrift \/ \A c \in DOMAIN contracts : Live(c) => contracts[c].row # id
  BY <1>1, <1>2, <1>3 DEF WorkerAlone
<1>6. \A i \in DOMAIN rows :
        /\ rows'[i].hash = rows[i].hash /\ rows'[i].original = rows[i].original /\ rows'[i].contract = rows[i].contract
        /\ rows'[i].status # rows[i].status =>
             i \in adrift' \/ \A c \in DOMAIN contracts : Live(c) => contracts[c].row # i
  BY <1>2, <1>4, <1>5
<1>7. OneOriginal' /\ DraftsAgree'
  BY <1>2, <1>3, <1>4, <1>6, StatusesAgree DEF Kept
<1>8. WorkerAlone'
  <2>1. rows'[id].status = s
    BY <1>2, <1>3, StatusSet DEF Kept
  <2> QED BY <1>1, <1>2, <1>5, <2>1 DEF WorkerAlone, Live
<1> QED BY <1>7, <1>8

LEMMA LookUpAgrees ==
  ASSUME Kept, Documents, LookUpFails
  PROVE  Documents'
<1> SUFFICES ASSUME ~ stale' PROVE (OneOriginal /\ DraftsAgree /\ WorkerAlone)'
  BY DEF Documents
<1>1. PICK id : id = worker.id
  OBVIOUS
<1>2. /\ UNCHANGED <<contracts, stale>> /\ worker' = Idle /\ worker.pc \in {"taken", "found"}
      /\ rows' = [rows EXCEPT ![id].status = "FAILED"] /\ "FAILED" \in RowStatus
      /\ adrift' = IF Drafts(id) = {} THEN adrift ELSE adrift \union {id}
  BY <1>1 DEF LookUpFails, RowStatus
<1>3. OneOriginal /\ DraftsAgree /\ id \in DOMAIN rows
  BY <1>1, <1>2, WorkerTypes DEF Documents
<1>4. /\ DOMAIN rows' = DOMAIN rows
      /\ rows'[id].hash = rows[id].hash /\ rows'[id].original = rows[id].original /\ rows'[id].contract = rows[id].contract
      /\ \A j \in DOMAIN rows : j # id => rows'[j] = rows[j]
  BY <1>2, <1>3, StatusSet DEF Kept
<1>5. adrift \subseteq adrift' /\ (id \in adrift' \/ \A c \in DOMAIN contracts : Live(c) => contracts[c].row # id)
  BY <1>2 DEF Drafts
<1>6. \A i \in DOMAIN rows :
        /\ rows'[i].hash = rows[i].hash /\ rows'[i].original = rows[i].original /\ rows'[i].contract = rows[i].contract
        /\ rows'[i].status # rows[i].status =>
             i \in adrift' \/ \A c \in DOMAIN contracts : Live(c) => contracts[c].row # i
  BY <1>4, <1>5
<1>7. OneOriginal' /\ DraftsAgree'
  BY <1>2, <1>3, <1>4, <1>5, <1>6, StatusesAgree DEF Kept
<1>8. WorkerAlone'
  BY <1>2 DEF WorkerAlone, Idle
<1> QED BY <1>7, <1>8

LEMMA StoreAgrees ==
  ASSUME Kept, Documents, Store
  PROVE  Documents'
<1> SUFFICES ASSUME ~ stale' PROVE (OneOriginal /\ DraftsAgree /\ WorkerAlone)'
  BY DEF Documents
<1>1. PICK i, n : i = worker.id /\ n = Len(contracts) + 1
  OBVIOUS
<1>2. Stored(i, n)
  BY <1>1, StoreIs
<1>3. UNCHANGED <<stale, adrift>> /\ worker.pc = "extracted" /\ worker' = Idle
  BY DEF Store, history
<1>4. /\ OneOriginal /\ DraftsAgree
      /\ i \notin adrift => \A c \in DOMAIN contracts : Live(c) => contracts[c].row # i
  BY <1>1, <1>3 DEF Documents, WorkerAlone
<1>5. OneOriginal'
  BY <1>2, <1>4 DEF OneOriginal, Stored
<1>6. DraftsAgree'
  <2> SUFFICES ASSUME NEW c \in DOMAIN contracts', Live(c)', contracts'[c].row \notin adrift PROVE Agrees(c)'
    BY <1>3 DEF DraftsAgree
  <2>1. CASE c = n
    <3>1. contracts'[c].row = i /\ contracts'[c].status = "PENDING_VALIDATION"
      BY <1>2, <2>1 DEF Stored
    <3> QED BY <1>2, <2>1, <3>1 DEF Stored, Agrees
  <2>2. CASE c # n
    <3>1. c \in DOMAIN contracts /\ contracts'[c] = contracts[c] /\ Live(c)
      BY <1>2, <2>2 DEF Stored, Live
    <3>2. contracts[c].row \in DOMAIN rows /\ contracts[c].row # i
      BY <1>4, <3>1 DEF Kept, Linked
    <3>3. rows'[contracts[c].row] = rows[contracts[c].row]
      BY <1>2, <3>2 DEF Stored
    <3>4. Agrees(c)
      BY <1>4, <3>1 DEF DraftsAgree
    <3> QED BY <3>1, <3>3, <3>4 DEF Agrees
  <2> QED BY <2>1, <2>2
<1>7. WorkerAlone'
  BY <1>3 DEF WorkerAlone, Idle
<1> QED BY <1>5, <1>6, <1>7

\* Of what a request read nothing has changed.  It supersedes the draft of a row that
\* goes back on the queue, and the one it decided on is the row's; one that comes back
\* fits its row, or leaves it adrift.
LEMMA SaveAgrees ==
  ASSUME Kept, Documents, NEW u \in User, Save(u)
  PROVE  Documents'
<1> SUFFICES ASSUME ~ stale' PROVE (OneOriginal /\ DraftsAgree /\ WorkerAlone)'
  BY DEF Documents
<1>1. PICK r : r = requests[u]
  OBVIOUS
<1>2. /\ Sound(r) /\ RowSaved(r) /\ ContractSaved(r) /\ r.put \in BOOLEAN
      /\ stale' = (stale \/ (r.i # 0 /\ rows[r.i] # r.row) \/ (r.c # 0 /\ contracts[r.c] # r.contract))
  BY <1>1, SaveIs
<1>3. OneOriginal /\ DraftsAgree /\ WorkerAlone /\ UNCHANGED worker
  BY <1>2 DEF Documents, Save, work
<1>4. /\ r.i # 0 => r.i \in DOMAIN rows /\ rows[r.i] = r.row /\ rows'[r.i] = r.newRow
      /\ r.c # 0 => r.c \in DOMAIN contracts /\ contracts[r.c] = r.contract /\ contracts'[r.c] = r.newContract
  BY <1>2 DEF RowSaved, ContractSaved, Sound
<1>5. /\ DOMAIN rows' = DOMAIN rows /\ DOMAIN contracts' = DOMAIN contracts
      /\ \A j \in DOMAIN rows : j # r.i => rows'[j] = rows[j]
      /\ \A d \in DOMAIN contracts : d # r.c => contracts'[d] = contracts[d]
  BY <1>2 DEF RowSaved, ContractSaved
<1>6. OneOriginal'
  <2>1. \A j \in DOMAIN rows : rows'[j].hash = rows[j].hash /\ rows'[j].original = rows[j].original
    <3> SUFFICES ASSUME NEW j \in DOMAIN rows PROVE rows'[j].hash = rows[j].hash /\ rows'[j].original = rows[j].original
      OBVIOUS
    <3>1. j # 0
      BY DEF Kept, Typed
    <3> QED BY <1>2, <1>5, <3>1 DEF RowSaved
  <2> QED BY <1>3, <1>5, <2>1 DEF OneOriginal
<1>7. adrift \subseteq adrift' /\ (r.c # 0 => r.newContract.row = r.contract.row)
  BY <1>1, <1>2 DEF Save, Sound
<1>8. ASSUME NEW d \in DOMAIN contracts, Live(d)', contracts[d].row \notin adrift'
      PROVE  /\ contracts'[d].row = contracts[d].row /\ d # 0
             /\ Live(d) \/ (d = r.c /\ Agrees(d)')
  <2>0. d # 0
    BY DEF Kept, Typed
  <2>1. CASE d # r.c
    BY <1>5, <1>8, <2>0, <2>1 DEF Live
  <2>2. CASE d = r.c
    <3>1. contracts'[d].row = contracts[d].row
      BY <1>4, <1>7, <2>0, <2>2
    <3>2. ASSUME contracts[d].deleted, ~ Agrees(d)' PROVE FALSE
      <4>1. d \in {c \in {r.c} \ {0} : contracts[c].deleted /\ ~contracts'[c].deleted /\ ~Agrees(c)'}
        BY <1>8, <2>0, <2>2, <3>2 DEF Live
      <4>2. adrift' = adrift \union {contracts[c].row :
                        c \in {c \in {r.c} \ {0} : contracts[c].deleted /\ ~contracts'[c].deleted /\ ~Agrees(c)'}}
        BY <1>1 DEF Save
      <4>3. contracts[d].row \in adrift'
        BY <4>1, <4>2, Zenon
      <4> QED BY <1>8, <4>3
    <3> QED BY <2>0, <2>2, <3>1, <3>2 DEF Live
  <2> QED BY <2>1, <2>2
<1>9. WorkerAlone'
  <2> SUFFICES ASSUME worker.pc \in {"found", "extracting", "extracted"}, worker.id \notin adrift'
               PROVE  /\ rows'[worker.id].status \notin {"PENDING_VALIDATION", "VALIDATED"}
                      /\ \A d \in DOMAIN contracts : Live(d)' => contracts'[d].row # worker.id
    BY <1>3, <1>5 DEF WorkerAlone
  <2>1. PICK id : id = worker.id /\ id \in DOMAIN rows /\ id # 0 /\ id \notin adrift /\ id \notin adrift'
    BY <1>7, WorkerTypes DEF Kept, Typed
  <2>2. /\ rows[id].status \notin {"PENDING_VALIDATION", "VALIDATED"}
        /\ \A c \in DOMAIN contracts : Live(c) => contracts[c].row # id
    BY <1>3, <2>1 DEF WorkerAlone
  <2>3. rows'[id].status \notin {"PENDING_VALIDATION", "VALIDATED"}
    <3>1. CASE id # r.i
      BY <1>5, <2>1, <2>2, <3>1
    <3>2. CASE id = r.i /\ r.put
      <4>1. rows'[id] = r.newRow /\ r.newRow.status = "QUEUED"
        BY <1>2, <1>4, <2>1, <3>2 DEF Sound
      <4> QED BY <4>1
    <3>3. CASE id = r.i /\ ~ r.put
      <4>1. r.c # 0 /\ r.contract.row = id /\ ~ r.contract.deleted
        BY <1>2, <2>1, <3>3 DEF Sound
      <4>2. r.c \in DOMAIN contracts /\ contracts[r.c] = r.contract
        BY <1>4, <4>1
      <4> QED BY <2>2, <4>1, <4>2 DEF Live
    <3> QED BY <1>2, <3>1, <3>2, <3>3
  <2>4. ASSUME NEW d \in DOMAIN contracts, Live(d)', contracts'[d].row = id PROVE FALSE
    <3>1. contracts[d].row = id
      <4>1. d # r.c => contracts'[d] = contracts[d]
        BY <1>5
      <4>2. d = r.c => contracts'[d].row = contracts[d].row
        <5>1. d # 0
          BY DEF Kept, Typed
        <5> QED BY <1>4, <1>7, <5>1
      <4> QED BY <2>4, <4>1, <4>2
    <3>2. Live(d) \/ Agrees(d)'
      BY <1>8, <2>1, <2>4, <3>1
    <3>3. ~ Live(d)
      BY <2>2, <3>1
    <3>4. rows'[contracts'[d].row].status \in {"PENDING_VALIDATION", "VALIDATED"}
      BY <3>2, <3>3 DEF Agrees
    <3> QED BY <2>3, <2>4, <3>4
  <2> QED BY <2>1, <2>3, <2>4
<1>10. ASSUME NEW d \in DOMAIN contracts, Live(d)', contracts[d].row \notin adrift', Live(d), NEW j, j = contracts[d].row
       PROVE  /\ rows'[j].contract = d /\ rows'[j].status \in {"PENDING_VALIDATION", "VALIDATED"}
              /\ contracts'[d].status = "VALIDATED" => rows'[j].status = "VALIDATED"
  <2>1. j \in DOMAIN rows /\ j # 0 /\ d # 0 /\ j \notin adrift
    BY <1>7, <1>10 DEF Kept, Linked, Typed, Live
  <2>2. /\ rows[j].contract = d /\ rows[j].status \in {"PENDING_VALIDATION", "VALIDATED"}
        /\ contracts[d].status = "VALIDATED" => rows[j].status = "VALIDATED"
    BY <1>3, <1>10, <2>1 DEF DraftsAgree, Agrees
  <2>3. CASE d # r.c
    <3>1. j # r.i
      <4> SUFFICES ASSUME j = r.i PROVE FALSE
        OBVIOUS
      <4>1. rows[j] = r.row /\ r.i # 0 /\ r.row.contract = d /\ r.row.status # "FAILED"
        BY <1>4, <2>1, <2>2
      <4>2. r.c # 0 /\ ~ r.contract.deleted => r.contract.row # r.i
        <5> SUFFICES ASSUME r.c # 0, ~ r.contract.deleted, r.contract.row = r.i PROVE FALSE
          OBVIOUS
        <5>1. r.c \in DOMAIN contracts /\ contracts[r.c].row = j /\ Live(r.c)
          BY <1>4 DEF Live
        <5>2. rows[j].contract = r.c
          BY <1>3, <2>1, <5>1 DEF DraftsAgree, Agrees
        <5> QED BY <2>2, <2>3, <5>2
      <4>3. CASE r.put
        BY <1>2, <2>1, <2>3, <4>1, <4>2, <4>3 DEF Sound
      <4>4. CASE ~ r.put
        BY <1>2, <4>1, <4>2, <4>4 DEF Sound
      <4> QED BY <1>2, <4>3, <4>4
    <3>2. rows'[j] = rows[j] /\ contracts'[d] = contracts[d]
      BY <1>5, <2>1, <2>3, <3>1
    <3> QED BY <2>2, <3>2
  <2>4. CASE d = r.c
    <3>1. /\ contracts[d] = r.contract /\ contracts'[d] = r.newContract /\ r.c # 0
          /\ ~ r.newContract.deleted /\ ~ r.contract.deleted
      BY <1>4, <1>10, <2>1, <2>4 DEF Live
    <3>2. ~ r.put
      BY <1>2, <3>1 DEF Sound
    <3>3. CASE r.i # 0
      <4>1. r.contract.row = r.i /\ r.newRow.status = "VALIDATED" /\ r.newRow.contract = r.row.contract
        BY <1>2, <3>2, <3>3 DEF Sound
      <4>2. j = r.i /\ rows[j] = r.row /\ rows'[j] = r.newRow
        BY <1>4, <1>10, <3>1, <3>3, <4>1
      <4> QED BY <2>2, <4>1, <4>2
    <3>4. CASE r.i = 0
      <4>1. r.newContract.status # "VALIDATED"
        BY <1>2, <3>1, <3>4 DEF Sound
      <4>2. rows'[j] = rows[j]
        BY <1>5, <2>1, <3>4
      <4> QED BY <2>2, <3>1, <4>1, <4>2
    <3> QED BY <3>3, <3>4
  <2> QED BY <2>3, <2>4
<1>11. DraftsAgree'
  <2> SUFFICES ASSUME NEW d \in DOMAIN contracts, Live(d)', contracts'[d].row \notin adrift' PROVE Agrees(d)'
    BY <1>5 DEF DraftsAgree
  <2>1. contracts'[d].row = contracts[d].row
    <3>1. d # 0 /\ (d # r.c => contracts'[d] = contracts[d])
      BY <1>5 DEF Kept, Typed
    <3> QED BY <1>4, <1>7, <3>1
  <2>2. CASE Live(d)
    <3>1. PICK j : j = contracts[d].row
      OBVIOUS
    <3>2. /\ rows'[j].contract = d /\ rows'[j].status \in {"PENDING_VALIDATION", "VALIDATED"}
          /\ contracts'[d].status = "VALIDATED" => rows'[j].status = "VALIDATED"
      BY <1>10, <2>1, <2>2, <3>1
    <3> QED BY <2>1, <3>1, <3>2 DEF Agrees
  <2>3. CASE ~ Live(d)
    BY <1>8, <2>1, <2>3
  <2> QED BY <2>2, <2>3
<1> QED BY <1>6, <1>9, <1>11

LEMMA DocumentsStep ==
  ASSUME Kept, Documents, [Next]_ingestionVars
  PROVE  Documents'
<1>1. CASE UNCHANGED ingestionVars
  <2>1. UNCHANGED <<rows, contracts, worker, stale, adrift>>
    BY <1>1 DEF ingestionVars, tables, work, history
  <2> QED BY <2>1, DocumentsStay
<1>2. CASE StartExtract \/ Extracted \/ ExtractFails
  <2>1. worker \in [pc : {"taken", "found", "extracting", "extracted"}, id : Nat]
    BY <1>2, WorkerTypes DEF ExtractFails, StartExtract, Extracted, Step
  <2>2. CASE StartExtract
    <3>1. PICK to : to = [worker EXCEPT !.pc = "extracting"]
      OBVIOUS
    <3>2. to.id = worker.id /\ Step({"found"}, "EXTRACTING", to)
      BY <2>1, <2>2, <3>1 DEF StartExtract
    <3> QED BY <3>2, StepAgrees
  <2>3. CASE Extracted
    <3>1. PICK to : to = [worker EXCEPT !.pc = "extracted"]
      OBVIOUS
    <3>2. to.id = worker.id /\ Step({"extracting"}, "EXTRACTED", to)
      BY <2>1, <2>3, <3>1 DEF Extracted
    <3> QED BY <3>2, StepAgrees
  <2>4. CASE ExtractFails
    <3>1. PICK to : to = Idle
      OBVIOUS
    <3>2. to.pc = "idle" /\ Step({"extracting", "extracted"}, "FAILED", to)
      BY <2>4, <3>1 DEF ExtractFails, Idle
    <3> QED BY <3>2, StepAgrees
  <2> QED BY <1>2, <2>2, <2>3, <2>4
<1>3. CASE Crash
  <2>1. UNCHANGED <<rows, contracts, stale, adrift>> /\ worker'.pc = "idle"
    BY <1>3 DEF Crash, tables, history, Idle
  <2> QED BY <2>1, DocumentsStay
<1>4. ASSUME UNCHANGED <<rows, contracts, worker, adrift>>, stale => stale' PROVE Documents'
  BY <1>4, DocumentsStay
<1>5. CASE Work
  <2>1. ASSUME NEW f \in File, CopyEnds(f) PROVE Documents'
    BY <1>4, <2>1 DEF CopyEnds, tables, work, history
  <2>2. CASE Start
    <3>1. ASSUME Boot \/ \E i \in boot.left : PutLeft(i) PROVE Documents'
      BY <1>4, <3>1 DEF Boot, PutLeft, tables, work, history
    <3> QED BY <2>2, <3>1, CommitLeftAgrees DEF Start
  <2>3. CASE Extract
    BY <1>2, <2>3, WorkerAgrees, StoreAgrees DEF Extract
  <2>4. ASSUME NEW t \in Thread, Register(t) PROVE Documents'
    <3>1. ASSUME \/ \E f \in File : HandleEvent(t, f) \/ CheckPath(t, f)
                 \/ Poll(t) \/ LookUp(t) \/ Put(t) \/ EndThread(t)
          PROVE  Documents'
      BY <1>4, <3>1 DEF HandleEvent, CheckPath, Poll, LookUp, Put, EndThread, tables, work, history
    <3> QED BY <2>4, <3>1, InsertAgrees DEF Register
  <2>5. ASSUME NEW u \in User, PutBack(u) PROVE Documents'
    BY <1>4, <2>5 DEF PutBack, tables, work, history
  <2> QED BY <1>5, <2>1, <2>2, <2>3, <2>4, <2>5, SaveAgrees DEF Work
<1>6. CASE Event
  <2>1. ASSUME NEW f \in File, FileAppears(f) \/ GiveUpEvent(f) PROVE Documents'
    BY <1>4, <2>1 DEF FileAppears, GiveUpEvent, tables, work, history
  <2>2. CASE SetExtraction
    BY <1>4, <2>2 DEF SetExtraction, tables, history
  <2>3. ASSUME NEW t \in Thread, RestartWatcher(t) \/ RegisterFails(t) PROVE Documents'
    BY <1>4, <2>3 DEF RestartWatcher, RegisterFails, tables, work, history
  <2>4. ASSUME NEW u \in User, Request(u) PROVE Documents'
    <3>1. ASSUME NEW i, NEW row, NEW c, NEW contract, NEW put, Decide(u, i, row, c, contract, put)
          PROVE  Documents'
      BY <1>4, <3>1 DEF Decide, tables, work, history
    <3>2. ASSUME NEW i \in DOMAIN rows, Retry(u, i)
          PROVE  \E row, c, contract, put : Decide(u, i, row, c, contract, put)
      BY <3>2 DEF Retry
    <3>3. ASSUME NEW d \in DOMAIN contracts, ReExtract(u, d) \/ Validate(u, d) \/ Judge(u, d)
          PROVE  \E i, row, c, contract, put : Decide(u, i, row, c, contract, put)
      BY <3>3, Zenon DEF ReExtract, Validate, Judge, Reject, Restore, Delete, Archive, Return
    <3> QED BY <2>4, <3>1, <3>2, <3>3 DEF Request, Judge
  <2> QED BY <1>2, <1>3, <1>6, <2>1, <2>2, <2>3, <2>4, WorkerAgrees, LookUpAgrees DEF Event
<1> QED BY <1>1, <1>5, <1>6 DEF Next

\* Unless a commit overlooked another, one row is the original of a document, and a
\* contract that was not deleted is its row's, but for rows adrift.
THEOREM DocumentsAreOne == Spec => []OneOfEach
<1>1. Init => Documents
  BY DEF Init, Documents, OneOriginal, DraftsAgree, WorkerAlone, Idle
<1>2. Documents => OneOfEach
  BY DEF Documents, OneOfEach
<1> QED BY KeptStart, KeptStep, DocumentsStep, <1>1, <1>2, PTL DEF Spec

=============================================================================
