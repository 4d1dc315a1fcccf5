------------------------------ MODULE Ingestion ------------------------------
(***************************************************************************)
(* How the contracts service takes documents in: services/watcher,         *)
(* services/gdrive, services/extraction_worker and the API calls that work *)
(* on what they produce.  Threads of one process register files that       *)
(* appear, put their rows on a queue in memory, and one worker extracts a  *)
(* contract from each; people retry, validate, reject, archive, delete and *)
(* restore.  The process may die at any point: its threads and its queue   *)
(* are gone, rows and contracts stay.                                      *)
(*                                                                         *)
(* A query, and a commit, is one step.  A session remembers the rows it    *)
(* has read and a commit writes the fields it has changed (Changed), so    *)
(* what others committed in between is overwritten or survives field by    *)
(* field.  A row's or a contract's id is its place in its sequence.        *)
(***************************************************************************)
EXTENDS Integers, Sequences, FiniteSets, TLC

CONSTANTS
  File,        \* paths of documents
  Remote,      \* those that are downloaded from Google Drive
  Hash, HashOf,
  Thread,      \* threads that register files at the same time
  User,        \* API requests at the same time
  Budgets      \* bounds: a behaviour has one of these (Budget)

\* The files that may appear, the threads that may register them, and how many rows,
\* requests, failures, crashes and changed settings there may be.
Budget == [files : SUBSET File, threads : SUBSET Thread, rows : Nat, requests : Nat, faults : Nat, crashes : Nat, changes : Nat]

ASSUME IngestionAssumption ==
  /\ Remote \subseteq File /\ HashOf \in [File -> Hash] /\ File \intersect Hash = {}
  /\ Budgets \subseteq Budget

VARIABLES
  disk, growing, \* the files there are; those still being copied
  rows, contracts,
  phase,         \* of the process
  boot,          \* rows to put on the queue at the start, and those of them found EXTRACTING
  observing, events, \* the folder is watched; files whose thread waits for a stable size
  queue, enabled, worker,
  threads, requests,
  budget,        \* what is left of it
  failed,        \* history: a query failed, or a copy took too long
  stale,         \* history: a commit overlooked what was committed since it read
  early,         \* history: the worker took a row before start_worker committed it
  adrift         \* history: rows that lost track of a draft (Save, LookUpFails)

disks == <<disk, growing>>
tables == <<rows, contracts>>
process == <<phase, boot, observing, events>>
work == <<queue, enabled, worker>>
history == <<failed, stale, early, adrift>>
ingestionVars == <<disks, tables, process, work, threads, requests, budget, history>>

RowStatus == {"QUEUED", "EXTRACTING", "EXTRACTED", "PENDING_VALIDATION", "VALIDATED", "DUPLICATE", "FAILED"}
Row == [path : File, hash : Hash \union File, status : RowStatus, original : Nat, contract : Nat]
Contract == [row : Nat, status : {"PENDING_VALIDATION", "VALIDATED", "REJECTED", "ARCHIVED"}, deleted : BOOLEAN]

Idle == [pc |-> "idle"]
NoBoot == [left |-> {}, mid |-> {}]

Init ==
  /\ disk = {} /\ growing = {}
  /\ rows = <<>> /\ contracts = <<>>
  /\ phase = "down" /\ boot = NoBoot /\ observing = FALSE /\ events = {}
  /\ queue = <<>> /\ enabled = TRUE /\ worker = Idle
  /\ threads = [t \in Thread |-> Idle] /\ requests = [u \in User |-> Idle]
  /\ budget \in Budgets
  /\ failed = FALSE /\ stale = FALSE /\ early = FALSE /\ adrift = {}

\* The rows that start_worker lists.  A slip: only those that wait.
UnsettledQueued == {i \in DOMAIN rows : rows[i].status = "QUEUED"}
Unsettled == {i \in DOMAIN rows : rows[i].status \in {"QUEUED", "EXTRACTING"}}

Free(t) == t \in budget.threads /\ threads[t] = Idle
Spend(what) == budget[what] > 0 /\ budget' = [budget EXCEPT ![what] = @ - 1]
Fail == Spend("faults") /\ failed' = TRUE

\* What a commit makes of a field that the session read as `old` and set to `new`.
Changed(old, new, now) == IF old = new THEN now ELSE new

-----------------------------------------------------------------------------
(* Files                                                                     *)

\* A copy into a watched folder begins, or a file is shared on Drive.  The
\* observer starts a thread for a new file of a folder it watches.
FileAppears(f) ==
  /\ f \in budget.files \ disk
  /\ disk' = disk \union {f}
  /\ IF f \in Remote
       THEN UNCHANGED <<growing, events>>
       ELSE /\ growing' = growing \union {f}
            /\ events' = IF observing THEN events \union {f} ELSE events
  /\ UNCHANGED <<tables, phase, boot, observing, work, threads, requests, budget, history>>

CopyEnds(f) ==
  /\ f \in growing
  /\ growing' = growing \ {f}
  /\ UNCHANGED <<disk, tables, process, work, threads, requests, budget, history>>

-----------------------------------------------------------------------------
(* The process starts: start_worker, the watcher's start, the API            *)

\* The worker's thread is running when the rows are listed.
Boot ==
  /\ phase = "down"
  /\ phase' = "requeueing"
  /\ boot' = [left |-> Unsettled, mid |-> {i \in Unsettled : rows[i].status = "EXTRACTING"}]
  /\ UNCHANGED <<disks, tables, observing, events, work, threads, requests, budget, history>>

PutLeft(i) ==
  /\ phase = "requeueing" /\ i \in boot.left
  /\ boot' = [boot EXCEPT !.left = @ \ {i}]
  /\ queue' = Append(queue, i)
  /\ UNCHANGED <<disks, tables, phase, observing, events, enabled, worker, threads, requests, budget, history>>

\* The files of the watched folders.  A slip: those still being copied are left to the observer.
ListingWhole == disk \ (Remote \union growing)
Listing == disk \ Remote
Scanning == [pc |-> "next", scan |-> TRUE, todo |-> Listing]
ScanUnderWay == \E t \in Thread : threads[t].pc # "idle" /\ threads[t].scan

\* The commit of start_worker, after which the watcher starts with a scan
\* (reconcile).
CommitLeft(t) ==
  /\ phase = "requeueing" /\ boot.left = {} /\ Free(t)
  /\ rows' = [i \in DOMAIN rows |-> IF i \in boot.mid THEN [rows[i] EXCEPT !.status = "QUEUED"] ELSE rows[i]]
  /\ phase' = "watching" /\ boot' = NoBoot
  /\ threads' = [threads EXCEPT ![t] = Scanning]
  /\ stale' = (stale \/ \E i \in boot.mid : rows[i].status # "EXTRACTING")
  /\ UNCHANGED <<disks, contracts, observing, events, work, requests, budget, failed, early, adrift>>

\* Everything in memory is lost.
Crash ==
  /\ phase # "down" /\ Spend("crashes")
  /\ phase' = "down" /\ boot' = NoBoot /\ observing' = FALSE /\ events' = {}
  /\ queue' = <<>> /\ worker' = Idle
  /\ threads' = [t \in Thread |-> Idle] /\ requests' = [u \in User |-> Idle]
  /\ UNCHANGED <<disks, tables, enabled, history>>

-----------------------------------------------------------------------------
(* register_file, in a thread of its own for one file or in turn for many    *)

\* The size has been the same for a while.
HandleEvent(t, f) ==
  /\ f \in events \ growing /\ Free(t)
  /\ events' = events \ {f}
  /\ threads' = [threads EXCEPT ![t] = [pc |-> "next", scan |-> FALSE, todo |-> {f}]]
  /\ UNCHANGED <<disks, tables, phase, boot, observing, work, requests, budget, history>>

\* A copy that takes longer than wait_until_stable waits.
GiveUpEvent(f) ==
  /\ f \in events /\ Fail
  /\ events' = events \ {f}
  /\ UNCHANGED <<disks, tables, phase, boot, observing, work, threads, requests, stale, early, adrift>>

\* Changed settings restart the watcher, which scans again, under a lock.
RestartWatcher(t) ==
  /\ phase = "up" /\ ~ScanUnderWay /\ Free(t) /\ Spend("changes")
  /\ observing' = FALSE
  /\ threads' = [threads EXCEPT ![t] = Scanning]
  /\ UNCHANGED <<disks, tables, phase, boot, events, work, requests, history>>

\* poll_report: Drive files without a row, or with failed ones.
Known(f) == \E i \in DOMAIN rows : rows[i].path = f /\ rows[i].status # "FAILED"
Poll(t) ==
  /\ phase = "up" /\ Free(t)
  /\ {f \in Remote \intersect disk : ~Known(f)} # {}
  /\ threads' = [threads EXCEPT ![t] = [pc |-> "next", scan |-> FALSE,
                                        todo |-> {f \in Remote \intersect disk : ~Known(f)}]]
  /\ UNCHANGED <<disks, tables, process, work, requests, budget, history>>

Goto(t, next) == threads' = [threads EXCEPT ![t] = next]
GoOn(t) == Goto(t, [pc |-> "next", scan |-> threads[t].scan, todo |-> threads[t].todo])

\* Is the path registered?
CheckPath(t, f) ==
  /\ threads[t].pc = "next" /\ f \in threads[t].todo
  /\ Goto(t, IF Known(f) THEN [threads[t] EXCEPT !.todo = @ \ {f}]
                         ELSE [pc |-> "hashing", scan |-> threads[t].scan, todo |-> threads[t].todo \ {f}, f |-> f])
  /\ UNCHANGED <<disks, tables, process, work, requests, budget, history>>

\* The hash of an unfinished copy is like no other.
Digest(f) == IF f \in growing THEN f ELSE HashOf[f]
SameHash(h) == {i \in DOMAIN rows : rows[i].hash = h /\ rows[i].status # "DUPLICATE"}
First(S) == IF S = {} THEN 0 ELSE CHOOSE i \in S : \A j \in S : i <= j

LookUp(t) ==
  /\ threads[t].pc = "hashing"
  /\ LET hash == Digest(threads[t].f)
     IN Goto(t, [pc |-> "inserting", scan |-> threads[t].scan, todo |-> threads[t].todo, f |-> threads[t].f,
                 hash |-> hash, original |-> First(SameHash(hash))])
  /\ UNCHANGED <<disks, tables, process, work, requests, budget, history>>

Insert(t) ==
  /\ threads[t].pc = "inserting" /\ Len(rows) < budget.rows
  /\ LET r == threads[t]
     IN /\ rows' = Append(rows, [path |-> r.f, hash |-> r.hash, original |-> r.original, contract |-> 0,
                                 status |-> IF r.original = 0 THEN "QUEUED" ELSE "DUPLICATE"])
        /\ stale' = (stale \/ Known(r.f) \/ First(SameHash(r.hash)) # r.original)
        /\ IF r.original = 0
             THEN Goto(t, [pc |-> "queueing", scan |-> r.scan, todo |-> r.todo, id |-> Len(rows) + 1])
             ELSE GoOn(t)
  /\ UNCHANGED <<disks, contracts, process, work, requests, budget, failed, early, adrift>>

\* The row is read again, and queued.
Put(t) ==
  /\ threads[t].pc = "queueing"
  /\ queue' = IF rows[threads[t].id].status = "QUEUED" THEN Append(queue, threads[t].id) ELSE queue
  /\ GoOn(t)
  /\ UNCHANGED <<disks, tables, process, enabled, worker, requests, budget, history>>

\* The file is gone, or a query fails: the file is passed over.
RegisterFails(t) ==
  /\ threads[t].pc \in {"hashing", "inserting", "queueing"} /\ Fail
  /\ GoOn(t)
  /\ UNCHANGED <<disks, tables, process, work, requests, stale, early, adrift>>

\* After its scan the watcher observes; at the start, the API opens.
EndThread(t) ==
  /\ threads[t].pc = "next" /\ threads[t].todo = {}
  /\ Goto(t, Idle)
  /\ observing' = (observing \/ threads[t].scan)
  /\ phase' = IF threads[t].scan THEN "up" ELSE phase
  /\ UNCHANGED <<disks, tables, boot, events, work, requests, budget, history>>

-----------------------------------------------------------------------------
(* The worker                                                                *)

SetExtraction ==
  /\ phase = "up" /\ Spend("changes")
  /\ enabled' = ~enabled
  /\ UNCHANGED <<disks, tables, process, queue, worker, threads, requests, history>>

\* The switch is looked at before the queue is waited for.
CheckSwitch ==
  /\ phase # "down" /\ worker.pc = "idle" /\ enabled
  /\ worker' = [pc |-> "waiting"]
  /\ UNCHANGED <<disks, tables, process, queue, enabled, threads, requests, budget, history>>

WaitEnds ==
  /\ worker.pc = "waiting" /\ queue = <<>> /\ ~enabled
  /\ worker' = Idle
  /\ UNCHANGED <<disks, tables, process, queue, enabled, threads, requests, budget, history>>

Take ==
  /\ worker.pc = "waiting" /\ queue # <<>>
  /\ worker' = [pc |-> "taken", id |-> Head(queue)] /\ queue' = Tail(queue)
  /\ UNCHANGED <<disks, tables, process, enabled, threads, requests, budget, history>>

\* A row that is neither queued nor failed is dropped.
ReadRow ==
  /\ worker.pc = "taken"
  /\ worker' = IF rows[worker.id].status \in {"QUEUED", "FAILED"} THEN [worker EXCEPT !.pc = "found"] ELSE Idle
  /\ early' = (early \/ worker.id \in boot.mid)
  /\ UNCHANGED <<disks, tables, process, queue, enabled, threads, requests, budget, failed, stale, adrift>>

Step(from, status, to) ==
  /\ worker.pc \in from
  /\ rows' = [rows EXCEPT ![worker.id].status = status]
  /\ worker' = to
  /\ UNCHANGED <<disks, contracts, process, queue, enabled, threads, requests, budget, history>>

StartExtract == Step({"found"}, "EXTRACTING", [worker EXCEPT !.pc = "extracting"])
Extracted == Step({"extracting"}, "EXTRACTED", [worker EXCEPT !.pc = "extracted"])

\* A slip: the exception ends the thread.
ExtractFailsThrough ==
  /\ worker.pc \in {"extracting", "extracted"}
  /\ worker' = [pc |-> "dead"]
  /\ UNCHANGED <<disks, tables, process, queue, enabled, threads, requests, budget, history>>
\* Text extraction, the model or the rest of process_file fails.
ExtractFails == Step({"extracting", "extracted"}, "FAILED", Idle)

Store ==
  /\ worker.pc = "extracted"
  /\ contracts' = Append(contracts, [row |-> worker.id, status |-> "PENDING_VALIDATION", deleted |-> FALSE])
  /\ rows' = [rows EXCEPT ![worker.id].status = "PENDING_VALIDATION", ![worker.id].contract = Len(contracts) + 1]
  /\ worker' = Idle
  /\ UNCHANGED <<disks, process, queue, enabled, threads, requests, budget, history>>

Live(c) == c # 0 /\ ~contracts[c].deleted
Drafts(i) == {c \in DOMAIN contracts : Live(c) /\ contracts[c].row = i}
\* The database fails while the row is looked up: it is FAILED, whatever it was.
LookUpFails ==
  /\ worker.pc \in {"taken", "found"} /\ Fail
  /\ rows' = [rows EXCEPT ![worker.id].status = "FAILED"]
  /\ adrift' = IF Drafts(worker.id) = {} THEN adrift ELSE adrift \union {worker.id}
  /\ worker' = Idle
  /\ UNCHANGED <<disks, contracts, process, queue, enabled, threads, requests, stale, early>>

\* The database fails in _mark_failed: nothing catches it.
WorkerDies ==
  /\ worker.pc \in {"taken", "found", "extracting", "extracted"} /\ Fail
  /\ worker' = [pc |-> "dead"]
  /\ UNCHANGED <<disks, tables, process, queue, enabled, threads, requests, stale, early, adrift>>

-----------------------------------------------------------------------------
(* The API: a request reads a row and a contract, decides, and commits       *)

NoRow == [status |-> "none"]

\* What request u has read of row i and contract c (0: none), what it makes
\* of them, and whether it queues the row afterwards.
Decide(u, i, row, c, contract, put) ==
  /\ phase = "up" /\ requests[u] = Idle /\ Spend("requests")
  /\ requests' = [requests EXCEPT ![u] =
       [pc |-> "saving", i |-> i, c |-> c, put |-> put,
        row |-> IF i = 0 THEN NoRow ELSE rows[i], newRow |-> row,
        contract |-> IF c = 0 THEN NoRow ELSE contracts[c], newContract |-> contract]]
  /\ UNCHANGED <<disks, tables, process, work, threads, history>>

Requeued(i) == [rows[i] EXCEPT !.status = "QUEUED", !.contract = 0]
Superseded(c) == [contracts[c] EXCEPT !.deleted = TRUE]

\* A slip: the draft stays.
RetryKeeping(u, i) ==
  /\ Live(rows[i].contract) => contracts[rows[i].contract].status = "PENDING_VALIDATION"
  /\ Decide(u, i, Requeued(i), 0, NoRow, TRUE)
\* retry_ingestion: a draft is superseded, a contract beyond that stops it.
Retry(u, i) ==
  /\ LET c == IF rows[i].status = "FAILED" THEN 0 ELSE rows[i].contract
     IN /\ Live(c) => contracts[c].status = "PENDING_VALIDATION"
        /\ Decide(u, i, Requeued(i), c, IF c = 0 THEN NoRow ELSE Superseded(c), TRUE)

\* The bulk action re_extract, for one contract.
ReExtract(u, c) ==
  /\ Live(c) /\ contracts[c].status = "PENDING_VALIDATION"
  /\ Decide(u, contracts[c].row, Requeued(contracts[c].row), c, Superseded(c), TRUE)

Validate(u, c) ==
  /\ Live(c) /\ contracts[c].status \in {"PENDING_VALIDATION", "VALIDATED"}
  /\ Decide(u, contracts[c].row, [rows[contracts[c].row] EXCEPT !.status = "VALIDATED"],
            c, [contracts[c] EXCEPT !.status = "VALIDATED"], FALSE)

Reject(u, c) ==
  /\ Live(c)
  /\ Decide(u, 0, NoRow, c, [contracts[c] EXCEPT !.status = "REJECTED"], FALSE)

Restore(u, c) ==
  /\ Live(c) /\ contracts[c].status \in {"REJECTED", "ARCHIVED"}
  /\ Decide(u, 0, NoRow, c, [contracts[c] EXCEPT !.status = "PENDING_VALIDATION"], FALSE)

Delete(u, c) ==
  /\ Live(c)
  /\ Decide(u, 0, NoRow, c, Superseded(c), FALSE)

\* resolve_duplicate: a duplicate of some contract, deleted or not.
Archive(u, c) == Decide(u, 0, NoRow, c, [contracts[c] EXCEPT !.status = "ARCHIVED"], FALSE)

\* Data Retention brings a deleted contract back.
Return(u, c) ==
  /\ contracts[c].deleted
  /\ Decide(u, 0, NoRow, c, [contracts[c] EXCEPT !.deleted = FALSE], FALSE)

\* What a row and its draft say of each other.
Agrees(c) ==
  /\ rows[contracts[c].row].contract = c
  /\ rows[contracts[c].row].status \in {"PENDING_VALIDATION", "VALIDATED"}
  /\ contracts[c].status = "VALIDATED" => rows[contracts[c].row].status = "VALIDATED"

\* The commit: the fields that changed are written.  A contract that comes back to a
\* row which has gone on without it leaves the row adrift.
Written(old, new, now) == [f \in DOMAIN now |-> Changed(old[f], new[f], now[f])]
Save(u) ==
  /\ requests[u].pc = "saving"
  /\ LET r == requests[u]
     IN /\ rows' = IF r.i = 0 THEN rows ELSE [rows EXCEPT ![r.i] = Written(r.row, r.newRow, @)]
        /\ contracts' = IF r.c = 0 THEN contracts ELSE [contracts EXCEPT ![r.c] = Written(r.contract, r.newContract, @)]
        /\ stale' = (stale \/ (r.i # 0 /\ rows[r.i] # r.row) \/ (r.c # 0 /\ contracts[r.c] # r.contract))
        /\ adrift' = adrift \union {contracts[c].row :
                                    c \in {c \in {r.c} \ {0} : contracts[c].deleted /\ ~contracts'[c].deleted /\ ~Agrees(c)'}}
        /\ requests' = [requests EXCEPT ![u] = IF r.put THEN [pc |-> "queueing", id |-> r.i] ELSE Idle]
  /\ UNCHANGED <<disks, process, work, threads, budget, failed, early>>

PutBack(u) ==
  /\ requests[u].pc = "queueing"
  /\ queue' = Append(queue, requests[u].id)
  /\ requests' = [requests EXCEPT ![u] = Idle]
  /\ UNCHANGED <<disks, tables, process, enabled, worker, threads, budget, history>>

-----------------------------------------------------------------------------
\* What the process, its service manager (Restart=on-failure) and those who copy
\* files do by themselves, as long as there is something to do.
Start == Boot \/ (\E i \in boot.left : PutLeft(i)) \/ \E t \in Thread : CommitLeft(t)
Register(t) == (\E f \in File : HandleEvent(t, f) \/ CheckPath(t, f)) \/ Poll(t) \/ LookUp(t) \/ Insert(t) \/ Put(t) \/ EndThread(t)
Extract == CheckSwitch \/ WaitEnds \/ Take \/ ReadRow \/ StartExtract \/ Extracted \/ Store
Work ==
  \/ \E f \in File : CopyEnds(f)
  \/ Start \/ Extract
  \/ \E t \in Thread : Register(t)
  \/ \E u \in User : Save(u) \/ PutBack(u)

\* What may happen.
Request(u) ==
  \/ \E i \in DOMAIN rows : Retry(u, i)
  \/ \E c \in DOMAIN contracts : ReExtract(u, c) \/ Validate(u, c) \/ Reject(u, c) \/ Restore(u, c) \/ Delete(u, c)
                                 \/ Archive(u, c) \/ Return(u, c)
Event ==
  \/ \E f \in File : FileAppears(f) \/ GiveUpEvent(f)
  \/ Crash \/ SetExtraction \/ ExtractFails \/ LookUpFails \/ WorkerDies
  \/ \E t \in Thread : RestartWatcher(t) \/ RegisterFails(t)
  \/ \E u \in User : Request(u)

Next == Work \/ Event
\* Which part goes on is left open: there is only so much to do.
Spec == Init /\ [][Next]_ingestionVars /\ WF_ingestionVars(Work)

-----------------------------------------------------------------------------
(* Properties                                                                *)

OnTheWay(i) ==
  \/ \E k \in DOMAIN queue : queue[k] = i
  \/ worker.pc \in {"taken", "found"} /\ worker.id = i
  \/ \E t \in Thread : threads[t].pc = "queueing" /\ threads[t].id = i
  \/ \E u \in User : requests[u].pc = "queueing" /\ requests[u].id = i

\* The queue is in memory and the rows are not.  All the same no row waits for a
\* worker that will never hear of it: once a start is over, a queued row is on
\* the queue or about to be, and one being extracted is the worker's, crashes
\* and retries included, as long as no query fails and the worker was not too
\* early (start_worker, register_file, retry_ingestion, process_file).
QueuedWillRun ==
  ~failed /\ ~early /\ phase \in {"watching", "up"} =>
    \A i \in DOMAIN rows :
      /\ rows[i].status = "QUEUED" => OnTheWay(i)
      /\ rows[i].status = "EXTRACTING" => worker.pc = "extracting" /\ worker.id = i

\* "identical hashes are logged as file-level duplicates": unless two threads
\* register at once, of the rows with one hash one is the original (register_file).
OneOriginal ==
  \A i, j \in DOMAIN rows : rows[i].hash = rows[j].hash /\ rows[i].original = 0 /\ rows[j].original = 0 => i = j

\* Two tables say where a document stands, and the worker and eight requests write
\* them.  A contract that was not deleted is the one its row names, so that no
\* row ever has two drafts; a validated one's row says so.  Rows adrift do not:
\* those whose superseded draft was brought back, or that a failed query made FAILED.
DraftsAgree == \A c \in DOMAIN contracts : Live(c) /\ contracts[c].row \notin adrift => Agrees(c)

\* "the stale pending contract is superseded by the fresh extraction": unless
\* requests overlap, a document has one original and a row one draft at a time,
\* whatever is retried, decided, archived, deleted, brought back in time or dies.
OneOfEach == ~stale => OneOriginal /\ DraftsAgree

Unfinished == {i \in DOMAIN rows : rows[i].status \in {"QUEUED", "EXTRACTING"}}
\* While extraction is on, no row waits or is extracted for ever, crashes included:
\* again and again the worker is done (_worker_loop, process_file, start_worker).
Settles == []<>(Unfinished = {} \/ ~enabled \/ early \/ failed)

Registered(f) == \E i \in DOMAIN rows : rows[i].path = f
\* "On startup a reconciliation scan registers files dropped while offline": a file
\* dropped while the process is down, or seen by the observer, or on Drive, is
\* registered in the end, crashes and restarts of the watcher included.
OfflineNoticed ==
  \A f \in File :
    (f \in disk /\ (phase = "down" \/ f \in events \/ f \in Remote)) ~> (Registered(f) \/ failed \/ Len(rows) = budget.rows)
=============================================================================
