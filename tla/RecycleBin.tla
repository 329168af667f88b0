----------------------------- MODULE RecycleBin -----------------------------
(***************************************************************************)
(* Records, their files and the recycle bin:                                *)
(* src/src/services/recyclebin.service.ts, the attachment handlers of       *)
(* ticket.service.ts, the document handlers of asset.service.ts and the     *)
(* purge of app/api/jobs/purge/route.ts.                                    *)
(*                                                                         *)
(* A file is a row in PostgreSQL and a blob in a store of its own, and no   *)
(* transaction covers both.  A handler is a task whose awaits are separate  *)
(* steps; any of them may be the last one it takes.                         *)
(*                                                                         *)
(* softDelete and restore read the record before they write it by id; what  *)
(* they write depends on nothing they read, so each is one step here.       *)
(***************************************************************************)
EXTENDS Naturals

CONSTANTS
  Assets,    \* records with documents, created without any
  Tickets,   \* records with attachments, created with their first ones
  Files,     \* storage keys: each is random and used for one upload
  Agents,    \* requests that upload or erase, in progress at once
  Admins,    \* requests that purge by hand, in progress at once
  Jobs,      \* runs of the purge job that can be in progress at once
  MaxFaults, \* bound: failed storage calls, failed statements and crashes
  None

ASSUME BinAssumption ==
  /\ Assets \intersect Tickets = {}
  /\ (Agents \union Admins) \intersect Jobs = {}
  /\ None \notin Assets \union Tickets
  /\ MaxFaults \in Nat

Records == Assets \union Tickets
Tasks   == Agents \union Admins \union Jobs

VARIABLES
  place,    \* where each record is
  expired,  \* the binned records whose deletedAt is past the retention window
  key,      \* the record each storage key was built for
  rows,     \* the keys that a TicketAttachment or AssetDocument row holds
  blobs,    \* the keys that the blob store holds
  task,     \* what each handler is about to do
  faults,   \* faults so far
  doomed,   \* observer: the records that each task is removing: the one it purges by
            \* hand, or all that its sweep has listed, until it ends
  lost,     \* observer: listed files without a blob whose record a removal left behind,
            \* as it failed or found the record restored, or binned anew, at its end
  met       \* observer: records that an upload and a purge worked on at once

vars == <<place, expired, key, rows, blobs, task, faults, doomed, lost, met>>

Task == [op : {"idle", "create", "upload", "erase", "purge", "assets", "tickets"},
         record  : Records \union {None}, \* the record it works on
         todo    : SUBSET Files,          \* blobs it has still to put, or to delete
         put     : SUBSET Files,          \* blobs it has put and not yet recorded
         records : SUBSET Records]        \* records a sweep has still to visit

Idle == [op |-> "idle", record |-> None, todo |-> {}, put |-> {}, records |-> {}]

TypeOK ==
  /\ place \in [Records -> {"absent", "live", "bin", "gone"}]
  /\ expired \subseteq {r \in Records : place[r] = "bin"}
  /\ key \in [Files -> Records \union {None}]
  /\ rows \subseteq {f \in Files : key[f] # None}
  /\ blobs \subseteq {f \in Files : key[f] # None}
  /\ task \in [Tasks -> Task]
  /\ faults \in 0..MaxFaults
  /\ doomed \in [Tasks -> SUBSET Records]
  /\ lost \subseteq Files /\ met \subseteq Records

Init ==
  /\ place = [r \in Records |-> IF r \in Assets THEN "live" ELSE "absent"]
  /\ expired = {} /\ rows = {} /\ blobs = {}
  /\ key = [f \in Files |-> None]
  /\ task = [t \in Tasks |-> Idle]
  /\ doomed = [t \in Tasks |-> {}]
  /\ faults = 0 /\ lost = {} /\ met = {}

-----------------------------------------------------------------------------
Exists(r)  == place[r] \in {"live", "bin"}

\* Mutant: the listing is not restricted to the record.
FilesOfAll(r) == rows

FilesOf(r) == {f \in rows : key[f] = r}

Begin(t, s)  == task[t] = Idle /\ task' = [task EXCEPT ![t] = s]
Become(t, s) == task' = [task EXCEPT ![t] = s]

\* Where the job looks: isDeleted and deletedAt at or before the cutoff.
Stale(r) == place[r] = "bin" /\ r \in expired

Uploads(t, r) == task[t].op = "upload" /\ task[t].record = r
Removes(t, r) == task[t].op = "purge" /\ task[t].record = r

Sweeps(t) == task[t].op \in {"assets", "tickets"}

\* A removal is over, and a listed record it has not removed keeps its rows: it
\* was cut short, or its transaction no longer finds the record past the window.
LeavesBehind(t, r) ==
  /\ r \in doomed[t] /\ task'[t] = Idle
  /\ faults' # faults \/ (Sweeps(t) /\ ~Stale(r))

\* Every action notes what is being removed, which files a removal has left without
\* their blobs, and which records are uploaded to while they are purged by hand.
Observe ==
  /\ doomed' = [t \in Tasks |->
       {r \in Records : Removes(t, r)' \/ (Sweeps(t)' /\ r \in doomed[t] \union task'[t].records)}]
  /\ lost' = {f \in rows' \ blobs' : f \in lost \/ \E t \in Tasks : LeavesBehind(t, key[f])}
  /\ met' = met \union {r \in Records : \E t, u \in Tasks : Uploads(t, r)' /\ Removes(u, r)'}

-----------------------------------------------------------------------------
(* Uploads.                                                                 *)

\* ticketService.create: opens a transaction, and puts the blobs inside it.
Create(t, r, fs) ==
  /\ place[r] = "absent" /\ \A f \in fs : key[f] = None
  /\ \A u \in Tasks : task[u].record # r
  /\ Begin(t, [Idle EXCEPT !.op = "create", !.record = r, !.todo = fs])
  /\ key' = [f \in Files |-> IF f \in fs THEN r ELSE key[f]]
  /\ UNCHANGED <<place, expired, rows, blobs, faults>>

CreatePut(t, f) ==
  /\ task[t].op = "create" /\ f \in task[t].todo
  /\ blobs' = blobs \union {f}
  /\ task' = [task EXCEPT ![t].todo = @ \ {f}, ![t].put = @ \union {f}]
  /\ UNCHANGED <<place, expired, key, rows, faults>>

\* The ticket and its attachment rows appear together.
CreateCommit(t) ==
  /\ task[t].op = "create" /\ task[t].todo = {}
  /\ place' = [place EXCEPT ![task[t].record] = "live"]
  /\ rows' = rows \union task[t].put
  /\ Become(t, Idle)
  /\ UNCHANGED <<expired, key, blobs, faults>>

\* addAttachments (after findOwnershipFacts in the action) and addDocument.
Upload(t, r, fs) ==
  /\ place[r] = "live" /\ fs # {} /\ \A f \in fs : key[f] = None
  /\ Begin(t, [Idle EXCEPT !.op = "upload", !.record = r, !.todo = fs])
  /\ key' = [f \in Files |-> IF f \in fs THEN r ELSE key[f]]
  /\ UNCHANGED <<place, expired, rows, blobs, faults>>

UploadPut(t, f) ==
  /\ task[t].op = "upload" /\ task[t].put = {} /\ f \in task[t].todo
  /\ blobs' = blobs \union {f}
  /\ task' = [task EXCEPT ![t].todo = @ \ {f}, ![t].put = {f}]
  /\ UNCHANGED <<place, expired, key, rows, faults>>

\* The row of the blob just put.  A record that is gone refuses the row, by
\* its foreign key, and the handler ends there; a binned one takes it.
UploadRow(t) ==
  /\ task[t].op = "upload" /\ task[t].put # {}
  /\ IF Exists(task[t].record)
     THEN /\ rows' = rows \union task[t].put
          /\ Become(t, IF task[t].todo = {} THEN Idle ELSE [task[t] EXCEPT !.put = {}])
     ELSE Become(t, Idle) /\ UNCHANGED rows
  /\ UNCHANGED <<place, expired, key, blobs, faults>>

-----------------------------------------------------------------------------
(* Removals.                                                                *)

\* deleteAttachment and deleteDocument: the row, and then the blob.
Erase(t, f) ==
  /\ f \in rows
  /\ rows' = rows \ {f}
  /\ Begin(t, [Idle EXCEPT !.op = "erase", !.todo = {f}])
  /\ UNCHANGED <<place, expired, key, blobs, faults>>

\* What is left of task t once it is done with the blob of f.
Without(t, f) ==
  IF task[t].op = "erase" THEN Idle ELSE [task[t] EXCEPT !.todo = @ \ {f}]

\* storage().delete succeeds also when there is no such blob.
Unlink(t, f) ==
  /\ task[t].op \in {"erase", "purge", "assets", "tickets"} /\ f \in task[t].todo
  /\ blobs' = blobs \ {f}
  /\ Become(t, Without(t, f))
  /\ UNCHANGED <<place, expired, key, rows, faults>>

\* .catch(() => undefined): the caller goes on as if the blob were gone.
UnlinkFails(t, f) ==
  /\ task[t].op \in {"erase", "purge", "assets", "tickets"} /\ f \in task[t].todo
  /\ faults < MaxFaults /\ faults' = faults + 1
  /\ Become(t, Without(t, f))
  /\ UNCHANGED <<place, expired, key, rows, blobs>>

\* softDelete: a ticket is binned again, and stamped anew, when it is already.
SoftDelete(r) ==
  /\ place[r] = "live" \/ (r \in Tickets /\ place[r] = "bin")
  /\ place' = [place EXCEPT ![r] = "bin"]
  /\ expired' = expired \ {r}
  /\ UNCHANGED <<key, rows, blobs, task, faults>>

\* Mutant: restoring leaves the date of the deletion in place.
RestoreKeepsDate(r) ==
  /\ place[r] = "bin"
  /\ place' = [place EXCEPT ![r] = "live"]
  /\ UNCHANGED <<expired, key, rows, blobs, task, faults>>

Restore(r) ==
  /\ place[r] = "bin"
  /\ place' = [place EXCEPT ![r] = "live"]
  /\ expired' = expired \ {r}
  /\ UNCHANGED <<key, rows, blobs, task, faults>>

\* The retention window passes.  It is days long and a handler takes seconds.
Age(r) ==
  /\ place[r] = "bin" /\ r \notin expired
  /\ \A t \in Tasks : task[t] = Idle
  /\ expired' = expired \union {r}
  /\ UNCHANGED <<place, key, rows, blobs, task, faults>>

\* purge(): lists the files of the record, wherever the record now is.
Purge(t, r) ==
  /\ Exists(r)
  /\ Begin(t, [Idle EXCEPT !.op = "purge", !.record = r, !.todo = FilesOf(r)])
  /\ UNCHANGED <<place, expired, key, rows, blobs, faults>>

\* Deletes records and, by cascade, their file rows.
Drop(rs) ==
  /\ place' = [r \in Records |-> IF r \in rs THEN "gone" ELSE place[r]]
  /\ expired' = expired \ rs
  /\ rows' = {f \in rows : key[f] \notin rs}

PurgeDrop(t) ==
  /\ task[t].op = "purge" /\ task[t].todo = {}
  /\ Drop({task[t].record} \intersect {r \in Records : Exists(r)})
  /\ Become(t, Idle)
  /\ UNCHANGED <<key, blobs, faults>>

\* purgeExpired(): the assets past the window, ...
SweepAssets(t) ==
  LET stale == {r \in Assets : Stale(r)} IN
  /\ Begin(t, [Idle EXCEPT !.op = "assets", !.records = stale])
  /\ UNCHANGED <<place, expired, key, rows, blobs, faults>>

\* ... one after the other, each with the files it has by then, ...
SweepVisit(t, r) ==
  /\ task[t].todo = {} /\ r \in task[t].records
  /\ Become(t, [task[t] EXCEPT !.records = @ \ {r}, !.todo = FilesOf(r)])
  /\ UNCHANGED <<place, expired, key, rows, blobs, faults>>

\* Mutant: tickets are left to the transaction.
SweepTicketsUnlisted(t) ==
  /\ task[t].op = "assets" /\ task[t].records = {} /\ task[t].todo = {}
  /\ Become(t, [task[t] EXCEPT !.op = "tickets"])
  /\ UNCHANGED <<place, expired, key, rows, blobs, faults>>

\* ... then the tickets likewise, ...
SweepTickets(t) ==
  LET stale == {r \in Tickets : Stale(r)} IN
  /\ task[t].op = "assets" /\ task[t].records = {} /\ task[t].todo = {}
  /\ Become(t, [task[t] EXCEPT !.op = "tickets", !.records = stale])
  /\ UNCHANGED <<place, expired, key, rows, blobs, faults>>

SweepDropWhere(t, rs) ==
  /\ task[t].op = "tickets" /\ task[t].records = {} /\ task[t].todo = {}
  /\ Drop(rs)
  /\ Become(t, Idle)
  /\ UNCHANGED <<key, blobs, faults>>

\* Mutants: the transaction forgets the cutoff; it forgets the tickets.
SweepDropBinned(t) == SweepDropWhere(t, {r \in Records : place[r] = "bin"})
SweepDropAssets(t) == SweepDropWhere(t, {r \in Assets : Stale(r)})

\* ... then one transaction deletes what is past the window at that moment.
SweepDrop(t) == SweepDropWhere(t, {r \in Records : Stale(r)})

\* A put, a statement or a transaction fails, or the process dies.
Fail(t) ==
  /\ task[t] # Idle /\ faults < MaxFaults
  /\ faults' = faults + 1
  /\ Become(t, Idle)
  /\ UNCHANGED <<place, expired, key, rows, blobs>>

-----------------------------------------------------------------------------
Step(t) ==
  \/ \E f \in Files : CreatePut(t, f) \/ UploadPut(t, f) \/ Unlink(t, f)
  \/ CreateCommit(t) \/ UploadRow(t) \/ PurgeDrop(t)
  \/ \E r \in Records : SweepVisit(t, r)
  \/ SweepTickets(t) \/ SweepDrop(t)

Ask(t) ==
  \/ \E r \in Tickets, fs \in SUBSET Files : Create(t, r, fs)
  \/ \E r \in Records, fs \in SUBSET Files : Upload(t, r, fs)
  \/ \E f \in Files : Erase(t, f)

Faulty(t) == Fail(t) \/ \E f \in Files : UnlinkFails(t, f)

Next ==
  /\ \/ \E t \in Agents : Ask(t)
     \/ \E t \in Admins, r \in Records : Purge(t, r)
     \/ \E t \in Jobs : SweepAssets(t)
     \/ \E t \in Tasks : Step(t) \/ Faulty(t)
     \/ \E r \in Records : SoftDelete(r) \/ Restore(r) \/ Age(r)
  /\ Observe

Spec == Init /\ [][Next]_vars

\* A handler that nothing stops goes on; the scheduler calls the job for ever.
FairSpec ==
  /\ Spec
  /\ \A t \in Tasks : WF_vars(Step(t) /\ Observe)
  /\ \A t \in Jobs : WF_vars(SweepAssets(t) /\ Observe)

-----------------------------------------------------------------------------
(* Correctness.                                                             *)

InHand(f) == \E t \in Tasks : f \in task[t].todo \union task[t].put

BeingRemoved(r) == \E t \in Tasks : r \in doomed[t]

\* A row whose blob is missing belongs to a record that a purge or a sweep is removing
\* at this moment, or is in lost.  So uploads, deletions of single files and a stay in
\* the bin cost a record none of its files, whatever fails; and a removal does in two
\* cases only, against which the code does nothing and in which the files are lost for
\* good: it is cut short by a failure, or the record is restored (or binned anew)
\* under a sweep that has listed it.
FilesOutliveTheBin ==
  \A f \in rows : f \in blobs \/ BeingRemoved(key[f]) \/ f \in lost

\* A file that can be listed can be opened, but for those two cases and for a record
\* being removed; and rows and tasks are what they should be.
FilesSafe == TypeOK /\ FilesOutliveTheBin

\* Unless a call failed, a blob no row accounts for is in some handler's hands,
\* or was uploaded to its record while that was being purged by hand.  The
\* sweep's own interleavings leave no blob behind.
NoLeakUnlessFaultOrRace ==
  faults = 0 =>
    \A f \in blobs : f \in rows \/ InHand(f) \/ key[f] \in met

\* A record disappears only if it is past the window in the bin when it does,
\* or a purge by hand names it: a restore that comes between the sweep's
\* reading and its transaction saves the record.
SweepSparesTheRestored ==
  [][\A r \in Records :
       place[r] # "gone" /\ place'[r] = "gone" =>
         Stale(r) \/ \E t \in Admins : Removes(t, r)]_vars

\* The job catches up: a record past the window leaves the bin, in the end.
ExpiredLeaves ==
  \A r \in Records : Stale(r) ~> ~Stale(r)

\* recyclebin.service.ts:13-19: "the row goes, and so do the blobs behind its
\* attachments", where a blob still there is a file orphaned in storage.
PurgeTakesBlobs ==
  [][\A f \in rows : place[key[f]] # "gone" /\ place'[key[f]] = "gone" => f \notin blobs]_vars
=============================================================================
