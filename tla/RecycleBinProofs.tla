-------------------------- MODULE RecycleBinProofs --------------------------
(***************************************************************************)
(* Machine-checked proofs about RecycleBin, for any sets of records, files, *)
(* requests and jobs and any number of faults.                              *)
(***************************************************************************)
EXTENDS RecycleBin, TLAPS

Writes(t) == task[t].op \in {"create", "upload"}
Holds(t, f) == f \in task[t].todo \/ f \in task[t].put

\* What a task of each kind has: only uploads put blobs, only sweeps visit records,
\* only administrators purge by hand, and a deletion takes one file at a time.
Shapes ==
  \A t \in Tasks :
    /\ Writes(t) \/ task[t].op = "purge" => task[t].record \in Records
    /\ ~Writes(t) => task[t].put = {}
    /\ ~Sweeps(t) => task[t].records = {}
    /\ task[t].op = "purge" => t \in Admins
    /\ task[t].op = "erase" => \A f, g \in task[t].todo : f = g

\* A ticket that is being created is not there yet, and nobody else works on it.
CreatesAlone ==
  \A t \in Tasks : task[t].op = "create" =>
    /\ place[task[t].record] = "absent"
    /\ \A u \in Tasks : task[u].record = task[t].record => u = t

\* A file in any handler's hands was given its key.
HeldAreKeyed == \A t \in Tasks, f \in Files : Holds(t, f) => key[f] # None

\* Until it is recorded, a file belongs to the one upload that was given its key.
OneHand ==
  \A t \in Tasks, f \in Files : Writes(t) /\ Holds(t, f) =>
    /\ key[f] = task[t].record /\ f \notin rows
    /\ f \in task[t].todo => f \notin task[t].put
    /\ \A u \in Tasks : Holds(u, f) => u = t

\* A blob that was put stays until its row is written.
PutsStay == \A t \in Tasks : Writes(t) => task[t].put \subseteq blobs

\* Every listed file belongs to a record that is there, since it goes with it.
RowsBelong == \A f \in rows : key[f] \in Records /\ Exists(key[f])

\* Deletions work on files without a row; purges and sweeps on those of the records
\* that they are removing, and nobody else removes any.
RemovalsMeant ==
  \A t \in Tasks :
    /\ task[t].op = "erase" => \A f \in task[t].todo : f \notin rows
    /\ task[t].op = "purge" =>
         task[t].record \in doomed[t] /\ \A f \in task[t].todo : key[f] = task[t].record
    /\ Sweeps(t) =>
         task[t].records \subseteq doomed[t] /\ \A f \in task[t].todo : key[f] \in doomed[t]
    /\ \A r \in doomed[t] : Removes(t, r) \/ Sweeps(t)

\* Observe misses no meeting.
Met == \A t, u \in Tasks, r \in Records : Uploads(t, r) /\ Removes(u, r) => r \in met

\* Nobody uploads to a record past its window, since the window outlasts every handler.
NoUploadToExpired ==
  \A t \in Tasks : Writes(t) => task[t].record \notin expired

\* A record that is gone from under an upload met a purge by hand.
GoneWasMet ==
  \A t \in Tasks : task[t].op = "upload" =>
    Exists(task[t].record) \/ task[t].record \in met

\* A purge has in hand what blobs its record still has, if nothing is added to it.
PurgeLists ==
  faults = 0 => \A t \in Tasks, f \in rows :
    task[t].op = "purge" /\ key[f] = task[t].record /\ f \in blobs =>
      f \in task[t].todo \/ key[f] \in met

\* A sweep has in hand what blobs are left of the records that it is done visiting.
SweepLists ==
  faults = 0 => \A t \in Tasks, f \in rows :
    Sweeps(t) /\ Stale(key[f]) /\ (key[f] \in Assets \/ task[t].op = "tickets") /\ f \in blobs =>
      f \in task[t].todo \/ key[f] \in task[t].records

BinInv ==
  /\ TypeOK
  /\ Shapes
  /\ CreatesAlone
  /\ HeldAreKeyed
  /\ OneHand
  /\ PutsStay
  /\ RowsBelong
  /\ RemovalsMeant
  /\ Met
  /\ NoUploadToExpired
  /\ GoneWasMet
  /\ PurgeLists
  /\ SweepLists
  /\ FilesOutliveTheBin
  /\ NoLeakUnlessFaultOrRace
-----------------------------------------------------------------------------
\* A step of task t leaves every other task as it was.
LEMMA Became ==
  ASSUME NEW t \in Tasks, NEW s, TypeOK, Become(t, s)
  PROVE  task'[t] = s /\ \A u \in Tasks : u # t => task'[u] = task[u]
  BY DEF Become, TypeOK

\* The effect of the steps whose new state of the task has several new fields: a visit,
LEMMA Visited ==
  ASSUME NEW t \in Tasks, NEW r \in Records, TypeOK, SweepVisit(t, r)
  PROVE  /\ task[t].todo = {} /\ r \in task[t].records
         /\ \A u \in Tasks : u # t => task'[u] = task[u]
         /\ task'[t].op = task[t].op /\ task'[t].record = task[t].record
         /\ task'[t].put = task[t].put
         /\ task'[t].todo = FilesOf(r)
         /\ task'[t].records = task[t].records \ {r}
         /\ UNCHANGED <<place, expired, key, rows, blobs, faults>>
<1>1. /\ task'[t] = [task[t] EXCEPT !.records = @ \ {r}, !.todo = FilesOf(r)]
      /\ \A u \in Tasks : u # t => task'[u] = task[u]
  BY Became DEF SweepVisit
<1>2. task[t] \in Task
  BY DEF TypeOK
<1> QED
  BY <1>1, <1>2 DEF Task, SweepVisit

\* the listing of the stale tickets,
LEMMA TicketsListed ==
  ASSUME NEW t \in Tasks, TypeOK, SweepTickets(t)
  PROVE  /\ task[t].op = "assets" /\ task[t].todo = {} /\ task[t].records = {}
         /\ \A u \in Tasks : u # t => task'[u] = task[u]
         /\ task'[t].op = "tickets" /\ task'[t].record = task[t].record
         /\ task'[t].put = task[t].put /\ task'[t].todo = {}
         /\ task'[t].records = {r \in Tickets : Stale(r)}
         /\ UNCHANGED <<place, expired, key, rows, blobs, faults>>
<1> DEFINE stale == {r \in Tickets : Stale(r)}
<1>1. /\ task'[t] = [task[t] EXCEPT !.op = "tickets", !.records = stale]
      /\ \A u \in Tasks : u # t => task'[u] = task[u]
  BY Became DEF SweepTickets
<1>2. task[t] \in Task
  BY DEF TypeOK
<1>3. /\ task'[t].op = "tickets" /\ task'[t].record = task[t].record
      /\ task'[t].put = task[t].put /\ task'[t].todo = task[t].todo
      /\ task'[t].records = stale
  <2> HIDE DEF stale
  <2> QED
    BY <1>1, <1>2 DEF Task
<1> QED
  BY <1>1, <1>3 DEF SweepTickets

\* the listing of the stale assets,
LEMMA AssetsListed ==
  ASSUME NEW t \in Tasks, TypeOK, SweepAssets(t)
  PROVE  /\ task[t] = Idle
         /\ \A u \in Tasks : u # t => task'[u] = task[u]
         /\ task'[t].op = "assets" /\ task'[t].record = None
         /\ task'[t].put = {} /\ task'[t].todo = {}
         /\ task'[t].records = {r \in Assets : Stale(r)}
         /\ UNCHANGED <<place, expired, key, rows, blobs, faults>>
<1> DEFINE stale == {r \in Assets : Stale(r)}
<1>1. /\ task[t] = Idle /\ task'[t] = [Idle EXCEPT !.op = "assets", !.records = stale]
      /\ \A u \in Tasks : u # t => task'[u] = task[u]
  BY Became DEF SweepAssets, Begin, Become
<1>3. /\ task'[t].op = "assets" /\ task'[t].record = None
      /\ task'[t].put = {} /\ task'[t].todo = {}
      /\ task'[t].records = stale
  <2> HIDE DEF stale
  <2> QED
    BY <1>1 DEF Idle
<1> QED
  BY <1>1, <1>3 DEF SweepAssets

\* and the listing of a record that is purged by hand.
LEMMA Purging ==
  ASSUME NEW t \in Tasks, NEW r \in Records, TypeOK, Purge(t, r)
  PROVE  /\ Exists(r) /\ task[t] = Idle
         /\ \A u \in Tasks : u # t => task'[u] = task[u]
         /\ task'[t].op = "purge" /\ task'[t].record = r
         /\ task'[t].put = {} /\ task'[t].todo = FilesOf(r) /\ task'[t].records = {}
         /\ UNCHANGED <<place, expired, key, rows, blobs, faults>>
<1>1. /\ task[t] = Idle
      /\ task'[t] = [Idle EXCEPT !.op = "purge", !.record = r, !.todo = FilesOf(r)]
      /\ \A u \in Tasks : u # t => task'[u] = task[u]
  BY Became DEF Purge, Begin, Become
<1> QED
  BY <1>1 DEF Purge, Idle

-----------------------------------------------------------------------------
\* An empty bin satisfies every part of the invariant.
LEMMA InitEstablishes == Init => BinInv
<1> SUFFICES ASSUME Init
             PROVE  BinInv
  OBVIOUS
<1> USE BinAssumption DEF Init, Idle
<1>1. TypeOK
  BY DEF TypeOK, Task, Records, Tasks
<1>2. Shapes /\ CreatesAlone /\ HeldAreKeyed /\ OneHand /\ PutsStay /\ RowsBelong
  BY DEF RowsBelong, Shapes, CreatesAlone, HeldAreKeyed, OneHand, PutsStay, Holds, Writes, Sweeps
<1>3. RemovalsMeant /\ Met /\ NoUploadToExpired /\ GoneWasMet
  BY DEF RemovalsMeant, Met, Uploads, Removes, NoUploadToExpired, GoneWasMet, Writes, Sweeps
<1>4. PurgeLists /\ SweepLists /\ FilesOutliveTheBin /\ NoLeakUnlessFaultOrRace
  BY DEF PurgeLists, SweepLists, FilesOutliveTheBin, NoLeakUnlessFaultOrRace
<1> QED
  BY <1>1, <1>2, <1>3, <1>4 DEF BinInv

\* The parts of TypeOK that a step may disturb.
PlacesOK ==
  /\ place \in [Records -> {"absent", "live", "bin", "gone"}]
  /\ expired \subseteq {r \in Records : place[r] = "bin"}

FilesOK ==
  /\ key \in [Files -> Records \union {None}]
  /\ rows \union blobs \subseteq {f \in Files : key[f] # None}

\* Only records in the bin are past its window: a record leaves both together, and one
\* that is created was in neither.
LEMMA PlacesTyped == BinInv /\ [Next]_vars => PlacesOK'
<1> SUFFICES ASSUME BinInv, [Next]_vars
             PROVE  PlacesOK'
  OBVIOUS
<1> USE BinAssumption
  DEF BinInv, PlacesOK, TypeOK, Tasks, Records, Exists, CreatesAlone, Stale, Shapes,
      Writes
<1>1. CASE UNCHANGED vars
  BY <1>1 DEF vars
<1>2. ASSUME NEW t \in Agents, NEW r \in Tickets, NEW fs \in SUBSET Files, Create(t, r, fs)
      PROVE  PlacesOK'
  BY <1>2 DEF Create, Begin, Idle
<1>3. ASSUME NEW t \in Agents, NEW r \in Records, NEW fs \in SUBSET Files, Upload(t, r, fs)
      PROVE  PlacesOK'
  BY <1>3 DEF Upload, Begin, Idle
<1>4. ASSUME NEW t \in Agents, NEW f \in Files, Erase(t, f)
      PROVE  PlacesOK'
  BY <1>4 DEF Erase, Begin, Idle
<1>5. ASSUME NEW t \in Admins, NEW r \in Records, Purge(t, r)
      PROVE  PlacesOK'
  BY <1>5, Purging DEF Idle, FilesOf
<1>6. ASSUME NEW t \in Jobs, SweepAssets(t)
      PROVE  PlacesOK'
  BY <1>6, AssetsListed DEF Idle
<1>7. ASSUME NEW t \in Tasks, NEW f \in Files, CreatePut(t, f)
      PROVE  PlacesOK'
  BY <1>7 DEF CreatePut
<1>8. ASSUME NEW t \in Tasks, NEW f \in Files, UploadPut(t, f)
      PROVE  PlacesOK'
  BY <1>8 DEF UploadPut
<1>9. ASSUME NEW t \in Tasks, NEW f \in Files, Unlink(t, f)
      PROVE  PlacesOK'
  BY <1>9 DEF Unlink, Become, Without, Idle
<1>10. ASSUME NEW t \in Tasks, NEW f \in Files, UnlinkFails(t, f)
      PROVE  PlacesOK'
  BY <1>10 DEF UnlinkFails, Become, Without, Idle
<1>11. ASSUME NEW t \in Tasks, CreateCommit(t)
      PROVE  PlacesOK'
  BY <1>11 DEF CreateCommit, Become, Idle
<1>12. ASSUME NEW t \in Tasks, UploadRow(t)
      PROVE  PlacesOK'
  BY <1>12 DEF UploadRow, Become, Idle
<1>13. ASSUME NEW t \in Tasks, PurgeDrop(t)
      PROVE  PlacesOK'
  BY <1>13 DEF PurgeDrop, Drop, Become, Idle
<1>14. ASSUME NEW t \in Tasks, NEW r \in Records, SweepVisit(t, r)
      PROVE  PlacesOK'
  BY <1>14, Visited DEF FilesOf
<1>15. ASSUME NEW t \in Tasks, SweepTickets(t)
      PROVE  PlacesOK'
  BY <1>15, TicketsListed
<1>16. ASSUME NEW t \in Tasks, SweepDrop(t)
      PROVE  PlacesOK'
  BY <1>16 DEF SweepDrop, SweepDropWhere, Drop, Become, Idle
<1>17. ASSUME NEW t \in Tasks, Fail(t)
      PROVE  PlacesOK'
  BY <1>17 DEF Fail, Become, Idle
<1>18. ASSUME NEW r \in Records, SoftDelete(r) \/ Restore(r) \/ Age(r)
      PROVE  PlacesOK'
  BY <1>18 DEF SoftDelete, Restore, Age, Idle
<1> QED
  BY <1>1, <1>2, <1>3, <1>4, <1>5, <1>6, <1>7, <1>8, <1>9,
     <1>10, <1>11, <1>12, <1>13, <1>14, <1>15, <1>16, <1>17, <1>18
  DEF Next, Step, Ask, Faulty

\* Rows and blobs have keys that were given out.
LEMMA FilesTyped == BinInv /\ [Next]_vars => FilesOK'
<1> SUFFICES ASSUME BinInv, [Next]_vars
             PROVE  FilesOK'
  OBVIOUS
<1> USE BinAssumption DEF BinInv, FilesOK, TypeOK, Records, Task, HeldAreKeyed, Holds, Tasks
<1>1. CASE UNCHANGED vars
  BY <1>1 DEF vars
<1>2. ASSUME NEW t \in Agents, NEW r \in Tickets, NEW fs \in SUBSET Files, Create(t, r, fs)
      PROVE  FilesOK'
  BY <1>2 DEF Create, Begin, Idle
<1>3. ASSUME NEW t \in Agents, NEW r \in Records, NEW fs \in SUBSET Files, Upload(t, r, fs)
      PROVE  FilesOK'
  BY <1>3 DEF Upload, Begin, Idle
<1>4. ASSUME NEW t \in Agents, NEW f \in Files, Erase(t, f)
      PROVE  FilesOK'
  BY <1>4 DEF Erase, Begin, Idle
<1>5. ASSUME NEW t \in Admins, NEW r \in Records, Purge(t, r)
      PROVE  FilesOK'
  BY <1>5, Purging DEF Idle, FilesOf
<1>6. ASSUME NEW t \in Jobs, SweepAssets(t)
      PROVE  FilesOK'
  BY <1>6, AssetsListed DEF Idle
<1>7. ASSUME NEW t \in Tasks, NEW f \in Files, CreatePut(t, f)
      PROVE  FilesOK'
  BY <1>7 DEF CreatePut
<1>8. ASSUME NEW t \in Tasks, NEW f \in Files, UploadPut(t, f)
      PROVE  FilesOK'
  BY <1>8 DEF UploadPut
<1>9. ASSUME NEW t \in Tasks, NEW f \in Files, Unlink(t, f)
      PROVE  FilesOK'
  BY <1>9 DEF Unlink, Become, Without, Idle
<1>10. ASSUME NEW t \in Tasks, NEW f \in Files, UnlinkFails(t, f)
      PROVE  FilesOK'
  BY <1>10 DEF UnlinkFails, Become, Without, Idle
<1>11. ASSUME NEW t \in Tasks, CreateCommit(t)
      PROVE  FilesOK'
  BY <1>11 DEF CreateCommit, Become, Idle
<1>12. ASSUME NEW t \in Tasks, UploadRow(t)
      PROVE  FilesOK'
  BY <1>12 DEF UploadRow, Become, Idle
<1>13. ASSUME NEW t \in Tasks, PurgeDrop(t)
      PROVE  FilesOK'
  BY <1>13 DEF PurgeDrop, Drop, Become, Idle
<1>14. ASSUME NEW t \in Tasks, NEW r \in Records, SweepVisit(t, r)
      PROVE  FilesOK'
  BY <1>14, Visited DEF FilesOf
<1>15. ASSUME NEW t \in Tasks, SweepTickets(t)
      PROVE  FilesOK'
  BY <1>15, TicketsListed
<1>16. ASSUME NEW t \in Tasks, SweepDrop(t)
      PROVE  FilesOK'
  BY <1>16 DEF SweepDrop, SweepDropWhere, Drop, Become, Idle
<1>17. ASSUME NEW t \in Tasks, Fail(t)
      PROVE  FilesOK'
  BY <1>17 DEF Fail, Become, Idle
<1>18. ASSUME NEW r \in Records, SoftDelete(r) \/ Restore(r) \/ Age(r)
      PROVE  FilesOK'
  BY <1>18 DEF SoftDelete, Restore, Age, Idle
<1> QED
  BY <1>1, <1>2, <1>3, <1>4, <1>5, <1>6, <1>7, <1>8, <1>9,
     <1>10, <1>11, <1>12, <1>13, <1>14, <1>15, <1>16, <1>17, <1>18
  DEF Next, Step, Ask, Faulty

\* Tasks are tasks.
LEMMA TasksTyped == BinInv /\ [Next]_vars => task' \in [Tasks -> Task]
<1> SUFFICES ASSUME BinInv, [Next]_vars
             PROVE  task' \in [Tasks -> Task]
  OBVIOUS
<1> USE BinAssumption DEF BinInv, TypeOK, Task, Tasks, Records
<1>1. CASE UNCHANGED vars
  BY <1>1 DEF vars
<1>2. ASSUME NEW t \in Agents, NEW r \in Tickets, NEW fs \in SUBSET Files, Create(t, r, fs)
      PROVE  task' \in [Tasks -> Task]
  BY <1>2 DEF Create, Begin, Idle
<1>3. ASSUME NEW t \in Agents, NEW r \in Records, NEW fs \in SUBSET Files, Upload(t, r, fs)
      PROVE  task' \in [Tasks -> Task]
  BY <1>3 DEF Upload, Begin, Idle
<1>4. ASSUME NEW t \in Agents, NEW f \in Files, Erase(t, f)
      PROVE  task' \in [Tasks -> Task]
  BY <1>4 DEF Erase, Begin, Idle
<1>5. ASSUME NEW t \in Admins, NEW r \in Records, Purge(t, r)
      PROVE  task' \in [Tasks -> Task]
  BY <1>5 DEF Purge, Begin, Idle, FilesOf
<1>6. ASSUME NEW t \in Jobs, SweepAssets(t)
      PROVE  task' \in [Tasks -> Task]
  BY <1>6 DEF SweepAssets, Begin, Idle
<1>7. ASSUME NEW t \in Tasks, NEW f \in Files, CreatePut(t, f)
      PROVE  task' \in [Tasks -> Task]
  BY <1>7 DEF CreatePut
<1>8. ASSUME NEW t \in Tasks, NEW f \in Files, UploadPut(t, f)
      PROVE  task' \in [Tasks -> Task]
  BY <1>8 DEF UploadPut
<1>9. ASSUME NEW t \in Tasks, NEW f \in Files, Unlink(t, f)
      PROVE  task' \in [Tasks -> Task]
  BY <1>9 DEF Unlink, Become, Without, Idle
<1>10. ASSUME NEW t \in Tasks, NEW f \in Files, UnlinkFails(t, f)
      PROVE  task' \in [Tasks -> Task]
  BY <1>10 DEF UnlinkFails, Become, Without, Idle
<1>11. ASSUME NEW t \in Tasks, CreateCommit(t)
      PROVE  task' \in [Tasks -> Task]
  BY <1>11 DEF CreateCommit, Become, Idle
<1>12. ASSUME NEW t \in Tasks, UploadRow(t)
      PROVE  task' \in [Tasks -> Task]
  BY <1>12 DEF UploadRow, Become, Idle
<1>13. ASSUME NEW t \in Tasks, PurgeDrop(t)
      PROVE  task' \in [Tasks -> Task]
  BY <1>13 DEF PurgeDrop, Drop, Become, Idle
<1>14. ASSUME NEW t \in Tasks, NEW r \in Records, SweepVisit(t, r)
      PROVE  task' \in [Tasks -> Task]
  <2>1. task[t] \in Task /\ FilesOf(r) \subseteq Files
    BY DEF FilesOf
  <2>2. task' = [task EXCEPT ![t] = [task[t] EXCEPT !.records = @ \ {r}, !.todo = FilesOf(r)]]
    BY <1>14 DEF SweepVisit, Become
  <2>3. [task[t] EXCEPT !.records = @ \ {r}, !.todo = FilesOf(r)] \in Task
    BY <2>1
  <2> QED
    BY <2>2, <2>3
<1>15. ASSUME NEW t \in Tasks, SweepTickets(t)
      PROVE  task' \in [Tasks -> Task]
  <2> DEFINE stale == {r \in Tickets : Stale(r)}
  <2>1. task' = [task EXCEPT ![t] = [task[t] EXCEPT !.op = "tickets", !.records = stale]]
    BY <1>15 DEF SweepTickets, Become
  <2>2. stale \subseteq Records /\ task[t] \in Task
    OBVIOUS
  <2> HIDE DEF stale
  <2>3. [task[t] EXCEPT !.op = "tickets", !.records = stale] \in Task
    BY <2>2
  <2> QED
    BY <2>1, <2>3
<1>16. ASSUME NEW t \in Tasks, SweepDrop(t)
      PROVE  task' \in [Tasks -> Task]
  BY <1>16 DEF SweepDrop, SweepDropWhere, Drop, Become, Idle
<1>17. ASSUME NEW t \in Tasks, Fail(t)
      PROVE  task' \in [Tasks -> Task]
  BY <1>17 DEF Fail, Become, Idle
<1>18. ASSUME NEW r \in Records, SoftDelete(r) \/ Restore(r) \/ Age(r)
      PROVE  task' \in [Tasks -> Task]
  BY <1>18 DEF SoftDelete, Restore, Age, Idle
<1> QED
  BY <1>1, <1>2, <1>3, <1>4, <1>5, <1>6, <1>7, <1>8, <1>9,
     <1>10, <1>11, <1>12, <1>13, <1>14, <1>15, <1>16, <1>17, <1>18
  DEF Next, Step, Ask, Faulty

\* Faults stay within their bound.
LEMMA FaultsTyped == BinInv /\ [Next]_vars => faults' \in 0..MaxFaults
<1> SUFFICES ASSUME BinInv, [Next]_vars
             PROVE  faults' \in 0..MaxFaults
  OBVIOUS
<1> USE BinAssumption DEF BinInv, TypeOK, Tasks, Records
<1>1. CASE UNCHANGED vars
  BY <1>1 DEF vars
<1>2. ASSUME NEW t \in Agents, NEW r \in Tickets, NEW fs \in SUBSET Files, Create(t, r, fs)
      PROVE  faults' \in 0..MaxFaults
  BY <1>2 DEF Create, Begin, Idle
<1>3. ASSUME NEW t \in Agents, NEW r \in Records, NEW fs \in SUBSET Files, Upload(t, r, fs)
      PROVE  faults' \in 0..MaxFaults
  BY <1>3 DEF Upload, Begin, Idle
<1>4. ASSUME NEW t \in Agents, NEW f \in Files, Erase(t, f)
      PROVE  faults' \in 0..MaxFaults
  BY <1>4 DEF Erase, Begin, Idle
<1>5. ASSUME NEW t \in Admins, NEW r \in Records, Purge(t, r)
      PROVE  faults' \in 0..MaxFaults
  BY <1>5, Purging DEF Idle, FilesOf
<1>6. ASSUME NEW t \in Jobs, SweepAssets(t)
      PROVE  faults' \in 0..MaxFaults
  BY <1>6, AssetsListed DEF Idle
<1>7. ASSUME NEW t \in Tasks, NEW f \in Files, CreatePut(t, f)
      PROVE  faults' \in 0..MaxFaults
  BY <1>7 DEF CreatePut
<1>8. ASSUME NEW t \in Tasks, NEW f \in Files, UploadPut(t, f)
      PROVE  faults' \in 0..MaxFaults
  BY <1>8 DEF UploadPut
<1>9. ASSUME NEW t \in Tasks, NEW f \in Files, Unlink(t, f)
      PROVE  faults' \in 0..MaxFaults
  BY <1>9 DEF Unlink, Become, Without, Idle
<1>10. ASSUME NEW t \in Tasks, NEW f \in Files, UnlinkFails(t, f)
      PROVE  faults' \in 0..MaxFaults
  BY <1>10 DEF UnlinkFails, Become, Without, Idle
<1>11. ASSUME NEW t \in Tasks, CreateCommit(t)
      PROVE  faults' \in 0..MaxFaults
  BY <1>11 DEF CreateCommit, Become, Idle
<1>12. ASSUME NEW t \in Tasks, UploadRow(t)
      PROVE  faults' \in 0..MaxFaults
  BY <1>12 DEF UploadRow, Become, Idle
<1>13. ASSUME NEW t \in Tasks, PurgeDrop(t)
      PROVE  faults' \in 0..MaxFaults
  BY <1>13 DEF PurgeDrop, Drop, Become, Idle
<1>14. ASSUME NEW t \in Tasks, NEW r \in Records, SweepVisit(t, r)
      PROVE  faults' \in 0..MaxFaults
  BY <1>14, Visited DEF FilesOf
<1>15. ASSUME NEW t \in Tasks, SweepTickets(t)
      PROVE  faults' \in 0..MaxFaults
  BY <1>15, TicketsListed
<1>16. ASSUME NEW t \in Tasks, SweepDrop(t)
      PROVE  faults' \in 0..MaxFaults
  BY <1>16 DEF SweepDrop, SweepDropWhere, Drop, Become, Idle
<1>17. ASSUME NEW t \in Tasks, Fail(t)
      PROVE  faults' \in 0..MaxFaults
  BY <1>17 DEF Fail, Become, Idle
<1>18. ASSUME NEW r \in Records, SoftDelete(r) \/ Restore(r) \/ Age(r)
      PROVE  faults' \in 0..MaxFaults
  BY <1>18 DEF SoftDelete, Restore, Age, Idle
<1> QED
  BY <1>1, <1>2, <1>3, <1>4, <1>5, <1>6, <1>7, <1>8, <1>9,
     <1>10, <1>11, <1>12, <1>13, <1>14, <1>15, <1>16, <1>17, <1>18
  DEF Next, Step, Ask, Faulty

\* The types of all of them, and of what Observe notes.
LEMMA TypeKept == BinInv /\ [Next]_vars => TypeOK'
<1> SUFFICES ASSUME BinInv, [Next]_vars
             PROVE  TypeOK'
  OBVIOUS
<1>1. doomed' \in [Tasks -> SUBSET Records] /\ met' \subseteq Records
  BY DEF BinInv, TypeOK, Next, Observe, vars
<1>2. lost' \subseteq Files
  <2>1. CASE UNCHANGED vars
    BY <2>1 DEF BinInv, TypeOK, vars
  <2>2. CASE Observe
    BY <2>2, FilesTyped DEF BinInv, TypeOK, FilesOK, Observe
  <2> QED
    BY <2>1, <2>2 DEF Next
<1> QED
  BY <1>1, <1>2, PlacesTyped, FilesTyped, TasksTyped, FaultsTyped DEF TypeOK, PlacesOK, FilesOK

\* Shapes: a task keeps the shape of its operation until it is done.
LEMMA ShapesKept == BinInv /\ TypeOK' /\ [Next]_vars => Shapes'
<1> SUFFICES ASSUME BinInv, TypeOK', [Next]_vars
             PROVE  Shapes'
  OBVIOUS
<1> USE BinAssumption
    DEF BinInv, TypeOK, Task, Tasks, Records, Exists, Writes, Sweeps, Shapes
<1>1. CASE UNCHANGED vars
  BY <1>1 DEF vars
<1>2. ASSUME NEW t \in Agents, NEW r \in Tickets, NEW fs \in SUBSET Files, Create(t, r, fs)
      PROVE  Shapes'
  BY <1>2 DEF Create, Begin, Idle
<1>3. ASSUME NEW t \in Agents, NEW r \in Records, NEW fs \in SUBSET Files, Upload(t, r, fs)
      PROVE  Shapes'
  BY <1>3 DEF Upload, Begin, Idle
<1>4. ASSUME NEW t \in Agents, NEW f \in Files, Erase(t, f)
      PROVE  Shapes'
  BY <1>4 DEF Erase, Begin, Idle
<1>5. ASSUME NEW t \in Admins, NEW r \in Records, Purge(t, r)
      PROVE  Shapes'
  BY <1>5, Purging DEF Idle, FilesOf
<1>6. ASSUME NEW t \in Jobs, SweepAssets(t)
      PROVE  Shapes'
  BY <1>6, AssetsListed DEF Idle
<1>7. ASSUME NEW t \in Tasks, NEW f \in Files, CreatePut(t, f)
      PROVE  Shapes'
  BY <1>7 DEF CreatePut
<1>8. ASSUME NEW t \in Tasks, NEW f \in Files, UploadPut(t, f)
      PROVE  Shapes'
  BY <1>8 DEF UploadPut
<1>9. ASSUME NEW t \in Tasks, NEW f \in Files, Unlink(t, f)
      PROVE  Shapes'
  BY <1>9 DEF Unlink, Become, Without, Idle
<1>10. ASSUME NEW t \in Tasks, NEW f \in Files, UnlinkFails(t, f)
      PROVE  Shapes'
  BY <1>10 DEF UnlinkFails, Become, Without, Idle
<1>11. ASSUME NEW t \in Tasks, CreateCommit(t)
      PROVE  Shapes'
  BY <1>11 DEF CreateCommit, Become, Idle
<1>12. ASSUME NEW t \in Tasks, UploadRow(t)
      PROVE  Shapes'
  BY <1>12 DEF UploadRow, Become, Idle
<1>13. ASSUME NEW t \in Tasks, PurgeDrop(t)
      PROVE  Shapes'
  BY <1>13 DEF PurgeDrop, Drop, Become, Idle
<1>14. ASSUME NEW t \in Tasks, NEW r \in Records, SweepVisit(t, r)
      PROVE  Shapes'
  BY <1>14, Visited DEF FilesOf
<1>15. ASSUME NEW t \in Tasks, SweepTickets(t)
      PROVE  Shapes'
  BY <1>15, TicketsListed
<1>16. ASSUME NEW t \in Tasks, SweepDrop(t)
      PROVE  Shapes'
  BY <1>16 DEF SweepDrop, SweepDropWhere, Drop, Become, Idle
<1>17. ASSUME NEW t \in Tasks, Fail(t)
      PROVE  Shapes'
  BY <1>17 DEF Fail, Become, Idle
<1>18. ASSUME NEW r \in Records, SoftDelete(r) \/ Restore(r) \/ Age(r)
      PROVE  Shapes'
  BY <1>18 DEF SoftDelete, Restore, Age, Idle
<1> QED
  BY <1>1, <1>2, <1>3, <1>4, <1>5, <1>6, <1>7, <1>8, <1>9,
     <1>10, <1>11, <1>12, <1>13, <1>14, <1>15, <1>16, <1>17, <1>18
  DEF Next, Step, Ask, Faulty

\* CreatesAlone: a ticket that is absent can be neither uploaded to nor purged nor
\* binned, and Create takes one that nobody else works on.
LEMMA CreatesAloneKept == BinInv /\ TypeOK' /\ [Next]_vars => CreatesAlone'
<1> SUFFICES ASSUME BinInv, TypeOK', [Next]_vars
             PROVE  CreatesAlone'
  OBVIOUS
<1> USE BinAssumption
  DEF BinInv, TypeOK, Task, Tasks, Records, Exists, Writes, Sweeps, Shapes,
      CreatesAlone, Stale
<1>1. CASE UNCHANGED vars
  BY <1>1 DEF vars
<1>2. ASSUME NEW t \in Agents, NEW r \in Tickets, NEW fs \in SUBSET Files, Create(t, r, fs)
      PROVE  CreatesAlone'
  BY <1>2 DEF Create, Begin, Idle
<1>3. ASSUME NEW t \in Agents, NEW r \in Records, NEW fs \in SUBSET Files, Upload(t, r, fs)
      PROVE  CreatesAlone'
  BY <1>3 DEF Upload, Begin, Idle
<1>4. ASSUME NEW t \in Agents, NEW f \in Files, Erase(t, f)
      PROVE  CreatesAlone'
  BY <1>4 DEF Erase, Begin, Idle
<1>5. ASSUME NEW t \in Admins, NEW r \in Records, Purge(t, r)
      PROVE  CreatesAlone'
  BY <1>5, Purging DEF Idle, FilesOf
<1>6. ASSUME NEW t \in Jobs, SweepAssets(t)
      PROVE  CreatesAlone'
  BY <1>6, AssetsListed DEF Idle
<1>7. ASSUME NEW t \in Tasks, NEW f \in Files, CreatePut(t, f)
      PROVE  CreatesAlone'
  BY <1>7 DEF CreatePut
<1>8. ASSUME NEW t \in Tasks, NEW f \in Files, UploadPut(t, f)
      PROVE  CreatesAlone'
  BY <1>8 DEF UploadPut
<1>9. ASSUME NEW t \in Tasks, NEW f \in Files, Unlink(t, f)
      PROVE  CreatesAlone'
  BY <1>9 DEF Unlink, Become, Without, Idle
<1>10. ASSUME NEW t \in Tasks, NEW f \in Files, UnlinkFails(t, f)
      PROVE  CreatesAlone'
  BY <1>10 DEF UnlinkFails, Become, Without, Idle
<1>11. ASSUME NEW t \in Tasks, CreateCommit(t)
      PROVE  CreatesAlone'
  BY <1>11 DEF CreateCommit, Become, Idle
<1>12. ASSUME NEW t \in Tasks, UploadRow(t)
      PROVE  CreatesAlone'
  BY <1>12, SMTT(30) DEF UploadRow, Become, Idle
<1>13. ASSUME NEW t \in Tasks, PurgeDrop(t)
      PROVE  CreatesAlone'
  BY <1>13 DEF PurgeDrop, Drop, Become, Idle
<1>14. ASSUME NEW t \in Tasks, NEW r \in Records, SweepVisit(t, r)
      PROVE  CreatesAlone'
  BY <1>14, Visited DEF FilesOf
<1>15. ASSUME NEW t \in Tasks, SweepTickets(t)
      PROVE  CreatesAlone'
  BY <1>15, TicketsListed
<1>16. ASSUME NEW t \in Tasks, SweepDrop(t)
      PROVE  CreatesAlone'
  BY <1>16 DEF SweepDrop, SweepDropWhere, Drop, Become, Idle
<1>17. ASSUME NEW t \in Tasks, Fail(t)
      PROVE  CreatesAlone'
  BY <1>17 DEF Fail, Become, Idle
<1>18. ASSUME NEW r \in Records, SoftDelete(r) \/ Restore(r) \/ Age(r)
      PROVE  CreatesAlone'
  BY <1>18 DEF SoftDelete, Restore, Age, Idle
<1> QED
  BY <1>1, <1>2, <1>3, <1>4, <1>5, <1>6, <1>7, <1>8, <1>9,
     <1>10, <1>11, <1>12, <1>13, <1>14, <1>15, <1>16, <1>17, <1>18
  DEF Next, Step, Ask, Faulty

\* HeldAreKeyed: handlers take up new keys as these are given out, and others from rows.
LEMMA HeldAreKeyedKept == BinInv /\ TypeOK' /\ [Next]_vars => HeldAreKeyed'
<1> SUFFICES ASSUME BinInv, TypeOK', [Next]_vars
             PROVE  HeldAreKeyed'
  OBVIOUS
<1> USE BinAssumption
  DEF BinInv, TypeOK, Task, Tasks, Records, Exists, Writes, Sweeps, Shapes,
      HeldAreKeyed, Holds
<1>1. CASE UNCHANGED vars
  BY <1>1 DEF vars
<1>2. ASSUME NEW t \in Agents, NEW r \in Tickets, NEW fs \in SUBSET Files, Create(t, r, fs)
      PROVE  HeldAreKeyed'
  BY <1>2 DEF Create, Begin, Idle
<1>3. ASSUME NEW t \in Agents, NEW r \in Records, NEW fs \in SUBSET Files, Upload(t, r, fs)
      PROVE  HeldAreKeyed'
  BY <1>3 DEF Upload, Begin, Idle
<1>4. ASSUME NEW t \in Agents, NEW f \in Files, Erase(t, f)
      PROVE  HeldAreKeyed'
  BY <1>4 DEF Erase, Begin, Idle
<1>5. ASSUME NEW t \in Admins, NEW r \in Records, Purge(t, r)
      PROVE  HeldAreKeyed'
  BY <1>5, Purging DEF Idle, FilesOf
<1>6. ASSUME NEW t \in Jobs, SweepAssets(t)
      PROVE  HeldAreKeyed'
  BY <1>6, AssetsListed DEF Idle
<1>7. ASSUME NEW t \in Tasks, NEW f \in Files, CreatePut(t, f)
      PROVE  HeldAreKeyed'
  BY <1>7 DEF CreatePut
<1>8. ASSUME NEW t \in Tasks, NEW f \in Files, UploadPut(t, f)
      PROVE  HeldAreKeyed'
  BY <1>8 DEF UploadPut
<1>9. ASSUME NEW t \in Tasks, NEW f \in Files, Unlink(t, f)
      PROVE  HeldAreKeyed'
  BY <1>9 DEF Unlink, Become, Without, Idle
<1>10. ASSUME NEW t \in Tasks, NEW f \in Files, UnlinkFails(t, f)
      PROVE  HeldAreKeyed'
  BY <1>10 DEF UnlinkFails, Become, Without, Idle
<1>11. ASSUME NEW t \in Tasks, CreateCommit(t)
      PROVE  HeldAreKeyed'
  BY <1>11 DEF CreateCommit, Become, Idle
<1>12. ASSUME NEW t \in Tasks, UploadRow(t)
      PROVE  HeldAreKeyed'
  BY <1>12 DEF UploadRow, Become, Idle
<1>13. ASSUME NEW t \in Tasks, PurgeDrop(t)
      PROVE  HeldAreKeyed'
  BY <1>13 DEF PurgeDrop, Drop, Become, Idle
<1>14. ASSUME NEW t \in Tasks, NEW r \in Records, SweepVisit(t, r)
      PROVE  HeldAreKeyed'
  BY <1>14, Visited DEF FilesOf
<1>15. ASSUME NEW t \in Tasks, SweepTickets(t)
      PROVE  HeldAreKeyed'
  BY <1>15, TicketsListed
<1>16. ASSUME NEW t \in Tasks, SweepDrop(t)
      PROVE  HeldAreKeyed'
  BY <1>16 DEF SweepDrop, SweepDropWhere, Drop, Become, Idle
<1>17. ASSUME NEW t \in Tasks, Fail(t)
      PROVE  HeldAreKeyed'
  BY <1>17 DEF Fail, Become, Idle
<1>18. ASSUME NEW r \in Records, SoftDelete(r) \/ Restore(r) \/ Age(r)
      PROVE  HeldAreKeyed'
  BY <1>18 DEF SoftDelete, Restore, Age, Idle
<1> QED
  BY <1>1, <1>2, <1>3, <1>4, <1>5, <1>6, <1>7, <1>8, <1>9,
     <1>10, <1>11, <1>12, <1>13, <1>14, <1>15, <1>16, <1>17, <1>18
  DEF Next, Step, Ask, Faulty

\* OneHand: a key is given out once, and other handlers find a file by its row.
LEMMA OneHandKept == BinInv /\ TypeOK' /\ [Next]_vars => OneHand'
<1> SUFFICES ASSUME BinInv, TypeOK', [Next]_vars
             PROVE  OneHand'
  OBVIOUS
<1> USE BinAssumption
  DEF BinInv, TypeOK, Task, Tasks, Records, Exists, Writes, Sweeps, Shapes,
      HeldAreKeyed, OneHand, Holds
<1>1. CASE UNCHANGED vars
  BY <1>1 DEF vars
<1>2. ASSUME NEW t \in Agents, NEW r \in Tickets, NEW fs \in SUBSET Files, Create(t, r, fs)
      PROVE  OneHand'
  BY <1>2 DEF Create, Begin, Idle
<1>3. ASSUME NEW t \in Agents, NEW r \in Records, NEW fs \in SUBSET Files, Upload(t, r, fs)
      PROVE  OneHand'
  BY <1>3 DEF Upload, Begin, Idle
<1>4. ASSUME NEW t \in Agents, NEW f \in Files, Erase(t, f)
      PROVE  OneHand'
  BY <1>4 DEF Erase, Begin, Idle
<1>5. ASSUME NEW t \in Admins, NEW r \in Records, Purge(t, r)
      PROVE  OneHand'
  BY <1>5, Purging, SMTT(30) DEF Idle, FilesOf
<1>6. ASSUME NEW t \in Jobs, SweepAssets(t)
      PROVE  OneHand'
  BY <1>6, AssetsListed DEF Idle
<1>7. ASSUME NEW t \in Tasks, NEW f \in Files, CreatePut(t, f)
      PROVE  OneHand'
  BY <1>7 DEF CreatePut
<1>8. ASSUME NEW t \in Tasks, NEW f \in Files, UploadPut(t, f)
      PROVE  OneHand'
  BY <1>8 DEF UploadPut
<1>9. ASSUME NEW t \in Tasks, NEW f \in Files, Unlink(t, f)
      PROVE  OneHand'
  BY <1>9 DEF Unlink, Become, Without, Idle
<1>10. ASSUME NEW t \in Tasks, NEW f \in Files, UnlinkFails(t, f)
      PROVE  OneHand'
  BY <1>10 DEF UnlinkFails, Become, Without, Idle
<1>11. ASSUME NEW t \in Tasks, CreateCommit(t)
      PROVE  OneHand'
  BY <1>11 DEF CreateCommit, Become, Idle
<1>12. ASSUME NEW t \in Tasks, UploadRow(t)
      PROVE  OneHand'
  BY <1>12 DEF UploadRow, Become, Idle
<1>13. ASSUME NEW t \in Tasks, PurgeDrop(t)
      PROVE  OneHand'
  BY <1>13 DEF PurgeDrop, Drop, Become, Idle
<1>14. ASSUME NEW t \in Tasks, NEW r \in Records, SweepVisit(t, r)
      PROVE  OneHand'
  BY <1>14, Visited, SMTT(30) DEF FilesOf
<1>15. ASSUME NEW t \in Tasks, SweepTickets(t)
      PROVE  OneHand'
  BY <1>15, TicketsListed
<1>16. ASSUME NEW t \in Tasks, SweepDrop(t)
      PROVE  OneHand'
  BY <1>16 DEF SweepDrop, SweepDropWhere, Drop, Become, Idle
<1>17. ASSUME NEW t \in Tasks, Fail(t)
      PROVE  OneHand'
  BY <1>17 DEF Fail, Become, Idle
<1>18. ASSUME NEW r \in Records, SoftDelete(r) \/ Restore(r) \/ Age(r)
      PROVE  OneHand'
  BY <1>18 DEF SoftDelete, Restore, Age, Idle
<1> QED
  BY <1>1, <1>2, <1>3, <1>4, <1>5, <1>6, <1>7, <1>8, <1>9,
     <1>10, <1>11, <1>12, <1>13, <1>14, <1>15, <1>16, <1>17, <1>18
  DEF Next, Step, Ask, Faulty

\* PutsStay: what a removal deletes is in its own hands, and so in no upload's.
LEMMA PutsStayKept == BinInv /\ TypeOK' /\ [Next]_vars => PutsStay'
<1> SUFFICES ASSUME BinInv, TypeOK', [Next]_vars
             PROVE  PutsStay'
  OBVIOUS
<1> USE BinAssumption
  DEF BinInv, TypeOK, Task, Tasks, Records, Exists, Writes, Sweeps, Shapes, OneHand,
      PutsStay, Holds
<1>1. CASE UNCHANGED vars
  BY <1>1 DEF vars
<1>2. ASSUME NEW t \in Agents, NEW r \in Tickets, NEW fs \in SUBSET Files, Create(t, r, fs)
      PROVE  PutsStay'
  BY <1>2 DEF Create, Begin, Idle
<1>3. ASSUME NEW t \in Agents, NEW r \in Records, NEW fs \in SUBSET Files, Upload(t, r, fs)
      PROVE  PutsStay'
  BY <1>3 DEF Upload, Begin, Idle
<1>4. ASSUME NEW t \in Agents, NEW f \in Files, Erase(t, f)
      PROVE  PutsStay'
  BY <1>4 DEF Erase, Begin, Idle
<1>5. ASSUME NEW t \in Admins, NEW r \in Records, Purge(t, r)
      PROVE  PutsStay'
  BY <1>5, Purging, SMTT(30) DEF Idle, FilesOf
<1>6. ASSUME NEW t \in Jobs, SweepAssets(t)
      PROVE  PutsStay'
  BY <1>6, AssetsListed DEF Idle
<1>7. ASSUME NEW t \in Tasks, NEW f \in Files, CreatePut(t, f)
      PROVE  PutsStay'
  BY <1>7 DEF CreatePut
<1>8. ASSUME NEW t \in Tasks, NEW f \in Files, UploadPut(t, f)
      PROVE  PutsStay'
  BY <1>8 DEF UploadPut
<1>9. ASSUME NEW t \in Tasks, NEW f \in Files, Unlink(t, f)
      PROVE  PutsStay'
  BY <1>9 DEF Unlink, Become, Without, Idle
<1>10. ASSUME NEW t \in Tasks, NEW f \in Files, UnlinkFails(t, f)
      PROVE  PutsStay'
  BY <1>10 DEF UnlinkFails, Become, Without, Idle
<1>11. ASSUME NEW t \in Tasks, CreateCommit(t)
      PROVE  PutsStay'
  BY <1>11 DEF CreateCommit, Become, Idle
<1>12. ASSUME NEW t \in Tasks, UploadRow(t)
      PROVE  PutsStay'
  BY <1>12 DEF UploadRow, Become, Idle
<1>13. ASSUME NEW t \in Tasks, PurgeDrop(t)
      PROVE  PutsStay'
  BY <1>13 DEF PurgeDrop, Drop, Become, Idle
<1>14. ASSUME NEW t \in Tasks, NEW r \in Records, SweepVisit(t, r)
      PROVE  PutsStay'
  BY <1>14, Visited, SMTT(30) DEF FilesOf
<1>15. ASSUME NEW t \in Tasks, SweepTickets(t)
      PROVE  PutsStay'
  BY <1>15, TicketsListed
<1>16. ASSUME NEW t \in Tasks, SweepDrop(t)
      PROVE  PutsStay'
  BY <1>16 DEF SweepDrop, SweepDropWhere, Drop, Become, Idle
<1>17. ASSUME NEW t \in Tasks, Fail(t)
      PROVE  PutsStay'
  BY <1>17 DEF Fail, Become, Idle
<1>18. ASSUME NEW r \in Records, SoftDelete(r) \/ Restore(r) \/ Age(r)
      PROVE  PutsStay'
  BY <1>18 DEF SoftDelete, Restore, Age, Idle
<1> QED
  BY <1>1, <1>2, <1>3, <1>4, <1>5, <1>6, <1>7, <1>8, <1>9,
     <1>10, <1>11, <1>12, <1>13, <1>14, <1>15, <1>16, <1>17, <1>18
  DEF Next, Step, Ask, Faulty

\* RowsBelong: an upload records a file of a record that is there, or that it creates,
\* and a record that goes takes its rows along.
LEMMA RowsBelongKept == BinInv /\ TypeOK' /\ [Next]_vars => RowsBelong'
<1> SUFFICES ASSUME BinInv, TypeOK', [Next]_vars
             PROVE  RowsBelong'
  OBVIOUS
<1> USE BinAssumption
  DEF BinInv, TypeOK, Task, Tasks, Records, Exists, Writes, Sweeps, Shapes, OneHand,
      RowsBelong, CreatesAlone, HeldAreKeyed, Holds
<1>1. CASE UNCHANGED vars
  BY <1>1 DEF vars
<1>2. ASSUME NEW t \in Agents, NEW r \in Tickets, NEW fs \in SUBSET Files, Create(t, r, fs)
      PROVE  RowsBelong'
  BY <1>2 DEF Create, Begin, Idle
<1>3. ASSUME NEW t \in Agents, NEW r \in Records, NEW fs \in SUBSET Files, Upload(t, r, fs)
      PROVE  RowsBelong'
  BY <1>3 DEF Upload, Begin, Idle
<1>4. ASSUME NEW t \in Agents, NEW f \in Files, Erase(t, f)
      PROVE  RowsBelong'
  BY <1>4 DEF Erase, Begin, Idle
<1>5. ASSUME NEW t \in Admins, NEW r \in Records, Purge(t, r)
      PROVE  RowsBelong'
  BY <1>5, Purging DEF Idle, FilesOf
<1>6. ASSUME NEW t \in Jobs, SweepAssets(t)
      PROVE  RowsBelong'
  BY <1>6, AssetsListed DEF Idle
<1>7. ASSUME NEW t \in Tasks, NEW f \in Files, CreatePut(t, f)
      PROVE  RowsBelong'
  BY <1>7 DEF CreatePut
<1>8. ASSUME NEW t \in Tasks, NEW f \in Files, UploadPut(t, f)
      PROVE  RowsBelong'
  BY <1>8 DEF UploadPut
<1>9. ASSUME NEW t \in Tasks, NEW f \in Files, Unlink(t, f)
      PROVE  RowsBelong'
  BY <1>9 DEF Unlink, Become, Without, Idle
<1>10. ASSUME NEW t \in Tasks, NEW f \in Files, UnlinkFails(t, f)
      PROVE  RowsBelong'
  BY <1>10 DEF UnlinkFails, Become, Without, Idle
<1>11. ASSUME NEW t \in Tasks, CreateCommit(t)
      PROVE  RowsBelong'
  BY <1>11 DEF CreateCommit, Become, Idle
<1>12. ASSUME NEW t \in Tasks, UploadRow(t)
      PROVE  RowsBelong'
  BY <1>12 DEF UploadRow, Become, Idle
<1>13. ASSUME NEW t \in Tasks, PurgeDrop(t)
      PROVE  RowsBelong'
  BY <1>13 DEF PurgeDrop, Drop, Become, Idle
<1>14. ASSUME NEW t \in Tasks, NEW r \in Records, SweepVisit(t, r)
      PROVE  RowsBelong'
  BY <1>14, Visited DEF FilesOf
<1>15. ASSUME NEW t \in Tasks, SweepTickets(t)
      PROVE  RowsBelong'
  BY <1>15, TicketsListed
<1>16. ASSUME NEW t \in Tasks, SweepDrop(t)
      PROVE  RowsBelong'
  BY <1>16 DEF SweepDrop, SweepDropWhere, Drop, Become, Idle
<1>17. ASSUME NEW t \in Tasks, Fail(t)
      PROVE  RowsBelong'
  BY <1>17 DEF Fail, Become, Idle
<1>18. ASSUME NEW r \in Records, SoftDelete(r) \/ Restore(r) \/ Age(r)
      PROVE  RowsBelong'
  BY <1>18 DEF SoftDelete, Restore, Age, Idle
<1> QED
  BY <1>1, <1>2, <1>3, <1>4, <1>5, <1>6, <1>7, <1>8, <1>9,
     <1>10, <1>11, <1>12, <1>13, <1>14, <1>15, <1>16, <1>17, <1>18
  DEF Next, Step, Ask, Faulty

\* What Observe keeps of the removals in progress.
LEMMA Watched ==
  ASSUME BinInv, TypeOK', Shapes', [Next]_vars, NEW t \in Tasks
  PROVE  /\ (task[t].op = "purge")' => task'[t].record \in doomed'[t]
         /\ Sweeps(t)' => doomed[t] \union task'[t].records \subseteq doomed'[t]
         /\ \A r \in doomed'[t] : Removes(t, r)' \/ Sweeps(t)'
<1>1. CASE UNCHANGED vars
  BY <1>1 DEF vars, BinInv, RemovalsMeant, Removes, Sweeps
<1>2. CASE Observe
  <2>1. doomed'[t] =
          {r \in Records :
             Removes(t, r)' \/ (Sweeps(t)' /\ r \in doomed[t] \union task'[t].records)}
    BY <1>2 DEF Observe
  <2>2. doomed[t] \subseteq Records /\ task'[t] \in Task
    BY DEF BinInv, TypeOK
  <2>3. (task[t].op = "purge")' => task'[t].record \in Records
    BY DEF Shapes
  <2> QED
    BY <2>1, <2>2, <2>3 DEF Removes, Task
<1> QED
  BY <1>1, <1>2 DEF Next

\* RemovalsMeant: a row that was deleted does not come back, since no upload holds it.
LEMMA RemovalsMeantKept == BinInv /\ TypeOK' /\ Shapes' /\ [Next]_vars => RemovalsMeant'
<1> SUFFICES ASSUME BinInv, TypeOK', Shapes', [Next]_vars
             PROVE  RemovalsMeant'
  OBVIOUS
<1>0. \A t \in Tasks :
        /\ (task[t].op = "purge")' => task'[t].record \in doomed'[t]
        /\ Sweeps(t)' => doomed[t] \union task'[t].records \subseteq doomed'[t]
        /\ \A r \in doomed'[t] : Removes(t, r)' \/ Sweeps(t)'
  BY Watched
<1> USE BinAssumption
  DEF BinInv, TypeOK, Task, Tasks, Records, Exists, Writes, Sweeps, Shapes, OneHand,
      RemovalsMeant, HeldAreKeyed, Holds
<1>1. CASE UNCHANGED vars
  BY <1>1 DEF vars, Removes
<1>2. ASSUME NEW t \in Agents, NEW r \in Tickets, NEW fs \in SUBSET Files, Create(t, r, fs)
      PROVE  RemovalsMeant'
  BY <1>0, <1>2 DEF Create, Begin, Idle
<1>3. ASSUME NEW t \in Agents, NEW r \in Records, NEW fs \in SUBSET Files, Upload(t, r, fs)
      PROVE  RemovalsMeant'
  BY <1>0, <1>3 DEF Upload, Begin, Idle
<1>4. ASSUME NEW t \in Agents, NEW f \in Files, Erase(t, f)
      PROVE  RemovalsMeant'
  BY <1>0, <1>4 DEF Erase, Begin, Idle
<1>5. ASSUME NEW t \in Admins, NEW r \in Records, Purge(t, r)
      PROVE  RemovalsMeant'
  BY <1>0, <1>5, Purging DEF Idle, FilesOf
<1>6. ASSUME NEW t \in Jobs, SweepAssets(t)
      PROVE  RemovalsMeant'
  BY <1>0, <1>6, AssetsListed DEF Idle
<1>7. ASSUME NEW t \in Tasks, NEW f \in Files, CreatePut(t, f)
      PROVE  RemovalsMeant'
  <2>1. /\ task'[t].op = "create" /\ UNCHANGED <<rows, key>>
        /\ \A u \in Tasks : u # t => task'[u] = task[u]
    <3> HIDE DEF BinInv, Shapes, OneHand, RemovalsMeant, HeldAreKeyed
    <3>1. TypeOK
      BY DEF BinInv
    <3> QED
      BY <3>1, <1>7 DEF CreatePut
  <2> QED
    <3> HIDE DEF TypeOK, Task, Shapes, OneHand, HeldAreKeyed
    <3> QED
      BY <1>0, <2>1
<1>8. ASSUME NEW t \in Tasks, NEW f \in Files, UploadPut(t, f)
      PROVE  RemovalsMeant'
  <2>1. /\ task'[t].op = "upload" /\ UNCHANGED <<rows, key>>
        /\ \A u \in Tasks : u # t => task'[u] = task[u]
    <3> HIDE DEF BinInv, Shapes, OneHand, RemovalsMeant, HeldAreKeyed
    <3>1. TypeOK
      BY DEF BinInv
    <3> QED
      BY <3>1, <1>8 DEF UploadPut
  <2> QED
    <3> HIDE DEF TypeOK, Task, Shapes, OneHand, HeldAreKeyed
    <3> QED
      BY <1>0, <2>1
<1>9. ASSUME NEW t \in Tasks, NEW f \in Files, Unlink(t, f)
      PROVE  RemovalsMeant'
  BY <1>0, <1>9 DEF Unlink, Become, Without, Idle
<1>10. ASSUME NEW t \in Tasks, NEW f \in Files, UnlinkFails(t, f)
      PROVE  RemovalsMeant'
  BY <1>0, <1>10 DEF UnlinkFails, Become, Without, Idle
<1>11. ASSUME NEW t \in Tasks, CreateCommit(t)
      PROVE  RemovalsMeant'
  BY <1>0, <1>11 DEF CreateCommit, Become, Idle
<1>12. ASSUME NEW t \in Tasks, UploadRow(t)
      PROVE  RemovalsMeant'
  BY <1>0, <1>12 DEF UploadRow, Become, Idle
<1>13. ASSUME NEW t \in Tasks, PurgeDrop(t)
      PROVE  RemovalsMeant'
  BY <1>0, <1>13 DEF PurgeDrop, Drop, Become, Idle
<1>14. ASSUME NEW t \in Tasks, NEW r \in Records, SweepVisit(t, r)
      PROVE  RemovalsMeant'
  BY <1>0, <1>14, Visited, SMTT(60) DEF FilesOf
<1>15. ASSUME NEW t \in Tasks, SweepTickets(t)
      PROVE  RemovalsMeant'
  BY <1>0, <1>15, TicketsListed
<1>16. ASSUME NEW t \in Tasks, SweepDrop(t)
      PROVE  RemovalsMeant'
  BY <1>0, <1>16 DEF SweepDrop, SweepDropWhere, Drop, Become, Idle
<1>17. ASSUME NEW t \in Tasks, Fail(t)
      PROVE  RemovalsMeant'
  BY <1>0, <1>17 DEF Fail, Become, Idle
<1>18. ASSUME NEW r \in Records, SoftDelete(r) \/ Restore(r) \/ Age(r)
      PROVE  RemovalsMeant'
  BY <1>0, <1>18 DEF SoftDelete, Restore, Age, Idle
<1> QED
  BY <1>1, <1>2, <1>3, <1>4, <1>5, <1>6, <1>7, <1>8, <1>9,
     <1>10, <1>11, <1>12, <1>13, <1>14, <1>15, <1>16, <1>17, <1>18
  DEF Next, Step, Ask, Faulty

\* Met: Observe notes what holds after every step.
LEMMA MetKept == BinInv /\ [Next]_vars => Met'
<1> SUFFICES ASSUME BinInv, [Next]_vars
             PROVE  Met'
  OBVIOUS
<1>1. CASE UNCHANGED vars
  BY <1>1 DEF BinInv, Met, Uploads, Removes, vars
<1>2. CASE Observe
  BY <1>2 DEF Met, Observe
<1> QED
  BY <1>1, <1>2 DEF Next

\* NoUploadToExpired: a record grows old only while nobody is at work, and an upload
\* begins on a live one.
LEMMA NoUploadToExpiredKept == BinInv /\ TypeOK' /\ [Next]_vars => NoUploadToExpired'
<1> SUFFICES ASSUME BinInv, TypeOK', [Next]_vars
             PROVE  NoUploadToExpired'
  OBVIOUS
<1> USE BinAssumption
  DEF BinInv, TypeOK, Task, Tasks, Records, Exists, Writes, Sweeps, Shapes,
      CreatesAlone, NoUploadToExpired
<1>1. CASE UNCHANGED vars
  BY <1>1 DEF vars
<1>2. ASSUME NEW t \in Agents, NEW r \in Tickets, NEW fs \in SUBSET Files, Create(t, r, fs)
      PROVE  NoUploadToExpired'
  BY <1>2 DEF Create, Begin, Idle
<1>3. ASSUME NEW t \in Agents, NEW r \in Records, NEW fs \in SUBSET Files, Upload(t, r, fs)
      PROVE  NoUploadToExpired'
  BY <1>3 DEF Upload, Begin, Idle
<1>4. ASSUME NEW t \in Agents, NEW f \in Files, Erase(t, f)
      PROVE  NoUploadToExpired'
  BY <1>4 DEF Erase, Begin, Idle
<1>5. ASSUME NEW t \in Admins, NEW r \in Records, Purge(t, r)
      PROVE  NoUploadToExpired'
  BY <1>5, Purging DEF Idle, FilesOf
<1>6. ASSUME NEW t \in Jobs, SweepAssets(t)
      PROVE  NoUploadToExpired'
  BY <1>6, AssetsListed DEF Idle
<1>7. ASSUME NEW t \in Tasks, NEW f \in Files, CreatePut(t, f)
      PROVE  NoUploadToExpired'
  BY <1>7 DEF CreatePut
<1>8. ASSUME NEW t \in Tasks, NEW f \in Files, UploadPut(t, f)
      PROVE  NoUploadToExpired'
  BY <1>8 DEF UploadPut
<1>9. ASSUME NEW t \in Tasks, NEW f \in Files, Unlink(t, f)
      PROVE  NoUploadToExpired'
  BY <1>9 DEF Unlink, Become, Without, Idle
<1>10. ASSUME NEW t \in Tasks, NEW f \in Files, UnlinkFails(t, f)
      PROVE  NoUploadToExpired'
  BY <1>10 DEF UnlinkFails, Become, Without, Idle
<1>11. ASSUME NEW t \in Tasks, CreateCommit(t)
      PROVE  NoUploadToExpired'
  BY <1>11 DEF CreateCommit, Become, Idle
<1>12. ASSUME NEW t \in Tasks, UploadRow(t)
      PROVE  NoUploadToExpired'
  BY <1>12 DEF UploadRow, Become, Idle
<1>13. ASSUME NEW t \in Tasks, PurgeDrop(t)
      PROVE  NoUploadToExpired'
  BY <1>13 DEF PurgeDrop, Drop, Become, Idle
<1>14. ASSUME NEW t \in Tasks, NEW r \in Records, SweepVisit(t, r)
      PROVE  NoUploadToExpired'
  BY <1>14, Visited, SMTT(30) DEF FilesOf
<1>15. ASSUME NEW t \in Tasks, SweepTickets(t)
      PROVE  NoUploadToExpired'
  BY <1>15, TicketsListed
<1>16. ASSUME NEW t \in Tasks, SweepDrop(t)
      PROVE  NoUploadToExpired'
  BY <1>16 DEF SweepDrop, SweepDropWhere, Drop, Become, Idle
<1>17. ASSUME NEW t \in Tasks, Fail(t)
      PROVE  NoUploadToExpired'
  BY <1>17 DEF Fail, Become, Idle
<1>18. ASSUME NEW r \in Records, SoftDelete(r) \/ Restore(r) \/ Age(r)
      PROVE  NoUploadToExpired'
  BY <1>18 DEF SoftDelete, Restore, Age, Idle
<1> QED
  BY <1>1, <1>2, <1>3, <1>4, <1>5, <1>6, <1>7, <1>8, <1>9,
     <1>10, <1>11, <1>12, <1>13, <1>14, <1>15, <1>16, <1>17, <1>18
  DEF Next, Step, Ask, Faulty

\* GoneWasMet: the sweep drops no record that is uploaded to, by NoUploadToExpired; a
\* purge that does was noted.
LEMMA GoneWasMetKept == BinInv /\ TypeOK' /\ [Next]_vars => GoneWasMet'
<1> SUFFICES ASSUME BinInv, TypeOK', [Next]_vars
             PROVE  GoneWasMet'
  OBVIOUS
<1> USE BinAssumption
  DEF BinInv, TypeOK, Task, Tasks, Records, Exists, Writes, Sweeps, Shapes,
      NoUploadToExpired, GoneWasMet, Met, Uploads, Removes, Stale
<1>0. met \subseteq met'
  BY DEF Next, Observe, vars
<1>1. CASE UNCHANGED vars
  BY <1>1 DEF vars
<1>2. ASSUME NEW t \in Agents, NEW r \in Tickets, NEW fs \in SUBSET Files, Create(t, r, fs)
      PROVE  GoneWasMet'
  BY <1>0, <1>2 DEF Create, Begin, Idle
<1>3. ASSUME NEW t \in Agents, NEW r \in Records, NEW fs \in SUBSET Files, Upload(t, r, fs)
      PROVE  GoneWasMet'
  BY <1>0, <1>3 DEF Upload, Begin, Idle
<1>4. ASSUME NEW t \in Agents, NEW f \in Files, Erase(t, f)
      PROVE  GoneWasMet'
  BY <1>0, <1>4 DEF Erase, Begin, Idle
<1>5. ASSUME NEW t \in Admins, NEW r \in Records, Purge(t, r)
      PROVE  GoneWasMet'
  BY <1>0, <1>5, Purging DEF Idle, FilesOf
<1>6. ASSUME NEW t \in Jobs, SweepAssets(t)
      PROVE  GoneWasMet'
  BY <1>0, <1>6, AssetsListed DEF Idle
<1>7. ASSUME NEW t \in Tasks, NEW f \in Files, CreatePut(t, f)
      PROVE  GoneWasMet'
  BY <1>0, <1>7 DEF CreatePut
<1>8. ASSUME NEW t \in Tasks, NEW f \in Files, UploadPut(t, f)
      PROVE  GoneWasMet'
  BY <1>0, <1>8 DEF UploadPut
<1>9. ASSUME NEW t \in Tasks, NEW f \in Files, Unlink(t, f)
      PROVE  GoneWasMet'
  BY <1>0, <1>9 DEF Unlink, Become, Without, Idle
<1>10. ASSUME NEW t \in Tasks, NEW f \in Files, UnlinkFails(t, f)
      PROVE  GoneWasMet'
  BY <1>0, <1>10 DEF UnlinkFails, Become, Without, Idle
<1>11. ASSUME NEW t \in Tasks, CreateCommit(t)
      PROVE  GoneWasMet'
  BY <1>0, <1>11 DEF CreateCommit, Become, Idle
<1>12. ASSUME NEW t \in Tasks, UploadRow(t)
      PROVE  GoneWasMet'
  BY <1>0, <1>12 DEF UploadRow, Become, Idle
<1>13. ASSUME NEW t \in Tasks, PurgeDrop(t)
      PROVE  GoneWasMet'
  BY <1>0, <1>13 DEF PurgeDrop, Drop, Become, Idle
<1>14. ASSUME NEW t \in Tasks, NEW r \in Records, SweepVisit(t, r)
      PROVE  GoneWasMet'
  BY <1>0, <1>14, Visited DEF FilesOf
<1>15. ASSUME NEW t \in Tasks, SweepTickets(t)
      PROVE  GoneWasMet'
  BY <1>0, <1>15, TicketsListed
<1>16. ASSUME NEW t \in Tasks, SweepDrop(t)
      PROVE  GoneWasMet'
  BY <1>0, <1>16 DEF SweepDrop, SweepDropWhere, Drop, Become, Idle
<1>17. ASSUME NEW t \in Tasks, Fail(t)
      PROVE  GoneWasMet'
  BY <1>0, <1>17 DEF Fail, Become, Idle
<1>18. ASSUME NEW r \in Records, SoftDelete(r) \/ Restore(r) \/ Age(r)
      PROVE  GoneWasMet'
  BY <1>0, <1>18 DEF SoftDelete, Restore, Age, Idle
<1> QED
  BY <1>1, <1>2, <1>3, <1>4, <1>5, <1>6, <1>7, <1>8, <1>9,
     <1>10, <1>11, <1>12, <1>13, <1>14, <1>15, <1>16, <1>17, <1>18
  DEF Next, Step, Ask, Faulty

\* PurgeLists: a row that appears after the listing is an upload's, and that met the purge.
LEMMA PurgeListsKept == BinInv /\ TypeOK' /\ [Next]_vars => PurgeLists'
<1> SUFFICES ASSUME BinInv, TypeOK', [Next]_vars
             PROVE  PurgeLists'
  OBVIOUS
<1> USE BinAssumption
  DEF BinInv, TypeOK, Task, Tasks, Records, Exists, Writes, Sweeps, Shapes, OneHand,
      RemovalsMeant, PurgeLists, Holds, Met, Uploads, Removes, CreatesAlone
<1>0. met \subseteq met'
  BY DEF Next, Observe, vars
<1>1. CASE UNCHANGED vars
  BY <1>1 DEF vars
<1>2. ASSUME NEW t \in Agents, NEW r \in Tickets, NEW fs \in SUBSET Files, Create(t, r, fs)
      PROVE  PurgeLists'
  BY <1>0, <1>2 DEF Create, Begin, Idle
<1>3. ASSUME NEW t \in Agents, NEW r \in Records, NEW fs \in SUBSET Files, Upload(t, r, fs)
      PROVE  PurgeLists'
  BY <1>0, <1>3 DEF Upload, Begin, Idle
<1>4. ASSUME NEW t \in Agents, NEW f \in Files, Erase(t, f)
      PROVE  PurgeLists'
  BY <1>0, <1>4 DEF Erase, Begin, Idle
<1>5. ASSUME NEW t \in Admins, NEW r \in Records, Purge(t, r)
      PROVE  PurgeLists'
  BY <1>0, <1>5, Purging DEF Idle, FilesOf
<1>6. ASSUME NEW t \in Jobs, SweepAssets(t)
      PROVE  PurgeLists'
  BY <1>0, <1>6, AssetsListed DEF Idle
<1>7. ASSUME NEW t \in Tasks, NEW f \in Files, CreatePut(t, f)
      PROVE  PurgeLists'
  BY <1>0, <1>7 DEF CreatePut
<1>8. ASSUME NEW t \in Tasks, NEW f \in Files, UploadPut(t, f)
      PROVE  PurgeLists'
  BY <1>0, <1>8 DEF UploadPut
<1>9. ASSUME NEW t \in Tasks, NEW f \in Files, Unlink(t, f)
      PROVE  PurgeLists'
  BY <1>0, <1>9 DEF Unlink, Become, Without, Idle
<1>10. ASSUME NEW t \in Tasks, NEW f \in Files, UnlinkFails(t, f)
      PROVE  PurgeLists'
  BY <1>0, <1>10 DEF UnlinkFails, Become, Without, Idle
<1>11. ASSUME NEW t \in Tasks, CreateCommit(t)
      PROVE  PurgeLists'
  BY <1>0, <1>11 DEF CreateCommit, Become, Idle
<1>12. ASSUME NEW t \in Tasks, UploadRow(t)
      PROVE  PurgeLists'
  BY <1>0, <1>12 DEF UploadRow, Become, Idle
<1>13. ASSUME NEW t \in Tasks, PurgeDrop(t)
      PROVE  PurgeLists'
  BY <1>0, <1>13 DEF PurgeDrop, Drop, Become, Idle
<1>14. ASSUME NEW t \in Tasks, NEW r \in Records, SweepVisit(t, r)
      PROVE  PurgeLists'
  BY <1>0, <1>14, Visited, SMTT(30) DEF FilesOf
<1>15. ASSUME NEW t \in Tasks, SweepTickets(t)
      PROVE  PurgeLists'
  BY <1>0, <1>15, TicketsListed
<1>16. ASSUME NEW t \in Tasks, SweepDrop(t)
      PROVE  PurgeLists'
  BY <1>0, <1>16 DEF SweepDrop, SweepDropWhere, Drop, Become, Idle
<1>17. ASSUME NEW t \in Tasks, Fail(t)
      PROVE  PurgeLists'
  BY <1>0, <1>17 DEF Fail, Become, Idle
<1>18. ASSUME NEW r \in Records, SoftDelete(r) \/ Restore(r) \/ Age(r)
      PROVE  PurgeLists'
  BY <1>0, <1>18 DEF SoftDelete, Restore, Age, Idle
<1> QED
  BY <1>1, <1>2, <1>3, <1>4, <1>5, <1>6, <1>7, <1>8, <1>9,
     <1>10, <1>11, <1>12, <1>13, <1>14, <1>15, <1>16, <1>17, <1>18
  DEF Next, Step, Ask, Faulty

\* SweepLists: no row of a record past its window appears after its visit.
LEMMA SweepListsKept == BinInv /\ TypeOK' /\ [Next]_vars => SweepLists'
<1> SUFFICES ASSUME BinInv, TypeOK', [Next]_vars
             PROVE  SweepLists'
  OBVIOUS
<1> USE BinAssumption
  DEF BinInv, TypeOK, Task, Tasks, Records, Exists, Writes, Sweeps, Shapes, OneHand,
      SweepLists, Holds, Stale, NoUploadToExpired, CreatesAlone
<1>1. CASE UNCHANGED vars
  BY <1>1 DEF vars
<1>2. ASSUME NEW t \in Agents, NEW r \in Tickets, NEW fs \in SUBSET Files, Create(t, r, fs)
      PROVE  SweepLists'
  BY <1>2 DEF Create, Begin, Idle
<1>3. ASSUME NEW t \in Agents, NEW r \in Records, NEW fs \in SUBSET Files, Upload(t, r, fs)
      PROVE  SweepLists'
  BY <1>3 DEF Upload, Begin, Idle
<1>4. ASSUME NEW t \in Agents, NEW f \in Files, Erase(t, f)
      PROVE  SweepLists'
  BY <1>4 DEF Erase, Begin, Idle
<1>5. ASSUME NEW t \in Admins, NEW r \in Records, Purge(t, r)
      PROVE  SweepLists'
  BY <1>5, Purging DEF Idle, FilesOf
<1>6. ASSUME NEW t \in Jobs, SweepAssets(t)
      PROVE  SweepLists'
  BY <1>6, AssetsListed DEF Idle
<1>7. ASSUME NEW t \in Tasks, NEW f \in Files, CreatePut(t, f)
      PROVE  SweepLists'
  BY <1>7 DEF CreatePut
<1>8. ASSUME NEW t \in Tasks, NEW f \in Files, UploadPut(t, f)
      PROVE  SweepLists'
  BY <1>8 DEF UploadPut
<1>9. ASSUME NEW t \in Tasks, NEW f \in Files, Unlink(t, f)
      PROVE  SweepLists'
  BY <1>9 DEF Unlink, Become, Without, Idle
<1>10. ASSUME NEW t \in Tasks, NEW f \in Files, UnlinkFails(t, f)
      PROVE  SweepLists'
  BY <1>10 DEF UnlinkFails, Become, Without, Idle
<1>11. ASSUME NEW t \in Tasks, CreateCommit(t)
      PROVE  SweepLists'
  BY <1>11 DEF CreateCommit, Become, Idle
<1>12. ASSUME NEW t \in Tasks, UploadRow(t)
      PROVE  SweepLists'
  BY <1>12 DEF UploadRow, Become, Idle
<1>13. ASSUME NEW t \in Tasks, PurgeDrop(t)
      PROVE  SweepLists'
  BY <1>13 DEF PurgeDrop, Drop, Become, Idle
<1>14. ASSUME NEW t \in Tasks, NEW r \in Records, SweepVisit(t, r)
      PROVE  SweepLists'
  BY <1>14, Visited DEF FilesOf
<1>15. ASSUME NEW t \in Tasks, SweepTickets(t)
      PROVE  SweepLists'
  BY <1>15, TicketsListed
<1>16. ASSUME NEW t \in Tasks, SweepDrop(t)
      PROVE  SweepLists'
  BY <1>16 DEF SweepDrop, SweepDropWhere, Drop, Become, Idle
<1>17. ASSUME NEW t \in Tasks, Fail(t)
      PROVE  SweepLists'
  BY <1>17 DEF Fail, Become, Idle
<1>18. ASSUME NEW r \in Records, SoftDelete(r) \/ Restore(r) \/ Age(r)
      PROVE  SweepLists'
  BY <1>18 DEF SoftDelete, Restore, Age, Idle
<1> QED
  BY <1>1, <1>2, <1>3, <1>4, <1>5, <1>6, <1>7, <1>8, <1>9,
     <1>10, <1>11, <1>12, <1>13, <1>14, <1>15, <1>16, <1>17, <1>18
  DEF Next, Step, Ask, Faulty

\* The file f has its blob after the step, or had its row before and, if it had its
\* blob too, then a removal of its record takes that.
Accounted(f) ==
  \/ f \in blobs'
  \/ /\ f \in rows /\ key'[f] = key[f]
     /\ f \in blobs => BeingRemoved(key[f])

\* A row appears after its blob is put, and a blob is deleted once its row is, or by a
\* purge or a sweep of its record.
LEMMA BlobsGoByRemoval == BinInv /\ TypeOK' /\ [Next]_vars => \A g \in rows' : Accounted(g)
<1> SUFFICES ASSUME BinInv, TypeOK', [Next]_vars
             PROVE  \A g \in rows' : Accounted(g)
  OBVIOUS
<1> USE BinAssumption
  DEF BinInv, TypeOK, Task, Tasks, Records, Exists, Writes, Sweeps, Shapes, OneHand,
      PutsStay, RemovalsMeant, HeldAreKeyed, Holds, Accounted, BeingRemoved
<1>1. CASE UNCHANGED vars
  BY <1>1 DEF vars
<1>2. ASSUME NEW t \in Agents, NEW r \in Tickets, NEW fs \in SUBSET Files, Create(t, r, fs)
      PROVE  \A g \in rows' : Accounted(g)
  BY <1>2 DEF Create, Begin, Idle
<1>3. ASSUME NEW t \in Agents, NEW r \in Records, NEW fs \in SUBSET Files, Upload(t, r, fs)
      PROVE  \A g \in rows' : Accounted(g)
  BY <1>3 DEF Upload, Begin, Idle
<1>4. ASSUME NEW t \in Agents, NEW f \in Files, Erase(t, f)
      PROVE  \A g \in rows' : Accounted(g)
  BY <1>4 DEF Erase, Begin, Idle
<1>5. ASSUME NEW t \in Admins, NEW r \in Records, Purge(t, r)
      PROVE  \A g \in rows' : Accounted(g)
  BY <1>5, Purging DEF Idle, FilesOf
<1>6. ASSUME NEW t \in Jobs, SweepAssets(t)
      PROVE  \A g \in rows' : Accounted(g)
  BY <1>6, AssetsListed DEF Idle
<1>7. ASSUME NEW t \in Tasks, NEW f \in Files, CreatePut(t, f)
      PROVE  \A g \in rows' : Accounted(g)
  BY <1>7 DEF CreatePut
<1>8. ASSUME NEW t \in Tasks, NEW f \in Files, UploadPut(t, f)
      PROVE  \A g \in rows' : Accounted(g)
  BY <1>8 DEF UploadPut
<1>9. ASSUME NEW t \in Tasks, NEW f \in Files, Unlink(t, f)
      PROVE  \A g \in rows' : Accounted(g)
  BY <1>9 DEF Unlink, Become, Without, Idle
<1>10. ASSUME NEW t \in Tasks, NEW f \in Files, UnlinkFails(t, f)
      PROVE  \A g \in rows' : Accounted(g)
  BY <1>10 DEF UnlinkFails, Become, Without, Idle
<1>11. ASSUME NEW t \in Tasks, CreateCommit(t)
      PROVE  \A g \in rows' : Accounted(g)
  BY <1>11 DEF CreateCommit, Become, Idle
<1>12. ASSUME NEW t \in Tasks, UploadRow(t)
      PROVE  \A g \in rows' : Accounted(g)
  BY <1>12 DEF UploadRow, Become, Idle
<1>13. ASSUME NEW t \in Tasks, PurgeDrop(t)
      PROVE  \A g \in rows' : Accounted(g)
  BY <1>13 DEF PurgeDrop, Drop, Become, Idle
<1>14. ASSUME NEW t \in Tasks, NEW r \in Records, SweepVisit(t, r)
      PROVE  \A g \in rows' : Accounted(g)
  BY <1>14, Visited DEF FilesOf
<1>15. ASSUME NEW t \in Tasks, SweepTickets(t)
      PROVE  \A g \in rows' : Accounted(g)
  BY <1>15, TicketsListed
<1>16. ASSUME NEW t \in Tasks, SweepDrop(t)
      PROVE  \A g \in rows' : Accounted(g)
  BY <1>16 DEF SweepDrop, SweepDropWhere, Drop, Become, Idle
<1>17. ASSUME NEW t \in Tasks, Fail(t)
      PROVE  \A g \in rows' : Accounted(g)
  BY <1>17 DEF Fail, Become, Idle
<1>18. ASSUME NEW r \in Records, SoftDelete(r) \/ Restore(r) \/ Age(r)
      PROVE  \A g \in rows' : Accounted(g)
  BY <1>18 DEF SoftDelete, Restore, Age, Idle
<1> QED
  BY <1>1, <1>2, <1>3, <1>4, <1>5, <1>6, <1>7, <1>8, <1>9,
     <1>10, <1>11, <1>12, <1>13, <1>14, <1>15, <1>16, <1>17, <1>18
  DEF Next, Step, Ask, Faulty

\* Task u goes on with the removal it is at, or fails, or deletes the records.
Lasts(u) ==
  /\ Sweeps(u) => Sweeps(u)' \/ Fail(u) \/ SweepDrop(u)
  /\ task[u].op = "purge" =>
       \/ (task[u].op = "purge")' /\ task'[u].record = task[u].record
       \/ Fail(u) \/ PurgeDrop(u)

\* Nothing else ends a removal.
LEMMA RemovalsEnd == BinInv /\ TypeOK' /\ [Next]_vars => \A u \in Tasks : Lasts(u)
<1> SUFFICES ASSUME BinInv, TypeOK', [Next]_vars
             PROVE  \A u \in Tasks : Lasts(u)
  OBVIOUS
<1> USE BinAssumption
  DEF BinInv, TypeOK, Task, Tasks, Records, Exists, Writes, Sweeps, Shapes, Lasts
<1>1. CASE UNCHANGED vars
  BY <1>1 DEF vars
<1>2. ASSUME NEW t \in Agents, NEW r \in Tickets, NEW fs \in SUBSET Files, Create(t, r, fs)
      PROVE  \A u \in Tasks : Lasts(u)
  BY <1>2 DEF Create, Begin, Idle
<1>3. ASSUME NEW t \in Agents, NEW r \in Records, NEW fs \in SUBSET Files, Upload(t, r, fs)
      PROVE  \A u \in Tasks : Lasts(u)
  BY <1>3 DEF Upload, Begin, Idle
<1>4. ASSUME NEW t \in Agents, NEW f \in Files, Erase(t, f)
      PROVE  \A u \in Tasks : Lasts(u)
  BY <1>4 DEF Erase, Begin, Idle
<1>5. ASSUME NEW t \in Admins, NEW r \in Records, Purge(t, r)
      PROVE  \A u \in Tasks : Lasts(u)
  BY <1>5, Purging DEF Idle, FilesOf
<1>6. ASSUME NEW t \in Jobs, SweepAssets(t)
      PROVE  \A u \in Tasks : Lasts(u)
  BY <1>6, AssetsListed DEF Idle
<1>7. ASSUME NEW t \in Tasks, NEW f \in Files, CreatePut(t, f)
      PROVE  \A u \in Tasks : Lasts(u)
  BY <1>7 DEF CreatePut
<1>8. ASSUME NEW t \in Tasks, NEW f \in Files, UploadPut(t, f)
      PROVE  \A u \in Tasks : Lasts(u)
  BY <1>8 DEF UploadPut
<1>9. ASSUME NEW t \in Tasks, NEW f \in Files, Unlink(t, f)
      PROVE  \A u \in Tasks : Lasts(u)
  BY <1>9 DEF Unlink, Become, Without, Idle
<1>10. ASSUME NEW t \in Tasks, NEW f \in Files, UnlinkFails(t, f)
      PROVE  \A u \in Tasks : Lasts(u)
  BY <1>10 DEF UnlinkFails, Become, Without, Idle
<1>11. ASSUME NEW t \in Tasks, CreateCommit(t)
      PROVE  \A u \in Tasks : Lasts(u)
  BY <1>11 DEF CreateCommit, Become, Idle
<1>12. ASSUME NEW t \in Tasks, UploadRow(t)
      PROVE  \A u \in Tasks : Lasts(u)
  BY <1>12 DEF UploadRow, Become, Idle
<1>13. ASSUME NEW t \in Tasks, PurgeDrop(t)
      PROVE  \A u \in Tasks : Lasts(u)
  <2>1. task[t].op = "purge" /\ \A u \in Tasks : u # t => task'[u] = task[u]
    BY <1>13, Became DEF PurgeDrop
  <2> QED
    BY <1>13, <2>1
<1>14. ASSUME NEW t \in Tasks, NEW r \in Records, SweepVisit(t, r)
      PROVE  \A u \in Tasks : Lasts(u)
  BY <1>14, Visited DEF FilesOf
<1>15. ASSUME NEW t \in Tasks, SweepTickets(t)
      PROVE  \A u \in Tasks : Lasts(u)
  BY <1>15, TicketsListed
<1>16. ASSUME NEW t \in Tasks, SweepDrop(t)
      PROVE  \A u \in Tasks : Lasts(u)
  BY <1>16 DEF SweepDrop, SweepDropWhere, Drop, Become, Idle
<1>17. ASSUME NEW t \in Tasks, Fail(t)
      PROVE  \A u \in Tasks : Lasts(u)
  BY <1>17 DEF Fail, Become, Idle
<1>18. ASSUME NEW r \in Records, SoftDelete(r) \/ Restore(r) \/ Age(r)
      PROVE  \A u \in Tasks : Lasts(u)
  BY <1>18 DEF SoftDelete, Restore, Age, Idle
<1> QED
  BY <1>1, <1>2, <1>3, <1>4, <1>5, <1>6, <1>7, <1>8, <1>9,
     <1>10, <1>11, <1>12, <1>13, <1>14, <1>15, <1>16, <1>17, <1>18
  DEF Next, Step, Ask, Faulty

\* FilesOutliveTheBin: what a removal that ends leaves behind without a blob is noted
\* as lost, and nothing but a removal takes the blob of a row.
LEMMA FilesOutliveTheBinKept == BinInv /\ TypeOK' /\ Shapes' /\ [Next]_vars => FilesOutliveTheBin'
<1> SUFFICES ASSUME BinInv, TypeOK', Shapes', [Next]_vars,
                    NEW f \in rows', f \notin blobs', f \notin lost'
             PROVE  BeingRemoved(key[f])'
  BY DEF FilesOutliveTheBin
<1>1. CASE UNCHANGED vars
  BY <1>1 DEF vars, BinInv, FilesOutliveTheBin, BeingRemoved
<1>2. CASE Next
  <2>1. f \notin lost /\ \A t \in Tasks : ~LeavesBehind(t, key[f])
    BY <1>2 DEF Next, Observe
  <2>2. f \in rows /\ key'[f] = key[f] /\ (f \in blobs => BeingRemoved(key[f]))
    BY BlobsGoByRemoval DEF Accounted
  <2>3. PICK t \in Tasks : key[f] \in doomed[t]
    BY <2>1, <2>2 DEF BinInv, FilesOutliveTheBin, BeingRemoved
  <2>4. key[f] \in Records /\ Exists(key[f])
    BY <2>2 DEF BinInv, RowsBelong
  <2>5. ~LeavesBehind(t, key[f])
    BY <2>1
  <2>6. ~Fail(t)
    <3> SUFFICES ASSUME Fail(t)
                 PROVE  FALSE
      OBVIOUS
    <3>1. task'[t] = Idle
      BY Became DEF Fail, BinInv
    <3>2. faults' # faults
      BY DEF Fail, BinInv, TypeOK
    <3> QED
      BY <2>3, <2>5, <3>1, <3>2 DEF LeavesBehind
  <2>7. CASE Sweeps(t)
    <3>1. ~SweepDrop(t)
      <4> SUFFICES ASSUME SweepDrop(t)
                   PROVE  FALSE
        OBVIOUS
      <4>1. task'[t] = Idle
        BY Became DEF SweepDrop, SweepDropWhere, BinInv
      <4>2. Stale(key[f])
        BY <2>3, <2>5, <2>7, <4>1 DEF LeavesBehind
      <4> QED
        BY <2>4, <4>2 DEF SweepDrop, SweepDropWhere, Drop
    <3>2. Sweeps(t)'
      BY <2>6, <2>7, <3>1, RemovalsEnd DEF Lasts
    <3> QED
      BY <2>2, <2>3, <3>2, Watched DEF BeingRemoved
  <2>8. CASE Removes(t, key[f])
    <3>1. ~PurgeDrop(t)
      BY <2>4, <2>8 DEF PurgeDrop, Drop, Removes
    <3>2. (task[t].op = "purge")' /\ task'[t].record = key[f]
      BY <2>6, <2>8, <3>1, RemovalsEnd DEF Lasts, Removes
    <3> QED
      BY <2>2, <3>2, Watched DEF BeingRemoved
  <2> QED
    BY <2>3, <2>7, <2>8 DEF BinInv, RemovalsMeant
<1> QED
  BY <1>1, <1>2

\* NoLeakUnlessFaultOrRace: the rows that a purge or a sweep drops have lost their
\* blobs by then, by PurgeLists and SweepLists.
LEMMA NoLeakUnlessFaultOrRaceKept == BinInv /\ TypeOK' /\ [Next]_vars => NoLeakUnlessFaultOrRace'
<1> SUFFICES ASSUME BinInv, TypeOK', [Next]_vars
             PROVE  NoLeakUnlessFaultOrRace'
  OBVIOUS
<1> USE BinAssumption
  DEF BinInv, TypeOK, Task, Tasks, Records, Exists, Writes, Sweeps, Shapes, OneHand,
      RemovalsMeant, GoneWasMet, PurgeLists, SweepLists, NoLeakUnlessFaultOrRace,
      InHand, Stale, Holds
<1>0. met \subseteq met'
  BY DEF Next, Observe, vars
<1>1. CASE UNCHANGED vars
  BY <1>1 DEF vars
<1>2. ASSUME NEW t \in Agents, NEW r \in Tickets, NEW fs \in SUBSET Files, Create(t, r, fs)
      PROVE  NoLeakUnlessFaultOrRace'
  BY <1>0, <1>2 DEF Create, Begin, Idle
<1>3. ASSUME NEW t \in Agents, NEW r \in Records, NEW fs \in SUBSET Files, Upload(t, r, fs)
      PROVE  NoLeakUnlessFaultOrRace'
  BY <1>0, <1>3 DEF Upload, Begin, Idle
<1>4. ASSUME NEW t \in Agents, NEW f \in Files, Erase(t, f)
      PROVE  NoLeakUnlessFaultOrRace'
  BY <1>0, <1>4 DEF Erase, Begin, Idle
<1>5. ASSUME NEW t \in Admins, NEW r \in Records, Purge(t, r)
      PROVE  NoLeakUnlessFaultOrRace'
  <2>1. \A g \in Files : InHand(g) => InHand(g)'
    <3> HIDE DEF BinInv, TypeOK, Task, Records, Exists, Writes, Sweeps, Shapes, Stale, Holds
    <3>1. TypeOK
      BY DEF BinInv
    <3> QED
      BY <3>1, <1>5, Purging DEF InHand, Idle
  <2>2. UNCHANGED <<rows, blobs, key, faults>>
    <3> HIDE DEF BinInv, TypeOK
    <3>1. TypeOK
      BY DEF BinInv
    <3> QED
      BY <3>1, <1>5, Purging
  <2>3. \A f \in blobs : f \in Files
    BY DEF TypeOK
  <2> QED
    <3> HIDE DEF TypeOK, Task, Records, Exists, Writes, Sweeps, Shapes, Stale, Holds, InHand,
             OneHand, RemovalsMeant, GoneWasMet, PurgeLists, SweepLists
    <3> QED
      BY <1>0, <2>1, <2>2, <2>3
<1>6. ASSUME NEW t \in Jobs, SweepAssets(t)
      PROVE  NoLeakUnlessFaultOrRace'
  <2>1. \A g \in Files : InHand(g) => InHand(g)'
    <3> HIDE DEF BinInv, TypeOK, Task, Records, Exists, Writes, Sweeps, Shapes, Stale, Holds
    <3>1. TypeOK
      BY DEF BinInv
    <3> QED
      BY <3>1, <1>6, AssetsListed DEF InHand, Idle
  <2>2. UNCHANGED <<rows, blobs, key, faults>>
    <3> HIDE DEF BinInv, TypeOK
    <3>1. TypeOK
      BY DEF BinInv
    <3> QED
      BY <3>1, <1>6, AssetsListed
  <2>3. \A f \in blobs : f \in Files
    BY DEF TypeOK
  <2> QED
    <3> HIDE DEF TypeOK, Task, Records, Exists, Writes, Sweeps, Shapes, Stale, Holds, InHand,
             OneHand, RemovalsMeant, GoneWasMet, PurgeLists, SweepLists
    <3> QED
      BY <1>0, <2>1, <2>2, <2>3
<1>7. ASSUME NEW t \in Tasks, NEW f \in Files, CreatePut(t, f)
      PROVE  NoLeakUnlessFaultOrRace'
  BY <1>0, <1>7 DEF CreatePut
<1>8. ASSUME NEW t \in Tasks, NEW f \in Files, UploadPut(t, f)
      PROVE  NoLeakUnlessFaultOrRace'
  BY <1>0, <1>8 DEF UploadPut
<1>9. ASSUME NEW t \in Tasks, NEW f \in Files, Unlink(t, f)
      PROVE  NoLeakUnlessFaultOrRace'
  BY <1>0, <1>9 DEF Unlink, Become, Without, Idle
<1>10. ASSUME NEW t \in Tasks, NEW f \in Files, UnlinkFails(t, f)
      PROVE  NoLeakUnlessFaultOrRace'
  BY <1>0, <1>10 DEF UnlinkFails, Become, Without, Idle
<1>11. ASSUME NEW t \in Tasks, CreateCommit(t)
      PROVE  NoLeakUnlessFaultOrRace'
  BY <1>0, <1>11 DEF CreateCommit, Become, Idle
<1>12. ASSUME NEW t \in Tasks, UploadRow(t)
      PROVE  NoLeakUnlessFaultOrRace'
  BY <1>0, <1>12, SMTT(30) DEF UploadRow, Become, Idle
<1>13. ASSUME NEW t \in Tasks, PurgeDrop(t)
      PROVE  NoLeakUnlessFaultOrRace'
  BY <1>0, <1>13 DEF PurgeDrop, Drop, Become, Idle
<1>14. ASSUME NEW t \in Tasks, NEW r \in Records, SweepVisit(t, r)
      PROVE  NoLeakUnlessFaultOrRace'
  <2>1. \A g \in Files : InHand(g) => InHand(g)'
    <3> HIDE DEF BinInv, TypeOK, Task, Records, Exists, Writes, Sweeps, Shapes, Stale, Holds
    <3>1. TypeOK
      BY DEF BinInv
    <3> QED
      BY <3>1, <1>14, Visited DEF InHand
  <2>2. UNCHANGED <<rows, blobs, key, faults>>
    <3> HIDE DEF BinInv, TypeOK
    <3>1. TypeOK
      BY DEF BinInv
    <3> QED
      BY <3>1, <1>14, Visited
  <2>3. \A f \in blobs : f \in Files
    BY DEF TypeOK
  <2> QED
    <3> HIDE DEF TypeOK, Task, Records, Exists, Writes, Sweeps, Shapes, Stale, Holds, InHand,
             OneHand, RemovalsMeant, GoneWasMet, PurgeLists, SweepLists
    <3> QED
      BY <1>0, <2>1, <2>2, <2>3
<1>15. ASSUME NEW t \in Tasks, SweepTickets(t)
      PROVE  NoLeakUnlessFaultOrRace'
  <2>1. \A g \in Files : InHand(g) => InHand(g)'
    <3> HIDE DEF BinInv, TypeOK, Task, Records, Exists, Writes, Sweeps, Shapes, Stale, Holds
    <3>1. TypeOK
      BY DEF BinInv
    <3> QED
      BY <3>1, <1>15, TicketsListed DEF InHand
  <2>2. UNCHANGED <<rows, blobs, key, faults>>
    <3> HIDE DEF BinInv, TypeOK
    <3>1. TypeOK
      BY DEF BinInv
    <3> QED
      BY <3>1, <1>15, TicketsListed
  <2>3. \A f \in blobs : f \in Files
    BY DEF TypeOK
  <2> QED
    <3> HIDE DEF TypeOK, Task, Records, Exists, Writes, Sweeps, Shapes, Stale, Holds, InHand,
             OneHand, RemovalsMeant, GoneWasMet, PurgeLists, SweepLists
    <3> QED
      BY <1>0, <2>1, <2>2, <2>3
<1>16. ASSUME NEW t \in Tasks, SweepDrop(t)
      PROVE  NoLeakUnlessFaultOrRace'
  BY <1>0, <1>16 DEF SweepDrop, SweepDropWhere, Drop, Become, Idle
<1>17. ASSUME NEW t \in Tasks, Fail(t)
      PROVE  NoLeakUnlessFaultOrRace'
  BY <1>0, <1>17 DEF Fail, Become, Idle
<1>18. ASSUME NEW r \in Records, SoftDelete(r) \/ Restore(r) \/ Age(r)
      PROVE  NoLeakUnlessFaultOrRace'
  BY <1>0, <1>18 DEF SoftDelete, Restore, Age, Idle
<1> QED
  BY <1>1, <1>2, <1>3, <1>4, <1>5, <1>6, <1>7, <1>8, <1>9,
     <1>10, <1>11, <1>12, <1>13, <1>14, <1>15, <1>16, <1>17, <1>18
  DEF Next, Step, Ask, Faulty
-----------------------------------------------------------------------------
\* Every step preserves every part.
LEMMA NextPreserves == BinInv /\ [Next]_vars => BinInv'
  BY TypeKept, ShapesKept, CreatesAloneKept, HeldAreKeyedKept, OneHandKept, PutsStayKept,
     RowsBelongKept,
     RemovalsMeantKept, MetKept, NoUploadToExpiredKept, GoneWasMetKept, PurgeListsKept,
     SweepListsKept, FilesOutliveTheBinKept, NoLeakUnlessFaultOrRaceKept
  DEF BinInv

\* The invariant that the others follow from: who holds which file, and what a purge
\* and a sweep have still in hand.
THEOREM BinInvariant == Spec => []BinInv
  BY InitEstablishes, NextPreserves, PTL DEF Spec

\* A file that can be listed can be opened unless its record is being removed this
\* moment, or outlived a removal that a failure cut short or that the record was restored
\* under: uploads put the blob before the row, and nothing else takes the blob of a row.
THEOREM FilesAlwaysSafe == Spec => []FilesSafe
<1>1. BinInv => FilesSafe
  BY DEF BinInv, FilesSafe
<1> QED
  BY <1>1, BinInvariant, PTL

\* Without a fault, only an upload that meets a purge by hand leaves a blob behind: two
\* sweeps at once, or a sweep among restores and uploads, leave none.
THEOREM NoLeakWithoutFaultOrRace == Spec => []NoLeakUnlessFaultOrRace
<1>1. BinInv => NoLeakUnlessFaultOrRace
  BY DEF BinInv
<1> QED
  BY <1>1, BinInvariant, PTL

\* A record disappears only past its window, or by a purge that names it.
THEOREM RestoredIsSpared == Spec => SweepSparesTheRestored
<1> DEFINE Spares == \A r \in Records :
             place[r] # "gone" /\ place'[r] = "gone" =>
               Stale(r) \/ \E t \in Admins : Removes(t, r)
<1>1. BinInv /\ [Next]_vars => [Spares]_vars
  <2> SUFFICES ASSUME BinInv, [Next]_vars, NEW r \in Records,
                      place[r] # "gone", place'[r] = "gone"
               PROVE  Stale(r) \/ \E t \in Admins : Removes(t, r)
    OBVIOUS
  <2>1. place \in [Records -> {"absent", "live", "bin", "gone"}]
    BY DEF BinInv, TypeOK
  <2>2. ~(\E q \in Records : SoftDelete(q) \/ Restore(q) \/ Age(q))
    BY <2>1 DEF SoftDelete, Restore, Age
  <2>3. ASSUME NEW t \in Tasks, PurgeDrop(t)
        PROVE  t \in Admins /\ Removes(t, r)
    BY <2>3 DEF PurgeDrop, Drop, Removes, BinInv, Shapes
  <2>4. ASSUME NEW t \in Tasks, SweepDrop(t)
        PROVE  Stale(r)
    BY <2>4 DEF SweepDrop, SweepDropWhere, Drop
  <2>5. ASSUME NEW t \in Tasks, CreateCommit(t)
        PROVE  FALSE
    BY <2>1, <2>5 DEF CreateCommit
  <2>6. ~UNCHANGED place
    OBVIOUS
  <2> QED
    BY <2>2, <2>3, <2>4, <2>5, <2>6
    DEF Next, Ask, Step, Faulty, Create, Upload, Erase, Purge, SweepAssets, CreatePut,
        UploadPut, Unlink, UnlinkFails, UploadRow, SweepVisit, SweepTickets, Fail, vars
<1> QED
  BY <1>1, BinInvariant, PTL DEF Spec, SweepSparesTheRestored
=============================================================================
