------------------------- MODULE AssetRegisterProofs -------------------------
(***************************************************************************)
(* Machine-checked proofs about AssetRegister, for any sets of employees,   *)
(* assets, sites, tags, forms and requests, and any number of renamings.    *)
(***************************************************************************)
EXTENDS AssetRegister, TLAPS

AssetRow  == [life : Life, cols : Columns]
HolderRow == [life : Life, rev : Revision, active : BOOLEAN]

\* The parts of TypeOK: every table's type, and the constraints of the schema.
TablesOK ==
  /\ employee \in [Employees -> HolderRow]
  /\ site \in [Sites -> HolderRow]
  /\ behind \in [Assets -> {"no", "overlap", "import", "bin", "purge", "site"}]
  /\ loose \in [Assets -> {"no", "written", "bin", "edited"}]

HoldersExist ==
  \A a \in Assets : Exists(asset[a]) =>
    /\ asset[a].cols.emp # None => Exists(employee[asset[a].cols.emp])
    /\ asset[a].cols.site # None => Exists(site[asset[a].cols.site])
    /\ asset[a].cols.emp = None \/ asset[a].cols.site = None

\* A request writes a row of its kind, and deletes a site where it has seen nothing.
TasksFit ==
  \A t \in Requests :
    /\ task[t].op \in {"insert", "write"} => task[t].on \in Assets
    /\ task[t].op = "deleteSite" => task[t].on \in Sites /\ task[t].seen = {}

\* HolderNamed and OffboardedReturn, in the recycle bin too.
NamedOrNoted ==
  \A a \in Assets : Exists(asset[a]) => behind[a] # "no" \/ Current(asset[a].cols)

ReturnedOrNoted ==
  \A a \in Assets : Exists(asset[a]) /\ asset[a].cols.emp # None /\ asset[a].cols.status = "active" =>
    employee[asset[a].cols.emp].active \/ loose[a] # "no"

RegisterInv ==
  /\ TypeOK
  /\ TasksFit
  /\ TagsUnique
  /\ NamedOrNoted
  /\ ReturnedOrNoted
-----------------------------------------------------------------------------
\* The columns of a row that a form asks for.
LEMMA RowTyped ==
  ASSUME TypeOK, NEW f \in Forms, NEW e \in Employees \union {None}, NEW s \in Sites \union {None}
  PROVE  Row(f, e, s) \in Columns
<1>1. 0 \in Revision
  BY RegisterAssumption DEF Revision
<1>2. f.tag \in Tags \union {None} /\ f.status \in Statuses
  BY RegisterAssumption DEF Statuses
<1>3. Assignment(e, s).emp \in Employees \union {None} /\ Assignment(e, s).site \in Sites \union {None}
  BY DEF Assignment
<1>4. Assignment(e, s).name \in Copy
  BY <1>1 DEF Assignment, Copy, Blank, TypeOK
<1> QED
  BY <1>2, <1>3, <1>4 DEF Row, Columns

\* What the insert or the update of an asset writes, if the database accepts it.
LEMMA Committed ==
  ASSUME NEW t \in Requests, TypeOK, TasksFit, CommitAsset(t)
  PROVE  /\ task[t].on \in Assets /\ task[t].op \in {"insert", "write"}
         /\ task'[t] = Idle /\ \A q \in Requests : q # t => task'[q] = task[q]
         /\ UNCHANGED <<employee, site>>
         /\ \/ UNCHANGED <<asset, behind, loose>>
            \/ /\ Accepted(task[t])
               /\ asset'[task[t].on].cols = task[t].row
               /\ asset'[task[t].on].life = IF task[t].op = "insert" THEN "live" ELSE asset[task[t].on].life
               /\ asset'[task[t].on] \in AssetRow
               /\ behind'[task[t].on] = IF Current(task[t].row) THEN "no" ELSE "overlap"
               /\ loose'[task[t].on] = IF task[t].row.emp # None /\ ~employee[task[t].row.emp].active
                                       THEN "written" ELSE "no"
               /\ \A a \in Assets : a # task[t].on =>
                    asset'[a] = asset[a] /\ behind'[a] = behind[a] /\ loose'[a] = loose[a]
<1>1. task[t].on \in Assets /\ task[t].op \in {"insert", "write"}
  BY DEF CommitAsset, TasksFit
<1>2. task'[t] = Idle /\ \A q \in Requests : q # t => task'[q] = task[q]
  BY DEF CommitAsset, TypeOK
<1>3. CASE Accepted(task[t])
  <2> PICK a \in Assets : a = task[t].on
    BY <1>1
  <2> PICK w \in Columns : w = task[t].row
    BY DEF TypeOK, Task
  <2> PICK life \in Life : life = IF task[t].op = "insert" THEN "live" ELSE asset[a].life
    BY DEF TypeOK, Life
  <2>1. asset' = [asset EXCEPT ![a] = [asset[a] EXCEPT !.cols = w, !.life = life]]
    BY <1>3 DEF CommitAsset
  <2>2. asset \in [Assets -> AssetRow] /\ asset[a] \in AssetRow
    BY DEF TypeOK, AssetRow
  <2>3. /\ [asset[a] EXCEPT !.cols = w, !.life = life] \in AssetRow
        /\ [asset[a] EXCEPT !.cols = w, !.life = life].cols = w
        /\ [asset[a] EXCEPT !.cols = w, !.life = life].life = life
    BY <2>2 DEF AssetRow
  <2>4. /\ asset'[a].cols = w /\ asset'[a].life = life /\ asset'[a] \in AssetRow
        /\ \A b \in Assets : b # a => asset'[b] = asset[b]
    BY <2>1, <2>2, <2>3
  <2>5. /\ behind'[a] = IF Current(w) THEN "no" ELSE "overlap"
        /\ loose'[a] = IF w.emp # None /\ ~employee[w.emp].active THEN "written" ELSE "no"
        /\ \A b \in Assets : b # a => behind'[b] = behind[b] /\ loose'[b] = loose[b]
    BY <1>3 DEF CommitAsset, TypeOK
  <2> QED
    BY <1>1, <1>2, <1>3, <2>4, <2>5 DEF CommitAsset
<1>4. CASE ~Accepted(task[t])
  BY <1>1, <1>2, <1>4 DEF CommitAsset
<1> QED
  BY <1>3, <1>4

\* What a renaming writes: the employee's row, and the copies that are not in the bin.
Renaming(e, rev, active) ==
  /\ employee[e].life = "live" /\ employee'[e].life = "live"
  /\ employee'[e].rev = rev /\ employee'[e].active = active
  /\ \A d \in Employees : d # e => employee'[d] = employee[d]
  /\ \A a \in LiveHeldBy(e) :
       /\ asset'[a] \in AssetRow /\ asset'[a].life = asset[a].life
       /\ asset'[a].cols.tag = asset[a].cols.tag /\ asset'[a].cols.status = asset[a].cols.status
       /\ asset'[a].cols.emp = asset[a].cols.emp /\ asset'[a].cols.site = asset[a].cols.site
       /\ asset'[a].cols.name = [of |-> e, rev |-> rev]
  /\ \A a \in Assets : a \notin LiveHeldBy(e) => asset'[a] = asset[a]
  /\ UNCHANGED <<site, task>>

\* That is what the employee form does.
LEMMA Renamed ==
  ASSUME NEW e \in Employees, NEW rev \in Revision, NEW active \in BOOLEAN, TypeOK,
         UpdateEmployee(e, rev, active)
  PROVE  Renaming(e, rev, active)
<1>1. /\ employee[e].life = "live" /\ employee'[e].life = "live"
      /\ employee'[e].rev = rev /\ employee'[e].active = active
      /\ \A d \in Employees : d # e => employee'[d] = employee[d]
  BY DEF UpdateEmployee, TypeOK
<1>2. ASSUME NEW a \in LiveHeldBy(e)
      PROVE  /\ asset'[a] \in AssetRow /\ asset'[a].life = asset[a].life
             /\ asset'[a].cols.tag = asset[a].cols.tag /\ asset'[a].cols.status = asset[a].cols.status
             /\ asset'[a].cols.emp = asset[a].cols.emp /\ asset'[a].cols.site = asset[a].cols.site
             /\ asset'[a].cols.name = [of |-> e, rev |-> rev]
  <2> PICK name \in Copy : name = [of |-> e, rev |-> rev]
    BY DEF Copy
  <2>1. a \in Assets /\ asset[a] \in AssetRow /\ asset[a].cols \in Columns
    BY DEF TypeOK, AssetRow, LiveHeldBy, HeldBy
  <2>2. asset'[a] = [asset[a] EXCEPT !.cols = [asset[a].cols EXCEPT !.name = name]]
    BY <2>1 DEF UpdateEmployee
  <2>3. [asset[a].cols EXCEPT !.name = name] \in Columns
    BY <2>1 DEF Columns
  <2>4. /\ [asset[a].cols EXCEPT !.name = name].tag = asset[a].cols.tag
        /\ [asset[a].cols EXCEPT !.name = name].status = asset[a].cols.status
        /\ [asset[a].cols EXCEPT !.name = name].emp = asset[a].cols.emp
        /\ [asset[a].cols EXCEPT !.name = name].site = asset[a].cols.site
        /\ [asset[a].cols EXCEPT !.name = name].name = name
    BY <2>1 DEF Columns
  <2> QED
    BY <2>1, <2>2, <2>3, <2>4 DEF AssetRow
<1> QED
  BY <1>1, <1>2 DEF UpdateEmployee, Renaming

\* What off-boarding writes: the employee's row, and the status of what goes back.
LEMMA Offboarded ==
  ASSUME NEW e \in Employees, TypeOK, Offboard(e)
  PROVE  /\ employee'[e].life = employee[e].life /\ employee'[e].rev = employee[e].rev
         /\ ~employee'[e].active
         /\ \A d \in Employees : d # e => employee'[d] = employee[d]
         /\ \A a \in Retire(e) :
              /\ asset'[a] \in AssetRow /\ asset'[a].life = asset[a].life
              /\ asset'[a].cols.tag = asset[a].cols.tag /\ asset'[a].cols.status = "return_pending"
              /\ asset'[a].cols.emp = asset[a].cols.emp /\ asset'[a].cols.site = asset[a].cols.site
              /\ asset'[a].cols.name = asset[a].cols.name
         /\ \A a \in Assets : a \notin Retire(e) => asset'[a] = asset[a]
         /\ UNCHANGED <<site, task, behind>>
<1>1. /\ employee'[e].life = employee[e].life /\ employee'[e].rev = employee[e].rev
      /\ ~employee'[e].active
      /\ \A d \in Employees : d # e => employee'[d] = employee[d]
  BY DEF Offboard, TypeOK
<1>2. ASSUME NEW a \in Retire(e)
      PROVE  /\ asset'[a] \in AssetRow /\ asset'[a].life = asset[a].life
             /\ asset'[a].cols.tag = asset[a].cols.tag /\ asset'[a].cols.status = "return_pending"
             /\ asset'[a].cols.emp = asset[a].cols.emp /\ asset'[a].cols.site = asset[a].cols.site
             /\ asset'[a].cols.name = asset[a].cols.name
  <2>1. a \in Assets /\ asset[a] \in AssetRow /\ asset[a].cols \in Columns
    BY DEF TypeOK, AssetRow, Retire, LiveHeldBy, HeldBy
  <2>2. asset'[a] = [asset[a] EXCEPT !.cols = [asset[a].cols EXCEPT !.status = "return_pending"]]
    BY <2>1 DEF Offboard
  <2>3. [asset[a].cols EXCEPT !.status = "return_pending"] \in Columns
    BY <2>1 DEF Columns, Statuses
  <2> QED
    BY <2>1, <2>2, <2>3 DEF AssetRow, Columns
<1> QED
  BY <1>1, <1>2 DEF Offboard

\* What a purge of an employee writes: the assets lose their holder.
LEMMA Released ==
  ASSUME NEW e \in Employees, TypeOK, PurgeEmployee(e)
  PROVE  /\ employee'[e].life = "gone"
         /\ \A d \in Employees : d # e => employee'[d] = employee[d]
         /\ \A d \in Employees : employee'[d].rev = employee[d].rev
         /\ \A a \in HeldBy(e) :
              /\ asset'[a] \in AssetRow /\ asset'[a].life = asset[a].life
              /\ asset'[a].cols = [asset[a].cols EXCEPT !.emp = None]
              /\ asset'[a].cols.tag = asset[a].cols.tag /\ asset'[a].cols.status = asset[a].cols.status
              /\ asset'[a].cols.emp = None /\ asset'[a].cols.site = asset[a].cols.site
         /\ \A a \in Assets : a \notin HeldBy(e) => asset'[a] = asset[a]
         /\ UNCHANGED <<site, task, loose>>
<1>1. /\ employee'[e].life = "gone"
      /\ \A d \in Employees : d # e => employee'[d] = employee[d]
      /\ \A d \in Employees : employee'[d].rev = employee[d].rev
  BY DEF PurgeEmployee, TypeOK
<1>2. ASSUME NEW a \in HeldBy(e)
      PROVE  /\ asset'[a] \in AssetRow /\ asset'[a].life = asset[a].life
             /\ asset'[a].cols = [asset[a].cols EXCEPT !.emp = None]
             /\ asset'[a].cols.tag = asset[a].cols.tag /\ asset'[a].cols.status = asset[a].cols.status
             /\ asset'[a].cols.emp = None /\ asset'[a].cols.site = asset[a].cols.site
  <2>1. a \in Assets /\ asset[a] \in AssetRow /\ asset[a].cols \in Columns
    BY DEF TypeOK, AssetRow, HeldBy
  <2>2. asset'[a] = [asset[a] EXCEPT !.cols = [asset[a].cols EXCEPT !.emp = None]]
    BY <2>1 DEF PurgeEmployee
  <2>3. [asset[a].cols EXCEPT !.emp = None] \in Columns
    BY <2>1 DEF Columns
  <2> QED
    BY <2>1, <2>2, <2>3 DEF AssetRow, Columns
<1> QED
  BY <1>1, <1>2 DEF PurgeEmployee

\* What the delete of a site writes, if it is still there: the assets lose their place.
Emptied(s) ==
  /\ Exists(site[s]) /\ site'[s].life = "gone" /\ site'[s].rev = site[s].rev
  /\ \A z \in Sites : z # s => site'[z] = site[z]
  /\ \A a \in SitedAt(s) :
       /\ asset'[a] \in AssetRow /\ asset'[a].life = asset[a].life
       /\ asset'[a].cols = [asset[a].cols EXCEPT !.site = None]
       /\ asset'[a].cols.tag = asset[a].cols.tag /\ asset'[a].cols.status = asset[a].cols.status
       /\ asset'[a].cols.emp = asset[a].cols.emp /\ asset'[a].cols.site = None
       /\ behind'[a] = "overlap"
  /\ \A a \in Assets : a \notin SitedAt(s) => asset'[a] = asset[a] /\ behind'[a] = behind[a]

\* A request that deletes a site either finds it in use or does that.
LEMMA Closed ==
  ASSUME NEW t \in Requests, TypeOK, TasksFit, DeleteSite(t)
  PROVE  /\ task'[t] = Idle /\ \A q \in Requests : q # t => task'[q] = task[q]
         /\ UNCHANGED <<employee, loose>>
         /\ \/ UNCHANGED <<site, asset, behind>>
            \/ \E s \in Sites : Emptied(s)
<1>1. task'[t] = Idle /\ \A q \in Requests : q # t => task'[q] = task[q]
  BY DEF DeleteSite, TypeOK
<1>2. CASE Exists(site[task[t].on])
  <2> PICK s \in Sites : s = task[t].on
    BY DEF DeleteSite, TasksFit
  <2>1. task[t].seen = {}
    BY DEF DeleteSite, TasksFit
  <2>2. site'[s].life = "gone" /\ site'[s].rev = site[s].rev /\ \A z \in Sites : z # s => site'[z] = site[z]
    BY <1>2 DEF DeleteSite, TypeOK
  <2>3. ASSUME NEW a \in SitedAt(s)
        PROVE  /\ asset'[a] \in AssetRow /\ asset'[a].life = asset[a].life
               /\ asset'[a].cols = [asset[a].cols EXCEPT !.site = None]
               /\ asset'[a].cols.tag = asset[a].cols.tag /\ asset'[a].cols.status = asset[a].cols.status
               /\ asset'[a].cols.emp = asset[a].cols.emp /\ asset'[a].cols.site = None
               /\ behind'[a] = "overlap"
    <3>1. a \in Assets /\ asset[a] \in AssetRow /\ asset[a].cols \in Columns
      BY DEF TypeOK, AssetRow, SitedAt
    <3>2. asset'[a] = [asset[a] EXCEPT !.cols = [asset[a].cols EXCEPT !.site = None]]
      BY <1>2, <3>1 DEF DeleteSite
    <3>3. [asset[a].cols EXCEPT !.site = None] \in Columns
      BY <3>1 DEF Columns
    <3>4. behind'[a] = "overlap"
      BY <1>2, <2>1, <3>1 DEF DeleteSite
    <3> QED
      BY <3>1, <3>2, <3>3, <3>4 DEF AssetRow, Columns
  <2>4. \A a \in Assets : a \notin SitedAt(s) => asset'[a] = asset[a] /\ behind'[a] = behind[a]
    BY <1>2 DEF DeleteSite
  <2> QED
    BY <1>1, <1>2, <2>2, <2>3, <2>4 DEF DeleteSite, Emptied
<1>3. CASE ~Exists(site[task[t].on])
  BY <1>1, <1>3 DEF DeleteSite
<1> QED
  BY <1>2, <1>3

\* What a form writes about a site.
LEMMA SiteWritten ==
  ASSUME NEW s \in Sites, NEW rev \in Revision, NEW active \in BOOLEAN, TypeOK,
         UpdateSite(s, rev, active)
  PROVE  /\ site'[s].life = site[s].life /\ site'[s].rev = rev
         /\ \A z \in Sites : z # s => site'[z] = site[z]
  BY DEF UpdateSite, TypeOK

\* A copy is as current as it was if neither it nor what it copies changes.
LEMMA CurrentKept ==
  ASSUME NEW a \in Assets, asset'[a] = asset[a],
         asset[a].cols.emp # None => employee'[asset[a].cols.emp].rev = employee[asset[a].cols.emp].rev,
         asset[a].cols.emp = None /\ asset[a].cols.site # None =>
           site'[asset[a].cols.site].rev = site[asset[a].cols.site].rev
  PROVE  Current(asset[a].cols)' <=> Current(asset[a].cols)
<1> USE DEF Current, Assignment
<1>1. CASE asset[a].cols.emp # None
  BY <1>1
<1>2. CASE asset[a].cols.emp = None /\ asset[a].cols.site # None
  BY <1>2
<1>3. CASE asset[a].cols.emp = None /\ asset[a].cols.site = None
  BY <1>3
<1> QED
  BY <1>1, <1>2, <1>3
-----------------------------------------------------------------------------
\* An empty register satisfies every part of the invariant.
LEMMA InitEstablishes == Init => RegisterInv
<1> SUFFICES ASSUME Init
             PROVE  RegisterInv
  OBVIOUS
<1> USE RegisterAssumption DEF Init, Exists
<1>1. TypeOK
  BY DEF TypeOK, Task, Idle, Columns, NoRow, Blank, Copy, Revision, Statuses, Life
<1>2. TasksFit /\ TagsUnique /\ NamedOrNoted /\ ReturnedOrNoted
  BY DEF TasksFit, Idle, TagsUnique, NamedOrNoted, ReturnedOrNoted
<1> QED
  BY <1>1, <1>2 DEF RegisterInv

\* The assets keep their type,
LEMMA AssetsTyped == RegisterInv /\ [Next]_vars => asset' \in [Assets -> AssetRow]
<1> SUFFICES ASSUME RegisterInv, [Next]_vars
             PROVE  asset' \in [Assets -> AssetRow]
  OBVIOUS
<1>0. asset \in [Assets -> AssetRow] /\ TypeOK /\ TasksFit
  BY DEF RegisterInv, TypeOK, HoldersExist, TablesOK, HolderRow, AssetRow
<1> USE RegisterAssumption
<1>1. CASE UNCHANGED vars
  BY <1>0, <1>1 DEF vars
<1>2. ASSUME NEW t \in Requests, NEW f \in Forms, CreateAsset(t, f)
      PROVE  asset' \in [Assets -> AssetRow]
  BY <1>0, <1>2
  DEF CreateAsset, Begin, Free, Idle, AssetRow, Life, Columns, NoRow, Statuses, Copy,
      Blank, Revision
<1>3. ASSUME NEW t \in Requests, NEW f \in Forms, UpdateAsset(t, f)
      PROVE  asset' \in [Assets -> AssetRow]
  BY <1>0, <1>3
  DEF UpdateAsset, Begin, Free, Idle, AssetRow, Life, Columns, NoRow, Statuses, Copy,
      Blank, Revision
<1>4. ASSUME NEW t \in Requests, NEW f \in Forms, ImportAsset(t, f)
      PROVE  asset' \in [Assets -> AssetRow]
  BY <1>0, <1>4
  DEF ImportAsset, Begin, Free, Idle, AssetRow, Life, Columns, NoRow, Statuses, Copy,
      Blank, Revision
<1>5. ASSUME NEW t \in Requests, CommitAsset(t)
      PROVE  asset' \in [Assets -> AssetRow]
  <2>1. \A a \in Assets : asset'[a] \in AssetRow
    BY <1>0, <1>5, Committed
  <2>2. asset' = [a \in Assets |-> asset'[a]] \/ UNCHANGED asset
    BY <1>0, <1>5 DEF CommitAsset
  <2> QED
    BY <1>0, <2>1, <2>2
<1>6. ASSUME NEW a \in Assets, DeleteAsset(a)
      PROVE  asset' \in [Assets -> AssetRow]
  BY <1>0, <1>6 DEF DeleteAsset, AssetRow, Life, Columns, NoRow, Statuses, Copy, Blank, Revision
<1>7. ASSUME NEW a \in Assets, RestoreAsset(a)
      PROVE  asset' \in [Assets -> AssetRow]
  BY <1>0, <1>7
  DEF RestoreAsset, AssetRow, Life, Columns, NoRow, Statuses, Copy, Blank, Revision
<1>8. ASSUME NEW a \in Assets, PurgeAsset(a)
      PROVE  asset' \in [Assets -> AssetRow]
  BY <1>0, <1>8 DEF PurgeAsset, AssetRow, Life, Columns, NoRow, Statuses, Copy, Blank, Revision
<1>9. ASSUME NEW e \in Employees, NEW active \in BOOLEAN, CreateEmployee(e, active)
      PROVE  asset' \in [Assets -> AssetRow]
  BY <1>0, <1>9
  DEF CreateEmployee, AssetRow, Life, Columns, NoRow, Statuses, Copy, Blank, Revision
<1>10. ASSUME NEW e \in Employees, NEW rev \in Revision, NEW active \in BOOLEAN,
             UpdateEmployee(e, rev, active)
      PROVE  asset' \in [Assets -> AssetRow]
  <2>1. \A a \in Assets : asset'[a] \in AssetRow
    BY <1>0, <1>10, Renamed DEF Renaming
  <2>2. asset' = [a \in Assets |-> asset'[a]] \/ UNCHANGED asset
    BY <1>0, <1>10 DEF UpdateEmployee
  <2> QED
    BY <1>0, <2>1, <2>2
<1>11. ASSUME NEW e \in Employees, NEW rev \in Revision, NEW active \in BOOLEAN,
             ImportEmployee(e, rev, active)
      PROVE  asset' \in [Assets -> AssetRow]
  BY <1>0, <1>11
  DEF ImportEmployee, AssetRow, Life, Columns, NoRow, Statuses, Copy, Blank, Revision
<1>12. ASSUME NEW e \in Employees, Offboard(e)
      PROVE  asset' \in [Assets -> AssetRow]
  <2>1. \A a \in Assets : asset'[a] \in AssetRow
    BY <1>0, <1>12, Offboarded
  <2>2. asset' = [a \in Assets |-> asset'[a]] \/ UNCHANGED asset
    BY <1>0, <1>12 DEF Offboard
  <2> QED
    BY <1>0, <2>1, <2>2
<1>13. ASSUME NEW e \in Employees, Reactivate(e)
      PROVE  asset' \in [Assets -> AssetRow]
  BY <1>0, <1>13 DEF Reactivate, AssetRow, Life, Columns, NoRow, Statuses, Copy, Blank, Revision
<1>14. ASSUME NEW e \in Employees, DeleteEmployee(e)
      PROVE  asset' \in [Assets -> AssetRow]
  BY <1>0, <1>14
  DEF DeleteEmployee, AssetRow, Life, Columns, NoRow, Statuses, Copy, Blank, Revision
<1>15. ASSUME NEW e \in Employees, RestoreEmployee(e)
      PROVE  asset' \in [Assets -> AssetRow]
  BY <1>0, <1>15
  DEF RestoreEmployee, AssetRow, Life, Columns, NoRow, Statuses, Copy, Blank, Revision
<1>16. ASSUME NEW e \in Employees, PurgeEmployee(e)
      PROVE  asset' \in [Assets -> AssetRow]
  <2>1. \A a \in Assets : asset'[a] \in AssetRow
    BY <1>0, <1>16, Released
  <2>2. asset' = [a \in Assets |-> asset'[a]] \/ UNCHANGED asset
    BY <1>0, <1>16 DEF PurgeEmployee
  <2> QED
    BY <1>0, <2>1, <2>2
<1>17. ASSUME NEW s \in Sites, CreateSite(s)
      PROVE  asset' \in [Assets -> AssetRow]
  BY <1>0, <1>17 DEF CreateSite, AssetRow, Life, Columns, NoRow, Statuses, Copy, Blank, Revision
<1>18. ASSUME NEW s \in Sites, NEW rev \in Revision, NEW active \in BOOLEAN,
             UpdateSite(s, rev, active)
      PROVE  asset' \in [Assets -> AssetRow]
  BY <1>0, <1>18, SiteWritten
  DEF UpdateSite, AssetRow, Life, Columns, NoRow, Statuses, Copy, Blank, Revision
<1>19. ASSUME NEW t \in Requests, NEW s \in Sites, ReadSite(t, s)
      PROVE  asset' \in [Assets -> AssetRow]
  BY <1>0, <1>19
  DEF ReadSite, Begin, Free, Idle, AssetRow, Life, Columns, NoRow, Statuses, Copy,
      Blank, Revision
<1>20. ASSUME NEW t \in Requests, DeleteSite(t)
      PROVE  asset' \in [Assets -> AssetRow]
  <2>1. ASSUME NEW s \in Sites, Emptied(s)
        PROVE  \A a \in Assets : asset'[a] \in AssetRow
    BY <1>0, <2>1 DEF Emptied
  <2>2. \A a \in Assets : asset'[a] \in AssetRow
    BY <1>0, <1>20, <2>1, Closed
  <2>3. asset' = [a \in Assets |-> asset'[a]] \/ UNCHANGED asset
    BY <1>0, <1>20 DEF DeleteSite
  <2> QED
    BY <1>0, <2>2, <2>3
<1> QED
  BY <1>1, <1>2, <1>3, <1>4, <1>5, <1>6, <1>7, <1>8, <1>9, <1>10,
     <1>11, <1>12, <1>13, <1>14, <1>15, <1>16, <1>17, <1>18, <1>19, <1>20
  DEF Next

\* the requests theirs,
LEMMA TasksTyped == RegisterInv /\ [Next]_vars => task' \in [Requests -> Task]
<1> SUFFICES ASSUME RegisterInv, [Next]_vars
             PROVE  task' \in [Requests -> Task]
  OBVIOUS
<1>0. task \in [Requests -> Task] /\ TypeOK /\ TasksFit
  BY DEF RegisterInv, TypeOK, HoldersExist, TablesOK, HolderRow, AssetRow
<1> USE RegisterAssumption DEF Task
<1>1. CASE UNCHANGED vars
  BY <1>0, <1>1 DEF vars
<1>2. ASSUME NEW t \in Requests, NEW f \in Forms, CreateAsset(t, f)
      PROVE  task' \in [Requests -> Task]
  <2>1. Row(f, f.emp, f.site) \in Columns
    BY <1>0, RowTyped
  <2> QED
    BY <1>0, <1>2, <2>1 DEF CreateAsset, Begin
<1>3. ASSUME NEW t \in Requests, NEW f \in Forms, UpdateAsset(t, f)
      PROVE  task' \in [Requests -> Task]
  <2>1. Row(f, f.emp, f.site) \in Columns
    BY <1>0, RowTyped
  <2> QED
    BY <1>0, <1>3, <2>1 DEF UpdateAsset, Begin
<1>4. ASSUME NEW t \in Requests, NEW f \in Forms, ImportAsset(t, f)
      PROVE  task' \in [Requests -> Task]
  <2> DEFINE holder == IF f.emp # None /\ employee[f.emp].life = "live" THEN f.emp ELSE None
             spot   == IF f.site # None /\ Exists(site[f.site]) THEN f.site ELSE None
             match  == f.tag # None /\ asset[f.on].life = "live" /\ asset[f.on].cols.tag = f.tag
  <2>1. holder \in Employees \union {None} /\ spot \in Sites \union {None}
    OBVIOUS
  <2>2. task' = [task EXCEPT ![t] = [op |-> IF match THEN "write" ELSE "insert", on |-> f.on,
                                     row |-> Row(f, holder, spot), seen |-> {}]]
    BY <1>4 DEF ImportAsset, Begin
  <2> HIDE DEF holder, spot, match
  <2>3. Row(f, holder, spot) \in Columns
    BY <1>0, <2>1, RowTyped
  <2> QED
    BY <1>0, <2>2, <2>3
<1>5. ASSUME NEW t \in Requests, CommitAsset(t)
      PROVE  task' \in [Requests -> Task]
  BY <1>0, <1>5 DEF CommitAsset, Idle, NoRow, Columns, Statuses, Copy, Blank, Revision
<1>6. ASSUME NEW a \in Assets, DeleteAsset(a)
      PROVE  task' \in [Requests -> Task]
  BY <1>0, <1>6 DEF DeleteAsset
<1>7. ASSUME NEW a \in Assets, RestoreAsset(a)
      PROVE  task' \in [Requests -> Task]
  BY <1>0, <1>7 DEF RestoreAsset
<1>8. ASSUME NEW a \in Assets, PurgeAsset(a)
      PROVE  task' \in [Requests -> Task]
  BY <1>0, <1>8 DEF PurgeAsset
<1>9. ASSUME NEW e \in Employees, NEW active \in BOOLEAN, CreateEmployee(e, active)
      PROVE  task' \in [Requests -> Task]
  BY <1>0, <1>9 DEF CreateEmployee
<1>10. ASSUME NEW e \in Employees, NEW rev \in Revision, NEW active \in BOOLEAN,
             UpdateEmployee(e, rev, active)
      PROVE  task' \in [Requests -> Task]
  BY <1>0, <1>10, Renamed DEF UpdateEmployee
<1>11. ASSUME NEW e \in Employees, NEW rev \in Revision, NEW active \in BOOLEAN,
             ImportEmployee(e, rev, active)
      PROVE  task' \in [Requests -> Task]
  BY <1>0, <1>11 DEF ImportEmployee
<1>12. ASSUME NEW e \in Employees, Offboard(e)
      PROVE  task' \in [Requests -> Task]
  BY <1>0, <1>12, Offboarded DEF Offboard
<1>13. ASSUME NEW e \in Employees, Reactivate(e)
      PROVE  task' \in [Requests -> Task]
  BY <1>0, <1>13 DEF Reactivate
<1>14. ASSUME NEW e \in Employees, DeleteEmployee(e)
      PROVE  task' \in [Requests -> Task]
  BY <1>0, <1>14 DEF DeleteEmployee
<1>15. ASSUME NEW e \in Employees, RestoreEmployee(e)
      PROVE  task' \in [Requests -> Task]
  BY <1>0, <1>15 DEF RestoreEmployee
<1>16. ASSUME NEW e \in Employees, PurgeEmployee(e)
      PROVE  task' \in [Requests -> Task]
  BY <1>0, <1>16, Released DEF PurgeEmployee
<1>17. ASSUME NEW s \in Sites, CreateSite(s)
      PROVE  task' \in [Requests -> Task]
  BY <1>0, <1>17 DEF CreateSite
<1>18. ASSUME NEW s \in Sites, NEW rev \in Revision, NEW active \in BOOLEAN,
             UpdateSite(s, rev, active)
      PROVE  task' \in [Requests -> Task]
  BY <1>0, <1>18, SiteWritten DEF UpdateSite
<1>19. ASSUME NEW t \in Requests, NEW s \in Sites, ReadSite(t, s)
      PROVE  task' \in [Requests -> Task]
  BY <1>0, <1>19 DEF ReadSite, Begin, NoRow, Columns, Statuses, Copy, Blank, Revision, SitedAt
<1>20. ASSUME NEW t \in Requests, DeleteSite(t)
      PROVE  task' \in [Requests -> Task]
  BY <1>0, <1>20 DEF DeleteSite, Idle, NoRow, Columns, Statuses, Copy, Blank, Revision
<1> QED
  BY <1>1, <1>2, <1>3, <1>4, <1>5, <1>6, <1>7, <1>8, <1>9, <1>10,
     <1>11, <1>12, <1>13, <1>14, <1>15, <1>16, <1>17, <1>18, <1>19, <1>20
  DEF Next

\* and the other tables and the observers.
LEMMA TablesTyped == RegisterInv /\ [Next]_vars => TablesOK'
<1> SUFFICES ASSUME RegisterInv, [Next]_vars
             PROVE  TablesOK'
  OBVIOUS
<1>0. TablesOK /\ TasksFit
  BY DEF RegisterInv, TypeOK, HoldersExist, TablesOK, HolderRow, AssetRow
<1> USE RegisterAssumption DEF TablesOK, HolderRow, Life
<1>1. CASE UNCHANGED vars
  BY <1>0, <1>1 DEF vars
<1>2. ASSUME NEW t \in Requests, NEW f \in Forms, CreateAsset(t, f)
      PROVE  TablesOK'
  BY <1>0, <1>2 DEF CreateAsset, Begin, Free, Idle, Edited, Revision
<1>3. ASSUME NEW t \in Requests, NEW f \in Forms, UpdateAsset(t, f)
      PROVE  TablesOK'
  BY <1>0, <1>3 DEF UpdateAsset, Begin, Free, Idle, Edited, Revision
<1>4. ASSUME NEW t \in Requests, NEW f \in Forms, ImportAsset(t, f)
      PROVE  TablesOK'
  BY <1>0, <1>4 DEF ImportAsset, Begin, Free, Idle, Edited, Revision
<1>5. ASSUME NEW t \in Requests, CommitAsset(t)
      PROVE  TablesOK'
  BY <1>0, <1>5 DEF CommitAsset, Edited, TasksFit
<1>6. ASSUME NEW a \in Assets, DeleteAsset(a)
      PROVE  TablesOK'
  BY <1>0, <1>6 DEF DeleteAsset, Edited, Revision
<1>7. ASSUME NEW a \in Assets, RestoreAsset(a)
      PROVE  TablesOK'
  BY <1>0, <1>7 DEF RestoreAsset, Edited, Revision
<1>8. ASSUME NEW a \in Assets, PurgeAsset(a)
      PROVE  TablesOK'
  BY <1>0, <1>8 DEF PurgeAsset, Edited, Revision
<1>9. ASSUME NEW e \in Employees, NEW active \in BOOLEAN, CreateEmployee(e, active)
      PROVE  TablesOK'
  BY <1>0, <1>9 DEF CreateEmployee, Edited, Revision
<1>10. ASSUME NEW e \in Employees, NEW rev \in Revision, NEW active \in BOOLEAN,
             UpdateEmployee(e, rev, active)
      PROVE  TablesOK'
  <2>1. employee' \in [Employees -> HolderRow] /\ UNCHANGED site
    <3>1. \A row \in HolderRow : [row EXCEPT !.rev = rev, !.active = active] \in HolderRow
      BY DEF HolderRow
    <3>2. employee \in [Employees -> HolderRow]
      BY <1>0 DEF TablesOK
    <3>3. /\ employee' = [employee EXCEPT ![e] = [@ EXCEPT !.rev = rev, !.active = active]]
          /\ UNCHANGED site
      BY <1>10 DEF UpdateEmployee
    <3> HIDE DEF HolderRow
    <3> QED
      BY ONLY <3>1, <3>2, <3>3
  <2>2. behind' \in [Assets -> {"no", "overlap", "import", "bin", "purge", "site"}]
    BY <1>0, <1>10 DEF UpdateEmployee
  <2>3. loose' \in [Assets -> {"no", "written", "bin", "edited"}]
    <3>1. Edited(e, active) /\ loose \in [Assets -> {"no", "written", "bin", "edited"}]
      BY <1>0, <1>10 DEF UpdateEmployee
    <3> QED
      BY ONLY <3>1 DEF Edited
  <2> QED
    BY <1>0, <2>1, <2>2, <2>3
<1>11. ASSUME NEW e \in Employees, NEW rev \in Revision, NEW active \in BOOLEAN,
             ImportEmployee(e, rev, active)
      PROVE  TablesOK'
  BY <1>0, <1>11 DEF ImportEmployee, Edited, Revision
<1>12. ASSUME NEW e \in Employees, Offboard(e)
      PROVE  TablesOK'
  BY <1>0, <1>12, ZenonT(60) DEF Offboard, Edited, TasksFit
<1>13. ASSUME NEW e \in Employees, Reactivate(e)
      PROVE  TablesOK'
  BY <1>0, <1>13, ZenonT(60) DEF Reactivate, Edited, Revision
<1>14. ASSUME NEW e \in Employees, DeleteEmployee(e)
      PROVE  TablesOK'
  BY <1>0, <1>14 DEF DeleteEmployee, Edited, Revision
<1>15. ASSUME NEW e \in Employees, RestoreEmployee(e)
      PROVE  TablesOK'
  BY <1>0, <1>15 DEF RestoreEmployee, Edited, Revision
<1>16. ASSUME NEW e \in Employees, PurgeEmployee(e)
      PROVE  TablesOK'
  BY <1>0, <1>16 DEF PurgeEmployee, Edited, TasksFit
<1>17. ASSUME NEW s \in Sites, CreateSite(s)
      PROVE  TablesOK'
  BY <1>0, <1>17 DEF CreateSite, Edited, Revision
<1>18. ASSUME NEW s \in Sites, NEW rev \in Revision, NEW active \in BOOLEAN,
             UpdateSite(s, rev, active)
      PROVE  TablesOK'
  BY <1>0, <1>18, ZenonT(60) DEF UpdateSite, Edited, TasksFit
<1>19. ASSUME NEW t \in Requests, NEW s \in Sites, ReadSite(t, s)
      PROVE  TablesOK'
  BY <1>0, <1>19 DEF ReadSite, Begin, Free, Idle, Edited, Revision
<1>20. ASSUME NEW t \in Requests, DeleteSite(t)
      PROVE  TablesOK'
  BY <1>0, <1>20 DEF DeleteSite, Edited, TasksFit
<1> QED
  BY <1>1, <1>2, <1>3, <1>4, <1>5, <1>6, <1>7, <1>8, <1>9, <1>10,
     <1>11, <1>12, <1>13, <1>14, <1>15, <1>16, <1>17, <1>18, <1>19, <1>20
  DEF Next

\* HoldersExist: the database refuses an asset whose holder is gone, and takes a holder that
\* goes away from its assets.
LEMMA HoldersExistKept == RegisterInv /\ [Next]_vars => HoldersExist'
<1> SUFFICES ASSUME RegisterInv, [Next]_vars
             PROVE  HoldersExist'
  OBVIOUS
<1>0. HoldersExist /\ TypeOK /\ TasksFit /\ asset \in [Assets -> AssetRow]
      /\ employee \in [Employees -> HolderRow] /\ site \in [Sites -> HolderRow]
  BY DEF RegisterInv, TypeOK, HoldersExist, TablesOK, HolderRow, AssetRow
<1> USE RegisterAssumption DEF HoldersExist, Exists
<1>1. CASE UNCHANGED vars
  BY <1>0, <1>1 DEF vars
<1>2. ASSUME NEW t \in Requests, NEW f \in Forms, CreateAsset(t, f)
      PROVE  HoldersExist'
  BY <1>0, <1>2 DEF CreateAsset, Begin, Free, Idle, HolderRow, AssetRow, NoRow
<1>3. ASSUME NEW t \in Requests, NEW f \in Forms, UpdateAsset(t, f)
      PROVE  HoldersExist'
  BY <1>0, <1>3 DEF UpdateAsset, Begin, Free, Idle, HolderRow, AssetRow, NoRow
<1>4. ASSUME NEW t \in Requests, NEW f \in Forms, ImportAsset(t, f)
      PROVE  HoldersExist'
  BY <1>0, <1>4 DEF ImportAsset, Begin, Free, Idle, HolderRow, AssetRow, NoRow
<1>5. ASSUME NEW t \in Requests, CommitAsset(t)
      PROVE  HoldersExist'
  BY <1>0, <1>5, Committed, SMTT(30)
  DEF HeldBy, SitedAt, Accepted, LiveHeldBy, Retire, HolderRow, AssetRow, NoRow
<1>6. ASSUME NEW a \in Assets, DeleteAsset(a)
      PROVE  HoldersExist'
  BY <1>0, <1>6 DEF DeleteAsset, HolderRow, AssetRow, NoRow
<1>7. ASSUME NEW a \in Assets, RestoreAsset(a)
      PROVE  HoldersExist'
  BY <1>0, <1>7 DEF RestoreAsset, HolderRow, AssetRow, NoRow
<1>8. ASSUME NEW a \in Assets, PurgeAsset(a)
      PROVE  HoldersExist'
  BY <1>0, <1>8 DEF PurgeAsset, HolderRow, AssetRow, NoRow
<1>9. ASSUME NEW e \in Employees, NEW active \in BOOLEAN, CreateEmployee(e, active)
      PROVE  HoldersExist'
  BY <1>0, <1>9 DEF CreateEmployee, HolderRow, AssetRow, NoRow
<1>10. ASSUME NEW e \in Employees, NEW rev \in Revision, NEW active \in BOOLEAN,
             UpdateEmployee(e, rev, active)
      PROVE  HoldersExist'
  <2>0. Renaming(e, rev, active)
    BY <1>0, <1>10, Renamed
  <2> SUFFICES ASSUME NEW a \in Assets, Exists(asset'[a])
               PROVE  /\ asset'[a].cols.emp # None => Exists(employee'[asset'[a].cols.emp])
                      /\ asset'[a].cols.site # None => Exists(site'[asset'[a].cols.site])
                      /\ asset'[a].cols.emp = None \/ asset'[a].cols.site = None
    BY DEF HoldersExist
  <2>1. CASE a \in LiveHeldBy(e)
    BY <2>0, <1>0, <1>10, <2>1 DEF Renaming, LiveHeldBy, HeldBy
  <2>2. CASE a \notin LiveHeldBy(e)
    <3>1. asset'[a] = asset[a] /\ site' = site
      BY <2>0, <2>2 DEF Renaming
    <3>2. \A d \in Employees : employee[d].life = employee'[d].life
      BY <2>0 DEF Renaming
    <3>3. asset[a].cols.emp \in Employees \union {None}
      BY <1>0 DEF AssetRow, Columns
    <3> QED
      BY <1>0, <3>1, <3>2, <3>3
  <2> QED
    BY <2>1, <2>2
<1>11. ASSUME NEW e \in Employees, NEW rev \in Revision, NEW active \in BOOLEAN,
             ImportEmployee(e, rev, active)
      PROVE  HoldersExist'
  BY <1>0, <1>11 DEF ImportEmployee, HolderRow, AssetRow, NoRow
<1>12. ASSUME NEW e \in Employees, Offboard(e)
      PROVE  HoldersExist'
  BY <1>0, <1>12, Offboarded
  DEF Offboard, HeldBy, SitedAt, Accepted, LiveHeldBy, Retire, HolderRow, AssetRow,
      NoRow
<1>13. ASSUME NEW e \in Employees, Reactivate(e)
      PROVE  HoldersExist'
  BY <1>0, <1>13 DEF Reactivate, HolderRow, AssetRow, NoRow
<1>14. ASSUME NEW e \in Employees, DeleteEmployee(e)
      PROVE  HoldersExist'
  BY <1>0, <1>14 DEF DeleteEmployee, HolderRow, AssetRow, NoRow
<1>15. ASSUME NEW e \in Employees, RestoreEmployee(e)
      PROVE  HoldersExist'
  BY <1>0, <1>15 DEF RestoreEmployee, HolderRow, AssetRow, NoRow
<1>16. ASSUME NEW e \in Employees, PurgeEmployee(e)
      PROVE  HoldersExist'
  BY <1>0, <1>16, Released
  DEF PurgeEmployee, HeldBy, SitedAt, Accepted, LiveHeldBy, Retire, HolderRow,
      AssetRow, NoRow
<1>17. ASSUME NEW s \in Sites, CreateSite(s)
      PROVE  HoldersExist'
  BY <1>0, <1>17 DEF CreateSite, HolderRow, AssetRow, NoRow
<1>18. ASSUME NEW s \in Sites, NEW rev \in Revision, NEW active \in BOOLEAN,
             UpdateSite(s, rev, active)
      PROVE  HoldersExist'
  <2>1. UNCHANGED <<asset, employee>>
    BY <1>18 DEF UpdateSite
  <2>2. \A z \in Sites : site'[z].life = site[z].life
    BY <1>0, <1>18, SiteWritten
  <2> QED
    BY <1>0, <2>1, <2>2 DEF AssetRow, Columns
<1>19. ASSUME NEW t \in Requests, NEW s \in Sites, ReadSite(t, s)
      PROVE  HoldersExist'
  BY <1>0, <1>19 DEF ReadSite, Begin, Free, Idle, HolderRow, AssetRow, NoRow
<1>20. ASSUME NEW t \in Requests, DeleteSite(t)
      PROVE  HoldersExist'
  <2>1. CASE UNCHANGED <<site, asset, behind>>
    BY <1>0, <1>20, <2>1, Closed
  <2>2. ASSUME NEW s \in Sites, Emptied(s)
        PROVE  HoldersExist'
    <3>1. \A a \in Assets :
            /\ asset'[a].life = asset[a].life /\ asset'[a].cols.tag = asset[a].cols.tag
            /\ asset'[a].cols.status = asset[a].cols.status /\ asset'[a].cols.emp = asset[a].cols.emp
      BY <2>2 DEF Emptied
    <3>0. \A a \in Assets : Exists(asset[a]) =>
            asset'[a].cols.site = None \/
              (asset'[a].cols.site = asset[a].cols.site /\ site'[asset[a].cols.site] = site[asset[a].cols.site])
      <4> SUFFICES ASSUME NEW a \in Assets, Exists(asset[a]), asset'[a].cols.site # None
                   PROVE  /\ asset'[a].cols.site = asset[a].cols.site
                          /\ site'[asset[a].cols.site] = site[asset[a].cols.site]
        OBVIOUS
      <4>1. a \notin SitedAt(s)
        BY <2>2 DEF Emptied
      <4>2. asset'[a] = asset[a] /\ asset[a].cols.site # s
        BY <2>2, <4>1 DEF Emptied, SitedAt
      <4>3. asset[a].cols.site \in Sites \union {None}
        BY <1>0 DEF AssetRow, Columns
      <4> QED
        BY <2>2, <4>2, <4>3 DEF Emptied
    <3>2. UNCHANGED <<employee, loose>>
      BY <1>0, <1>20, Closed
    <3> QED
      BY <1>0, <3>1, <3>0, <3>2 DEF AssetRow, Columns
  <2> QED
    BY <1>0, <1>20, <2>1, <2>2, Closed
<1> QED
  BY <1>1, <1>2, <1>3, <1>4, <1>5, <1>6, <1>7, <1>8, <1>9, <1>10,
     <1>11, <1>12, <1>13, <1>14, <1>15, <1>16, <1>17, <1>18, <1>19, <1>20
  DEF Next

\* TypeOK is these parts.
LEMMA TypeKept == RegisterInv /\ [Next]_vars => TypeOK'
<1> SUFFICES ASSUME RegisterInv, [Next]_vars
             PROVE  TypeOK'
  OBVIOUS
<1>1. asset' \in [Assets -> AssetRow] /\ task' \in [Requests -> Task] /\ TablesOK' /\ HoldersExist'
  BY AssetsTyped, TasksTyped, TablesTyped, HoldersExistKept
<1> QED
  BY <1>1 DEF TypeOK, AssetRow, HolderRow, TablesOK, HoldersExist

\* TasksFit: deleteSite goes on only where it has counted no asset.
LEMMA TasksFitKept == RegisterInv /\ TypeOK' /\ [Next]_vars => TasksFit'
<1> SUFFICES ASSUME RegisterInv, TypeOK', [Next]_vars
             PROVE  TasksFit'
  OBVIOUS
<1>0. TasksFit /\ TypeOK /\ task \in [Requests -> Task]
  BY DEF RegisterInv, TypeOK, HoldersExist, TablesOK, HolderRow, AssetRow
<1> USE RegisterAssumption DEF TasksFit
<1>1. CASE UNCHANGED vars
  BY <1>0, <1>1 DEF vars
<1>2. ASSUME NEW t \in Requests, NEW f \in Forms, CreateAsset(t, f)
      PROVE  TasksFit'
  BY <1>0, <1>2 DEF CreateAsset, Begin, Free, Idle, SitedAt, Idle
<1>3. ASSUME NEW t \in Requests, NEW f \in Forms, UpdateAsset(t, f)
      PROVE  TasksFit'
  BY <1>0, <1>3 DEF UpdateAsset, Begin, Free, Idle, SitedAt, Idle
<1>4. ASSUME NEW t \in Requests, NEW f \in Forms, ImportAsset(t, f)
      PROVE  TasksFit'
  BY <1>0, <1>4 DEF ImportAsset, Begin, Free, Idle, SitedAt, Idle
<1>5. ASSUME NEW t \in Requests, CommitAsset(t)
      PROVE  TasksFit'
  BY <1>0, <1>5, Committed DEF SitedAt, Idle
<1>6. ASSUME NEW a \in Assets, DeleteAsset(a)
      PROVE  TasksFit'
  BY <1>0, <1>6 DEF DeleteAsset, SitedAt, Idle
<1>7. ASSUME NEW a \in Assets, RestoreAsset(a)
      PROVE  TasksFit'
  BY <1>0, <1>7 DEF RestoreAsset, SitedAt, Idle
<1>8. ASSUME NEW a \in Assets, PurgeAsset(a)
      PROVE  TasksFit'
  BY <1>0, <1>8 DEF PurgeAsset, SitedAt, Idle
<1>9. ASSUME NEW e \in Employees, NEW active \in BOOLEAN, CreateEmployee(e, active)
      PROVE  TasksFit'
  BY <1>0, <1>9 DEF CreateEmployee, SitedAt, Idle
<1>10. ASSUME NEW e \in Employees, NEW rev \in Revision, NEW active \in BOOLEAN,
             UpdateEmployee(e, rev, active)
      PROVE  TasksFit'
  BY <1>0, <1>10, Renamed DEF UpdateEmployee, SitedAt, Idle
<1>11. ASSUME NEW e \in Employees, NEW rev \in Revision, NEW active \in BOOLEAN,
             ImportEmployee(e, rev, active)
      PROVE  TasksFit'
  BY <1>0, <1>11 DEF ImportEmployee, SitedAt, Idle
<1>12. ASSUME NEW e \in Employees, Offboard(e)
      PROVE  TasksFit'
  BY <1>0, <1>12, Offboarded DEF Offboard, SitedAt, Idle
<1>13. ASSUME NEW e \in Employees, Reactivate(e)
      PROVE  TasksFit'
  BY <1>0, <1>13 DEF Reactivate, SitedAt, Idle
<1>14. ASSUME NEW e \in Employees, DeleteEmployee(e)
      PROVE  TasksFit'
  BY <1>0, <1>14 DEF DeleteEmployee, SitedAt, Idle
<1>15. ASSUME NEW e \in Employees, RestoreEmployee(e)
      PROVE  TasksFit'
  BY <1>0, <1>15 DEF RestoreEmployee, SitedAt, Idle
<1>16. ASSUME NEW e \in Employees, PurgeEmployee(e)
      PROVE  TasksFit'
  BY <1>0, <1>16, Released DEF PurgeEmployee, SitedAt, Idle
<1>17. ASSUME NEW s \in Sites, CreateSite(s)
      PROVE  TasksFit'
  BY <1>0, <1>17 DEF CreateSite, SitedAt, Idle
<1>18. ASSUME NEW s \in Sites, NEW rev \in Revision, NEW active \in BOOLEAN,
             UpdateSite(s, rev, active)
      PROVE  TasksFit'
  BY <1>0, <1>18, SiteWritten DEF UpdateSite, SitedAt, Idle
<1>19. ASSUME NEW t \in Requests, NEW s \in Sites, ReadSite(t, s)
      PROVE  TasksFit'
  BY <1>0, <1>19 DEF ReadSite, Begin, Free, Idle, SitedAt, Idle
<1>20. ASSUME NEW t \in Requests, DeleteSite(t)
      PROVE  TasksFit'
  BY <1>0, <1>20, Closed DEF SitedAt, Idle
<1> QED
  BY <1>1, <1>2, <1>3, <1>4, <1>5, <1>6, <1>7, <1>8, <1>9, <1>10,
     <1>11, <1>12, <1>13, <1>14, <1>15, <1>16, <1>17, <1>18, <1>19, <1>20
  DEF Next

\* TagsUnique: an asset keeps its tag but for an insert or update, which the index decides on.
LEMMA TagsUniqueKept == RegisterInv /\ TypeOK' /\ [Next]_vars => TagsUnique'
<1> SUFFICES ASSUME RegisterInv, TypeOK', [Next]_vars
             PROVE  TagsUnique'
  OBVIOUS
<1>0. TagsUnique /\ TypeOK /\ TasksFit /\ asset \in [Assets -> AssetRow]
  BY DEF RegisterInv, TypeOK, HoldersExist, TablesOK, HolderRow, AssetRow
<1> USE RegisterAssumption DEF TagsUnique, Exists
<1>1. CASE UNCHANGED vars
  BY <1>0, <1>1 DEF vars
<1>2. ASSUME NEW t \in Requests, NEW f \in Forms, CreateAsset(t, f)
      PROVE  TagsUnique'
  BY <1>0, <1>2 DEF CreateAsset, Begin, Free, Idle, NoRow, AssetRow
<1>3. ASSUME NEW t \in Requests, NEW f \in Forms, UpdateAsset(t, f)
      PROVE  TagsUnique'
  BY <1>0, <1>3 DEF UpdateAsset, Begin, Free, Idle, NoRow, AssetRow
<1>4. ASSUME NEW t \in Requests, NEW f \in Forms, ImportAsset(t, f)
      PROVE  TagsUnique'
  BY <1>0, <1>4 DEF ImportAsset, Begin, Free, Idle, NoRow, AssetRow
<1>5. ASSUME NEW t \in Requests, CommitAsset(t)
      PROVE  TagsUnique'
  BY <1>0, <1>5, Committed DEF HeldBy, SitedAt, Accepted, TagFree, NoRow, AssetRow
<1>6. ASSUME NEW a \in Assets, DeleteAsset(a)
      PROVE  TagsUnique'
  BY <1>0, <1>6 DEF DeleteAsset, NoRow, AssetRow
<1>7. ASSUME NEW a \in Assets, RestoreAsset(a)
      PROVE  TagsUnique'
  BY <1>0, <1>7 DEF RestoreAsset, NoRow, AssetRow
<1>8. ASSUME NEW a \in Assets, PurgeAsset(a)
      PROVE  TagsUnique'
  BY <1>0, <1>8 DEF PurgeAsset, NoRow, AssetRow
<1>9. ASSUME NEW e \in Employees, NEW active \in BOOLEAN, CreateEmployee(e, active)
      PROVE  TagsUnique'
  BY <1>0, <1>9 DEF CreateEmployee, NoRow, AssetRow
<1>10. ASSUME NEW e \in Employees, NEW rev \in Revision, NEW active \in BOOLEAN,
             UpdateEmployee(e, rev, active)
      PROVE  TagsUnique'
  BY <1>0, <1>10, Renamed
  DEF UpdateEmployee, HeldBy, SitedAt, Accepted, TagFree, NoRow, AssetRow
<1>11. ASSUME NEW e \in Employees, NEW rev \in Revision, NEW active \in BOOLEAN,
             ImportEmployee(e, rev, active)
      PROVE  TagsUnique'
  BY <1>0, <1>11 DEF ImportEmployee, NoRow, AssetRow
<1>12. ASSUME NEW e \in Employees, Offboard(e)
      PROVE  TagsUnique'
  BY <1>0, <1>12, Offboarded DEF Offboard, HeldBy, SitedAt, Accepted, TagFree, NoRow, AssetRow
<1>13. ASSUME NEW e \in Employees, Reactivate(e)
      PROVE  TagsUnique'
  BY <1>0, <1>13 DEF Reactivate, NoRow, AssetRow
<1>14. ASSUME NEW e \in Employees, DeleteEmployee(e)
      PROVE  TagsUnique'
  BY <1>0, <1>14 DEF DeleteEmployee, NoRow, AssetRow
<1>15. ASSUME NEW e \in Employees, RestoreEmployee(e)
      PROVE  TagsUnique'
  BY <1>0, <1>15 DEF RestoreEmployee, NoRow, AssetRow
<1>16. ASSUME NEW e \in Employees, PurgeEmployee(e)
      PROVE  TagsUnique'
  BY <1>0, <1>16, Released
  DEF PurgeEmployee, HeldBy, SitedAt, Accepted, TagFree, NoRow, AssetRow
<1>17. ASSUME NEW s \in Sites, CreateSite(s)
      PROVE  TagsUnique'
  BY <1>0, <1>17 DEF CreateSite, NoRow, AssetRow
<1>18. ASSUME NEW s \in Sites, NEW rev \in Revision, NEW active \in BOOLEAN,
             UpdateSite(s, rev, active)
      PROVE  TagsUnique'
  BY <1>0, <1>18, SiteWritten
  DEF UpdateSite, HeldBy, SitedAt, Accepted, TagFree, NoRow, AssetRow
<1>19. ASSUME NEW t \in Requests, NEW s \in Sites, ReadSite(t, s)
      PROVE  TagsUnique'
  BY <1>0, <1>19 DEF ReadSite, Begin, Free, Idle, NoRow, AssetRow
<1>20. ASSUME NEW t \in Requests, DeleteSite(t)
      PROVE  TagsUnique'
  <2>1. CASE UNCHANGED <<site, asset, behind>>
    BY <1>0, <1>20, <2>1, Closed
  <2>2. ASSUME NEW s \in Sites, Emptied(s)
        PROVE  TagsUnique'
    <3>1. \A a \in Assets :
            /\ asset'[a].life = asset[a].life /\ asset'[a].cols.tag = asset[a].cols.tag
            /\ asset'[a].cols.status = asset[a].cols.status /\ asset'[a].cols.emp = asset[a].cols.emp
      BY <2>2 DEF Emptied
    <3>2. UNCHANGED <<employee, loose>>
      BY <1>0, <1>20, Closed
    <3> QED
      BY <1>0, <3>1, <3>2
  <2> QED
    BY <1>0, <1>20, <2>1, <2>2, Closed
<1> QED
  BY <1>1, <1>2, <1>3, <1>4, <1>5, <1>6, <1>7, <1>8, <1>9, <1>10,
     <1>11, <1>12, <1>13, <1>14, <1>15, <1>16, <1>17, <1>18, <1>19, <1>20
  DEF Next

\* NamedOrNoted: what is renamed is renamed in the copies, or noted.
LEMMA NamedKept == RegisterInv /\ TypeOK' /\ [Next]_vars => NamedOrNoted'
<1> SUFFICES ASSUME RegisterInv, TypeOK', [Next]_vars
             PROVE  NamedOrNoted'
  OBVIOUS
<1>0. NamedOrNoted /\ HoldersExist /\ TypeOK /\ TasksFit /\ asset \in [Assets -> AssetRow]
      /\ employee \in [Employees -> HolderRow] /\ site \in [Sites -> HolderRow] /\ TablesOK
  BY DEF RegisterInv, TypeOK, HoldersExist, TablesOK, HolderRow, AssetRow
<1> USE RegisterAssumption DEF NamedOrNoted, Exists, Current, Assignment
<1>1. CASE UNCHANGED vars
  BY <1>0, <1>1 DEF vars
<1>2. ASSUME NEW t \in Requests, NEW f \in Forms, CreateAsset(t, f)
      PROVE  NamedOrNoted'
  BY <1>0, <1>2
  DEF CreateAsset, Begin, Free, Idle, HolderRow, AssetRow, HoldersExist, NoRow,
      TablesOK, HeldBy, SitedAt
<1>3. ASSUME NEW t \in Requests, NEW f \in Forms, UpdateAsset(t, f)
      PROVE  NamedOrNoted'
  BY <1>0, <1>3
  DEF UpdateAsset, Begin, Free, Idle, HolderRow, AssetRow, HoldersExist, NoRow,
      TablesOK, HeldBy, SitedAt
<1>4. ASSUME NEW t \in Requests, NEW f \in Forms, ImportAsset(t, f)
      PROVE  NamedOrNoted'
  BY <1>0, <1>4
  DEF ImportAsset, Begin, Free, Idle, HolderRow, AssetRow, HoldersExist, NoRow,
      TablesOK, HeldBy, SitedAt
<1>5. ASSUME NEW t \in Requests, CommitAsset(t)
      PROVE  NamedOrNoted'
  <2> SUFFICES ASSUME NEW a \in Assets, Exists(asset'[a])
               PROVE  behind'[a] # "no" \/ Current(asset[a].cols)'
    BY DEF NamedOrNoted
  <2>1. CASE UNCHANGED <<asset, behind, loose>>
    BY <1>0, <1>5, <2>1, Committed
  <2>2. CASE asset'[a] = asset[a] /\ behind'[a] = behind[a]
    <3>1. UNCHANGED <<employee, site>>
      BY <1>0, <1>5, Committed
    <3> HIDE DEF Current, Assignment
    <3> QED
      BY <1>0, <2>2, <3>1, CurrentKept
  <2>3. CASE /\ asset'[a].cols = task[t].row
             /\ behind'[a] = IF Current(task[t].row) THEN "no" ELSE "overlap"
    BY <1>0, <1>5, <2>3, Committed
  <2> QED
    BY <1>0, <1>5, <2>1, <2>2, <2>3, Committed
<1>6. ASSUME NEW a \in Assets, DeleteAsset(a)
      PROVE  NamedOrNoted'
  BY <1>0, <1>6
  DEF DeleteAsset, HolderRow, AssetRow, HoldersExist, NoRow, TablesOK, HeldBy, SitedAt
<1>7. ASSUME NEW a \in Assets, RestoreAsset(a)
      PROVE  NamedOrNoted'
  BY <1>0, <1>7
  DEF RestoreAsset, HolderRow, AssetRow, HoldersExist, NoRow, TablesOK, HeldBy,
      SitedAt
<1>8. ASSUME NEW a \in Assets, PurgeAsset(a)
      PROVE  NamedOrNoted'
  BY <1>0, <1>8
  DEF PurgeAsset, HolderRow, AssetRow, HoldersExist, NoRow, TablesOK, HeldBy, SitedAt
<1>9. ASSUME NEW e \in Employees, NEW active \in BOOLEAN, CreateEmployee(e, active)
      PROVE  NamedOrNoted'
  BY <1>0, <1>9, SMTT(30)
  DEF CreateEmployee, HolderRow, AssetRow, HoldersExist, NoRow, TablesOK, HeldBy,
      SitedAt
<1>10. ASSUME NEW e \in Employees, NEW rev \in Revision, NEW active \in BOOLEAN,
             UpdateEmployee(e, rev, active)
      PROVE  NamedOrNoted'
  <2>0. Renaming(e, rev, active)
    BY <1>0, <1>10, Renamed
  <2> SUFFICES ASSUME NEW a \in Assets, Exists(asset'[a])
               PROVE  behind'[a] # "no" \/ Current(asset[a].cols)'
    BY DEF NamedOrNoted
  <2>1. CASE a \in LiveHeldBy(e)
    BY <2>0, <1>0, <1>10, <2>1 DEF Renaming, LiveHeldBy, HeldBy
  <2>2. CASE a \in HeldBy(e) \ LiveHeldBy(e)
    <3>1. /\ asset'[a] = asset[a] /\ asset[a].cols.emp = e /\ asset[a].cols.site = None
          /\ employee'[e].rev = rev
      BY <2>0, <1>0, <1>10, <2>2 DEF Renaming, HeldBy, HoldersExist
    <3>2. behind'[a] = IF rev # employee[e].rev THEN "bin" ELSE behind[a]
      BY <1>10, <2>2 DEF UpdateEmployee
    <3> HIDE DEF Current, Assignment
    <3>3. CASE rev = employee[e].rev
      BY <1>0, <3>1, <3>2, <3>3, CurrentKept
    <3> QED
      BY <3>2, <3>3
  <2>3. CASE a \notin HeldBy(e)
    <3>1. asset'[a] = asset[a] /\ behind'[a] = behind[a] /\ asset[a].cols.emp # e /\ site' = site
      BY <2>0, <1>0, <1>10, <2>3 DEF Renaming, UpdateEmployee, LiveHeldBy, HeldBy
    <3>2. asset[a].cols.emp \in Employees \union {None}
      BY <1>0 DEF AssetRow, Columns
    <3>3. asset[a].cols.emp # None => employee'[asset[a].cols.emp] = employee[asset[a].cols.emp]
      BY <2>0, <1>0, <1>10, <3>1, <3>2 DEF Renaming
    <3> HIDE DEF Current, Assignment
    <3> QED
      BY <1>0, <3>1, <3>3, CurrentKept
  <2> QED
    BY <2>1, <2>2, <2>3
<1>11. ASSUME NEW e \in Employees, NEW rev \in Revision, NEW active \in BOOLEAN,
             ImportEmployee(e, rev, active)
      PROVE  NamedOrNoted'
  BY <1>0, <1>11
  DEF ImportEmployee, HolderRow, AssetRow, HoldersExist, NoRow, TablesOK, HeldBy,
      SitedAt
<1>12. ASSUME NEW e \in Employees, Offboard(e)
      PROVE  NamedOrNoted'
  BY <1>0, <1>12, Offboarded
  DEF Offboard, LiveHeldBy, Retire, HolderRow, AssetRow, HoldersExist, NoRow,
      TablesOK, HeldBy, SitedAt
<1>13. ASSUME NEW e \in Employees, Reactivate(e)
      PROVE  NamedOrNoted'
  BY <1>0, <1>13
  DEF Reactivate, HolderRow, AssetRow, HoldersExist, NoRow, TablesOK, HeldBy, SitedAt
<1>14. ASSUME NEW e \in Employees, DeleteEmployee(e)
      PROVE  NamedOrNoted'
  BY <1>0, <1>14
  DEF DeleteEmployee, HolderRow, AssetRow, HoldersExist, NoRow, TablesOK, HeldBy,
      SitedAt
<1>15. ASSUME NEW e \in Employees, RestoreEmployee(e)
      PROVE  NamedOrNoted'
  BY <1>0, <1>15
  DEF RestoreEmployee, HolderRow, AssetRow, HoldersExist, NoRow, TablesOK, HeldBy,
      SitedAt
<1>16. ASSUME NEW e \in Employees, PurgeEmployee(e)
      PROVE  NamedOrNoted'
  BY <1>0, <1>16, Released
  DEF PurgeEmployee, LiveHeldBy, Retire, HolderRow, AssetRow, HoldersExist, NoRow,
      TablesOK, HeldBy, SitedAt
<1>17. ASSUME NEW s \in Sites, CreateSite(s)
      PROVE  NamedOrNoted'
  BY <1>0, <1>17
  DEF CreateSite, HolderRow, AssetRow, HoldersExist, NoRow, TablesOK, HeldBy, SitedAt
<1>18. ASSUME NEW s \in Sites, NEW rev \in Revision, NEW active \in BOOLEAN,
             UpdateSite(s, rev, active)
      PROVE  NamedOrNoted'
  <2> SUFFICES ASSUME NEW a \in Assets, Exists(asset'[a])
               PROVE  behind'[a] # "no" \/ Current(asset[a].cols)'
    BY DEF NamedOrNoted
  <2>1. UNCHANGED <<asset, employee>>
    BY <1>18 DEF UpdateSite
  <2>2. CASE a \in SitedAt(s)
    <3>1. behind'[a] = IF rev # site[s].rev THEN "site" ELSE behind[a]
      BY <1>18, <2>2 DEF UpdateSite
    <3>2. asset[a].cols.site = s /\ asset[a].cols.emp = None /\ site'[s].rev = rev
      BY <1>0, <1>18, <2>2, SiteWritten DEF SitedAt, HoldersExist
    <3> QED
      BY <1>0, <2>1, <3>1, <3>2
  <2>3. CASE a \notin SitedAt(s)
    <3>1. behind'[a] = behind[a] /\ asset[a].cols.site # s
      BY <1>18, <2>1, <2>3 DEF UpdateSite, SitedAt
    <3>2. asset[a].cols.site \in Sites \union {None}
      BY <1>0 DEF AssetRow, Columns
    <3>3. asset[a].cols.site # None => site'[asset[a].cols.site] = site[asset[a].cols.site]
      BY <1>0, <1>18, <3>1, <3>2, SiteWritten
    <3> QED
      BY <1>0, <2>1, <3>1, <3>3
  <2> QED
    BY <2>2, <2>3
<1>19. ASSUME NEW t \in Requests, NEW s \in Sites, ReadSite(t, s)
      PROVE  NamedOrNoted'
  BY <1>0, <1>19
  DEF ReadSite, Begin, Free, Idle, HolderRow, AssetRow, HoldersExist, NoRow, TablesOK,
      HeldBy, SitedAt
<1>20. ASSUME NEW t \in Requests, DeleteSite(t)
      PROVE  NamedOrNoted'
  <2> SUFFICES ASSUME NEW a \in Assets, Exists(asset'[a])
               PROVE  behind'[a] # "no" \/ Current(asset[a].cols)'
    BY DEF NamedOrNoted
  <2>1. CASE UNCHANGED <<site, asset, behind>>
    BY <1>0, <1>20, <2>1, Closed
  <2>2. ASSUME NEW s \in Sites, Emptied(s)
        PROVE  behind'[a] # "no" \/ Current(asset[a].cols)'
    <3>1. CASE a \in SitedAt(s)
      BY <2>2, <3>1 DEF Emptied
    <3>2. CASE a \notin SitedAt(s)
      <4>1. /\ asset'[a] = asset[a] /\ behind'[a] = behind[a] /\ asset[a].cols.site # s
            /\ employee' = employee
        BY <1>0, <1>20, <2>2, <3>2, Closed DEF Emptied, SitedAt
      <4>2. asset[a].cols.site \in Sites \union {None}
        BY <1>0 DEF AssetRow, Columns
      <4>3. asset[a].cols.site # None => site'[asset[a].cols.site] = site[asset[a].cols.site]
        BY <2>2, <4>1, <4>2 DEF Emptied
      <4> HIDE DEF Current, Assignment
      <4> QED
        BY <1>0, <4>1, <4>3, CurrentKept
    <3> QED
      BY <3>1, <3>2
  <2> QED
    BY <1>0, <1>20, <2>1, <2>2, Closed
<1> QED
  BY <1>1, <1>2, <1>3, <1>4, <1>5, <1>6, <1>7, <1>8, <1>9, <1>10,
     <1>11, <1>12, <1>13, <1>14, <1>15, <1>16, <1>17, <1>18, <1>19, <1>20
  DEF Next

\* ReturnedOrNoted: whoever becomes inactive keeps nothing active, or it is noted.
LEMMA ReturnedKept == RegisterInv /\ TypeOK' /\ [Next]_vars => ReturnedOrNoted'
<1> SUFFICES ASSUME RegisterInv, TypeOK', [Next]_vars
             PROVE  ReturnedOrNoted'
  OBVIOUS
<1>0. ReturnedOrNoted /\ HoldersExist /\ TypeOK /\ TasksFit /\ asset \in [Assets -> AssetRow]
      /\ employee \in [Employees -> HolderRow] /\ site \in [Sites -> HolderRow] /\ TablesOK
  BY DEF RegisterInv, TypeOK, HoldersExist, TablesOK, HolderRow, AssetRow
<1> USE RegisterAssumption DEF ReturnedOrNoted, Exists
<1>1. CASE UNCHANGED vars
  BY <1>0, <1>1 DEF vars
<1>2. ASSUME NEW t \in Requests, NEW f \in Forms, CreateAsset(t, f)
      PROVE  ReturnedOrNoted'
  BY <1>0, <1>2
  DEF CreateAsset, Begin, Free, Idle, HolderRow, AssetRow, HoldersExist, NoRow,
      TablesOK, HeldBy, SitedAt, Edited
<1>3. ASSUME NEW t \in Requests, NEW f \in Forms, UpdateAsset(t, f)
      PROVE  ReturnedOrNoted'
  BY <1>0, <1>3
  DEF UpdateAsset, Begin, Free, Idle, HolderRow, AssetRow, HoldersExist, NoRow,
      TablesOK, HeldBy, SitedAt, Edited
<1>4. ASSUME NEW t \in Requests, NEW f \in Forms, ImportAsset(t, f)
      PROVE  ReturnedOrNoted'
  BY <1>0, <1>4
  DEF ImportAsset, Begin, Free, Idle, HolderRow, AssetRow, HoldersExist, NoRow,
      TablesOK, HeldBy, SitedAt, Edited
<1>5. ASSUME NEW t \in Requests, CommitAsset(t)
      PROVE  ReturnedOrNoted'
  BY <1>0, <1>5, Committed
  DEF LiveHeldBy, Retire, HolderRow, AssetRow, HoldersExist, NoRow, TablesOK, HeldBy,
      SitedAt, Edited
<1>6. ASSUME NEW a \in Assets, DeleteAsset(a)
      PROVE  ReturnedOrNoted'
  BY <1>0, <1>6
  DEF DeleteAsset, HolderRow, AssetRow, HoldersExist, NoRow, TablesOK, HeldBy,
      SitedAt, Edited
<1>7. ASSUME NEW a \in Assets, RestoreAsset(a)
      PROVE  ReturnedOrNoted'
  BY <1>0, <1>7
  DEF RestoreAsset, HolderRow, AssetRow, HoldersExist, NoRow, TablesOK, HeldBy,
      SitedAt, Edited
<1>8. ASSUME NEW a \in Assets, PurgeAsset(a)
      PROVE  ReturnedOrNoted'
  BY <1>0, <1>8
  DEF PurgeAsset, HolderRow, AssetRow, HoldersExist, NoRow, TablesOK, HeldBy, SitedAt,
      Edited
<1>9. ASSUME NEW e \in Employees, NEW active \in BOOLEAN, CreateEmployee(e, active)
      PROVE  ReturnedOrNoted'
  BY <1>0, <1>9
  DEF CreateEmployee, HolderRow, AssetRow, HoldersExist, NoRow, TablesOK, HeldBy,
      SitedAt, Edited
<1>10. ASSUME NEW e \in Employees, NEW rev \in Revision, NEW active \in BOOLEAN,
             UpdateEmployee(e, rev, active)
      PROVE  ReturnedOrNoted'
  <2>0. Renaming(e, rev, active)
    BY <1>0, <1>10, Renamed
  <2> SUFFICES ASSUME NEW a \in Assets, Exists(asset'[a]), asset'[a].cols.emp # None,
                      asset'[a].cols.status = "active"
               PROVE  employee'[asset'[a].cols.emp].active \/ loose'[a] # "no"
    BY DEF ReturnedOrNoted
  <2>1. /\ Exists(asset[a]) /\ asset'[a].cols.emp = asset[a].cols.emp
        /\ asset'[a].cols.status = asset[a].cols.status
    BY <2>0, <1>0, <1>10 DEF Renaming, LiveHeldBy
  <2>2. loose'[a] = IF a \in HeldBy(e) /\ employee[e].active /\ ~active THEN "edited" ELSE loose[a]
    BY <1>10 DEF UpdateEmployee, Edited
  <2>3. asset[a].cols.emp \in Employees
    BY <1>0, <2>1 DEF AssetRow, Columns
  <2>4. a \in HeldBy(e) <=> asset[a].cols.emp = e
    BY <2>1 DEF HeldBy
  <2> QED
    BY <2>0, <1>0, <1>10, <2>1, <2>2, <2>3, <2>4 DEF Renaming
<1>11. ASSUME NEW e \in Employees, NEW rev \in Revision, NEW active \in BOOLEAN,
             ImportEmployee(e, rev, active)
      PROVE  ReturnedOrNoted'
  BY <1>0, <1>11
  DEF ImportEmployee, HolderRow, AssetRow, HoldersExist, NoRow, TablesOK, HeldBy,
      SitedAt, Edited
<1>12. ASSUME NEW e \in Employees, Offboard(e)
      PROVE  ReturnedOrNoted'
  BY <1>0, <1>12, Offboarded
  DEF Offboard, LiveHeldBy, Retire, HolderRow, AssetRow, HoldersExist, NoRow,
      TablesOK, HeldBy, SitedAt, Edited
<1>13. ASSUME NEW e \in Employees, Reactivate(e)
      PROVE  ReturnedOrNoted'
  BY <1>0, <1>13
  DEF Reactivate, HolderRow, AssetRow, HoldersExist, NoRow, TablesOK, HeldBy, SitedAt,
      Edited
<1>14. ASSUME NEW e \in Employees, DeleteEmployee(e)
      PROVE  ReturnedOrNoted'
  BY <1>0, <1>14
  DEF DeleteEmployee, HolderRow, AssetRow, HoldersExist, NoRow, TablesOK, HeldBy,
      SitedAt, Edited
<1>15. ASSUME NEW e \in Employees, RestoreEmployee(e)
      PROVE  ReturnedOrNoted'
  BY <1>0, <1>15
  DEF RestoreEmployee, HolderRow, AssetRow, HoldersExist, NoRow, TablesOK, HeldBy,
      SitedAt, Edited
<1>16. ASSUME NEW e \in Employees, PurgeEmployee(e)
      PROVE  ReturnedOrNoted'
  BY <1>0, <1>16, Released
  DEF PurgeEmployee, LiveHeldBy, Retire, HolderRow, AssetRow, HoldersExist, NoRow,
      TablesOK, HeldBy, SitedAt, Edited
<1>17. ASSUME NEW s \in Sites, CreateSite(s)
      PROVE  ReturnedOrNoted'
  BY <1>0, <1>17
  DEF CreateSite, HolderRow, AssetRow, HoldersExist, NoRow, TablesOK, HeldBy, SitedAt,
      Edited
<1>18. ASSUME NEW s \in Sites, NEW rev \in Revision, NEW active \in BOOLEAN,
             UpdateSite(s, rev, active)
      PROVE  ReturnedOrNoted'
  BY <1>0, <1>18, SiteWritten
  DEF UpdateSite, LiveHeldBy, Retire, HolderRow, AssetRow, HoldersExist, NoRow,
      TablesOK, HeldBy, SitedAt, Edited
<1>19. ASSUME NEW t \in Requests, NEW s \in Sites, ReadSite(t, s)
      PROVE  ReturnedOrNoted'
  BY <1>0, <1>19
  DEF ReadSite, Begin, Free, Idle, HolderRow, AssetRow, HoldersExist, NoRow, TablesOK,
      HeldBy, SitedAt, Edited
<1>20. ASSUME NEW t \in Requests, DeleteSite(t)
      PROVE  ReturnedOrNoted'
  <2>1. CASE UNCHANGED <<site, asset, behind>>
    BY <1>0, <1>20, <2>1, Closed
  <2>2. ASSUME NEW s \in Sites, Emptied(s)
        PROVE  ReturnedOrNoted'
    <3>1. \A a \in Assets :
            /\ asset'[a].life = asset[a].life /\ asset'[a].cols.tag = asset[a].cols.tag
            /\ asset'[a].cols.status = asset[a].cols.status /\ asset'[a].cols.emp = asset[a].cols.emp
      BY <2>2 DEF Emptied
    <3>2. UNCHANGED <<employee, loose>>
      BY <1>0, <1>20, Closed
    <3> QED
      BY <1>0, <3>1, <3>2
  <2> QED
    BY <1>0, <1>20, <2>1, <2>2, Closed
<1> QED
  BY <1>1, <1>2, <1>3, <1>4, <1>5, <1>6, <1>7, <1>8, <1>9, <1>10,
     <1>11, <1>12, <1>13, <1>14, <1>15, <1>16, <1>17, <1>18, <1>19, <1>20
  DEF Next

\* Off-boarding passes over what is retired, and nothing else moves an asset that is not
\* itself asked for.
LEMMA RetiredKept == RegisterInv /\ [Next]_vars => RetiredStays
<1> SUFFICES ASSUME RegisterInv, [Next]_vars
             PROVE  RetiredStays
  OBVIOUS
<1>0. asset \in [Assets -> AssetRow] /\ TypeOK /\ TasksFit
  BY DEF RegisterInv, TypeOK, HoldersExist, TablesOK, HolderRow, AssetRow
<1> USE RegisterAssumption DEF RetiredStays
<1>1. CASE UNCHANGED vars
  BY <1>0, <1>1 DEF vars
<1>2. ASSUME NEW t \in Requests, NEW f \in Forms, CreateAsset(t, f)
      PROVE  RetiredStays
  BY <1>0, <1>2 DEF CreateAsset, Begin, Free, Idle, AssetRow
<1>3. ASSUME NEW t \in Requests, NEW f \in Forms, UpdateAsset(t, f)
      PROVE  RetiredStays
  BY <1>0, <1>3 DEF UpdateAsset, Begin, Free, Idle, AssetRow
<1>4. ASSUME NEW t \in Requests, NEW f \in Forms, ImportAsset(t, f)
      PROVE  RetiredStays
  BY <1>0, <1>4 DEF ImportAsset, Begin, Free, Idle, AssetRow
<1>5. ASSUME NEW t \in Requests, CommitAsset(t)
      PROVE  RetiredStays
  <2> SUFFICES ASSUME NEW a \in Assets, asset[a].cols.status = "retired", ~Finishes(a)
               PROVE  asset'[a].cols.status = "retired"
    BY DEF RetiredStays
  <2>1. a # task[t].on
    BY <1>0, <1>5, Committed DEF Finishes
  <2> QED
    BY <1>0, <1>5, <2>1, Committed
<1>6. ASSUME NEW a \in Assets, DeleteAsset(a)
      PROVE  RetiredStays
  BY <1>0, <1>6 DEF DeleteAsset, AssetRow
<1>7. ASSUME NEW a \in Assets, RestoreAsset(a)
      PROVE  RetiredStays
  BY <1>0, <1>7 DEF RestoreAsset, AssetRow
<1>8. ASSUME NEW a \in Assets, PurgeAsset(a)
      PROVE  RetiredStays
  BY <1>0, <1>8 DEF PurgeAsset, AssetRow
<1>9. ASSUME NEW e \in Employees, NEW active \in BOOLEAN, CreateEmployee(e, active)
      PROVE  RetiredStays
  BY <1>0, <1>9 DEF CreateEmployee, AssetRow
<1>10. ASSUME NEW e \in Employees, NEW rev \in Revision, NEW active \in BOOLEAN,
             UpdateEmployee(e, rev, active)
      PROVE  RetiredStays
  <2>1. Renaming(e, rev, active)
    BY <1>0, <1>10, Renamed
  <2>2. \A a \in Assets : asset'[a].cols.status = asset[a].cols.status
    BY <1>0, <2>1 DEF Renaming
  <2> QED
    BY <2>2
<1>11. ASSUME NEW e \in Employees, NEW rev \in Revision, NEW active \in BOOLEAN,
             ImportEmployee(e, rev, active)
      PROVE  RetiredStays
  BY <1>0, <1>11 DEF ImportEmployee, AssetRow
<1>12. ASSUME NEW e \in Employees, Offboard(e)
      PROVE  RetiredStays
  <2> SUFFICES ASSUME NEW a \in Assets, asset[a].cols.status = "retired"
               PROVE  asset'[a].cols.status = "retired"
    BY DEF RetiredStays
  <2>1. a \notin Retire(e)
    BY DEF Retire
  <2> QED
    BY <1>0, <1>12, <2>1, Offboarded
<1>13. ASSUME NEW e \in Employees, Reactivate(e)
      PROVE  RetiredStays
  BY <1>0, <1>13 DEF Reactivate, AssetRow
<1>14. ASSUME NEW e \in Employees, DeleteEmployee(e)
      PROVE  RetiredStays
  BY <1>0, <1>14 DEF DeleteEmployee, AssetRow
<1>15. ASSUME NEW e \in Employees, RestoreEmployee(e)
      PROVE  RetiredStays
  BY <1>0, <1>15 DEF RestoreEmployee, AssetRow
<1>16. ASSUME NEW e \in Employees, PurgeEmployee(e)
      PROVE  RetiredStays
  <2> SUFFICES ASSUME NEW a \in Assets, asset[a].cols.status = "retired"
               PROVE  asset'[a].cols.status = "retired"
    BY DEF RetiredStays
  <2>1. CASE a \in HeldBy(e)
    BY <1>0, <1>16, <2>1, Released
  <2>2. CASE a \notin HeldBy(e)
    BY <1>0, <1>16, <2>2, Released
  <2> QED
    BY <2>1, <2>2
<1>17. ASSUME NEW s \in Sites, CreateSite(s)
      PROVE  RetiredStays
  BY <1>0, <1>17 DEF CreateSite, AssetRow
<1>18. ASSUME NEW s \in Sites, NEW rev \in Revision, NEW active \in BOOLEAN,
             UpdateSite(s, rev, active)
      PROVE  RetiredStays
  BY <1>0, <1>18, SiteWritten DEF UpdateSite, AssetRow
<1>19. ASSUME NEW t \in Requests, NEW s \in Sites, ReadSite(t, s)
      PROVE  RetiredStays
  BY <1>0, <1>19 DEF ReadSite, Begin, Free, Idle, AssetRow
<1>20. ASSUME NEW t \in Requests, DeleteSite(t)
      PROVE  RetiredStays
  <2>1. ASSUME NEW s \in Sites, Emptied(s)
        PROVE  \A a \in Assets : asset'[a].cols.status = asset[a].cols.status
    BY <2>1 DEF Emptied
  <2>2. \A a \in Assets : asset'[a].cols.status = asset[a].cols.status
    BY <1>0, <1>20, <2>1, Closed
  <2> QED
    BY <2>2
<1> QED
  BY <1>1, <1>2, <1>3, <1>4, <1>5, <1>6, <1>7, <1>8, <1>9, <1>10,
     <1>11, <1>12, <1>13, <1>14, <1>15, <1>16, <1>17, <1>18, <1>19, <1>20
  DEF Next

\* What BinFreezes compares.
Bare(cols) == [cols EXCEPT !.emp = None, !.site = None]

\* What reaches an asset in the bin is the loss of its holder or its site.
LEMMA FrozenKept == RegisterInv /\ [Next]_vars => BinFreezes
<1> SUFFICES ASSUME RegisterInv, [Next]_vars
             PROVE  BinFreezes
  OBVIOUS
<1>0. asset \in [Assets -> AssetRow] /\ TypeOK /\ TasksFit
  BY DEF RegisterInv, TypeOK, HoldersExist, TablesOK, HolderRow, AssetRow
<1> USE RegisterAssumption DEF BinFreezes
<1>1. CASE UNCHANGED vars
  BY <1>0, <1>1 DEF vars
<1>2. ASSUME NEW t \in Requests, NEW f \in Forms, CreateAsset(t, f)
      PROVE  BinFreezes
  BY <1>0, <1>2 DEF CreateAsset, Begin, Free, Idle, AssetRow
<1>3. ASSUME NEW t \in Requests, NEW f \in Forms, UpdateAsset(t, f)
      PROVE  BinFreezes
  BY <1>0, <1>3 DEF UpdateAsset, Begin, Free, Idle, AssetRow
<1>4. ASSUME NEW t \in Requests, NEW f \in Forms, ImportAsset(t, f)
      PROVE  BinFreezes
  BY <1>0, <1>4 DEF ImportAsset, Begin, Free, Idle, AssetRow
<1>5. ASSUME NEW t \in Requests, CommitAsset(t)
      PROVE  BinFreezes
  <2> SUFFICES ASSUME NEW a \in Assets, asset[a].life = "bin", ~Finishes(a)
               PROVE  asset'[a] = asset[a]
    BY DEF BinFreezes
  <2>1. a # task[t].on
    BY <1>0, <1>5, Committed DEF Finishes
  <2> QED
    BY <1>0, <1>5, <2>1, Committed
<1>6. ASSUME NEW a \in Assets, DeleteAsset(a)
      PROVE  BinFreezes
  BY <1>0, <1>6 DEF DeleteAsset, AssetRow
<1>7. ASSUME NEW a \in Assets, RestoreAsset(a)
      PROVE  BinFreezes
  BY <1>0, <1>7 DEF RestoreAsset, AssetRow
<1>8. ASSUME NEW a \in Assets, PurgeAsset(a)
      PROVE  BinFreezes
  BY <1>0, <1>8 DEF PurgeAsset, AssetRow
<1>9. ASSUME NEW e \in Employees, NEW active \in BOOLEAN, CreateEmployee(e, active)
      PROVE  BinFreezes
  BY <1>0, <1>9 DEF CreateEmployee, AssetRow
<1>10. ASSUME NEW e \in Employees, NEW rev \in Revision, NEW active \in BOOLEAN,
             UpdateEmployee(e, rev, active)
      PROVE  BinFreezes
  <2> SUFFICES ASSUME NEW a \in Assets, asset[a].life = "bin"
               PROVE  Bare(asset'[a].cols) = Bare(asset[a].cols)
    BY DEF BinFreezes, Bare
  <2>1. Renaming(e, rev, active) /\ a \notin LiveHeldBy(e)
    BY <1>0, <1>10, Renamed DEF LiveHeldBy
  <2> QED
    BY <2>1 DEF Renaming
<1>11. ASSUME NEW e \in Employees, NEW rev \in Revision, NEW active \in BOOLEAN,
             ImportEmployee(e, rev, active)
      PROVE  BinFreezes
  BY <1>0, <1>11 DEF ImportEmployee, AssetRow
<1>12. ASSUME NEW e \in Employees, Offboard(e)
      PROVE  BinFreezes
  <2> SUFFICES ASSUME NEW a \in Assets, asset[a].life = "bin"
               PROVE  Bare(asset'[a].cols) = Bare(asset[a].cols)
    BY DEF BinFreezes, Bare
  <2>1. a \notin Retire(e)
    BY DEF Retire, LiveHeldBy
  <2> QED
    BY <1>0, <1>12, <2>1, Offboarded
<1>13. ASSUME NEW e \in Employees, Reactivate(e)
      PROVE  BinFreezes
  BY <1>0, <1>13 DEF Reactivate, AssetRow
<1>14. ASSUME NEW e \in Employees, DeleteEmployee(e)
      PROVE  BinFreezes
  BY <1>0, <1>14 DEF DeleteEmployee, AssetRow
<1>15. ASSUME NEW e \in Employees, RestoreEmployee(e)
      PROVE  BinFreezes
  BY <1>0, <1>15 DEF RestoreEmployee, AssetRow
<1>16. ASSUME NEW e \in Employees, PurgeEmployee(e)
      PROVE  BinFreezes
  <2> SUFFICES ASSUME NEW a \in Assets, asset[a].life = "bin"
               PROVE  Bare(asset'[a].cols) = Bare(asset[a].cols)
    BY DEF BinFreezes, Bare
  <2>1. asset[a].cols \in Columns
    BY <1>0 DEF AssetRow
  <2>2. asset'[a] = asset[a] \/ asset'[a].cols = [asset[a].cols EXCEPT !.emp = None]
    BY <1>0, <1>16, Released
  <2> QED
    BY <2>1, <2>2 DEF Columns, Bare
<1>17. ASSUME NEW s \in Sites, CreateSite(s)
      PROVE  BinFreezes
  BY <1>0, <1>17 DEF CreateSite, AssetRow
<1>18. ASSUME NEW s \in Sites, NEW rev \in Revision, NEW active \in BOOLEAN,
             UpdateSite(s, rev, active)
      PROVE  BinFreezes
  BY <1>0, <1>18, SiteWritten DEF UpdateSite, AssetRow
<1>19. ASSUME NEW t \in Requests, NEW s \in Sites, ReadSite(t, s)
      PROVE  BinFreezes
  BY <1>0, <1>19 DEF ReadSite, Begin, Free, Idle, AssetRow
<1>20. ASSUME NEW t \in Requests, DeleteSite(t)
      PROVE  BinFreezes
  <2> SUFFICES ASSUME NEW a \in Assets, asset[a].life = "bin"
               PROVE  Bare(asset'[a].cols) = Bare(asset[a].cols)
    BY DEF BinFreezes, Bare
  <2>1. asset[a].cols \in Columns
    BY <1>0 DEF AssetRow
  <2>2. ASSUME NEW s \in Sites, Emptied(s)
        PROVE  asset'[a] = asset[a] \/ asset'[a].cols = [asset[a].cols EXCEPT !.site = None]
    BY <2>2 DEF Emptied
  <2>3. asset'[a] = asset[a] \/ asset'[a].cols = [asset[a].cols EXCEPT !.site = None]
    BY <1>0, <1>20, <2>2, Closed
  <2> QED
    BY <2>1, <2>3 DEF Columns, Bare
<1> QED
  BY <1>1, <1>2, <1>3, <1>4, <1>5, <1>6, <1>7, <1>8, <1>9, <1>10,
     <1>11, <1>12, <1>13, <1>14, <1>15, <1>16, <1>17, <1>18, <1>19, <1>20
  DEF Next
-----------------------------------------------------------------------------
\* Every step preserves every part.
LEMMA NextPreserves == RegisterInv /\ [Next]_vars => RegisterInv'
  BY TypeKept, TasksFitKept, TagsUniqueKept, NamedKept, ReturnedKept DEF RegisterInv

\* The invariant that the others follow from: what holds of assets in use holds of those in
\* the recycle bin too, so that restoring one needs no look at its holder.
THEOREM RegisterInvariant == Spec => []RegisterInv
  BY InitEstablishes, NextPreserves, PTL DEF Spec

\* No asset has a holder that is gone, or two, and no two have one tag, although every
\* handler looks first and writes later.
THEOREM ConstraintsAlwaysHold == Spec => []ConstraintsHold
<1>1. RegisterInv => ConstraintsHold
  BY DEF RegisterInv, ConstraintsHold
<1> QED
  BY <1>1, RegisterInvariant, PTL

\* The name an asset shows is its holder's, but for the handlers that leave it behind.
THEOREM HolderAlwaysNamed == Spec => []HolderNamed
<1>1. RegisterInv => HolderNamed
  BY DEF RegisterInv, NamedOrNoted, HolderNamed, Exists
<1> QED
  BY <1>1, RegisterInvariant, PTL

\* Nothing stays in use by somebody inactive, but for the handlers that release nothing.
THEOREM OffboardedAlwaysReturn == Spec => []OffboardedReturn
<1>1. RegisterInv => OffboardedReturn
  BY DEF RegisterInv, ReturnedOrNoted, OffboardedReturn, Exists
<1> QED
  BY <1>1, RegisterInvariant, PTL

\* What is retired or in the bin changes only by a request of its own, or loses its holder.
THEOREM RestAlwaysLeftAlone == Spec => LeftAlone
<1>1. RegisterInv /\ [Next]_vars => [RetiredStays /\ BinFreezes]_vars
  BY RetiredKept, FrozenKept
<1> QED
  BY <1>1, RegisterInvariant, PTL DEF Spec, LeftAlone
=============================================================================
