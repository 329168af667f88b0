---------------------------- MODULE AssetRegister ----------------------------
(***************************************************************************)
(* Assets, the employees and sites they are assigned to, and what each      *)
(* asset row copies from its holder: src/src/services/asset.service.ts,     *)
(* employee.service.ts, import.service.ts, the site part of                 *)
(* lookup.service.ts and the asset and employee parts of                    *)
(* recyclebin.service.ts.                                                   *)
(*                                                                         *)
(* A row that is copied has a revision, which stands for the columns that   *)
(* are copied: full name and user of an employee, name of a site.           *)
(*                                                                         *)
(* PostgreSQL runs the transactions at READ COMMITTED, so what a handler     *)
(* reads may be out of date when it writes.  The handlers that write an     *)
(* asset, and deleteSite, are a reading and a writing step; the others      *)
(* write nothing that depends on what they read, and are one step.  E-mail  *)
(* addresses and site names are the identities of their rows.  An imported  *)
(* file is modelled by one of its rows: two of one file never name the same *)
(* tag or address (seenTags, seenEmails).                                   *)
(***************************************************************************)
EXTENDS Naturals

CONSTANTS
  Employees, Assets, Sites, \* ids, used by one row each
  Tags,       \* asset tags; None is the null of an untagged asset
  Forms,      \* what may be submitted for an asset
  Requests,   \* requests that can be in progress at once
  MaxRenames, \* bound: renamings of one employee or site
  None

ASSUME RegisterAssumption ==
  /\ Employees \intersect Sites = {}
  /\ None \notin Employees \union Assets \union Sites \union Tags
  /\ Forms \subseteq [on : Assets, tag : Tags \union {None},
                      status : {"active", "return_pending", "retired"},
                      emp : Employees \union {None}, site : Sites \union {None}]
  /\ MaxRenames \in Nat

VARIABLES
  employee, \* core_employee
  site,     \* core_site
  asset,    \* core_asset
  task,     \* what each request in progress has read and will write
  behind,   \* observer: why an asset's copy may differ from its holder's row
  loose     \* observer: why an asset may be in use by an inactive employee

vars == <<employee, site, asset, task, behind, loose>>

Life     == {"none", "live", "bin", "gone"}
Statuses == {"active", "return_pending", "retired"} \* retired: or stolen
Revision == 0..MaxRenames
Copy     == [of : Employees \union Sites \union {None}, rev : Revision]
Columns  == [tag : Tags \union {None}, status : Statuses,
             emp : Employees \union {None}, site : Sites \union {None}, name : Copy]
Blank    == [of |-> None, rev |-> 0]
NoRow    == [tag |-> None, status |-> "active", emp |-> None, site |-> None, name |-> Blank]

Idle == [op |-> "idle", on |-> None, row |-> NoRow, seen |-> {}]
Task == [op  : {"idle", "insert", "write", "deleteSite"},
         on  : Assets \union Sites \union {None}, \* the row it will write
         row : Columns,                           \* what it will write
         seen : SUBSET Assets]                    \* deleteSite: the assets it counted

Exists(row) == row.life \in {"live", "bin"}

\* What PostgreSQL holds the rows to: types and foreign keys.
TypeOK ==
  /\ employee \in [Employees -> [life : Life, rev : Revision, active : BOOLEAN]]
  /\ site \in [Sites -> [life : Life, rev : Revision, active : BOOLEAN]]
  /\ asset \in [Assets -> [life : Life, cols : Columns]]
  /\ task \in [Requests -> Task]
  /\ behind \in [Assets -> {"no", "overlap", "import", "bin", "purge", "site"}]
  /\ loose \in [Assets -> {"no", "written", "bin", "edited"}]
  /\ \A a \in Assets : Exists(asset[a]) =>
       /\ asset[a].cols.emp # None => Exists(employee[asset[a].cols.emp])
       /\ asset[a].cols.site # None => Exists(site[asset[a].cols.site])
       /\ asset[a].cols.emp = None \/ asset[a].cols.site = None

Init ==
  /\ employee = [e \in Employees |-> [life |-> "none", rev |-> 0, active |-> TRUE]]
  /\ site = [s \in Sites |-> [life |-> "none", rev |-> 0, active |-> TRUE]]
  /\ asset = [a \in Assets |-> [life |-> "none", cols |-> NoRow]]
  /\ task = [t \in Requests |-> Idle]
  /\ behind = [a \in Assets |-> "no"]
  /\ loose = [a \in Assets |-> "no"]

-----------------------------------------------------------------------------
\* Mutant: the index leaves out the recycle bin.
LiveTagFree(tag, a) == tag # None => \A b \in Assets \ {a} :
  asset[b].life = "live" => asset[b].cols.tag # tag

\* The unique index on asset_tag, which covers the recycle bin too.
TagFree(tag, a) == tag # None => \A b \in Assets \ {a} :
  Exists(asset[b]) => asset[b].cols.tag # tag

HeldBy(e) == {a \in Assets : Exists(asset[a]) /\ asset[a].cols.emp = e}
SitedAt(s) == {a \in Assets : Exists(asset[a]) /\ asset[a].cols.site = s}
LiveHeldBy(e) == {a \in HeldBy(e) : asset[a].life = "live"}

\* Whether normaliseAssignment finds what it is asked for ...
Assignable(e, s) ==
  IF e # None THEN employee[e].life = "live" ELSE s # None => Exists(site[s])

\* ... and what it then returns: the employee wins, and its columns are copied.
Assignment(e, s) ==
  IF e # None THEN [emp |-> e, site |-> None, name |-> [of |-> e, rev |-> employee[e].rev]]
  ELSE IF s # None THEN [emp |-> None, site |-> s, name |-> [of |-> s, rev |-> site[s].rev]]
  ELSE [emp |-> None, site |-> None, name |-> Blank]

\* Whether the copy is that of the holder's row as it stands.
Current(cols) == cols.name = Assignment(cols.emp, cols.site).name

Row(form, e, s) ==
  [tag |-> form.tag, status |-> form.status, emp |-> Assignment(e, s).emp,
   site |-> Assignment(e, s).site, name |-> Assignment(e, s).name]

Free(t)      == task[t] = Idle
Begin(t, w)  == Free(t) /\ task' = [task EXCEPT ![t] = w]
Unclaimed(a) == asset[a].life = "none" /\ \A t \in Requests : task[t].on # a

-----------------------------------------------------------------------------
(* Writing assets.                                                          *)

\* assetService.create as far as its insert.
CreateAsset(t, f) ==
  /\ Unclaimed(f.on) /\ TagFree(f.tag, f.on) /\ Assignable(f.emp, f.site)
  /\ Begin(t, [op |-> "insert", on |-> f.on, row |-> Row(f, f.emp, f.site), seen |-> {}])
  /\ UNCHANGED <<employee, site, asset, behind, loose>>

\* assetService.update as far as its update, which goes by id.
UpdateAsset(t, f) ==
  /\ asset[f.on].life = "live" /\ TagFree(f.tag, f.on) /\ Assignable(f.emp, f.site)
  /\ Begin(t, [op |-> "write", on |-> f.on, row |-> Row(f, f.emp, f.site), seen |-> {}])
  /\ UNCHANGED <<employee, site, asset, behind, loose>>

\* importAssets as far as its writes.  The tag decides between insert and
\* update, a binned match is skipped, and a holder not found is left out.
ImportAsset(t, f) ==
  LET holder == IF f.emp # None /\ employee[f.emp].life = "live" THEN f.emp ELSE None
      place  == IF f.site # None /\ Exists(site[f.site]) THEN f.site ELSE None
      match  == f.tag # None /\ asset[f.on].life = "live" /\ asset[f.on].cols.tag = f.tag
  IN /\ match \/ (Unclaimed(f.on) /\ TagFree(f.tag, f.on))
     /\ Begin(t, [op |-> IF match THEN "write" ELSE "insert",
                  on |-> f.on, row |-> Row(f, holder, place), seen |-> {}])
     /\ UNCHANGED <<employee, site, asset, behind, loose>>

\* Mutant: the foreign keys are not enforced.
AcceptedAnyHolder(w) ==
  /\ w.op = "write" => Exists(asset[w.on])
  /\ TagFree(w.row.tag, w.on)

\* What the database accepts: the row is there, the tag is free and the holder
\* exists (foreign keys) and is one (check constraint).
Accepted(w) ==
  /\ w.op = "write" => Exists(asset[w.on])
  /\ TagFree(w.row.tag, w.on)
  /\ w.row.emp # None => Exists(employee[w.row.emp])
  /\ w.row.site # None => Exists(site[w.row.site])
  /\ w.row.emp = None \/ w.row.site = None

\* The insert or update of the three handlers above; refused, it changes
\* nothing.
CommitAsset(t) ==
  LET w == task[t]
      a == w.on
  IN /\ w.op \in {"insert", "write"}
     /\ task' = [task EXCEPT ![t] = Idle]
     /\ IF Accepted(w)
        THEN /\ asset' = [asset EXCEPT ![a].cols = w.row,
                                       ![a].life = IF w.op = "insert" THEN "live" ELSE @]
             /\ behind' = [behind EXCEPT ![a] = IF Current(w.row) THEN "no" ELSE "overlap"]
             /\ loose' = [loose EXCEPT ![a] =
                  IF w.row.emp # None /\ ~employee[w.row.emp].active THEN "written" ELSE "no"]
        ELSE UNCHANGED <<asset, behind, loose>>
     /\ UNCHANGED <<employee, site>>

\* assetService.softDelete.
DeleteAsset(a) ==
  /\ asset[a].life = "live"
  /\ asset' = [asset EXCEPT ![a].life = "bin"]
  /\ UNCHANGED <<employee, site, task, behind, loose>>

\* recycleBinService.restore refuses a tag that a live asset has.
RestoreAsset(a) ==
  /\ asset[a].life = "bin"
  /\ \A b \in Assets \ {a} : asset[b].life = "live" =>
       asset[a].cols.tag = None \/ asset[b].cols.tag # asset[a].cols.tag
  /\ asset' = [asset EXCEPT ![a].life = "live"]
  /\ UNCHANGED <<employee, site, task, behind, loose>>

\* purge, which does not ask whether the record is in the bin.
PurgeAsset(a) ==
  /\ Exists(asset[a])
  /\ asset' = [asset EXCEPT ![a] = [life |-> "gone", cols |-> NoRow]]
  /\ behind' = [behind EXCEPT ![a] = "no"]
  /\ loose' = [loose EXCEPT ![a] = "no"]
  /\ UNCHANGED <<employee, site, task>>

-----------------------------------------------------------------------------
(* Employees.                                                               *)

\* employeeService.create.
CreateEmployee(e, active) ==
  /\ employee[e].life = "none"
  /\ employee' = [employee EXCEPT ![e] = [life |-> "live", rev |-> 0, active |-> active]]
  /\ UNCHANGED <<site, asset, task, behind, loose>>

\* Observer: assets of somebody who has just been made inactive by an edit.
Edited(e, active) ==
  loose' = [a \in Assets |->
    IF a \in HeldBy(e) /\ employee[e].active /\ ~active THEN "edited" ELSE loose[a]]

\* Mutant: the assets are not told.
UpdateRowOnly(e, rev, active) ==
  /\ employee[e].life = "live" /\ rev \in {employee[e].rev, employee[e].rev + 1}
  /\ employee' = [employee EXCEPT ![e].rev = rev, ![e].active = active]
  /\ Edited(e, active)
  /\ UNCHANGED <<site, asset, task, behind>>

\* Mutant: updateMany without isDeleted.
UpdateAllAssets(e, rev, active) ==
  /\ employee[e].life = "live" /\ rev \in {employee[e].rev, employee[e].rev + 1}
  /\ employee' = [employee EXCEPT ![e].rev = rev, ![e].active = active]
  /\ asset' = [a \in Assets |-> IF a \in HeldBy(e)
       THEN [asset[a] EXCEPT !.cols.name = [of |-> e, rev |-> rev]] ELSE asset[a]]
  /\ behind' = [a \in Assets |-> IF a \in HeldBy(e) THEN "no" ELSE behind[a]]
  /\ Edited(e, active)
  /\ UNCHANGED <<site, task>>

\* employeeService.update: the row, and the copies in the assets that are not
\* in the bin.
UpdateEmployee(e, rev, active) ==
  /\ employee[e].life = "live" /\ rev \in {employee[e].rev, employee[e].rev + 1}
  /\ employee' = [employee EXCEPT ![e].rev = rev, ![e].active = active]
  /\ asset' = [a \in Assets |-> IF a \in LiveHeldBy(e)
       THEN [asset[a] EXCEPT !.cols.name = [of |-> e, rev |-> rev]] ELSE asset[a]]
  /\ behind' = [a \in Assets |->
       IF a \in LiveHeldBy(e) THEN "no"
       ELSE IF a \in HeldBy(e) /\ rev # employee[e].rev THEN "bin" ELSE behind[a]]
  /\ Edited(e, active)
  /\ UNCHANGED <<site, task>>

\* importEmployees: inserts, or updates the row and only the row.  An address in
\* the bin is skipped.
ImportEmployee(e, rev, active) ==
  /\ \/ employee[e].life = "none" /\ rev = 0
     \/ employee[e].life = "live" /\ rev \in {employee[e].rev, employee[e].rev + 1}
  /\ employee' = [employee EXCEPT ![e] = [life |-> "live", rev |-> rev, active |-> active]]
  /\ behind' = [a \in Assets |->
       IF a \in HeldBy(e) /\ rev # employee[e].rev THEN "import" ELSE behind[a]]
  /\ Edited(e, active)
  /\ UNCHANGED <<site, asset, task>>

\* Mutant: retireAssetsForEmployee without the status condition.
RetireAll(e) == {a \in LiveHeldBy(e) : TRUE}

\* Mutant: the status condition is the wrong way round.
RetireNone(e) == {a \in LiveHeldBy(e) : asset[a].cols.status = "return_pending"}

\* The assets that retireAssetsForEmployee moves.
Retire(e) == {a \in LiveHeldBy(e) : asset[a].cols.status # "retired"}

\* employeeService.offboard; the account it closes is in Accounts.
Offboard(e) ==
  /\ employee[e].life = "live"
  /\ asset' = [a \in Assets |-> IF a \in Retire(e)
       THEN [asset[a] EXCEPT !.cols.status = "return_pending"] ELSE asset[a]]
  /\ employee' = [employee EXCEPT ![e].active = FALSE]
  /\ loose' = [a \in Assets |-> IF a \in LiveHeldBy(e) THEN "no"
                                ELSE IF a \in HeldBy(e) THEN "bin" ELSE loose[a]]
  /\ UNCHANGED <<site, task, behind>>

\* employeeService.reactivate: the assets are left as they are.
Reactivate(e) ==
  /\ employee[e].life = "live"
  /\ employee' = [employee EXCEPT ![e].active = TRUE]
  /\ UNCHANGED <<site, asset, task, behind, loose>>

\* employeeService.softDelete: the assets stay assigned.
DeleteEmployee(e) ==
  /\ employee[e].life = "live"
  /\ employee' = [employee EXCEPT ![e].life = "bin"]
  /\ UNCHANGED <<site, asset, task, behind, loose>>

RestoreEmployee(e) ==
  /\ employee[e].life = "bin"
  /\ employee' = [employee EXCEPT ![e].life = "live"]
  /\ UNCHANGED <<site, asset, task, behind, loose>>

\* purge and purgeExpired: the foreign key of the assets is set to null, and
\* the name they copied stays.
PurgeEmployee(e) ==
  /\ Exists(employee[e])
  /\ employee' = [employee EXCEPT ![e].life = "gone"]
  /\ asset' = [a \in Assets |->
       IF a \in HeldBy(e) THEN [asset[a] EXCEPT !.cols.emp = None] ELSE asset[a]]
  /\ behind' = [a \in Assets |-> IF a \in HeldBy(e) THEN "purge" ELSE behind[a]]
  /\ UNCHANGED <<site, task, loose>>

-----------------------------------------------------------------------------
(* Sites.                                                                   *)

CreateSite(s) ==
  /\ site[s].life = "none"
  /\ site' = [site EXCEPT ![s].life = "live"]
  /\ UNCHANGED <<employee, asset, task, behind, loose>>

\* lookupService.updateSite: the copies in the assets keep the old name.
UpdateSite(s, rev, active) ==
  /\ Exists(site[s]) /\ rev \in {site[s].rev, site[s].rev + 1}
  /\ site' = [site EXCEPT ![s].rev = rev, ![s].active = active]
  /\ behind' = [a \in Assets |->
       IF a \in SitedAt(s) /\ rev # site[s].rev THEN "site" ELSE behind[a]]
  /\ UNCHANGED <<employee, asset, task, loose>>

\* Mutant: the assets are not counted.
ReadInactive(t, s) ==
  /\ Exists(site[s]) /\ ~site[s].active
  /\ Begin(t, [op |-> "deleteSite", on |-> s, row |-> NoRow, seen |-> SitedAt(s)])
  /\ UNCHANGED <<employee, site, asset, behind, loose>>

\* deleteSite as far as its delete: the site is inactive and nothing is there.
ReadSite(t, s) ==
  /\ Exists(site[s]) /\ ~site[s].active /\ SitedAt(s) = {}
  /\ Begin(t, [op |-> "deleteSite", on |-> s, row |-> NoRow, seen |-> SitedAt(s)])
  /\ UNCHANGED <<employee, site, asset, behind, loose>>

\* The delete.  Assets that came in since lose their site, by the foreign key.
DeleteSite(t) ==
  LET s == task[t].on
  IN /\ task[t].op = "deleteSite"
     /\ task' = [task EXCEPT ![t] = Idle]
     /\ IF Exists(site[s])
        THEN /\ site' = [site EXCEPT ![s].life = "gone"]
             /\ asset' = [a \in Assets |-> IF a \in SitedAt(s)
                  THEN [asset[a] EXCEPT !.cols.site = None] ELSE asset[a]]
             /\ behind' = [a \in Assets |-> IF a \in SitedAt(s) \ task[t].seen
                  THEN "overlap" ELSE behind[a]]
        ELSE UNCHANGED <<site, asset, behind>>
     /\ UNCHANGED <<employee, loose>>

-----------------------------------------------------------------------------
Next ==
  \/ \E t \in Requests, f \in Forms :
       CreateAsset(t, f) \/ UpdateAsset(t, f) \/ ImportAsset(t, f)
  \/ \E t \in Requests : CommitAsset(t) \/ DeleteSite(t)
  \/ \E a \in Assets : DeleteAsset(a) \/ RestoreAsset(a) \/ PurgeAsset(a)
  \/ \E e \in Employees, rev \in Revision, active \in BOOLEAN :
       UpdateEmployee(e, rev, active) \/ ImportEmployee(e, rev, active)
  \/ \E e \in Employees, active \in BOOLEAN : CreateEmployee(e, active)
  \/ \E e \in Employees :
       \/ Offboard(e) \/ Reactivate(e)
       \/ DeleteEmployee(e) \/ RestoreEmployee(e) \/ PurgeEmployee(e)
  \/ \E s \in Sites, rev \in Revision, active \in BOOLEAN : UpdateSite(s, rev, active)
  \/ \E s \in Sites : CreateSite(s) \/ \E t \in Requests : ReadSite(t, s)

Spec == Init /\ [][Next]_vars

-----------------------------------------------------------------------------
\* No two assets have one tag, the recycle bin included, although the handlers
\* look before they insert: so the clash that restore looks for cannot occur.
TagsUnique ==
  \A a, b \in Assets : Exists(asset[a]) /\ Exists(asset[b]) /\ a # b =>
    asset[a].cols.tag = None \/ asset[a].cols.tag # asset[b].cols.tag

\* The constraints of the schema hold, and the handlers keep them.
ConstraintsHold == TypeOK /\ TagsUnique

\* The name an asset shows is its holder's as it stands, unless the asset was
\* written over a rename or a deletion (overlap), the employee was renamed by
\* an import or while the asset was in the bin, or purged, or the site renamed.
HolderNamed ==
  \A a \in Assets : asset[a].life = "live" => behind[a] # "no" \/ Current(asset[a].cols)

\* What an off-boarded employee held is on its way back: an asset is in use by
\* an inactive employee only if it was written after, or was in the bin, or the
\* employee was made inactive by an edit or an import, which release nothing.
OffboardedReturn ==
  \A a \in Assets :
    LET e == asset[a].cols.emp
    IN asset[a].life = "live" /\ e # None /\ asset[a].cols.status = "active" =>
         employee[e].active \/ loose[a] # "no"

\* A request on asset a that ends in this step.
Finishes(a) == \E t \in Requests : task[t].on = a /\ task'[t] = Idle

\* Only somebody who writes or purges that very asset takes it out of retired
\* or stolen: off-boarding its holder does not.
RetiredStays ==
  \A a \in Assets : asset[a].cols.status = "retired" =>
    asset'[a].cols.status = "retired" \/ Finishes(a) \/ asset'[a].life = "gone"

\* An asset in the recycle bin changes only by a request that began before it
\* got there, or by losing a holder or site that was deleted.
BinFreezes ==
  \A a \in Assets : asset[a].life = "bin" /\ asset'[a].life = "bin" =>
    \/ [asset'[a].cols EXCEPT !.emp = None, !.site = None]
         = [asset[a].cols EXCEPT !.emp = None, !.site = None]
    \/ Finishes(a)

\* What becomes of holders, off-boarding and renaming included, leaves alone what is
\* retired or in the bin.
LeftAlone == [][RetiredStays /\ BinFreezes]_vars
=============================================================================
