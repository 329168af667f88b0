# Formal models of the Radx IT Help Desk

TLA+ models of the self-service IT help desk in this repository, TLC runs that
check them on small instances, and TLAPS proofs of the properties that hold for
instances of every size. Source paths below are relative to `src/`, the root of
the repository, so the application code is under `src/src/`.

## 1. The system

A Next.js application. Pages and Server Actions (`src/src/app`) check the
session and the CSRF token and call one service method (`src/src/services`).
A service reads and writes PostgreSQL through Prisma, at the default isolation
level READ COMMITTED, stores files in a blob store, and queues emails as
`Notification` rows. A scheduler calls one HTTP endpoint that does the
housekeeping. Several requests, and several instances of the application, run at
the same time; the only things they share are the database, the blob store and,
if configured, Redis.

Two facts about this shape decide how everything is modelled:

* A service method is a sequence of `await`s. Nearly every one *reads a row,
  decides, and then writes by id*, mostly without a transaction around both
  and never with a version check. So one handler is one reading action and one
  or more writing actions, with a local variable for what it read, and any
  other handler can run in between.
* A `prisma.$transaction` is atomic and is one action. Whatever comes after it
  (a second read, an email, a session revocation) can be cut off by a crash.

### Inventory

| Component | State | Operations | What is hard | What makes it correct |
|---|---|---|---|---|
| Notification outbox (`notification.service.ts`) | `Notification` rows: status, attempts | enqueue, dispatch, retry, sweep | workers on one row, lost SMTP replies, crash with ids in memory | every email has a row, "sent" is true, attempts and duplicates are bounded, nothing is forgotten |
| Equipment workflow (`equipment.service.ts`, `equipment-status.ts`) | request status, event history, issued assets | create, decide, delete, restore, purge | two agents on one request, mail after commit | moves follow the map, history is complete, mails are true |
| Ticket desk (`ticket.service.ts`, `recalculate-sla.ts`) | ticket rows, comments, notifications | create, status, assign, update, comment, delete | decisions from stale reads | resolution time, deadline and mails agree with status and priority |
| Attachments and recycle bin (`recyclebin.service.ts`, attachment handlers) | rows, blobs, retention clock | upload, delete, restore, purge, sweep | rows are transactional and blobs are not, two sweeps, restore against sweep | a visible row has its file, the files of purged rows go |
| SLA clock (`lib/sla`) | none (pure) | working-hours arithmetic, time zones | boundaries: weekends, closing time, zone changes | deadline lies in working time, the two directions agree |
| Accounts (`user.service.ts`) | users, roles, activation | create, change role, enable, disable, offboard | last-administrator check, role against session | an active administrator remains, no session keeps rights its user lost |
| Credentials (`auth.service.ts`, `session.ts`, `passwords.ts`, `tokens.ts`) | password hash, reset links, sessions | sign in and out, reset request, completion, change, revocation | two requests for one account, a link validated and then replaced, a revocation lost in a crash | one session, a link works once and only the newest, a revocation leaves nothing behind, no older password returns |
| Asset register (`asset.service.ts`, `asset-tag.ts`) | assets, their holder and a copy of its name | create, assign, retire, delete | holder name copied from a stale read; uniqueness looked up before the insert | an asset names its holder; tags are unique |
| Employees (`employee.service.ts`) | people, the link to an account | create, update, offboard, reactivate, delete | off-boarding against assignment; three places that say who left | what a leaver held comes back, and the account is closed |
| Device tracking (`device.service.ts`) | key digest and last check-in of an asset, the key file of its agent | enrol, check in, rotate, disable, locate by hand | rotation against check-in, an answer lost with the only copy of a key, check-ins that overtake each other | a revoked key is of no use, the newest report is shown, reports resume |
| Rate limiter (`rate-limit.ts`) | counters with expiry, in the process or in Redis | hit, peek, reset | increment and expiry are two calls; callers look first and count later | the limit is overshot by no more than the requests in progress; no permanent lock-out |
| Lookup tables (`lookup.service.ts`) | sites, categories, item types, countries | create, delete if unused | count, then delete | what is in use is not deleted |
| CSV import (`import.service.ts`) | assets, employees | validate, insert or update | check, then act, per row | no duplicates, errors by row |
| Audit log, middleware, CSRF, encryption, uploads, exports, reports, pages | | | pure I/O, formatting or library code | |

`PROJECT.json` lists every component with its files, what is modelled of it, and
every hazard of the code at its line.

## 2. Plan

The order is that of what the application promises most loudly and tests least.

| Stage | Module | Composes with | Runs |
|---|---|---|---|
| done | `NotificationOutbox`, `NotificationOutboxProofs` | the `Notification` rows that the other services commit | `outbox` |
| done | `EquipmentStatus`, `EquipmentStateMachine`, `EquipmentWorkflow`, `EquipmentWorkflowProofs` | the workflow refines the state machine, both use the map | `equipment_safety` |
| done | `TicketDesk`, `TicketDeskProofs` | its mails are the rows of the outbox | `ticket_desk` |
| done | `RecycleBin`, `RecycleBinProofs` | the life of every record, with its files | `recycle_bin`, `purge_leaks` |
| done | `WorkHours`, `TicketDeskProofs` (second half) | the deadlines `TicketDesk` keeps symbolic | `work_hours`, `midnight_dst` |
| done | `Credentials`, `CredentialsProofs` | sessions end where `Accounts` disables or demotes | `credentials` |
| done | `AssetRegister`, `AssetRegisterProofs` | assets, employees and sites, with imports | `register` |
| done | `Accounts`, `AccountsProofs` | its cuts are those of `Credentials`; employees as in `AssetRegister` | `accounts` |
| done | `RateLimiter`, `RateLimiterProofs` | guards the requests of `Credentials` and `DeviceTracking` | `limiter` |
| done | `DeviceTracking`, `CredentialsProofs` (second half) | the device columns of one asset of `AssetRegister` | `devices` |

Theorems worth proving, in this order: the outbox's invariant; the refinement of
the equipment state machine, because it is the one promise the repository states
for every transition; in which cases alone a file is lost; the invariants of
accounts, tickets and the register; that a limit holds for any number of requests.
All of these are proved (§5), and so are the keys of devices and the loops of the SLA
clock. What remains for TLC is listed in §6.

## 3. How the models relate to the code

**Conventions.** The parameters of a specification are CONSTANTS: the ids in
play, the tasks that can be in progress at once, and the bounds, each marked
`bound` where it is declared. A *task* (a *worker* in the outbox) is one handler,
script or job in progress. Its record holds what the handler has in local
variables, and its `pc` (or `op`) names the `await` it is at. An action is what
happens between two awaits, or one transaction. Where a service reads a row and
later writes it by id, reading and writing are two actions. Data that no decision
depends on (titles, bodies, serial numbers) is left out. *Observers* are variables
no action reads in a guard; they record history that a property speaks of.
*Mutants* are operators that no specification uses: each is a definition with a
plausible mistake in it, kept beside the definition to show that the property
named in `PROJECT.json` notices the mistake. `WorkHours` and `DeviceTracking` write
`HoursSpec`, `DeviceSpec` and so on where the others write `Spec`, because their
theorems share a module with those of another component.

**Races.** Many promises of the code hold until two handlers work on one row at the
same time. The models do not exclude that. They observe it (`overlapped`, `raced`,
`overlap`, `met`, `twin`, `behind`, `loose`, `open`, `lost`) and state the promise for
the rows it has not happened to. So each such property says precisely which overlap
it does not survive.

### NotificationOutbox

| Model | Code (`notification.service.ts`) |
|---|---|
| `status`, `attempts` | the columns; `"absent"` before the commit |
| `pc`, `cur`, `seen`, `todo` | the row a worker has in hand, `row.attempts` as it read it, the ids left in `dispatchAll` |
| `Enqueue` | `enqueue` in the caller's transaction, and the unawaited `dispatchAll` |
| `DispatchRead`, `Send`, `SendReplyLost`, `RecordSent`, `MarkSent`, `MarkSentFails`, `MarkSentUnheard`, `MarkFailed`, `DispatchAborts` | `dispatch`: the read and its early returns, the three outcomes of the SMTP call, the two updates, the outer catch |
| `RetryRead`, `RetryMark` | `retry` |
| `SweepRead` | `retryAllFailed` |
| `Crash` | the process dies with its ids in memory |

The update to `sent` fails in two ways, and both throw into the same `catch`:
`MarkSentFails` did not reach the row, `MarkSentUnheard` committed and its reply was
lost. After the second the `catch` writes `failed` over `sent`, with one worker
and no overlap, and the sweep sends the email again if attempts are left.

### EquipmentWorkflow, EquipmentStateMachine, EquipmentStatus

`EquipmentStatus` is the transition map of `equipment-status.ts`.
`EquipmentStateMachine` is the abstract machine a reader of that map has in mind:
a request is in one status, each decision is an edge, the log grows by exactly that
edge, a binned request is frozen. `EquipmentWorkflow` is the service:
`ApplyRead` (read and assert), `ApplyAssets` (which devices exist), `ApplyCommit`
(status, stamp, event, links in one transaction; the form offers devices with `issued`
only, the server links them with any status), `Tell` (the email, composed from
a second read after the commit), `Create`, `DeleteRead`/`DeleteWrite`, `Restore`,
`Purge`, `RowVanished` (an update by id of a row that is gone), `AssetDeleted` in the
register next door, and `Crash`. Its `Contract` maps a request that two tasks have
worked on at once to the phase `"disputed"`, from where the abstract machine
promises nothing more of that request, and all others to themselves. Two more observers
note what only history tells: `late`, the devices deleted after a handler looked them
up, and `cut`, the decisions whose handler died between its two commits, so that the
requester is never told of them.

### TicketDesk

A row has the columns the deadlines and statistics depend on. The deadline stays
symbolic: `SlaDueDate` records from when, for which priority and under which version of
the targets it was computed. `StatusRead`/`StatusCommit`, `AssignRead`/`AssignCommit`,
`UpdateRead`/`UpdateCommit` and `CommentRead`/`CommentCommit` are the handlers of
`ticket.service.ts`, `ScriptRead`/`ScriptWrite`/`ScriptEnds` is `recalculate-sla.ts`,
`Deploy` is a release that changes the targets. The script writes by id what it has on
its list, and so moves the deadline of a ticket that was deleted since: `overlap` notes
a deletion under the hands of a handler or of the script, and a restore clears the note.
The mails of a ticket are a count and the last one: each commit adds exactly one or
none, so an equality of counts and last entries in every state is an equality of the
sequences.

### RecycleBin

| Model | Code |
|---|---|
| `place`, `expired` | `isDeleted` and the row's existence; `deletedAt <= cutoff` |
| `key`, `rows`, `blobs` | the record a storage key is built for, the attachment or document rows, the objects in the store |
| `Create`, `CreatePut`, `CreateCommit` | `ticketService.create`, whose puts are inside the transaction |
| `Upload`, `UploadPut`, `UploadRow` | `addAttachments` and `addDocument`: check, put, row |
| `Erase`, `Unlink`, `UnlinkFails` | `deleteAttachment`, `deleteDocument`; a storage deletion, and one that fails and is swallowed |
| `SoftDelete`, `Restore` | the same in all services |
| `Purge`, `PurgeDrop` | `recycleBinService.purge` |
| `SweepAssets`, `SweepVisit`, `SweepTickets`, `SweepDrop` | `purgeExpired` |
| `Fail` | any statement, transaction or put that fails, and a crash |

`Age` lets the retention window pass while no handler runs, since the window is
thirty days and a run of the job is cut off after five minutes. That is what makes
`Stale` at the end of a sweep a subset of what it listed.

Two observers follow the files through removals. `doomed` has the records that each
task is removing at this moment, and forgets them when the task ends. `lost` has the
files that such a task left behind: their row is still listed, their blob is gone.
`LeavesBehind` says when that happens, and there are two cases: a failure or a crash
cuts the removal short between a blob and the row, or a record is restored (or binned
anew) under a sweep that has listed it, so that the sweep's transaction spares a record
whose blobs it has already deleted. The code has nothing against either, and these
files stay listed, unopenable, until somebody deletes them or purges the record.

### Credentials

One account, because accounts share nothing here but the rate limiter.

| Model | Code |
|---|---|
| `active`, `password`, `legacy` | `isActive` and `passwordHash`: which version it is a hash of, and whether it is of the old kind |
| `sessions`, `links` | the `Session` and `PasswordResetToken` rows |
| `LoginRead`, `LoginRehash`, `LoginCycle`, `LoginIssue` | `login`, then the two statements of `createSession` |
| `SessionEnds`, `Auth` | sign-out, expiry and the purge; `auth` meeting a disabled account |
| `ResetRequest`, `LinkCreate` | `requestPasswordReset`, whose transaction deletes and then creates |
| `CompleteRead`, `CompleteWrite`, `CompleteFails`, `Revoke` | `completePasswordReset`: validation, transaction (which fails when the row is gone), `revokeAllForUser` |
| `ChangeRead`, `ChangeWrite` | `changeOwnPassword` |
| `Disable`, `ChangeRole`, `Enable` | `setActive`, `changeRole`, `offboard`, `reactivate`, as far as sessions go |
| `LinkExpires`, `LinksPurged`, `Crash` | the clock, the purge job, the process |

A *cut* is a moment at which every session has to end. A session remembers how
many came before it, so that `RevocationsHold` can speak of sessions older than a
cut. The delete in a READ COMMITTED transaction does not see what commits after it
started, so `createSession` and `requestPasswordReset` are two actions each; rows
that such a delete holds are `Locked` until the transaction ends. A sign-in that was
verified before a cut and commits after it gives a session after the cut: the code
revokes what exists, and the property says no more than that.

### WorkHours

One behaviour is one call of `addWorkingHours` followed by one of
`workingHoursBetween` on its result. The actions are the branches of the loop bodies.
`ZonedTimeToUtc` is the two-pass conversion of `timezone.ts`. Time is counted in
units with `DayLength` units to a day, a zone has one change of offset. The
reference the loops are checked against, `Worked`, counts the instants whose
wall-clock reading is a working hour of a working day. `WellSet` says in which
settings the loops are correct; the code nowhere checks it. The offsets of the zones
are those of the platform's time-zone data (`Intl`), and a ticket's own life is in
`TicketDesk`.

### AssetRegister

| Model | Code |
|---|---|
| `employee`, `site`, `asset` | the rows; `rev` stands for the columns an asset copies from its holder |
| `Assignment`, `Assignable` | `normaliseAssignment`: an employee, or else a site, or nobody |
| `CreateAsset`, `UpdateAsset`, `ImportAsset` | the readings of `create`, `update` and one row of `importAssets` |
| `CommitAsset`, `Accepted` | their write, and what the unique index, the CHECK and the foreign keys let through |
| `Offboard`, `Retire`, `Reactivate` | `offboard` with `retireAssetsForEmployee`, `reactivate` |
| `UpdateEmployee`, `ImportEmployee` | `update`, which tells the assets outside the bin, and `importEmployees`, which tells none |
| `ReadSite`, `DeleteSite` | `deleteSite`: check and count, then delete |
| `DeleteAsset`, `RestoreAsset`, `PurgeAsset`, and the same for employees | the recycle bin |

An asset's holder and its name are two columns that five handlers write from
readings of different age. `HolderNamed` lists when they disagree: an asset written
over a rename or a deletion, an employee renamed by an import or while the asset was in
the bin, or purged, and a renamed site, which no handler tells its assets about.
`OffboardedReturn` lists how an asset can be in use by somebody who is inactive: it was
in the bin, or assigned by a form that was past its check; or the form or an import made
the employee inactive, which releases nothing.

### Accounts

An account says what its owner may do in three columns: the profile's role,
`isStaff` and `isSuperuser`. `EffectiveRole` is how `session.ts` combines them.
`AskRole`/`ReadRole`/`WriteRole`, `AskActive`/`WriteActive` and
`ReadEmployee`/`Offboard`/`Reactivate` are the guard of the Server Action, the checks
of the service and its transaction; `UpdateEmployee` is the employee form, which sends
the linked account along. `lost` says how the last administrator went.

`SECURITY.md:81-82` says that `changeRole()` refuses to demote the only active
administrator, "so the application can never lock everyone out of user management".
`AdminUnlessExcused` is what holds: the refusal works unless two role changes or
disablings overlap, and off-boarding the employee who is the last administrator is not
refused at all, because `offboard` does not ask. Disabling an account is safe
without a count as long as nothing overlaps: whoever disables is an administrator and
not the one disabled.

### RateLimiter

| Model | Code |
|---|---|
| `store`, `count`, `left` | which limiter `rateLimiter()` makes; the counters, and their time to live in ticks |
| `AskIp`, `AskUser`, `Verify`, `Reset` | `login`: the two peeks, the judgement, the two resets |
| `HitMemory` | `MemoryRateLimiter.hit` |
| `HitRedis`, `Expire` | `RedisRateLimiter.hit`: the MULTI, and the EXPIRE that follows when there is no time to live |
| `HitFails`, `ExpireFails` | a command that fails before or after Redis has run it, and is swallowed |
| `Tick`, `Crash` | the clock, and a process that stops; the Map goes with it |

`OvershootBounded` bounds how far a counter of failed sign-ins goes beyond its limit:
each request that looked before the counter was full may add one. `ExpiryOnItsWay`
is why a counter cannot lock for ever after a crash between INCR and EXPIRE: every hit
that finds no expiry sets one, so that only hits which failed or died themselves are
unaccounted for. `LocksEnd` draws the conclusion: a full counter opens again, however
often it is hit meanwhile, unless all the hits that filled it failed in just this way
and nobody knocks any more.

### DeviceTracking

One asset, the agent on the device, and the requests between them.

| Model | Code |
|---|---|
| `asset` | `isDeleted`, `trackingEnabled`, and the source of what `lastSeenLocation` shows |
| `agent` | the key file of the script in `DEVICE_AGENT.md`, and the request it waits for |
| `Run`, `Learn`, `Deliver`, `GiveUp` | the script: enrol without a key, else report; store the key, or remove it after a 401 |
| `Enrol`, `Issue` | `enrol`: the reading by serial number, the update by id |
| `Authenticate`, `Stamp`, `Store` | `authenticate`; `recordCheckin` with its geo lookup, and its transaction |
| `Rotate`, `RotateKey`, `DisableTracking`, `Manual` | `rotateKey`, `disableTracking`, `recordManualLocation` |
| `Throttle`, `Lose` | a 429, a lost request or answer, a process that dies |

Keys are fresh, so a copy of a key is "valid" or "stale", and every replacement makes
all copies stale. A check-in in hand knows which others took their time before it
(`older`), so that the one that is overtaken is known when it is stored. `OldKeysDie`
counts: with a key that was replaced or removed no more check-ins are stored than were
past `authenticate` at that moment. `Recovers` is the other side, under the faults of
the network: the agent that holds a stale key, or never got the answer with the new one,
is refused, forgets it and enrols again. For the same reason switching tracking off
lasts until the agent's next two runs: its key is refused, it enrols, and enrolment
switches tracking on.

## 4. What the runs show

| Run | Instance | What is established |
|---|---|---|
| `outbox` | 2 notifications, a request worker and the job, 2 attempts, sweep limit 1, 2 faults, 1 press of the button | everything in §5, and `EventuallySettled` |
| `equipment_safety` | 1 request, 2 agents, 1 device, 3 decisions, 1 crash | audit trail, chain, stamp, devices looked up, mails and which of them are lost, frozen bin, refinement |
| `ticket_desk` | 1 ticket, 2 interchangeable handlers, 2 priorities, 3 statuses, 1 tick, 3 mails, 1 reply | resolution time, deadline, mails, replies, frozen bin |
| `recycle_bin` | 1 asset, 1 ticket, 2 files, an agent, an administrator and the job, 1 fault | which files are lost and that no other is, no blob leaked, restore against sweep, `ExpiredLeaves` |
| `work_hours` | 25 starts, 6 targets, 3 configurations, 36 zones, 10 turns | deadline, conservation of working time, agreement of the loops, progress |
| `credentials` | 1 account, 2 requests, 2 sign-ins, 2 links, 2 new passwords, 2 cuts | one session, revocation, single and newest link, latest password |
| `register` | 1 employee, 1 site, 2 assets, 1 tag, 2 requests, 1 renaming of each holder | tags, holders, off-boarding, retired assets, frozen bin |
| `accounts` | 2 accounts, 2 employees, 2 interchangeable requests | roles, the last administrator, accounts of leavers |
| `limiter` | 1 name, 1 network, 1 form, 2 requests, limit 2, window 2 | overshoot, expiry, `LocksEnd` |
| `devices` | 1 asset, 1 agent, 3 requests, 4 troubles | old keys, newest report, `Recovers` |

Some of the properties are conjunctions of named parts: `TrailHolds` (`TypeOK`,
`AuditTrail`, `HistoryIsChain`, `IssueStamp`, `DevicesChecked`), `MailsHonest` (`LettersTruthful`,
`DecisionsTold`), `StampsHold` (`TypeOK`, `ClosedIsStamped`, `FreshUnlessOverlap`),
`MailsMatch` (`MailsTellMoves`, `RepliesMailed`), `FilesSafe` (`TypeOK`,
`FilesOutliveTheBin`), `LoopsCorrect` (`HoursTypeOK`, `DueAfterTarget`, `NothingLost`,
`RoundTrip`), `ConstraintsHold` (`TypeOK`, `TagsUnique`), `LeftAlone` (`RetiredStays`,
`BinFreezes`), `RolesHold` (`TypeOK`, `RoleAsGranted`), `CountersExpire` (`TypeOK`,
`ExpiryOnItsWay`), `KeysHold` (`DeviceTypeOK`, `OldKeysDie`). Nearly every part has a mutant of
its own.

**Violation runs.** Each shows that a sentence of the repository is not what the code
does.

* `purge_leaks`: the storage service refuses one deletion, the error is swallowed,
  the row with the only copy of the key is deleted, and the blob stays.
* `midnight_dst`: in a zone behind UTC whose clocks go forward at midnight
  (America/Santiago and America/Havana do), `startOfZonedDayPlus` returns 23:00 of
  the day it started from. The loop turns on the spot until its guard runs out,
  and the deadline is the hour before midnight of that day. The default zone,
  Africa/Harare, has no change and is not affected.

Other sentences of this kind are met by properties that name the exception:
`AttemptCeiling` ("Max 5 attempts", but two workers that read one row lose one of
two counts), `HistoryIsChain` and `KeepsContract` ("enforced on every transition", but
two agents may read the same status), `FreshUnlessOverlap` ("never count a ticket that
came back", but a handler may write back the stamp it read before a reopening),
`AdminUnlessExcused` (above), and `DecisionsTold`: `equipment.service.ts:179-183` says
that `applyStatus` "records the event, links issued assets, and notifies the
requester — all in one transaction", but the email is queued by a commit of its own
after that transaction. A crash between the two loses it for good, and
`DecisionsTold` says that these are exactly the decisions nobody is told of.

Two properties name what the code does not keep without contradicting a
sentence of it: `LogNeverRegresses` lets a row leave `sent`
only by a worker whose own success was recorded and not confirmed
(`MarkSentUnheard`), and `FilesSafe` lets a listed file be without its blob only
while its record is being removed, or in the two cases of `lost`.

**Why the bounds are enough.** A race on a row needs two tasks and one row; what a
third could add is another overlap on a row that already counts as overlapped.
The outbox has two notifications because starvation in the sweep needs one behind
another, and two attempts because one is both first and last. Three decisions let
a request go out of a status, back to a state with a choice, and on. One fault at a
time is enough to stop between any two steps; the outbox has two, because one may
hide an outcome and the next interrupt its repair. The bin has an asset and a ticket
because the sweep visits them in different phases, and two files because the first
may be dealt with when the second fails. In `work_hours` a week of three days has a
single working day, two consecutive ones, and a day off; the targets end before, at
and after closing time and reach into a third working day. The clocks change in the
small hours or while the desk is open, so that a working day is longer or shorter by
an hour than its hours of business say. `MaxTurns` is 10 where the
code has 3650: the bound is reached only by the configuration that has no working
hours. In `credentials` two passwords are what it takes to use one link twice, two links to
have an older one, and two cuts to overlap revocations; the proofs lift every bound.
In `register` two assets and one tag are a clash, one employee and one site are the
two kinds of holder, and a form past its check needs one other request. In `accounts`
two administrators are what it takes to demote each other. In `limiter` a limit and
window of 2 tell the first hit, the last allowed one and one too many apart, before,
at and after half the window. In `devices` a third request is a check-in that overtakes
another while a key is rotated; four troubles lose an answer, rotate, remove and
throttle in one history.
`CHECK_DEADLOCK FALSE` is set where a bounded instance comes to rest
(every budget spent, every record gone); the bin's job never rests, so its runs check
deadlock.

**Fairness.** Node runs a started handler to its end unless it crashes or a call
fails, so the continuing steps of each task are weakly fair: they stay enabled until
taken. The scheduler calls the job again and again (`AZURE_DEPLOYMENT.md` §15), so
starting a sweep is weakly fair for the workers that are jobs; the task scheduler of
the device (`DEVICE_AGENT.md:78-79`) does the same for runs of the agent, each of which
starts when the last one has ended. Handlers of `DeviceTracking` and steps of
`RateLimiter` are fair because the lookup has a timeout, Redis commands have bounded
retries and no offline queue, and the clock of `RateLimiter` because clocks run. Requests, clicks,
ageing and faults are not fair. Faults are bounded, which is what "the service comes
back" means in a finite model: `EventuallySettled` and `ExpiredLeaves` say that
things get done once it does, and so does `Recovers`. `LocksEnd` needs no bound on faults. `WorkHours` is one sequential call; its loop goes on.

## 5. What is proved

The proofs about a component have one inductive invariant (`OutboxInv`, `WorkflowInv`, ...), a
lemma for each of its conjuncts with a step for each action, a theorem that it always
holds, and the properties that follow. Lemmas about effects say once what a
handler's write does to the row it names and that it leaves the other rows alone.
Every invariant was model-checked on the instance of its run before it was proved,
that of `RecycleBin` on larger instances too. The theorems are about `Spec`; where
a run uses a specification with more fairness, it implies `Spec`.

Assumptions are on constants only, and TLC evaluates them in every run: bounds are
naturals, ids of different tables differ, `None` is no id. The ones that say more are
explained below. The theorems about the SLA clock have a hypothesis besides, on
constants too, which TLC evaluates in their run.

### The outbox

`NotificationOutboxProofs` proves, for any number of notifications, workers and
sweepers, any limit and any number of faults and clicks:

| Theorem | Property |
|---|---|
| `OutboxTypes` | `TypeOK` |
| `HonestOutbox` | no email without a row; `sent` only if the server took the message |
| `CeilingHolds` | sends beyond `MAX_ATTEMPTS` are paid for by faults |
| `DuplicatesHaveCauses` | a second copy of an email needs an overlap or a fault |
| `ExhaustedDecided` | a row out of attempts shows an outcome |
| `LogIsMonotone` | `LogNeverRegresses`: attempts never decrease, and `sent` stays unless the reply to the update that wrote it was lost |

The only assumption is `OutboxAssumption`: the bounds are naturals, at least one
attempt is allowed, sweepers are workers.

The properties are not inductive: that `MarkSent` does not move the attempt count
back needs that what the worker read is still what the row says. `OutboxInv` says
why. `HoldsAlone` is its core: a row that is not in `overlapped` is in at most one
hand, and that worker's `seen` is the row's `attempts`, or one less where the worker
never heard that its success was recorded. `HoldsCommitted` says that
workers hold committed rows with attempts left, so that `seen + 1` stays in range.
`SendsAccounted` and `CopiesAccounted` are balances: each send is in the attempt
count, in flight, or was hidden by a fault, and each copy taken by the server is on
record, about to be, or cost a fault. `AcceptedKnown` ties the outcome a worker is
about to write to what the server did. Each conjunct has a lemma with one step per
action; `OutboxInvariant` combines them and the theorems follow.

### Credentials

`CredentialsProofs` proves, for any number of requests about an account and any
bounds, from `CredentialsAssumption` (the bounds are naturals):

| Theorem | Property |
|---|---|
| `TypeCorrect` | `TypeOK` |
| `SessionsCycle` | `OneSession` |
| `RevocationsAreFinal` | `RevocationsHold` |
| `LinksAreSingleUse` | `SingleUse` |
| `NewestLinkSets` | `NewestLinkOnly` |
| `PasswordStaysLatest` | `PasswordIsLatest` |

`CredentialsInv` adds what the requests in progress know. `CycleSeesAll` is the
reason for one session: whoever is about to insert one has already deleted every
session that is not a twin. `RequestSeesAll` says the same of links, and that they
are numbered as they are inserted. `LinksSpent` follows a link from validation to
use: once it has set a password, whoever still holds it shared it with the one who
used it. `RehashOfLatest` says that a rehash in progress writes the latest password
unless another was chosen meanwhile. `RevocationsHold` is inductive by itself.

### The equipment workflow

`EquipmentWorkflowProofs` proves, for any number of requests, agents and devices and
any bounds:

| Theorem | Property |
|---|---|
| `WorkflowInvariant` | `WorkflowInv` |
| `TrailAlwaysHolds` | `TrailHolds`: timeline, chain and stamp agree with the status, and devices were looked up |
| `MailsAlwaysHonest` | `MailsHonest`: decisions are mailed truthfully, all but those cut off between the two commits |
| `WorkflowKeepsContract` | `KeepsContract`: the service implements `EquipmentStateMachine` |

A decision is asserted against the map when the request is read and written later by id.
`MovesAsserted` keeps the assertion in the invariant; `OneHand` and `ReadingHolds` say
that while nobody else came to the request, what was read is still the case, so that the
event written is an edge from where the request stands. `NumbersKnown` bounds the events
an email can be about, which `LettersTruthful` needs when the timeline grows.
`EventsOwned` gives each event whose email is still to come one handler, and no email
queued or lost, which makes `DecisionsTold` an equivalence. The refinement maps a
request to its phase, its status and its log (`Phase`, `State`, `Log`). Each step of the
service is shown to submit, decide, shelve or erase one request, to dispute it, or to
stutter, with one lemma for each of these; `Stutters` covers every step that leaves the
three maps alone. That a disputed request stays disputed is why the abstract machine
needs no more than its own history.

### The ticket desk

`TicketDeskProofs` proves, for any tickets, agents, handlers and priorities:

| Theorem | Property |
|---|---|
| `DeskInvariant` | `DeskInv` |
| `StampsAlwaysHold` | `StampsHold` |
| `DeadlineAlwaysFits` | `DeadlineUnlessOverlap` |
| `MailsAlwaysMatch` | `MailsMatch` |
| `FirstResolutionAlwaysKept` | `FirstResolutionKept` |
| `BinAlwaysFreezes` | `BinFreezes`: status, resolution time, deadline, priority and comments, unless deleted under a handler or the script |

`OneWriter` speaks of the status and of the deadline apart: a status change and an
update may overlap on one ticket without harm, because they write different columns.
`StatusStands` and `PriorityStands` say that what was read under `OneWriter` still
stands; the second covers the recalculation script's batch too. `AskFits` carries what
a reading knows even when it is stale: the status and stamp it took are those of one
row, which is why `ClosedIsStamped` survives every overlap. `BinIsLeft` says that a ticket
in the bin is `AtHand` for nobody, the script's list included, unless it was when it was
deleted. `InThePast` orders stamps
and reopenings by the clock. `DeskAssumption` says that `None` is no time, that the
statuses that are not closed are among those of the code, and that "medium" is a
priority, the default of the form.

### The SLA clock

The second half of `TicketDeskProofs` proves, for any length of a day and a week, any
opening hours, zones, starts and targets that are `WellSet`:

| Theorem | Property |
|---|---|
| `HoursInvariant` | `HoursInv` |
| `LoopsAlwaysCorrect` | `LoopsCorrect` |
| `TurnsAlwaysAdvance` | `TurnsAdvance` |
| `GuardUnreachable` | a sane configuration never runs into the guard of the loop |
| `SettingsFit` | which settings of the code are `WellSet` |
| `MidnightStandsStill` | why `WellSet` excludes clocks that change at midnight |

`WellSet` asks that the hours are hours of a day, that no midnight, opening or closing
hour is among the local times a zone skips or shows twice, and that the turns of a
loop reach the weeks a target takes. `SettingsFit` derives it from whole hours of
a day (`env.ts` parses whole numbers, and does not look whether they are hours of a
day), the targets of `sla.ts` (at most four hours) and the 3650 turns, for every zone
whose clocks keep clear of those three hours; the default zone, whose clocks never
change, is one. A change at night or during opening hours is
covered. `MidnightStandsStill` is the finding of `midnight_dst` for every
zone behind UTC, any offset and any day: the hypothesis is not there for convenience.

The conversions come first: for a local time that is shown exactly once, two passes
give an instant that shows it, and all earlier instants show earlier times
(`LocalTimes`, `TwoPasses`). So each date is an interval of instants from one
midnight to the next, its working time is what lies between opening and closing
(`HoursOfDay`), and a loop that starts a turn on a date ends it at the next midnight
(`TurnsGoOn`). `HoursInv` says of a loop between two turns: from its second turn on, its
cursor is at a midnight and each turn was a date (`OnePerDay`); what was charged or
counted is `Worked` up to the cursor (`Charged`, `Counted`); a deadline that was
returned is the first that fits (`DueFound`); and each week that has passed took a working day off
what is left to charge, less the hour that the clocks may skip on one of them
(`WeeksCharged`), which is what keeps a target from outlasting the turns. `Worked` is the
cardinality of a set of instants; the lemmas about it (`HoursAddUp`, `HoursOfSpan`) add
such sets up over adjacent intervals, so that no induction over data is needed: the
induction is the one over the behaviour.

### Attachments and the recycle bin

`RecycleBinProofs` proves, for any sets of records, files, agents, administrators and
jobs and any number of faults:

| Theorem | Property |
|---|---|
| `BinInvariant` | `BinInv` |
| `FilesAlwaysSafe` | `FilesSafe`: a listed file has its blob, is being removed this moment, or is in `lost` |
| `NoLeakWithoutFaultOrRace` | `NoLeakUnlessFaultOrRace` |
| `RestoredIsSpared` | `SweepSparesTheRestored` |

`OneHand` is the reason that no upload loses its blob to another task: until its row is
written, a file is in the hands of the upload its key was made for. `RemovalsMeant` says
that whatever a purge or a sweep still has to delete belongs to a record that it is
removing, and that nobody else removes any; `RowsBelong` that rows go with their record.
`BlobsGoByRemoval` and `RemovalsEnd` are the two halves of `FilesSafe`: nothing but a
removal takes the blob of a row, and a removal is at work until it fails or deletes its
records, so that what is left behind without a blob is in `lost` when it ends. For
leaks, `PurgeLists` and `SweepLists` say that as long as nothing failed, every blob of a
record about to go is still on a list, or was uploaded against a purge by hand (`Met`,
`GoneWasMet`). `NoUploadToExpired` is where the retention window enters: it outlasts
every handler. `BinAssumption` keeps jobs apart from the people who purge by hand.

### Accounts

`AccountsProofs` proves, for any sets of accounts, employees and requests:

| Theorem | Property |
|---|---|
| `AccountsInvariant` | `AccountsInv` |
| `RolesAlwaysHold` | `RolesHold` |
| `AdminAlwaysUnlessExcused` | `AdminUnlessExcused` |
| `OffboardedAlwaysOut` | `OffboardedOut` |

`OthersSeen` is the guard of `changeRole` and `setActive` as it survives until the
write: whoever demotes or disables an administrator saw another one when it looked. If
none is left after the write, what was seen is no longer so, which is the overlap
that excuses it. `ColumnsAgree` keeps the three columns of a role together,
`OnItsKind` the existence of the row a request is about to write. `TypeOK` holds the
uniqueness of the link between employee and account, so it is not a mere typing.

### The asset register

`AssetRegisterProofs` proves, for any sets of employees, assets, sites, tags and forms
and any number of renamings:

| Theorem | Property |
|---|---|
| `RegisterInvariant` | `RegisterInv` |
| `ConstraintsAlwaysHold` | `ConstraintsHold` |
| `HolderAlwaysNamed` | `HolderNamed` |
| `OffboardedAlwaysReturn` | `OffboardedReturn` |
| `RestAlwaysLeftAlone` | `LeftAlone` |

`HolderNamed` and `OffboardedReturn` speak of assets outside the bin and are not
inductive: `restore` looks at nothing. `NamedOrNoted` and `ReturnedOrNoted` extend them
to the bin, where the handlers that forget binned assets leave their note. `TasksFit`
keeps what the count before `deleteSite` saw.
`RegisterAssumption` says that forms are well-formed.

### The rate limiter

`RateLimiterProofs` proves, for any finite set of requests, any counters, any limit and
any window:

| Theorem | Property |
|---|---|
| `LimiterInvariant` | `LimiterInv` |
| `OvershootAlwaysBounded` | `OvershootBounded` |
| `CountersAlwaysExpire` | `CountersExpire` |

The bound is not inductive, since a count may rise by one for each request that was
let past. `OwingBounded` counts them in: the hits of a counter together with the
requests that still owe it one are fewer than the limit and the requests together.
A look that is let past turns a request into one that owes when there is room
for it, a hit pays what was owed. The lemmas about cardinalities say that one
request more or less changes `Owing` and `Pending` by one. `LimiterAssumption` asks
for finitely many requests, and that the bound `Cap` of the counters lies beyond what
the theorem shows, so that it cannot be what keeps them down.

### Device tracking

The key of a device is the other secret that this application revokes, and its
theorems are in the second half of `CredentialsProofs`, for any finite set of requests
and any number of troubles:

| Theorem | Property |
|---|---|
| `DeviceInvariant` | `DeviceInv` |
| `RevokedKeysDie` | `KeysHold` |
| `NewestIsShown` | `ShowsNewest` |

That the check-ins stored with a revoked key are no more than were past the check is not
inductive: `KeysAccounted` adds those that are still about to be stored. A step
leaves this balance alone, starts it anew at a revocation, or moves one check-in from
one side to the other (`Balanced`). `ShowsNewest` is inductive with the types. The
hypotheses are those of `TrackingAssumption`.

## 6. What is only model-checked

* Liveness (`EventuallySettled`, `ExpiredLeaves`, `LocksEnd`, `Recovers`): fairness and
  ENABLED are beyond the proof system.
* The two violation runs are counterexamples and need no proof.

## 7. What is not modelled

* Of the lookup tables only sites are modelled. Ticket categories, item types and
  countries are deleted after the same count; tickets and requests keep their codes
  as text, so nothing else follows from a deletion that a new record overtook.
* Own profiles, and the temporary mailbox passwords of employees: columns that no
  decision reads. Two live assets with one serial number, or two devices that claim
  one: enrolment takes either.
* Parsing of import files and the report of errors by row; a row is modelled by what
  it does to the register. The format of tags: they are compared as a whole.
* Pages, exports and reports read rows once and show them. They are half of the
  source lines of the repository, and no state depends on them.
* Hashing, tokens and the password policy are opaque: a hash matches its own version,
  a link is known to whoever was mailed it, and a refused password changes nothing.
* The audit log is written after each step and never read by a decision.
* Permission checks decide who may call a service; the models let anybody who may
  take a step take it at any time. A purge by hand checks nothing about the record,
  and neither does the model's.
* Isolation: single statements and `$transaction` blocks are atomic. Within a
  READ COMMITTED transaction a read and a later write can be separated; the
  transactions modelled here write without reading, except for the deletes of
  `Credentials`, which are steps of their own.
* Formatting: mail bodies, SLA labels, durations, exports, reports. Statistics
  (mean, median) are functions of rows that are modelled.
* Uploads and encryption are functions over bytes; an upload is either accepted,
  and then it is in the model, or refused before anything is stored.
* A Redis client that sends a MULTI again after a lost reply could count one hit
  twice; `HitFails` models a command that ran, or did not, once.
* `WorkHours` takes whole units: minutes and milliseconds behave like any other unit,
  and the code has no rounding before the final division.
