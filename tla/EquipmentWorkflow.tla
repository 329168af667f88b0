-------------------------- MODULE EquipmentWorkflow --------------------------
(***************************************************************************)
(* The equipment request workflow: src/src/services/equipment.service.ts and *)
(* the recycle-bin operations on requests.                                  *)
(*                                                                         *)
(* Handlers run as concurrent tasks.  applyStatus reads the request, checks *)
(* the move against what it read, reads the assets to link, and only then   *)
(* updates the request by id, adding the event in the same transaction; the *)
(* email is queued after the commit from a fresh read.                      *)
(***************************************************************************)
EXTENDS EquipmentStatus, Naturals, Sequences

CONSTANTS
  Requests,   \* request ids
  Tasks,      \* handlers that can be in progress at once
  Assets,     \* devices that can be issued
  MaxEvents,  \* bound: decisions committed per request
  MaxFaults,  \* bound: crashes between two awaits
  None        \* "no request in hand"

ASSUME WorkflowAssumption ==
  /\ MaxEvents \in Nat
  /\ MaxFaults \in Nat

VARIABLES
  place,     \* "absent", "live", "bin" (isDeleted) or "gone" (hard deleted)
  status,    \* EquipmentRequest.status
  issuedAt,  \* whether issuedAt is stamped
  history,   \* the EquipmentStatusEvent rows of a request, in commit order
  links,     \* issuedAssets of a request
  letters,   \* queued emails: <<event number, status named in the mail>>
  assetBin,  \* assets whose isDeleted is set
  pc,        \* where each task stands
  req,       \* the request it is working on
  from,      \* existing.status as the task read it
  to,        \* the status it was asked for
  chosen,    \* the asset ids it still means to link
  evt,       \* number of the event it committed (0: the creation)
  faults,    \* environment: crashes so far
  raced,     \* observer: requests two tasks have worked on at once
  late,      \* observer: <<task, device>>, deleted after the task looked the device up
  cut        \* observer: <<request, event number>>, crashed between commit and email

rowVars  == <<place, status, issuedAt, history, links>>
taskVars == <<pc, req, from, to, chosen, evt>>
vars     == <<rowVars, letters, assetBin, taskVars, faults, raced, late, cut>>

Event  == [from : EquipmentStatuses, to : EquipmentStatuses]
Letter == (0..MaxEvents) \X EquipmentStatuses

TypeOK ==
  /\ place \in [Requests -> {"absent", "live", "bin", "gone"}]
  /\ status \in [Requests -> EquipmentStatuses]
  /\ issuedAt \in [Requests -> BOOLEAN]
  /\ history \in [Requests -> Seq(Event)]
  /\ links \in [Requests -> SUBSET Assets]
  /\ letters \in [Requests -> SUBSET Letter]
  /\ assetBin \subseteq Assets
  /\ pc \in [Tasks -> {"idle", "assets", "commit", "tell", "delete"}]
  /\ req \in [Tasks -> Requests \union {None}]
  /\ from \in [Tasks -> EquipmentStatuses]
  /\ to \in [Tasks -> EquipmentStatuses]
  /\ chosen \in [Tasks -> SUBSET Assets]
  /\ evt \in [Tasks -> 0..MaxEvents]
  /\ faults \in 0..MaxFaults
  /\ raced \subseteq Requests
  /\ late \subseteq Tasks \X Assets
  /\ cut \subseteq Requests \X (0..MaxEvents)

Init ==
  /\ place = [r \in Requests |-> "absent"]
  /\ status = [r \in Requests |-> "submitted"]
  /\ issuedAt = [r \in Requests |-> FALSE]
  /\ history = [r \in Requests |-> <<>>]
  /\ links = [r \in Requests |-> {}]
  /\ letters = [r \in Requests |-> {}]
  /\ assetBin = {}
  /\ pc = [t \in Tasks |-> "idle"]
  /\ req = [t \in Tasks |-> None]
  /\ from = [t \in Tasks |-> "submitted"]
  /\ to = [t \in Tasks |-> "submitted"]
  /\ chosen = [t \in Tasks |-> {}]
  /\ evt = [t \in Tasks |-> 0]
  /\ faults = 0
  /\ raced = {}
  /\ late = {}
  /\ cut = {}

-----------------------------------------------------------------------------
WorkingOn(t, r) == pc[t] # "idle" /\ req[t] = r

\* Row r is touched by a task while another one is working on it.
NoteRace(t, r) ==
  raced' = IF \E u \in Tasks \ {t} : WorkingOn(u, r) THEN raced \union {r} ELSE raced

\* The task is over: its local variables are gone.
Return(t) ==
  /\ pc' = [pc EXCEPT ![t] = "idle"]
  /\ req' = [req EXCEPT ![t] = None]
  /\ from' = [from EXCEPT ![t] = "submitted"]
  /\ to' = [to EXCEPT ![t] = "submitted"]
  /\ chosen' = [chosen EXCEPT ![t] = {}]
  /\ evt' = [evt EXCEPT ![t] = 0]
  /\ late' = {p \in late : p[1] # t}

-----------------------------------------------------------------------------
\* create(): the request and its items are committed; the emails come later.
Create(t, r) ==
  /\ pc[t] = "idle" /\ place[r] = "absent"
  /\ place' = [place EXCEPT ![r] = "live"]
  /\ pc' = [pc EXCEPT ![t] = "tell"]
  /\ req' = [req EXCEPT ![t] = r]
  /\ UNCHANGED <<status, issuedAt, history, links, letters, assetBin, from, to,
                 chosen, evt, faults, raced, late, cut>>

\* Mutant: the move is not asserted.
ApplyReadUnasserted(t, r, s, ids) ==
  /\ pc[t] = "idle" /\ place[r] = "live"
  /\ Len(history[r]) < MaxEvents
  /\ pc' = [pc EXCEPT ![t] = IF ids = {} THEN "commit" ELSE "assets"]
  /\ req' = [req EXCEPT ![t] = r]
  /\ from' = [from EXCEPT ![t] = status[r]]
  /\ to' = [to EXCEPT ![t] = s]
  /\ chosen' = [chosen EXCEPT ![t] = ids]
  /\ NoteRace(t, r)
  /\ UNCHANGED <<rowVars, letters, assetBin, evt, faults, late, cut>>

\* Mutant: the reading does not filter on isDeleted.
ApplyReadBinned(t, r, s, ids) ==
  /\ pc[t] = "idle" /\ place[r] \in {"live", "bin"}
  /\ CanTransition(status[r], s)
  /\ Len(history[r]) < MaxEvents
  /\ pc' = [pc EXCEPT ![t] = IF ids = {} THEN "commit" ELSE "assets"]
  /\ req' = [req EXCEPT ![t] = r]
  /\ from' = [from EXCEPT ![t] = status[r]]
  /\ to' = [to EXCEPT ![t] = s]
  /\ chosen' = [chosen EXCEPT ![t] = ids]
  /\ NoteRace(t, r)
  /\ UNCHANGED <<rowVars, letters, assetBin, evt, faults, late, cut>>

\* applyStatus(): the request is read outside the transaction and the move is
\* asserted on that reading; a refused move changes nothing.  The form offers devices
\* with "issued" only, the server takes them with any status.
ApplyRead(t, r, s, ids) ==
  /\ pc[t] = "idle" /\ place[r] = "live"
  /\ CanTransition(status[r], s)
  /\ Len(history[r]) < MaxEvents
  /\ pc' = [pc EXCEPT ![t] = IF ids = {} THEN "commit" ELSE "assets"]
  /\ req' = [req EXCEPT ![t] = r]
  /\ from' = [from EXCEPT ![t] = status[r]]
  /\ to' = [to EXCEPT ![t] = s]
  /\ chosen' = [chosen EXCEPT ![t] = ids]
  /\ NoteRace(t, r)
  /\ UNCHANGED <<rowVars, letters, assetBin, evt, faults, late, cut>>

\* Mutant: the devices are not looked up.
ApplyAssetsUnfiltered(t) ==
  /\ pc[t] = "assets"
  /\ pc' = [pc EXCEPT ![t] = "commit"]
  /\ UNCHANGED <<rowVars, letters, assetBin, req, from, to, chosen, evt, faults, raced, late, cut>>

\* The ids of deleted assets are dropped.
ApplyAssets(t) ==
  /\ pc[t] = "assets"
  /\ chosen' = [chosen EXCEPT ![t] = @ \ assetBin]
  /\ pc' = [pc EXCEPT ![t] = "commit"]
  /\ UNCHANGED <<rowVars, letters, assetBin, req, from, to, evt, faults, raced, late, cut>>

\* The transaction, with what it does to the stamp, to the log and to the count of
\* events left open.
CommitWith(t, stamped, event, number) ==
  LET r == req[t] IN
  /\ pc[t] = "commit"
  /\ place[r] # "gone" /\ Len(history[r]) < MaxEvents
  /\ status' = [status EXCEPT ![r] = to[t]]
  /\ issuedAt' = [issuedAt EXCEPT ![r] = stamped]
  /\ links' = [links EXCEPT ![r] = IF chosen[t] = {} THEN @ ELSE chosen[t]]
  /\ history' = [history EXCEPT ![r] = Append(@, event)]
  /\ evt' = [evt EXCEPT ![t] = number]
  /\ pc' = [pc EXCEPT ![t] = "tell"]
  /\ UNCHANGED <<place, letters, assetBin, req, from, to, chosen, faults, raced, late, cut>>

Stamped(t) == issuedAt[req[t]] \/ to[t] = "issued"
Number(t)  == Len(history[req[t]]) + 1

\* Mutants: the event is counted twice; the stamp comes with the approval; the
\* event starts at the creation whatever was read.
CommitCountsTwice(t) ==
  CommitWith(t, Stamped(t), [from |-> from[t], to |-> to[t]], Number(t) + 1)

CommitStampsEarly(t) ==
  CommitWith(t, Stamped(t) \/ to[t] = "approved", [from |-> from[t], to |-> to[t]], Number(t))

CommitForgetsFrom(t) ==
  CommitWith(t, Stamped(t), [from |-> "submitted", to |-> to[t]], Number(t))

\* The transaction: the row is updated by id alone, so neither its status nor
\* isDeleted is looked at again, and the event says what was read before.
ApplyCommit(t) ==
  CommitWith(t, Stamped(t), [from |-> from[t], to |-> to[t]], Number(t))

\* Mutants: the mail is composed from the first reading; a refusal is not mailed.
TellStale(t) ==
  LET r == req[t] IN
  /\ pc[t] = "tell"
  /\ place[r] # "gone"
  /\ letters' = [letters EXCEPT ![r] = @ \union {<<evt[t], from[t]>>}]
  /\ Return(t)
  /\ UNCHANGED <<rowVars, assetBin, faults, raced, cut>>

TellApprovalsOnly(t) ==
  LET r == req[t] IN
  /\ pc[t] = "tell"
  /\ place[r] # "gone"
  /\ letters' = IF to[t] = "declined" THEN letters
                ELSE [letters EXCEPT ![r] = @ \union {<<evt[t], status[r]>>}]
  /\ Return(t)
  /\ UNCHANGED <<rowVars, assetBin, faults, raced, cut>>

\* emailFacts() reads the request again and the email is queued from that.
Tell(t) ==
  LET r == req[t] IN
  /\ pc[t] = "tell"
  /\ place[r] # "gone"
  /\ letters' = [letters EXCEPT ![r] = @ \union {<<evt[t], status[r]>>}]
  /\ Return(t)
  /\ UNCHANGED <<rowVars, assetBin, faults, raced, cut>>

\* The row was hard deleted meanwhile: the update or findUniqueOrThrow throws.
RowVanished(t) ==
  /\ pc[t] \in {"commit", "tell", "delete"}
  /\ place[req[t]] = "gone"
  /\ Return(t)
  /\ UNCHANGED <<rowVars, letters, assetBin, faults, raced, cut>>

\* softDelete(): read that the request is live, then mark it by id.
DeleteRead(t, r) ==
  /\ pc[t] = "idle" /\ place[r] = "live"
  /\ pc' = [pc EXCEPT ![t] = "delete"]
  /\ req' = [req EXCEPT ![t] = r]
  /\ NoteRace(t, r)
  /\ UNCHANGED <<rowVars, letters, assetBin, from, to, chosen, evt, faults, late, cut>>

DeleteWrite(t) ==
  /\ pc[t] = "delete" /\ place[req[t]] # "gone"
  /\ place' = [place EXCEPT ![req[t]] = "bin"]
  /\ Return(t)
  /\ UNCHANGED <<status, issuedAt, history, links, letters, assetBin, faults, raced, cut>>

\* Mutant: a restored request starts over.
RestoreAsNew(t, r) ==
  /\ pc[t] = "idle" /\ place[r] \in {"live", "bin"}
  /\ place' = [place EXCEPT ![r] = "live"]
  /\ history' = [history EXCEPT ![r] = <<>>]
  /\ status' = [status EXCEPT ![r] = "submitted"]
  /\ NoteRace(t, r)
  /\ UNCHANGED <<issuedAt, links, letters, assetBin, taskVars, faults, late, cut>>

\* recycleBinService.restore: one unconditional update.
Restore(t, r) ==
  /\ pc[t] = "idle" /\ place[r] \in {"live", "bin"}
  /\ place' = [place EXCEPT ![r] = "live"]
  /\ NoteRace(t, r)
  /\ UNCHANGED <<status, issuedAt, history, links, letters, assetBin, taskVars, faults, late, cut>>

\* recycleBinService.purge (which does not ask whether the row is in the bin)
\* and purgeExpired: the row goes, and its events and links cascade with it.
Purge(t, r) ==
  /\ pc[t] = "idle" /\ place[r] \in {"live", "bin"}
  /\ place' = [place EXCEPT ![r] = "gone"]
  /\ history' = [history EXCEPT ![r] = <<>>]
  /\ links' = [links EXCEPT ![r] = {}]
  /\ NoteRace(t, r)
  /\ UNCHANGED <<status, issuedAt, letters, assetBin, taskVars, faults, late, cut>>

\* The asset register deletes a device on its own.
AssetDeleted(a) ==
  /\ a \notin assetBin
  /\ assetBin' = assetBin \union {a}
  /\ late' = late \union {<<t, a>> : t \in {u \in Tasks : pc[u] = "commit" /\ a \in chosen[u]}}
  /\ UNCHANGED <<rowVars, letters, taskVars, faults, raced, cut>>

\* The process dies, or the database refuses a statement: the handler ends.
Crash(t) ==
  /\ pc[t] # "idle" /\ faults < MaxFaults
  /\ faults' = faults + 1
  /\ cut' = IF pc[t] = "tell" THEN cut \union {<<req[t], evt[t]>>} ELSE cut
  /\ Return(t)
  /\ UNCHANGED <<rowVars, letters, assetBin, raced>>

Next ==
  \/ \E t \in Tasks :
       \/ ApplyAssets(t) \/ ApplyCommit(t) \/ Tell(t) \/ RowVanished(t)
       \/ DeleteWrite(t) \/ Crash(t)
       \/ \E r \in Requests :
            \/ Create(t, r) \/ DeleteRead(t, r) \/ Restore(t, r) \/ Purge(t, r)
            \/ \E s \in EquipmentStatuses, ids \in SUBSET Assets : ApplyRead(t, r, s, ids)
  \/ \E a \in Assets : AssetDeleted(a)

Spec == Init /\ [][Next]_vars

-----------------------------------------------------------------------------
Present(r) == place[r] \in {"live", "bin"}

LastStatus(r) == IF history[r] = <<>> THEN "submitted" ELSE history[r][Len(history[r])].to

\* "Audit of every accepted status transition": every recorded event is a move of
\* the map and the request stands where its last event left it, even when two
\* agents decide at once.
AuditTrail ==
  \A r \in Requests : Present(r) =>
    /\ status[r] = LastStatus(r)
    /\ \A i \in 1..Len(history[r]) : CanTransition(history[r][i].from, history[r][i].to)

\* The timeline on the detail page joins up: each decision starts where the one
\* before it ended, as long as no two tasks worked on the request at once.
HistoryIsChain ==
  \A r \in Requests \ raced : \A i \in 1..Len(history[r]) :
    history[r][i].from = IF i = 1 THEN "submitted" ELSE history[r][i - 1].to

\* issuedAt is stamped exactly when some decision issued the request.
IssueStamp ==
  \A r \in Requests : Present(r) =>
    (issuedAt[r] <=> \E i \in 1..Len(history[r]) : history[r][i].to = "issued")

\* What a decision is about to link is not in the recycle bin, unless it was deleted
\* after the handler looked the devices up: the transaction does not look again.
DevicesChecked ==
  \A t \in Tasks, a \in Assets :
    pc[t] = "commit" /\ a \in chosen[t] /\ a \in assetBin => <<t, a>> \in late

\* Each email names the status its own decision set, although it is composed from a
\* second read after the commit.
LettersTruthful ==
  \A r \in Requests \ raced : \A l \in letters[r] : Present(r) =>
    l[2] = IF l[1] = 0 THEN "submitted" ELSE history[r][l[1]].to

\* "notifies the requester -- all in one transaction" (equipment.service.ts:179-183) is
\* not what applyStatus does: the email is a commit of its own, after the decision's.  A
\* decision is without an email exactly while its handler is about to queue it, or for
\* ever when a crash came between the two commits.
DecisionsTold ==
  \A r \in Requests : Present(r) => \A i \in 1..Len(history[r]) :
    (\A l \in letters[r] : l[1] # i) <=>
      \/ <<r, i>> \in cut
      \/ \E t \in Tasks : WorkingOn(t, r) /\ pc[t] = "tell" /\ evt[t] = i

\* What the detail page tells of a request is consistent: status, timeline and stamp,
\* and devices that were looked up.
TrailHolds == TypeOK /\ AuditTrail /\ HistoryIsChain /\ IssueStamp /\ DevicesChecked

\* The requester's mailbox tells the truth, and tells of every decision but those whose
\* handler died between its two commits.
MailsHonest == LettersTruthful /\ DecisionsTold

\* The workflow keeps the promise of EquipmentStateMachine, that nothing is decided
\* about a request in the recycle bin included, unless two tasks met on the request.
Contract == INSTANCE EquipmentStateMachine WITH
  phase <- [r \in Requests |->
              IF r \in raced THEN "disputed" ELSE IF place[r] = "absent" THEN "none" ELSE place[r]],
  state <- [r \in Requests |-> IF r \in raced THEN "submitted" ELSE status[r]],
  log   <- [r \in Requests |-> IF r \in raced THEN <<>> ELSE history[r]]

KeepsContract == Contract!Spec
=============================================================================
