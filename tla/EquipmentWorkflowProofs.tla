----------------------- MODULE EquipmentWorkflowProofs -----------------------
(***************************************************************************)
(* Machine-checked proofs about EquipmentWorkflow, for any number of        *)
(* requests, handlers and assets, and any bounds.                           *)
(***************************************************************************)
EXTENDS EquipmentWorkflow, TLAPS

Busy(t) == pc[t] # "idle"

\* Between the reading and the update: a decision in hand that is not committed.
Deciding(t) == pc[t] \in {"assets", "commit"}

\* Handlers work on requests that were created.
InHand ==
  \A t \in Tasks : Busy(t) => req[t] \in Requests /\ place[req[t]] # "absent"

\* A decision in hand is a move of the map.
MovesAsserted == \A t \in Tasks : Deciding(t) => CanTransition(from[t], to[t])

\* A request that was not raced for is in one hand at most.
OneHand ==
  \A t, u \in Tasks :
    Busy(t) /\ Busy(u) /\ req[t] = req[u] /\ req[t] \notin raced => t = u

\* What that hand has read of the request still holds.
ReadingHolds ==
  \A t \in Tasks : Busy(t) /\ req[t] \notin raced =>
    /\ place[req[t]] = "live"
    /\ Deciding(t) => from[t] = status[req[t]]
    /\ pc[t] = "tell" => evt[t] = Len(history[req[t]])

\* A request nobody has created is as the database would first store it.
Unborn ==
  \A r \in Requests : place[r] = "absent" =>
    /\ status[r] = "submitted" /\ history[r] = <<>> /\ ~issuedAt[r] /\ letters[r] = {}
    /\ \A c \in cut : c[1] # r

\* Emails, queued or about to be, are about events of the timeline.
NumbersKnown ==
  /\ \A t \in Tasks : pc[t] = "idle" => evt[t] = 0
  /\ \A t \in Tasks : pc[t] = "tell" /\ Present(req[t]) => evt[t] <= Len(history[req[t]])
  /\ \A r \in Requests : Present(r) => \A l \in letters[r] : l[1] <= Len(history[r])

\* An event whose email is still to come has none queued and none lost, and one handler
\* tells of it; what was lost was about the timeline.
EventsOwned ==
  /\ \A t \in Tasks : pc[t] = "tell" /\ Present(req[t]) /\ evt[t] # 0 =>
       /\ <<req[t], evt[t]>> \notin cut
       /\ \A l \in letters[req[t]] : l[1] # evt[t]
       /\ \A u \in Tasks : pc[u] = "tell" /\ req[u] = req[t] /\ evt[u] = evt[t] => u = t
  /\ \A c \in cut : Present(c[1]) => c[2] <= Len(history[c[1]])

HistoryBounded == \A r \in Requests : Len(history[r]) <= MaxEvents

WorkflowInv ==
  /\ TypeOK
  /\ InHand
  /\ MovesAsserted
  /\ OneHand
  /\ ReadingHolds
  /\ Unborn
  /\ NumbersKnown
  /\ EventsOwned
  /\ HistoryBounded
  /\ AuditTrail
  /\ HistoryIsChain
  /\ IssueStamp
  /\ DevicesChecked
  /\ LettersTruthful
  /\ DecisionsTold
-----------------------------------------------------------------------------
\* The reading of a decision, whatever is decided.
Reads(t) ==
  \E r \in Requests, s \in EquipmentStatuses, ids \in SUBSET Assets : ApplyRead(t, r, s, ids)

\* One handler's step, whichever it is.
Step(t) ==
  \/ ApplyAssets(t) \/ ApplyCommit(t) \/ Tell(t) \/ RowVanished(t)
  \/ DeleteWrite(t) \/ Crash(t) \/ Reads(t)
  \/ \E r \in Requests : Create(t, r)
  \/ \E r \in Requests : DeleteRead(t, r)
  \/ \E r \in Requests : Restore(t, r)
  \/ \E r \in Requests : Purge(t, r)

\* Every step that changes something is some handler's, or the loss of a device.
LEMMA StepOfNext ==
  [Next]_vars =>
    \/ UNCHANGED vars
    \/ \E a \in Assets : AssetDeleted(a)
    \/ \E t \in Tasks : Step(t)
  BY DEF Next, Step, Reads

\* Before the first request, every part of the invariant holds.
LEMMA InitEstablishes == Init => WorkflowInv
<1> SUFFICES ASSUME Init PROVE WorkflowInv
  OBVIOUS
<1> USE WorkflowAssumption DEF Init
<1>1. TypeOK
  BY DEF TypeOK, EquipmentStatuses
<1>2. InHand /\ MovesAsserted /\ OneHand /\ ReadingHolds
  BY DEF InHand, MovesAsserted, OneHand, ReadingHolds, Busy, Deciding
<1>3. Unborn /\ NumbersKnown /\ EventsOwned /\ HistoryBounded
  BY DEF Unborn, NumbersKnown, EventsOwned, HistoryBounded, Present
<1>4. AuditTrail /\ HistoryIsChain /\ IssueStamp /\ DevicesChecked /\ LettersTruthful
  BY DEF AuditTrail, HistoryIsChain, IssueStamp, DevicesChecked, LettersTruthful, Present
<1>5. DecisionsTold
  BY DEF DecisionsTold, Present
<1> QED
  BY <1>1, <1>2, <1>3, <1>4, <1>5 DEF WorkflowInv

\* What a commit does to the timeline of its request: one event more, the others as
\* they were.
Appended(t) ==
  /\ req[t] \in Requests /\ pc[t] = "commit" /\ pc'[t] = "tell"
  /\ place[req[t]] \in {"live", "bin"}
  /\ history[req[t]] \in Seq(Event)
  /\ Len(history[req[t]]) \in Nat
  /\ history'[req[t]] \in Seq(Event)
  /\ Len(history'[req[t]]) = Len(history[req[t]]) + 1
  /\ Len(history'[req[t]]) <= MaxEvents
  /\ history'[req[t]] # <<>>
  /\ history'[req[t]][Len(history[req[t]]) + 1] = [from |-> from[t], to |-> to[t]]
  /\ \A i \in 1..Len(history[req[t]]) : history'[req[t]][i] = history[req[t]][i]
  /\ history' = [history EXCEPT ![req[t]] = history'[req[t]]]
  /\ \A r \in Requests : r # req[t] => history'[r] = history[r] /\ status'[r] = status[r]
  /\ status'[req[t]] = to[t]
  /\ UNCHANGED <<place, letters, assetBin, req, from, to, chosen, faults, raced, late, cut>>

\* Appending to a sequence leaves what it had.
LEMMA AppendKeeps ==
  ASSUME NEW S, NEW h \in Seq(S), NEW e \in S
  PROVE  /\ Append(h, e) \in Seq(S) /\ Append(h, e) # <<>>
         /\ Len(h) \in Nat /\ Len(Append(h, e)) = Len(h) + 1
         /\ Append(h, e)[Len(h) + 1] = e
         /\ \A i \in 1..Len(h) : Append(h, e)[i] = h[i]
<1>1. Len(h) \in Nat /\ Append(h, e) \in Seq(S) /\ Len(Append(h, e)) = Len(h) + 1
  OBVIOUS
<1>2. Append(h, e) # <<>>
  BY <1>1
<1>3. Append(h, e)[Len(h) + 1] = e
  BY <1>1
<1>4. ASSUME NEW i \in 1..Len(h) PROVE Append(h, e)[i] = h[i]
  BY <1>4
<1> QED
  BY <1>1, <1>2, <1>3, <1>4

\* A commit adds one event to the timeline of its request.
LEMMA CommitAppends ==
  ASSUME WorkflowInv, NEW t \in Tasks, ApplyCommit(t)
  PROVE  Appended(t)
<1> USE WorkflowAssumption DEF WorkflowInv, TypeOK, InHand, Busy
<1> DEFINE h == history[req[t]]
           e == [from |-> from[t], to |-> to[t]]
<1>1. req[t] \in Requests /\ pc[t] = "commit" /\ pc'[t] = "tell" /\ place[req[t]] \in {"live", "bin"}
  BY DEF ApplyCommit, CommitWith
<1>2. h \in Seq(Event)
  BY <1>1
<1>3. e \in Event
  <2>1. from[t] \in EquipmentStatuses /\ to[t] \in EquipmentStatuses
    OBVIOUS
  <2> QED
    BY <2>1 DEF Event
<1>4. history' = [history EXCEPT ![req[t]] = Append(h, e)] /\ Len(h) < MaxEvents
  BY DEF ApplyCommit, CommitWith
<1>5. history'[req[t]] = Append(h, e) /\ \A r \in Requests : r # req[t] => history'[r] = history[r]
  BY <1>1, <1>4
<1>6. /\ Append(h, e) \in Seq(Event) /\ Append(h, e) # <<>>
      /\ Len(h) \in Nat /\ Len(Append(h, e)) = Len(h) + 1
      /\ Append(h, e)[Len(h) + 1] = e
      /\ \A i \in 1..Len(h) : Append(h, e)[i] = h[i]
  <2> HIDE DEF h, e
  <2> QED
    BY <1>2, <1>3, AppendKeeps
<1>7. /\ status'[req[t]] = to[t] /\ \A r \in Requests : r # req[t] => status'[r] = status[r]
      /\ UNCHANGED <<place, letters, assetBin, req, from, to, chosen, faults, raced, late, cut>>
  BY <1>1 DEF ApplyCommit, CommitWith
<1>8. Len(Append(h, e)) <= MaxEvents
  BY <1>4, <1>6
<1> HIDE DEF h, e
<1> QED
  BY <1>1, <1>2, <1>4, <1>5, <1>6, <1>7, <1>8 DEF Appended, h, e

\* The variables have their types after every step.
LEMMA TypePreserved == WorkflowInv /\ [Next]_vars => TypeOK'
<1> SUFFICES ASSUME WorkflowInv, [Next]_vars PROVE TypeOK'
  OBVIOUS
<1> USE WorkflowAssumption DEF WorkflowInv, TypeOK, InHand, Busy, HistoryBounded, Event, Letter,
                               rowVars, taskVars
<1>1. CASE UNCHANGED vars
  BY <1>1 DEF vars
<1>2. CASE \E a \in Assets : AssetDeleted(a)
  <2>1. late' \subseteq Tasks \X Assets
    BY <1>2 DEF AssetDeleted
  <2>2. assetBin' \subseteq Assets /\ UNCHANGED <<rowVars, letters, taskVars, faults, raced, cut>>
    BY <1>2 DEF AssetDeleted
  <2> QED
    BY <2>1, <2>2
<1> SUFFICES ASSUME NEW t \in Tasks, Step(t) PROVE TypeOK'
  BY <1>1, <1>2, StepOfNext
<1>3. CASE ApplyAssets(t)
  BY <1>3 DEF ApplyAssets
<1>4. CASE ApplyCommit(t)
  <2>1. history' \in [Requests -> Seq(Event)]
    BY <1>4, CommitAppends, ZenonT(60) DEF Appended
  <2>2. evt' \in [Tasks -> 0..MaxEvents]
    BY <1>4, CommitAppends DEF Appended, ApplyCommit, CommitWith, Number
  <2>3. issuedAt' \in [Requests -> BOOLEAN]
    BY <1>4, Zenon DEF ApplyCommit, CommitWith, Stamped
  <2> QED
    BY <1>4, <2>1, <2>2, <2>3 DEF ApplyCommit, CommitWith
<1>5. CASE Tell(t)
  BY <1>5 DEF Tell, Return, EquipmentStatuses
<1>6. CASE RowVanished(t)
  BY <1>6 DEF RowVanished, Return, EquipmentStatuses
<1>7. CASE DeleteWrite(t)
  BY <1>7 DEF DeleteWrite, Return, EquipmentStatuses
<1>8. CASE Crash(t)
  BY <1>8 DEF Crash, Return, EquipmentStatuses
<1>9. CASE \E r \in Requests : Create(t, r)
  <2>1. PICK r \in Requests : Create(t, r)
    BY <1>9
  <2>2. place' \in [Requests -> {"absent", "live", "bin", "gone"}]
    BY <2>1 DEF Create
  <2>3. pc' \in [Tasks -> {"idle", "assets", "commit", "tell", "delete"}]
    BY <2>1 DEF Create
  <2>4. req' \in [Tasks -> Requests \union {None}]
    BY <2>1 DEF Create
  <2> QED
    BY <2>1, <2>2, <2>3, <2>4 DEF Create
<1>10. CASE \E r \in Requests : DeleteRead(t, r)
  <2>1. PICK r \in Requests : DeleteRead(t, r)
    BY <1>10
  <2>2. pc' \in [Tasks -> {"idle", "assets", "commit", "tell", "delete"}]
    BY <2>1 DEF DeleteRead
  <2>3. req' \in [Tasks -> Requests \union {None}]
    BY <2>1 DEF DeleteRead
  <2>4. raced' \subseteq Requests
    BY <2>1 DEF DeleteRead, NoteRace
  <2> QED
    BY <2>1, <2>2, <2>3, <2>4 DEF DeleteRead
<1>11. CASE \E r \in Requests : Restore(t, r)
  <2>1. PICK r \in Requests : Restore(t, r)
    BY <1>11
  <2>2. place' \in [Requests -> {"absent", "live", "bin", "gone"}]
    BY <2>1 DEF Restore
  <2>3. raced' \subseteq Requests
    BY <2>1 DEF Restore, NoteRace
  <2> QED
    BY <2>1, <2>2, <2>3 DEF Restore
<1>12. CASE \E r \in Requests : Purge(t, r)
  <2>1. PICK r \in Requests : Purge(t, r)
    BY <1>12
  <2>2. history' \in [Requests -> Seq(Event)]
    <3>1. <<>> \in Seq(Event)
      OBVIOUS
    <3> QED
      BY <2>1, <3>1 DEF Purge
  <2>3. place' \in [Requests -> {"absent", "live", "bin", "gone"}]
    BY <2>1 DEF Purge
  <2>4. links' \in [Requests -> SUBSET Assets]
    BY <2>1 DEF Purge
  <2>5. raced' \subseteq Requests
    BY <2>1 DEF Purge, NoteRace
  <2> QED
    BY <2>1, <2>2, <2>3, <2>4, <2>5 DEF Purge
<1>13. CASE Reads(t)
  <2>1. PICK r \in Requests, s \in EquipmentStatuses, ids \in SUBSET Assets : ApplyRead(t, r, s, ids)
    BY <1>13 DEF Reads
  <2>2. pc' \in [Tasks -> {"idle", "assets", "commit", "tell", "delete"}]
    BY <2>1 DEF ApplyRead
  <2>3. req' \in [Tasks -> Requests \union {None}]
    BY <2>1 DEF ApplyRead
  <2>4. from' \in [Tasks -> EquipmentStatuses] /\ to' \in [Tasks -> EquipmentStatuses]
    BY <2>1 DEF ApplyRead
  <2>5. chosen' \in [Tasks -> SUBSET Assets]
    BY <2>1 DEF ApplyRead
  <2>6. raced' \subseteq Requests
    BY <2>1 DEF ApplyRead, NoteRace
  <2> QED
    BY <2>1, <2>2, <2>3, <2>4, <2>5, <2>6 DEF ApplyRead
<1> QED
  BY <1>3, <1>4, <1>5, <1>6, <1>7, <1>8, <1>9, <1>10, <1>11, <1>12, <1>13 DEF Step

\* A handler takes hold of requests it has just found or created, and they stay created.
LEMMA InHandPreserved == WorkflowInv /\ TypeOK' /\ [Next]_vars => InHand'
<1> SUFFICES ASSUME WorkflowInv, TypeOK', [Next]_vars PROVE InHand'
  OBVIOUS
<1> USE WorkflowAssumption DEF WorkflowInv, TypeOK, InHand, Busy, rowVars, taskVars
<1>1. CASE UNCHANGED vars
  BY <1>1 DEF vars
<1>2. CASE \E a \in Assets : AssetDeleted(a)
  BY <1>2 DEF AssetDeleted
<1> SUFFICES ASSUME NEW t \in Tasks, Step(t) PROVE InHand'
  BY <1>1, <1>2, StepOfNext
<1>3. CASE ApplyAssets(t)
  BY <1>3 DEF ApplyAssets
<1>4. CASE ApplyCommit(t)
  BY <1>4 DEF ApplyCommit, CommitWith, Number, Stamped
<1>5. CASE Tell(t)
  BY <1>5 DEF Tell, Return
<1>6. CASE RowVanished(t)
  BY <1>6 DEF RowVanished, Return
<1>7. CASE DeleteWrite(t)
  BY <1>7 DEF DeleteWrite, Return
<1>8. CASE Crash(t)
  BY <1>8 DEF Crash, Return
<1>9. CASE \E r \in Requests : Create(t, r)
  BY <1>9 DEF Create
<1>10. CASE \E r \in Requests : DeleteRead(t, r)
  BY <1>10 DEF DeleteRead, NoteRace, WorkingOn
<1>11. CASE \E r \in Requests : Restore(t, r)
  BY <1>11 DEF Restore, NoteRace, WorkingOn
<1>12. CASE \E r \in Requests : Purge(t, r)
  BY <1>12 DEF Purge, NoteRace, WorkingOn
<1>13. CASE Reads(t)
  BY <1>13 DEF Reads, ApplyRead, NoteRace, WorkingOn
<1> QED
  BY <1>3, <1>4, <1>5, <1>6, <1>7, <1>8, <1>9, <1>10, <1>11, <1>12, <1>13 DEF Step

\* Only the reading, which asserts the move, starts a decision.
LEMMA MovesAssertedPreserved == WorkflowInv /\ TypeOK' /\ [Next]_vars => MovesAsserted'
<1> SUFFICES ASSUME WorkflowInv, TypeOK', [Next]_vars PROVE MovesAsserted'
  OBVIOUS
<1> USE WorkflowAssumption DEF WorkflowInv, TypeOK, MovesAsserted, Busy, Deciding, rowVars, taskVars
<1>1. CASE UNCHANGED vars
  BY <1>1 DEF vars
<1>2. CASE \E a \in Assets : AssetDeleted(a)
  BY <1>2 DEF AssetDeleted
<1> SUFFICES ASSUME NEW t \in Tasks, Step(t) PROVE MovesAsserted'
  BY <1>1, <1>2, StepOfNext
<1>3. CASE ApplyAssets(t)
  BY <1>3 DEF ApplyAssets
<1>4. CASE ApplyCommit(t)
  BY <1>4 DEF ApplyCommit, CommitWith, Number, Stamped
<1>5. CASE Tell(t)
  BY <1>5 DEF Tell, Return
<1>6. CASE RowVanished(t)
  BY <1>6 DEF RowVanished, Return
<1>7. CASE DeleteWrite(t)
  BY <1>7 DEF DeleteWrite, Return
<1>8. CASE Crash(t)
  BY <1>8 DEF Crash, Return
<1>9. CASE \E r \in Requests : Create(t, r)
  BY <1>9 DEF Create
<1>10. CASE \E r \in Requests : DeleteRead(t, r)
  BY <1>10 DEF DeleteRead, NoteRace, WorkingOn
<1>11. CASE \E r \in Requests : Restore(t, r)
  BY <1>11 DEF Restore, NoteRace, WorkingOn
<1>12. CASE \E r \in Requests : Purge(t, r)
  BY <1>12 DEF Purge, NoteRace, WorkingOn
<1>13. CASE Reads(t)
  BY <1>13 DEF Reads, ApplyRead, NoteRace, WorkingOn
<1> QED
  BY <1>3, <1>4, <1>5, <1>6, <1>7, <1>8, <1>9, <1>10, <1>11, <1>12, <1>13 DEF Step

\* Whoever takes hold of a request in hand races for it.
LEMMA OneHandPreserved == WorkflowInv /\ TypeOK' /\ [Next]_vars => OneHand'
<1> SUFFICES ASSUME WorkflowInv, TypeOK', [Next]_vars PROVE OneHand'
  OBVIOUS
<1> USE WorkflowAssumption DEF WorkflowInv, TypeOK, InHand, OneHand, Busy, rowVars, taskVars
<1>1. CASE UNCHANGED vars
  BY <1>1 DEF vars
<1>2. CASE \E a \in Assets : AssetDeleted(a)
  BY <1>2 DEF AssetDeleted
<1> SUFFICES ASSUME NEW t \in Tasks, Step(t) PROVE OneHand'
  BY <1>1, <1>2, StepOfNext
<1>3. CASE ApplyAssets(t)
  BY <1>3 DEF ApplyAssets
<1>4. CASE ApplyCommit(t)
  BY <1>4 DEF ApplyCommit, CommitWith, Number, Stamped
<1>5. CASE Tell(t)
  BY <1>5 DEF Tell, Return
<1>6. CASE RowVanished(t)
  BY <1>6 DEF RowVanished, Return
<1>7. CASE DeleteWrite(t)
  BY <1>7 DEF DeleteWrite, Return
<1>8. CASE Crash(t)
  BY <1>8 DEF Crash, Return
<1>9. CASE \E r \in Requests : Create(t, r)
  BY <1>9 DEF Create
<1>10. CASE \E r \in Requests : DeleteRead(t, r)
  BY <1>10 DEF DeleteRead, NoteRace, WorkingOn
<1>11. CASE \E r \in Requests : Restore(t, r)
  BY <1>11 DEF Restore, NoteRace, WorkingOn
<1>12. CASE \E r \in Requests : Purge(t, r)
  BY <1>12 DEF Purge, NoteRace, WorkingOn
<1>13. CASE Reads(t)
  BY <1>13 DEF Reads, ApplyRead, NoteRace, WorkingOn
<1> QED
  BY <1>3, <1>4, <1>5, <1>6, <1>7, <1>8, <1>9, <1>10, <1>11, <1>12, <1>13 DEF Step

\* Nobody else changes a request that one handler has to itself.
LEMMA ReadingHoldsPreserved == WorkflowInv /\ TypeOK' /\ [Next]_vars => ReadingHolds'
<1> SUFFICES ASSUME WorkflowInv, TypeOK', [Next]_vars PROVE ReadingHolds'
  OBVIOUS
<1> USE WorkflowAssumption DEF WorkflowInv, TypeOK, InHand, OneHand, ReadingHolds, Unborn,
                               NumbersKnown, Busy, Deciding, rowVars, taskVars
<1>1. CASE UNCHANGED vars
  BY <1>1 DEF vars
<1>2. CASE \E a \in Assets : AssetDeleted(a)
  BY <1>2 DEF AssetDeleted
<1> SUFFICES ASSUME NEW t \in Tasks, Step(t) PROVE ReadingHolds'
  BY <1>1, <1>2, StepOfNext
<1>3. CASE ApplyAssets(t)
  BY <1>3 DEF ApplyAssets
<1>4. CASE ApplyCommit(t)
  BY <1>4 DEF ApplyCommit, CommitWith, Number, Stamped
<1>5. CASE Tell(t)
  BY <1>5 DEF Tell, Return
<1>6. CASE RowVanished(t)
  BY <1>6 DEF RowVanished, Return
<1>7. CASE DeleteWrite(t)
  BY <1>7 DEF DeleteWrite, Return
<1>8. CASE Crash(t)
  BY <1>8 DEF Crash, Return
<1>9. CASE \E r \in Requests : Create(t, r)
  BY <1>9 DEF Create
<1>10. CASE \E r \in Requests : DeleteRead(t, r)
  BY <1>10 DEF DeleteRead, NoteRace, WorkingOn
<1>11. CASE \E r \in Requests : Restore(t, r)
  BY <1>11 DEF Restore, NoteRace, WorkingOn
<1>12. CASE \E r \in Requests : Purge(t, r)
  BY <1>12 DEF Purge, NoteRace, WorkingOn
<1>13. CASE Reads(t)
  BY <1>13 DEF Reads, ApplyRead, NoteRace, WorkingOn
<1> QED
  BY <1>3, <1>4, <1>5, <1>6, <1>7, <1>8, <1>9, <1>10, <1>11, <1>12, <1>13 DEF Step

\* Only a creation changes a request that does not exist.
LEMMA UnbornPreserved == WorkflowInv /\ TypeOK' /\ [Next]_vars => Unborn'
<1> SUFFICES ASSUME WorkflowInv, TypeOK', [Next]_vars PROVE Unborn'
  OBVIOUS
<1> USE WorkflowAssumption DEF WorkflowInv, TypeOK, InHand, Unborn, Busy, rowVars, taskVars
<1>1. CASE UNCHANGED vars
  BY <1>1 DEF vars
<1>2. CASE \E a \in Assets : AssetDeleted(a)
  BY <1>2 DEF AssetDeleted
<1> SUFFICES ASSUME NEW t \in Tasks, Step(t) PROVE Unborn'
  BY <1>1, <1>2, StepOfNext
<1>3. CASE ApplyAssets(t)
  BY <1>3 DEF ApplyAssets
<1>4. CASE ApplyCommit(t)
  BY <1>4 DEF ApplyCommit, CommitWith, Number, Stamped
<1>5. CASE Tell(t)
  BY <1>5 DEF Tell, Return
<1>6. CASE RowVanished(t)
  BY <1>6 DEF RowVanished, Return
<1>7. CASE DeleteWrite(t)
  BY <1>7 DEF DeleteWrite, Return
<1>8. CASE Crash(t)
  BY <1>8 DEF Crash, Return
<1>9. CASE \E r \in Requests : Create(t, r)
  BY <1>9 DEF Create
<1>10. CASE \E r \in Requests : DeleteRead(t, r)
  BY <1>10 DEF DeleteRead, NoteRace, WorkingOn
<1>11. CASE \E r \in Requests : Restore(t, r)
  BY <1>11 DEF Restore, NoteRace, WorkingOn
<1>12. CASE \E r \in Requests : Purge(t, r)
  BY <1>12 DEF Purge, NoteRace, WorkingOn
<1>13. CASE Reads(t)
  BY <1>13 DEF Reads, ApplyRead, NoteRace, WorkingOn
<1> QED
  BY <1>3, <1>4, <1>5, <1>6, <1>7, <1>8, <1>9, <1>10, <1>11, <1>12, <1>13 DEF Step

\* Timelines of present requests only grow.
LEMMA NumbersKnownPreserved == WorkflowInv /\ TypeOK' /\ [Next]_vars => NumbersKnown'
<1> SUFFICES ASSUME WorkflowInv, TypeOK', [Next]_vars PROVE NumbersKnown'
  OBVIOUS
<1> USE WorkflowAssumption DEF WorkflowInv, TypeOK, InHand, Unborn, NumbersKnown, Present, Busy,
                               Letter, rowVars, taskVars
<1>1. CASE UNCHANGED vars
  BY <1>1 DEF vars
<1>2. CASE \E a \in Assets : AssetDeleted(a)
  BY <1>2 DEF AssetDeleted
<1> SUFFICES ASSUME NEW t \in Tasks, Step(t) PROVE NumbersKnown'
  BY <1>1, <1>2, StepOfNext
<1>3. CASE ApplyAssets(t)
  BY <1>3 DEF ApplyAssets
<1>4. CASE ApplyCommit(t)
  BY <1>4 DEF ApplyCommit, CommitWith, Number, Stamped
<1>5. CASE Tell(t)
  BY <1>5 DEF Tell, Return
<1>6. CASE RowVanished(t)
  BY <1>6 DEF RowVanished, Return
<1>7. CASE DeleteWrite(t)
  BY <1>7 DEF DeleteWrite, Return
<1>8. CASE Crash(t)
  BY <1>8 DEF Crash, Return
<1>9. CASE \E r \in Requests : Create(t, r)
  BY <1>9 DEF Create
<1>10. CASE \E r \in Requests : DeleteRead(t, r)
  BY <1>10 DEF DeleteRead, NoteRace, WorkingOn
<1>11. CASE \E r \in Requests : Restore(t, r)
  BY <1>11 DEF Restore, NoteRace, WorkingOn
<1>12. CASE \E r \in Requests : Purge(t, r)
  BY <1>12 DEF Purge, NoteRace, WorkingOn
<1>13. CASE Reads(t)
  BY <1>13 DEF Reads, ApplyRead, NoteRace, WorkingOn
<1> QED
  BY <1>3, <1>4, <1>5, <1>6, <1>7, <1>8, <1>9, <1>10, <1>11, <1>12, <1>13 DEF Step

\* A commit numbers its event past every email queued or lost, and a handler leaves with
\* the number it had.
LEMMA EventsOwnedPreserved == WorkflowInv /\ TypeOK' /\ [Next]_vars => EventsOwned'
<1> SUFFICES ASSUME WorkflowInv, TypeOK', [Next]_vars PROVE EventsOwned'
  OBVIOUS
<1> USE WorkflowAssumption DEF WorkflowInv, TypeOK, InHand, Unborn, NumbersKnown, EventsOwned,
                               Present, Busy, Letter, rowVars, taskVars
<1>1. CASE UNCHANGED vars
  BY <1>1 DEF vars
<1>2. CASE \E a \in Assets : AssetDeleted(a)
  BY <1>2 DEF AssetDeleted
<1> SUFFICES ASSUME NEW t \in Tasks, Step(t) PROVE EventsOwned'
  BY <1>1, <1>2, StepOfNext
<1>3. CASE ApplyAssets(t)
  BY <1>3 DEF ApplyAssets
<1>4. CASE ApplyCommit(t)
  <2>1. Appended(t) /\ evt'[t] = Len(history[req[t]]) + 1
    BY <1>4, CommitAppends, ZenonT(40) DEF ApplyCommit, CommitWith, Number
  <2>2. \A u \in Tasks : u # t => pc'[u] = pc[u] /\ evt'[u] = evt[u]
    BY <1>4 DEF ApplyCommit, CommitWith
  <2>3. /\ req' = req /\ letters' = letters /\ place' = place /\ cut' = cut
        /\ req[t] \in Requests /\ Present(req[t]) /\ pc[t] = "commit" /\ pc'[t] = "tell"
        /\ Len(history[req[t]]) \in Nat /\ Len(history'[req[t]]) = Len(history[req[t]]) + 1
        /\ \A q \in Requests : q # req[t] => history'[q] = history[q]
    BY <2>1 DEF Appended
  <2>4. ASSUME NEW c \in cut, Present(c[1]) PROVE c[2] <= Len(history'[c[1]])
    <3>1. c[1] \in Requests /\ c[2] \in Nat /\ c[2] <= Len(history[c[1]])
      BY <2>4
    <3>2. CASE c[1] = req[t]
      BY <2>3, <3>1, <3>2
    <3>3. CASE c[1] # req[t]
      BY <2>3, <3>1, <3>3
    <3> QED
      BY <3>2, <3>3
  <2>5. /\ <<req[t], evt'[t]>> \notin cut
        /\ \A l \in letters[req[t]] : l[1] # evt'[t]
        /\ \A u \in Tasks : pc'[u] = "tell" /\ req[u] = req[t] /\ evt'[u] = evt'[t] => u = t
    BY <2>1, <2>2, <2>3
  <2>6. ASSUME NEW v \in Tasks, v # t, pc[v] = "tell", Present(req[v]), evt[v] # 0
        PROVE  /\ <<req[v], evt[v]>> \notin cut
               /\ \A l \in letters[req[v]] : l[1] # evt[v]
               /\ \A u \in Tasks : pc'[u] = "tell" /\ req[u] = req[v] /\ evt'[u] = evt[v] => u = v
    BY <2>1, <2>2, <2>3, <2>6
  <2>7. ASSUME NEW v \in Tasks, pc'[v] = "tell", Present(req[v]), evt'[v] # 0
        PROVE  /\ <<req[v], evt'[v]>> \notin cut
               /\ \A l \in letters[req[v]] : l[1] # evt'[v]
               /\ \A u \in Tasks : pc'[u] = "tell" /\ req[u] = req[v] /\ evt'[u] = evt'[v] => u = v
    <3>1. CASE v = t
      BY <2>5, <3>1
    <3>2. CASE v # t
      BY <2>2, <2>6, <2>7, <3>2
    <3> QED
      BY <3>1, <3>2
  <2>8. place' = place /\ letters' = letters /\ cut' = cut /\ req' = req
    BY <2>3
  <2> HIDE DEF TypeOK, WorkflowInv, InHand, Unborn, NumbersKnown, Letter
  <2> QED
    BY <2>4, <2>7, <2>8
<1>5. CASE Tell(t)
  BY <1>5 DEF Tell, Return
<1>6. CASE RowVanished(t)
  BY <1>6 DEF RowVanished, Return
<1>7. CASE DeleteWrite(t)
  BY <1>7 DEF DeleteWrite, Return
<1>8. CASE Crash(t)
  BY <1>8 DEF Crash, Return
<1>9. CASE \E r \in Requests : Create(t, r)
  BY <1>9 DEF Create
<1>10. CASE \E r \in Requests : DeleteRead(t, r)
  BY <1>10 DEF DeleteRead, NoteRace, WorkingOn
<1>11. CASE \E r \in Requests : Restore(t, r)
  BY <1>11 DEF Restore, NoteRace, WorkingOn
<1>12. CASE \E r \in Requests : Purge(t, r)
  BY <1>12 DEF Purge, NoteRace, WorkingOn
<1>13. CASE Reads(t)
  BY <1>13 DEF Reads, ApplyRead, NoteRace, WorkingOn
<1> QED
  BY <1>3, <1>4, <1>5, <1>6, <1>7, <1>8, <1>9, <1>10, <1>11, <1>12, <1>13 DEF Step

\* A commit is bounded, and no other step adds an event.
LEMMA HistoryBoundedPreserved == WorkflowInv /\ TypeOK' /\ [Next]_vars => HistoryBounded'
<1> SUFFICES ASSUME WorkflowInv, TypeOK', [Next]_vars PROVE HistoryBounded'
  OBVIOUS
<1> USE WorkflowAssumption DEF WorkflowInv, TypeOK, InHand, HistoryBounded, Busy, rowVars, taskVars
<1>1. CASE UNCHANGED vars
  BY <1>1 DEF vars
<1>2. CASE \E a \in Assets : AssetDeleted(a)
  BY <1>2 DEF AssetDeleted
<1> SUFFICES ASSUME NEW t \in Tasks, Step(t) PROVE HistoryBounded'
  BY <1>1, <1>2, StepOfNext
<1>3. CASE ApplyAssets(t)
  BY <1>3 DEF ApplyAssets
<1>4. CASE ApplyCommit(t)
  BY <1>4 DEF ApplyCommit, CommitWith, Number, Stamped
<1>5. CASE Tell(t)
  BY <1>5 DEF Tell, Return
<1>6. CASE RowVanished(t)
  BY <1>6 DEF RowVanished, Return
<1>7. CASE DeleteWrite(t)
  BY <1>7 DEF DeleteWrite, Return
<1>8. CASE Crash(t)
  BY <1>8 DEF Crash, Return
<1>9. CASE \E r \in Requests : Create(t, r)
  BY <1>9 DEF Create
<1>10. CASE \E r \in Requests : DeleteRead(t, r)
  BY <1>10 DEF DeleteRead, NoteRace, WorkingOn
<1>11. CASE \E r \in Requests : Restore(t, r)
  BY <1>11 DEF Restore, NoteRace, WorkingOn
<1>12. CASE \E r \in Requests : Purge(t, r)
  BY <1>12 DEF Purge, NoteRace, WorkingOn
<1>13. CASE Reads(t)
  BY <1>13 DEF Reads, ApplyRead, NoteRace, WorkingOn
<1> QED
  BY <1>3, <1>4, <1>5, <1>6, <1>7, <1>8, <1>9, <1>10, <1>11, <1>12, <1>13 DEF Step

\* A commit extends the timeline by a move of the map, from where the request stood
\* unless it was raced for, and leaves the status and the stamp with it.
LEMMA CommitKeepsTimeline ==
  ASSUME WorkflowInv, NEW t \in Tasks, ApplyCommit(t)
  PROVE  AuditTrail' /\ HistoryIsChain' /\ IssueStamp' /\ LettersTruthful'
<1> DEFINE r == req[t]
           n == Len(history[r])
<1>1. Appended(t)
  BY CommitAppends
<1>2. /\ r \in Requests /\ n \in Nat /\ Len(history'[r]) = n + 1
      /\ history'[r][n + 1].from = from[t] /\ history'[r][n + 1].to = to[t]
      /\ \A i \in 1..n : history'[r][i] = history[r][i]
      /\ history'[r] # <<>>
  BY <1>1 DEF Appended
<1>3. /\ raced' = raced /\ place' = place /\ letters' = letters
      /\ \A q \in Requests : q # r => history'[q] = history[q] /\ status'[q] = status[q]
      /\ status'[r] = to[t] /\ place[r] \in {"live", "bin"} /\ pc[t] = "commit"
  BY <1>1 DEF Appended
<1>4. CanTransition(from[t], to[t])
  BY <1>3 DEF WorkflowInv, MovesAsserted, Deciding
<1>5. r \notin raced => from[t] = LastStatus(r)
  BY <1>2, <1>3 DEF WorkflowInv, ReadingHolds, Busy, Deciding, AuditTrail, Present
<1>6. \A i \in 1..(n + 1) : i \in 1..n \/ i = n + 1
  BY <1>2
<1>7. /\ AuditTrail /\ HistoryIsChain /\ IssueStamp /\ LettersTruthful /\ NumbersKnown
      /\ letters \in [Requests -> SUBSET Letter]
  BY DEF WorkflowInv, TypeOK
<1>8. /\ issuedAt'[r] <=> (issuedAt[r] \/ to[t] = "issued")
      /\ \A q \in Requests : q # r => (issuedAt'[q] <=> issuedAt[q])
  <2>1. issuedAt' = [issuedAt EXCEPT ![r] = (issuedAt[r] \/ to[t] = "issued")]
    BY Zenon DEF ApplyCommit, CommitWith, Stamped
  <2>2. issuedAt \in [Requests -> BOOLEAN]
    BY DEF WorkflowInv, TypeOK
  <2> QED
    BY <1>2, <2>1, <2>2
<1> HIDE DEF r, n
<1>9. AuditTrail'
  <2> SUFFICES ASSUME NEW q \in Requests, Present(q)
               PROVE  /\ status'[q] = LastStatus(q)'
                      /\ \A i \in 1..Len(history'[q]) :
                           CanTransition(history'[q][i].from, history'[q][i].to)
    BY <1>3 DEF AuditTrail, Present
  <2>1. CASE q # r
    BY <1>3, <1>7, <2>1 DEF AuditTrail, Present, LastStatus
  <2>2. CASE q = r
    <3>1. LastStatus(q)' = to[t]
      BY <1>2, <1>3, <2>2 DEF LastStatus
    <3>2. \A i \in 1..n : CanTransition(history[r][i].from, history[r][i].to)
      BY <1>7, <2>2 DEF AuditTrail, n
    <3> QED
      BY <1>2, <1>3, <1>4, <1>6, <2>2, <3>1, <3>2
  <2> QED
    BY <2>1, <2>2
<1>10. HistoryIsChain'
  <2> SUFFICES ASSUME NEW q \in Requests \ raced, NEW i \in 1..Len(history'[q])
               PROVE  history'[q][i].from = IF i = 1 THEN "submitted" ELSE history'[q][i - 1].to
    BY <1>3 DEF HistoryIsChain
  <2>1. CASE q # r
    BY <1>3, <1>7, <2>1 DEF HistoryIsChain
  <2>2. CASE q = r /\ i \in 1..n
    BY <1>2, <1>7, <2>2 DEF HistoryIsChain, n
  <2>3. CASE q = r /\ i = n + 1
    <3>1. CASE n = 0
      BY <1>2, <1>5, <2>3, <3>1 DEF LastStatus, n, r
    <3>2. CASE n # 0
      <4>1. n \in 1..n /\ i - 1 = n /\ i # 1
        BY <1>2, <2>3, <3>2
      <4>2. LastStatus(r) = history[r][n].to
        BY <1>2, <4>1 DEF LastStatus, n, r
      <4> QED
        BY <1>2, <1>5, <2>3, <4>1, <4>2
    <3> QED
      BY <3>1, <3>2
  <2> QED
    BY <1>2, <1>6, <2>1, <2>2, <2>3
<1>11. IssueStamp'
  <2> SUFFICES ASSUME NEW q \in Requests, Present(q)
               PROVE  issuedAt'[q] <=> \E i \in 1..Len(history'[q]) : history'[q][i].to = "issued"
    BY <1>3 DEF IssueStamp, Present
  <2>1. CASE q # r
    BY <1>3, <1>7, <1>8, <2>1 DEF IssueStamp
  <2>2. CASE q = r
    <3>1. issuedAt[r] <=> \E i \in 1..n : history[r][i].to = "issued"
      BY <1>7, <2>2 DEF IssueStamp, n
    <3>2. (\E i \in 1..(n + 1) : history'[r][i].to = "issued")
          <=> (\E i \in 1..n : history[r][i].to = "issued") \/ to[t] = "issued"
      <4>1. n + 1 \in 1..(n + 1) /\ \A i \in 1..n : i \in 1..(n + 1)
        BY <1>2
      <4> QED
        BY <1>2, <1>6, <4>1
    <3> QED
      BY <1>2, <1>8, <2>2, <3>1, <3>2
  <2> QED
    BY <2>1, <2>2
<1>12. LettersTruthful'
  <2> SUFFICES ASSUME NEW q \in Requests \ raced, NEW l \in letters[q], Present(q)
               PROVE  l[2] = IF l[1] = 0 THEN "submitted" ELSE history'[q][l[1]].to
    BY <1>3 DEF LettersTruthful, Present
  <2>1. l[1] \in Nat /\ l[1] <= Len(history[q])
    BY <1>7, WorkflowAssumption DEF NumbersKnown, Letter
  <2>2. l[2] = IF l[1] = 0 THEN "submitted" ELSE history[q][l[1]].to
    BY <1>7 DEF LettersTruthful
  <2>3. CASE q # r
    BY <1>3, <2>2, <2>3
  <2>4. CASE q = r /\ l[1] # 0
    <3>1. l[1] \in 1..n
      BY <1>2, <2>1, <2>4 DEF n
    <3> QED
      BY <1>2, <2>2, <2>4, <3>1
  <2> QED
    BY <2>2, <2>3, <2>4
<1> QED
  BY <1>9, <1>10, <1>11, <1>12

\* The commit sets the status to the end of the event it adds.
LEMMA AuditTrailPreserved == WorkflowInv /\ TypeOK' /\ [Next]_vars => AuditTrail'
<1> SUFFICES ASSUME WorkflowInv, TypeOK', [Next]_vars PROVE AuditTrail'
  OBVIOUS
<1> USE WorkflowAssumption DEF WorkflowInv, TypeOK, InHand, MovesAsserted, Unborn, AuditTrail,
                               Present, LastStatus, Busy, Deciding, Event, rowVars, taskVars
<1>1. CASE UNCHANGED vars
  BY <1>1 DEF vars
<1>2. CASE \E a \in Assets : AssetDeleted(a)
  BY <1>2 DEF AssetDeleted
<1> SUFFICES ASSUME NEW t \in Tasks, Step(t) PROVE AuditTrail'
  BY <1>1, <1>2, StepOfNext
<1>3. CASE ApplyAssets(t)
  BY <1>3 DEF ApplyAssets
<1>4. CASE ApplyCommit(t)
  BY <1>4, CommitKeepsTimeline
<1>5. CASE Tell(t)
  BY <1>5 DEF Tell, Return
<1>6. CASE RowVanished(t)
  BY <1>6 DEF RowVanished, Return
<1>7. CASE DeleteWrite(t)
  BY <1>7 DEF DeleteWrite, Return
<1>8. CASE Crash(t)
  BY <1>8 DEF Crash, Return
<1>9. CASE \E r \in Requests : Create(t, r)
  BY <1>9 DEF Create
<1>10. CASE \E r \in Requests : DeleteRead(t, r)
  BY <1>10 DEF DeleteRead, NoteRace, WorkingOn
<1>11. CASE \E r \in Requests : Restore(t, r)
  BY <1>11 DEF Restore, NoteRace, WorkingOn
<1>12. CASE \E r \in Requests : Purge(t, r)
  BY <1>12 DEF Purge, NoteRace, WorkingOn
<1>13. CASE Reads(t)
  BY <1>13 DEF Reads, ApplyRead, NoteRace, WorkingOn
<1> QED
  BY <1>3, <1>4, <1>5, <1>6, <1>7, <1>8, <1>9, <1>10, <1>11, <1>12, <1>13 DEF Step

\* A request in one hand is still where the decision found it.
LEMMA HistoryIsChainPreserved == WorkflowInv /\ TypeOK' /\ [Next]_vars => HistoryIsChain'
<1> SUFFICES ASSUME WorkflowInv, TypeOK', [Next]_vars PROVE HistoryIsChain'
  OBVIOUS
<1> USE WorkflowAssumption DEF WorkflowInv, TypeOK, InHand, ReadingHolds, AuditTrail,
                               HistoryIsChain, Present, LastStatus, Busy, Deciding, Event, rowVars,
                               taskVars
<1>1. CASE UNCHANGED vars
  BY <1>1 DEF vars
<1>2. CASE \E a \in Assets : AssetDeleted(a)
  BY <1>2 DEF AssetDeleted
<1> SUFFICES ASSUME NEW t \in Tasks, Step(t) PROVE HistoryIsChain'
  BY <1>1, <1>2, StepOfNext
<1>3. CASE ApplyAssets(t)
  BY <1>3 DEF ApplyAssets
<1>4. CASE ApplyCommit(t)
  BY <1>4, CommitKeepsTimeline
<1>5. CASE Tell(t)
  BY <1>5 DEF Tell, Return
<1>6. CASE RowVanished(t)
  BY <1>6 DEF RowVanished, Return
<1>7. CASE DeleteWrite(t)
  BY <1>7 DEF DeleteWrite, Return
<1>8. CASE Crash(t)
  BY <1>8 DEF Crash, Return
<1>9. CASE \E r \in Requests : Create(t, r)
  BY <1>9 DEF Create
<1>10. CASE \E r \in Requests : DeleteRead(t, r)
  BY <1>10 DEF DeleteRead, NoteRace, WorkingOn
<1>11. CASE \E r \in Requests : Restore(t, r)
  BY <1>11 DEF Restore, NoteRace, WorkingOn
<1>12. CASE \E r \in Requests : Purge(t, r)
  BY <1>12 DEF Purge, NoteRace, WorkingOn
<1>13. CASE Reads(t)
  BY <1>13 DEF Reads, ApplyRead, NoteRace, WorkingOn
<1> QED
  BY <1>3, <1>4, <1>5, <1>6, <1>7, <1>8, <1>9, <1>10, <1>11, <1>12, <1>13 DEF Step

\* The stamp comes with an event that issues.
LEMMA IssueStampPreserved == WorkflowInv /\ TypeOK' /\ [Next]_vars => IssueStamp'
<1> SUFFICES ASSUME WorkflowInv, TypeOK', [Next]_vars PROVE IssueStamp'
  OBVIOUS
<1> USE WorkflowAssumption DEF WorkflowInv, TypeOK, InHand, MovesAsserted, Unborn, IssueStamp,
                               Present, Busy, Deciding, Event, rowVars, taskVars
<1>1. CASE UNCHANGED vars
  BY <1>1 DEF vars
<1>2. CASE \E a \in Assets : AssetDeleted(a)
  BY <1>2 DEF AssetDeleted
<1> SUFFICES ASSUME NEW t \in Tasks, Step(t) PROVE IssueStamp'
  BY <1>1, <1>2, StepOfNext
<1>3. CASE ApplyAssets(t)
  BY <1>3 DEF ApplyAssets
<1>4. CASE ApplyCommit(t)
  BY <1>4, CommitKeepsTimeline
<1>5. CASE Tell(t)
  BY <1>5 DEF Tell, Return
<1>6. CASE RowVanished(t)
  BY <1>6 DEF RowVanished, Return
<1>7. CASE DeleteWrite(t)
  BY <1>7 DEF DeleteWrite, Return
<1>8. CASE Crash(t)
  BY <1>8 DEF Crash, Return
<1>9. CASE \E r \in Requests : Create(t, r)
  BY <1>9 DEF Create
<1>10. CASE \E r \in Requests : DeleteRead(t, r)
  BY <1>10 DEF DeleteRead, NoteRace, WorkingOn
<1>11. CASE \E r \in Requests : Restore(t, r)
  BY <1>11 DEF Restore, NoteRace, WorkingOn
<1>12. CASE \E r \in Requests : Purge(t, r)
  BY <1>12 DEF Purge, NoteRace, WorkingOn
<1>13. CASE Reads(t)
  BY <1>13 DEF Reads, ApplyRead, NoteRace, WorkingOn
<1> QED
  BY <1>3, <1>4, <1>5, <1>6, <1>7, <1>8, <1>9, <1>10, <1>11, <1>12, <1>13 DEF Step

\* The fresh read of a request in one hand finds the status of its last event.
LEMMA LettersTruthfulPreserved == WorkflowInv /\ TypeOK' /\ [Next]_vars => LettersTruthful'
<1> SUFFICES ASSUME WorkflowInv, TypeOK', [Next]_vars PROVE LettersTruthful'
  OBVIOUS
<1> USE WorkflowAssumption DEF WorkflowInv, TypeOK, InHand, ReadingHolds, NumbersKnown, AuditTrail,
                               Unborn, LettersTruthful, Present, LastStatus, Busy, Event, rowVars,
                               taskVars
<1>1. CASE UNCHANGED vars
  BY <1>1 DEF vars
<1>2. CASE \E a \in Assets : AssetDeleted(a)
  BY <1>2 DEF AssetDeleted
<1> SUFFICES ASSUME NEW t \in Tasks, Step(t) PROVE LettersTruthful'
  BY <1>1, <1>2, StepOfNext
<1>3. CASE ApplyAssets(t)
  BY <1>3 DEF ApplyAssets
<1>4. CASE ApplyCommit(t)
  BY <1>4, CommitKeepsTimeline
<1>5. CASE Tell(t)
  BY <1>5 DEF Tell, Return
<1>6. CASE RowVanished(t)
  BY <1>6 DEF RowVanished, Return
<1>7. CASE DeleteWrite(t)
  BY <1>7 DEF DeleteWrite, Return
<1>8. CASE Crash(t)
  BY <1>8 DEF Crash, Return
<1>9. CASE \E r \in Requests : Create(t, r)
  BY <1>9 DEF Create
<1>10. CASE \E r \in Requests : DeleteRead(t, r)
  BY <1>10 DEF DeleteRead, NoteRace, WorkingOn
<1>11. CASE \E r \in Requests : Restore(t, r)
  BY <1>11 DEF Restore, NoteRace, WorkingOn
<1>12. CASE \E r \in Requests : Purge(t, r)
  BY <1>12 DEF Purge, NoteRace, WorkingOn
<1>13. CASE Reads(t)
  BY <1>13 DEF Reads, ApplyRead, NoteRace, WorkingOn
<1> QED
  BY <1>3, <1>4, <1>5, <1>6, <1>7, <1>8, <1>9, <1>10, <1>11, <1>12, <1>13 DEF Step

\* Only the deletion of a device puts one a decision has checked in the bin.
LEMMA DevicesCheckedPreserved == WorkflowInv /\ TypeOK' /\ [Next]_vars => DevicesChecked'
<1> SUFFICES ASSUME WorkflowInv, TypeOK', [Next]_vars PROVE DevicesChecked'
  OBVIOUS
<1> USE WorkflowAssumption DEF WorkflowInv, TypeOK, DevicesChecked, Busy, rowVars, taskVars
<1>1. CASE UNCHANGED vars
  BY <1>1 DEF vars
<1>2. CASE \E a \in Assets : AssetDeleted(a)
  BY <1>2 DEF AssetDeleted
<1> SUFFICES ASSUME NEW t \in Tasks, Step(t) PROVE DevicesChecked'
  BY <1>1, <1>2, StepOfNext
<1>3. CASE ApplyAssets(t)
  BY <1>3 DEF ApplyAssets
<1>4. CASE ApplyCommit(t)
  BY <1>4 DEF ApplyCommit, CommitWith, Number, Stamped
<1>5. CASE Tell(t)
  BY <1>5 DEF Tell, Return
<1>6. CASE RowVanished(t)
  BY <1>6 DEF RowVanished, Return
<1>7. CASE DeleteWrite(t)
  BY <1>7 DEF DeleteWrite, Return
<1>8. CASE Crash(t)
  BY <1>8 DEF Crash, Return
<1>9. CASE \E r \in Requests : Create(t, r)
  BY <1>9 DEF Create
<1>10. CASE \E r \in Requests : DeleteRead(t, r)
  BY <1>10 DEF DeleteRead, NoteRace, WorkingOn
<1>11. CASE \E r \in Requests : Restore(t, r)
  BY <1>11 DEF Restore, NoteRace, WorkingOn
<1>12. CASE \E r \in Requests : Purge(t, r)
  BY <1>12 DEF Purge, NoteRace, WorkingOn
<1>13. CASE Reads(t)
  BY <1>13 DEF Reads, ApplyRead, NoteRace, WorkingOn
<1> QED
  BY <1>3, <1>4, <1>5, <1>6, <1>7, <1>8, <1>9, <1>10, <1>11, <1>12, <1>13 DEF Step

\* The handler t is about to queue the email of event i of request r.
Telling(t, r, i) == WorkingOn(t, r) /\ pc[t] = "tell" /\ evt[t] = i

\* No email of event i is queued exactly when it is owed or lost.
Accounted(r, i) ==
  (\A l \in letters[r] : l[1] # i) <=> <<r, i>> \in cut \/ \E t \in Tasks : Telling(t, r, i)

\* Queueing the email or dying in front of it is how a handler stops being about to
\* tell.
LEMMA DecisionsToldPreserved == WorkflowInv /\ TypeOK' /\ [Next]_vars => DecisionsTold'
<1> SUFFICES ASSUME WorkflowInv, TypeOK', [Next]_vars,
                    NEW r \in Requests, Present(r)', NEW i \in 1..Len(history'[r])
             PROVE  Accounted(r, i)'
  BY DEF DecisionsTold, Accounted, Telling
<1>a. /\ TypeOK /\ InHand /\ Unborn /\ NumbersKnown /\ EventsOwned
      /\ \A q \in Requests : Present(q) => \A j \in 1..Len(history[q]) : Accounted(q, j)
  BY DEF WorkflowInv, DecisionsTold, Accounted, Telling
<1>b. ASSUME Present(r), history'[r] = history[r], letters'[r] = letters[r], cut' = cut,
             \A u \in Tasks : Telling(u, r, i)' <=> Telling(u, r, i)
      PROVE  Accounted(r, i)'
  BY <1>a, <1>b DEF Accounted
<1> USE DEF TypeOK, Present, Telling, WorkingOn, rowVars, taskVars
<1>1. CASE UNCHANGED vars
  BY <1>1, <1>b DEF vars
<1>2. CASE \E a \in Assets : AssetDeleted(a)
  BY <1>2, <1>b DEF AssetDeleted
<1> SUFFICES ASSUME NEW t \in Tasks, Step(t) PROVE Accounted(r, i)'
  BY <1>1, <1>2, StepOfNext
<1>3. CASE ApplyAssets(t)
  BY <1>3, <1>a, <1>b DEF ApplyAssets
<1>4. CASE ApplyCommit(t)
  <2>1. Appended(t) /\ evt'[t] = Len(history[req[t]]) + 1
    BY <1>4, CommitAppends DEF ApplyCommit, CommitWith, Number
  <2>2. \A u \in Tasks : u # t => pc'[u] = pc[u] /\ evt'[u] = evt[u]
    BY <1>4, <1>a DEF ApplyCommit, CommitWith
  <2>3. /\ req' = req /\ letters' = letters /\ place' = place /\ cut' = cut
        /\ pc[t] = "commit" /\ pc'[t] = "tell"
        /\ Len(history[req[t]]) \in Nat /\ Len(history'[req[t]]) = Len(history[req[t]]) + 1
        /\ \A q \in Requests : q # req[t] => history'[q] = history[q]
    BY <2>1 DEF Appended
  <2>4. \A u \in Tasks : Telling(u, r, i)' <=>
          Telling(u, r, i) \/ (u = t /\ r = req[t] /\ i = Len(history[r]) + 1)
    BY <2>1, <2>2, <2>3
  <2>5. CASE r = req[t] /\ i = Len(history[r]) + 1
    <3>1. Telling(t, r, i)'
      BY <2>4, <2>5
    <3>2. \A l \in letters'[r] : l[1] # i
      BY <1>a, <2>3, <2>5, WorkflowAssumption DEF NumbersKnown, Letter
    <3> QED
      BY <3>1, <3>2 DEF Accounted
  <2>6. CASE ~(r = req[t] /\ i = Len(history[r]) + 1)
    <3>1. i \in 1..Len(history[r])
      <4>1. CASE r = req[t]
        BY <2>3, <2>6, <4>1
      <4>2. CASE r # req[t]
        BY <2>3, <4>2
      <4> QED
        BY <4>1, <4>2
    <3>2. \A u \in Tasks : Telling(u, r, i)' <=> Telling(u, r, i)
      BY <2>4, <2>6
    <3>3. Accounted(r, i)
      BY <1>a, <2>3, <3>1
    <3> QED
      BY <2>3, <3>2, <3>3 DEF Accounted
  <2> QED
    BY <2>5, <2>6
<1>5. CASE Tell(t)
  <2>1. /\ req[t] \in Requests /\ pc[t] = "tell" /\ history' = history /\ place' = place
        /\ cut' = cut /\ pc'[t] = "idle"
        /\ letters' = [letters EXCEPT ![req[t]] = @ \union {<<evt[t], status[req[t]]>>}]
    BY <1>5, <1>a DEF Tell, Return, InHand, Busy
  <2>2. \A u \in Tasks : u # t => pc'[u] = pc[u] /\ evt'[u] = evt[u] /\ req'[u] = req[u]
    BY <1>5, <1>a DEF Tell, Return
  <2>3. \A u \in Tasks : Telling(u, r, i)' <=> u # t /\ Telling(u, r, i)
    BY <2>1, <2>2
  <2>4. CASE r = req[t] /\ i = evt[t]
    <3>1. ~(\A l \in letters'[r] : l[1] # i)
      <4>1. <<evt[t], status[r]>> \in letters'[r]
        BY <2>1, <2>4, <1>a
      <4> QED
        BY <4>1, <2>4
    <3>2. <<r, i>> \notin cut' /\ \A u \in Tasks : Telling(u, r, i) => u = t
      BY <1>a, <2>1, <2>4 DEF EventsOwned
    <3> QED
      BY <2>3, <3>1, <3>2 DEF Accounted
  <2>5. CASE ~(r = req[t] /\ i = evt[t])
    <3>1. (\A l \in letters'[r] : l[1] # i) <=> (\A l \in letters[r] : l[1] # i)
      BY <2>1, <2>5, <1>a
    <3>2. \A u \in Tasks : Telling(u, r, i)' <=> Telling(u, r, i)
      BY <2>3, <2>5
    <3>3. Accounted(r, i)
      BY <1>a, <2>1
    <3> QED
      BY <2>1, <3>1, <3>2, <3>3 DEF Accounted
  <2> QED
    BY <2>4, <2>5
<1>6. CASE RowVanished(t)
  BY <1>6, <1>a, <1>b DEF RowVanished, Return
<1>7. CASE DeleteWrite(t)
  BY <1>7, <1>a, <1>b DEF DeleteWrite, Return, InHand, Busy
<1>8. CASE Crash(t)
  <2>1. /\ history' = history /\ place' = place /\ letters' = letters /\ pc'[t] = "idle"
        /\ pc[t] # "tell" => cut' = cut
        /\ pc[t] = "tell" => cut' = cut \union {<<req[t], evt[t]>>}
    BY <1>8, <1>a DEF Crash, Return
  <2>2. \A u \in Tasks : u # t => pc'[u] = pc[u] /\ evt'[u] = evt[u] /\ req'[u] = req[u]
    BY <1>8, <1>a DEF Crash, Return
  <2>3. \A u \in Tasks : Telling(u, r, i)' <=> u # t /\ Telling(u, r, i)
    BY <2>1, <2>2
  <2>4. <<r, i>> \in cut' <=> <<r, i>> \in cut \/ Telling(t, r, i)
    BY <2>1, <1>8 DEF Crash
  <2>5. Accounted(r, i)
    BY <1>a, <2>1
  <2> QED
    BY <2>1, <2>3, <2>4, <2>5 DEF Accounted
<1>9. CASE \E q \in Requests : Create(t, q)
  <2>1. PICK q \in Requests : Create(t, q)
    BY <1>9
  <2>2. /\ history' = history /\ letters' = letters /\ cut' = cut /\ place[q] = "absent"
        /\ place' = [place EXCEPT ![q] = "live"]
    BY <2>1 DEF Create
  <2>3. r # q
    BY <1>a, <2>2 DEF Unborn
  <2>4. \A u \in Tasks : Telling(u, r, i)' <=> Telling(u, r, i)
    BY <1>a, <2>1, <2>3 DEF Create
  <2> QED
    BY <1>a, <1>b, <2>2, <2>3, <2>4
<1>10. CASE \E q \in Requests : DeleteRead(t, q)
  <2>1. \A u \in Tasks : Telling(u, r, i)' <=> Telling(u, r, i)
    BY <1>10, <1>a DEF DeleteRead
  <2> QED
    BY <1>10, <1>b, <2>1 DEF DeleteRead
<1>11. CASE \E q \in Requests : Restore(t, q)
  BY <1>11, <1>a, <1>b DEF Restore
<1>12. CASE \E q \in Requests : Purge(t, q)
  BY <1>12, <1>a, <1>b DEF Purge
<1>13. CASE Reads(t)
  <2>1. \A u \in Tasks : Telling(u, r, i)' <=> Telling(u, r, i)
    BY <1>13, <1>a DEF Reads, ApplyRead
  <2> QED
    BY <1>13, <1>b, <2>1 DEF Reads, ApplyRead
<1> QED
  BY <1>3, <1>4, <1>5, <1>6, <1>7, <1>8, <1>9, <1>10, <1>11, <1>12, <1>13 DEF Step

-----------------------------------------------------------------------------
\* The invariant holds in every reachable state.
THEOREM WorkflowInvariant == Spec => []WorkflowInv
<1>1. WorkflowInv /\ [Next]_vars => WorkflowInv'
  BY TypePreserved, InHandPreserved, MovesAssertedPreserved, OneHandPreserved,
     ReadingHoldsPreserved, UnbornPreserved, NumbersKnownPreserved, EventsOwnedPreserved,
     HistoryBoundedPreserved, AuditTrailPreserved, HistoryIsChainPreserved, IssueStampPreserved,
     DevicesCheckedPreserved, LettersTruthfulPreserved, DecisionsToldPreserved
  DEF WorkflowInv
<1> QED
  BY <1>1, InitEstablishes, PTL DEF Spec

\* The status, the timeline and the stamp of a request agree (applyStatus and the
\* transaction in it), however many decide at once, and a decision links devices that
\* were not in the bin when it looked.
THEOREM TrailAlwaysHolds == Spec => []TrailHolds
<1>1. WorkflowInv => TrailHolds
  BY DEF WorkflowInv, TrailHolds
<1> QED
  BY <1>1, WorkflowInvariant, PTL

\* The requester is emailed about a decision unless its handler is still to do it or died
\* between the decision's commit and the email's, and no email of a request in one hand
\* names another status than its decision set.
THEOREM MailsAlwaysHonest == Spec => []MailsHonest
<1>1. WorkflowInv => MailsHonest
  BY DEF WorkflowInv, MailsHonest
<1> QED
  BY <1>1, WorkflowInvariant, PTL

-----------------------------------------------------------------------------
\* How the contract sees a request.
Phase(r) == IF r \in raced THEN "disputed" ELSE IF place[r] = "absent" THEN "none" ELSE place[r]
State(r) == IF r \in raced THEN "submitted" ELSE status[r]
Log(r)   == IF r \in raced THEN <<>> ELSE history[r]

\* The contract sees every request but q as before.
OthersKept(q) ==
  \A r \in Requests : r # q => Phase(r)' = Phase(r) /\ State(r)' = State(r) /\ Log(r)' = Log(r)

\* A step that changes nothing the contract sees.
LEMMA Stutters ==
  ASSUME NEW q \in Requests, OthersKept(q),
         Phase(q)' = Phase(q), State(q)' = State(q), Log(q)' = Log(q)
  PROVE  UNCHANGED Contract!vars
<1>1. \A r \in Requests : Phase(r)' = Phase(r) /\ State(r)' = State(r) /\ Log(r)' = Log(r)
  BY DEF OthersKept
<1> QED
  BY <1>1 DEF Contract!vars, Phase, State, Log

\* The creation of a request.
LEMMA Submits ==
  ASSUME NEW q \in Requests, OthersKept(q), Phase(q) = "none", Phase(q)' = "live",
         State(q)' = State(q), Log(q)' = Log(q)
  PROVE  Contract!Next
<1>1. Contract!Submit(q)
  BY DEF Contract!Submit, OthersKept, Phase, State, Log
<1> QED
  BY <1>1 DEF Contract!Next

\* A decision about a request that is not in the bin.
LEMMA Decides ==
  ASSUME NEW q \in Requests, OthersKept(q), NEW s \in EquipmentStatuses,
         Phase(q) = "live", Phase(q)' = "live", CanTransition(State(q), s), State(q)' = s,
         Log(q)' = Append(Log(q), [from |-> State(q), to |-> s])
  PROVE  Contract!Next
<1>1. Contract!CanTransition(State(q), s) /\ s \in Contract!EquipmentStatuses
  BY DEF CanTransition, Contract!CanTransition, EquipmentTransitions, Contract!EquipmentTransitions,
         EquipmentStatuses, Contract!EquipmentStatuses
<1>2. Contract!Decide(q, s)
  BY <1>1 DEF Contract!Decide, OthersKept, Phase, State, Log
<1> QED
  BY <1>1, <1>2 DEF Contract!Next

\* Into the bin or out of it.
LEMMA Shelves ==
  ASSUME NEW q \in Requests, OthersKept(q), Phase(q) \in {"live", "bin"},
         Phase(q)' \in {"live", "bin"}, State(q)' = State(q), Log(q)' = Log(q)
  PROVE  Contract!Next
<1>1. CASE Phase(q)' = "live"
  <2>1. Contract!Shelve(q, "live")
    BY <1>1 DEF Contract!Shelve, OthersKept, Phase, State, Log
  <2> QED
    BY <2>1 DEF Contract!Next
<1>2. CASE Phase(q)' = "bin"
  <2>1. Contract!Shelve(q, "bin")
    BY <1>2 DEF Contract!Shelve, OthersKept, Phase, State, Log
  <2> QED
    BY <2>1 DEF Contract!Next
<1> QED
  BY <1>1, <1>2

\* The hard delete.
LEMMA Erases ==
  ASSUME NEW q \in Requests, OthersKept(q), Phase(q) \in {"live", "bin"},
         Phase(q)' = "gone", State(q)' = State(q), Log(q)' = <<>>
  PROVE  Contract!Next
<1>1. Contract!Erase(q)
  BY DEF Contract!Erase, OthersKept, Phase, State, Log
<1> QED
  BY <1>1 DEF Contract!Next

\* A second handler takes the request in hand.
LEMMA Disputes ==
  ASSUME NEW q \in Requests, OthersKept(q), q \notin raced, Phase(q) # "disputed", q \in raced'
  PROVE  Contract!Next
<1>1. Contract!Dispute(q)
  BY DEF Contract!Dispute, OthersKept, Phase, State, Log
<1> QED
  BY <1>1 DEF Contract!Next

\* A reading disputes a request in another hand and is not seen otherwise.
LEMMA OnlyRaced ==
  ASSUME TypeOK, NEW q \in Requests, raced' = raced \/ raced' = raced \union {q}, UNCHANGED rowVars
  PROVE  Contract!Next \/ UNCHANGED Contract!vars
<1>1. CASE raced' = raced
  BY <1>1 DEF Contract!vars, rowVars
<1>2. CASE q \notin raced /\ q \in raced'
  <2>1. OthersKept(q)
    BY <1>2 DEF OthersKept, Phase, State, Log, rowVars
  <2>2. Phase(q) # "disputed"
    BY <1>2 DEF Phase, TypeOK
  <2> QED
    BY <1>2, <2>1, <2>2, Disputes
<1> QED
  BY <1>1, <1>2

\* The first state of the workflow is the first state of the contract.
LEMMA InitRefines == Init => Contract!Init
  BY DEF Init, Contract!Init

\* Every step is a step of the contract, or one it does not see.
LEMMA NextRefines == WorkflowInv /\ [Next]_vars => [Contract!Next]_(Contract!vars)
<1> SUFFICES ASSUME WorkflowInv, [Next]_vars
             PROVE  Contract!Next \/ UNCHANGED Contract!vars
  OBVIOUS
<1> USE DEF rowVars, taskVars
<1>a. TypeOK /\ InHand /\ ReadingHolds /\ Unborn /\ MovesAsserted
  BY DEF WorkflowInv
<1>1. CASE UNCHANGED <<rowVars, raced>>
  BY <1>1 DEF Contract!vars
<1>2. CASE UNCHANGED vars
  BY <1>1, <1>2 DEF vars
<1>3. CASE \E a \in Assets : AssetDeleted(a)
  BY <1>1, <1>3 DEF AssetDeleted
<1> SUFFICES ASSUME NEW t \in Tasks, Step(t)
             PROVE  Contract!Next \/ UNCHANGED Contract!vars
  BY <1>2, <1>3, StepOfNext
<1>4. CASE ApplyAssets(t)
  BY <1>1, <1>4 DEF ApplyAssets
<1>5. CASE ApplyCommit(t)
  <2>1. Appended(t)
    BY <1>5, CommitAppends
  <2> PICK q \in Requests : q = req[t]
    BY <2>1 DEF Appended
  <2>2. /\ q \in Requests /\ raced' = raced /\ place' = place /\ status'[q] = to[t]
        /\ \A r \in Requests : r # q => history'[r] = history[r] /\ status'[r] = status[r]
        /\ pc[t] = "commit"
    BY <2>1 DEF Appended
  <2>3. history'[q] = Append(history[q], [from |-> from[t], to |-> to[t]])
    BY <1>5, <1>a, <2>2 DEF ApplyCommit, CommitWith, TypeOK
  <2>4. CanTransition(from[t], to[t]) /\ to[t] \in EquipmentStatuses
    BY <1>a, <2>2 DEF MovesAsserted, Deciding, TypeOK
  <2>5. q \notin raced => place[q] = "live" /\ from[t] = status[q]
    BY <1>a, <2>2 DEF ReadingHolds, Busy, Deciding
  <2>6. OthersKept(q)
    BY <2>2 DEF OthersKept, Phase, State, Log
  <2>7. CASE q \in raced
    BY <2>2, <2>6, <2>7, Stutters DEF Phase, State, Log
  <2>8. CASE q \notin raced
    <3>1. Phase(q) = "live" /\ Phase(q)' = "live" /\ State(q) = from[t] /\ State(q)' = to[t]
      BY <2>2, <2>5, <2>8 DEF Phase, State
    <3>2. Log(q)' = Append(Log(q), [from |-> State(q), to |-> to[t]])
      BY <2>2, <2>3, <2>8, <3>1 DEF Log
    <3> QED
      BY <2>2, <2>4, <2>6, <3>1, <3>2, Decides
  <2> QED
    BY <2>7, <2>8
<1>6. CASE Tell(t)
  BY <1>1, <1>6 DEF Tell
<1>7. CASE RowVanished(t)
  BY <1>1, <1>7 DEF RowVanished
<1>8. CASE DeleteWrite(t)
  <2> PICK q \in Requests : q = req[t]
    BY <1>8, <1>a DEF DeleteWrite, InHand, Busy
  <2>1. /\ q \in Requests /\ place[q] \in {"live", "bin"} /\ place'[q] = "bin"
        /\ \A r \in Requests : r # q => place'[r] = place[r]
        /\ UNCHANGED <<status, history, raced>>
    BY <1>8, <1>a DEF DeleteWrite, InHand, Busy, TypeOK
  <2>2. OthersKept(q)
    BY <2>1 DEF OthersKept, Phase, State, Log
  <2>3. State(q)' = State(q) /\ Log(q)' = Log(q)
    BY <2>1 DEF State, Log
  <2>4. CASE q \in raced
    BY <2>1, <2>2, <2>3, <2>4, Stutters DEF Phase
  <2>5. CASE q \notin raced
    <3>1. Phase(q) \in {"live", "bin"} /\ Phase(q)' \in {"live", "bin"}
      BY <2>1, <2>5 DEF Phase
    <3> QED
      BY <2>1, <2>2, <2>3, <3>1, Shelves
  <2> QED
    BY <2>4, <2>5
<1>9. CASE Crash(t)
  BY <1>1, <1>9 DEF Crash
<1>10. CASE \E q \in Requests : Create(t, q)
  <2>1. PICK q \in Requests : Create(t, q)
    BY <1>10
  <2>2. /\ place[q] = "absent" /\ place'[q] = "live"
        /\ \A r \in Requests : r # q => place'[r] = place[r]
        /\ UNCHANGED <<status, history, raced>>
    BY <1>a, <2>1 DEF Create, TypeOK
  <2>3. OthersKept(q)
    BY <2>2 DEF OthersKept, Phase, State, Log
  <2>4. State(q)' = State(q) /\ Log(q)' = Log(q)
    BY <2>2 DEF State, Log
  <2>5. CASE q \in raced
    BY <2>2, <2>3, <2>4, <2>5, Stutters DEF Phase
  <2>6. CASE q \notin raced
    <3>1. Phase(q) = "none" /\ Phase(q)' = "live"
      BY <2>2, <2>6 DEF Phase
    <3> QED
      BY <2>3, <2>4, <3>1, Submits
  <2> QED
    BY <2>5, <2>6
<1>11. CASE \E q \in Requests : DeleteRead(t, q)
  <2>1. PICK q \in Requests : DeleteRead(t, q)
    BY <1>11
  <2>2. (raced' = raced \/ raced' = raced \union {q}) /\ UNCHANGED rowVars
    BY <2>1 DEF DeleteRead, NoteRace
  <2> QED
    BY <1>a, <2>2, OnlyRaced
<1>12. CASE \E q \in Requests : Restore(t, q)
  <2>1. PICK q \in Requests : Restore(t, q)
    BY <1>12
  <2>2. /\ place[q] \in {"live", "bin"} /\ place'[q] = "live"
        /\ \A r \in Requests : r # q => place'[r] = place[r]
        /\ raced' = raced \/ raced' = raced \union {q}
        /\ UNCHANGED <<status, history>>
    BY <1>a, <2>1 DEF Restore, NoteRace, TypeOK
  <2>3. OthersKept(q)
    BY <2>2 DEF OthersKept, Phase, State, Log
  <2>4. CASE q \in raced
    BY <2>2, <2>3, <2>4, Stutters DEF Phase, State, Log
  <2>5. CASE q \notin raced /\ q \in raced'
    <3>1. Phase(q) # "disputed"
      BY <2>2, <2>5 DEF Phase
    <3> QED
      BY <2>3, <2>5, <3>1, Disputes
  <2>6. CASE q \notin raced /\ q \notin raced'
    <3>1. /\ Phase(q) \in {"live", "bin"} /\ Phase(q)' \in {"live", "bin"}
          /\ State(q)' = State(q) /\ Log(q)' = Log(q)
      BY <2>2, <2>6 DEF Phase, State, Log
    <3> QED
      BY <2>3, <3>1, Shelves
  <2> QED
    BY <2>4, <2>5, <2>6
<1>13. CASE \E q \in Requests : Purge(t, q)
  <2>1. PICK q \in Requests : Purge(t, q)
    BY <1>13
  <2>2. /\ place[q] \in {"live", "bin"} /\ place'[q] = "gone" /\ history'[q] = <<>>
        /\ \A r \in Requests : r # q => place'[r] = place[r] /\ history'[r] = history[r]
        /\ raced' = raced \/ raced' = raced \union {q}
        /\ UNCHANGED status
    BY <1>a, <2>1 DEF Purge, NoteRace, TypeOK
  <2>3. OthersKept(q)
    BY <2>2 DEF OthersKept, Phase, State, Log
  <2>4. CASE q \in raced
    BY <2>2, <2>3, <2>4, Stutters DEF Phase, State, Log
  <2>5. CASE q \notin raced /\ q \in raced'
    <3>1. Phase(q) # "disputed"
      BY <2>2, <2>5 DEF Phase
    <3> QED
      BY <2>3, <2>5, <3>1, Disputes
  <2>6. CASE q \notin raced /\ q \notin raced'
    <3>1. /\ Phase(q) \in {"live", "bin"} /\ Phase(q)' = "gone"
          /\ State(q)' = State(q) /\ Log(q)' = <<>>
      BY <2>2, <2>6 DEF Phase, State, Log
    <3> QED
      BY <2>3, <3>1, Erases
  <2> QED
    BY <2>4, <2>5, <2>6
<1>14. CASE Reads(t)
  <2>1. PICK q \in Requests, s \in EquipmentStatuses, ids \in SUBSET Assets : ApplyRead(t, q, s, ids)
    BY <1>14 DEF Reads
  <2>2. (raced' = raced \/ raced' = raced \union {q}) /\ UNCHANGED rowVars
    BY <2>1 DEF ApplyRead, NoteRace
  <2> QED
    BY <1>a, <2>2, OnlyRaced
<1> QED
  BY <1>4, <1>5, <1>6, <1>7, <1>8, <1>9, <1>10, <1>11, <1>12, <1>13, <1>14 DEF Step

\* The workflow keeps its promise: nothing is decided about a request in the bin, every
\* decision is a move of the map from where the request stood, and it is on the
\* timeline, unless two handlers met on the request.
THEOREM WorkflowKeepsContract == Spec => KeepsContract
<1>1. Init => Contract!Init
  BY InitRefines
<1>2. WorkflowInv /\ [Next]_vars => [Contract!Next]_(Contract!vars)
  BY NextRefines
<1> QED
  BY <1>1, <1>2, WorkflowInvariant, PTL DEF Spec, KeepsContract, Contract!Spec
=============================================================================
