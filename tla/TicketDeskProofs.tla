--------------------------- MODULE TicketDeskProofs ---------------------------
(***************************************************************************)
(* Machine-checked proofs about TicketDesk, for any number of tickets,      *)
(* agents, handlers and priorities, and any bounds; and at the end about the *)
(* clock that its deadlines come from, WorkHours, for any units, hours,      *)
(* zones, starts and targets that fit each other.                           *)
(***************************************************************************)
EXTENDS TicketDesk, WorkHours, FiniteSetTheorems, TLAPS

Handling(k) == task[k].pc \in {"status", "assign", "update", "comment"}

\* Handlers and scripts work on tickets that were created.
InHand ==
  \A k \in Tasks :
    /\ Handling(k) => task[k].id \in Tickets /\ row[task[k].id].place # "absent"
    /\ task[k].pc = "script" =>
         \A i \in Tickets, p \in Priorities : <<i, p>> \in task[k].batch => row[i].place # "absent"

\* What a handler was asked fits its operation, and it has read a consistent row.
AskFits ==
  \A k \in Tasks :
    /\ task[k].pc = "status" =>
         task[k].ask \in Statuses /\ (task[k].status \in Closed <=> task[k].resolvedAt # None)
    /\ task[k].pc = "assign" => task[k].ask \in Agents \union {None}
    /\ task[k].pc = "update" => task[k].ask \in Priorities \union {None}
    /\ task[k].pc = "comment" => task[k].ask \in {"internal", "public"}

\* Apart from overlaps one task at most is between its reading of a field and its write.
OneWriter ==
  \A k, l \in Tasks, i \in Tickets, f \in {"status", "deadline"} :
    WorksOn(k, i, f) /\ WorksOn(l, i, f) /\ <<i, f>> \notin overlap => k = l

\* What that task has read still stands.
StatusStands ==
  \A k \in Tasks, i \in Tickets :
    task[k].pc = "status" /\ task[k].id = i /\ <<i, "status">> \notin overlap /\ Exists(i) =>
      task[k].status = row[i].status /\ task[k].resolvedAt = row[i].resolvedAt

PriorityStands ==
  \A k \in Tasks, i \in Tickets :
    <<i, "deadline">> \notin overlap /\ Exists(i) =>
      /\ task[k].pc = "update" /\ task[k].id = i => task[k].priority = row[i].priority
      /\ task[k].pc = "script" => \A p \in Priorities : <<i, p>> \in task[k].batch => p = row[i].priority

\* Task k has read ticket i and is going to write what it means by it, assignments apart,
\* which do not read it.
AtHand(k, i) ==
  \/ task[k].pc \in {"status", "update", "comment"} /\ task[k].id = i
  \/ task[k].pc = "script" /\ \E p \in Priorities : <<i, p>> \in task[k].batch

\* Nobody holds a ticket in the bin but who was at it when it was deleted.
BinIsLeft ==
  \A k \in Tasks, i \in Tickets :
    row[i].place = "bin" /\ <<i, "bin">> \notin overlap => ~AtHand(k, i)

\* A ticket that does not exist yet is as Init has it.
Unborn ==
  \A i \in Tickets : row[i].place = "absent" =>
    row[i] = NoRow /\ mails[i] = NoMoves /\ moves[i] = NoMoves /\ replies[i] = NoReplies /\ reopened[i] = 0

\* Nothing was stamped or opened again in the future.
InThePast ==
  \A i \in Tickets : reopened[i] <= now /\ (row[i].resolvedAt # None => row[i].resolvedAt <= now)

\* RepliesMailed, before the ticket exists and after it is gone too.
RepliesTold == \A i \in Tickets : replies[i].mailed = replies[i].public

DeskInv ==
  /\ TypeOK
  /\ InHand
  /\ AskFits
  /\ OneWriter
  /\ StatusStands
  /\ PriorityStands
  /\ BinIsLeft
  /\ Unborn
  /\ InThePast
  /\ ClosedIsStamped
  /\ FreshUnlessOverlap
  /\ DeadlineUnlessOverlap
  /\ MailsTellMoves
  /\ RepliesTold
-----------------------------------------------------------------------------
BeginsStatus(k)  == \E i \in Tickets, s \in Statuses, note \in BOOLEAN : StatusRead(k, i, s, note)
BeginsAssign(k)  == \E i \in Tickets, a \in Agents \union {None} : AssignRead(k, i, a)
BeginsUpdate(k)  == \E i \in Tickets, p \in Priorities \union {None} : UpdateRead(k, i, p)
BeginsComment(k) == \E i \in Tickets, kind \in {"internal", "public"} : CommentRead(k, i, kind)

\* A turn of the script that finds its ticket.
Recalculates(k) == \E i \in Tickets, p \in Priorities : ScriptWrite(k, i, p) /\ Exists(i)

\* A task that ends without a write.
Ends(k) == task[k].pc # "idle" /\ Return(k) /\ UNCHANGED <<tables, now, policy, observers>>

\* One task's step, whichever it is.
Step(k) ==
  \/ StatusCommit(k) \/ AssignCommit(k) \/ UpdateCommit(k) \/ CommentCommit(k)
  \/ Ends(k) \/ ScriptRead(k) \/ BeginsStatus(k) \/ BeginsAssign(k)
  \/ BeginsUpdate(k) \/ BeginsComment(k) \/ Recalculates(k)
  \/ \E i \in Tickets : Create(k, i)
  \/ \E i \in Tickets : SoftDelete(k, i)
  \/ \E i \in Tickets : Restore(k, i)
  \/ \E i \in Tickets : Purge(k, i)

\* Every step that changes something is some task's, the clock's or a deployment.
LEMMA StepOfNext == [Next]_vars => UNCHANGED vars \/ (Deploy \/ Tick) \/ \E k \in Tasks : Step(k)
<1>1. \A k \in Tasks : RowVanished(k) \/ ScriptEnds(k) \/ Crash(k) => Ends(k)
  BY DEF RowVanished, ScriptEnds, Crash, Ends
<1>2. ASSUME NEW k \in Tasks, NEW i \in Tickets, NEW p \in Priorities, ScriptWrite(k, i, p)
      PROVE  Recalculates(k) \/ Ends(k)
  BY <1>2 DEF ScriptWrite, Recalculates, Ends, tables
<1> QED
  BY <1>1, <1>2 DEF Next, Step, BeginsStatus, BeginsAssign, BeginsUpdate, BeginsComment

\* An empty desk satisfies every part of the invariant.
LEMMA InitEstablishes == Init => DeskInv
<1> SUFFICES ASSUME Init PROVE DeskInv
  OBVIOUS
<1> USE DeskAssumption DEF Init, NoRow, NoMoves, NoReplies, Idle
<1>1. TypeOK
  BY DEF TypeOK, Row, Deadline, Task, Moves, Move, Times, Statuses, Closed
<1>2. InHand /\ AskFits /\ OneWriter /\ StatusStands /\ PriorityStands /\ BinIsLeft
  BY DEF InHand, Handling, AskFits, OneWriter, WorksOn, StatusStands, PriorityStands, BinIsLeft,
         AtHand
<1>3. Unborn /\ InThePast /\ ClosedIsStamped /\ FreshUnlessOverlap
  BY DEF Unborn, InThePast, ClosedIsStamped, FreshUnlessOverlap, StampIsFresh, Exists
<1>4. DeadlineUnlessOverlap /\ MailsTellMoves
  BY DEF DeadlineUnlessOverlap, DeadlineFits, MailsTellMoves, Exists
<1>5. RepliesTold
  BY DEF RepliesTold
<1> QED
  BY <1>1, <1>2, <1>3, <1>4, <1>5 DEF DeskInv

\* What a turn of the script changes: one deadline, and its batch gets smaller.
Turned(k, i, p) ==
  /\ task[k].pc = "script" /\ <<i, p>> \in task[k].batch
  /\ \A j \in Tickets : j # i => row'[j] = row[j]
  /\ row'[i].dueDate = SlaDueDate(row[i].createdAt, p)
  /\ \A j \in Tickets :
       /\ row'[j].place = row[j].place /\ row'[j].status = row[j].status
       /\ row'[j].priority = row[j].priority /\ row'[j].createdAt = row[j].createdAt
       /\ row'[j].resolvedAt = row[j].resolvedAt
  /\ \A l \in Tasks :
       /\ task'[l].pc = task[l].pc /\ task'[l].id = task[l].id
       /\ task'[l].status = task[l].status /\ task'[l].resolvedAt = task[l].resolvedAt
       /\ task'[l].priority = task[l].priority /\ task'[l].ask = task[l].ask
       /\ task'[l].batch \subseteq task[l].batch
  /\ UNCHANGED <<mails, replies, now, policy, moves, reopened, overlap>>

\* A turn that finds its ticket changes that and nothing else.
LEMMA TurnEffect ==
  ASSUME TypeOK, NEW k \in Tasks, NEW i \in Tickets, NEW p \in Priorities,
         ScriptWrite(k, i, p), Exists(i)
  PROVE  Turned(k, i, p)
<1>1. /\ row' = [row EXCEPT ![i].dueDate = SlaDueDate(row[i].createdAt, p)]
      /\ task' = [task EXCEPT ![k].batch = task[k].batch \ {<<i, p>>}]
      /\ task[k].pc = "script" /\ <<i, p>> \in task[k].batch
      /\ UNCHANGED <<mails, replies, now, policy, moves, reopened, overlap>>
  BY DEF ScriptWrite, observers
<1>2. row[i] \in Row /\ task[k] \in Task
  BY DEF TypeOK
<1>3. row' = [row EXCEPT ![i] = [row[i] EXCEPT !.dueDate = SlaDueDate(row[i].createdAt, p)]]
  BY <1>1, <1>2 DEF TypeOK
<1>4. task' = [task EXCEPT ![k] = [task[k] EXCEPT !.batch = task[k].batch \ {<<i, p>>}]]
  BY <1>1, <1>2 DEF TypeOK
<1>5. \A l \in Tasks : l # k => task'[l] = task[l]
  BY <1>4 DEF TypeOK
<1>6. /\ task'[k].pc = task[k].pc /\ task'[k].id = task[k].id
      /\ task'[k].status = task[k].status /\ task'[k].resolvedAt = task[k].resolvedAt
      /\ task'[k].priority = task[k].priority /\ task'[k].ask = task[k].ask
      /\ task'[k].batch = task[k].batch \ {<<i, p>>}
  BY <1>2, <1>4 DEF TypeOK, Task
<1>7. \A j \in Tickets : j # i => row'[j] = row[j]
  BY <1>3 DEF TypeOK
<1>8. /\ row'[i].place = row[i].place /\ row'[i].status = row[i].status
      /\ row'[i].priority = row[i].priority /\ row'[i].createdAt = row[i].createdAt
      /\ row'[i].resolvedAt = row[i].resolvedAt
      /\ row'[i].dueDate = SlaDueDate(row[i].createdAt, p)
  BY <1>2, <1>3 DEF TypeOK, Row
<1> QED
  BY <1>1, <1>5, <1>6, <1>7, <1>8 DEF Turned

\* A handler that is done is in its type.
LEMMA IdleTyped == Idle \in Task
  BY DeskAssumption DEF Idle, Task, Statuses

\* A deadline is computed from typed parts.
LEMMA DeadlineTyped ==
  ASSUME TypeOK, NEW s \in Times, NEW p \in Priorities
  PROVE  SlaDueDate(s, p) \in Deadline
  BY DEF SlaDueDate, Deadline, TypeOK

\* A task that begins, ends or goes on keeps its type.
LEMMA TaskTyped ==
  ASSUME TypeOK, NEW k \in Tasks, NEW t \in Task, task' = [task EXCEPT ![k] = t]
  PROVE  task' \in [Tasks -> Task]
  BY DEF TypeOK

\* A row that is written keeps its type.
LEMMA RowTyped ==
  ASSUME TypeOK, NEW i \in Tickets, NEW r \in Row, row' = [row EXCEPT ![i] = r]
  PROVE  row' \in [Tickets -> Row]
  BY DEF TypeOK

\* The overlaps that are marked are of tickets.
LEMMA OverlapTyped ==
  ASSUME TypeOK, NEW k, NEW ids \in SUBSET Tickets, NEW f \in {"status", "deadline", "bin"},
         NoteOverlap(k, ids, f)
  PROVE  overlap' \subseteq Tickets \X {"status", "deadline", "bin"}
  BY DEF TypeOK, NoteOverlap

\* Task k is done, and no other one moves.
Done(k) == task'[k] = Idle /\ \A l \in Tasks : l # k => task'[l] = task[l]

\* The handler that commits leaves the desk to the others as they were.
LEMMA DoneBy == ASSUME TypeOK, NEW k \in Tasks, Return(k) PROVE Done(k)
  BY DEF Return, Done, TypeOK

\* The columns of ticket i's row that a change of priority leaves, and the other rows.
Updated(k, i) ==
  /\ i = task[k].id /\ task[k].pc = "update" /\ Exists(i) /\ Done(k)
  /\ row'[i].place = row[i].place /\ row'[i].status = row[i].status
  /\ row'[i].createdAt = row[i].createdAt /\ row'[i].resolvedAt = row[i].resolvedAt
  /\ \A j \in Tickets : j # i => row'[j] = row[j]
  /\ UNCHANGED <<mails, replies, now, policy, moves, reopened, overlap>>

\* What committing an edit of the priority does to the rows.
LEMMA UpdateEffect ==
  ASSUME TypeOK, InHand, NEW k \in Tasks, UpdateCommit(k)
  PROVE  \E i \in Tickets : Updated(k, i)
<1>1. PICK i \in Tickets : i = task[k].id
  BY DEF InHand, Handling, UpdateCommit, UpdateWrite
<1>2. row \in [Tickets -> Row] /\ row[i] \in Row
  BY DEF TypeOK
<1>3. PICK p, d : row' = [row EXCEPT ![i] = [@ EXCEPT !.priority = p, !.dueDate = d]]
  BY <1>1 DEF UpdateCommit, UpdateWrite
<1>4. /\ row'[i] = [row[i] EXCEPT !.priority = p, !.dueDate = d]
      /\ \A j \in Tickets : j # i => row'[j] = row[j]
  BY ONLY <1>2, <1>3
<1>5. /\ row'[i].place = row[i].place /\ row'[i].status = row[i].status
      /\ row'[i].createdAt = row[i].createdAt /\ row'[i].resolvedAt = row[i].resolvedAt
  BY ONLY <1>2, <1>4 DEF Row
<1>6. /\ task[k].pc = "update" /\ Exists(i) /\ Done(k)
      /\ UNCHANGED <<mails, replies, now, policy, moves, reopened, overlap>>
  BY <1>1, DoneBy DEF UpdateCommit, UpdateWrite, observers
<1> QED
  BY <1>1, <1>4, <1>5, <1>6 DEF Updated

\* The same for a change of status, which notes a reopening.
Moved(k, i) ==
  /\ i = task[k].id /\ task[k].pc = "status" /\ Exists(i) /\ Done(k)
  /\ row'[i].place = row[i].place /\ row'[i].priority = row[i].priority
  /\ row'[i].createdAt = row[i].createdAt /\ row'[i].dueDate = row[i].dueDate
  /\ row'[i].status = task[k].ask /\ row'[i].resolvedAt = Stamp(task[k])
  /\ \A j \in Tickets : j # i => row'[j] = row[j] /\ reopened'[j] = reopened[j]
  /\ reopened'[i] \in {reopened[i], now}
  /\ UNCHANGED <<replies, now, policy, overlap>>

\* What committing a change of status does to the rows.
LEMMA StatusEffect ==
  ASSUME TypeOK, InHand, NEW k \in Tasks, StatusCommit(k)
  PROVE  \E i \in Tickets : Moved(k, i)
<1>1. PICK i \in Tickets : i = task[k].id
  BY DEF InHand, Handling, StatusCommit, StatusWrite
<1>2. row \in [Tickets -> Row] /\ row[i] \in Row
  BY DEF TypeOK
<1>3. PICK s, d : /\ s = task[k].ask /\ d = Stamp(task[k])
                  /\ row' = [row EXCEPT ![i] = [@ EXCEPT !.status = s, !.resolvedAt = d]]
  BY <1>1 DEF StatusCommit, StatusWrite
<1>4. /\ row'[i] = [row[i] EXCEPT !.status = s, !.resolvedAt = d]
      /\ \A j \in Tickets : j # i => row'[j] = row[j]
  BY ONLY <1>2, <1>3
<1>5. /\ row'[i].place = row[i].place /\ row'[i].priority = row[i].priority
      /\ row'[i].createdAt = row[i].createdAt /\ row'[i].dueDate = row[i].dueDate
      /\ row'[i].status = s /\ row'[i].resolvedAt = d
  BY ONLY <1>2, <1>4 DEF Row
<1>6. /\ task[k].pc = "status" /\ Exists(i) /\ Done(k)
      /\ UNCHANGED <<replies, now, policy, overlap>>
  BY <1>1, DoneBy DEF StatusCommit, StatusWrite
<1>7. /\ \A j \in Tickets : j # i => reopened'[j] = reopened[j]
      /\ reopened'[i] \in {reopened[i], now}
  <2>1. reopened' = reopened \/ reopened' = [reopened EXCEPT ![i] = now]
    BY <1>1 DEF StatusCommit, StatusWrite
  <2>2. reopened \in [Tickets -> Times]
    BY DEF TypeOK
  <2> QED
    BY ONLY <2>1, <2>2
<1> QED
  BY <1>1, <1>3, <1>4, <1>5, <1>6, <1>7 DEF Moved

\* A comment is of no concern to rows and observers.
Commented(k) ==
  task[k].pc = "comment" /\ Done(k) /\ UNCHANGED <<row, mails, now, policy, moves, reopened, overlap>>

\* What committing a comment does to the rows.
LEMMA CommentEffect == ASSUME TypeOK, NEW k \in Tasks, CommentCommit(k) PROVE Commented(k)
  BY DoneBy DEF CommentCommit, CommentWrite, Commented, observers

\* The tables, the tasks and the observers have their types after every step.
LEMMA TypePreserved == DeskInv /\ [Next]_vars => TypeOK'
<1> SUFFICES ASSUME DeskInv, [Next]_vars PROVE TypeOK'
  OBVIOUS
<1> USE DeskAssumption DEF tables, observers
<1>0. TypeOK
  BY DEF DeskInv
<1>1. CASE UNCHANGED vars
  BY <1>0, <1>1 DEF vars, TypeOK
<1>2. CASE Deploy \/ Tick
  BY <1>0, <1>2 DEF Deploy, Tick, TypeOK, Times
<1> SUFFICES ASSUME NEW k \in Tasks, Step(k) PROVE TypeOK'
  BY <1>1, <1>2, StepOfNext
<1>t. task[k] \in Task /\ \A i \in Tickets : row[i] \in Row
  BY <1>0 DEF TypeOK
<1>3. CASE StatusCommit(k)
  <2> DEFINE i == task[k].id
  <2>1. i \in Tickets /\ task[k].ask \in Statuses
    BY <1>3 DEF DeskInv, InHand, Handling, AskFits, StatusCommit, StatusWrite
  <2>r. row[i] \in Row
    BY <1>t, <2>1
  <2>2. Stamp(task[k]) \in Times \union {None}
    BY <1>0, <1>t DEF Stamp, Task, TypeOK
  <2>3. row' \in [Tickets -> Row]
    BY <2>r, <1>0, <1>3, <2>1, <2>2 DEF StatusCommit, StatusWrite, TypeOK, Row
  <2>4. task' \in [Tasks -> Task]
    BY <1>0, <1>3, IdleTyped, TaskTyped DEF StatusCommit, StatusWrite, Return
  <2>5. /\ [from |-> task[k].status, to |-> task[k].ask] \in Move
        /\ [from |-> row[i].status, to |-> task[k].ask] \in Move
    BY <1>t, <2>1 DEF Move, Task, Row
  <2>6. mails[i].count = moves[i].count /\ moves[i].count < MaxMails
    BY <1>3, <2>1 DEF DeskInv, MailsTellMoves, StatusCommit, StatusWrite
  <2>7. /\ moves[i].count + 1 \in 0..MaxMails /\ mails[i].count + 1 \in 0..MaxMails
    BY <1>0, <2>1, <2>6 DEF TypeOK, Moves
  <2>8. /\ Another(mails[i], [from |-> task[k].status, to |-> task[k].ask]) \in Moves
        /\ Another(moves[i], [from |-> row[i].status, to |-> task[k].ask]) \in Moves
    BY <2>5, <2>7 DEF Another, Moves
  <2>9. mails' \in [Tickets -> Moves] /\ moves' \in [Tickets -> Moves] /\ reopened' \in [Tickets -> Times]
    BY <1>0, <1>3, <2>8 DEF StatusCommit, StatusWrite, TypeOK
  <2> QED
    BY <1>0, <1>3, <2>3, <2>4, <2>9 DEF StatusCommit, StatusWrite, TypeOK
<1>4. CASE AssignCommit(k)
  <2>1. task[k].id \in Tickets /\ task[k].ask \in Agents \union {None}
    BY <1>4 DEF DeskInv, InHand, Handling, AskFits, AssignCommit
  <2>r. row[task[k].id] \in Row
    BY <1>t, <2>1
  <2>2. row' \in [Tickets -> Row]
    BY <2>r, <1>0, <1>4, <2>1 DEF AssignCommit, TypeOK, Row
  <2>3. task' \in [Tasks -> Task]
    BY <1>0, <1>4, IdleTyped, TaskTyped DEF AssignCommit, Return
  <2> QED
    BY <1>0, <1>4, <2>2, <2>3 DEF AssignCommit, TypeOK
<1>5. CASE UpdateCommit(k)
  <2> DEFINE i == task[k].id
             d == IF PriorityChanged(k) THEN SlaDueDate(row[i].createdAt, task[k].ask) ELSE row[i].dueDate
  <2>1. i \in Tickets /\ task[k].ask \in Priorities \union {None}
    BY <1>5 DEF DeskInv, InHand, Handling, AskFits, UpdateCommit, UpdateWrite
  <2>2. row[i].priority \in Priorities /\ row[i].createdAt \in Times /\ row[i].dueDate \in Deadline
    BY <1>t, <2>1 DEF Row
  <2>3. Asked(k) \in Priorities
    BY <2>1, <2>2 DEF Asked
  <2>4. d \in Deadline
    BY <1>0, <2>1, <2>2, DeadlineTyped DEF PriorityChanged
  <2>5. row' = [row EXCEPT ![i].priority = Asked(k), ![i].dueDate = d] /\ Return(k)
        /\ UNCHANGED <<mails, replies, now, policy, observers>>
    BY <1>5 DEF UpdateCommit, UpdateWrite
  <2>r. row[i] \in Row
    BY <1>t, <2>1
  <2> HIDE DEF i, d
  <2>6. row' \in [Tickets -> Row]
    BY <2>r, <1>0, <2>1, <2>3, <2>4, <2>5 DEF TypeOK, Row
  <2>7. task' \in [Tasks -> Task]
    BY <1>0, <2>5, IdleTyped, TaskTyped DEF Return
  <2> QED
    BY <1>0, <2>5, <2>6, <2>7 DEF TypeOK
<1>6. CASE CommentCommit(k)
  <2> DEFINE i == task[k].id
  <2>1. i \in Tickets /\ task[k].ask \in {"internal", "public"}
    BY <1>6 DEF DeskInv, InHand, Handling, AskFits, CommentCommit, CommentWrite
  <2>2. replies[i].mailed = replies[i].public /\ replies[i].public < MaxReplies
    BY <1>6, <2>1 DEF DeskInv, RepliesTold, CommentCommit, CommentWrite
  <2>3. task' \in [Tasks -> Task]
    BY <1>0, <1>6, IdleTyped, TaskTyped DEF CommentCommit, CommentWrite, Return
  <2>4. replies' \in [Tickets -> [public : 0..MaxReplies, mailed : 0..MaxReplies]]
    BY <1>0, <1>6, <2>1, <2>2 DEF CommentCommit, CommentWrite, TypeOK
  <2> QED
    BY <1>0, <1>6, <2>3, <2>4 DEF CommentCommit, CommentWrite, TypeOK
<1>7. CASE Ends(k)
  BY <1>0, <1>7, IdleTyped, TaskTyped DEF Ends, Return, TypeOK
<1>8. CASE ScriptRead(k)
  <2> DEFINE stale == {i \in Tickets :
               /\ row[i].place = "live" /\ row[i].status \notin Closed
               /\ row[i].dueDate # SlaDueDate(row[i].createdAt, row[i].priority)}
             batch == {<<i, row[i].priority>> : i \in stale}
  <2>1. batch \in SUBSET (Tickets \X Priorities)
    BY <1>t DEF Row
  <2>2. /\ Begin(k, [Idle EXCEPT !.pc = "script", !.batch = batch]) /\ NoteOverlap(k, stale, "deadline")
        /\ UNCHANGED <<tables, now, policy, moves, reopened>>
    BY <1>8 DEF ScriptRead
  <2>3. stale \in SUBSET Tickets
    OBVIOUS
  <2> HIDE DEF stale, batch
  <2>4. [Idle EXCEPT !.pc = "script", !.batch = batch] \in Task
    BY <2>1, IdleTyped DEF Task
  <2>5. task' \in [Tasks -> Task]
    BY <1>0, <2>2, <2>4, TaskTyped DEF Begin
  <2>6. overlap' \subseteq Tickets \X {"status", "deadline", "bin"}
    BY <1>0, <2>2, <2>3, OverlapTyped
  <2> QED
    BY <1>0, <2>2, <2>5, <2>6 DEF TypeOK
<1>9. CASE \E i \in Tickets : Create(k, i)
  <2>1. PICK i \in Tickets : Create(k, i)
    BY <1>9
  <2> DEFINE r == [row[i] EXCEPT !.place = "live", !.createdAt = now, !.dueDate = SlaDueDate(now, "medium")]
  <2>2. SlaDueDate(now, "medium") \in Deadline /\ now \in Times
    BY <1>0, DeadlineTyped DEF TypeOK
  <2>3. r \in Row
    BY <1>t, <2>2 DEF Row
  <2>4. row' = [row EXCEPT ![i] = r]
    BY <1>0, <2>1 DEF Create, TypeOK
  <2>5. row' \in [Tickets -> Row]
    BY <1>0, <2>3, <2>4, RowTyped
  <2> QED
    BY <1>0, <2>1, <2>5 DEF Create, TypeOK
<1>10. CASE \E i \in Tickets : SoftDelete(k, i)
  <2>1. PICK i \in Tickets : SoftDelete(k, i)
    BY <1>10
  <2>r. row[i] \in Row
    BY <1>t
  <2>2. row' \in [Tickets -> Row]
    BY <2>r, <1>0, <2>1 DEF SoftDelete, TypeOK, Row
  <2>3. overlap' \subseteq Tickets \X {"status", "deadline", "bin"}
    BY <1>0, <2>1, OverlapTyped DEF SoftDelete
  <2> QED
    BY <1>0, <2>1, <2>2, <2>3 DEF SoftDelete, TypeOK
<1>11. CASE \E i \in Tickets : Restore(k, i)
  <2>1. PICK i \in Tickets : Restore(k, i)
    BY <1>11
  <2>r. row[i] \in Row
    BY <1>t
  <2>2. row' \in [Tickets -> Row]
    BY <2>r, <1>0, <2>1 DEF Restore, TypeOK, Row
  <2> QED
    BY <1>0, <2>1, <2>2 DEF Restore, TypeOK
<1>12. CASE \E i \in Tickets : Purge(k, i)
  <2>1. PICK i \in Tickets : Purge(k, i)
    BY <1>12
  <2>2. [NoRow EXCEPT !.place = "gone"] \in Row
    BY DEF NoRow, Row, Deadline, Statuses, Times
  <2>3. row' \in [Tickets -> Row]
    BY <1>0, <2>1, <2>2, RowTyped DEF Purge
  <2>4. /\ NoMoves \in Moves /\ 0 \in Times
        /\ NoReplies \in [public : 0..MaxReplies, mailed : 0..MaxReplies]
    BY DEF NoMoves, NoReplies, Moves, Times
  <2> QED
    BY <1>0, <2>1, <2>3, <2>4 DEF Purge, TypeOK
<1>13. CASE BeginsStatus(k)
  <2>1. PICK i \in Tickets, s \in Statuses, note \in BOOLEAN : StatusRead(k, i, s, note)
    BY <1>13 DEF BeginsStatus
  <2>2. [Idle EXCEPT !.pc = "status", !.id = i, !.ask = s,
                     !.status = row[i].status, !.resolvedAt = row[i].resolvedAt] \in Task
    BY <1>t, IdleTyped DEF Task, Row
  <2>3. task' \in [Tasks -> Task]
    BY <1>0, <2>1, <2>2, TaskTyped DEF StatusRead, Begin
  <2>4. overlap' \subseteq Tickets \X {"status", "deadline", "bin"}
    BY <1>0, <2>1, OverlapTyped DEF StatusRead
  <2> QED
    BY <1>0, <2>1, <2>3, <2>4 DEF StatusRead, TypeOK
<1>14. CASE BeginsAssign(k)
  <2>1. PICK i \in Tickets, a \in Agents \union {None} : AssignRead(k, i, a)
    BY <1>14 DEF BeginsAssign
  <2>2. [Idle EXCEPT !.pc = "assign", !.id = i, !.ask = a] \in Task
    BY IdleTyped DEF Task
  <2>3. task' \in [Tasks -> Task]
    BY <1>0, <2>1, <2>2, TaskTyped DEF AssignRead, Begin
  <2> QED
    BY <1>0, <2>1, <2>3 DEF AssignRead, TypeOK
<1>15. CASE BeginsUpdate(k)
  <2>1. PICK i \in Tickets, p \in Priorities \union {None} : UpdateRead(k, i, p)
    BY <1>15 DEF BeginsUpdate
  <2>2. [Idle EXCEPT !.pc = "update", !.id = i, !.ask = p, !.priority = row[i].priority] \in Task
    BY <1>t, IdleTyped DEF Task, Row
  <2>3. task' \in [Tasks -> Task]
    BY <1>0, <2>1, <2>2, TaskTyped DEF UpdateRead, Begin
  <2>4. overlap' \subseteq Tickets \X {"status", "deadline", "bin"}
    BY <1>0, <2>1, OverlapTyped DEF UpdateRead
  <2> QED
    BY <1>0, <2>1, <2>3, <2>4 DEF UpdateRead, TypeOK
<1>16. CASE BeginsComment(k)
  <2>1. PICK i \in Tickets, kind \in {"internal", "public"} : CommentRead(k, i, kind)
    BY <1>16 DEF BeginsComment
  <2>2. [Idle EXCEPT !.pc = "comment", !.id = i, !.ask = kind] \in Task
    BY IdleTyped DEF Task
  <2>3. task' \in [Tasks -> Task]
    BY <1>0, <2>1, <2>2, TaskTyped DEF CommentRead, Begin
  <2> QED
    BY <1>0, <2>1, <2>3 DEF CommentRead, TypeOK
<1>17. CASE Recalculates(k)
  <2>1. PICK i \in Tickets, p \in Priorities : ScriptWrite(k, i, p) /\ Exists(i)
    BY <1>17 DEF Recalculates
  <2>r. row[i] \in Row
    BY <1>t
  <2>2. SlaDueDate(row[i].createdAt, p) \in Deadline
    BY <1>0, <1>t, DeadlineTyped DEF Row
  <2>3. row' \in [Tickets -> Row]
    <3>1. [row[i] EXCEPT !.dueDate = SlaDueDate(row[i].createdAt, p)] \in Row
      BY <2>r, <2>2 DEF Row
    <3>2. row' = [row EXCEPT ![i] = [row[i] EXCEPT !.dueDate = SlaDueDate(row[i].createdAt, p)]]
      BY <1>0, <2>1, <2>r DEF ScriptWrite, TypeOK
    <3> QED
      BY <1>0, <3>1, <3>2, RowTyped
  <2>4. task[k].batch \ {<<i, p>>} \in SUBSET (Tickets \X Priorities)
    BY <1>t DEF Task
  <2>5. task' \in [Tasks -> Task]
    <3>1. [task[k] EXCEPT !.batch = task[k].batch \ {<<i, p>>}] \in Task
      BY <1>t, <2>4 DEF Task
    <3>2. task' = [task EXCEPT ![k] = [task[k] EXCEPT !.batch = task[k].batch \ {<<i, p>>}]]
      BY <1>0, <1>t, <2>1 DEF ScriptWrite, TypeOK
    <3> QED
      BY <1>0, <3>1, <3>2, TaskTyped
  <2> QED
    BY <1>0, <2>1, <2>3, <2>5 DEF ScriptWrite, TypeOK
<1> QED
  BY <1>3, <1>4, <1>5, <1>6, <1>7, <1>8, <1>9, <1>10,
     <1>11, <1>12, <1>13, <1>14, <1>15, <1>16, <1>17 DEF Step


\* A ticket in hand was read, and tickets do not become absent again.
LEMMA InHandPreserved == DeskInv /\ TypeOK' /\ [Next]_vars => InHand'
<1> SUFFICES ASSUME DeskInv, TypeOK', [Next]_vars PROVE InHand'
  OBVIOUS
<1> USE DeskAssumption DEF DeskInv, TypeOK, tables, observers, InHand, Handling, Exists, Idle, NoRow
<1>1. CASE UNCHANGED vars
  BY <1>1 DEF vars
<1>2. CASE Deploy \/ Tick
  BY <1>2 DEF Deploy, Tick
<1> SUFFICES ASSUME NEW k \in Tasks, Step(k) PROVE InHand'
  BY <1>1, <1>2, StepOfNext
<1>3. CASE StatusCommit(k)
  <2> HIDE DEF TypeOK
  <2> QED
    BY <1>3, StatusEffect DEF Moved, Done, Stamp
<1>4. CASE AssignCommit(k)
  BY <1>4 DEF AssignCommit, Return
<1>5. CASE UpdateCommit(k)
  <2> HIDE DEF TypeOK
  <2> QED
    BY <1>5, UpdateEffect DEF Updated, Done
<1>6. CASE CommentCommit(k)
  BY <1>6, CommentEffect DEF Commented, Done
<1>7. CASE Ends(k)
  BY <1>7 DEF Ends, Return
<1>8. CASE ScriptRead(k)
  BY <1>8 DEF ScriptRead, Begin, NoteOverlap
<1>9. CASE \E i \in Tickets : Create(k, i)
  BY <1>9 DEF Create, SlaDueDate
<1>10. CASE \E i \in Tickets : SoftDelete(k, i)
  BY <1>10 DEF SoftDelete, NoteOverlap
<1>11. CASE \E i \in Tickets : Restore(k, i)
  BY <1>11 DEF Restore
<1>12. CASE \E i \in Tickets : Purge(k, i)
  BY <1>12 DEF Purge
<1>13. CASE BeginsStatus(k)
  BY <1>13 DEF BeginsStatus, StatusRead, Begin, NoteOverlap
<1>14. CASE BeginsAssign(k)
  BY <1>14 DEF BeginsAssign, AssignRead, Begin
<1>15. CASE BeginsUpdate(k)
  BY <1>15 DEF BeginsUpdate, UpdateRead, Begin, NoteOverlap
<1>16. CASE BeginsComment(k)
  BY <1>16 DEF BeginsComment, CommentRead, Begin
<1>17. CASE Recalculates(k)
  <2>1. PICK i \in Tickets, p \in Priorities : ScriptWrite(k, i, p) /\ Exists(i)
    BY <1>17 DEF Recalculates
  <2>2. Turned(k, i, p)
    BY <2>1, TurnEffect
  <2> HIDE DEF TypeOK
  <2> SUFFICES ASSUME NEW l \in Tasks
               PROVE  /\ Handling(l)' => task'[l].id \in Tickets /\ row'[task'[l].id].place # "absent"
                      /\ task'[l].pc = "script" =>
                           \A j \in Tickets, q \in Priorities :
                             <<j, q>> \in task'[l].batch => row'[j].place # "absent"
    OBVIOUS
  <2>3. /\ \A j \in Tickets : row'[j].place = row[j].place
        /\ task'[l].pc = task[l].pc /\ task'[l].id = task[l].id /\ task'[l].batch \subseteq task[l].batch
    BY <2>2 DEF Turned
  <2> QED
    BY <2>3
<1> QED
  BY <1>3, <1>4, <1>5, <1>6, <1>7, <1>8, <1>9, <1>10,
     <1>11, <1>12, <1>13, <1>14, <1>15, <1>16, <1>17 DEF Step

\* What a handler reads is consistent, and it keeps what it was asked.
LEMMA AskFitsPreserved == DeskInv /\ TypeOK' /\ [Next]_vars => AskFits'
<1> SUFFICES ASSUME DeskInv, TypeOK', [Next]_vars PROVE AskFits'
  OBVIOUS
<1> USE DeskAssumption DEF DeskInv, TypeOK, tables, observers, AskFits, ClosedIsStamped, Exists,
                           Idle
<1>1. CASE UNCHANGED vars
  BY <1>1 DEF vars
<1>2. CASE Deploy \/ Tick
  BY <1>2 DEF Deploy, Tick
<1> SUFFICES ASSUME NEW k \in Tasks, Step(k) PROVE AskFits'
  BY <1>1, <1>2, StepOfNext
<1>3. CASE StatusCommit(k)
  <2>1. PICK i \in Tickets : Moved(k, i)
    BY <1>3, StatusEffect DEF InHand, Handling
  <2> QED
    BY ONLY AskFits, <2>1 DEF AskFits, Moved, Done, Idle
<1>4. CASE AssignCommit(k)
  BY <1>4 DEF AssignCommit, Return
<1>5. CASE UpdateCommit(k)
  BY <1>5, UpdateEffect DEF Updated, Done
<1>6. CASE CommentCommit(k)
  BY <1>6, CommentEffect DEF Commented, Done
<1>7. CASE Ends(k)
  BY <1>7 DEF Ends, Return
<1>8. CASE ScriptRead(k)
  BY <1>8 DEF ScriptRead, Begin, NoteOverlap
<1>9. CASE \E i \in Tickets : Create(k, i)
  BY <1>9 DEF Create, SlaDueDate
<1>10. CASE \E i \in Tickets : SoftDelete(k, i)
  BY <1>10 DEF SoftDelete, NoteOverlap
<1>11. CASE \E i \in Tickets : Restore(k, i)
  BY <1>11 DEF Restore
<1>12. CASE \E i \in Tickets : Purge(k, i)
  BY <1>12 DEF Purge
<1>13. CASE BeginsStatus(k)
  BY <1>13 DEF BeginsStatus, StatusRead, Begin, NoteOverlap
<1>14. CASE BeginsAssign(k)
  BY <1>14 DEF BeginsAssign, AssignRead, Begin
<1>15. CASE BeginsUpdate(k)
  BY <1>15 DEF BeginsUpdate, UpdateRead, Begin, NoteOverlap
<1>16. CASE BeginsComment(k)
  BY <1>16 DEF BeginsComment, CommentRead, Begin
<1>17. CASE Recalculates(k)
  <2>1. PICK i \in Tickets, p \in Priorities : ScriptWrite(k, i, p) /\ Exists(i)
    BY <1>17 DEF Recalculates
  <2>2. Turned(k, i, p)
    BY <2>1, TurnEffect
  <2> QED
    BY <2>2 DEF Turned
<1> QED
  BY <1>3, <1>4, <1>5, <1>6, <1>7, <1>8, <1>9, <1>10,
     <1>11, <1>12, <1>13, <1>14, <1>15, <1>16, <1>17 DEF Step

\* OneWriter of the next state, spelled out.
LEMMA OneWriterNext ==
  ASSUME \A l, m \in Tasks, i \in Tickets, f \in {"status", "deadline"} :
           WorksOn(l, i, f)' /\ WorksOn(m, i, f)' /\ <<i, f>> \notin overlap' => l = m
  PROVE  OneWriter'
  BY Zenon DEF OneWriter

\* A step after which a task is at a field only if it was before, or if it marked the
\* overlap with everybody else at that field, keeps one writer per field.
LEMMA OneWriterKept ==
  ASSUME OneWriter, NEW w \in Tasks, overlap \subseteq overlap',
         \A l \in Tasks, i \in Tickets, f \in {"status", "deadline"} :
           WorksOn(l, i, f)' =>
             \/ WorksOn(l, i, f)
             \/ l = w /\ \A m \in Tasks \ {w} : WorksOn(m, i, f) => <<i, f>> \in overlap'
  PROVE  OneWriter'
<1> SUFFICES ASSUME NEW l \in Tasks, NEW m \in Tasks, NEW i \in Tickets,
                    NEW f \in {"status", "deadline"},
                    WorksOn(l, i, f)', WorksOn(m, i, f)', <<i, f>> \notin overlap'
             PROVE  l = m
  BY OneWriterNext, Zenon
<1>1. <<i, f>> \notin overlap
  OBVIOUS
<1>2. WorksOn(l, i, f) \/ (l = w /\ \A n \in Tasks \ {w} : ~WorksOn(n, i, f))
  BY Zenon
<1>3. WorksOn(m, i, f) \/ (m = w /\ \A n \in Tasks \ {w} : ~WorksOn(n, i, f))
  BY Zenon
<1>4. WorksOn(m, i, f) /\ WorksOn(l, i, f) => l = m
  BY <1>1, Zenon DEF OneWriter
<1> QED
  BY <1>2, <1>3, <1>4, Zenon

\* Marking an overlap: whoever else works on the field of the ticket shares it.
LEMMA Marks ==
  ASSUME NEW k, NEW ids, NEW f, NoteOverlap(k, ids, f)
  PROVE  /\ overlap \subseteq overlap'
         /\ \A i \in ids, m \in Tasks \ {k} : WorksOn(m, i, f) => <<i, f>> \in overlap'
         /\ \A i, g : <<i, g>> \in overlap' => <<i, g>> \in overlap \/ g = f
  BY DEF NoteOverlap

\* Whoever begins on a field another task works on marks the overlap.
LEMMA OneWriterPreserved == DeskInv /\ TypeOK' /\ [Next]_vars => OneWriter'
<1> SUFFICES ASSUME DeskInv, TypeOK', [Next]_vars PROVE OneWriter'
  OBVIOUS
<1> USE DEF observers
<1>0. TypeOK /\ OneWriter
  BY DEF DeskInv
<1>1. CASE UNCHANGED <<task, overlap>>
  <2>1. \A l \in Tasks, i \in Tickets, f \in {"status", "deadline"} : WorksOn(l, i, f)' => WorksOn(l, i, f)
    BY <1>1 DEF WorksOn
  <2> QED
    <3> SUFFICES ASSUME NEW l \in Tasks, NEW m \in Tasks, NEW i \in Tickets,
                        NEW f \in {"status", "deadline"},
                        WorksOn(l, i, f)', WorksOn(m, i, f)', <<i, f>> \notin overlap'
                 PROVE  l = m
      BY OneWriterNext, Zenon
    <3>1. WorksOn(l, i, f) /\ WorksOn(m, i, f) /\ <<i, f>> \notin overlap
      BY <1>1, <2>1
    <3> QED
      BY <1>0, <3>1, Zenon DEF OneWriter
<1>2. CASE UNCHANGED vars \/ Deploy \/ Tick
  BY <1>1, <1>2 DEF vars, Deploy, Tick
<1> SUFFICES ASSUME NEW k \in Tasks, Step(k) PROVE OneWriter'
  BY <1>2, StepOfNext
<1>3. CASE Return(k) /\ UNCHANGED overlap
  <2>1. task'[k].pc = "idle" /\ \A l \in Tasks : l # k => task'[l] = task[l]
    BY <1>0, <1>3 DEF Return, Idle, TypeOK
  <2>2. ASSUME NEW l \in Tasks, NEW i \in Tickets, NEW f \in {"status", "deadline"},
               WorksOn(l, i, f)'
        PROVE  WorksOn(l, i, f)
    BY <2>1, <2>2 DEF WorksOn
  <2> QED
    BY <1>0, <1>3, <2>2, OneWriterKept
<1>4. CASE StatusCommit(k) \/ AssignCommit(k) \/ UpdateCommit(k) \/ CommentCommit(k) \/ Ends(k)
  BY <1>3, <1>4 DEF StatusCommit, StatusWrite, AssignCommit, UpdateCommit, UpdateWrite,
                    CommentCommit, CommentWrite, Ends
<1>5. CASE \E i \in Tickets : Create(k, i) \/ Restore(k, i) \/ Purge(k, i)
  <2>1. CASE \E i \in Tickets : Create(k, i) \/ Purge(k, i)
    BY <1>1, <2>1 DEF Create, Purge
  <2>2. CASE \E i \in Tickets : Restore(k, i)
    <3>1. task' = task /\ \A j, f : f # "bin" /\ <<j, f>> \in overlap => <<j, f>> \in overlap'
      BY <2>2 DEF Restore
    <3> SUFFICES ASSUME NEW l \in Tasks, NEW m \in Tasks, NEW i \in Tickets,
                        NEW f \in {"status", "deadline"},
                        WorksOn(l, i, f)', WorksOn(m, i, f)', <<i, f>> \notin overlap'
                 PROVE  l = m
      BY OneWriterNext, Zenon
    <3>2. WorksOn(l, i, f) /\ WorksOn(m, i, f) /\ <<i, f>> \notin overlap
      BY <3>1 DEF WorksOn
    <3> QED
      BY <1>0, <3>2, Zenon DEF OneWriter
  <2> QED
    BY <1>5, <2>1, <2>2
<1>6. CASE \E i \in Tickets : SoftDelete(k, i)
  <2>1. task' = task /\ overlap \subseteq overlap'
    BY <1>6, Marks DEF SoftDelete
  <2> QED
    BY <1>0, <2>1, OneWriterKept DEF WorksOn
<1>7. CASE ScriptRead(k)
  <2>1. PICK stale \in SUBSET Tickets :
          /\ Begin(k, [Idle EXCEPT !.pc = "script", !.batch = {<<i, row[i].priority>> : i \in stale}])
          /\ NoteOverlap(k, stale, "deadline")
    BY <1>7 DEF ScriptRead
  <2>2. /\ task'[k].pc = "script" /\ task'[k].batch = {<<i, row[i].priority>> : i \in stale}
        /\ \A l \in Tasks : l # k => task'[l] = task[l]
    BY <1>0, <2>1 DEF Begin, Idle, TypeOK
  <2>3. ASSUME NEW l \in Tasks, NEW i \in Tickets, NEW f \in {"status", "deadline"},
               WorksOn(l, i, f)', l = k
        PROVE  i \in stale /\ f = "deadline"
    BY <2>2, <2>3 DEF WorksOn
  <2>4. ASSUME NEW l \in Tasks, NEW i \in Tickets, NEW f \in {"status", "deadline"},
               WorksOn(l, i, f)', l # k
        PROVE  WorksOn(l, i, f)
    BY <2>2, <2>4 DEF WorksOn
  <2> QED
    BY <1>0, <2>1, <2>3, <2>4, Marks, OneWriterKept
<1>8. CASE BeginsStatus(k)
  <2>1. PICK i \in Tickets, s \in Statuses, note \in BOOLEAN : StatusRead(k, i, s, note)
    BY <1>8 DEF BeginsStatus
  <2>2. /\ task'[k].pc = "status" /\ task'[k].id = i
        /\ \A l \in Tasks : l # k => task'[l] = task[l]
    BY <1>0, <2>1 DEF StatusRead, Begin, Idle, TypeOK
  <2>3. ASSUME NEW j \in Tickets, NEW f \in {"status", "deadline"}, WorksOn(k, j, f)'
        PROVE  j = i /\ f = "status"
    BY <2>2, <2>3 DEF WorksOn
  <2>4. ASSUME NEW l \in Tasks, NEW j \in Tickets, NEW f \in {"status", "deadline"},
               WorksOn(l, j, f)', l # k
        PROVE  WorksOn(l, j, f)
    BY <2>2, <2>4 DEF WorksOn
  <2>5. NoteOverlap(k, {i}, "status")
    BY <2>1 DEF StatusRead
  <2> QED
    BY <1>0, <2>3, <2>4, <2>5, Marks, OneWriterKept
<1>9. CASE BeginsUpdate(k)
  <2>1. PICK i \in Tickets, p \in Priorities \union {None} : UpdateRead(k, i, p)
    BY <1>9 DEF BeginsUpdate
  <2>2. /\ task'[k].pc = "update" /\ task'[k].id = i
        /\ \A l \in Tasks : l # k => task'[l] = task[l]
    BY <1>0, <2>1 DEF UpdateRead, Begin, Idle, TypeOK
  <2>3. ASSUME NEW j \in Tickets, NEW f \in {"status", "deadline"}, WorksOn(k, j, f)'
        PROVE  j = i /\ f = "deadline"
    BY <2>2, <2>3 DEF WorksOn
  <2>4. ASSUME NEW l \in Tasks, NEW j \in Tickets, NEW f \in {"status", "deadline"},
               WorksOn(l, j, f)', l # k
        PROVE  WorksOn(l, j, f)
    BY <2>2, <2>4 DEF WorksOn
  <2>5. NoteOverlap(k, {i}, "deadline")
    BY <2>1 DEF UpdateRead
  <2> QED
    BY <1>0, <2>3, <2>4, <2>5, Marks, OneWriterKept
<1>10. CASE BeginsAssign(k) \/ BeginsComment(k)
  <2>1. /\ task'[k].pc \in {"assign", "comment"} /\ overlap' = overlap
        /\ \A l \in Tasks : l # k => task'[l] = task[l]
    BY <1>0, <1>10, ZenonT(60) DEF BeginsAssign, AssignRead, BeginsComment, CommentRead, Begin, Idle, TypeOK
  <2>2. ASSUME NEW l \in Tasks, NEW i \in Tickets, NEW f \in {"status", "deadline"},
               WorksOn(l, i, f)'
        PROVE  WorksOn(l, i, f)
    BY <2>1, <2>2 DEF WorksOn
  <2> QED
    BY <1>0, <2>1, <2>2, OneWriterKept
<1>11. CASE Recalculates(k)
  <2>1. PICK i \in Tickets, p \in Priorities : ScriptWrite(k, i, p) /\ Exists(i)
    BY <1>11 DEF Recalculates
  <2>2. /\ \A l \in Tasks : /\ task'[l].pc = task[l].pc /\ task'[l].id = task[l].id
                            /\ task'[l].batch \subseteq task[l].batch
        /\ overlap' = overlap
    BY <1>0, <2>1, TurnEffect DEF Turned
  <2>3. ASSUME NEW l \in Tasks, NEW j \in Tickets, NEW f \in {"status", "deadline"},
               WorksOn(l, j, f)'
        PROVE  WorksOn(l, j, f)
    BY <2>2, <2>3 DEF WorksOn
  <2> QED
    BY <1>0, <2>2, <2>3, OneWriterKept
<1> QED
  BY <1>4, <1>5, <1>6, <1>7, <1>8, <1>9, <1>10, <1>11 DEF Step


\* Only a status change writes the status or the stamp.
LEMMA StatusStandsPreserved == DeskInv /\ TypeOK' /\ [Next]_vars => StatusStands'
<1> SUFFICES ASSUME DeskInv, TypeOK', [Next]_vars PROVE StatusStands'
  OBVIOUS
<1> USE DeskAssumption DEF DeskInv, TypeOK, tables, observers, StatusStands, OneWriter, WorksOn,
                           InHand, Handling, Exists, Idle, NoRow
<1>1. CASE UNCHANGED vars
  BY <1>1 DEF vars
<1>2. CASE Deploy \/ Tick
  BY <1>2 DEF Deploy, Tick
<1> SUFFICES ASSUME NEW k \in Tasks, Step(k) PROVE StatusStands'
  BY <1>1, <1>2, StepOfNext
<1>3. CASE StatusCommit(k)
  <2> DEFINE j == task[k].id
  <2>1. /\ j \in Tickets /\ task[k].pc = "status" /\ task'[k].pc = "idle"
        /\ \A l \in Tasks : l # k => task'[l] = task[l]
        /\ \A i \in Tickets : i # j => row'[i] = row[i]
        /\ overlap' = overlap
    BY <1>3 DEF StatusCommit, StatusWrite, Return
  <2> HIDE DEF TypeOK
  <2> SUFFICES ASSUME NEW l \in Tasks, NEW i \in Tickets, task'[l].pc = "status", task'[l].id = i,
                      <<i, "status">> \notin overlap', Exists(i)'
               PROVE  task'[l].status = row'[i].status /\ task'[l].resolvedAt = row'[i].resolvedAt
    OBVIOUS
  <2>2. l # k /\ WorksOn(l, i, "status") /\ task'[l] = task[l]
    BY <2>1
  <2>3. i # j
    <3>1. i = j => WorksOn(k, i, "status")
      BY <2>1
    <3> QED
      BY <2>1, <2>2, <3>1, Zenon DEF OneWriter
  <2> QED
    BY <2>1, <2>2, <2>3
<1>4. CASE AssignCommit(k)
  BY <1>4 DEF AssignCommit, Return
<1>5. CASE UpdateCommit(k)
  <2> HIDE DEF TypeOK
  <2> QED
    BY <1>5, UpdateEffect DEF Updated, Done
<1>6. CASE CommentCommit(k)
  BY <1>6, CommentEffect DEF Commented, Done
<1>7. CASE Ends(k)
  BY <1>7 DEF Ends, Return
<1>8. CASE ScriptRead(k)
  BY <1>8 DEF ScriptRead, Begin, NoteOverlap
<1>9. CASE \E i \in Tickets : Create(k, i)
  BY <1>9 DEF Create, SlaDueDate
<1>10. CASE \E i \in Tickets : SoftDelete(k, i)
  BY <1>10 DEF SoftDelete, NoteOverlap
<1>11. CASE \E i \in Tickets : Restore(k, i)
  BY <1>11 DEF Restore
<1>12. CASE \E i \in Tickets : Purge(k, i)
  BY <1>12 DEF Purge
<1>13. CASE BeginsStatus(k)
  BY <1>13 DEF BeginsStatus, StatusRead, Begin, NoteOverlap
<1>14. CASE BeginsAssign(k)
  BY <1>14 DEF BeginsAssign, AssignRead, Begin
<1>15. CASE BeginsUpdate(k)
  BY <1>15 DEF BeginsUpdate, UpdateRead, Begin, NoteOverlap
<1>16. CASE BeginsComment(k)
  BY <1>16 DEF BeginsComment, CommentRead, Begin
<1>17. CASE Recalculates(k)
  <2>1. PICK i \in Tickets, p \in Priorities : ScriptWrite(k, i, p) /\ Exists(i)
    BY <1>17 DEF Recalculates
  <2>2. Turned(k, i, p)
    BY <2>1, TurnEffect
  <2> HIDE DEF TypeOK
  <2> SUFFICES ASSUME NEW l \in Tasks, NEW j \in Tickets, task'[l].pc = "status", task'[l].id = j,
                      <<j, "status">> \notin overlap', Exists(j)'
               PROVE  task'[l].status = row'[j].status /\ task'[l].resolvedAt = row'[j].resolvedAt
    OBVIOUS
  <2>3. /\ row'[j].place = row[j].place /\ row'[j].status = row[j].status
        /\ row'[j].resolvedAt = row[j].resolvedAt
        /\ task'[l].pc = task[l].pc /\ task'[l].id = task[l].id
        /\ task'[l].status = task[l].status /\ task'[l].resolvedAt = task[l].resolvedAt
        /\ overlap' = overlap
    BY <2>2 DEF Turned
  <2> QED
    BY <2>3
<1> QED
  BY <1>3, <1>4, <1>5, <1>6, <1>7, <1>8, <1>9, <1>10,
     <1>11, <1>12, <1>13, <1>14, <1>15, <1>16, <1>17 DEF Step

\* Only an update writes the priority.
LEMMA PriorityStandsPreserved == DeskInv /\ TypeOK' /\ [Next]_vars => PriorityStands'
<1> SUFFICES ASSUME DeskInv, TypeOK', [Next]_vars PROVE PriorityStands'
  OBVIOUS
<1> USE DeskAssumption DEF DeskInv, TypeOK, tables, observers, PriorityStands, OneWriter, WorksOn,
                           InHand, Handling, Exists, Idle, NoRow
<1>1. CASE UNCHANGED vars
  BY <1>1 DEF vars
<1>2. CASE Deploy \/ Tick
  BY <1>2 DEF Deploy, Tick
<1> SUFFICES ASSUME NEW k \in Tasks, Step(k) PROVE PriorityStands'
  BY <1>1, <1>2, StepOfNext
<1>3. CASE StatusCommit(k)
  <2>1. PICK i \in Tickets : Moved(k, i)
    BY <1>3, StatusEffect DEF InHand, Handling
  <2> QED
    BY ONLY PriorityStands, <2>1 DEF PriorityStands, Moved, Done, Idle, Exists
<1>4. CASE AssignCommit(k)
  BY <1>4 DEF AssignCommit, Return
<1>5. CASE UpdateCommit(k)
  <2> DEFINE j == task[k].id
  <2>1. /\ j \in Tickets /\ task[k].pc = "update" /\ task'[k].pc = "idle"
        /\ \A l \in Tasks : l # k => task'[l] = task[l]
        /\ \A i \in Tickets : i # j => row'[i] = row[i]
        /\ overlap' = overlap
    BY <1>5 DEF UpdateCommit, UpdateWrite, Return
  <2> HIDE DEF TypeOK
  <2> SUFFICES ASSUME NEW l \in Tasks, NEW i \in Tickets, <<i, "deadline">> \notin overlap',
                      Exists(i)'
               PROVE  /\ task'[l].pc = "update" /\ task'[l].id = i => task'[l].priority = row'[i].priority
                      /\ task'[l].pc = "script" =>
                           \A p \in Priorities : <<i, p>> \in task'[l].batch => p = row'[i].priority
    OBVIOUS
  <2>2. CASE l = k
    BY <2>1, <2>2
  <2>3. CASE l # k /\ i # j
    BY <2>1, <2>3
  <2>4. CASE l # k /\ i = j
    <3>1. WorksOn(k, i, "deadline")
      BY <2>1, <2>4
    <3>2. ~WorksOn(l, i, "deadline")
      BY <2>1, <2>4, <3>1, Zenon DEF OneWriter
    <3> QED
      BY <2>1, <2>4, <3>2
  <2> QED
    BY <2>2, <2>3, <2>4
<1>6. CASE CommentCommit(k)
  BY <1>6, CommentEffect DEF Commented, Done
<1>7. CASE Ends(k)
  BY <1>7 DEF Ends, Return
<1>8. CASE ScriptRead(k)
  BY <1>8 DEF ScriptRead, Begin, NoteOverlap
<1>9. CASE \E i \in Tickets : Create(k, i)
  BY <1>9 DEF Create, SlaDueDate
<1>10. CASE \E i \in Tickets : SoftDelete(k, i)
  BY <1>10 DEF SoftDelete, NoteOverlap
<1>11. CASE \E i \in Tickets : Restore(k, i)
  BY <1>11 DEF Restore
<1>12. CASE \E i \in Tickets : Purge(k, i)
  BY <1>12 DEF Purge
<1>13. CASE BeginsStatus(k)
  BY <1>13 DEF BeginsStatus, StatusRead, Begin, NoteOverlap
<1>14. CASE BeginsAssign(k)
  BY <1>14 DEF BeginsAssign, AssignRead, Begin
<1>15. CASE BeginsUpdate(k)
  BY <1>15 DEF BeginsUpdate, UpdateRead, Begin, NoteOverlap
<1>16. CASE BeginsComment(k)
  BY <1>16 DEF BeginsComment, CommentRead, Begin
<1>17. CASE Recalculates(k)
  <2>1. PICK i \in Tickets, p \in Priorities : ScriptWrite(k, i, p) /\ Exists(i)
    BY <1>17 DEF Recalculates
  <2>2. Turned(k, i, p)
    BY <2>1, TurnEffect
  <2> HIDE DEF TypeOK
  <2> SUFFICES ASSUME NEW l \in Tasks, NEW j \in Tickets, <<j, "deadline">> \notin overlap',
                      Exists(j)'
               PROVE  /\ task'[l].pc = "update" /\ task'[l].id = j => task'[l].priority = row'[j].priority
                      /\ task'[l].pc = "script" =>
                           \A q \in Priorities : <<j, q>> \in task'[l].batch => q = row'[j].priority
    OBVIOUS
  <2>3. /\ row'[j].place = row[j].place /\ row'[j].priority = row[j].priority
        /\ task'[l].pc = task[l].pc /\ task'[l].id = task[l].id
        /\ task'[l].priority = task[l].priority /\ task'[l].batch \subseteq task[l].batch
        /\ overlap' = overlap
    BY <2>2 DEF Turned
  <2> QED
    BY <2>3
<1> QED
  BY <1>3, <1>4, <1>5, <1>6, <1>7, <1>8, <1>9, <1>10,
     <1>11, <1>12, <1>13, <1>14, <1>15, <1>16, <1>17 DEF Step

\* A step that neither deletes a ticket nor takes one in the bin in hand leaves the bin
\* alone.
LEMMA BinKept ==
  ASSUME BinIsLeft,
         \A l \in Tasks, j \in Tickets :
           row'[j].place = "bin" /\ <<j, "bin">> \notin overlap' /\ AtHand(l, j)' =>
             row[j].place = "bin" /\ <<j, "bin">> \notin overlap /\ AtHand(l, j)
  PROVE  BinIsLeft'
  BY DEF BinIsLeft

\* Only live tickets are taken in hand, assignments apart.
LEMMA BinIsLeftPreserved == DeskInv /\ TypeOK' /\ [Next]_vars => BinIsLeft'
<1> SUFFICES ASSUME DeskInv, TypeOK', [Next]_vars,
                    NEW l \in Tasks, NEW j \in Tickets, row'[j].place = "bin",
                    <<j, "bin">> \notin overlap', AtHand(l, j)'
             PROVE  row[j].place = "bin" /\ <<j, "bin">> \notin overlap /\ AtHand(l, j)
  BY BinKept DEF DeskInv
<1>0. TypeOK /\ InHand
  BY DEF DeskInv
<1>a. CASE UNCHANGED <<row, overlap, task>>
  BY <1>a DEF AtHand
<1>1. CASE UNCHANGED vars \/ Deploy \/ Tick
  BY <1>1, <1>a DEF vars, tables, observers, Deploy, Tick
<1> SUFFICES ASSUME NEW k \in Tasks, Step(k)
             PROVE  row[j].place = "bin" /\ <<j, "bin">> \notin overlap /\ AtHand(l, j)
  BY <1>1, StepOfNext
<1>b. CASE row'[j].place = row[j].place /\ overlap' = overlap /\ Done(k)
  <2>1. Idle.pc = "idle"
    BY DEF Idle
  <2>2. l # k
    BY <1>b, <2>1 DEF AtHand, Done
  <2>3. task'[l] = task[l]
    BY <1>b, <2>2 DEF Done
  <2> QED
    BY <1>b, <2>3 DEF AtHand
<1>2. CASE StatusCommit(k)
  <2>1. PICK i \in Tickets : Moved(k, i)
    BY <1>0, <1>2, StatusEffect
  <2> QED
    BY <1>b, <2>1 DEF Moved
<1>3. CASE AssignCommit(k)
  <2>1. row'[j].place = row[j].place
    BY <1>0, <1>3 DEF AssignCommit, TypeOK, Row
  <2> QED
    BY <1>0, <1>3, <1>b, <2>1, DoneBy DEF AssignCommit, observers
<1>4. CASE UpdateCommit(k)
  <2>1. PICK i \in Tickets : Updated(k, i)
    BY <1>0, <1>4, UpdateEffect
  <2> QED
    BY <1>b, <2>1 DEF Updated
<1>5. CASE CommentCommit(k)
  BY <1>0, <1>5, <1>b, CommentEffect DEF Commented
<1>6. CASE Ends(k)
  BY <1>0, <1>6, <1>b, DoneBy DEF Ends, tables, observers
<1>7. CASE ScriptRead(k)
  <2>1. PICK stale \in SUBSET Tickets :
          /\ \A i \in stale : row[i].place = "live"
          /\ Begin(k, [Idle EXCEPT !.pc = "script", !.batch = {<<i, row[i].priority>> : i \in stale}])
          /\ NoteOverlap(k, stale, "deadline") /\ row' = row
    BY <1>7 DEF ScriptRead, tables
  <2>2. <<j, "bin">> \notin overlap
    BY <2>1, Marks
  <2>3. /\ task'[k].pc = "script" /\ task'[k].batch = {<<i, row[i].priority>> : i \in stale}
        /\ l # k => task'[l] = task[l]
    BY <1>0, <2>1 DEF Begin, Idle, TypeOK
  <2>4. ASSUME l = k PROVE FALSE
    <3>1. PICK p \in Priorities : <<j, p>> \in task'[k].batch
      BY <2>3, <2>4 DEF AtHand
    <3>2. j \in stale
      BY <2>3, <3>1
    <3> QED
      BY <2>1, <3>2
  <2> QED
    BY <2>1, <2>2, <2>3, <2>4 DEF AtHand
<1>8. CASE \E i \in Tickets : Create(k, i) \/ Purge(k, i)
  <2>1. PICK i \in Tickets : Create(k, i) \/ Purge(k, i)
    BY <1>8
  <2>2. task' = task /\ overlap' = overlap
    BY <2>1 DEF Create, Purge, observers
  <2>3. row'[j].place = row[j].place
    <3>1. CASE Create(k, i)
      BY <1>0, <3>1 DEF Create, TypeOK, Row
    <3>2. CASE Purge(k, i)
      BY <1>0, <3>2 DEF Purge, TypeOK, NoRow
    <3> QED
      BY <2>1, <3>1, <3>2
  <2> QED
    BY <2>2, <2>3 DEF AtHand
<1>9. CASE \E i \in Tickets : SoftDelete(k, i)
  <2>1. PICK i \in Tickets : SoftDelete(k, i)
    BY <1>9
  <2>2. task' = task /\ task[k].pc = "idle" /\ NoteOverlap(k, {i}, "bin")
        /\ row' = [row EXCEPT ![i].place = "bin"]
    BY <2>1 DEF SoftDelete
  <2>3. AtHand(l, j) /\ l # k
    BY <2>2 DEF AtHand
  <2>4. WorksOn(l, j, "bin")
    BY <2>3 DEF AtHand, WorksOn
  <2>5. j # i /\ <<j, "bin">> \notin overlap
    BY <2>2, <2>3, <2>4, Marks
  <2> QED
    BY <1>0, <2>2, <2>3, <2>5 DEF TypeOK
<1>10. CASE \E i \in Tickets : Restore(k, i)
  <2>1. PICK i \in Tickets : Restore(k, i)
    BY <1>10
  <2>2. task' = task /\ row' = [row EXCEPT ![i].place = "live"]
        /\ overlap' = overlap \ {<<i, "bin">>}
    BY <2>1 DEF Restore
  <2>3. j # i
    BY <1>0, <2>2 DEF TypeOK, Row
  <2> QED
    BY <1>0, <2>2, <2>3 DEF AtHand, TypeOK
<1>11. CASE BeginsStatus(k) \/ BeginsUpdate(k) \/ BeginsComment(k)
  <2>1. PICK i \in Tickets, f \in {"status", "deadline"} :
          /\ row[i].place = "live" /\ row' = row
          /\ NoteOverlap(k, {i}, f) \/ overlap' = overlap
          /\ task'[k].pc \in {"status", "update", "comment"} /\ task'[k].id = i
          /\ l # k => task'[l] = task[l]
    <3>1. CASE BeginsStatus(k)
      BY <1>0, <3>1, ZenonT(40) DEF BeginsStatus, StatusRead, Begin, Idle, TypeOK, tables
    <3>2. CASE BeginsUpdate(k)
      BY <1>0, <3>2, ZenonT(40) DEF BeginsUpdate, UpdateRead, Begin, Idle, TypeOK, tables
    <3>3. CASE BeginsComment(k)
      BY <1>0, <3>3 DEF BeginsComment, CommentRead, Begin, Idle, TypeOK, tables, observers
    <3> QED
      BY <1>11, <3>1, <3>2, <3>3
  <2>2. <<j, "bin">> \notin overlap
    BY <2>1, Marks
  <2> QED
    BY <2>1, <2>2 DEF AtHand
<1>12. CASE BeginsAssign(k)
  <2>1. /\ task'[k].pc = "assign" /\ overlap' = overlap /\ row' = row
        /\ l # k => task'[l] = task[l]
    BY <1>0, <1>12, ZenonT(60) DEF BeginsAssign, AssignRead, Begin, Idle, TypeOK, tables, observers
  <2> QED
    BY <2>1 DEF AtHand
<1>13. CASE Recalculates(k)
  <2>1. PICK i \in Tickets, p \in Priorities : ScriptWrite(k, i, p) /\ Exists(i)
    BY <1>13 DEF Recalculates
  <2>2. Turned(k, i, p)
    BY <1>0, <2>1, TurnEffect
  <2> QED
    BY <2>2 DEF Turned, AtHand
<1> QED
  BY <1>2, <1>3, <1>4, <1>5, <1>6, <1>7, <1>8, <1>9, <1>10, <1>11, <1>12, <1>13 DEF Step

\* Only a creation changes a ticket that does not exist.
LEMMA UnbornPreserved == DeskInv /\ TypeOK' /\ [Next]_vars => Unborn'
<1> SUFFICES ASSUME DeskInv, TypeOK', [Next]_vars PROVE Unborn'
  OBVIOUS
<1> USE DeskAssumption DEF DeskInv, TypeOK, tables, observers, Unborn, InHand, Handling, Exists,
                           Idle, NoRow
<1>1. CASE UNCHANGED vars
  BY <1>1 DEF vars
<1>2. CASE Deploy \/ Tick
  BY <1>2 DEF Deploy, Tick
<1> SUFFICES ASSUME NEW k \in Tasks, Step(k) PROVE Unborn'
  BY <1>1, <1>2, StepOfNext
<1>3. CASE StatusCommit(k)
  BY <1>3 DEF StatusCommit, StatusWrite, Return, Another, Stamp
<1>4. CASE AssignCommit(k)
  BY <1>4 DEF AssignCommit, Return
<1>5. CASE UpdateCommit(k)
  BY <1>5, UpdateEffect DEF Updated, Done
<1>6. CASE CommentCommit(k)
  BY <1>6, SMTT(30) DEF CommentCommit, CommentWrite, Return
<1>7. CASE Ends(k)
  BY <1>7 DEF Ends, Return
<1>8. CASE ScriptRead(k)
  BY <1>8 DEF ScriptRead, Begin, NoteOverlap
<1>9. CASE \E i \in Tickets : Create(k, i)
  BY <1>9 DEF Create, SlaDueDate
<1>10. CASE \E i \in Tickets : SoftDelete(k, i)
  BY <1>10 DEF SoftDelete, NoteOverlap
<1>11. CASE \E i \in Tickets : Restore(k, i)
  BY <1>11 DEF Restore
<1>12. CASE \E i \in Tickets : Purge(k, i)
  BY <1>12 DEF Purge
<1>13. CASE BeginsStatus(k)
  BY <1>13 DEF BeginsStatus, StatusRead, Begin, NoteOverlap
<1>14. CASE BeginsAssign(k)
  BY <1>14 DEF BeginsAssign, AssignRead, Begin
<1>15. CASE BeginsUpdate(k)
  BY <1>15 DEF BeginsUpdate, UpdateRead, Begin, NoteOverlap
<1>16. CASE BeginsComment(k)
  BY <1>16 DEF BeginsComment, CommentRead, Begin
<1>17. CASE Recalculates(k)
  <2>1. PICK i \in Tickets, p \in Priorities : ScriptWrite(k, i, p) /\ Exists(i)
    BY <1>17 DEF Recalculates
  <2>2. Turned(k, i, p)
    BY <2>1, TurnEffect
  <2> QED
    BY <2>2 DEF Turned
<1> QED
  BY <1>3, <1>4, <1>5, <1>6, <1>7, <1>8, <1>9, <1>10,
     <1>11, <1>12, <1>13, <1>14, <1>15, <1>16, <1>17 DEF Step

\* Stamps are taken from the clock, which only advances.
LEMMA InThePastPreserved == DeskInv /\ TypeOK' /\ [Next]_vars => InThePast'
<1> SUFFICES ASSUME DeskInv, TypeOK', [Next]_vars PROVE InThePast'
  OBVIOUS
<1> USE DeskAssumption DEF DeskInv, TypeOK, tables, observers, InThePast, InHand, Handling, Exists,
                           Times, NoRow, Task, Row
<1>1. CASE UNCHANGED vars
  BY <1>1 DEF vars
<1>2. CASE Deploy \/ Tick
  BY <1>2 DEF Deploy, Tick
<1> SUFFICES ASSUME NEW k \in Tasks, Step(k) PROVE InThePast'
  BY <1>1, <1>2, StepOfNext
<1>3. CASE StatusCommit(k)
  BY <1>3, SMTT(90) DEF StatusCommit, StatusWrite, Return, Another, Stamp
<1>4. CASE AssignCommit(k)
  BY <1>4 DEF AssignCommit, Return
<1>5. CASE UpdateCommit(k)
  BY <1>5, UpdateEffect DEF Updated, Done
<1>6. CASE CommentCommit(k)
  BY <1>6, CommentEffect DEF Commented, Done
<1>7. CASE Ends(k)
  BY <1>7 DEF Ends, Return
<1>8. CASE ScriptRead(k)
  BY <1>8 DEF ScriptRead, Begin, NoteOverlap
<1>9. CASE \E i \in Tickets : Create(k, i)
  BY <1>9 DEF Create, SlaDueDate
<1>10. CASE \E i \in Tickets : SoftDelete(k, i)
  BY <1>10 DEF SoftDelete, NoteOverlap
<1>11. CASE \E i \in Tickets : Restore(k, i)
  BY <1>11 DEF Restore
<1>12. CASE \E i \in Tickets : Purge(k, i)
  BY <1>12 DEF Purge
<1>13. CASE BeginsStatus(k)
  BY <1>13 DEF BeginsStatus, StatusRead, Begin, NoteOverlap
<1>14. CASE BeginsAssign(k)
  BY <1>14 DEF BeginsAssign, AssignRead, Begin
<1>15. CASE BeginsUpdate(k)
  BY <1>15 DEF BeginsUpdate, UpdateRead, Begin, NoteOverlap
<1>16. CASE BeginsComment(k)
  BY <1>16 DEF BeginsComment, CommentRead, Begin
<1>17. CASE Recalculates(k)
  <2>1. PICK i \in Tickets, p \in Priorities : ScriptWrite(k, i, p) /\ Exists(i)
    BY <1>17 DEF Recalculates
  <2>2. Turned(k, i, p)
    BY <2>1, TurnEffect
  <2> QED
    BY <2>2 DEF Turned
<1> QED
  BY <1>3, <1>4, <1>5, <1>6, <1>7, <1>8, <1>9, <1>10,
     <1>11, <1>12, <1>13, <1>14, <1>15, <1>16, <1>17 DEF Step

\* A change of status writes the stamp that fits it.
LEMMA ClosedIsStampedPreserved == DeskInv /\ TypeOK' /\ [Next]_vars => ClosedIsStamped'
<1> SUFFICES ASSUME DeskInv, TypeOK', [Next]_vars PROVE ClosedIsStamped'
  OBVIOUS
<1> USE DeskAssumption DEF DeskInv, TypeOK, tables, observers, ClosedIsStamped, AskFits, Unborn,
                           InHand, Handling, Exists, Times, Idle, NoRow, Closed
<1>1. CASE UNCHANGED vars
  BY <1>1 DEF vars
<1>2. CASE Deploy \/ Tick
  BY <1>2 DEF Deploy, Tick
<1> SUFFICES ASSUME NEW k \in Tasks, Step(k) PROVE ClosedIsStamped'
  BY <1>1, <1>2, StepOfNext
<1>3. CASE StatusCommit(k)
  BY <1>3 DEF StatusCommit, StatusWrite, Return, Another, Stamp
<1>4. CASE AssignCommit(k)
  BY <1>4 DEF AssignCommit, Return
<1>5. CASE UpdateCommit(k)
  BY <1>5, UpdateEffect DEF Updated, Done
<1>6. CASE CommentCommit(k)
  BY <1>6, CommentEffect DEF Commented, Done
<1>7. CASE Ends(k)
  BY <1>7 DEF Ends, Return
<1>8. CASE ScriptRead(k)
  BY <1>8 DEF ScriptRead, Begin, NoteOverlap
<1>9. CASE \E i \in Tickets : Create(k, i)
  BY <1>9 DEF Create, SlaDueDate
<1>10. CASE \E i \in Tickets : SoftDelete(k, i)
  BY <1>10 DEF SoftDelete, NoteOverlap
<1>11. CASE \E i \in Tickets : Restore(k, i)
  BY <1>11 DEF Restore
<1>12. CASE \E i \in Tickets : Purge(k, i)
  BY <1>12 DEF Purge
<1>13. CASE BeginsStatus(k)
  BY <1>13 DEF BeginsStatus, StatusRead, Begin, NoteOverlap
<1>14. CASE BeginsAssign(k)
  BY <1>14 DEF BeginsAssign, AssignRead, Begin
<1>15. CASE BeginsUpdate(k)
  BY <1>15 DEF BeginsUpdate, UpdateRead, Begin, NoteOverlap
<1>16. CASE BeginsComment(k)
  BY <1>16 DEF BeginsComment, CommentRead, Begin
<1>17. CASE Recalculates(k)
  <2>1. PICK i \in Tickets, p \in Priorities : ScriptWrite(k, i, p) /\ Exists(i)
    BY <1>17 DEF Recalculates
  <2>2. Turned(k, i, p)
    BY <2>1, TurnEffect
  <2>3. \A j \in Tickets : /\ row'[j].place = row[j].place /\ row'[j].status = row[j].status
                          /\ row'[j].resolvedAt = row[j].resolvedAt
    BY ONLY <2>2 DEF Turned
  <2> QED
    BY ONLY ClosedIsStamped, <2>3
<1> QED
  BY <1>3, <1>4, <1>5, <1>6, <1>7, <1>8, <1>9, <1>10,
     <1>11, <1>12, <1>13, <1>14, <1>15, <1>16, <1>17 DEF Step

\* A stamp that is carried over is still the row's, and it was closed ever since.
LEMMA FreshPreserved == DeskInv /\ TypeOK' /\ [Next]_vars => FreshUnlessOverlap'
<1> SUFFICES ASSUME DeskInv, TypeOK', [Next]_vars PROVE FreshUnlessOverlap'
  OBVIOUS
<1> USE DeskAssumption DEF DeskInv, TypeOK, tables, observers, FreshUnlessOverlap, StampIsFresh,
                           StatusStands, ClosedIsStamped, WorksOn, AskFits, Unborn, InThePast,
                           InHand, Handling, Exists, Times, Idle, NoRow
<1>1. CASE UNCHANGED vars
  BY <1>1 DEF vars
<1>2. CASE Deploy \/ Tick
  BY <1>2 DEF Deploy, Tick
<1> SUFFICES ASSUME NEW k \in Tasks, Step(k) PROVE FreshUnlessOverlap'
  BY <1>1, <1>2, StepOfNext
<1>3. CASE StatusCommit(k)
  BY <1>3 DEF StatusCommit, StatusWrite, Return, Another, Stamp
<1>4. CASE AssignCommit(k)
  BY <1>4 DEF AssignCommit, Return
<1>5. CASE UpdateCommit(k)
  BY <1>5, UpdateEffect DEF Updated, Done
<1>6. CASE CommentCommit(k)
  BY <1>6, CommentEffect DEF Commented, Done
<1>7. CASE Ends(k)
  BY <1>7 DEF Ends, Return
<1>8. CASE ScriptRead(k)
  BY <1>8 DEF ScriptRead, Begin, NoteOverlap
<1>9. CASE \E i \in Tickets : Create(k, i)
  BY <1>9 DEF Create, SlaDueDate
<1>10. CASE \E i \in Tickets : SoftDelete(k, i)
  BY <1>10 DEF SoftDelete, NoteOverlap
<1>11. CASE \E i \in Tickets : Restore(k, i)
  BY <1>11 DEF Restore
<1>12. CASE \E i \in Tickets : Purge(k, i)
  BY <1>12 DEF Purge
<1>13. CASE BeginsStatus(k)
  BY <1>13 DEF BeginsStatus, StatusRead, Begin, NoteOverlap
<1>14. CASE BeginsAssign(k)
  BY <1>14 DEF BeginsAssign, AssignRead, Begin
<1>15. CASE BeginsUpdate(k)
  BY <1>15 DEF BeginsUpdate, UpdateRead, Begin, NoteOverlap
<1>16. CASE BeginsComment(k)
  BY <1>16 DEF BeginsComment, CommentRead, Begin
<1>17. CASE Recalculates(k)
  <2>1. PICK i \in Tickets, p \in Priorities : ScriptWrite(k, i, p) /\ Exists(i)
    BY <1>17 DEF Recalculates
  <2>2. Turned(k, i, p)
    BY <2>1, TurnEffect
  <2> QED
    BY <2>2 DEF Turned
<1> QED
  BY <1>3, <1>4, <1>5, <1>6, <1>7, <1>8, <1>9, <1>10,
     <1>11, <1>12, <1>13, <1>14, <1>15, <1>16, <1>17 DEF Step

\* The deadline that is written is the one of the priority the row then has.
LEMMA DeadlinePreserved == DeskInv /\ TypeOK' /\ [Next]_vars => DeadlineUnlessOverlap'
<1> SUFFICES ASSUME DeskInv, TypeOK', [Next]_vars PROVE DeadlineUnlessOverlap'
  OBVIOUS
<1> USE DeskAssumption DEF DeskInv, TypeOK, tables, observers, DeadlineUnlessOverlap, DeadlineFits,
                           PriorityStands, WorksOn, AskFits, Unborn, InHand, Handling, Exists,
                           Idle, NoRow, Row, Deadline
<1>1. CASE UNCHANGED vars
  BY <1>1 DEF vars
<1>2. CASE Deploy \/ Tick
  BY <1>2 DEF Deploy, Tick
<1> SUFFICES ASSUME NEW k \in Tasks, Step(k) PROVE DeadlineUnlessOverlap'
  BY <1>1, <1>2, StepOfNext
<1>3. CASE StatusCommit(k)
  <2> HIDE DEF TypeOK
  <2> QED
    BY <1>3, StatusEffect DEF Moved, Done, Stamp
<1>4. CASE AssignCommit(k)
  BY <1>4 DEF AssignCommit, Return
<1>5. CASE UpdateCommit(k)
  <2> DEFINE j == task[k].id
  <2>1. /\ j \in Tickets /\ task[k].pc = "update" /\ Exists(j) /\ row[j] \in Row
        /\ task[k].ask \in Priorities \union {None}
    BY <1>5 DEF UpdateCommit, UpdateWrite
  <2>2. /\ row'[j].priority = Asked(k) /\ row'[j].createdAt = row[j].createdAt
        /\ row'[j].dueDate = IF PriorityChanged(k) THEN SlaDueDate(row[j].createdAt, task[k].ask)
                             ELSE row[j].dueDate
        /\ \A i \in Tickets : i # j => row'[i] = row[i]
        /\ overlap' = overlap
    <3>1. PICK d : d = IF PriorityChanged(k) THEN SlaDueDate(row[j].createdAt, task[k].ask)
                       ELSE row[j].dueDate
      OBVIOUS
    <3>2. /\ row' = [row EXCEPT ![j] = [row[j] EXCEPT !.priority = Asked(k), !.dueDate = d]]
          /\ overlap' = overlap
      BY <1>5, <3>1, ZenonT(60) DEF UpdateCommit, UpdateWrite
    <3>3. row \in [Tickets -> Row]
      OBVIOUS
    <3>4. /\ row'[j] = [row[j] EXCEPT !.priority = Asked(k), !.dueDate = d]
          /\ \A i \in Tickets : i # j => row'[i] = row[i]
      BY ONLY <2>1, <3>2, <3>3
    <3>5. row'[j].priority = Asked(k) /\ row'[j].createdAt = row[j].createdAt /\ row'[j].dueDate = d
      BY ONLY <2>1, <3>4 DEF Row
    <3> QED
      BY ONLY <3>1, <3>2, <3>4, <3>5
  <2> HIDE DEF TypeOK
  <2> SUFFICES ASSUME NEW i \in Tickets, <<i, "deadline">> \notin overlap, Exists(i)'
               PROVE  row'[i].dueDate.priority = row'[i].priority /\ row'[i].dueDate.start = row'[i].createdAt
    BY <2>2
  <2>3. CASE i # j
    BY <2>2, <2>3
  <2>4. CASE i = j
    <3>1. task[k].priority = row[j].priority
      BY <2>1, <2>4
    <3>2. row[j].dueDate.priority = row[j].priority /\ row[j].dueDate.start = row[j].createdAt
      BY <2>1, <2>4
    <3>3. CASE PriorityChanged(k)
      BY <2>2, <2>4, <3>3 DEF PriorityChanged, Asked, SlaDueDate
    <3>4. CASE ~PriorityChanged(k)
      BY <2>2, <2>4, <3>1, <3>2, <3>4 DEF PriorityChanged, Asked
    <3> QED
      BY <3>3, <3>4
  <2> QED
    BY <2>3, <2>4
<1>6. CASE CommentCommit(k)
  BY <1>6, CommentEffect DEF Commented, Done
<1>7. CASE Ends(k)
  BY <1>7 DEF Ends, Return
<1>8. CASE ScriptRead(k)
  BY <1>8 DEF ScriptRead, Begin, NoteOverlap
<1>9. CASE \E i \in Tickets : Create(k, i)
  BY <1>9 DEF Create, SlaDueDate
<1>10. CASE \E i \in Tickets : SoftDelete(k, i)
  BY <1>10 DEF SoftDelete, NoteOverlap
<1>11. CASE \E i \in Tickets : Restore(k, i)
  BY <1>11 DEF Restore
<1>12. CASE \E i \in Tickets : Purge(k, i)
  BY <1>12 DEF Purge
<1>13. CASE BeginsStatus(k)
  BY <1>13 DEF BeginsStatus, StatusRead, Begin, NoteOverlap
<1>14. CASE BeginsAssign(k)
  BY <1>14 DEF BeginsAssign, AssignRead, Begin
<1>15. CASE BeginsUpdate(k)
  BY <1>15 DEF BeginsUpdate, UpdateRead, Begin, NoteOverlap
<1>16. CASE BeginsComment(k)
  BY <1>16 DEF BeginsComment, CommentRead, Begin
<1>17. CASE Recalculates(k)
  <2>1. PICK i \in Tickets, p \in Priorities : ScriptWrite(k, i, p) /\ Exists(i)
    BY <1>17 DEF Recalculates
  <2>2. Turned(k, i, p)
    BY <2>1, TurnEffect
  <2>3. <<i, "deadline">> \notin overlap => p = row[i].priority
    BY <2>1, <2>2 DEF Turned
  <2>4. row'[i].dueDate.priority = p /\ row'[i].dueDate.start = row[i].createdAt
    BY <2>2 DEF Turned, SlaDueDate
  <2> HIDE DEF TypeOK
  <2> SUFFICES ASSUME NEW j \in Tickets, <<j, "deadline">> \notin overlap, Exists(j)
               PROVE  row'[j].dueDate.priority = row'[j].priority /\ row'[j].dueDate.start = row'[j].createdAt
    BY <2>2 DEF Turned
  <2>5. CASE j = i
    BY <2>2, <2>3, <2>4, <2>5 DEF Turned
  <2>6. CASE j # i
    BY <2>2, <2>6 DEF Turned
  <2> QED
    BY <2>5, <2>6
<1> QED
  BY <1>3, <1>4, <1>5, <1>6, <1>7, <1>8, <1>9, <1>10,
     <1>11, <1>12, <1>13, <1>14, <1>15, <1>16, <1>17 DEF Step

\* The email and the move are written together, from the same reading.
LEMMA MailsPreserved == DeskInv /\ TypeOK' /\ [Next]_vars => MailsTellMoves'
<1> SUFFICES ASSUME DeskInv, TypeOK', [Next]_vars PROVE MailsTellMoves'
  OBVIOUS
<1> USE DeskAssumption DEF DeskInv, TypeOK, tables, observers, MailsTellMoves, StatusStands,
                           WorksOn, AskFits, InHand, Handling, Exists, Moves, Idle, NoMoves
<1>1. CASE UNCHANGED vars
  BY <1>1 DEF vars
<1>2. CASE Deploy \/ Tick
  BY <1>2 DEF Deploy, Tick
<1> SUFFICES ASSUME NEW k \in Tasks, Step(k) PROVE MailsTellMoves'
  BY <1>1, <1>2, StepOfNext
<1>3. CASE StatusCommit(k)
  <2> DEFINE j == task[k].id
  <2>1. /\ j \in Tickets /\ task[k].pc = "status" /\ Exists(j)
        /\ <<j, "status">> \notin overlap => task[k].status = row[j].status
        /\ mails[j] \in Moves /\ moves[j] \in Moves
    BY <1>3 DEF StatusCommit, StatusWrite
  <2>2. /\ mails'[j] = Another(mails[j], [from |-> task[k].status, to |-> task[k].ask])
        /\ moves'[j] = Another(moves[j], [from |-> row[j].status, to |-> task[k].ask])
        /\ \A i \in Tickets : i # j => mails'[i] = mails[i] /\ moves'[i] = moves[i]
        /\ overlap' = overlap
    BY <1>3, <2>1 DEF StatusCommit, StatusWrite
  <2>3. mails[j].count = moves[j].count /\ (<<j, "status">> \notin overlap => mails[j] = moves[j])
    BY <2>1
  <2>4. /\ mails'[j].count = moves'[j].count
        /\ <<j, "status">> \notin overlap => mails'[j] = moves'[j]
    <3> HIDE DEF j
    <3> QED
      BY <2>1, <2>2, <2>3 DEF Another
  <2> HIDE DEF TypeOK
  <2> QED
    <3> SUFFICES ASSUME NEW i \in Tickets
                 PROVE  /\ mails'[i].count = moves'[i].count
                        /\ <<i, "status">> \notin overlap' => mails'[i] = moves'[i]
      OBVIOUS
    <3>1. CASE i = j
      BY <2>2, <2>4, <3>1
    <3>2. CASE i # j
      BY <2>2, <3>2
    <3> QED
      BY <3>1, <3>2
<1>4. CASE AssignCommit(k)
  BY <1>4 DEF AssignCommit, Return
<1>5. CASE UpdateCommit(k)
  BY <1>5, ZenonT(60) DEF UpdateCommit, UpdateWrite, Asked, PriorityChanged, SlaDueDate, Return
<1>6. CASE CommentCommit(k)
  BY <1>6, CommentEffect DEF Commented, Done
<1>7. CASE Ends(k)
  BY <1>7 DEF Ends, Return
<1>8. CASE ScriptRead(k)
  BY <1>8 DEF ScriptRead, Begin, NoteOverlap
<1>9. CASE \E i \in Tickets : Create(k, i)
  BY <1>9 DEF Create, SlaDueDate
<1>10. CASE \E i \in Tickets : SoftDelete(k, i)
  BY <1>10 DEF SoftDelete, NoteOverlap
<1>11. CASE \E i \in Tickets : Restore(k, i)
  BY <1>11 DEF Restore
<1>12. CASE \E i \in Tickets : Purge(k, i)
  <2>1. PICK j \in Tickets : Purge(k, j)
    BY <1>12
  <2>2. /\ \A i \in Tickets : i # j => mails'[i] = mails[i] /\ moves'[i] = moves[i]
        /\ mails'[j] = NoMoves /\ moves'[j] = NoMoves /\ overlap' = overlap
    BY <2>1 DEF Purge
  <2> HIDE DEF TypeOK
  <2> QED
    BY <2>2
<1>13. CASE BeginsStatus(k)
  BY <1>13 DEF BeginsStatus, StatusRead, Begin, NoteOverlap
<1>14. CASE BeginsAssign(k)
  BY <1>14 DEF BeginsAssign, AssignRead, Begin
<1>15. CASE BeginsUpdate(k)
  BY <1>15 DEF BeginsUpdate, UpdateRead, Begin, NoteOverlap
<1>16. CASE BeginsComment(k)
  BY <1>16 DEF BeginsComment, CommentRead, Begin
<1>17. CASE Recalculates(k)
  <2>1. PICK i \in Tickets, p \in Priorities : ScriptWrite(k, i, p) /\ Exists(i)
    BY <1>17 DEF Recalculates
  <2>2. Turned(k, i, p)
    BY <2>1, TurnEffect
  <2> QED
    BY <2>2 DEF Turned
<1> QED
  BY <1>3, <1>4, <1>5, <1>6, <1>7, <1>8, <1>9, <1>10,
     <1>11, <1>12, <1>13, <1>14, <1>15, <1>16, <1>17 DEF Step

\* The comment and the reply email are written together.
LEMMA RepliesPreserved == DeskInv /\ TypeOK' /\ [Next]_vars => RepliesTold'
<1> SUFFICES ASSUME DeskInv, TypeOK', [Next]_vars PROVE RepliesTold'
  OBVIOUS
<1> USE DeskAssumption DEF DeskInv, TypeOK, tables, observers, RepliesTold, AskFits, InHand,
                           Handling, Exists, Idle, NoReplies
<1>1. CASE UNCHANGED vars
  BY <1>1 DEF vars
<1>2. CASE Deploy \/ Tick
  BY <1>2 DEF Deploy, Tick
<1> SUFFICES ASSUME NEW k \in Tasks, Step(k) PROVE RepliesTold'
  BY <1>1, <1>2, StepOfNext
<1>3. CASE StatusCommit(k)
  BY <1>3 DEF StatusCommit, StatusWrite, Return, Another, Stamp
<1>4. CASE AssignCommit(k)
  BY <1>4 DEF AssignCommit, Return
<1>5. CASE UpdateCommit(k)
  BY <1>5 DEF UpdateCommit, UpdateWrite, Asked, PriorityChanged, SlaDueDate, Return
<1>6. CASE CommentCommit(k)
  <2> DEFINE n == IF task[k].ask = "internal" THEN 0 ELSE 1
  <2>1. /\ task[k].ask \in {"internal", "public"} /\ task[k].id \in Tickets
        /\ replies \in [Tickets -> [public : 0..MaxReplies, mailed : 0..MaxReplies]]
    BY <1>6 DEF CommentCommit, CommentWrite
  <2>2. replies' = [replies EXCEPT ![task[k].id].mailed = @ + n,
                                   ![task[k].id].public = IF task[k].ask = "public" THEN @ + 1 ELSE @]
    BY <1>6 DEF CommentCommit, CommentWrite
  <2> QED
    BY ONLY RepliesTold, <2>1, <2>2 DEF RepliesTold
<1>7. CASE Ends(k)
  BY <1>7 DEF Ends, Return
<1>8. CASE ScriptRead(k)
  BY <1>8 DEF ScriptRead, Begin, NoteOverlap
<1>9. CASE \E i \in Tickets : Create(k, i)
  BY <1>9 DEF Create, SlaDueDate
<1>10. CASE \E i \in Tickets : SoftDelete(k, i)
  BY <1>10 DEF SoftDelete, NoteOverlap
<1>11. CASE \E i \in Tickets : Restore(k, i)
  BY <1>11 DEF Restore
<1>12. CASE \E i \in Tickets : Purge(k, i)
  BY <1>12 DEF Purge
<1>13. CASE BeginsStatus(k)
  BY <1>13 DEF BeginsStatus, StatusRead, Begin, NoteOverlap
<1>14. CASE BeginsAssign(k)
  BY <1>14 DEF BeginsAssign, AssignRead, Begin
<1>15. CASE BeginsUpdate(k)
  BY <1>15 DEF BeginsUpdate, UpdateRead, Begin, NoteOverlap
<1>16. CASE BeginsComment(k)
  BY <1>16 DEF BeginsComment, CommentRead, Begin
<1>17. CASE Recalculates(k)
  <2>1. PICK i \in Tickets, p \in Priorities : ScriptWrite(k, i, p) /\ Exists(i)
    BY <1>17 DEF Recalculates
  <2>2. Turned(k, i, p)
    BY <2>1, TurnEffect
  <2> QED
    BY <2>2 DEF Turned
<1> QED
  BY <1>3, <1>4, <1>5, <1>6, <1>7, <1>8, <1>9, <1>10,
     <1>11, <1>12, <1>13, <1>14, <1>15, <1>16, <1>17 DEF Step

-----------------------------------------------------------------------------
\* The invariant holds in every reachable state.
THEOREM DeskInvariant == Spec => []DeskInv
<1>1. DeskInv /\ [Next]_vars => DeskInv'
  BY TypePreserved, InHandPreserved, AskFitsPreserved, OneWriterPreserved,
     StatusStandsPreserved, PriorityStandsPreserved, BinIsLeftPreserved, UnbornPreserved,
     InThePastPreserved, ClosedIsStampedPreserved, FreshPreserved, DeadlinePreserved,
     MailsPreserved, RepliesPreserved
  DEF DeskInv
<1> QED
  BY <1>1, InitEstablishes, PTL DEF Spec

\* A ticket is stamped exactly while it is resolved or closed, and never with a time
\* before its last reopening unless two status changes overlapped (changeStatus).
THEOREM StampsAlwaysHold == Spec => []StampsHold
<1>1. DeskInv => StampsHold
  BY DEF DeskInv, StampsHold
<1> QED
  BY <1>1, DeskInvariant, PTL

\* The deadline is the one of the priority shown next to it, from the original creation
\* time, unless an update or the recalculation script met another (update).
THEOREM DeadlineAlwaysFits == Spec => []DeadlineUnlessOverlap
<1>1. DeskInv => DeadlineUnlessOverlap
  BY DEF DeskInv
<1> QED
  BY <1>1, DeskInvariant, PTL

\* The reporter is told every move and every public reply, and no internal note.
THEOREM MailsAlwaysMatch == Spec => []MailsMatch
<1>1. DeskInv => MailsMatch
  BY DEF DeskInv, MailsMatch, RepliesTold, RepliesMailed
<1> QED
  BY <1>1, DeskInvariant, PTL

\* Only a change of status or a hard delete moves the stamp of a ticket.
LEMMA StampsMoved ==
  ASSUME TypeOK, [Next]_vars, NEW i \in Tickets
  PROVE  \/ row'[i].resolvedAt = row[i].resolvedAt
         \/ row'[i].place = "gone"
         \/ \E k \in Tasks : StatusCommit(k) /\ task[k].id = i
<1> USE DEF TypeOK, tables, observers
<1>1. CASE UNCHANGED vars \/ Deploy \/ Tick
  BY <1>1 DEF vars, Deploy, Tick
<1> SUFFICES ASSUME NEW k \in Tasks, Step(k)
             PROVE  \/ row'[i].resolvedAt = row[i].resolvedAt
                    \/ row'[i].place = "gone"
                    \/ StatusCommit(k) /\ task[k].id = i
  BY <1>1, StepOfNext
<1>r. row[i] \in Row
  OBVIOUS
<1>2. CASE StatusCommit(k)
  BY <1>2 DEF StatusCommit, StatusWrite
<1>3. CASE AssignCommit(k)
  BY <1>r, <1>3 DEF AssignCommit, Row
<1>4. CASE UpdateCommit(k)
  BY <1>r, <1>4 DEF UpdateCommit, UpdateWrite, Row
<1>5. CASE CommentCommit(k) \/ Ends(k) \/ ScriptRead(k) \/ BeginsStatus(k) \/ BeginsAssign(k)
           \/ BeginsUpdate(k) \/ BeginsComment(k)
  BY <1>5 DEF CommentCommit, CommentWrite, Ends, ScriptRead, BeginsStatus, StatusRead, BeginsAssign,
              AssignRead, BeginsUpdate, UpdateRead, BeginsComment, CommentRead
<1>6. CASE Recalculates(k)
  <2>1. PICK j \in Tickets, p \in Priorities : ScriptWrite(k, j, p) /\ Exists(j)
    BY <1>6 DEF Recalculates
  <2>2. Turned(k, j, p)
    BY <2>1, TurnEffect
  <2> QED
    BY <2>2 DEF Turned
<1>7. CASE \E j \in Tickets : Create(k, j)
  BY <1>r, <1>7 DEF Create, Row
<1>8. CASE \E j \in Tickets : SoftDelete(k, j)
  BY <1>r, <1>8 DEF SoftDelete, Row
<1>9. CASE \E j \in Tickets : Restore(k, j)
  BY <1>r, <1>9 DEF Restore, Row
<1>10. CASE \E j \in Tickets : Purge(k, j)
  BY <1>10 DEF Purge, NoRow
<1> QED
  BY <1>2, <1>3, <1>4, <1>5, <1>6, <1>7, <1>8, <1>9, <1>10 DEF Step

\* From resolved to closed and back the first resolution time stays (changeStatus keeps
\* the stamp it has read), unless two status changes overlapped.
THEOREM FirstResolutionAlwaysKept == Spec => FirstResolutionKept
<1> DEFINE Kept ==
      \A i \in Tickets :
        /\ <<i, "status">> \notin overlap'
        /\ {row[i].status, row'[i].status} \subseteq Closed
        => row'[i].place = "gone" \/ row'[i].resolvedAt = row[i].resolvedAt
<1>1. DeskInv /\ [Next]_vars => Kept
  <2> SUFFICES ASSUME DeskInv, [Next]_vars, NEW i \in Tickets, <<i, "status">> \notin overlap',
                      row[i].status \in Closed, row'[i].status \in Closed,
                      NEW k \in Tasks, StatusCommit(k), task[k].id = i
               PROVE  row'[i].resolvedAt = row[i].resolvedAt
    BY StampsMoved DEF DeskInv
  <2>1. /\ Exists(i) /\ task[k].pc = "status" /\ overlap' = overlap
        /\ row'[i].status = task[k].ask /\ row'[i].resolvedAt = Stamp(task[k])
    BY DEF StatusCommit, StatusWrite, DeskInv, TypeOK
  <2>2. task[k].resolvedAt = row[i].resolvedAt
    BY <2>1 DEF DeskInv, StatusStands
  <2>3. row[i].resolvedAt # None
    BY <2>1 DEF DeskInv, ClosedIsStamped
  <2> QED
    BY <2>1, <2>2, <2>3 DEF Stamp
<1>2. DeskInv /\ [Next]_vars => [Kept]_vars
  BY <1>1
<1> HIDE DEF Kept
<1>3. Spec => [][Kept]_vars
  BY <1>2, DeskInvariant, PTL DEF Spec
<1> QED
  BY <1>3 DEF FirstResolutionKept, Kept

\* The status, the stamp, the deadline, the priority and the replies of a ticket move by
\* its handlers and by the script that lists it only.
LEMMA HandlersWrite ==
  ASSUME TypeOK, [Next]_vars, NEW i \in Tickets
  PROVE  \/ UNCHANGED <<row[i].status, row[i].resolvedAt, row[i].dueDate, row[i].priority, replies[i]>>
         \/ row'[i].place = "gone"
         \/ \E k \in Tasks :
              \/ task[k].pc \in {"status", "update", "comment"} /\ task[k].id = i
              \/ task[k].pc = "script" /\ \E p \in Priorities : <<i, p>> \in task[k].batch
<1> USE DEF TypeOK, tables, observers
<1>1. CASE UNCHANGED vars \/ Deploy \/ Tick
  BY <1>1 DEF vars, Deploy, Tick
<1> SUFFICES ASSUME NEW k \in Tasks, Step(k)
             PROVE  \/ UNCHANGED <<row[i].status, row[i].resolvedAt, row[i].dueDate, row[i].priority, replies[i]>>
                    \/ row'[i].place = "gone"
                    \/ task[k].pc \in {"status", "update", "comment"} /\ task[k].id = i
                    \/ task[k].pc = "script" /\ \E p \in Priorities : <<i, p>> \in task[k].batch
  BY <1>1, StepOfNext
<1>r. row[i] \in Row
  OBVIOUS
<1>2. CASE StatusCommit(k)
  BY <1>2 DEF StatusCommit, StatusWrite
<1>3. CASE AssignCommit(k)
  BY <1>r, <1>3 DEF AssignCommit, Row
<1>4. CASE UpdateCommit(k)
  BY <1>r, <1>4 DEF UpdateCommit, UpdateWrite, Row
<1>5. CASE CommentCommit(k)
  BY <1>5 DEF CommentCommit, CommentWrite
<1>6. CASE Ends(k) \/ ScriptRead(k) \/ BeginsStatus(k) \/ BeginsAssign(k)
           \/ BeginsUpdate(k) \/ BeginsComment(k)
  BY <1>6 DEF Ends, ScriptRead, BeginsStatus, StatusRead, BeginsAssign,
              AssignRead, BeginsUpdate, UpdateRead, BeginsComment, CommentRead
<1>7. CASE Recalculates(k)
  <2>1. PICK j \in Tickets, p \in Priorities : ScriptWrite(k, j, p) /\ Exists(j)
    BY <1>7 DEF Recalculates
  <2>2. Turned(k, j, p)
    BY <2>1, TurnEffect
  <2> QED
    BY <2>2 DEF Turned
<1>8. CASE \E j \in Tickets : Create(k, j)
  BY <1>r, <1>8 DEF Create, Row
<1>9. CASE \E j \in Tickets : SoftDelete(k, j)
  BY <1>r, <1>9 DEF SoftDelete, Row
<1>10. CASE \E j \in Tickets : Restore(k, j)
  BY <1>r, <1>10 DEF Restore, Row
<1>11. CASE \E j \in Tickets : Purge(k, j)
  BY <1>11 DEF Purge, NoRow
<1> QED
  BY <1>2, <1>3, <1>4, <1>5, <1>6, <1>7, <1>8, <1>9, <1>10, <1>11 DEF Step

\* A ticket in the recycle bin keeps its status, its stamp, its deadline, its priority and
\* its comments, unless it was deleted under a handler or under the script (softDelete
\* against the readings of changeStatus, update, addComment and recalculate-sla.ts).
THEOREM BinAlwaysFreezes == Spec => BinFreezes
<1> DEFINE Frozen ==
      \A i \in Tickets : row[i].place = "bin" /\ <<i, "bin">> \notin overlap =>
        \/ row'[i].place = "gone"
        \/ UNCHANGED <<row[i].status, row[i].resolvedAt, row[i].dueDate, row[i].priority, replies[i]>>
<1>1. DeskInv /\ [Next]_vars => Frozen
  BY HandlersWrite DEF DeskInv, BinIsLeft, AtHand
<1>2. DeskInv /\ [Next]_vars => [Frozen]_vars
  BY <1>1
<1> HIDE DEF Frozen
<1>3. Spec => [][Frozen]_vars
  BY <1>2, DeskInvariant, PTL DEF Spec
<1> QED
  BY <1>3 DEF BinFreezes, Frozen

-----------------------------------------------------------------------------
(* WorkHours.  Everything the loops compute with is put in terms of the days *)
(* of a zone and their midnight, opening and closing, which the two passes of *)
(* zonedTimeToUtc find as long as the clocks do not change there (WellSet);  *)
(* working time is counted day by day.                                      *)

\* The quotient and the remainder.
LEMMA Division ==
  ASSUME NEW a \in Int, NEW n \in Nat \ {0}
  PROVE  /\ a \div n \in Int /\ a % n \in 0..(n - 1)
         /\ a = n * (a \div n) + (a % n)
  OBVIOUS

\* Multiples of a day lie a day apart.
LEMMA Multiples ==
  ASSUME NEW p \in Int, NEW q \in Int, NEW n \in Nat \ {0}
  PROVE  /\ p * n \in Int
         /\ (p + 1) * n = p * n + n
         /\ p < q => p * n + n <= q * n
         /\ n * p = p * n
  OBVIOUS

\* A number lies before a multiple if and only if its quotient does.
LEMMA QuotientBefore ==
  ASSUME NEW a \in Int, NEW q \in Int, NEW n \in Nat \ {0}
  PROVE  a \div n < q <=> a < q * n
<1>1. /\ a \div n \in Int /\ a % n \in 0..(n - 1)
      /\ a = n * (a \div n) + (a % n)
  BY Division
<1> DEFINE p == a \div n
           r == a % n
<1>2. p \in Int /\ r \in Int /\ 0 <= r /\ r < n /\ a = p * n + r
  BY <1>1, Multiples
<1> HIDE DEF p, r
<1>3. p < q => p * n + n <= q * n
  BY <1>2, Multiples
<1>4. q <= p => q * n <= p * n
  BY <1>2, Multiples
<1>5. p * n \in Int /\ q * n \in Int
  BY <1>2, Multiples
<1>6. p < q <=> a < q * n
  BY <1>2, <1>3, <1>4, <1>5
<1> QED
  BY <1>6 DEF p

\* A multiple and what is less than one more leave that remainder.
LEMMA RemainderOf ==
  ASSUME NEW q \in Int, NEW n \in Nat \ {0}, NEW r \in 0..(n - 1)
  PROVE  (q * n + r) \div n = q /\ (q * n + r) % n = r
<1>1. q * n \in Int /\ q * n + r \in Int /\ (q + 1) * n = q * n + n
  BY Multiples
<1>2. /\ (q * n + r) \div n < q <=> q * n + r < q * n
      /\ (q * n + r) \div n < q + 1 <=> q * n + r < (q + 1) * n
      /\ (q * n + r) \div n \in Int
  BY ONLY <1>1, q \in Int, q + 1 \in Int, n \in Nat \ {0}, QuotientBefore, Division
<1>3. (q * n + r) \div n = q
  BY <1>1, <1>2
<1>4. q * n + r = n * q + ((q * n + r) % n) /\ (q * n + r) % n \in 0..(n - 1)
  BY <1>1, <1>3, Division
<1>5. n * q = q * n /\ q * n \in Int
  BY Multiples
<1> QED
  BY <1>3, <1>4, <1>5

-----------------------------------------------------------------------------
\* zonedParts and zonedTimeToUtc of a zone, at an instant and at a local time.
WallOf(z, u) == IF u < z.at THEN u + z.base ELSE u + z.base + z.shift
DateOf(z, u) == WallOf(z, u) \div DayLength
UtcOf(z, l)  == IF l < ChangeFirst(z) THEN l - z.base ELSE l - z.base - z.shift

\* The clocks of a zone show local time l exactly once.
ShownOnce(z, l) == ~(ChangeFirst(z) <= l /\ l < ChangeEnd(z))

\* The instant that shows a local time comes after all that show an earlier one.
LEMMA LocalTimes ==
  ASSUME NEW z \in Zones, NEW l \in Int, ShownOnce(z, l)
  PROVE  /\ UtcOf(z, l) \in Int /\ WallOf(z, UtcOf(z, l)) = l
         /\ \A u \in Int : WallOf(z, u) \in Int /\ (u < UtcOf(z, l) <=> WallOf(z, u) < l)
<1>1. z.base \in Int /\ z.shift \in Int /\ z.at \in Int
  BY HoursAssumption
<1> QED
  BY <1>1 DEF ShownOnce, UtcOf, WallOf, ChangeFirst, ChangeEnd, Smaller, Larger

\* The second pass makes the conversion right wherever the clocks do not change.
LEMMA TwoPasses ==
  ASSUME zone \in Zones, NEW l \in Int, ShownOnce(zone, l)
  PROVE  ZonedTimeToUtc(l) = UtcOf(zone, l)
<1>1. zone.base \in Int /\ zone.shift \in Int /\ zone.at \in Int
  BY HoursAssumption
<1> QED
  BY <1>1 DEF ShownOnce, UtcOf, ZonedTimeToUtc, ZoneOffset, ChangeFirst, ChangeEnd, Smaller, Larger

-----------------------------------------------------------------------------
\* Midnight, opening and closing of day d.
Midnight(z, d)   == UtcOf(z, d * DayLength)
OpenOf(c, z, d)  == UtcOf(z, d * DayLength + c.dayStart)
CloseOf(c, z, d) == UtcOf(z, d * DayLength + c.dayEnd)

\* The clocks do not change at midnight, opening or closing.
LEMMA MarksShownOnce ==
  ASSUME WellSet, NEW c \in Configs, NEW z \in Zones, NEW d \in Int
  PROVE  /\ d * DayLength \in Int /\ ShownOnce(z, d * DayLength)
         /\ ShownOnce(z, d * DayLength + c.dayStart)
         /\ ShownOnce(z, d * DayLength + c.dayEnd)
<1>1. /\ c.dayStart \in 0..(DayLength - 1) /\ c.dayEnd \in 0..DayLength /\ 0 \in 0..(DayLength - 1)
      /\ DayLength \in Nat \ {0}
  BY HoursAssumption DEF WellSet, HoursInDay
<1>2. ChangeFirst(z) \in Int /\ ChangeEnd(z) \in Int
  BY HoursAssumption DEF ChangeFirst, ChangeEnd, Smaller, Larger
<1>3. \A l \in Int : ~ShownOnce(z, l) => l % DayLength \notin {0, c.dayStart, c.dayEnd % DayLength}
  BY <1>2 DEF WellSet, MarksClear, ShownOnce
<1>4. \A q \in Int : q * DayLength \in Int /\ (q + 1) * DayLength = q * DayLength + DayLength
  BY <1>1, Multiples
<1>5. \A q \in Int : \A r \in 0..(DayLength - 1) : (q * DayLength + r) % DayLength = r
  BY <1>1, RemainderOf
<1>6. \A q \in Int : ShownOnce(z, q * DayLength)
  <2> SUFFICES ASSUME NEW q \in Int PROVE ShownOnce(z, q * DayLength)
    OBVIOUS
  <2>1. (q * DayLength + 0) % DayLength = 0 /\ q * DayLength + 0 = q * DayLength
    BY <1>1, <1>4, <1>5
  <2> QED
    BY <1>3, <1>4, <2>1
<1>7. ShownOnce(z, d * DayLength + c.dayStart)
  <2>1. (d * DayLength + c.dayStart) % DayLength = c.dayStart
    BY <1>1, <1>5
  <2> QED
    BY <1>1, <1>3, <1>4, <2>1
<1>8. ShownOnce(z, d * DayLength + c.dayEnd)
  <2>1. CASE c.dayEnd = DayLength
    BY <1>4, <1>6, <2>1
  <2>2. CASE c.dayEnd # DayLength
    <3>1. c.dayEnd \in 0..(DayLength - 1)
      BY <1>1, <2>2
    <3>2. (0 * DayLength + c.dayEnd) % DayLength = c.dayEnd /\ 0 * DayLength + c.dayEnd = c.dayEnd
      BY <1>1, <1>5, <3>1
    <3> QED
      BY <1>3, <1>4, <1>5, <3>1, <3>2
  <2> QED
    BY <2>1, <2>2
<1> QED
  BY <1>4, <1>6, <1>7, <1>8

\* A day lasts from its midnight to the next, and opens and closes in between.
LEMMA DayShape ==
  ASSUME WellSet, NEW c \in Configs, NEW z \in Zones, NEW d \in Int
  PROVE  /\ Midnight(z, d) \in Int /\ OpenOf(c, z, d) \in Int /\ CloseOf(c, z, d) \in Int
         /\ Midnight(z, d) <= OpenOf(c, z, d) /\ OpenOf(c, z, d) < Midnight(z, d + 1)
         /\ Midnight(z, d) <= CloseOf(c, z, d) /\ CloseOf(c, z, d) <= Midnight(z, d + 1)
         /\ OpenOf(c, z, d) < CloseOf(c, z, d) <=> c.dayStart < c.dayEnd
         /\ \A u \in Int : DateOf(z, u) \in Int /\ (DateOf(z, u) < d <=> u < Midnight(z, d))
<1>1. c.dayStart \in 0..(DayLength - 1) /\ c.dayEnd \in 0..DayLength /\ DayLength \in Nat \ {0}
  BY HoursAssumption DEF WellSet, HoursInDay
<1>2. /\ d * DayLength \in Int /\ (d + 1) * DayLength = d * DayLength + DayLength
      /\ d * DayLength + c.dayStart \in Int /\ d * DayLength + c.dayEnd \in Int
      /\ (d + 1) * DayLength \in Int
  BY <1>1, Multiples
<1>3. /\ ShownOnce(z, d * DayLength) /\ ShownOnce(z, (d + 1) * DayLength)
      /\ ShownOnce(z, d * DayLength + c.dayStart) /\ ShownOnce(z, d * DayLength + c.dayEnd)
  BY MarksShownOnce
<1>4. /\ Midnight(z, d) \in Int /\ OpenOf(c, z, d) \in Int /\ CloseOf(c, z, d) \in Int
      /\ Midnight(z, d + 1) \in Int
      /\ WallOf(z, OpenOf(c, z, d)) = d * DayLength + c.dayStart
      /\ WallOf(z, CloseOf(c, z, d)) = d * DayLength + c.dayEnd
      /\ \A u \in Int : /\ WallOf(z, u) \in Int
                        /\ u < Midnight(z, d) <=> WallOf(z, u) < d * DayLength
                        /\ u < Midnight(z, d + 1) <=> WallOf(z, u) < d * DayLength + DayLength
                        /\ u < OpenOf(c, z, d) <=> WallOf(z, u) < d * DayLength + c.dayStart
                        /\ u < CloseOf(c, z, d) <=> WallOf(z, u) < d * DayLength + c.dayEnd
  BY <1>2, <1>3, LocalTimes DEF Midnight, OpenOf, CloseOf
<1>5. \A u \in Int : DateOf(z, u) \in Int /\ (DateOf(z, u) < d <=> WallOf(z, u) < d * DayLength)
  BY <1>1, <1>4, Division, QuotientBefore DEF DateOf
<1>6. /\ Midnight(z, d) <= OpenOf(c, z, d) /\ OpenOf(c, z, d) < Midnight(z, d + 1)
      /\ Midnight(z, d) <= CloseOf(c, z, d) /\ CloseOf(c, z, d) <= Midnight(z, d + 1)
      /\ OpenOf(c, z, d) < CloseOf(c, z, d) <=> c.dayStart < c.dayEnd
  <2>1. CloseOf(c, z, d) <= Midnight(z, d + 1)
    <3>1. Midnight(z, d + 1) < CloseOf(c, z, d) => FALSE
      BY <1>1, <1>2, <1>4, LocalTimes, <1>3 DEF Midnight
    <3> QED
      BY <1>4, <3>1
  <2> QED
    BY <1>1, <1>2, <1>4, <2>1
<1> QED
  BY <1>4, <1>5, <1>6

-----------------------------------------------------------------------------
\* The working instants, and how many there are from a to b.
WorksOnDay(c, d) == d % WeekDays \in c.days
Serves(c, z, u) ==
  /\ WorksOnDay(c, DateOf(z, u))
  /\ OpenOf(c, z, DateOf(z, u)) <= u /\ u < CloseOf(c, z, DateOf(z, u))
Service(c, z, a, b) == {u \in a..(b - 1) : Serves(c, z, u)}
Hours(c, z, a, b)   == Cardinality(Service(c, z, a, b))

\* What the model computes with, in terms of the configuration and the zone.
LEMMA InTerms ==
  ASSUME WellSet, config \in Configs, zone \in Zones, NEW u \in Int
  PROVE  LET d == DateOf(zone, u)
         IN  /\ DayOf(u) = d
             /\ StartOfNextDay(u) = Midnight(zone, d + 1)
             /\ Open(u) = OpenOf(config, zone, d)
             /\ Close(u) = CloseOf(config, zone, d)
             /\ IsWorkingDay(u) <=> WorksOnDay(config, d)
             /\ InHours(u) <=> Serves(config, zone, u)
<1> DEFINE d == DateOf(zone, u)
<1>1. /\ config.dayStart \in Int /\ config.dayEnd \in Int /\ DayLength \in Nat \ {0}
      /\ zone.base \in Int /\ zone.shift \in Int /\ zone.at \in Int
  BY HoursAssumption
<1>2. Local(u) = WallOf(zone, u) /\ Local(u) \in Int
  BY <1>1 DEF Local, ZoneOffset, WallOf
<1>3. DayOf(u) = d /\ d \in Int
  BY <1>1, <1>2, Division DEF DayOf, DateOf
<1>4. /\ ShownOnce(zone, (d + 1) * DayLength)
      /\ ShownOnce(zone, d * DayLength + config.dayStart)
      /\ ShownOnce(zone, d * DayLength + config.dayEnd)
      /\ d * DayLength \in Int /\ (d + 1) * DayLength \in Int
  BY <1>3, MarksShownOnce
<1>5. /\ StartOfNextDay(u) = Midnight(zone, d + 1)
      /\ Open(u) = OpenOf(config, zone, d)
      /\ Close(u) = CloseOf(config, zone, d)
  BY <1>1, <1>3, <1>4, TwoPasses
     DEF StartOfNextDay, HourOnSameDay, Open, Close, Midnight, OpenOf, CloseOf
<1>6. IsWorkingDay(u) <=> WorksOnDay(config, d)
  BY <1>3 DEF IsWorkingDay, WorksOnDay
<1>7. WallOf(zone, u) = d * DayLength + HourOf(u) /\ HourOf(u) \in Int
  <2>1. /\ Local(u) = DayLength * d + (Local(u) % DayLength)
        /\ Local(u) % DayLength \in 0..(DayLength - 1)
    BY <1>1, <1>2, Division DEF DateOf
  <2> QED
    BY <1>1, <1>2, <1>3, <2>1, Multiples DEF HourOf
<1>8. /\ u < OpenOf(config, zone, d) <=> HourOf(u) < config.dayStart
      /\ u < CloseOf(config, zone, d) <=> HourOf(u) < config.dayEnd
      /\ OpenOf(config, zone, d) \in Int
  BY <1>1, <1>4, <1>7, LocalTimes DEF OpenOf, CloseOf
<1>9. InHours(u) <=> Serves(config, zone, u)
  BY <1>1, <1>6, <1>7, <1>8 DEF InHours, Serves
<1> QED
  BY <1>3, <1>5, <1>6, <1>9

\* So are the hours it counts.
LEMMA WorkedInTerms ==
  ASSUME WellSet, config \in Configs, zone \in Zones, NEW a \in Int, NEW b \in Int
  PROVE  Worked(a, b) = Hours(config, zone, a, b)
<1>1. \A u \in a..(b - 1) : InHours(u) <=> Serves(config, zone, u)
  BY InTerms
<1>2. {u \in a..(b - 1) : InHours(u)} = Service(config, zone, a, b)
  BY <1>1 DEF Service
<1> QED
  BY <1>2 DEF Worked, Hours

\* Hours are a number, and those of two adjacent spans add up.
LEMMA HoursAddUp ==
  ASSUME NEW c, NEW z, NEW a \in Int, NEW b \in Int, NEW e \in Int, a <= b, b <= e
  PROVE  /\ Hours(c, z, a, b) \in Nat
         /\ Hours(c, z, a, e) = Hours(c, z, a, b) + Hours(c, z, b, e)
<1> DEFINE S(x, y) == Service(c, z, x, y)
<1>1. \A x, y \in Int : IsFiniteSet(S(x, y)) /\ Cardinality(S(x, y)) \in Nat
  <2> SUFFICES ASSUME NEW x \in Int, NEW y \in Int
               PROVE  IsFiniteSet(S(x, y)) /\ Cardinality(S(x, y)) \in Nat
    OBVIOUS
  <2>1. IsFiniteSet(x..(y - 1)) /\ S(x, y) \subseteq x..(y - 1)
    BY FS_Interval DEF Service
  <2>2. IsFiniteSet(S(x, y))
    BY <2>1, FS_Subset
  <2> QED
    BY <2>2, FS_CardinalityType
<1>2. S(a, e) = S(a, b) \cup S(b, e) /\ S(a, b) \cap S(b, e) = {}
  BY DEF Service
<1>3. /\ Hours(c, z, a, b) = Cardinality(S(a, b)) /\ Hours(c, z, b, e) = Cardinality(S(b, e))
      /\ Hours(c, z, a, e) = Cardinality(S(a, e))
  BY DEF Hours
<1> HIDE DEF S
<1>4. \A p, q : IsFiniteSet(p) /\ IsFiniteSet(q) =>
        Cardinality(p \cup q) = Cardinality(p) + Cardinality(q) - Cardinality(p \cap q)
  BY ONLY FS_Union
<1>5. /\ IsFiniteSet(S(a, b)) /\ IsFiniteSet(S(b, e))
      /\ Cardinality(S(a, b)) \in Nat /\ Cardinality(S(b, e)) \in Nat
      /\ Cardinality(S(a, e)) \in Nat
  BY <1>1
<1>6. Cardinality(S(a, b) \cap S(b, e)) = 0
  BY <1>2, FS_EmptySet
<1>7. Cardinality(S(a, b) \cup S(b, e)) =
        Cardinality(S(a, b)) + Cardinality(S(b, e)) - Cardinality(S(a, b) \cap S(b, e))
  BY ONLY <1>4, <1>5, Zenon
<1>8. Cardinality(S(a, e)) = Cardinality(S(a, b)) + Cardinality(S(b, e)) - 0
  BY ONLY <1>2, <1>6, <1>7, Zenon
<1>9. Cardinality(S(a, e)) = Cardinality(S(a, b)) + Cardinality(S(b, e))
  BY ONLY <1>5, <1>8
<1> QED
  BY ONLY <1>3, <1>5, <1>9

\* A span without working instants has no hours, and one of working instants only has
\* as many as it is long.
LEMMA HoursOfSpan ==
  ASSUME NEW c, NEW z, NEW a \in Int, NEW b \in Int
  PROVE  /\ (\A u \in a..(b - 1) : ~Serves(c, z, u)) => Hours(c, z, a, b) = 0
         /\ a <= b /\ (\A u \in a..(b - 1) : Serves(c, z, u)) => Hours(c, z, a, b) = b - a
<1>1. ASSUME \A u \in a..(b - 1) : ~Serves(c, z, u)
      PROVE  Hours(c, z, a, b) = 0
  <2>1. Service(c, z, a, b) = {}
    BY <1>1 DEF Service
  <2> QED
    BY <2>1, FS_EmptySet DEF Hours
<1>2. ASSUME a <= b, \A u \in a..(b - 1) : Serves(c, z, u)
      PROVE  Hours(c, z, a, b) = b - a
  <2>1. Service(c, z, a, b) = a..(b - 1)
    BY <1>2 DEF Service
  <2>2. Cardinality(a..(b - 1)) = IF a > b - 1 THEN 0 ELSE (b - 1) - a + 1
    BY b - 1 \in Int, FS_Interval
  <2> QED
    BY <1>2, <2>1, <2>2 DEF Hours
<1> QED
  BY <1>1, <1>2

\* What lies within one day has the hours that lie between its opening and its closing.
LEMMA HoursOfDay ==
  ASSUME WellSet, NEW c \in Configs, NEW z \in Zones, NEW d \in Int, NEW a \in Int, NEW e \in Int,
         Midnight(z, d) <= a, a <= e, e <= Midnight(z, d + 1)
  PROVE  Hours(c, z, a, e) =
           IF WorksOnDay(c, d) /\ Larger(a, OpenOf(c, z, d)) < Smaller(e, CloseOf(c, z, d))
           THEN Smaller(e, CloseOf(c, z, d)) - Larger(a, OpenOf(c, z, d)) ELSE 0
<1> DEFINE f == Larger(a, OpenOf(c, z, d))
           t == Smaller(e, CloseOf(c, z, d))
<1>1. \A u \in a..(e - 1) : u \in Int /\ DateOf(z, u) = d
  <2>1. \A u \in Int : /\ DateOf(z, u) \in Int
                       /\ DateOf(z, u) < d <=> u < Midnight(z, d)
                       /\ DateOf(z, u) < d + 1 <=> u < Midnight(z, d + 1)
    BY d + 1 \in Int, DayShape
  <2>2. Midnight(z, d) \in Int /\ Midnight(z, d + 1) \in Int
    BY d + 1 \in Int, DayShape
  <2> QED
    BY <2>1, <2>2
<1>2. OpenOf(c, z, d) \in Int /\ CloseOf(c, z, d) \in Int
  BY DayShape
<1>3. /\ f \in Int /\ t \in Int /\ a <= f /\ t <= e
      /\ \A u \in Int : a <= u /\ u < e => (OpenOf(c, z, d) <= u <=> f <= u)
                                           /\ (u < CloseOf(c, z, d) <=> u < t)
  BY ONLY <1>2, a \in Int, e \in Int DEF Larger, Smaller
<1> HIDE DEF f, t
<1>s. \A u \in a..(e - 1) : Serves(c, z, u) <=> WorksOnDay(c, d) /\ f <= u /\ u < t
  BY <1>1, <1>3 DEF Serves
<1>4. CASE ~(WorksOnDay(c, d) /\ f < t)
  <2>1. \A u \in a..(e - 1) : ~Serves(c, z, u)
    BY <1>3, <1>s, <1>4
  <2> QED
    BY <1>4, <2>1, HoursOfSpan DEF f, t
<1>5. CASE WorksOnDay(c, d) /\ f < t
  <2>1. Hours(c, z, a, f) = 0
    BY <1>3, <1>s, <1>5, HoursOfSpan
  <2>2. Hours(c, z, f, t) = t - f
    BY <1>3, <1>s, <1>5, HoursOfSpan
  <2>3. Hours(c, z, t, e) = 0
    BY <1>3, <1>s, <1>5, HoursOfSpan
  <2>4. /\ Hours(c, z, a, e) = Hours(c, z, a, f) + Hours(c, z, f, e)
        /\ Hours(c, z, f, e) = Hours(c, z, f, t) + Hours(c, z, t, e)
    BY <1>3, <1>5, HoursAddUp
  <2> QED
    BY <1>3, <1>5, <2>1, <2>2, <2>3, <2>4 DEF f, t
<1> QED
  BY <1>4, <1>5 DEF f, t

-----------------------------------------------------------------------------
\* The weeks that have passed before day d, each beginning after its day w, and the hour
\* that one day lacks once the clocks have gone forward.
WeekOf(w, d) == (d - w + WeekDays - 1) \div WeekDays
Lost(z, u)   == IF u < z.at THEN 0 ELSE Larger(0, z.shift)

\* A week passes with its day w, and k of them do in k times WeekDays days.
LEMMA WeeksPass ==
  ASSUME NEW w \in 0..(WeekDays - 1), NEW d \in Int
  PROVE  /\ WeekOf(w, d) \in Int /\ WeekOf(w, d + 1) \in Int
         /\ WeekOf(w, d + 1) <= WeekOf(w, d) + 1
         /\ d % WeekDays # w => WeekOf(w, d + 1) <= WeekOf(w, d)
         /\ \A e \in Int, k \in Nat : d + k * WeekDays <= e => WeekOf(w, d) + k <= WeekOf(w, e)
<1> DEFINE q == WeekOf(w, d)
           a(x) == x - w + WeekDays - 1
<1>0. WeekDays \in Nat \ {0} /\ w \in Int
  BY HoursAssumption
<1>1. \A x \in Int : a(x) \in Int /\ WeekOf(w, x) \in Int
  BY <1>0, Division DEF WeekOf
<1>2. \A x, p \in Int : WeekOf(w, x) < p <=> a(x) < p * WeekDays
  BY <1>0, <1>1, QuotientBefore DEF WeekOf
<1>3. /\ q \in Int /\ q * WeekDays \in Int
      /\ (q + 1) * WeekDays = q * WeekDays + WeekDays
      /\ ((q + 1) + 1) * WeekDays = (q + 1) * WeekDays + WeekDays
      /\ a(d + 1) = a(d) + 1
  BY <1>0, <1>1, Multiples
<1>4. q * WeekDays <= a(d) /\ a(d) < q * WeekDays + WeekDays
  BY <1>0, <1>1, <1>2, <1>3
<1>5. WeekOf(w, d + 1) <= q + 1
  <2>1. a(d + 1) < ((q + 1) + 1) * WeekDays
    BY <1>0, <1>1, <1>3, <1>4
  <2>2. WeekOf(w, d + 1) < (q + 1) + 1
    BY ONLY <1>2, <1>3, <2>1, d + 1 \in Int, (q + 1) + 1 \in Int
  <2> QED
    BY <1>1, <1>3, <2>2, d + 1 \in Int
<1>6. ASSUME d % WeekDays # w
      PROVE  WeekOf(w, d + 1) <= q
  <2>1. (q * WeekDays + w) % WeekDays = w
    BY <1>0, <1>3, RemainderOf
  <2>2. d # q * WeekDays + w
    BY <1>6, <2>1
  <2>3. a(d) + 1 < q * WeekDays + WeekDays
    <3>1. PICK m \in Int : m = q * WeekDays
      BY <1>3
    <3>2. d # m + w /\ a(d) < m + WeekDays
      BY <1>4, <2>2, <3>1
    <3>3. a(d) + 1 < m + WeekDays
      BY ONLY <3>1, <3>2, <1>0, d \in Int
    <3> QED
      BY <3>1, <3>3
  <2>4. a(d + 1) < (q + 1) * WeekDays
    BY <1>3, <2>3
  <2>5. WeekOf(w, d + 1) < q + 1
    BY ONLY <1>2, <1>3, <2>4, d + 1 \in Int, q + 1 \in Int
  <2> QED
    BY <1>1, <1>3, <2>5, d + 1 \in Int
<1>7. ASSUME NEW e \in Int, NEW k \in Nat, d + k * WeekDays <= e
      PROVE  q + k <= WeekOf(w, e)
  <2>1. (q + k) * WeekDays = q * WeekDays + k * WeekDays /\ k * WeekDays \in Int
    BY <1>0, <1>3
  <2>2. ~(a(e) < (q + k) * WeekDays)
    BY <1>0, <1>1, <1>3, <1>4, <1>7, <2>1
  <2> QED
    BY <1>1, <1>2, <1>3, <2>2
<1> QED
  BY <1>1, <1>5, <1>6, <1>7

\* A working day is as long as its hours, but for the hour it may lack.
LEMMA DayIsLong ==
  ASSUME WellSet, NEW c \in Configs, NEW z \in Zones, NEW d \in Int
  PROVE  /\ Lost(z, Midnight(z, d)) \in Nat /\ Lost(z, Midnight(z, d + 1)) \in Nat
         /\ Lost(z, Midnight(z, d)) <= Lost(z, Midnight(z, d + 1))
         /\ Lost(z, Midnight(z, d + 1)) <= Larger(0, z.shift)
         /\ c.dayStart < c.dayEnd =>
              c.dayEnd - c.dayStart <= CloseOf(c, z, d) - OpenOf(c, z, d)
                                       + Lost(z, Midnight(z, d + 1)) - Lost(z, Midnight(z, d))
<1>1. /\ z.base \in Int /\ z.shift \in Int /\ z.at \in Int
      /\ c.dayStart \in 0..(DayLength - 1) /\ c.dayEnd \in 0..DayLength /\ DayLength \in Nat \ {0}
  BY HoursAssumption DEF WellSet, HoursInDay
<1>2. /\ d * DayLength \in Int /\ (d + 1) * DayLength = d * DayLength + DayLength
      /\ ShownOnce(z, d * DayLength) /\ ShownOnce(z, (d + 1) * DayLength)
      /\ ShownOnce(z, d * DayLength + c.dayStart) /\ ShownOnce(z, d * DayLength + c.dayEnd)
  BY <1>1, d + 1 \in Int, MarksShownOnce, Multiples
<1> QED
  BY <1>1, <1>2
     DEF Lost, Midnight, OpenOf, CloseOf, UtcOf, ShownOnce, ChangeFirst, ChangeEnd, Smaller, Larger

-----------------------------------------------------------------------------
\* The day that the cursor is in, and the day of the start.
Today    == DateOf(zone, cursor)
FirstDay == DateOf(zone, start)

\* A loop makes one turn for each day, and after the first each begins at midnight.
OnePerDay ==
  /\ start <= cursor /\ Today = FirstDay + turns
  /\ turns = 0 => cursor = start
  /\ turns > 0 => cursor = Midnight(zone, Today)

\* What lies behind the cursor has been charged, and something is left to charge.
Charged ==
  pc = "add" /\ Sane =>
    /\ Hours(config, zone, start, cursor) + remaining = target
    /\ target > 0 => remaining > 0

\* Each week that has passed since the first day took a working day off what is left.
WeeksCharged ==
  pc = "add" /\ Sane /\ turns > 0 =>
    \A w \in config.days :
      remaining + (config.dayEnd - config.dayStart) * (WeekOf(w, Today) - WeekOf(w, FirstDay + 1))
        <= target + Lost(zone, cursor)

\* The deadline leaves the target's hours, and ends in one of them, on a day that the
\* turns of a loop reach.
DueFound ==
  pc # "add" /\ Sane =>
    /\ start <= due /\ Hours(config, zone, start, due) = target
    /\ target = 0 => due = start
    /\ target > 0 => /\ Serves(config, zone, due - 1)
                     /\ DateOf(zone, due - 1) < FirstDay + MaxTurns

\* What lies behind the cursor has been counted, up to the deadline.
Counted ==
  /\ pc = "add" => total = 0
  /\ pc = "between" => total = IF Sane THEN Hours(config, zone, start, Smaller(cursor, due)) ELSE 0
  /\ pc = "done" => total = IF Sane THEN target ELSE 0

HoursInv == HoursTypeOK /\ OnePerDay /\ Charged /\ WeeksCharged /\ DueFound /\ Counted

\* What a turn works with, in terms of the configuration, the zone and the day.
LEMMA CursorDay ==
  ASSUME WellSet, HoursTypeOK
  PROVE  /\ Today \in Int /\ Midnight(zone, Today) <= cursor /\ cursor < Midnight(zone, Today + 1)
         /\ Midnight(zone, Today) \in Int /\ Midnight(zone, Today + 1) \in Int
         /\ OpenOf(config, zone, Today) \in Int /\ CloseOf(config, zone, Today) \in Int
         /\ Open(cursor) = OpenOf(config, zone, Today)
         /\ Close(cursor) = CloseOf(config, zone, Today)
         /\ IsWorkingDay(cursor) <=> WorksOnDay(config, Today)
         /\ StartOfNextDay(cursor) = Midnight(zone, Today + 1)
         /\ From \in Int /\ cursor <= From /\ From = Larger(cursor, OpenOf(config, zone, Today))
         /\ StartOfNextDay(From) = Midnight(zone, Today + 1)
         /\ DateOf(zone, Midnight(zone, Today + 1)) = Today + 1
<1>1. /\ config \in Configs /\ zone \in Zones /\ cursor \in Int
  BY DEF HoursTypeOK
<1>2. Today \in Int
  BY <1>1, DayShape DEF Today
<1>3. /\ Midnight(zone, Today) \in Int /\ Midnight(zone, Today + 1) \in Int
      /\ OpenOf(config, zone, Today) \in Int /\ CloseOf(config, zone, Today) \in Int
      /\ Midnight(zone, Today) <= OpenOf(config, zone, Today)
      /\ OpenOf(config, zone, Today) < Midnight(zone, Today + 1)
      /\ Midnight(zone, Today + 1) < Midnight(zone, (Today + 1) + 1)
  <2> DEFINE n == Today + 1
  <2>1. n \in Int /\ n + 1 \in Int
    BY <1>2
  <2> HIDE DEF n
  <2>2. /\ Midnight(zone, n) \in Int /\ Midnight(zone, n + 1) \in Int
        /\ OpenOf(config, zone, n) \in Int
        /\ Midnight(zone, n) <= OpenOf(config, zone, n)
        /\ OpenOf(config, zone, n) < Midnight(zone, n + 1)
    BY <1>1, <2>1, DayShape
  <2>3. Midnight(zone, n) < Midnight(zone, n + 1)
    BY <2>2
  <2>4. /\ Midnight(zone, Today) \in Int
        /\ OpenOf(config, zone, Today) \in Int /\ CloseOf(config, zone, Today) \in Int
        /\ Midnight(zone, Today) <= OpenOf(config, zone, Today)
        /\ OpenOf(config, zone, Today) < Midnight(zone, Today + 1)
    BY <1>1, <1>2, DayShape
  <2> QED
    BY <2>2, <2>3, <2>4 DEF n
<1>4. \A u \in Int : /\ DateOf(zone, u) \in Int
                     /\ DateOf(zone, u) < Today <=> u < Midnight(zone, Today)
                     /\ DateOf(zone, u) < Today + 1 <=> u < Midnight(zone, Today + 1)
                     /\ DateOf(zone, u) < (Today + 1) + 1 <=> u < Midnight(zone, (Today + 1) + 1)
  BY <1>1, <1>2, Today + 1 \in Int, (Today + 1) + 1 \in Int, DayShape
<1>5. Midnight(zone, Today) <= cursor /\ cursor < Midnight(zone, Today + 1)
  BY <1>1, <1>2, <1>3, <1>4 DEF Today
<1>6. DateOf(zone, Midnight(zone, Today + 1)) = Today + 1
  BY <1>2, <1>3, <1>4
<1>7. /\ Open(cursor) = OpenOf(config, zone, Today)
      /\ Close(cursor) = CloseOf(config, zone, Today)
      /\ IsWorkingDay(cursor) <=> WorksOnDay(config, Today)
      /\ StartOfNextDay(cursor) = Midnight(zone, Today + 1)
  BY <1>1, InTerms DEF Today
<1>8. /\ From \in Int /\ cursor <= From /\ From = Larger(cursor, OpenOf(config, zone, Today))
      /\ Midnight(zone, Today) <= From /\ From < Midnight(zone, Today + 1)
  BY <1>1, <1>3, <1>5, <1>7 DEF From, Larger
<1>9. DateOf(zone, From) = Today
  BY <1>2, <1>3, <1>4, <1>8
<1>10. StartOfNextDay(From) = Midnight(zone, Today + 1)
  BY <1>1, <1>8, <1>9, InTerms
<1> QED
  BY <1>2, <1>3, <1>5, <1>6, <1>7, <1>8, <1>10

\* A turn that does not return goes to the next midnight.
Turn == SkipDayOff \/ SkipAfterClose \/ UseUpDay \/ CountDay

\* It is a day's turn, and nothing else moves.
LEMMA TurnsGoOn ==
  ASSUME WellSet, HoursTypeOK, Turn
  PROVE  /\ cursor' = Midnight(zone, Today + 1) /\ cursor' \in Int /\ cursor < cursor'
         /\ Today' = Today + 1 /\ FirstDay' = FirstDay
         /\ turns' = turns + 1 /\ turns < MaxTurns
         /\ UNCHANGED <<pc, config, zone, start, target, due>> /\ (Sane' <=> Sane)
<1>1. /\ cursor' = StartOfNextDay(cursor) \/ cursor' = StartOfNextDay(From)
      /\ turns' = turns + 1 /\ turns < MaxTurns
      /\ UNCHANGED <<pc, config, zone, start, target, due>>
  BY DEF Turn, SkipDayOff, SkipAfterClose, UseUpDay, CountDay, CountFrom, NextDay, Adding,
         Counting, input
<1>2. cursor' = Midnight(zone, Today + 1) /\ cursor' \in Int /\ cursor < cursor'
  BY <1>1, CursorDay
<1>3. Today' = DateOf(zone, cursor') /\ FirstDay' = FirstDay
  BY <1>1 DEF Today, FirstDay
<1> QED
  BY <1>1, <1>2, <1>3, CursorDay DEF Sane

\* The turns move the cursor on.
LEMMA OnePerDayKept ==
  ASSUME WellSet, HoursTypeOK, OnePerDay, [HoursNext]_hoursVars
  PROVE  OnePerDay'
<1>1. CASE Turn
  <2>1. start \in Int /\ cursor \in Int /\ turns \in Nat
    BY HoursAssumption DEF HoursTypeOK
  <2>2. /\ cursor' = Midnight(zone, Today + 1) /\ cursor' \in Int /\ cursor < cursor'
        /\ Today' = Today + 1 /\ FirstDay' = FirstDay /\ turns' = turns + 1
        /\ zone' = zone /\ start' = start
    BY <1>1, TurnsGoOn
  <2>3. start <= cursor /\ Today = FirstDay + turns /\ Today \in Int /\ FirstDay \in Int
    BY CursorDay, <2>1, DayShape, 0 \in Int DEF OnePerDay, FirstDay, HoursTypeOK
  <2>4. start' <= cursor' /\ Today' = FirstDay' + turns' /\ turns' # 0
    BY <2>1, <2>2, <2>3
  <2>5. cursor' = Midnight(zone', Today')
    BY <2>2
  <2> QED
    BY <2>4, <2>5 DEF OnePerDay
<1>2. CASE AddNothing \/ Finish \/ GiveUp
  <2>1. cursor' = start /\ turns' = 0 /\ zone' = zone /\ start' = start /\ start \in Int
    BY <1>2, HoursAssumption DEF AddNothing, Finish, GiveUp, ReturnDue, input, HoursTypeOK
  <2>2. DateOf(zone, start) \in Int
    BY <2>1, 0 \in Int, DayShape DEF HoursTypeOK
  <2> QED
    BY <2>1, <2>2 DEF OnePerDay, Today, FirstDay
<1>3. CASE CountEnds \/ UNCHANGED hoursVars
  BY <1>3 DEF CountEnds, hoursVars, input, OnePerDay, Today, FirstDay
<1> QED
  BY <1>1, <1>2, <1>3 DEF HoursNext, Turn

\* A turn of addWorkingHours charges the hours of its day.
LEMMA TurnCharges ==
  ASSUME WellSet, HoursTypeOK, OnePerDay, pc = "add", Turn
  PROVE  /\ cursor \in Int /\ cursor' \in Int /\ start \in Int /\ remaining \in Int
         /\ Hours(config, zone, cursor, cursor') = remaining - remaining'
         /\ remaining' \in 0..target /\ (target > 0 /\ remaining > 0 => remaining' > 0)
         /\ IF WorksOnDay(config, Today) /\ From < CloseOf(config, zone, Today)
            THEN remaining' = remaining - (CloseOf(config, zone, Today) - From)
            ELSE remaining' = remaining
<1>1. SkipDayOff \/ SkipAfterClose \/ UseUpDay
  BY DEF Turn, CountDay, CountFrom, Counting
<1>2. /\ cursor \in Int /\ cursor' \in Int /\ start \in Int /\ remaining \in 0..target
      /\ cursor < cursor' /\ target \in Nat
  BY TurnsGoOn, HoursAssumption DEF HoursTypeOK
<1>3. IF WorksOnDay(config, Today) /\ From < CloseOf(config, zone, Today)
      THEN /\ remaining' = remaining - (CloseOf(config, zone, Today) - From)
           /\ remaining > CloseOf(config, zone, Today) - From
      ELSE remaining' = remaining
  BY <1>1, <1>2, CursorDay DEF SkipDayOff, SkipAfterClose, UseUpDay, NextDay, Fits, Available
<1>4. Hours(config, zone, cursor, cursor') =
        IF WorksOnDay(config, Today) /\ From < CloseOf(config, zone, Today)
        THEN CloseOf(config, zone, Today) - From ELSE 0
  <2>1. cursor' = Midnight(zone, Today + 1)
    BY TurnsGoOn
  <2>2. Smaller(cursor', CloseOf(config, zone, Today)) = CloseOf(config, zone, Today)
    BY <2>1, <1>2, CursorDay, DayShape DEF Smaller, HoursTypeOK
  <2> QED
    BY <1>2, <2>1, <2>2, CursorDay, HoursOfDay DEF HoursTypeOK
<1> QED
  BY <1>2, <1>3, <1>4, CursorDay

\* The turn that returns does so after what is left of the target, on its own day.
LEMMA FinishCharges ==
  ASSUME WellSet, HoursTypeOK, OnePerDay, Charged, Finish
  PROVE  /\ due' \in Nat /\ cursor < due' /\ start <= cursor /\ Sane
         /\ Hours(config, zone, start, due') = target
         /\ Serves(config, zone, due' - 1) /\ DateOf(zone, due' - 1) = FirstDay + turns
         /\ turns < MaxTurns
<1>1. /\ cursor \in Nat /\ start \in Nat /\ remaining \in Nat /\ target \in Nat
      /\ config \in Configs /\ zone \in Zones /\ turns \in Nat
  BY HoursAssumption DEF HoursTypeOK
<1>2. /\ due' = From + remaining /\ WorksOnDay(config, Today) /\ pc = "add"
      /\ From < CloseOf(config, zone, Today) /\ due' <= CloseOf(config, zone, Today)
      /\ target > 0 /\ turns < MaxTurns
  BY <1>1, CursorDay DEF Finish, Fits, Available, ReturnDue, Adding
<1>3. /\ Today \in Int /\ From \in Int /\ cursor <= From
      /\ From = Larger(cursor, OpenOf(config, zone, Today))
      /\ OpenOf(config, zone, Today) \in Int /\ CloseOf(config, zone, Today) \in Int
      /\ Midnight(zone, Today) <= cursor
  BY CursorDay
<1>4. Sane
  <2>1. OpenOf(config, zone, Today) < CloseOf(config, zone, Today)
    BY <1>1, <1>2, <1>3 DEF Larger
  <2> QED
    BY <1>1, <1>3, <2>1, DayShape DEF Sane
<1>5. remaining > 0 /\ Hours(config, zone, start, cursor) + remaining = target
  BY <1>2, <1>4 DEF Charged
<1>6. due' \in Nat /\ From < due' /\ cursor < due' /\ due' <= Midnight(zone, Today + 1)
  <2>1. /\ CloseOf(config, zone, Today) <= Midnight(zone, Today + 1)
        /\ Midnight(zone, Today + 1) \in Int
    BY <1>1, <1>3, CursorDay, DayShape
  <2> QED
    BY <1>1, <1>2, <1>3, <1>5, <2>1
<1>7. Hours(config, zone, cursor, due') = remaining
  <2>1. Smaller(due', CloseOf(config, zone, Today)) = due'
    BY <1>2, <1>3, <1>6 DEF Smaller
  <2>2. Hours(config, zone, cursor, due') = due' - From
    BY <1>1, <1>2, <1>3, <1>6, <2>1, HoursOfDay
  <2> QED
    BY <1>1, <1>2, <1>3, <2>2
<1>8. Hours(config, zone, start, due') = target
  <2>1. start <= cursor
    BY DEF OnePerDay
  <2>2. Hours(config, zone, start, due')
          = Hours(config, zone, start, cursor) + Hours(config, zone, cursor, due')
    BY <1>1, <1>6, <2>1, HoursAddUp
  <2> QED
    BY <1>5, <1>7, <2>2
<1>9. DateOf(zone, due' - 1) = Today /\ Serves(config, zone, due' - 1)
  <2>1. /\ due' - 1 \in Int /\ From <= due' - 1 /\ due' - 1 < CloseOf(config, zone, Today)
        /\ Midnight(zone, Today) <= due' - 1 /\ due' - 1 < Midnight(zone, Today + 1)
        /\ OpenOf(config, zone, Today) <= due' - 1
    BY <1>1, <1>2, <1>3, <1>6, CursorDay DEF Larger
  <2>2. /\ DateOf(zone, due' - 1) \in Int
        /\ ~(DateOf(zone, due' - 1) < Today) /\ DateOf(zone, due' - 1) < Today + 1
    BY <1>1, <1>3, <2>1, Today + 1 \in Int, CursorDay, DayShape
  <2>3. DateOf(zone, due' - 1) = Today
    BY <1>3, <2>2
  <2> QED
    BY <1>2, <2>1, <2>3 DEF Serves
<1> QED
  BY <1>2, <1>4, <1>6, <1>8, <1>9 DEF OnePerDay

\* Before the first turn nothing is behind the cursor, and each turn charges its day.
LEMMA ChargedKept ==
  ASSUME WellSet, HoursTypeOK, OnePerDay, Charged, [HoursNext]_hoursVars
  PROVE  Charged'
<1>1. CASE Turn
  <2> SUFFICES ASSUME pc' = "add", Sane'
               PROVE  /\ (Hours(config, zone, start, cursor) + remaining = target)'
                      /\ (target > 0 => remaining > 0)'
    BY DEF Charged
  <2>1. /\ pc = "add" /\ Sane /\ cursor < cursor'
        /\ UNCHANGED <<config, zone, start, target>>
    BY <1>1, TurnsGoOn
  <2>2. /\ cursor \in Int /\ cursor' \in Int /\ start \in Int /\ remaining \in Int
        /\ start <= cursor
        /\ Hours(config, zone, cursor, cursor') = remaining - remaining' /\ remaining' \in Int
        /\ target > 0 /\ remaining > 0 => remaining' > 0
    BY <1>1, <2>1, TurnCharges DEF OnePerDay
  <2>3. Hours(config, zone, start, cursor')
          = Hours(config, zone, start, cursor) + Hours(config, zone, cursor, cursor')
    BY <2>1, <2>2, HoursAddUp
  <2>4. Hours(config, zone, start, cursor) + remaining = target /\ (target > 0 => remaining > 0)
        /\ Hours(config, zone, start, cursor) \in Nat
    BY <2>1, <2>2, HoursAddUp DEF Charged
  <2>5. Hours(config, zone, start, cursor') + remaining' = target
    BY <2>2, <2>3, <2>4
  <2> QED
    BY <2>1, <2>2, <2>4, <2>5
<1>2. CASE AddNothing \/ Finish \/ GiveUp \/ CountEnds
  BY <1>2 DEF AddNothing, Finish, GiveUp, CountEnds, ReturnDue, Charged
<1>3. CASE UNCHANGED hoursVars
  BY <1>3 DEF hoursVars, Charged, Sane
<1> QED
  BY <1>1, <1>2, <1>3 DEF HoursNext, Turn

\* The weeks that pass are charged: a day off passes no week of a working day w, and a whole
\* working day takes its hours.
LEMMA WeeksChargedKept ==
  ASSUME WellSet, HoursTypeOK, OnePerDay, Charged, WeeksCharged, [HoursNext]_hoursVars
  PROVE  WeeksCharged'
<1> DEFINE len == config.dayEnd - config.dayStart
<1>1. CASE Turn
  <2> SUFFICES ASSUME pc' = "add", Sane', NEW w \in config'.days
               PROVE  remaining' + (config.dayEnd - config.dayStart)'
                                   * (WeekOf(w, Today') - WeekOf(w, FirstDay' + 1))
                        <= target' + Lost(zone', cursor')
    BY DEF WeeksCharged
  <2>1. /\ pc = "add" /\ Sane /\ cursor' = Midnight(zone, Today + 1)
        /\ Today' = Today + 1 /\ FirstDay' = FirstDay
        /\ UNCHANGED <<config, zone, start, target>>
    BY <1>1, TurnsGoOn
  <2>2. /\ w \in 0..(WeekDays - 1) /\ w \in config.days
        /\ config \in Configs /\ zone \in Zones /\ start \in Int /\ target \in Nat
        /\ len \in Nat /\ len > 0 /\ remaining \in 0..target /\ turns \in Nat
    BY <2>1, HoursAssumption DEF HoursTypeOK, Sane
  <2>3. /\ remaining' \in 0..target
        /\ IF WorksOnDay(config, Today) /\ From < CloseOf(config, zone, Today)
           THEN remaining' = remaining - (CloseOf(config, zone, Today) - From)
           ELSE remaining' = remaining
    BY <1>1, <2>1, TurnCharges
  <2>4. Today \in Int /\ FirstDay \in Int /\ Today = FirstDay + turns
    BY <2>2, CursorDay, DayShape, 0 \in Int DEF OnePerDay, FirstDay
  <2> DEFINE before == WeekOf(w, Today) - WeekOf(w, FirstDay + 1)
             after  == WeekOf(w, Today + 1) - WeekOf(w, FirstDay + 1)
             lost   == Lost(zone, Midnight(zone, Today))
             lost2  == Lost(zone, Midnight(zone, Today + 1))
  <2>5. /\ before \in Int /\ after \in Int /\ after <= before + 1
        /\ ~WorksOnDay(config, Today) => after <= before
    BY <2>2, <2>4, FirstDay + 1 \in Int, WeeksPass DEF WorksOnDay
  <2>6. /\ lost \in Nat /\ lost2 \in Nat /\ lost <= lost2
        /\ len <= CloseOf(config, zone, Today) - OpenOf(config, zone, Today) + lost2 - lost
    BY <2>1, <2>2, <2>4, DayIsLong DEF Sane
  <2>7. CASE turns = 0
    <3>1. after = 0
      <4>1. Today = FirstDay
        BY <2>4, <2>7
      <4>2. after = WeekOf(w, Today + 1) - WeekOf(w, Today + 1)
        BY <4>1
      <4>3. WeekOf(w, Today + 1) \in Int
        BY <2>2, <2>4, WeeksPass
      <4> QED
        BY <4>2, <4>3
    <3>2. remaining' + len * after <= target + lost2
      BY <2>2, <2>3, <2>6, <3>1
    <3> QED
      BY <2>1, <3>2
  <2>8. CASE turns > 0
    <3>1. remaining + len * before <= target + lost /\ cursor = Midnight(zone, Today)
      BY <2>1, <2>2, <2>8 DEF WeeksCharged, OnePerDay
    <3>2. /\ From = OpenOf(config, zone, Today) /\ From < CloseOf(config, zone, Today)
          /\ From \in Int /\ CloseOf(config, zone, Today) \in Int
      <4>1. /\ Midnight(zone, Today) <= OpenOf(config, zone, Today)
            /\ OpenOf(config, zone, Today) < CloseOf(config, zone, Today)
        BY <2>1, <2>2, <2>4, DayShape DEF Sane
      <4>2. /\ From = Larger(cursor, OpenOf(config, zone, Today)) /\ cursor \in Int
            /\ OpenOf(config, zone, Today) \in Int /\ CloseOf(config, zone, Today) \in Int
        BY CursorDay DEF HoursTypeOK
      <4>3. From = OpenOf(config, zone, Today)
        BY ONLY <3>1, <4>1, <4>2 DEF Larger
      <4> QED
        BY <4>1, <4>2, <4>3
    <3> HIDE DEF before, after, len, lost, lost2
    <3>3. len * before \in Int /\ len * after \in Int
      BY <2>2, <2>5
    <3>4. CASE WorksOnDay(config, Today)
      <4>1. len * after <= len * before + len
        BY <2>2, <2>5
      <4>2. remaining' + len <= remaining + lost2 - lost
        BY <2>2, <2>3, <2>6, <3>2, <3>4
      <4> QED
        BY ONLY <2>1, <2>2, <2>3, <2>6, <3>1, <3>3, <4>1, <4>2 DEF after, len, lost2
    <3>5. CASE ~WorksOnDay(config, Today)
      <4>1. len * after <= len * before
        BY <2>2, <2>5, <3>5
      <4>2. remaining' = remaining
        BY <2>3, <3>5
      <4> QED
        BY ONLY <2>1, <2>2, <2>3, <2>6, <3>1, <3>3, <4>1, <4>2 DEF after, len, lost2
    <3> QED
      BY <3>4, <3>5
  <2> QED
    BY <2>2, <2>7, <2>8
<1>2. CASE AddNothing \/ Finish \/ GiveUp \/ CountEnds
  BY <1>2 DEF AddNothing, Finish, GiveUp, CountEnds, ReturnDue, WeeksCharged
<1>3. CASE UNCHANGED hoursVars
  BY <1>3 DEF hoursVars, WeeksCharged, Sane, Today, FirstDay
<1> QED
  BY <1>1, <1>2, <1>3 DEF HoursNext, Turn

\* The turns suffice: a sane configuration never runs into the guard of the loop.
LEMMA GuardUnused ==
  ASSUME WellSet, HoursTypeOK, OnePerDay, Charged, WeeksCharged, GiveUp
  PROVE  ~Sane
<1> SUFFICES ASSUME Sane PROVE FALSE
  OBVIOUS
<1> DEFINE len == config.dayEnd - config.dayStart
<1>1. /\ config \in Configs /\ zone \in Zones /\ target \in Targets /\ start \in Int
      /\ MaxTurns \in Nat /\ target \in Nat /\ remaining \in Nat /\ len \in Nat /\ len > 0
      /\ WeekDays \in Nat \ {0} /\ zone.shift \in Int
  BY HoursAssumption DEF HoursTypeOK, Sane
<1>2. config.days # {} /\ config.days \subseteq 0..(WeekDays - 1)
  BY <1>1, HoursAssumption
<1>2a. TurnsSuffice(config, zone, target)
  BY <1>1 DEF WellSet
<1>3. PICK k \in 0..MaxTurns : k * WeekDays < MaxTurns /\ target + Larger(0, zone.shift) <= k * len
  BY <1>2a DEF TurnsSuffice, Sane
<1>4. PICK w \in config.days : w \in 0..(WeekDays - 1)
  BY <1>2
<1>5. pc = "add" /\ target > 0 /\ turns = MaxTurns /\ remaining > 0
  BY DEF GiveUp, Charged
<1>6. k * WeekDays \in Nat /\ turns > 0
  BY <1>1, <1>3, <1>5
<1> DEFINE weeks == WeekOf(w, Today) - WeekOf(w, FirstDay + 1)
<1>7. weeks \in Int /\ k <= weeks
  <2>1. FirstDay \in Int /\ Today \in Int /\ Today = FirstDay + turns
    BY <1>1, CursorDay, DayShape, 0 \in Int DEF OnePerDay, FirstDay
  <2>2. (FirstDay + 1) + k * WeekDays <= Today /\ FirstDay + 1 \in Int
    BY <1>1, <1>3, <1>5, <1>6, <2>1
  <2>3. /\ WeekOf(w, FirstDay + 1) \in Int /\ WeekOf(w, Today) \in Int
        /\ WeekOf(w, FirstDay + 1) + k <= WeekOf(w, Today)
    BY <1>4, <2>1, <2>2, k \in Nat, WeeksPass
  <2> QED
    BY <2>3
<1>8. remaining + len * weeks <= target + Lost(zone, cursor)
  BY <1>5, <1>6 DEF WeeksCharged
<1>9. Lost(zone, cursor) \in Int /\ Lost(zone, cursor) <= Larger(0, zone.shift)
  BY <1>1 DEF Lost, Larger
<1> HIDE DEF len, weeks
<1>10. k * len <= len * weeks /\ k * len \in Int /\ len * weeks \in Int
  BY <1>1, <1>3, <1>7
<1> QED
  BY <1>1, <1>3, <1>5, <1>8, <1>9, <1>10 DEF Larger

\* The clock, its configuration and its counters have their types after every step.
LEMMA HoursTypesKept ==
  ASSUME WellSet, HoursTypeOK, OnePerDay, Charged, [HoursNext]_hoursVars
  PROVE  HoursTypeOK'
<1>0. /\ start \in Nat /\ target \in Nat /\ MaxTurns \in Nat
      /\ cursor \in Nat /\ turns \in 0..MaxTurns
      /\ remaining \in 0..target /\ total \in Nat /\ due \in Nat
  BY HoursAssumption DEF HoursTypeOK
<1>1. CASE Turn
  <2>1. /\ cursor' \in Nat /\ turns' \in 0..MaxTurns
        /\ UNCHANGED <<pc, config, zone, start, target, due>>
    BY <1>0, <1>1, TurnsGoOn
  <2>2. CASE pc = "add"
    <3>1. total' = total
      BY <1>1, <2>2
         DEF Turn, SkipDayOff, SkipAfterClose, UseUpDay, CountDay, CountFrom, Counting, NextDay
    <3>2. remaining' \in 0..target
      BY <1>1, <2>2, TurnCharges
    <3> QED
      BY <2>1, <3>1, <3>2 DEF HoursTypeOK
  <2>3. CASE pc # "add"
    <3>1. CountDay
      BY <1>1, <2>3 DEF Turn, SkipDayOff, SkipAfterClose, UseUpDay, Adding
    <3> DEFINE a == Larger(cursor, Open(cursor))
               b == Smaller(due, Close(cursor))
    <3>2. a \in Int /\ b \in Int
      BY <1>0, CursorDay DEF Larger, Smaller
    <3>3. remaining' = remaining /\ total' \in {total, total + (b - a)} /\ (total' = total \/ b > a)
      BY <1>0, <3>1, <3>2 DEF CountDay, CountFrom
    <3>4. total' \in Nat
      BY <1>0, <3>2, <3>3
    <3> QED
      BY <2>1, <3>3, <3>4 DEF HoursTypeOK
  <2> QED
    BY <2>2, <2>3
<1>2. CASE AddNothing \/ Finish \/ GiveUp
  <2>1. due' \in Nat
    BY <1>0, <1>2, FinishCharges DEF AddNothing, GiveUp, ReturnDue
  <2> QED
    BY <1>0, <1>2, <2>1 DEF AddNothing, Finish, GiveUp, ReturnDue, input, HoursTypeOK
<1>3. CASE CountEnds \/ UNCHANGED hoursVars
  BY <1>3 DEF CountEnds, hoursVars, input, HoursTypeOK
<1> QED
  BY <1>1, <1>2, <1>3 DEF HoursNext, Turn

\* The deadline is found by the turn that returns it, and stays.
LEMMA DueFoundKept ==
  ASSUME WellSet, HoursInv, [HoursNext]_hoursVars
  PROVE  DueFound'
<1>0. /\ HoursTypeOK /\ OnePerDay /\ Charged /\ WeeksCharged /\ DueFound
      /\ start \in Nat /\ target \in Nat /\ turns \in Nat
  BY HoursAssumption DEF HoursInv, HoursTypeOK
<1>1. CASE AddNothing
  <2>1. Hours(config, zone, start, start) = 0
    BY <1>0, HoursOfSpan
  <2> QED
    BY <1>0, <1>1, <2>1 DEF AddNothing, ReturnDue, input, DueFound
<1>2. CASE Finish
  <2>1. /\ start <= due' /\ Hours(config, zone, start, due') = target /\ target > 0
        /\ Serves(config, zone, due' - 1) /\ DateOf(zone, due' - 1) < FirstDay + MaxTurns
    <3>1. /\ due' \in Nat /\ cursor < due' /\ start <= cursor /\ cursor \in Nat
          /\ Hours(config, zone, start, due') = target
          /\ Serves(config, zone, due' - 1) /\ DateOf(zone, due' - 1) = FirstDay + turns
          /\ turns < MaxTurns /\ MaxTurns \in Nat
      BY <1>0, <1>2, HoursAssumption, FinishCharges DEF HoursTypeOK
    <3>2. FirstDay \in Int
      BY <1>0, DayShape, 0 \in Int DEF FirstDay, HoursTypeOK
    <3> QED
      BY <1>0, <1>2, <3>1, <3>2 DEF Finish, Adding
  <2> QED
    BY <1>0, <1>2, <2>1 DEF Finish, ReturnDue, input, DueFound, FirstDay
<1>3. CASE GiveUp
  <2>1. ~Sane /\ config' = config
    BY <1>0, <1>3, GuardUnused DEF GiveUp, ReturnDue, input
  <2> QED
    BY <2>1 DEF DueFound, Sane
<1>4. CASE Turn
  BY <1>0, <1>4, TurnsGoOn DEF DueFound
<1>5. CASE CountEnds \/ UNCHANGED hoursVars
  BY <1>0, <1>5 DEF CountEnds, hoursVars, input, DueFound, Sane, FirstDay
<1> QED
  BY <1>1, <1>2, <1>3, <1>4, <1>5 DEF HoursNext, Turn

\* A turn of workingHoursBetween counts the hours of its day, up to the deadline.
LEMMA TurnCounts ==
  ASSUME WellSet, HoursInv, CountDay
  PROVE  total' = IF Sane THEN Hours(config, zone, start, Smaller(cursor', due)) ELSE 0
<1> DEFINE o == OpenOf(config, zone, Today)
           l == CloseOf(config, zone, Today)
           e == Smaller(cursor', due)
<1>1. /\ HoursTypeOK /\ OnePerDay /\ Counted /\ Turn
      /\ config \in Configs /\ zone \in Zones
      /\ start \in Int /\ cursor \in Int /\ due \in Int /\ total \in Nat /\ start <= cursor
      /\ pc = "between" /\ cursor < due
  BY HoursAssumption DEF HoursInv, HoursTypeOK, OnePerDay, Turn, CountDay, CountFrom, Counting
<1>2. /\ o \in Int /\ l \in Int /\ Today \in Int /\ Midnight(zone, Today) <= cursor
      /\ Open(cursor) = o /\ Close(cursor) = l
      /\ (IsWorkingDay(cursor) <=> WorksOnDay(config, Today))
      /\ Midnight(zone, Today + 1) \in Int
  BY <1>1, CursorDay
<1>3. cursor' = Midnight(zone, Today + 1) /\ cursor < cursor'
  BY <1>1, TurnsGoOn
<1>4. l <= Midnight(zone, Today + 1) /\ (o < l <=> Sane)
  BY <1>1, <1>2, DayShape DEF Sane
<1> HIDE DEF o, l
<1>5. total' = total + IF WorksOnDay(config, Today) /\ Larger(cursor, o) < Smaller(due, l)
                       THEN Smaller(due, l) - Larger(cursor, o) ELSE 0
  BY <1>1, <1>2 DEF CountDay, CountFrom, Larger, Smaller
<1>6. CASE ~Sane
  <2>1. ~(Larger(cursor, o) < Smaller(due, l))
    BY <1>1, <1>2, <1>4, <1>6 DEF Larger, Smaller
  <2> QED
    BY <1>1, <1>5, <1>6, <2>1 DEF Counted
<1>7. CASE Sane
  <2>1. /\ e \in Int /\ cursor <= e /\ e <= Midnight(zone, Today + 1)
        /\ Smaller(e, l) = Smaller(due, l)
    BY <1>1, <1>2, <1>3, <1>4 DEF Smaller
  <2> HIDE DEF e
  <2>2. Hours(config, zone, cursor, e) =
          IF WorksOnDay(config, Today) /\ Larger(cursor, o) < Smaller(due, l)
          THEN Smaller(due, l) - Larger(cursor, o) ELSE 0
    BY <1>1, <1>2, <2>1, HoursOfDay DEF o, l
  <2>3. /\ Hours(config, zone, start, e)
             = Hours(config, zone, start, cursor) + Hours(config, zone, cursor, e)
        /\ Hours(config, zone, start, cursor) \in Nat
    BY <1>1, <2>1, HoursAddUp
  <2>4. total = Hours(config, zone, start, cursor)
    BY <1>1, <1>7 DEF Counted, Smaller
  <2> QED
    BY <1>5, <1>7, <2>2, <2>3, <2>4 DEF e
<1> QED
  BY <1>6, <1>7

\* The count begins at nothing, goes on from day to day, and ends at the deadline.
LEMMA CountedKept ==
  ASSUME WellSet, HoursInv, [HoursNext]_hoursVars
  PROVE  Counted'
<1>0. /\ HoursTypeOK /\ OnePerDay /\ Charged /\ WeeksCharged /\ DueFound /\ Counted
      /\ start \in Nat /\ target \in Nat /\ due \in Nat /\ cursor \in Nat
      /\ turns \in 0..MaxTurns /\ MaxTurns \in Nat
      /\ config \in Configs /\ zone \in Zones
  BY HoursAssumption DEF HoursInv, HoursTypeOK
<1>1. CASE SkipDayOff \/ SkipAfterClose \/ UseUpDay
  <2>1. pc' = "add" /\ pc = "add" /\ total' = total
    BY <1>1 DEF SkipDayOff, SkipAfterClose, UseUpDay, NextDay, Adding
  <2> QED
    BY <1>0, <2>1 DEF Counted
<1>2. CASE AddNothing \/ Finish \/ GiveUp
  <2>1. /\ total' = 0 /\ pc' = "between" /\ cursor' = start
        /\ UNCHANGED <<config, zone, start>>
    BY <1>0, <1>2 DEF AddNothing, Finish, Adding, GiveUp, ReturnDue, input, Counted
  <2>2. Sane => due' \in Nat /\ start <= due'
    BY <1>0, <1>2, FinishCharges, GuardUnused DEF AddNothing, ReturnDue
  <2>3. Hours(config, zone, start, start) = 0
    BY <1>0, HoursOfSpan
  <2>4. Sane => Hours(config, zone, start, Smaller(start, due')) = 0
    BY <1>0, <2>1, <2>2, <2>3 DEF Smaller
  <2> QED
    BY <2>1, <2>4 DEF Counted, Sane
<1>3. CASE CountDay
  <2>1. /\ total' = IF Sane THEN Hours(config, zone, start, Smaller(cursor', due)) ELSE 0
        /\ pc = "between" /\ UNCHANGED <<pc, config, zone, start, target, due>>
    BY <1>3, TurnCounts DEF CountDay, CountFrom, Counting, input
  <2> QED
    BY <2>1 DEF Counted, Sane
<1>4. CASE CountEnds
  <2>1. /\ pc = "between" /\ pc' = "done" /\ total' = total
        /\ UNCHANGED <<config, zone, start, target>> /\ (turns = MaxTurns \/ due <= cursor)
    BY <1>0, <1>4 DEF CountEnds, Counting, input
  <2>2. ASSUME Sane PROVE due <= cursor
    <3> SUFFICES ASSUME cursor < due PROVE FALSE
      BY <1>0
    <3>1. turns = MaxTurns /\ start < due
      BY <1>0, <2>1 DEF OnePerDay
    <3>2. DateOf(zone, due - 1) < FirstDay + MaxTurns
      BY <1>0, <2>1, <2>2, <3>1 DEF DueFound
    <3>3. Today = FirstDay + MaxTurns /\ cursor <= due - 1 /\ due - 1 \in Int
      BY <1>0, <3>1 DEF OnePerDay
    <3>4. Today \in Int /\ Midnight(zone, Today) <= due - 1 /\ Midnight(zone, Today) \in Int
      BY <1>0, <3>3, CursorDay
    <3>5. ~(DateOf(zone, due - 1) < Today)
      BY <1>0, <3>3, <3>4, DayShape
    <3> QED
      BY <3>2, <3>3, <3>5
  <2>3. Sane => total = target
    BY <1>0, <2>1, <2>2 DEF Counted, DueFound, Smaller
  <2> QED
    BY <1>0, <2>1, <2>3 DEF Counted, Sane
<1>5. CASE UNCHANGED hoursVars
  BY <1>0, <1>5 DEF hoursVars, Counted, Sane
<1> QED
  BY <1>1, <1>2, <1>3, <1>4, <1>5 DEF HoursNext

\* The clock starts on its first day with all of the target to charge.
LEMMA HoursInitially ==
  ASSUME HoursInit, WellSet
  PROVE  HoursInv
<1>1. /\ start \in Nat /\ target \in Nat /\ MaxTurns \in Nat /\ zone \in Zones /\ config \in Configs
      /\ cursor = start /\ turns = 0 /\ remaining = target /\ pc = "add" /\ total = 0 /\ due = start
  BY HoursAssumption DEF HoursInit
<1>2. HoursTypeOK
  BY <1>1 DEF HoursInit, HoursTypeOK
<1>3. OnePerDay
  <2>1. DateOf(zone, start) \in Int
    BY <1>1, 0 \in Int, DayShape
  <2> QED
    BY <1>1, <2>1 DEF OnePerDay, Today, FirstDay
<1>4. Hours(config, zone, start, start) = 0
  BY <1>1, HoursOfSpan
<1> QED
  BY <1>1, <1>2, <1>3, <1>4 DEF HoursInv, Charged, WeeksCharged, DueFound, Counted

\* What holds of the two loops at every turn (addWorkingHours, workingHoursBetween).
THEOREM HoursInvariant ==
  ASSUME WellSet
  PROVE  HoursSpec => []HoursInv
<1>1. HoursInit => HoursInv
  BY HoursInitially
<1>2. HoursInv /\ [HoursNext]_hoursVars => HoursInv'
  <2> SUFFICES ASSUME HoursInv, [HoursNext]_hoursVars PROVE HoursInv'
    OBVIOUS
  <2>1. HoursTypeOK /\ OnePerDay /\ Charged /\ WeeksCharged
    BY DEF HoursInv
  <2>2. HoursTypeOK' /\ OnePerDay' /\ Charged' /\ WeeksCharged'
    BY <2>1, HoursTypesKept, OnePerDayKept, ChargedKept, WeeksChargedKept
  <2>3. DueFound' /\ Counted'
    BY DueFoundKept, CountedKept
  <2> QED
    BY <2>2, <2>3 DEF HoursInv
<1> QED
  BY <1>1, <1>2, PTL DEF HoursSpec

\* The deadline is the first instant that leaves the target's working time after the start,
\* nothing is charged twice or lost on the way, and counting from the start to the deadline
\* gives the target back (addWorkingHours, workingHoursBetween).
THEOREM LoopsAlwaysCorrect ==
  ASSUME WellSet
  PROVE  HoursSpec => []LoopsCorrect
<1>1. HoursInv => LoopsCorrect
  <2> SUFFICES ASSUME HoursInv PROVE LoopsCorrect
    OBVIOUS
  <2>1. /\ HoursTypeOK /\ start \in Int /\ cursor \in Int /\ due \in Int /\ due - 1 \in Int
        /\ config \in Configs /\ zone \in Zones /\ target \in Nat
    BY HoursAssumption DEF HoursInv, HoursTypeOK
  <2>2. /\ Worked(start, due) = Hours(config, zone, start, due)
        /\ Worked(start, cursor) = Hours(config, zone, start, cursor)
        /\ InHours(due - 1) <=> Serves(config, zone, due - 1)
    BY <2>1, WorkedInTerms, InTerms
  <2>3. DueAfterTarget
    BY <2>2 DEF HoursInv, DueFound, DueAfterTarget
  <2>4. NothingLost
    BY <2>2 DEF HoursInv, Charged, NothingLost
  <2>5. RoundTrip
    BY DEF HoursInv, Counted, RoundTrip
  <2> QED
    BY <2>1, <2>3, <2>4, <2>5 DEF LoopsCorrect
<1> QED
  BY <1>1, HoursInvariant, PTL

\* Every turn of a loop moves its cursor on (startOfZonedDayPlus).
THEOREM TurnsAlwaysAdvance ==
  ASSUME WellSet
  PROVE  HoursSpec => TurnsAdvance
<1>1. HoursInv /\ [HoursNext]_hoursVars => [pc' = pc => cursor' > cursor]_hoursVars
  <2> SUFFICES ASSUME HoursInv, HoursNext, pc' = pc PROVE cursor' > cursor
    BY DEF hoursVars
  <2>1. HoursTypeOK /\ cursor \in Int
    BY DEF HoursInv, HoursTypeOK
  <2>2. Turn
    BY DEF HoursNext, Turn, AddNothing, Finish, GiveUp, CountEnds, ReturnDue, Adding
  <2> QED
    BY <2>1, <2>2, TurnsGoOn
<1> QED
  BY <1>1, HoursInvariant, PTL DEF HoursSpec, TurnsAdvance

\* With whole hours of a day, targets of up to four hours (SLA_TARGET_HOURS), 3650 turns and
\* clocks that move by no more than a day, it is enough that they do not change at midnight,
\* opening or closing; where they never change, as in the default zone, nothing is asked.
THEOREM SettingsFit ==
  ASSUME NEW u \in Nat \ {0}, DayLength = 24 * u, WeekDays = 7, MaxTurns = 3650,
         \A c \in Configs : \E a \in 0..23, b \in 0..24 : c.dayStart = a * u /\ c.dayEnd = b * u,
         \A z \in Zones, c \in Configs : z.shift = 0 \/ (z.shift <= 24 * u /\ MarksClear(c, z)),
         \A t \in Targets : t <= 4 * u
  PROVE  WellSet
<1> SUFFICES ASSUME NEW c \in Configs, NEW z \in Zones
             PROVE  HoursInDay(c) /\ MarksClear(c, z) /\ \A t \in Targets : TurnsSuffice(c, z, t)
  BY DEF WellSet
<1>1. z.base \in Int /\ z.shift \in Int /\ z.at \in Int /\ Targets \subseteq Nat
  BY HoursAssumption
<1>2. PICK a \in 0..23, b \in 0..24 : c.dayStart = a * u /\ c.dayEnd = b * u
  OBVIOUS
<1>3. HoursInDay(c)
  <2>1. 0 <= a * u /\ a * u + u <= 24 * u /\ 0 <= b * u /\ b * u <= 24 * u
    BY <1>2
  <2> QED
    BY <1>2, <2>1 DEF HoursInDay
<1>4. MarksClear(c, z)
  <2>1. CASE z.shift = 0
    BY <1>1, <2>1 DEF MarksClear, ChangeFirst, ChangeEnd, Smaller, Larger
  <2>2. CASE z.shift # 0
    BY <2>2
  <2> QED
    BY <2>1, <2>2
<1>5. ASSUME NEW t \in Targets, c.dayStart < c.dayEnd
      PROVE  t + Larger(0, z.shift) <= 28 * (c.dayEnd - c.dayStart)
  <2>1. t \in Nat /\ t <= 4 * u /\ z.shift <= 24 * u
    BY <1>1
  <2>2. u <= c.dayEnd - c.dayStart /\ c.dayEnd - c.dayStart \in Int
    <3>1. a < b => a * u + u <= b * u
      BY <1>2, Multiples
    <3>2. b <= a => b * u <= a * u
      BY <1>2, Multiples
    <3> QED
      BY <1>2, <1>5, <3>1, <3>2
  <2> QED
    BY <1>1, <2>1, <2>2 DEF Larger
<1>6. \A t \in Targets : TurnsSuffice(c, z, t)
  BY <1>5, 28 \in 0..MaxTurns, 28 * WeekDays < MaxTurns DEF TurnsSuffice
<1> QED
  BY <1>3, <1>4, <1>6

\* The guard of the loop is, as the comment beside it says, unreachable with any sane
\* configuration (addWorkingHours).
THEOREM GuardUnreachable ==
  ASSUME WellSet
  PROVE  HoursSpec => [][~(GiveUp /\ Sane)]_hoursVars
<1>1. HoursInv /\ [HoursNext]_hoursVars => [~(GiveUp /\ Sane)]_hoursVars
  BY GuardUnused DEF HoursInv
<1> QED
  BY <1>1, HoursInvariant, PTL DEF HoursSpec

\* What WellSet excludes goes wrong everywhere behind UTC: where the clocks skip the hour
\* after midnight, the day after the last hour of the day before begins at that hour, so
\* that the loops stand still there (zonedTimeToUtc).
THEOREM MidnightStandsStill ==
  ASSUME zone \in Zones, zone.base < 0, zone.shift \in 1..DayLength,
         NEW d \in Int, zone.at + zone.base = d * DayLength
  PROVE  StartOfNextDay(zone.at - zone.shift) = zone.at - zone.shift
<1> DEFINE last == zone.at - zone.shift
<1>1. /\ zone.base \in Int /\ zone.shift \in Int /\ zone.at \in Int /\ DayLength \in Nat \ {0}
      /\ last \in Int /\ d * DayLength \in Int
  BY HoursAssumption, Multiples
<1>2. Local(last) = (d - 1) * DayLength + (DayLength - zone.shift)
  <2>1. Local(last) = d * DayLength - zone.shift
    BY <1>1 DEF Local, ZoneOffset
  <2>2. ((d - 1) + 1) * DayLength = (d - 1) * DayLength + DayLength /\ (d - 1) * DayLength \in Int
    BY <1>1, d - 1 \in Int, Multiples
  <2> QED
    BY <1>1, <2>1, <2>2
<1>3. DayOf(last) = d - 1
  <2>1. DayLength - zone.shift \in 0..(DayLength - 1)
    BY <1>1
  <2> QED
    BY <1>1, <1>2, <2>1, d - 1 \in Int, RemainderOf DEF DayOf
<1>4. ZonedTimeToUtc(d * DayLength) = last
  BY <1>1 DEF ZonedTimeToUtc, ZoneOffset
<1> QED
  BY <1>3, <1>4 DEF StartOfNextDay
=============================================================================
