------------------------------ MODULE TicketDesk ------------------------------
(***************************************************************************)
(* The ticket handlers: src/src/services/ticket.service.ts, the recycle-bin *)
(* operations on tickets and scripts/recalculate-sla.ts.                    *)
(*                                                                         *)
(* changeStatus and update read the ticket, decide from what they read, and *)
(* then write by id; assign reads only the agent; the script reads all open *)
(* tickets and then writes them one by one.  Between a reading and its      *)
(* write other handlers run.  Emails are rows of the same transaction.      *)
(* Attachments are the business of RecycleBin, delivery that of             *)
(* NotificationOutbox.                                                      *)
(***************************************************************************)
EXTENDS Naturals

CONSTANTS
  Tickets,    \* ticket ids
  Agents,     \* active accounts that tickets can be assigned to
  Tasks,      \* handlers and script runs that can be in progress at once
  Priorities, \* the priorities in play, "medium" among them
  Unresolved, \* the statuses before resolution in play, "open" among them
  MaxTime,    \* bound: clock ticks
  MaxMails,   \* bound: status changes per ticket
  MaxReplies, \* bound: comments that count as public or were mailed, per ticket
  None

ASSUME DeskAssumption ==
  /\ "medium" \in Priorities
  /\ "open" \in Unresolved /\ Unresolved \subseteq {"open", "in_progress", "waiting"}
  /\ MaxTime \in Nat /\ MaxMails \in Nat /\ MaxReplies \in Nat
  /\ None \notin 0..MaxTime

Closed   == {"resolved", "closed"}
Statuses == Unresolved \union Closed
Times    == 0..MaxTime

VARIABLES
  row,      \* the Ticket rows
  mails,    \* the status emails of a ticket: how many, and the last one
  replies,  \* its public comments, and the reply emails queued
  now,      \* the clock
  policy,   \* version of SLA_TARGET_HOURS in force
  task,     \* what each task has read and means to write
  moves,    \* observer: its status changes likewise, as they happened
  reopened, \* observer: when a closed ticket was last opened again
  overlap   \* observer: <<ticket, field>> that two tasks worked on at once, and
            \* <<ticket, "bin">> while it is in the bin, deleted under another task's hands

tables    == <<row, mails, replies>>
observers == <<moves, reopened, overlap>>
vars      == <<tables, now, policy, task, observers>>

\* A deadline is slaDueDate(start, priority) under a version of the targets.
Deadline == [start : Times, priority : Priorities, policy : {0, 1}]

Row == [place : {"absent", "live", "bin", "gone"}, status : Statuses,
        priority : Priorities, createdAt : Times, dueDate : Deadline,
        resolvedAt : Times \union {None}, assignee : Agents \union {None}]

Task == [pc : {"idle", "status", "assign", "update", "comment", "script"},
         id : Tickets \union {None}, status : Statuses,
         resolvedAt : Times \union {None}, priority : Priorities,
         ask : Statuses \union Priorities \union Agents \union {"internal", "public", None},
         batch : SUBSET (Tickets \X Priorities)]

Idle == [pc |-> "idle", id |-> None, status |-> "open", resolvedAt |-> None,
         priority |-> "medium", ask |-> None, batch |-> {}]

Move  == [from : Statuses, to : Statuses]
Moves == [count : 0..MaxMails, last : Move \union {None}]

TypeOK ==
  /\ row \in [Tickets -> Row]
  /\ mails \in [Tickets -> Moves]
  /\ replies \in [Tickets -> [public : 0..MaxReplies, mailed : 0..MaxReplies]]
  /\ now \in Times /\ policy \in {0, 1}
  /\ task \in [Tasks -> Task]
  /\ moves \in [Tickets -> Moves]
  /\ reopened \in [Tickets -> Times]
  /\ overlap \subseteq Tickets \X {"status", "deadline", "bin"}

NoRow == [place |-> "absent", status |-> "open", priority |-> "medium", createdAt |-> 0,
          dueDate |-> [start |-> 0, priority |-> "medium", policy |-> 0],
          resolvedAt |-> None, assignee |-> None]

NoMoves   == [count |-> 0, last |-> None]
NoReplies == [public |-> 0, mailed |-> 0]

Init ==
  /\ row = [i \in Tickets |-> NoRow]
  /\ mails = [i \in Tickets |-> NoMoves]
  /\ replies = [i \in Tickets |-> NoReplies]
  /\ now = 0 /\ policy = 0
  /\ task = [k \in Tasks |-> Idle]
  /\ moves = [i \in Tickets |-> NoMoves]
  /\ reopened = [i \in Tickets |-> 0]
  /\ overlap = {}

-----------------------------------------------------------------------------
Exists(i) == row[i].place \in {"live", "bin"}

\* Task k is between its reading of field f of ticket i and its write.
WorksOn(k, i, f) ==
  \/ f = "status" /\ task[k].pc = "status" /\ task[k].id = i
  \/ f = "deadline" /\ task[k].pc = "update" /\ task[k].id = i
  \/ f = "deadline" /\ task[k].pc = "script" /\ \E p \in Priorities : <<i, p>> \in task[k].batch
  \/ f = "bin" /\ task[k].pc # "idle" /\ task[k].id = i
  \/ f = "bin" /\ task[k].pc = "script" /\ \E p \in Priorities : <<i, p>> \in task[k].batch

NoteOverlap(k, ids, f) ==
  overlap' = overlap \union {<<i, f>> : i \in {j \in ids : \E l \in Tasks \ {k} : WorksOn(l, j, f)}}

Begin(k, t) == task[k].pc = "idle" /\ task' = [task EXCEPT ![k] = t]

Return(k) == task' = [task EXCEPT ![k] = Idle]

SlaDueDate(start, p) == [start |-> start, priority |-> p, policy |-> policy]

-----------------------------------------------------------------------------
\* create(): a public report, always of medium priority.
Create(k, i) ==
  /\ task[k].pc = "idle" /\ row[i].place = "absent"
  /\ row' = [row EXCEPT ![i].place = "live", ![i].createdAt = now,
                        ![i].dueDate = SlaDueDate(now, "medium")]
  /\ UNCHANGED <<mails, replies, now, policy, task, observers>>

\* Mutant: the reading does not filter on isDeleted.
StatusReadBinned(k, i, s, note) ==
  /\ Exists(i)
  /\ s # row[i].status \/ note
  /\ moves[i].count < MaxMails
  /\ Begin(k, [Idle EXCEPT !.pc = "status", !.id = i, !.ask = s,
                 !.status = row[i].status, !.resolvedAt = row[i].resolvedAt])
  /\ NoteOverlap(k, {i}, "status")
  /\ UNCHANGED <<tables, now, policy, moves, reopened>>

\* changeStatus(): the reading, and the early return of a change to the same status
\* without a note.
StatusRead(k, i, s, note) ==
  /\ row[i].place = "live"
  /\ s # row[i].status \/ note
  /\ moves[i].count < MaxMails
  /\ Begin(k, [Idle EXCEPT !.pc = "status", !.id = i, !.ask = s,
                 !.status = row[i].status, !.resolvedAt = row[i].resolvedAt])
  /\ NoteOverlap(k, {i}, "status")
  /\ UNCHANGED <<tables, now, policy, moves, reopened>>

Another(ms, m) == [count |-> ms.count + 1, last |-> m]

\* The transaction of changeStatus(), given the stamp and whether it mails.
StatusWrite(k, stamp, sent) ==
  LET t == task[k]
      i == t.id
  IN /\ t.pc = "status" /\ Exists(i) /\ moves[i].count < MaxMails
     /\ row' = [row EXCEPT ![i].status = t.ask, ![i].resolvedAt = stamp]
     /\ mails' = [mails EXCEPT ![i] = IF sent THEN Another(@, [from |-> t.status, to |-> t.ask]) ELSE @]
     /\ moves' = [moves EXCEPT ![i] = Another(@, [from |-> row[i].status, to |-> t.ask])]
     /\ reopened' = IF row[i].status \in Closed /\ t.ask \notin Closed
                    THEN [reopened EXCEPT ![i] = now] ELSE reopened
     /\ Return(k)
     /\ UNCHANGED <<replies, now, policy, overlap>>

Stamp(t) == IF t.ask \notin Closed THEN None
            ELSE IF t.resolvedAt # None THEN t.resolvedAt ELSE now

\* Mutants: reopening keeps the stamp; the stamp is the creation time; closing a
\* resolved ticket stamps it again; a note without a move is not mailed.
StatusKeepsStamp(k) ==
  StatusWrite(k, IF task[k].resolvedAt # None THEN task[k].resolvedAt ELSE Stamp(task[k]),
              TRUE)

StatusStampsCreation(k) ==
  StatusWrite(k, IF Stamp(task[k]) = None THEN None ELSE row[task[k].id].createdAt, TRUE)

StatusStampsAgain(k) ==
  StatusWrite(k, IF Stamp(task[k]) = None THEN None ELSE now, TRUE)

StatusMailsMovesOnly(k) ==
  StatusWrite(k, Stamp(task[k]), task[k].status # task[k].ask)

\* Closing keeps the stamp that was read and opening clears it.
StatusCommit(k) == StatusWrite(k, Stamp(task[k]), TRUE)

\* assign(): the agent is read, the ticket is not.
AssignRead(k, i, a) ==
  /\ row[i].place # "absent" /\ a \in Agents \union {None}
  /\ Begin(k, [Idle EXCEPT !.pc = "assign", !.id = i, !.ask = a])
  /\ UNCHANGED <<tables, now, policy, observers>>

AssignCommit(k) ==
  /\ task[k].pc = "assign" /\ Exists(task[k].id)
  /\ row' = [row EXCEPT ![task[k].id].assignee = task[k].ask]
  /\ Return(k)
  /\ UNCHANGED <<mails, replies, now, policy, observers>>

\* update(): with a priority, or with other fields only (None).
UpdateRead(k, i, p) ==
  /\ row[i].place = "live"
  /\ Begin(k, [Idle EXCEPT !.pc = "update", !.id = i, !.ask = p, !.priority = row[i].priority])
  /\ NoteOverlap(k, {i}, "deadline")
  /\ UNCHANGED <<tables, now, policy, moves, reopened>>

UpdateWrite(k, priority, dueDate) ==
  LET i == task[k].id IN
  /\ task[k].pc = "update" /\ Exists(i)
  /\ row' = [row EXCEPT ![i].priority = priority, ![i].dueDate = dueDate]
  /\ Return(k)
  /\ UNCHANGED <<mails, replies, now, policy, observers>>

Asked(k) == IF task[k].ask = None THEN row[task[k].id].priority ELSE task[k].ask

PriorityChanged(k) == task[k].ask \notin {None, task[k].priority}

\* Mutants: a priority that was not given is written; the clock starts anew.
UpdateWritesUndefined(k) == UpdateWrite(k, task[k].ask, row[task[k].id].dueDate)

UpdateRestartsClock(k) ==
  UpdateWrite(k, Asked(k), IF PriorityChanged(k) THEN SlaDueDate(now, task[k].ask)
                           ELSE row[task[k].id].dueDate)

\* The deadline moves only if the priority differs from the one that was read.
UpdateCommit(k) ==
  UpdateWrite(k, Asked(k),
    IF PriorityChanged(k) THEN SlaDueDate(row[task[k].id].createdAt, task[k].ask)
    ELSE row[task[k].id].dueDate)

\* addComment(): the ticket is read, then comment and email are one transaction.
CommentRead(k, i, kind) ==
  /\ row[i].place = "live" /\ replies[i].public < MaxReplies
  /\ Begin(k, [Idle EXCEPT !.pc = "comment", !.id = i, !.ask = kind])
  /\ UNCHANGED <<tables, now, policy, observers>>

CommentWrite(k, letters) ==
  LET i == task[k].id IN
  /\ task[k].pc = "comment" /\ Exists(i) /\ replies[i].public < MaxReplies
  /\ replies' = [replies EXCEPT ![i].mailed = @ + letters,
                   ![i].public = IF task[k].ask = "public" THEN @ + 1 ELSE @]
  /\ Return(k)
  /\ UNCHANGED <<row, mails, now, policy, observers>>

\* Mutant: an internal note is mailed like a reply.
CommentMailsNotes(k) == CommentWrite(k, 1)

\* An internal note returns before the email.
CommentCommit(k) == CommentWrite(k, IF task[k].ask = "internal" THEN 0 ELSE 1)

\* The row was purged meanwhile: the write throws and the transaction rolls back.
RowVanished(k) ==
  /\ task[k].pc \in {"status", "assign", "update", "comment"} /\ ~Exists(task[k].id)
  /\ Return(k)
  /\ UNCHANGED <<tables, now, policy, observers>>

-----------------------------------------------------------------------------
\* softDelete(): one update, whatever the row was.
SoftDelete(k, i) ==
  /\ task[k].pc = "idle" /\ Exists(i)
  /\ row' = [row EXCEPT ![i].place = "bin"]
  /\ NoteOverlap(k, {i}, "bin")
  /\ UNCHANGED <<mails, replies, now, policy, task, moves, reopened>>

\* recycleBinService.restore: one update, whatever the row was.
Restore(k, i) ==
  /\ task[k].pc = "idle" /\ Exists(i)
  /\ row' = [row EXCEPT ![i].place = "live"]
  /\ overlap' = overlap \ {<<i, "bin">>}
  /\ UNCHANGED <<mails, replies, now, policy, task, moves, reopened>>

\* recycleBinService.purge and purgeExpired: the comments go with the ticket, and its
\* emails no longer belong to any ticket.
Purge(k, i) ==
  /\ task[k].pc = "idle" /\ Exists(i)
  /\ row' = [row EXCEPT ![i] = [NoRow EXCEPT !.place = "gone"]]
  /\ mails' = [mails EXCEPT ![i] = NoMoves]
  /\ moves' = [moves EXCEPT ![i] = NoMoves]
  /\ replies' = [replies EXCEPT ![i] = NoReplies]
  /\ reopened' = [reopened EXCEPT ![i] = 0]
  /\ UNCHANGED <<now, policy, task, overlap>>

-----------------------------------------------------------------------------
\* Mutant: the script lists deleted tickets too.
ScriptReadBinned(k) ==
  LET stale == {i \in Tickets :
        /\ Exists(i) /\ row[i].status \notin Closed
        /\ row[i].dueDate # SlaDueDate(row[i].createdAt, row[i].priority)}
  IN /\ stale # {}
     /\ Begin(k, [Idle EXCEPT !.pc = "script", !.batch = {<<i, row[i].priority>> : i \in stale}])
     /\ NoteOverlap(k, stale, "deadline")
     /\ UNCHANGED <<tables, now, policy, moves, reopened>>

\* recalculate-sla.ts --apply: the open tickets whose deadline is not the one their
\* priority gives under the targets in force.
ScriptRead(k) ==
  LET stale == {i \in Tickets :
        /\ row[i].place = "live" /\ row[i].status \notin Closed
        /\ row[i].dueDate # SlaDueDate(row[i].createdAt, row[i].priority)}
  IN /\ stale # {}
     /\ Begin(k, [Idle EXCEPT !.pc = "script", !.batch = {<<i, row[i].priority>> : i \in stale}])
     /\ NoteOverlap(k, stale, "deadline")
     /\ UNCHANGED <<tables, now, policy, moves, reopened>>

\* One turn of its loop; a purged row makes the script stop.
ScriptWrite(k, i, p) ==
  /\ task[k].pc = "script" /\ <<i, p>> \in task[k].batch
  /\ IF Exists(i)
     THEN /\ row' = [row EXCEPT ![i].dueDate = SlaDueDate(row[i].createdAt, p)]
          /\ task' = [task EXCEPT ![k].batch = @ \ {<<i, p>>}]
     ELSE UNCHANGED row /\ Return(k)
  /\ UNCHANGED <<mails, replies, now, policy, observers>>

ScriptEnds(k) ==
  /\ task[k].pc = "script" /\ task[k].batch = {}
  /\ Return(k)
  /\ UNCHANGED <<tables, now, policy, observers>>

-----------------------------------------------------------------------------
\* New SLA targets are deployed; requests of the old process are over by then.
Deploy ==
  /\ policy = 0 /\ policy' = 1
  /\ \A k \in Tasks : task[k].pc = "idle"
  /\ UNCHANGED <<tables, now, task, observers>>

Tick ==
  /\ now < MaxTime /\ now' = now + 1
  /\ UNCHANGED <<tables, policy, task, observers>>

\* The process dies or the database refuses a statement.
Crash(k) ==
  /\ task[k].pc # "idle"
  /\ Return(k)
  /\ UNCHANGED <<tables, now, policy, observers>>

Next ==
  \/ \E k \in Tasks :
       \/ StatusCommit(k) \/ AssignCommit(k) \/ UpdateCommit(k) \/ CommentCommit(k)
       \/ RowVanished(k) \/ ScriptRead(k) \/ ScriptEnds(k) \/ Crash(k)
       \/ \E i \in Tickets :
            \/ Create(k, i) \/ SoftDelete(k, i) \/ Restore(k, i) \/ Purge(k, i)
            \/ \E s \in Statuses, note \in BOOLEAN : StatusRead(k, i, s, note)
            \/ \E a \in Agents \union {None} : AssignRead(k, i, a)
            \/ \E p \in Priorities \union {None} : UpdateRead(k, i, p)
            \/ \E kind \in {"internal", "public"} : CommentRead(k, i, kind)
            \/ \E p \in Priorities : ScriptWrite(k, i, p)
  \/ Deploy
  \/ Tick

Spec == Init /\ [][Next]_vars

-----------------------------------------------------------------------------
\* Statistics read resolvedAt: a ticket carries a resolution time exactly while it
\* is resolved or closed, however status changes interleave.
ClosedIsStamped ==
  \A i \in Tickets : Exists(i) => (row[i].status \in Closed <=> row[i].resolvedAt # None)

\* "the resolution-time statistics never count a ticket that came back": the
\* resolution time of a ticket is never older than its last reopening.
StampIsFresh(i) == row[i].resolvedAt # None => row[i].resolvedAt >= reopened[i]

FreshUnlessOverlap ==
  \A i \in Tickets : <<i, "status">> \notin overlap => StampIsFresh(i)

\* Going from resolved to closed keeps the first resolution time.
FirstResolutionKept ==
  [][\A i \in Tickets :
       /\ <<i, "status">> \notin overlap'
       /\ {row[i].status, row'[i].status} \subseteq Closed
       => row'[i].place = "gone" \/ row'[i].resolvedAt = row[i].resolvedAt]_vars

\* "A priority change recalculates the SLA deadline from the original creation
\* time": the deadline is the one of the priority shown next to it.
DeadlineFits(i) ==
  Exists(i) => /\ row[i].dueDate.priority = row[i].priority
               /\ row[i].dueDate.start = row[i].createdAt

DeadlineUnlessOverlap ==
  \A i \in Tickets : <<i, "deadline">> \notin overlap => DeadlineFits(i)

\* Status and email are committed together: the reporter has been told every move
\* the ticket made, in order and as it happened.
MailsTellMoves ==
  \A i \in Tickets :
    /\ mails[i].count = moves[i].count
    /\ <<i, "status">> \notin overlap => mails[i] = moves[i]

\* Every public reply is mailed and no internal note is, whatever crashes.
RepliesMailed ==
  \A i \in Tickets : Exists(i) => replies[i].mailed = replies[i].public

\* A ticket in the recycle bin keeps its status, resolution time, deadline, priority and
\* comments, unless it was deleted under the hands of a handler, or of the recalculation
\* script that has it on its list: those write by id and do not look at isDeleted again.
BinFreezes ==
  [][\A i \in Tickets : row[i].place = "bin" /\ <<i, "bin">> \notin overlap =>
       \/ row'[i].place = "gone"
       \/ UNCHANGED <<row[i].status, row[i].resolvedAt, row[i].dueDate, row[i].priority,
                      replies[i]>>]_vars

\* The statistics count what is resolved, from when it was resolved.
StampsHold == TypeOK /\ ClosedIsStamped /\ FreshUnlessOverlap

\* The reporter is told what the page shows: the moves and the public replies.
MailsMatch == MailsTellMoves /\ RepliesMailed
=============================================================================
