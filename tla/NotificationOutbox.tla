------------------------- MODULE NotificationOutbox -------------------------
(***************************************************************************)
(* The email outbox of the help desk: src/src/services/notification.service.ts. *)
(*                                                                         *)
(* A request commits Notification rows and then, without awaiting it, walks *)
(* over them with dispatchAll; the retry button of the notification log     *)
(* handles one row; the scheduled job and the "retry all" button sweep the  *)
(* retryable rows.  Each of these is a worker here.  dispatch() is not one  *)
(* transaction: the row is read, then the attachments are loaded and the    *)
(* mail is handed to the SMTP server, then the outcome is written back from *)
(* the values of that first read.  Every await is a point where another     *)
(* worker can run, the database can fail or the process can die.            *)
(***************************************************************************)
EXTENDS Naturals, FiniteSets

CONSTANTS
  NoteCount,    \* notifications are 1..NoteCount, numbered in creation order
  Workers,      \* tasks that can be in progress at the same time
  Sweepers,     \* the workers that run retryAllFailed
  MaxAttempts,  \* MAX_ATTEMPTS
  SweepLimit,   \* the limit argument of retryAllFailed
  MaxFaults,    \* bound: crashes, database errors and lost SMTP replies
  MaxClicks,    \* bound: presses of the retry button
  None          \* "no notification in hand"

ASSUME OutboxAssumption ==
  /\ NoteCount \in Nat
  /\ Sweepers \subseteq Workers
  /\ MaxAttempts \in Nat \ {0}
  /\ SweepLimit \in Nat
  /\ MaxFaults \in Nat
  /\ MaxClicks \in Nat

Notes == 1..NoteCount

VARIABLES
  status,      \* Notification.status, "absent" before the row is committed
  attempts,    \* Notification.attempts
  pc,          \* where each worker stands inside dispatch() or retry()
  cur,         \* the notification each worker has in hand
  seen,        \* row.attempts as that worker read it
  todo,        \* the ids each worker still has to dispatch, in memory only
  faults,      \* environment: faults so far
  clicks,      \* environment: retry presses so far
  tries,       \* observer: send() calls per notification
  accepted,    \* observer: messages the SMTP server took, per notification
  overlapped   \* observer: notifications two workers have handled at once

rowVars    == <<status, attempts>>
workerVars == <<pc, cur, seen, todo>>
envVars    == <<faults, clicks>>
mailVars   == <<tries, accepted>>
vars       == <<rowVars, workerVars, envVars, mailVars, overlapped>>

-----------------------------------------------------------------------------
TypeOK ==
  /\ status \in [Notes -> {"absent", "pending", "sent", "failed"}]
  /\ attempts \in [Notes -> 0..MaxAttempts]
  /\ pc \in [Workers -> {"idle", "retry", "send", "accepted", "refused", "rejected", "unheard"}]
  /\ cur \in [Workers -> Notes \union {None}]
  /\ seen \in [Workers -> 0..MaxAttempts]
  /\ todo \in [Workers -> SUBSET Notes]
  /\ faults \in 0..MaxFaults
  /\ clicks \in 0..MaxClicks
  /\ tries \in [Notes -> Nat]
  /\ accepted \in [Notes -> Nat]
  /\ overlapped \subseteq Notes

Init ==
  /\ status = [n \in Notes |-> "absent"]
  /\ attempts = [n \in Notes |-> 0]
  /\ pc = [w \in Workers |-> "idle"]
  /\ cur = [w \in Workers |-> None]
  /\ seen = [w \in Workers |-> 0]
  /\ todo = [w \in Workers |-> {}]
  /\ faults = 0
  /\ clicks = 0
  /\ tries = [n \in Notes |-> 0]
  /\ accepted = [n \in Notes |-> 0]
  /\ overlapped = {}

-----------------------------------------------------------------------------
Free(w) == pc[w] = "idle" /\ todo[w] = {}

\* Worker w is between its read of row n and its last write to it.
Engaged(w, n) == pc[w] # "idle" /\ cur[w] = n

\* Mutant: the sweep looks for "failed" rows only.
RetryableFailedOnly == {n \in Notes : status[n] = "failed" /\ attempts[n] < MaxAttempts}

\* The where-clause of retryAllFailed.
Retryable == {n \in Notes : status[n] \in {"failed", "pending"} /\ attempts[n] < MaxAttempts}

\* Mutants: one attempt too many; a sent row is sent again.
StillOwedOnceMore(n) == status[n] # "sent" /\ attempts[n] <= MaxAttempts
StillOwedSent(n) == attempts[n] < MaxAttempts

\* The early returns of dispatch() and retry() on the row just read.
StillOwed(n) == status[n] # "sent" /\ attempts[n] < MaxAttempts

\* orderBy createdAt asc, take k
Oldest(S, k) == {n \in S : Cardinality({m \in S : m < n}) < k}

\* dispatchAll walks its ids in creation order.
IsNext(w, n) == n \in todo[w] /\ \A m \in todo[w] : n <= m

Handled(w, n) == todo' = [todo EXCEPT ![w] = @ \ {n}]

Fault == faults < MaxFaults /\ faults' = faults + 1

\* Worker w takes row n in hand: it remembers attempts, and an observer notes
\* whether another worker holds the same row.
TakeInHand(w, n) ==
  /\ cur' = [cur EXCEPT ![w] = n]
  /\ seen' = [seen EXCEPT ![w] = attempts[n]]
  /\ overlapped' = IF \E v \in Workers \ {w} : Engaged(v, n)
                   THEN overlapped \union {n} ELSE overlapped

\* w is done with its row, and its local variables are gone.
LetGo(w) ==
  /\ pc' = [pc EXCEPT ![w] = "idle"]
  /\ cur' = [cur EXCEPT ![w] = None]
  /\ seen' = [seen EXCEPT ![w] = 0]
  /\ UNCHANGED overlapped

-----------------------------------------------------------------------------
\* A service transaction commits the rows of the still absent notifications up
\* to k (enqueue/enqueueMany); the ids live on in the request's memory.
Enqueue(w, k) ==
  LET ids == {n \in Notes : n <= k /\ status[n] = "absent"}
  IN /\ Free(w) /\ w \notin Sweepers
     /\ ids # {}
     /\ status' = [n \in Notes |-> IF n \in ids THEN "pending" ELSE status[n]]
     /\ todo' = [todo EXCEPT ![w] = ids]
     /\ UNCHANGED <<attempts, pc, cur, seen, envVars, mailVars, overlapped>>

\* Mutant: retry() looks at the status only.
RetryReadExhausted(w, n) ==
  /\ Free(w) /\ w \notin Sweepers
  /\ clicks < MaxClicks
  /\ status[n] \notin {"absent", "sent"}
  /\ clicks' = clicks + 1
  /\ pc' = [pc EXCEPT ![w] = "retry"]
  /\ TakeInHand(w, n)
  /\ UNCHANGED <<rowVars, todo, faults, mailVars>>

\* The retry button: retry() reads the row and returns early unless it is owed.
RetryRead(w, n) ==
  /\ Free(w) /\ w \notin Sweepers
  /\ clicks < MaxClicks
  /\ status[n] # "absent" /\ StillOwed(n)
  /\ clicks' = clicks + 1
  /\ pc' = [pc EXCEPT ![w] = "retry"]
  /\ TakeInHand(w, n)
  /\ UNCHANGED <<rowVars, todo, faults, mailVars>>

\* Mutant: retry() grants the row a fresh set of attempts.
RetryMarkResets(w) ==
  /\ pc[w] = "retry"
  /\ status' = [status EXCEPT ![cur[w]] = "pending"]
  /\ attempts' = [attempts EXCEPT ![cur[w]] = 0]
  /\ todo' = [todo EXCEPT ![w] = {cur[w]}]
  /\ LetGo(w)
  /\ UNCHANGED <<envVars, mailVars>>

\* retry() writes "pending" by id alone, then calls dispatch().
RetryMark(w) ==
  /\ pc[w] = "retry"
  /\ status' = [status EXCEPT ![cur[w]] = "pending"]
  /\ todo' = [todo EXCEPT ![w] = {cur[w]}]
  /\ LetGo(w)
  /\ UNCHANGED <<attempts, envVars, mailVars>>

\* retryAllFailed selects its batch.
SweepRead(w) ==
  /\ Free(w) /\ w \in Sweepers
  /\ Retryable # {}
  /\ todo' = [todo EXCEPT ![w] = Oldest(Retryable, SweepLimit)]
  /\ UNCHANGED <<rowVars, pc, cur, seen, envVars, mailVars, overlapped>>

\* dispatch(): read the row, return early or go on to send it.
DispatchRead(w) ==
  /\ pc[w] = "idle"
  /\ \E n \in Notes :
       /\ IsNext(w, n)
       /\ Handled(w, n)
       /\ IF StillOwed(n)
          THEN pc' = [pc EXCEPT ![w] = "send"] /\ TakeInHand(w, n)
          ELSE UNCHANGED <<pc, cur, seen, overlapped>>
  /\ UNCHANGED <<rowVars, envVars, mailVars>>

\* Mutant: the provider reports a refusal without throwing.
SendSwallowsRefusal(w) ==
  /\ pc[w] = "send"
  /\ tries' = [tries EXCEPT ![cur[w]] = @ + 1]
  /\ \/ accepted' = [accepted EXCEPT ![cur[w]] = @ + 1]
     \/ UNCHANGED accepted
  /\ pc' = [pc EXCEPT ![w] = "accepted"]
  /\ UNCHANGED <<rowVars, cur, seen, todo, envVars, overlapped>>

\* emailProvider().send() settles: taken; refused (4xx, network, time-out);
\* rejected for good (5xx).
Send(w) ==
  /\ pc[w] = "send"
  /\ tries' = [tries EXCEPT ![cur[w]] = @ + 1]
  /\ \/ /\ accepted' = [accepted EXCEPT ![cur[w]] = @ + 1]
        /\ pc' = [pc EXCEPT ![w] = "accepted"]
     \/ /\ \E outcome \in {"refused", "rejected"} : pc' = [pc EXCEPT ![w] = outcome]
        /\ UNCHANGED accepted
  /\ UNCHANGED <<rowVars, cur, seen, todo, envVars, overlapped>>

\* The server took the message but its reply never arrived: send() throws.
SendReplyLost(w) ==
  /\ pc[w] = "send"
  /\ Fault
  /\ tries' = [tries EXCEPT ![cur[w]] = @ + 1]
  /\ accepted' = [accepted EXCEPT ![cur[w]] = @ + 1]
  /\ pc' = [pc EXCEPT ![w] = "refused"]
  /\ UNCHANGED <<rowVars, cur, seen, todo, clicks, overlapped>>

\* The success update writes status and attempts by id, from the row as read.
RecordSent(w) ==
  /\ pc[w] = "accepted"
  /\ status' = [status EXCEPT ![cur[w]] = "sent"]
  /\ attempts' = [attempts EXCEPT ![cur[w]] = seen[w] + 1]

MarkSent(w) ==
  /\ RecordSent(w)
  /\ LetGo(w)
  /\ UNCHANGED <<todo, envVars, mailVars>>

\* The success update itself throws, before it was applied: the catch block
\* treats a mail that went out as a failed delivery, ...
MarkSentFails(w) ==
  /\ pc[w] = "accepted"
  /\ Fault
  /\ pc' = [pc EXCEPT ![w] = "refused"]
  /\ UNCHANGED <<rowVars, cur, seen, todo, clicks, mailVars, overlapped>>

\* ... or after it was, when only the database's answer is lost: the catch block
\* is then about to write over a row that says "sent".
MarkSentUnheard(w) ==
  /\ RecordSent(w)
  /\ Fault
  /\ pc' = [pc EXCEPT ![w] = "unheard"]
  /\ UNCHANGED <<cur, seen, todo, clicks, mailVars, overlapped>>

\* Mutant: a refusal is not counted.
MarkFailedUncounted(w) ==
  /\ pc[w] \in {"refused", "rejected", "unheard"}
  /\ status' = [status EXCEPT ![cur[w]] = "failed"]
  /\ attempts' = [attempts EXCEPT
       ![cur[w]] = IF pc[w] = "rejected" THEN MaxAttempts ELSE seen[w]]
  /\ LetGo(w)
  /\ UNCHANGED <<todo, envVars, mailVars>>

\* The catch block: a permanent rejection exhausts the attempts at once.
MarkFailed(w) ==
  /\ pc[w] \in {"refused", "rejected", "unheard"}
  /\ status' = [status EXCEPT ![cur[w]] = "failed"]
  /\ attempts' = [attempts EXCEPT
       ![cur[w]] = IF pc[w] = "rejected" THEN MaxAttempts ELSE seen[w] + 1]
  /\ LetGo(w)
  /\ UNCHANGED <<todo, envVars, mailVars>>

\* A database error: the row read, the attachment read or the failure update
\* throws and is swallowed, and the loop goes on to the next id.
DispatchAborts(w) ==
  /\ Fault
  /\ \/ \E n \in Notes : pc[w] = "idle" /\ IsNext(w, n) /\ Handled(w, n)
     \/ pc[w] \in {"send", "refused", "rejected", "unheard"} /\ UNCHANGED todo
  /\ LetGo(w)
  /\ UNCHANGED <<rowVars, clicks, mailVars>>

\* The process dies (and retry() rejecting on a database error ends the same
\* way): what the worker held in memory is gone.
Crash(w) ==
  /\ ~Free(w)
  /\ Fault
  /\ todo' = [todo EXCEPT ![w] = {}]
  /\ LetGo(w)
  /\ UNCHANGED <<rowVars, clicks, mailVars>>

-----------------------------------------------------------------------------
\* The steps a live worker goes on to take.
Continue(w) ==
  DispatchRead(w) \/ Send(w) \/ MarkSent(w) \/ MarkFailed(w) \/ RetryMark(w)

Next ==
  \E w \in Workers :
    \/ \E k \in Notes : Enqueue(w, k)
    \/ \E n \in Notes : RetryRead(w, n)
    \/ SweepRead(w)
    \/ Continue(w)
    \/ SendReplyLost(w)
    \/ MarkSentFails(w)
    \/ MarkSentUnheard(w)
    \/ DispatchAborts(w)
    \/ Crash(w)

Spec == Init /\ [][Next]_vars

\* A started task is run to its end unless it crashes, and the scheduler calls
\* the job again and again.  Nothing forces requests, clicks or faults.
FairSpec ==
  /\ Spec
  /\ \A w \in Workers : WF_vars(Continue(w))
  /\ \A w \in Sweepers : WF_vars(SweepRead(w))

-----------------------------------------------------------------------------
\* The rule of the service header, "no email is ever sent without a
\* Notification row", and its converse: a row reads "sent" only if the mail
\* server took the message, whatever workers raced on the row.
OutboxHonest ==
  \A n \in Notes :
    /\ tries[n] > 0 => status[n] # "absent"
    /\ status[n] = "sent" => accepted[n] > 0

\* Max 5 attempts: as long as no two workers handled the row at once, every
\* send beyond MAX_ATTEMPTS is paid for by a fault that hid an outcome.
AttemptCeiling ==
  \A n \in Notes \ overlapped : tries[n] <= MaxAttempts + faults

\* A second copy of an email needs a cause: an overlap of two workers or a
\* fault between the server taking the message and the row saying so.
NoUncausedDuplicate ==
  \A n \in Notes \ overlapped : accepted[n] <= 1 + faults

\* A row whose attempts are used up shows its outcome and is not left
\* "pending", where neither the sweep nor the button would ever pick it up.
ExhaustedIsDecided ==
  \A n \in Notes \ overlapped : attempts[n] = MaxAttempts => status[n] \in {"sent", "failed"}

\* The log never forgets, unless two workers handled the row at once: the attempt
\* count never goes down, and a sent row stays sent, but for the worker that was
\* never told that its own success was recorded and records a failure over it.
LogKept ==
  \A n \in Notes \ overlapped' :
    /\ status[n] = "sent" /\ status'[n] # "sent" =>
         status'[n] = "failed" /\ \E w \in Workers : Engaged(w, n) /\ pc[w] = "unheard"
    /\ attempts'[n] >= attempts[n]

LogNeverRegresses == [][LogKept]_vars

\* Whatever crashes, a committed notification is not forgotten: with the job
\* scheduled again and again every row ends up sent or out of attempts for good.
EventuallySettled ==
  \A n \in Notes : status[n] # "absent" ~> [](status[n] = "sent" \/ attempts[n] = MaxAttempts)

-----------------------------------------------------------------------------
\* The inductive invariant behind the properties above.  A worker that holds a
\* row nobody else has touched holds the row as it still is, so what it writes
\* back from its first read is the truth.
InFlight(w) == pc[w] \in {"accepted", "refused", "rejected"}

\* Workers hold and remember committed rows only.
HoldsCommitted ==
  \A w \in Workers :
    /\ pc[w] # "idle" => /\ cur[w] \in Notes
                         /\ status[cur[w]] # "absent"
                         /\ seen[w] < MaxAttempts
    /\ \A n \in todo[w] : status[n] # "absent"

\* A row outside overlapped is in at most one hand, which knows it exactly, or knows
\* what it was before its own update.
HoldsAlone ==
  \A n \in Notes \ overlapped : \A w \in Workers : Engaged(w, n) =>
    /\ pc[w] # "unheard" => seen[w] = attempts[n] /\ status[n] \in {"pending", "failed"}
    /\ pc[w] = "unheard" => seen[w] + 1 = attempts[n] /\ status[n] = "sent"
    /\ \A v \in Workers : Engaged(v, n) => v = w

\* What the SMTP server took, and whether a row may say so.
AcceptedKnown ==
  /\ \A w \in Workers : pc[w] = "accepted" => accepted[cur[w]] > 0
  /\ \A n \in Notes : status[n] = "sent" => accepted[n] > 0
  /\ \A n \in Notes : status[n] = "absent" => tries[n] = 0

\* Every send is in the attempt count, in flight, or hidden by a fault.
SendsAccounted ==
  \A n \in Notes \ overlapped :
    \/ tries[n] <= attempts[n] + faults
    \/ /\ \E w \in Workers : Engaged(w, n) /\ InFlight(w)
       /\ tries[n] <= attempts[n] + faults + 1

\* Every message taken is on record as sent, about to be, or cost a fault.
CopiesAccounted ==
  \A n \in Notes \ overlapped :
    \/ accepted[n] <= faults
    \/ /\ \/ status[n] = "sent" /\ \A w \in Workers : Engaged(w, n) => pc[w] # "unheard"
          \/ \E w \in Workers : Engaged(w, n) /\ pc[w] = "accepted"
       /\ accepted[n] <= faults + 1

OutboxInv ==
  /\ TypeOK
  /\ HoldsCommitted
  /\ HoldsAlone
  /\ AcceptedKnown
  /\ SendsAccounted
  /\ CopiesAccounted
  /\ ExhaustedIsDecided
=============================================================================
