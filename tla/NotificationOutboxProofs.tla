----------------------- MODULE NotificationOutboxProofs -----------------------
(***************************************************************************)
(* Machine-checked proofs about NotificationOutbox, for any number of       *)
(* notifications, workers, attempts and faults.                             *)
(***************************************************************************)
EXTENDS NotificationOutbox, TLAPS

\* One worker's step, whichever it is.
Step(w) ==
  \/ \E k \in Notes : Enqueue(w, k)
  \/ \E n \in Notes : RetryRead(w, n)
  \/ SweepRead(w)
  \/ Continue(w)
  \/ SendReplyLost(w)
  \/ MarkSentFails(w)
  \/ MarkSentUnheard(w)
  \/ DispatchAborts(w)
  \/ Crash(w)

\* Every step that changes something is some worker's.
LEMMA StepOfNext == [Next]_vars => UNCHANGED vars \/ \E w \in Workers : Step(w)
  BY DEF Next, Step

\* The outbox starts empty, which satisfies every part of the invariant.
LEMMA InitEstablishes == Init => OutboxInv
<1> SUFFICES ASSUME Init PROVE OutboxInv
  OBVIOUS
<1> USE DEF Init
<1>1. TypeOK
  BY OutboxAssumption DEF TypeOK, Notes
<1>2. HoldsCommitted /\ HoldsAlone
  BY DEF HoldsCommitted, HoldsAlone, Engaged
<1>3. AcceptedKnown
  BY DEF AcceptedKnown
<1>4. SendsAccounted /\ CopiesAccounted
  BY DEF SendsAccounted, CopiesAccounted
<1>5. ExhaustedIsDecided
  BY OutboxAssumption DEF ExhaustedIsDecided
<1> QED
  BY <1>1, <1>2, <1>3, <1>4, <1>5 DEF OutboxInv

\* The observer and the counters have their types after every step.
LEMMA TypePreserved == TypeOK /\ HoldsCommitted /\ [Next]_vars => TypeOK'
<1> SUFFICES ASSUME TypeOK, HoldsCommitted, [Next]_vars PROVE TypeOK'
  OBVIOUS
<1> USE OutboxAssumption DEF TypeOK, HoldsCommitted
<1>1. CASE UNCHANGED vars
  BY <1>1 DEF vars, rowVars, workerVars, envVars, mailVars
<1> SUFFICES ASSUME NEW w \in Workers, Step(w) PROVE TypeOK'
  BY <1>1, StepOfNext
<1> USE DEF rowVars, workerVars, envVars, mailVars
<1>2. CASE \E k \in Notes : Enqueue(w, k)
  BY <1>2 DEF Enqueue
<1>3. CASE \E n \in Notes : RetryRead(w, n)
  BY <1>3 DEF RetryRead, TakeInHand
<1>4. CASE SweepRead(w)
  BY <1>4 DEF SweepRead, Oldest, Retryable
<1>5. CASE DispatchRead(w)
  BY <1>5 DEF DispatchRead, Handled, TakeInHand
<1>6. CASE Send(w)
  BY <1>6 DEF Send
<1>7. CASE MarkSent(w)
  BY <1>7 DEF MarkSent, RecordSent, LetGo
<1>8. CASE MarkFailed(w)
  BY <1>8 DEF MarkFailed, LetGo
<1>9. CASE RetryMark(w)
  BY <1>9 DEF RetryMark, LetGo
<1>10. CASE SendReplyLost(w)
  BY <1>10 DEF SendReplyLost, Fault
<1>11. CASE MarkSentFails(w)
  BY <1>11 DEF MarkSentFails, Fault
<1>12. CASE DispatchAborts(w)
  BY <1>12 DEF DispatchAborts, Fault, LetGo, Handled
<1>13. CASE Crash(w)
  BY <1>13 DEF Crash, Fault, LetGo
<1>14. CASE MarkSentUnheard(w)
  BY <1>14 DEF MarkSentUnheard, RecordSent, Fault
<1> QED
  BY <1>2, <1>3, <1>4, <1>5, <1>6, <1>7, <1>8, <1>9, <1>10, <1>11, <1>12, <1>13, <1>14
  DEF Step, Continue

\* A worker only ever takes hold of rows that were committed before.
LEMMA HoldsCommittedPreserved == OutboxInv /\ TypeOK' /\ [Next]_vars => HoldsCommitted'
<1> SUFFICES ASSUME OutboxInv, TypeOK', [Next]_vars PROVE HoldsCommitted'
  OBVIOUS
<1> USE OutboxAssumption DEF OutboxInv, TypeOK, HoldsCommitted, rowVars, workerVars, envVars,
                             mailVars
<1>1. CASE UNCHANGED vars
  BY <1>1 DEF vars
<1> SUFFICES ASSUME NEW w \in Workers, Step(w) PROVE HoldsCommitted'
  BY <1>1, StepOfNext
<1>2. CASE \E k \in Notes : Enqueue(w, k)
  BY <1>2 DEF Enqueue, Free
<1>3. CASE \E n \in Notes : RetryRead(w, n)
  BY <1>3 DEF RetryRead, Free, TakeInHand, StillOwed
<1>4. CASE SweepRead(w)
  BY <1>4 DEF SweepRead, Free, Oldest, Retryable
<1>5. CASE DispatchRead(w)
  BY <1>5 DEF DispatchRead, Handled, TakeInHand, IsNext, StillOwed
<1>6. CASE Send(w)
  BY <1>6 DEF Send
<1>7. CASE MarkSent(w)
  BY <1>7 DEF MarkSent, RecordSent, LetGo
<1>8. CASE MarkFailed(w)
  BY <1>8 DEF MarkFailed, LetGo
<1>9. CASE RetryMark(w)
  BY <1>9 DEF RetryMark, LetGo
<1>10. CASE SendReplyLost(w)
  BY <1>10 DEF SendReplyLost, Fault
<1>11. CASE MarkSentFails(w)
  BY <1>11 DEF MarkSentFails, Fault
<1>12. CASE DispatchAborts(w)
  BY <1>12 DEF DispatchAborts, Fault, LetGo, Handled, IsNext
<1>13. CASE Crash(w)
  BY <1>13 DEF Crash, Fault, LetGo
<1>14. CASE MarkSentUnheard(w)
  BY <1>14 DEF MarkSentUnheard, RecordSent, Fault
<1> QED
  BY <1>2, <1>3, <1>4, <1>5, <1>6, <1>7, <1>8, <1>9, <1>10, <1>11, <1>12, <1>13, <1>14
  DEF Step, Continue

\* Taking a row in hand reads it as it is, and whoever else holds it makes it
\* overlapped; only the one holder writes it afterwards.
LEMMA HoldsAlonePreserved == OutboxInv /\ TypeOK' /\ [Next]_vars => HoldsAlone'
<1> SUFFICES ASSUME OutboxInv, TypeOK', [Next]_vars PROVE HoldsAlone'
  OBVIOUS
<1> USE OutboxAssumption DEF OutboxInv, TypeOK, HoldsAlone, HoldsCommitted, Engaged, rowVars,
                             workerVars, envVars, mailVars
<1>1. CASE UNCHANGED vars
  BY <1>1 DEF vars
<1> SUFFICES ASSUME NEW w \in Workers, Step(w) PROVE HoldsAlone'
  BY <1>1, StepOfNext
<1>2. CASE \E k \in Notes : Enqueue(w, k)
  BY <1>2 DEF Enqueue, Free
<1>3. CASE \E n \in Notes : RetryRead(w, n)
  BY <1>3 DEF RetryRead, Free, TakeInHand, StillOwed
<1>4. CASE SweepRead(w)
  BY <1>4 DEF SweepRead, Free, Oldest, Retryable
<1>5. CASE DispatchRead(w)
  BY <1>5 DEF DispatchRead, Handled, TakeInHand, IsNext, StillOwed
<1>6. CASE Send(w)
  BY <1>6 DEF Send
<1>7. CASE MarkSent(w)
  BY <1>7 DEF MarkSent, RecordSent, LetGo
<1>8. CASE MarkFailed(w)
  BY <1>8 DEF MarkFailed, LetGo
<1>9. CASE RetryMark(w)
  BY <1>9 DEF RetryMark, LetGo
<1>10. CASE SendReplyLost(w)
  BY <1>10 DEF SendReplyLost, Fault
<1>11. CASE MarkSentFails(w)
  BY <1>11 DEF MarkSentFails, Fault
<1>12. CASE DispatchAborts(w)
  BY <1>12 DEF DispatchAborts, Fault, LetGo, Handled, IsNext
<1>13. CASE Crash(w)
  BY <1>13 DEF Crash, Fault, LetGo
<1>14. CASE MarkSentUnheard(w)
  BY <1>14 DEF MarkSentUnheard, RecordSent, Fault
<1> QED
  BY <1>2, <1>3, <1>4, <1>5, <1>6, <1>7, <1>8, <1>9, <1>10, <1>11, <1>12, <1>13, <1>14
  DEF Step, Continue

\* Only the success update writes "sent", from a worker whose send() returned, and only a
\* committed row is ever sent.
LEMMA AcceptedKnownPreserved == OutboxInv /\ TypeOK' /\ [Next]_vars => AcceptedKnown'
<1> SUFFICES ASSUME OutboxInv, TypeOK', [Next]_vars PROVE AcceptedKnown'
  OBVIOUS
<1> USE OutboxAssumption DEF OutboxInv, TypeOK, AcceptedKnown, HoldsCommitted, rowVars, workerVars,
                             envVars, mailVars
<1>1. CASE UNCHANGED vars
  BY <1>1 DEF vars
<1> SUFFICES ASSUME NEW w \in Workers, Step(w) PROVE AcceptedKnown'
  BY <1>1, StepOfNext
<1>2. CASE \E k \in Notes : Enqueue(w, k)
  BY <1>2 DEF Enqueue, Free
<1>3. CASE \E n \in Notes : RetryRead(w, n)
  BY <1>3 DEF RetryRead, Free, TakeInHand, StillOwed
<1>4. CASE SweepRead(w)
  BY <1>4 DEF SweepRead, Free, Oldest, Retryable
<1>5. CASE DispatchRead(w)
  BY <1>5 DEF DispatchRead, Handled, TakeInHand, IsNext, StillOwed
<1>6. CASE Send(w)
  BY <1>6 DEF Send
<1>7. CASE MarkSent(w)
  BY <1>7 DEF MarkSent, RecordSent, LetGo
<1>8. CASE MarkFailed(w)
  BY <1>8 DEF MarkFailed, LetGo
<1>9. CASE RetryMark(w)
  BY <1>9 DEF RetryMark, LetGo
<1>10. CASE SendReplyLost(w)
  BY <1>10 DEF SendReplyLost, Fault
<1>11. CASE MarkSentFails(w)
  BY <1>11 DEF MarkSentFails, Fault
<1>12. CASE DispatchAborts(w)
  BY <1>12 DEF DispatchAborts, Fault, LetGo, Handled, IsNext
<1>13. CASE Crash(w)
  BY <1>13 DEF Crash, Fault, LetGo
<1>14. CASE MarkSentUnheard(w)
  BY <1>14 DEF MarkSentUnheard, RecordSent, Fault
<1> QED
  BY <1>2, <1>3, <1>4, <1>5, <1>6, <1>7, <1>8, <1>9, <1>10, <1>11, <1>12, <1>13, <1>14
  DEF Step, Continue

\* A send puts its worker in flight; the worker then records the attempt over the
\* count it read, which nobody else has moved, or a fault pays for it.
LEMMA SendsAccountedPreserved == OutboxInv /\ TypeOK' /\ [Next]_vars => SendsAccounted'
<1> SUFFICES ASSUME OutboxInv, TypeOK', [Next]_vars PROVE SendsAccounted'
  OBVIOUS
<1> USE OutboxAssumption DEF OutboxInv, TypeOK, SendsAccounted, HoldsAlone, HoldsCommitted,
                             Engaged, InFlight, rowVars, workerVars, envVars, mailVars
<1>1. CASE UNCHANGED vars
  BY <1>1 DEF vars
<1> SUFFICES ASSUME NEW w \in Workers, Step(w) PROVE SendsAccounted'
  BY <1>1, StepOfNext
<1>2. CASE \E k \in Notes : Enqueue(w, k)
  BY <1>2 DEF Enqueue, Free
<1>3. CASE \E n \in Notes : RetryRead(w, n)
  BY <1>3 DEF RetryRead, Free, TakeInHand, StillOwed
<1>4. CASE SweepRead(w)
  BY <1>4 DEF SweepRead, Free, Oldest, Retryable
<1>5. CASE DispatchRead(w)
  BY <1>5 DEF DispatchRead, Handled, TakeInHand, IsNext, StillOwed
<1>6. CASE Send(w)
  BY <1>6 DEF Send
<1>7. CASE MarkSent(w)
  BY <1>7 DEF MarkSent, RecordSent, LetGo
<1>8. CASE MarkFailed(w)
  BY <1>8 DEF MarkFailed, LetGo
<1>9. CASE RetryMark(w)
  BY <1>9 DEF RetryMark, LetGo
<1>10. CASE SendReplyLost(w)
  BY <1>10 DEF SendReplyLost, Fault
<1>11. CASE MarkSentFails(w)
  BY <1>11 DEF MarkSentFails, Fault
<1>12. CASE DispatchAborts(w)
  BY <1>12 DEF DispatchAborts, Fault, LetGo, Handled, IsNext
<1>13. CASE Crash(w)
  BY <1>13 DEF Crash, Fault, LetGo
<1>14. CASE MarkSentUnheard(w)
  BY <1>14 DEF MarkSentUnheard, RecordSent, Fault
<1> QED
  BY <1>2, <1>3, <1>4, <1>5, <1>6, <1>7, <1>8, <1>9, <1>10, <1>11, <1>12, <1>13, <1>14
  DEF Step, Continue

\* Once a row alone in its worker's hand is marked sent it is never sent again, so
\* a further copy needs a fault.
LEMMA CopiesAccountedPreserved == OutboxInv /\ TypeOK' /\ [Next]_vars => CopiesAccounted'
<1> SUFFICES ASSUME OutboxInv, TypeOK', [Next]_vars PROVE CopiesAccounted'
  OBVIOUS
<1> USE OutboxAssumption DEF OutboxInv, TypeOK, CopiesAccounted, HoldsAlone, HoldsCommitted,
                             Engaged, rowVars, workerVars, envVars, mailVars
<1>1. CASE UNCHANGED vars
  BY <1>1 DEF vars
<1> SUFFICES ASSUME NEW w \in Workers, Step(w) PROVE CopiesAccounted'
  BY <1>1, StepOfNext
<1>2. CASE \E k \in Notes : Enqueue(w, k)
  BY <1>2 DEF Enqueue, Free
<1>3. CASE \E n \in Notes : RetryRead(w, n)
  BY <1>3 DEF RetryRead, Free, TakeInHand, StillOwed
<1>4. CASE SweepRead(w)
  BY <1>4 DEF SweepRead, Free, Oldest, Retryable
<1>5. CASE DispatchRead(w)
  BY <1>5 DEF DispatchRead, Handled, TakeInHand, IsNext, StillOwed
<1>6. CASE Send(w)
  BY <1>6 DEF Send
<1>7. CASE MarkSent(w)
  BY <1>7 DEF MarkSent, RecordSent, LetGo
<1>8. CASE MarkFailed(w)
  BY <1>8 DEF MarkFailed, LetGo
<1>9. CASE RetryMark(w)
  BY <1>9 DEF RetryMark, LetGo
<1>10. CASE SendReplyLost(w)
  BY <1>10 DEF SendReplyLost, Fault
<1>11. CASE MarkSentFails(w)
  BY <1>11 DEF MarkSentFails, Fault
<1>12. CASE DispatchAborts(w)
  BY <1>12 DEF DispatchAborts, Fault, LetGo, Handled, IsNext
<1>13. CASE Crash(w)
  BY <1>13 DEF Crash, Fault, LetGo
<1>14. CASE MarkSentUnheard(w)
  BY <1>14 DEF MarkSentUnheard, RecordSent, Fault
<1> QED
  BY <1>2, <1>3, <1>4, <1>5, <1>6, <1>7, <1>8, <1>9, <1>10, <1>11, <1>12, <1>13, <1>14
  DEF Step, Continue

\* The attempt count reaches its limit only together with an outcome, and "pending"
\* is written back only over a row with attempts left.
LEMMA ExhaustedPreserved == OutboxInv /\ TypeOK' /\ [Next]_vars => ExhaustedIsDecided'
<1> SUFFICES ASSUME OutboxInv, TypeOK', [Next]_vars PROVE ExhaustedIsDecided'
  OBVIOUS
<1> USE OutboxAssumption DEF OutboxInv, TypeOK, ExhaustedIsDecided, HoldsAlone, HoldsCommitted,
                             Engaged, rowVars, workerVars, envVars, mailVars
<1>1. CASE UNCHANGED vars
  BY <1>1 DEF vars
<1> SUFFICES ASSUME NEW w \in Workers, Step(w) PROVE ExhaustedIsDecided'
  BY <1>1, StepOfNext
<1>2. CASE \E k \in Notes : Enqueue(w, k)
  BY <1>2 DEF Enqueue, Free
<1>3. CASE \E n \in Notes : RetryRead(w, n)
  BY <1>3 DEF RetryRead, Free, TakeInHand, StillOwed
<1>4. CASE SweepRead(w)
  BY <1>4 DEF SweepRead, Free, Oldest, Retryable
<1>5. CASE DispatchRead(w)
  BY <1>5 DEF DispatchRead, Handled, TakeInHand, IsNext, StillOwed
<1>6. CASE Send(w)
  BY <1>6 DEF Send
<1>7. CASE MarkSent(w)
  BY <1>7 DEF MarkSent, RecordSent, LetGo
<1>8. CASE MarkFailed(w)
  BY <1>8 DEF MarkFailed, LetGo
<1>9. CASE RetryMark(w)
  BY <1>9 DEF RetryMark, LetGo
<1>10. CASE SendReplyLost(w)
  BY <1>10 DEF SendReplyLost, Fault
<1>11. CASE MarkSentFails(w)
  BY <1>11 DEF MarkSentFails, Fault
<1>12. CASE DispatchAborts(w)
  BY <1>12 DEF DispatchAborts, Fault, LetGo, Handled, IsNext
<1>13. CASE Crash(w)
  BY <1>13 DEF Crash, Fault, LetGo
<1>14. CASE MarkSentUnheard(w)
  BY <1>14 DEF MarkSentUnheard, RecordSent, Fault
<1> QED
  BY <1>2, <1>3, <1>4, <1>5, <1>6, <1>7, <1>8, <1>9, <1>10, <1>11, <1>12, <1>13, <1>14
  DEF Step, Continue

-----------------------------------------------------------------------------
\* The inductive invariant holds in every reachable state.
THEOREM OutboxInvariant == Spec => []OutboxInv
<1>1. OutboxInv /\ [Next]_vars => OutboxInv'
  <2> SUFFICES ASSUME OutboxInv, [Next]_vars PROVE OutboxInv'
    OBVIOUS
  <2>1. TypeOK'
    BY TypePreserved DEF OutboxInv
  <2> QED
    BY <2>1, HoldsCommittedPreserved, HoldsAlonePreserved, AcceptedKnownPreserved,
       SendsAccountedPreserved, CopiesAccountedPreserved, ExhaustedPreserved
    DEF OutboxInv
<1> QED
  BY InitEstablishes, <1>1, PTL DEF Spec

\* Every variable keeps its type: attempts never exceeds MAX_ATTEMPTS although it is
\* written from a stale read.
THEOREM OutboxTypes == Spec => []TypeOK
  BY OutboxInvariant, PTL DEF OutboxInv

\* No email without a row, and "sent" only for a message the mail server took: for
\* every number of racing workers, overlapping or not.
THEOREM HonestOutbox == Spec => []OutboxHonest
<1>1. OutboxInv => OutboxHonest
  BY DEF OutboxInv, AcceptedKnown, OutboxHonest, TypeOK
<1> QED
  BY <1>1, OutboxInvariant, PTL

\* A notification no two workers handled at once is sent at most MAX_ATTEMPTS times,
\* plus once for each fault that hid an outcome.
THEOREM CeilingHolds == Spec => []AttemptCeiling
<1>1. OutboxInv => AttemptCeiling
  <2> SUFFICES ASSUME OutboxInv, NEW n \in Notes \ overlapped
               PROVE  tries[n] <= MaxAttempts + faults
    BY DEF AttemptCeiling
  <2> USE OutboxAssumption DEF OutboxInv, TypeOK
  <2>1. attempts[n] \in 0..MaxAttempts /\ tries[n] \in Nat /\ faults \in Nat
    OBVIOUS
  <2>2. CASE tries[n] <= attempts[n] + faults
    BY <2>1, <2>2
  <2>3. CASE /\ \E w \in Workers : Engaged(w, n) /\ InFlight(w)
             /\ tries[n] <= attempts[n] + faults + 1
    <3>1. attempts[n] < MaxAttempts
      BY <2>3 DEF HoldsAlone, HoldsCommitted, Engaged, InFlight
    <3> QED
      BY <2>1, <2>3, <3>1
  <2> QED
    BY <2>2, <2>3 DEF SendsAccounted
<1> QED
  BY <1>1, OutboxInvariant, PTL

\* Duplicate copies of such a notification are bounded by the faults.
THEOREM DuplicatesHaveCauses == Spec => []NoUncausedDuplicate
<1>1. OutboxInv => NoUncausedDuplicate
  BY OutboxAssumption DEF OutboxInv, TypeOK, CopiesAccounted, NoUncausedDuplicate
<1> QED
  BY <1>1, OutboxInvariant, PTL

\* Such a notification, once out of attempts, reads "sent" or "failed".
THEOREM ExhaustedDecided == Spec => []ExhaustedIsDecided
  BY OutboxInvariant, PTL DEF OutboxInv

\* What the log says of such a notification is never taken back, except by a worker that
\* was not told of its own success.
THEOREM LogIsMonotone == Spec => LogNeverRegresses
<1>1. OutboxInv /\ [Next]_vars => [LogKept]_vars
  <2> SUFFICES ASSUME OutboxInv, [Next]_vars, ~ UNCHANGED vars PROVE LogKept
    OBVIOUS
  <2> USE OutboxAssumption
      DEF OutboxInv, TypeOK, HoldsAlone, HoldsCommitted, Engaged, LogKept,
          rowVars, workerVars, envVars, mailVars
  <2>1. PICK w \in Workers : Step(w)
    BY StepOfNext
  <2>2. CASE \E k \in Notes : Enqueue(w, k)
    BY <2>2 DEF Enqueue, Free
  <2>3. CASE \E n \in Notes : RetryRead(w, n)
    BY <2>3 DEF RetryRead, Free, TakeInHand, StillOwed
  <2>4. CASE SweepRead(w)
    BY <2>4 DEF SweepRead, Free, Oldest, Retryable
  <2>5. CASE DispatchRead(w)
    BY <2>5 DEF DispatchRead, Handled, TakeInHand, IsNext, StillOwed
  <2>6. CASE Send(w)
    BY <2>6 DEF Send
  <2>7. CASE MarkSent(w)
    BY <2>7 DEF MarkSent, RecordSent, LetGo
  <2>8. CASE MarkFailed(w)
    BY <2>8 DEF MarkFailed, LetGo
  <2>9. CASE RetryMark(w)
    BY <2>9 DEF RetryMark, LetGo
  <2>10. CASE SendReplyLost(w)
    BY <2>10 DEF SendReplyLost, Fault
  <2>11. CASE MarkSentFails(w)
    BY <2>11 DEF MarkSentFails, Fault
  <2>12. CASE DispatchAborts(w)
    BY <2>12 DEF DispatchAborts, Fault, LetGo, Handled, IsNext
  <2>13. CASE Crash(w)
    BY <2>13 DEF Crash, Fault, LetGo
  <2>14. CASE MarkSentUnheard(w)
    BY <2>14 DEF MarkSentUnheard, RecordSent, Fault
  <2> QED
    BY <2>1, <2>2, <2>3, <2>4, <2>5, <2>6, <2>7, <2>8, <2>9, <2>10, <2>11, <2>12,
       <2>13, <2>14 DEF Step, Continue
<1> QED
  BY <1>1, OutboxInvariant, PTL DEF LogNeverRegresses, Spec
=============================================================================
