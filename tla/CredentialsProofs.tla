-------------------------- MODULE CredentialsProofs --------------------------
(***************************************************************************)
(* Machine-checked proofs about Credentials, for any number of requests,    *)
(* sign-ins, links, passwords and cuts; and at the end about the keys and    *)
(* check-ins of DeviceTracking, for any finite number of requests.          *)
(***************************************************************************)
EXTENDS Credentials, DeviceTracking, FiniteSetTheorems, TLAPS

\* One request's step, whichever it is.
Step(t) == SignIn(t) \/ Reset(t) \/ Change(t) \/ Manage(t) \/ Crash(t)

\* Every step that changes something is some request's, or nobody's.
LEMMA StepOfNext ==
  [Next]_vars => \/ UNCHANGED vars \/ \E t \in Tasks : Step(t)
                 \/ SessionEnds \/ Auth \/ Enable \/ LinkExpires \/ LinksPurged
  BY DEF Next, Step

-----------------------------------------------------------------------------
(* Why an account has one session: whoever is about to insert a session has *)
(* already deleted every session that is not a twin.  A session committed   *)
(* while another transaction stood between its delete and its insert is one *)
(* by definition, and one committed earlier was there to be deleted.        *)
CycleSeesAll ==
  /\ \A t \in Tasks : task[t].pc = "issue" =>
       \A s \in sessions : ~s.twin => s.id \in task[t].doomed
  /\ \A r, s \in sessions : ~r.twin /\ ~s.twin => r = s

(* Why a link sets one password: until it has, it may still be live; from   *)
(* then on whoever had validated it shared it with the one that used it.    *)
LinksSpent ==
  /\ \A k \in Links : links[k] \in {"none", "live"} => spent[k] = 0
  /\ \A t \in Tasks : task[t].pc = "complete" =>
       task[t].link \in Links /\ links[task[t].link] # "none" /\
       (spent[task[t].link] = 0 \/ task[t].link \in met.completions)
  /\ \A t, u \in Tasks :
       /\ t # u /\ task[t].pc = "complete" /\ task[u].pc = "complete"
       /\ task[t].link = task[u].link
       => task[t].link \in met.completions

(* Why the newest link is used: as for sessions, whoever is about to insert *)
(* a link has already deleted every unused link, unless that one was        *)
(* inserted beside it; and links are numbered in the order of the inserts.  *)
RequestSeesAll ==
  /\ \A t \in Tasks : task[t].pc = "create" =>
       \A k \in Unused : k \notin met.links => k \in task[t].doomed
  /\ \A k \in Unused : k \notin met.links => \A j \in Links : j > k => links[j] = "none"
  /\ \A i, j \in Links : i < j /\ links[j] # "none" => links[i] # "none"
  /\ \A t \in Tasks : task[t].pc = "create" =>
       \A k \in task[t].doomed : k \in Links => links[k] # "none"
  /\ \A k \in Links : links[k] = "used" => spent[k] # 0

(* Why the password is the latest: a rehash writes the latest one too,      *)
(* unless another was chosen meanwhile.                                     *)
RehashOfLatest ==
  \A t \in Tasks : task[t].pc = "rehash" => task[t].password = chosen \/ met.rehash


-----------------------------------------------------------------------------
\* An account without sessions, links and requests.
LEMMA InitEstablishes ==
  Init => /\ TypeOK /\ CycleSeesAll /\ RevocationsHold
          /\ LinksSpent /\ SingleUse /\ RequestSeesAll
          /\ RehashOfLatest /\ PasswordIsLatest
  BY CredentialsAssumption
     DEF Init, TypeOK, Task, Idle, Meeting, CycleSeesAll, RevocationsHold, LinksSpent,
         SingleUse, RequestSeesAll, Unused, RehashOfLatest, PasswordIsLatest, Links

\* The counters only grow, and so do the types that they bound.
LEMMA TypesGrow ==
  ASSUME TypeOK, issued' \in {issued, issued + 1}, chosen' \in {chosen, chosen + 1},
         cuts' \in {cuts, cuts + 1}
  PROVE  Task \subseteq Task' /\ Session \subseteq Session'
<1>1. 0..chosen \subseteq 0..chosen' /\ 0..cuts \subseteq 0..cuts' /\ 1..issued \subseteq 1..issued'
  BY CredentialsAssumption DEF TypeOK
<1>2. SUBSET (1..issued \union Links) \subseteq SUBSET (1..issued' \union Links)
  BY <1>1
<1>3. Task \subseteq Task'
  BY <1>1, <1>2 DEF Task
<1>4. Session \subseteq Session'
  BY <1>1 DEF Session
<1> QED
  BY <1>3, <1>4

\* Sessions, passwords and cuts are numbered one by one.
LEMMA CountersGrow ==
  ASSUME TypeOK, [Next]_vars
  PROVE  /\ issued' \in {issued, issued + 1} /\ chosen' \in {chosen, chosen + 1}
         /\ cuts' \in {cuts, cuts + 1}
  BY StepOfNext DEF vars, account, observers, Step, SignIn, Reset, Change, Manage,
     SessionEnds, Auth, Enable, LinkExpires, LinksPurged, LoginRead, LoginRehash,
     LoginCycle, LoginIssue, ResetRequest, LinkCreate, CompleteRead, CompleteWrite,
     CompleteFails, ChangeRead, ChangeWrite, Disable, ChangeRole, Revoke, Crash,
     Choose, Cut

\* The request that steps goes on with one of these, and the others wait.
LEMMA TaskTyped ==
  ASSUME TypeOK, [Next]_vars, NEW t \in Tasks, NEW x \in Task', task' = [task EXCEPT ![t] = x]
  PROVE  task' \in [Tasks -> Task']
  BY TypesGrow, CountersGrow DEF TypeOK

\* Every step of every request keeps the types.
LEMMA TypePreserved == TypeOK /\ [Next]_vars => TypeOK'
<1> SUFFICES ASSUME TypeOK, [Next]_vars PROVE TypeOK'
  OBVIOUS
<1> USE CredentialsAssumption DEF account, observers
<1>0. Task \subseteq Task' /\ Session \subseteq Session' /\ Idle \in Task'
  BY TypesGrow, CountersGrow DEF Idle, Task, TypeOK
<1>1. CASE UNCHANGED vars
  BY <1>1 DEF vars, TypeOK, Task, Session
<1>2. CASE SessionEnds
  BY <1>2 DEF SessionEnds, TypeOK, Task, Session
<1>3. CASE Auth
  BY <1>3 DEF Auth, TypeOK, Task, Session
<1>4. CASE Enable
  BY <1>4 DEF Enable, TypeOK, Task, Session
<1>5. CASE LinkExpires
  BY <1>5 DEF LinkExpires, TypeOK, Task, Session
<1>6. CASE LinksPurged
  BY <1>6 DEF LinksPurged, TypeOK, Task, Session
<1>7. ASSUME NEW t \in Tasks, Step(t) PROVE TypeOK'
  <2>1. CASE LoginRead(t)
    BY <2>1 DEF LoginRead, Begin, TypeOK, Task, Session, Idle
  <2>2. CASE LoginRehash(t)
    <3>1. [Idle EXCEPT !.pc = "cycle"] \in Task'
      BY <1>0 DEF Idle, Task
    <3>2. task' \in [Tasks -> Task']
      BY <2>2, <3>1, TaskTyped DEF LoginRehash
    <3>3. task[t].password \in 0..chosen
      BY DEF TypeOK, Task
    <3> QED
      BY <1>0, <2>2, <3>2, <3>3 DEF LoginRehash, TypeOK
  <2>3. CASE LoginCycle(t)
    <3> DEFINE x == [task[t] EXCEPT !.pc = "issue", !.doomed = {s.id : s \in sessions}]
    <3>1. {s.id : s \in sessions} \subseteq 1..issued
      BY DEF TypeOK, Session
    <3>2. x \in Task
      BY <3>1 DEF TypeOK, Task
    <3>3. task' = [task EXCEPT ![t] = x]
      BY <2>3 DEF LoginCycle, TypeOK, Task
    <3>4. task' \in [Tasks -> Task']
      BY <1>0, <3>2, <3>3, TaskTyped
    <3> QED
      BY <1>0, <2>3, <3>4 DEF LoginCycle, TypeOK
  <2>4. CASE LoginIssue(t)
    <3>1. task' \in [Tasks -> Task']
      BY <1>0, <2>4, TaskTyped DEF LoginIssue, End
    <3>2. [id |-> issued', cuts |-> cuts, twin |-> Others(t, "issue") # {}] \in Session'
      BY <2>4 DEF LoginIssue, Session, TypeOK
    <3> QED
      BY <1>0, <2>4, <3>1, <3>2 DEF LoginIssue, TypeOK
  <2>5. CASE ResetRequest(t)
    <3>1. [Idle EXCEPT !.pc = "create", !.doomed = Unused] \in Task'
      BY <1>0 DEF Idle, Task, Unused
    <3>2. task' \in [Tasks -> Task']
      BY <2>5, <3>1, TaskTyped DEF ResetRequest, Begin
    <3> QED
      BY <1>0, <2>5, <3>2 DEF ResetRequest, TypeOK
  <2>6. CASE LinkCreate(t)
    <3>1. task' \in [Tasks -> Task']
      BY <1>0, <2>6, TaskTyped DEF LinkCreate, End
    <3>2. links' \in [Links -> {"none", "live", "used", "expired", "deleted"}]
      BY <2>6 DEF LinkCreate, TypeOK
    <3>3. met' \in Meeting
      BY <2>6 DEF LinkCreate, TypeOK, Meeting
    <3> QED
      BY <1>0, <2>6, <3>1, <3>2, <3>3 DEF LinkCreate, TypeOK
  <2>7. CASE \E k \in Links : CompleteRead(t, k)
    <3>1. PICK k \in Links : CompleteRead(t, k)
      BY <2>7
    <3>2. [Idle EXCEPT !.pc = "complete", !.link = k] \in Task'
      BY <1>0 DEF Idle, Task
    <3>3. task' \in [Tasks -> Task']
      BY <3>1, <3>2, TaskTyped DEF CompleteRead, Begin
    <3>4. met' \in Meeting
      BY <3>1 DEF CompleteRead, TypeOK, Meeting
    <3> QED
      BY <1>0, <3>1, <3>3, <3>4 DEF CompleteRead, TypeOK
  <2>8. CASE CompleteWrite(t)
    <3>1. [Idle EXCEPT !.pc = "revoke", !.cut = cuts'] \in Task'
      <4>1. cuts' \in 0..cuts' /\ cuts' \in 0..MaxCuts /\ cuts \in 0..cuts'
        BY <2>8 DEF CompleteWrite, Cut, TypeOK
      <4> QED
        BY <1>0, <4>1 DEF Idle, Task
    <3>2. task' \in [Tasks -> Task']
      BY <2>8, <3>1, TaskTyped DEF CompleteWrite, Cut
    <3>3. met' \in Meeting
      BY <2>8 DEF CompleteWrite, TypeOK, Meeting
    <3>4. spent' \in [Links -> 0..chosen']
      <4>1. \A i \in 0..chosen : i \in 0..chosen' /\ i + 1 \in 0..chosen'
        BY <2>8 DEF CompleteWrite, Choose, TypeOK
      <4> QED
        BY <2>8, <4>1 DEF CompleteWrite, TypeOK
    <3>5. chosen' \in 0..MaxPasswords /\ password' \in 0..chosen' /\ legacy' \in BOOLEAN
      <4>1. chosen \in 0..MaxPasswords /\ chosen < MaxPasswords
        BY <2>8 DEF CompleteWrite, Choose, TypeOK
      <4>2. chosen' = chosen + 1 /\ password' = chosen' /\ legacy' = FALSE
        BY <2>8 DEF CompleteWrite, Choose
      <4>3. chosen' \in 0..MaxPasswords /\ password' \in 0..chosen'
        BY <4>1, <4>2
      <4>4. legacy' \in BOOLEAN
        BY <4>2
      <4> QED
        BY <4>3, <4>4
    <3>6. cuts' \in 0..MaxCuts /\ missed' \in 0..cuts'
      BY <2>8 DEF CompleteWrite, Cut, TypeOK
    <3>7. links' \in [Links -> {"none", "live", "used", "expired", "deleted"}]
      BY <2>8 DEF CompleteWrite, TypeOK
    <3> QED
      BY <1>0, <2>8, <3>2, <3>3, <3>4, <3>5, <3>6, <3>7 DEF CompleteWrite, TypeOK
  <2>9. CASE CompleteFails(t)
    BY <1>0, <2>9, TaskTyped DEF CompleteFails, End, TypeOK
  <2>10. CASE ChangeRead(t)
    BY <2>10 DEF ChangeRead, Begin, TypeOK, Task, Session, Idle
  <2>11. CASE ChangeWrite(t)
    <3>1. task' \in [Tasks -> Task']
      BY <1>0, <2>11, TaskTyped DEF ChangeWrite, End
    <3>2. met' \in Meeting
      BY <2>11 DEF ChangeWrite, TypeOK, Meeting
    <3>3. spent' \in [Links -> 0..chosen']
      BY <2>11 DEF ChangeWrite, Choose, TypeOK
    <3>4. chosen' \in 0..MaxPasswords /\ password' \in 0..chosen' /\ legacy' \in BOOLEAN
      <4>1. chosen \in 0..MaxPasswords /\ chosen < MaxPasswords
        BY <2>11 DEF ChangeWrite, Choose, TypeOK
      <4>2. chosen' = chosen + 1 /\ password' = chosen' /\ legacy' = FALSE
        BY <2>11 DEF ChangeWrite, Choose
      <4>3. chosen' \in 0..MaxPasswords /\ password' \in 0..chosen'
        BY <4>1, <4>2
      <4>4. legacy' \in BOOLEAN
        BY <4>2
      <4> QED
        BY <4>3, <4>4
    <3> QED
      BY <1>0, <2>11, <3>1, <3>2, <3>3, <3>4 DEF ChangeWrite, TypeOK
  <2>12. CASE Disable(t) \/ ChangeRole(t)
    <3>1. [Idle EXCEPT !.pc = "revoke", !.cut = cuts'] \in Task'
      <4>1. cuts' \in 0..cuts'
        BY <2>12 DEF Disable, ChangeRole, Cut, TypeOK
      <4> QED
        BY <1>0, <4>1 DEF Idle, Task
    <3>2. task' \in [Tasks -> Task']
      BY <2>12, <3>1, TaskTyped DEF Disable, ChangeRole, Cut
    <3>3. cuts' \in 0..MaxCuts /\ missed' \in 0..cuts'
      BY <2>12 DEF Disable, ChangeRole, Cut, TypeOK
    <3> QED
      BY <1>0, <2>12, <3>2, <3>3 DEF Disable, ChangeRole, TypeOK
  <2>13. CASE Revoke(t)
    BY <1>0, <2>13, TaskTyped DEF Revoke, End, TypeOK
  <2>14. CASE Crash(t)
    <3>1. task' \in [Tasks -> Task']
      BY <1>0, <2>14, TaskTyped DEF Crash, End
    <3>2. missed' \in 0..cuts
      BY <2>14 DEF Crash, TypeOK, Task
    <3> QED
      BY <1>0, <2>14, <3>1, <3>2 DEF Crash, TypeOK
  <2> QED
    BY <1>7, <2>1, <2>2, <2>3, <2>4, <2>5, <2>6, <2>7, <2>8, <2>9, <2>10, <2>11,
       <2>12, <2>13, <2>14 DEF Step, SignIn, Reset, Change, Manage
<1> QED
  BY <1>1, <1>2, <1>3, <1>4, <1>5, <1>6, <1>7, StepOfNext

-----------------------------------------------------------------------------
(* Sessions.                                                                *)
LEMMA CycleSeesAllPreserved == TypeOK /\ CycleSeesAll /\ [Next]_vars => CycleSeesAll'
<1> SUFFICES ASSUME TypeOK, CycleSeesAll, [Next]_vars PROVE CycleSeesAll'
  OBVIOUS
<1> USE DEF TypeOK, Task, Session, Idle, CycleSeesAll, account, observers
<1>1. CASE UNCHANGED vars
  BY <1>1 DEF vars
<1>2. CASE SessionEnds
  BY <1>2 DEF SessionEnds
<1>3. CASE Auth
  BY <1>3 DEF Auth
<1>4. CASE Enable
  BY <1>4 DEF Enable
<1>5. CASE LinkExpires
  BY <1>5 DEF LinkExpires
<1>6. CASE LinksPurged
  BY <1>6 DEF LinksPurged
<1>7. ASSUME NEW t \in Tasks, Step(t) PROVE CycleSeesAll'
  <2>1. CASE LoginRead(t)
    BY <2>1 DEF LoginRead, Begin
  <2>2. CASE LoginRehash(t)
    BY <2>2 DEF LoginRehash
  <2>3. CASE LoginCycle(t)
    BY <2>3 DEF LoginCycle
  <2>4. CASE LoginIssue(t)
    <3> DEFINE new == [id |-> issued', cuts |-> cuts, twin |-> Others(t, "issue") # {}]
    <3>1. sessions' = {s \in sessions : s.id \notin task[t].doomed} \union {new}
      BY <2>4 DEF LoginIssue
    <3>2. \A s \in sessions' : ~s.twin => s = new
      BY <2>4, <3>1 DEF LoginIssue
    <3>3. ASSUME NEW u \in Tasks, task'[u].pc = "issue"
          PROVE  u \in Others(t, "issue")
      BY <2>4, <3>3 DEF LoginIssue, End, Others
    <3>4. ASSUME NEW u \in Tasks, task'[u].pc = "issue", NEW s \in sessions', ~s.twin
          PROVE  FALSE
      <4>1. Others(t, "issue") # {}
        BY <3>3, <3>4
      <4>2. new.twin = (Others(t, "issue") # {})
        OBVIOUS
      <4> HIDE DEF new
      <4> QED
        BY <3>2, <3>4, <4>1, <4>2
    <3> QED
      BY <3>2, <3>4
  <2>5. CASE ResetRequest(t)
    BY <2>5 DEF ResetRequest, Begin, Unused
  <2>6. CASE LinkCreate(t)
    BY <2>6 DEF LinkCreate, End, Others
  <2>7. CASE \E k \in Links : CompleteRead(t, k)
    BY <2>7 DEF CompleteRead, Begin, Others
  <2>8. CASE CompleteWrite(t)
    BY <2>8 DEF CompleteWrite, Choose, Cut, Others
  <2>9. CASE CompleteFails(t)
    BY <2>9 DEF CompleteFails, End
  <2>10. CASE ChangeRead(t)
    BY <2>10 DEF ChangeRead, Begin
  <2>11. CASE ChangeWrite(t)
    BY <2>11 DEF ChangeWrite, Choose, End, Others
  <2>12. CASE Disable(t)
    BY <2>12 DEF Disable, Cut
  <2>13. CASE ChangeRole(t)
    BY <2>13 DEF ChangeRole, Cut
  <2>14. CASE Revoke(t)
    BY <2>14 DEF Revoke, End
  <2>15. CASE Crash(t)
    BY <2>15 DEF Crash, End
  <2> QED
    BY <1>7, <2>1, <2>2, <2>3, <2>4, <2>5, <2>6, <2>7, <2>8, <2>9, <2>10, <2>11,
       <2>12, <2>13, <2>14, <2>15 DEF Step, SignIn, Reset, Change, Manage
<1> QED
  BY <1>1, <1>2, <1>3, <1>4, <1>5, <1>6, <1>7, StepOfNext

-----------------------------------------------------------------------------
(* Revocation.                                                              *)
LEMMA RevocationsPreserved ==
  TypeOK /\ RevocationsHold /\ [Next]_vars
    => RevocationsHold'
<1> SUFFICES ASSUME TypeOK, RevocationsHold, [Next]_vars PROVE RevocationsHold'
  OBVIOUS
<1> USE DEF TypeOK, Task, Session, Idle, RevocationsHold, account, observers
<1>1. CASE UNCHANGED vars
  BY <1>1 DEF vars
<1>2. CASE SessionEnds
  BY <1>2 DEF SessionEnds
<1>3. CASE Auth
  BY <1>3 DEF Auth
<1>4. CASE Enable
  BY <1>4 DEF Enable
<1>5. CASE LinkExpires
  BY <1>5 DEF LinkExpires
<1>6. CASE LinksPurged
  BY <1>6 DEF LinksPurged
<1>7. ASSUME NEW t \in Tasks, Step(t) PROVE RevocationsHold'
  <2>1. CASE LoginRead(t)
    BY <2>1 DEF LoginRead, Begin
  <2>2. CASE LoginRehash(t)
    BY <2>2 DEF LoginRehash
  <2>3. CASE LoginCycle(t)
    BY <2>3 DEF LoginCycle
  <2>4. CASE LoginIssue(t)
    BY <2>4 DEF LoginIssue, End, Others
  <2>5. CASE ResetRequest(t)
    BY <2>5 DEF ResetRequest, Begin, Unused
  <2>6. CASE LinkCreate(t)
    BY <2>6 DEF LinkCreate, End, Others
  <2>7. CASE \E k \in Links : CompleteRead(t, k)
    BY <2>7 DEF CompleteRead, Begin, Others
  <2>8. CASE CompleteWrite(t)
    BY <2>8 DEF CompleteWrite, Choose, Cut, Others
  <2>9. CASE CompleteFails(t)
    BY <2>9 DEF CompleteFails, End
  <2>10. CASE ChangeRead(t)
    BY <2>10 DEF ChangeRead, Begin
  <2>11. CASE ChangeWrite(t)
    BY <2>11 DEF ChangeWrite, Choose, End, Others
  <2>12. CASE Disable(t)
    BY <2>12 DEF Disable, Cut
  <2>13. CASE ChangeRole(t)
    BY <2>13 DEF ChangeRole, Cut
  <2>14. CASE Revoke(t)
    BY <2>14 DEF Revoke, End
  <2>15. CASE Crash(t)
    BY <2>15 DEF Crash, End
  <2> QED
    BY <1>7, <2>1, <2>2, <2>3, <2>4, <2>5, <2>6, <2>7, <2>8, <2>9, <2>10, <2>11,
       <2>12, <2>13, <2>14, <2>15 DEF Step, SignIn, Reset, Change, Manage
<1> QED
  BY <1>1, <1>2, <1>3, <1>4, <1>5, <1>6, <1>7, StepOfNext

-----------------------------------------------------------------------------
(* Links.                                                                   *)
LEMMA LinksSpentPreserved ==
  TypeOK /\ LinksSpent /\ SingleUse /\ [Next]_vars
    => (LinksSpent /\ SingleUse)'
<1> SUFFICES ASSUME TypeOK, LinksSpent, SingleUse,
   [Next]_vars PROVE (LinksSpent /\ SingleUse)'
  OBVIOUS
<1> USE CredentialsAssumption DEF TypeOK, Task, Meeting, Idle, LinksSpent, SingleUse,
   account, observers
<1>1. CASE UNCHANGED vars
  BY <1>1 DEF vars
<1>2. CASE SessionEnds
  BY <1>2 DEF SessionEnds
<1>3. CASE Auth
  BY <1>3 DEF Auth
<1>4. CASE Enable
  BY <1>4 DEF Enable
<1>5. CASE LinkExpires
  BY <1>5 DEF LinkExpires
<1>6. CASE LinksPurged
  BY <1>6 DEF LinksPurged
<1>7. ASSUME NEW t \in Tasks, Step(t) PROVE (LinksSpent /\ SingleUse)'
  <2>1. CASE LoginRead(t)
    BY <2>1 DEF LoginRead, Begin
  <2>2. CASE LoginRehash(t)
    BY <2>2 DEF LoginRehash
  <2>3. CASE LoginCycle(t)
    BY <2>3 DEF LoginCycle
  <2>4. CASE LoginIssue(t)
    BY <2>4 DEF LoginIssue, End, Others
  <2>5. CASE ResetRequest(t)
    BY <2>5 DEF ResetRequest, Begin, Unused
  <2>6. CASE LinkCreate(t)
    BY <2>6 DEF LinkCreate, End, Others
  <2>7. CASE \E k \in Links : CompleteRead(t, k)
    BY <2>7 DEF CompleteRead, Begin, Others
  <2>8. CASE CompleteWrite(t)
    BY <2>8 DEF CompleteWrite, Choose, Cut, Others
  <2>9. CASE CompleteFails(t)
    BY <2>9 DEF CompleteFails, End
  <2>10. CASE ChangeRead(t)
    BY <2>10 DEF ChangeRead, Begin
  <2>11. CASE ChangeWrite(t)
    BY <2>11 DEF ChangeWrite, Choose, End, Others
  <2>12. CASE Disable(t)
    BY <2>12 DEF Disable, Cut
  <2>13. CASE ChangeRole(t)
    BY <2>13 DEF ChangeRole, Cut
  <2>14. CASE Revoke(t)
    BY <2>14 DEF Revoke, End
  <2>15. CASE Crash(t)
    BY <2>15 DEF Crash, End
  <2> QED
    BY <1>7, <2>1, <2>2, <2>3, <2>4, <2>5, <2>6, <2>7, <2>8, <2>9, <2>10, <2>11,
       <2>12, <2>13, <2>14, <2>15 DEF Step, SignIn, Reset, Change, Manage
<1> QED
  BY <1>1, <1>2, <1>3, <1>4, <1>5, <1>6, <1>7, StepOfNext

-----------------------------------------------------------------------------
(* Newest link.                                                             *)
LEMMA RequestSeesAllPreserved ==
  TypeOK /\ LinksSpent /\ RequestSeesAll /\ [Next]_vars
    => RequestSeesAll'
<1> SUFFICES ASSUME TypeOK, LinksSpent, RequestSeesAll,
   [Next]_vars PROVE RequestSeesAll'
  OBVIOUS
<1> USE CredentialsAssumption DEF TypeOK, Task, Meeting, Idle, Links, Unused,
   RequestSeesAll, account, observers
<1>1. CASE UNCHANGED vars
  BY <1>1 DEF vars
<1>2. CASE SessionEnds
  BY <1>2 DEF SessionEnds
<1>3. CASE Auth
  BY <1>3 DEF Auth
<1>4. CASE Enable
  BY <1>4 DEF Enable
<1>5. CASE LinkExpires
  BY <1>5 DEF LinkExpires
<1>6. CASE LinksPurged
  BY <1>6 DEF LinksPurged
<1>7. ASSUME NEW t \in Tasks, Step(t) PROVE RequestSeesAll'
  <2>1. CASE LoginRead(t)
    BY <2>1 DEF LoginRead, Begin
  <2>2. CASE LoginRehash(t)
    BY <2>2 DEF LoginRehash
  <2>3. CASE LoginCycle(t)
    BY <2>3 DEF LoginCycle
  <2>4. CASE LoginIssue(t)
    BY <2>4 DEF LoginIssue, End, Others
  <2>5. CASE ResetRequest(t)
    BY <2>5 DEF ResetRequest, Begin, Unused
  <2>6. CASE LinkCreate(t)
    <3>1. PICK k \in Links :
            /\ links[k] = "none" /\ \A j \in 1..(k - 1) : links[j] # "none"
            /\ links' = [j \in Links |-> CASE j = k -> "live"
                                           [] j \in task[t].doomed -> "deleted"
                                           [] OTHER -> links[j]]
            /\ met' = IF Others(t, "create") = {} THEN met
                      ELSE [met EXCEPT !.links = @ \union {k}]
      BY <2>6 DEF LinkCreate
    <3>2. task[t].pc = "create" /\ task' = [task EXCEPT ![t] = Idle] /\ spent' = spent
      BY <2>6 DEF LinkCreate, End
    <3>3. met.links \subseteq met'.links
      BY <3>1
    <3>4. \A j \in Unused' : j \notin met'.links => j = k
      BY <3>1, <3>2, <3>3
    <3>5. ASSUME NEW u \in Tasks, task'[u].pc = "create" PROVE k \in met'.links
      <4>1. u \in Others(t, "create")
        BY <3>2, <3>5 DEF Others
      <4> QED
        BY <3>1, <4>1
    <3>6. \A u \in Tasks : task'[u].pc = "create" =>
            /\ \A j \in Unused' : j \notin met'.links => j \in task'[u].doomed
            /\ \A j \in task'[u].doomed : j \in Links => links'[j] # "none"
      BY <3>1, <3>2, <3>4, <3>5
    <3>7. \A i, j \in Links : i < j /\ links'[j] # "none" => links'[i] # "none"
      <4> SUFFICES ASSUME NEW i \in Links, NEW j \in Links, i < j, links'[j] # "none"
                   PROVE  links'[i] # "none"
        OBVIOUS
      <4>1. CASE j = k
        BY <3>1, <4>1
      <4>2. CASE j # k
        <5>1. links[j] # "none"
          BY <3>1, <3>2, <4>2
        <5> QED
          BY <3>1, <5>1
      <4> QED
        BY <4>1, <4>2
    <3>8. \A j \in Links : j > k => links'[j] = "none"
      <4>1. \A j \in Links : j > k => links[j] = "none"
        BY <3>1
      <4> QED
        BY <3>1, <3>2, <4>1
    <3>9. \A j \in Links : links'[j] = "used" => spent'[j] # 0
      BY <3>1, <3>2
    <3> QED
      BY <3>4, <3>6, <3>7, <3>8, <3>9
  <2>7. CASE \E k \in Links : CompleteRead(t, k)
    BY <2>7, SMTT(30) DEF CompleteRead, Begin, Others
  <2>8. CASE CompleteWrite(t)
    <3> DEFINE k == task[t].link
    <3>1. /\ task[t].pc = "complete" /\ links[k] # "deleted"
          /\ links' = [links EXCEPT ![k] = "used"]
          /\ spent' = [spent EXCEPT ![k] = @ + 1]
          /\ met'.links = met.links
      BY <2>8 DEF CompleteWrite
    <3>2. task' = [task EXCEPT ![t] = [Idle EXCEPT !.pc = "revoke", !.cut = cuts']]
      BY <2>8 DEF CompleteWrite, Cut
    <3>3. k \in Links /\ links[k] # "none"
      BY <3>1 DEF LinksSpent
    <3>4. Unused' = Unused \ {k}
      BY <3>1, <3>3
    <3>5. \A u \in Tasks : task'[u].pc = "create" =>
            task[u].pc = "create" /\ task'[u].doomed = task[u].doomed
      BY <3>2
    <3>6. \A j \in Links : links'[j] = "none" <=> links[j] = "none"
      BY <3>1, <3>3
    <3>7. \A j \in Links : spent[j] \in Nat
      OBVIOUS
    <3>8. \A j \in Links : links'[j] = "used" => spent'[j] # 0
      BY <3>1, <3>3, <3>7
    <3> HIDE DEF k
    <3> QED
      BY <3>1, <3>4, <3>5, <3>6, <3>8
  <2>9. CASE CompleteFails(t)
    BY <2>9 DEF CompleteFails, End
  <2>10. CASE ChangeRead(t)
    BY <2>10 DEF ChangeRead, Begin
  <2>11. CASE ChangeWrite(t)
    BY <2>11 DEF ChangeWrite, Choose, End, Others
  <2>12. CASE Disable(t)
    BY <2>12 DEF Disable, Cut
  <2>13. CASE ChangeRole(t)
    BY <2>13 DEF ChangeRole, Cut
  <2>14. CASE Revoke(t)
    BY <2>14 DEF Revoke, End
  <2>15. CASE Crash(t)
    BY <2>15 DEF Crash, End
  <2> QED
    BY <1>7, <2>1, <2>2, <2>3, <2>4, <2>5, <2>6, <2>7, <2>8, <2>9, <2>10, <2>11,
       <2>12, <2>13, <2>14, <2>15 DEF Step, SignIn, Reset, Change, Manage
<1> QED
  BY <1>1, <1>2, <1>3, <1>4, <1>5, <1>6, <1>7, StepOfNext

-----------------------------------------------------------------------------
(* Passwords.                                                               *)
LEMMA LatestPreserved ==
  TypeOK /\ RehashOfLatest /\ PasswordIsLatest /\ [Next]_vars
    => (RehashOfLatest /\ PasswordIsLatest)'
<1> SUFFICES ASSUME TypeOK, RehashOfLatest, PasswordIsLatest,
   [Next]_vars PROVE (RehashOfLatest /\ PasswordIsLatest)'
  OBVIOUS
<1> USE DEF TypeOK, Task, Meeting, Idle, RehashOfLatest, PasswordIsLatest, account,
   observers
<1>1. CASE UNCHANGED vars
  BY <1>1 DEF vars
<1>2. CASE SessionEnds
  BY <1>2 DEF SessionEnds
<1>3. CASE Auth
  BY <1>3 DEF Auth
<1>4. CASE Enable
  BY <1>4 DEF Enable
<1>5. CASE LinkExpires
  BY <1>5 DEF LinkExpires
<1>6. CASE LinksPurged
  BY <1>6 DEF LinksPurged
<1>7. ASSUME NEW t \in Tasks, Step(t) PROVE (RehashOfLatest /\ PasswordIsLatest)'
  <2>1. CASE LoginRead(t)
    BY <2>1 DEF LoginRead, Begin
  <2>2. CASE LoginRehash(t)
    BY <2>2 DEF LoginRehash
  <2>3. CASE LoginCycle(t)
    BY <2>3 DEF LoginCycle
  <2>4. CASE LoginIssue(t)
    BY <2>4 DEF LoginIssue, End, Others
  <2>5. CASE ResetRequest(t)
    BY <2>5 DEF ResetRequest, Begin, Unused
  <2>6. CASE LinkCreate(t)
    BY <2>6 DEF LinkCreate, End, Others
  <2>7. CASE \E k \in Links : CompleteRead(t, k)
    BY <2>7 DEF CompleteRead, Begin, Others
  <2>8. CASE CompleteWrite(t)
    BY <2>8 DEF CompleteWrite, Choose, Cut, Others
  <2>9. CASE CompleteFails(t)
    BY <2>9 DEF CompleteFails, End
  <2>10. CASE ChangeRead(t)
    BY <2>10 DEF ChangeRead, Begin
  <2>11. CASE ChangeWrite(t)
    BY <2>11 DEF ChangeWrite, Choose, End, Others
  <2>12. CASE Disable(t)
    BY <2>12 DEF Disable, Cut
  <2>13. CASE ChangeRole(t)
    BY <2>13 DEF ChangeRole, Cut
  <2>14. CASE Revoke(t)
    BY <2>14 DEF Revoke, End
  <2>15. CASE Crash(t)
    BY <2>15 DEF Crash, End
  <2> QED
    BY <1>7, <2>1, <2>2, <2>3, <2>4, <2>5, <2>6, <2>7, <2>8, <2>9, <2>10, <2>11,
       <2>12, <2>13, <2>14, <2>15 DEF Step, SignIn, Reset, Change, Manage
<1> QED
  BY <1>1, <1>2, <1>3, <1>4, <1>5, <1>6, <1>7, StepOfNext

-----------------------------------------------------------------------------
(* The invariant, and what follows from it.                                 *)
CredentialsInv ==
  /\ TypeOK
  /\ CycleSeesAll
  /\ RevocationsHold
  /\ LinksSpent /\ SingleUse
  /\ RequestSeesAll
  /\ RehashOfLatest /\ PasswordIsLatest

\* The parts together hold at all times.
LEMMA CredentialsInvariant == Spec => []CredentialsInv
<1>1. CredentialsInv /\ [Next]_vars => CredentialsInv'
  BY TypePreserved, CycleSeesAllPreserved, RevocationsPreserved, LinksSpentPreserved,
     RequestSeesAllPreserved, LatestPreserved DEF CredentialsInv
<1> QED
  BY <1>1, InitEstablishes, PTL DEF Spec, CredentialsInv

\* The variables keep their types.
THEOREM TypeCorrect == Spec => []TypeOK
  BY CredentialsInvariant, PTL DEF CredentialsInv

\* An account has one session, apart from sign-ins side by side
\* (createSession).
THEOREM SessionsCycle == Spec => []OneSession
<1>1. CredentialsInv => OneSession
  <2> SUFFICES ASSUME CycleSeesAll PROVE OneSession
    BY DEF CredentialsInv
  <2> DEFINE alone == {s \in sessions : ~s.twin}
  <2>1. CASE alone = {}
    BY <2>1, FS_EmptySet DEF OneSession
  <2>2. CASE alone # {}
    <3>1. PICK s \in sessions : ~s.twin
      BY <2>2
    <3>2. alone = {s}
      BY <3>1 DEF CycleSeesAll
    <3> QED
      BY <3>2, FS_Singleton DEF OneSession
  <2> QED
    BY <2>1, <2>2
<1> QED
  BY <1>1, CredentialsInvariant, PTL

\* Once a revocation has run, no session that existed before it is left
\* (revokeAllForUser and its callers).
THEOREM RevocationsAreFinal == Spec => []RevocationsHold
  BY CredentialsInvariant, PTL DEF CredentialsInv

\* A reset link sets one password, apart from completions side by side
\* (completePasswordReset).
THEOREM LinksAreSingleUse == Spec => []SingleUse
<1>1. CredentialsInv => SingleUse
  BY DEF CredentialsInv
<1> QED
  BY <1>1, CredentialsInvariant, PTL

\* A password is set with the newest link, apart from requests or
\* completions side by side (requestPasswordReset).
THEOREM NewestLinkSets == Spec => NewestLinkOnly
<1>1. CredentialsInv /\ [Next]_vars => [SpentIsNewest]_vars
  <2> SUFFICES ASSUME CredentialsInv, [Next]_vars, NEW k \in Links, spent'[k] # spent[k]
               PROVE  \/ \A j \in Links : j > k => links[j] = "none"
                      \/ k \in met.links \union met.completions
    BY DEF SpentIsNewest
  <2>1. PICK t \in Tasks : CompleteWrite(t)
    BY StepOfNext DEF vars, account, observers, Step, SignIn, Reset, Change, Manage,
       SessionEnds, Auth, Enable, LinkExpires, LinksPurged, LoginRead, LoginRehash,
       LoginCycle, LoginIssue, ResetRequest, LinkCreate, CompleteRead, CompleteFails,
       ChangeRead, ChangeWrite, Disable, ChangeRole, Revoke, Crash, Choose, Cut
  <2>2. task[t].link = k /\ task[t].pc = "complete" /\ links[k] # "deleted"
    BY <2>1 DEF CompleteWrite, CredentialsInv, TypeOK
  <2>3. k \in met.completions \/ spent[k] = 0
    BY <2>2 DEF CredentialsInv, LinksSpent
  <2>4. links[k] # "none"
    BY <2>2 DEF CredentialsInv, LinksSpent
  <2>5. spent[k] = 0 => k \in Unused
    BY <2>2, <2>4 DEF CredentialsInv, TypeOK, RequestSeesAll, Unused
  <2> QED
    BY <2>3, <2>5 DEF CredentialsInv, RequestSeesAll
<1> QED
  BY <1>1, CredentialsInvariant, PTL DEF NewestLinkOnly, Spec

\* No older password comes back, apart from a rehash that was under way
\* (login, completePasswordReset, changeOwnPassword).
THEOREM PasswordStaysLatest == Spec => []PasswordIsLatest
  BY CredentialsInvariant, PTL DEF CredentialsInv
-----------------------------------------------------------------------------
(* The other secret that is revoked is a device's: DeviceTracking, for any   *)
(* finite number of requests and any number of troubles.                     *)

\* A check-in is past the key check with a key that has been revoked since.
Outdated ==
  {r \in Admitted :
     ~(asset.life = "live" /\ asset.tracking /\ call[r].key = "valid")}

\* Those, with the ones already stored, were past the check at the last revocation.
KeysAccounted == reports + Cardinality(Outdated) <= flight

DeviceInv == DeviceTypeOK /\ KeysAccounted /\ ShowsNewest

\* Every step is some request's, or nobody's.
LEMMA DeviceStep ==
  [DeviceNext]_deviceVars =>
    \/ UNCHANGED deviceVars
    \/ \E r \in Requests :
         \/ Enrol(r) \/ Issue(r) \/ Authenticate(r) \/ Stamp(r)
         \/ Store(r) \/ RotateKey(r) \/ Deliver(r) \/ Run(r)
         \/ Throttle(r) \/ Lose(r) \/ Rotate(r) \/ Manual(r)
    \/ GiveUp \/ DisableTracking \/ Delete \/ Restore \/ Purge
  BY DEF DeviceNext, Serve

\* Finitely many requests are counted by a number, some of them by one that is no
\* larger, and one fewer by a smaller one.
LEMMA RequestsCount ==
  /\ Cardinality(Requests) \in Nat
  /\ \A S \in SUBSET Requests :
       /\ Cardinality(S) \in Nat /\ Cardinality(S) <= Cardinality(Requests)
       /\ \A T \in SUBSET S : Cardinality(T) <= Cardinality(S)
       /\ \A r \in S : \A T \in SUBSET (S \ {r}) : Cardinality(T) + 1 <= Cardinality(S)
<1>0. IsFiniteSet(Requests)
  BY TrackingAssumption
<1>1. Cardinality(Requests) \in Nat
  BY <1>0, FS_CardinalityType
<1> SUFFICES ASSUME NEW S \in SUBSET Requests
             PROVE  /\ Cardinality(S) \in Nat /\ Cardinality(S) <= Cardinality(Requests)
                    /\ \A T \in SUBSET S : Cardinality(T) <= Cardinality(S)
                    /\ \A r \in S : \A T \in SUBSET (S \ {r}) : Cardinality(T) + 1 <= Cardinality(S)
  BY <1>1
<1>2. IsFiniteSet(S) /\ Cardinality(S) <= Cardinality(Requests)
  BY <1>0, FS_Subset
<1>3. Cardinality(S) \in Nat
  BY <1>2, FS_CardinalityType
<1>4. \A T \in SUBSET S : Cardinality(T) <= Cardinality(S)
  BY <1>2, FS_Subset
<1>5. ASSUME NEW r \in S, NEW T \in SUBSET (S \ {r})
      PROVE  Cardinality(T) + 1 <= Cardinality(S)
  <2>1. IsFiniteSet(S \ {r}) /\ Cardinality(S \ {r}) = Cardinality(S) - 1
    BY <1>2, FS_RemoveElement
  <2>2. IsFiniteSet(T) /\ Cardinality(T) <= Cardinality(S \ {r})
    BY <2>1, FS_Subset
  <2>3. Cardinality(T) \in Nat
    BY <2>2, FS_CardinalityType
  <2> QED
    BY <1>3, <2>1, <2>2, <2>3
<1> QED
  BY <1>2, <1>3, <1>4, <1>5

\* How a request can go on: as any well-formed task, its key revoked or not.
LEMMA CallTyped ==
  ASSUME DeviceTypeOK
  PROVE  /\ NoCall \in Call
         /\ \A r \in Requests :
              /\ call[r] \in Call
              /\ \A op \in Ops : [call[r] EXCEPT !.op = op] \in Call
              /\ [call[r] EXCEPT !.key = Stale(@)] \in Call
              /\ \A s \in Requests : [call[r] EXCEPT !.older = @ \ {s}] \in Call
         /\ \A key \in Keys : Handing(key) \in Call
         /\ Stale(agent.file) \in Keys
<1>1. NoCall \in Call
  BY DEF NoCall, Call, Ops, Keys
<1>2. \A key \in Keys : Handing(key) \in Call
  BY <1>1 DEF Handing, Call, Ops
<1>3. ASSUME NEW r \in Requests
      PROVE  /\ call[r] \in Call
             /\ \A op \in Ops : [call[r] EXCEPT !.op = op] \in Call
             /\ [call[r] EXCEPT !.key = Stale(@)] \in Call
             /\ \A s \in Requests : [call[r] EXCEPT !.older = @ \ {s}] \in Call
  <2>1. call[r] \in Call
    BY DEF DeviceTypeOK
  <2> QED
    BY <2>1 DEF Call, Stale, Keys
<1>4. Stale(agent.file) \in Keys
  BY DEF DeviceTypeOK, Stale, Keys
<1> QED
  BY <1>1, <1>2, <1>3, <1>4

\* A request goes on or answers, and the others wait.
LEMMA GoesOn ==
  ASSUME DeviceTypeOK, NEW r \in Requests,
         \/ \E op \in Ops : Goto(r, op)
         \/ \E code \in {"ok", "refused", "failed"} : Reply(r, code)
  PROVE  call' \in [Requests -> Call]
<1>1. ASSUME NEW op \in Ops, Goto(r, op)
      PROVE  call' \in [Requests -> Call]
  <2>1. call' = [call EXCEPT ![r] = [call[r] EXCEPT !.op = op]]
    BY <1>1 DEF Goto
  <2> QED
    BY <2>1, CallTyped DEF DeviceTypeOK
<1>2. ASSUME NEW code \in {"ok", "refused", "failed"}, Reply(r, code)
      PROVE  call' \in [Requests -> Call]
  <2>1. [NoCall EXCEPT !.op = "reply", !.code = code] \in Call
    BY DEF NoCall, Call, Ops, Keys
  <2> QED
    BY <1>2, <2>1 DEF Reply, DeviceTypeOK
<1> QED
  BY <1>1, <1>2

\* What a revocation does: the requests past the check are counted, and nobody holds
\* a valid key afterwards but the request that was handed it.
LEMMA Revokes ==
  ASSUME DeviceTypeOK, NEW r, NEW w \in Call, RevokeKey(r, w)
  PROVE  /\ call' \in [Requests -> Call]
         /\ agent' \in [file : Keys, wait : Requests \union {Nobody}]
         /\ flight' = Cardinality(Admitted) /\ reports' = 0
         /\ \A s \in Requests : s # r => call'[s].op = call[s].op /\ call'[s].by = call[s].by
         /\ r \in Requests => call'[r] = w
<1>1. /\ call' = [s \in Requests |-> IF s = r THEN w ELSE [call[s] EXCEPT !.key = Stale(@)]]
      /\ agent' = [agent EXCEPT !.file = Stale(@)]
      /\ flight' = Cardinality(Admitted) /\ reports' = 0
  BY DEF RevokeKey
<1>2. agent' \in [file : Keys, wait : Requests \union {Nobody}]
  BY <1>1, CallTyped DEF DeviceTypeOK
<1>3. \A s \in Requests : /\ call[s] \in Call
                          /\ [call[s] EXCEPT !.key = Stale(@)] \in Call
  BY CallTyped
<1>4. call' \in [Requests -> Call]
  BY ONLY <1>1, <1>3, w \in Call
<1>5. \A s \in Requests : s # r => call'[s].op = call[s].op /\ call'[s].by = call[s].by
  BY ONLY <1>1, <1>3 DEF Call
<1> QED
  BY <1>1, <1>2, <1>4, <1>5

\* The requests that are past the check are some of all.
LEMMA AdmittedFew == Admitted \in SUBSET Requests /\ Outdated \in SUBSET Admitted
  BY DEF Admitted, Outdated

\* The asset, the agent, the requests and the counters have their types after every step.
LEMMA DeviceTypesKept ==
  ASSUME DeviceInv, [DeviceNext]_deviceVars
  PROVE  DeviceTypeOK'
<1>0. DeviceTypeOK /\ KeysAccounted
  BY DEF DeviceInv
<1>c. Cardinality(Requests) \in Nat /\ MaxTroubles \in Nat
  BY RequestsCount, TrackingAssumption
<1>n. /\ Cardinality(Admitted) \in 0..Cardinality(Requests)
      /\ 0 \in 0..Cardinality(Requests)
      /\ Trouble => troubles' \in 0..MaxTroubles
  BY <1>0, <1>c, RequestsCount, AdmittedFew DEF DeviceTypeOK, Trouble
<1>1. CASE UNCHANGED deviceVars
  BY <1>0, <1>1 DEF deviceVars, DeviceTypeOK, Call
<1>2. ASSUME NEW r \in Requests, Enrol(r) \/ Authenticate(r) \/ Throttle(r)
      PROVE  DeviceTypeOK'
  <2>1. call' \in [Requests -> Call]
    BY <1>0, <1>2, GoesOn DEF Enrol, Authenticate, Throttle, Ops
  <2> QED
    BY <1>0, <1>2, <1>n, <2>1 DEF Enrol, Authenticate, Throttle, DeviceTypeOK
<1>3. ASSUME NEW r \in Requests, Run(r) \/ Rotate(r) \/ Manual(r)
      PROVE  DeviceTypeOK'
  <2>1. \E w \in Call : call' = [call EXCEPT ![r] = w]
    BY <1>0, <1>3 DEF Run, Rotate, Manual, Receive, NoCall,
                      Call, Ops, Keys, DeviceTypeOK
  <2>2. call' \in [Requests -> Call]
    BY <1>0, <2>1 DEF DeviceTypeOK
  <2>3. agent' \in [file : Keys, wait : Requests \union {Nobody}]
    BY <1>0, <1>3 DEF Run, Rotate, Manual, DeviceTypeOK
  <2> QED
    BY <1>0, <1>3, <1>n, <2>2, <2>3 DEF Run, Rotate, Manual, DeviceTypeOK
<1>4. ASSUME NEW r \in Requests, Issue(r) \/ RotateKey(r)
      PROVE  DeviceTypeOK'
  <2>1. CASE asset.life = "gone"
    <3>1. \E w \in Call : call' = [call EXCEPT ![r] = w]
      BY <1>4, <2>1 DEF Issue, RotateKey, Reply, NoCall, Call,
                        Ops, Keys
    <3> QED
      BY <1>0, <1>4, <2>1, <3>1 DEF Issue, RotateKey, DeviceTypeOK
  <2>2. CASE asset.life # "gone"
    <3>1. \E w \in Call : RevokeKey(r, w)
      <4>1. /\ Handing("valid") \in Call
            /\ [Handing("valid") EXCEPT !.by = "manual"] \in Call
        BY DEF Handing, NoCall, Call, Ops, Keys
      <4> QED
        BY <1>4, <2>2, <4>1 DEF Issue, RotateKey
    <3>2. /\ call' \in [Requests -> Call]
          /\ agent' \in [file : Keys, wait : Requests \union {Nobody}]
          /\ flight' = Cardinality(Admitted) /\ reports' = 0
      BY <1>0, <3>1, Revokes
    <3>3. /\ asset' = [asset EXCEPT !.tracking = TRUE]
          /\ UNCHANGED <<newest, behind, troubles>>
      BY <1>4, <2>2 DEF Issue, RotateKey
    <3> QED
      BY <1>0, <1>n, <3>2, <3>3 DEF DeviceTypeOK
  <2> QED
    BY <2>1, <2>2
<1>5. ASSUME NEW r \in Requests, Stamp(r)
      PROVE  DeviceTypeOK'
  <2>1. call[r] \in Call
    BY <1>0, CallTyped
  <2>2. [call[r] EXCEPT !.op = "store",
    !.older = {s \in Requests : call[s].op = "store"}] \in Call
    BY <2>1 DEF Call, Ops
  <2>3. call' \in [Requests -> Call]
    BY <1>0, <1>5, <2>2 DEF Stamp, DeviceTypeOK
  <2> QED
    BY <1>0, <1>5, <2>3 DEF Stamp, DeviceTypeOK
<1>6. ASSUME NEW r \in Requests, Store(r)
      PROVE  DeviceTypeOK'
  <2>1. \A s \in Requests : call'[s] \in Call
    <3> SUFFICES ASSUME NEW s \in Requests PROVE call'[s] \in Call
      OBVIOUS
    <3>1. CASE s = r
      BY <1>6, <3>1 DEF Store, NoCall, Call, Ops, Keys
    <3>2. CASE s # r
      <4>1. call[s] \in Call
        BY <1>0, CallTyped
      <4> QED
        BY <1>6, <3>2, <4>1 DEF Store, Call
    <3> QED
      BY <3>1, <3>2
  <2>2. call' \in [Requests -> Call]
    BY <1>6, <2>1 DEF Store
  <2>3. reports' \in 0..Cardinality(Requests)
    <3>1. CASE reports' = reports
      BY <1>0, <3>1 DEF DeviceTypeOK
    <3>2. CASE reports' # reports
      <4>1. reports' = reports + 1 /\ r \in Outdated
        BY <1>6, <3>2 DEF Store, Outdated, Admitted
      <4>2. Cardinality(Outdated) \in Nat /\ Cardinality(Outdated) >= 1
        <5>1. /\ {} \in SUBSET (Outdated \ {r})
              /\ Outdated \in SUBSET Requests /\ {} \in SUBSET Requests
          BY AdmittedFew
        <5>2. Cardinality({}) \in Nat /\ Cardinality(Outdated) \in Nat
          BY <5>1, RequestsCount
        <5>3. Cardinality({}) + 1 <= Cardinality(Outdated)
          BY <4>1, <5>1, RequestsCount
        <5> QED
          BY <5>2, <5>3
      <4> QED
        BY <1>0, <1>c, <4>1, <4>2 DEF KeysAccounted, DeviceTypeOK
    <3> QED
      BY <3>1, <3>2
  <2>4. call[r].by \in {"agent", "manual"} /\ call[r].late \in BOOLEAN
    BY <1>0, CallTyped DEF Call
  <2>5. /\ asset' \in [life : {"live", "bin", "gone"}, tracking : BOOLEAN, shown : Sources]
        /\ newest' \in Sources /\ behind' \in BOOLEAN
    BY <1>0, <1>6, <2>4 DEF Store, Shown, DeviceTypeOK, Sources
  <2> QED
    BY <1>0, <1>6, <2>2, <2>3, <2>5 DEF Store, DeviceTypeOK
<1>7. ASSUME NEW r \in Requests, Deliver(r)
      PROVE  DeviceTypeOK'
  <2>1. call[r].key \in Keys
    BY <1>0, CallTyped DEF Call
  <2>2. agent' \in [file : Keys, wait : Requests \union {Nobody}]
    BY <1>0, <1>7, <2>1 DEF Deliver, Learn, DeviceTypeOK, Keys
  <2>3. call' \in [Requests -> Call]
    BY <1>0, <1>7, CallTyped DEF Deliver, DeviceTypeOK
  <2> QED
    BY <1>0, <1>7, <2>2, <2>3 DEF Deliver, DeviceTypeOK
<1>8. ASSUME NEW r \in Requests, Lose(r)
      PROVE  DeviceTypeOK'
  <2>1. call' \in [Requests -> Call]
    <3>1. /\ call' = [s \in Requests |->
                IF s = r THEN NoCall ELSE [call[s] EXCEPT !.older = @ \ {r}]]
          /\ NoCall \in Call
          /\ \A s \in Requests : [call[s] EXCEPT !.older = @ \ {r}] \in Call
      BY <1>0, <1>8, CallTyped DEF Lose
    <3> QED
      BY ONLY <3>1
  <2>2. agent' \in [file : Keys, wait : Requests \union {Nobody}]
    BY <1>0, <1>8 DEF Lose, DeviceTypeOK
  <2> QED
    BY <1>0, <1>8, <1>n, <2>1, <2>2 DEF Lose, DeviceTypeOK
<1>9. CASE GiveUp \/ Delete \/ Restore
  BY <1>0, <1>9, <1>n DEF GiveUp, Delete, Restore, DeviceTypeOK
<1>10. CASE DisableTracking \/ Purge
  <2>1. /\ call' \in [Requests -> Call]
        /\ agent' \in [file : Keys, wait : Requests \union {Nobody}]
        /\ flight' = Cardinality(Admitted) /\ reports' = 0
    BY <1>0, <1>10, CallTyped, Revokes DEF DisableTracking, Purge
  <2>2. /\ asset' \in [life : {"live", "bin", "gone"}, tracking : BOOLEAN, shown : Sources]
        /\ newest' \in Sources /\ behind' \in BOOLEAN
    <3>1. CASE DisableTracking
      BY <1>0, <3>1 DEF DisableTracking, DeviceTypeOK
    <3>2. CASE Purge
      BY <3>2 DEF Purge, Sources
    <3> QED
      BY <1>10, <3>1, <3>2
  <2>3. troubles' \in 0..MaxTroubles
    BY <1>10, <1>n DEF DisableTracking, Purge
  <2> QED
    BY <1>n, <2>1, <2>2, <2>3 DEF DeviceTypeOK
<1> QED
  BY <1>1, <1>2, <1>3, <1>4, <1>5, <1>6, <1>7, <1>8, <1>9, <1>10, DeviceStep

\* The balance of check-ins holds as long as no more get an outdated key than were past
\* the check when the keys were revoked, and each one that is stored was counted.
LEMMA Balanced ==
  ASSUME DeviceTypeOK, KeysAccounted,
         \/ /\ Outdated' \subseteq Outdated
            /\ UNCHANGED <<reports, flight>>
         \/ /\ Outdated' \subseteq Admitted
            /\ reports' = 0 /\ flight' = Cardinality(Admitted)
         \/ \E r \in Outdated : /\ Outdated' \subseteq Outdated \ {r}
                               /\ reports' = reports + 1 /\ UNCHANGED flight
  PROVE  KeysAccounted'
<1>1. /\ Outdated \in SUBSET Requests /\ Admitted \in SUBSET Requests
      /\ reports \in Nat /\ flight \in Nat
  BY AdmittedFew, RequestsCount DEF DeviceTypeOK
<1>2. ASSUME Outdated' \subseteq Outdated, UNCHANGED <<reports, flight>>
      PROVE  KeysAccounted'
  <2>1. /\ Cardinality(Outdated') <= Cardinality(Outdated)
        /\ Cardinality(Outdated') \in Nat /\ Cardinality(Outdated) \in Nat
    BY <1>1, <1>2, RequestsCount
  <2> QED
    BY <1>1, <1>2, <2>1 DEF KeysAccounted
<1>3. ASSUME Outdated' \subseteq Admitted, reports' = 0,
  flight' = Cardinality(Admitted)
      PROVE  KeysAccounted'
  <2>1. /\ Cardinality(Outdated') <= Cardinality(Admitted)
        /\ Cardinality(Outdated') \in Nat /\ Cardinality(Admitted) \in Nat
    BY <1>1, <1>3, RequestsCount
  <2> QED
    BY <1>3, <2>1 DEF KeysAccounted
<1>4. ASSUME NEW r \in Outdated, Outdated' \subseteq Outdated \ {r}, reports' = reports + 1,
             UNCHANGED flight
      PROVE  KeysAccounted'
  <2>1. /\ Cardinality(Outdated') + 1 <= Cardinality(Outdated)
        /\ Cardinality(Outdated') \in Nat /\ Cardinality(Outdated) \in Nat
    BY <1>1, <1>4, RequestsCount
  <2> QED
    BY <1>1, <1>4, <2>1 DEF KeysAccounted
<1> QED
  BY <1>2, <1>3, <1>4

\* A check-in with an outdated key was past the check when that happened.
LEMMA KeysAccountedKept ==
  ASSUME DeviceInv, DeviceTypeOK', [DeviceNext]_deviceVars
  PROVE  KeysAccounted'
<1>0. DeviceTypeOK /\ KeysAccounted /\ call \in [Requests -> Call]
  BY DEF DeviceInv, DeviceTypeOK
<1>f. \A r \in Requests : call[r] \in Call
  BY <1>0
<1>1. CASE UNCHANGED deviceVars
  <2>1. Outdated' = Outdated /\ UNCHANGED <<reports, flight>>
    BY <1>1 DEF deviceVars, Outdated, Admitted
  <2> QED
    BY <1>0, <2>1, Balanced
<1>2. ASSUME NEW r \in Requests,
             \/ Enrol(r) \/ Authenticate(r) \/ Throttle(r) \/ Stamp(r)
             \/ Deliver(r) \/ Run(r) \/ Rotate(r) \/ Manual(r)
      PROVE  KeysAccounted'
  <2>1. \A s \in Requests : s # r => call'[s] = call[s]
    BY <1>0, <1>2
       DEF Enrol, Authenticate, Throttle, Stamp, Deliver,
           Run, Rotate, Manual, Receive, Goto, Reply
  <2>2. UNCHANGED <<asset, reports, flight>>
    BY <1>2 DEF Enrol, Authenticate, Throttle, Stamp, Deliver,
           Run, Rotate, Manual
  <2>3. r \in Outdated' => r \in Outdated
    <3>1. CASE Enrol(r) \/ Throttle(r) \/ Deliver(r)
      <4>1. call'[r].op \in {"issue", "reply", "idle"}
        <5>1. CASE Enrol(r)
          <6>1. Goto(r, "issue") \/ Reply(r, "failed")
            BY <5>1 DEF Enrol
          <6>2. Goto(r, "issue") => call'[r].op = "issue"
            BY <1>0, <1>f DEF Goto, Call
          <6>3. Reply(r, "failed") => call'[r].op = "reply"
            BY <1>0 DEF Reply, NoCall
          <6> QED
            BY <6>1, <6>2, <6>3
        <5>2. CASE Throttle(r)
          BY <1>0, <5>2 DEF Throttle, Reply, NoCall
        <5>3. CASE Deliver(r)
          BY <1>0, <5>3 DEF Deliver, NoCall
        <5> QED
          BY <3>1, <5>1, <5>2, <5>3
      <4> QED
        BY <4>1 DEF Outdated, Admitted
    <3>2. CASE Authenticate(r)
      <4>1. CASE asset.life = "live" /\ asset.tracking /\ call[r].key = "valid"
        <5>1. call'[r].key = "valid"
          BY <1>0, <1>f, <3>2, <4>1 DEF Authenticate, Goto, Call
        <5> QED
          BY <2>2, <4>1, <5>1 DEF Outdated
      <4>2. CASE ~(asset.life = "live" /\ asset.tracking /\ call[r].key = "valid")
        <5>1. call'[r].op = "reply"
          BY <1>0, <3>2, <4>2 DEF Authenticate, Reply, NoCall
        <5> QED
          BY <5>1 DEF Outdated, Admitted
      <4> QED
        BY <4>1, <4>2
    <3>3. CASE Stamp(r)
      BY <1>0, <1>f, <3>3 DEF Stamp, Call, Outdated, Admitted
    <3>4. CASE Run(r) \/ Rotate(r) \/ Manual(r)
      <4>1. call'[r].op \notin {"locate", "store"} \/ call'[r].by = "manual"
        <5>1. CASE Run(r)
          BY <1>0, <5>1 DEF Run, Receive, NoCall
        <5>2. CASE Rotate(r) \/ Manual(r)
          BY <1>0, <5>2 DEF Rotate, Manual, Receive, NoCall
        <5> QED
          BY <3>4, <5>1, <5>2
      <4> QED
        BY <4>1 DEF Outdated, Admitted
    <3> QED
      BY <1>2, <3>1, <3>2, <3>3, <3>4
  <2>4. Outdated' \subseteq Outdated
    BY <2>1, <2>2, <2>3 DEF Outdated, Admitted
  <2> QED
    BY <1>0, <2>2, <2>4, Balanced
<1>3. ASSUME NEW r \in Requests, Issue(r) \/ RotateKey(r)
      PROVE  KeysAccounted'
  <2>1. CASE asset.life = "gone"
    <3>1. Reply(r, "failed") /\ UNCHANGED <<asset, reports, flight>>
      BY <1>3, <2>1 DEF Issue, RotateKey
    <3>2. Outdated' \subseteq Outdated
      BY <1>0, <3>1 DEF Reply, NoCall, Outdated, Admitted
    <3> QED
      BY <1>0, <3>1, <3>2, Balanced
  <2>2. CASE asset.life # "gone"
    <3>1. \E w \in Call : w.op = "reply" /\ RevokeKey(r, w)
      <4>1. /\ Handing("valid") \in Call
            /\ [Handing("valid") EXCEPT !.by = "manual"] \in Call
            /\ Handing("valid").op = "reply"
            /\ [Handing("valid") EXCEPT !.by = "manual"].op = "reply"
        BY DEF Handing, NoCall, Call, Ops, Keys
      <4> QED
        BY <1>3, <2>2, <4>1 DEF Issue, RotateKey
    <3>2. /\ \A s \in Requests : s # r => call'[s].op = call[s].op /\ call'[s].by = call[s].by
          /\ call'[r].op = "reply"
          /\ flight' = Cardinality(Admitted) /\ reports' = 0
      BY <1>0, <3>1, Revokes
    <3>3. Outdated' \subseteq Admitted
      BY <3>2 DEF Outdated, Admitted
    <3> QED
      BY <1>0, <3>2, <3>3, Balanced
  <2> QED
    BY <2>1, <2>2
<1>4. ASSUME NEW r \in Requests, Store(r)
      PROVE  KeysAccounted'
  <2>1. /\ call'[r].op = "reply"
        /\ \A s \in Requests : s # r =>
             call'[s].op = call[s].op /\ call'[s].by = call[s].by /\ call'[s].key = call[s].key
        /\ asset'.life = asset.life /\ asset'.tracking = asset.tracking /\ UNCHANGED flight
    <3>1. call'[r].op = "reply"
      BY <1>4 DEF Store, NoCall
    <3>2. ASSUME NEW s \in Requests, s # r
          PROVE  call'[s].op = call[s].op /\ call'[s].by = call[s].by /\ call'[s].key = call[s].key
      <4>1. PICK l : call'[s] = [call[s] EXCEPT !.older = @ \ {r}, !.late = l]
        BY <1>4, <3>2 DEF Store
      <4> QED
        BY ONLY <1>f, <4>1 DEF Call
    <3>3. asset'.life = asset.life /\ asset'.tracking = asset.tracking /\ UNCHANGED flight
      BY <1>0, <1>4 DEF Store, DeviceTypeOK
    <3> QED
      BY <3>1, <3>2, <3>3
  <2>2. Outdated' \subseteq Outdated \ {r}
    BY <2>1 DEF Outdated, Admitted
  <2>3. reports' = reports \/ (reports' = reports + 1 /\ r \in Outdated)
    BY <1>4 DEF Store, Outdated, Admitted
  <2> QED
    BY <1>0, <2>1, <2>2, <2>3, Balanced
<1>5. ASSUME NEW r \in Requests, Lose(r)
      PROVE  KeysAccounted'
  <2>1. /\ call'[r].op = "idle"
        /\ \A s \in Requests : s # r =>
             call'[s].op = call[s].op /\ call'[s].by = call[s].by /\ call'[s].key = call[s].key
        /\ UNCHANGED <<asset, reports, flight>>
    BY <1>0, <1>f, <1>5 DEF Lose, NoCall, Call
  <2>2. Outdated' \subseteq Outdated
    BY <2>1 DEF Outdated, Admitted
  <2> QED
    BY <1>0, <2>1, <2>2, Balanced
<1>6. CASE GiveUp \/ Restore
  <2>1. Outdated' \subseteq Outdated /\ UNCHANGED <<reports, flight>>
    BY <1>0, <1>6 DEF GiveUp, Restore, Outdated, Admitted, DeviceTypeOK
  <2> QED
    BY <1>0, <2>1, Balanced
<1>7. CASE Delete
  <2>1. /\ Outdated' \subseteq Admitted
        /\ reports' = 0 /\ flight' = Cardinality(Admitted)
    BY <1>7 DEF Delete, Outdated, Admitted
  <2> QED
    BY <1>0, <2>1, Balanced
<1>8. CASE DisableTracking \/ Purge
  <2>1. /\ flight' = Cardinality(Admitted) /\ reports' = 0
        /\ \A s \in Requests : call'[s].op = call[s].op /\ call'[s].by = call[s].by
    BY <1>0, <1>8, TrackingAssumption, CallTyped, Revokes DEF DisableTracking, Purge
  <2>2. Outdated' \subseteq Admitted
    BY <2>1 DEF Outdated, Admitted
  <2> QED
    BY <1>0, <2>1, <2>2, Balanced
<1> QED
  BY <1>1, <1>2, <1>3, <1>4, <1>5, <1>6, <1>7, <1>8, DeviceStep

\* The summary is written with the check-in that it shows.
LEMMA ShowsNewestKept ==
  ASSUME DeviceInv, [DeviceNext]_deviceVars
  PROVE  ShowsNewest'
<1>0. asset \in [life : {"live", "bin", "gone"}, tracking : BOOLEAN, shown : Sources]
  BY DEF DeviceInv, DeviceTypeOK
<1>1. CASE \E r \in Requests : Store(r)
  BY <1>0, <1>1 DEF DeviceInv, ShowsNewest, Store, Shown
<1>2. CASE Purge
  BY <1>2 DEF Purge, ShowsNewest
<1>3. CASE ~Purge /\ ~\E r \in Requests : Store(r)
  <2>1. asset'.shown = asset.shown /\ UNCHANGED <<newest, behind>>
    BY <1>0, <1>3, DeviceStep
       DEF deviceVars, Enrol, Issue, Authenticate, Stamp,
           RotateKey, Deliver, Run, Throttle, Lose,
           Rotate, Manual, GiveUp, DisableTracking, Delete,
           Restore
  <2> QED
    BY <2>1 DEF DeviceInv, ShowsNewest
<1> QED
  BY <1>1, <1>2, <1>3

\* Before anything has happened, nothing is outdated.
LEMMA DeviceInitially ==
  ASSUME DeviceInit
  PROVE  DeviceInv
<1>1. Cardinality(Requests) \in Nat /\ Cardinality({}) = 0
  BY RequestsCount, FS_EmptySet
<1>2. DeviceTypeOK
  <2>1. NoCall \in Call
    BY DEF NoCall, Call, Ops, Keys
  <2> QED
    <3>1. call \in [Requests -> Call]
      BY <2>1 DEF DeviceInit
    <3>2. reports \in 0..Cardinality(Requests) /\ flight \in 0..Cardinality(Requests)
      BY <1>1 DEF DeviceInit
    <3>3. troubles \in 0..MaxTroubles
      BY TrackingAssumption DEF DeviceInit
    <3> QED
      BY <3>1, <3>2, <3>3 DEF DeviceInit, DeviceTypeOK, Keys, Sources
<1>3. Outdated = {}
  BY DEF DeviceInit, NoCall, Outdated, Admitted
<1> QED
  BY <1>1, <1>2, <1>3 DEF DeviceInit, DeviceInv, KeysAccounted, ShowsNewest

\* What holds of the keys and check-ins of a device, whatever gets lost and whoever
\* rotates, removes or deletes.
THEOREM DeviceInvariant == DeviceSpec => []DeviceInv
<1>1. DeviceInit => DeviceInv
  BY DeviceInitially
<1>2. DeviceInv /\ [DeviceNext]_deviceVars => DeviceInv'
  BY DeviceTypesKept, KeysAccountedKept, ShowsNewestKept DEF DeviceInv
<1> QED
  BY <1>1, <1>2, PTL DEF DeviceSpec

\* A key that was replaced or removed, and one of a deleted asset, is good for no check-in
\* but those that were past authenticate at that moment (deviceService).
THEOREM RevokedKeysDie == DeviceSpec => []KeysHold
<1>1. DeviceInv => KeysHold
  <2> SUFFICES ASSUME DeviceInv PROVE OldKeysDie
    BY DEF DeviceInv, KeysHold
  <2>1. Cardinality(Outdated) \in Nat
    BY RequestsCount, AdmittedFew
  <2> QED
    BY <2>1, RequestsCount DEF DeviceInv, KeysAccounted, OldKeysDie, DeviceTypeOK
<1> QED
  BY <1>1, DeviceInvariant, PTL

\* An asset shows its newest check-in, unless the last one to be stored had taken its time
\* before a newer one was stored (recordCheckin).
THEOREM NewestIsShown == DeviceSpec => []ShowsNewest
<1>1. DeviceInv => ShowsNewest
  BY DEF DeviceInv
<1> QED
  BY <1>1, DeviceInvariant, PTL
=============================================================================
