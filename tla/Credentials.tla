----------------------------- MODULE Credentials -----------------------------
(***************************************************************************)
(* One account's password, reset links and sessions:                        *)
(* src/src/services/auth.service.ts and src/src/lib/auth/session.ts, and    *)
(* the callers of revokeAllForUser in user.service.ts and                   *)
(* employee.service.ts.  Accounts share nothing here but the rate limiter,  *)
(* which may refuse a request and then nothing below happens.               *)
(*                                                                         *)
(* A password is a version number: its hash matches if the version does.    *)
(* A request with a wrong one, or one that the policy refuses, stops        *)
(* before it writes anything.                                               *)
(*                                                                         *)
(* createSession and requestPasswordReset delete the old rows and insert    *)
(* the new one in a READ COMMITTED transaction.  The delete sees what is    *)
(* committed when it starts, so it is a step of its own; its effect shows   *)
(* at the commit, and until then it locks the rows it has deleted.          *)
(***************************************************************************)
EXTENDS Naturals, FiniteSets

CONSTANTS
  Tasks,        \* requests about the account that can be in progress at once
  MaxSignIns,   \* bound: sessions issued
  MaxLinks,     \* bound: reset links issued
  MaxPasswords, \* bound: passwords chosen after the first
  MaxCuts,      \* bound: times that every session had to end
  None

ASSUME CredentialsAssumption ==
  /\ MaxSignIns \in Nat /\ MaxLinks \in Nat
  /\ MaxPasswords \in Nat /\ MaxCuts \in Nat
  /\ None \notin Nat

Links == 1..MaxLinks

VARIABLES
  active,   \* User.isActive
  password, \* the version that User.passwordHash is a hash of
  legacy,   \* that hash is one that verifyPassword wants rewritten
  sessions, \* the Session rows
  links,    \* the PasswordResetToken rows, numbered as they are issued
  task,     \* what each request holds in its variables
  issued,   \* observer: sessions issued so far
  chosen,   \* observer: the version last chosen by the owner
  cuts,     \* observer: times that every session had to end
  missed,   \* observer: the last cut whose revocation was lost
  spent,    \* observer: passwords set with each link
  met       \* observer: where two requests met

account   == <<active, password, legacy>>
observers == <<issued, chosen, cuts, missed, spent, met>>
vars      == <<account, sessions, links, task, observers>>

\* A session remembers how many cuts came before it.  It is a twin when
\* another sign-in had already deleted the older ones and not yet committed.
Session == [id : 1..issued, cuts : 0..cuts, twin : BOOLEAN]

Task == [pc : {"idle", "rehash", "cycle", "issue", "create",
               "complete", "change", "revoke"},
         password : 0..chosen,            \* to write for a rehash
         link : Links \union {None},      \* opened
         doomed : SUBSET (1..issued \union Links), \* deleted and not committed
         cut : 0..cuts]                   \* the cut that it revokes for

Idle == [pc |-> "idle", password |-> 0, link |-> None, doomed |-> {}, cut |-> 0]

\* Where two requests met: links issued side by side, links that two
\* requests completed at once, and a password chosen during a rehash.
Meeting == [links : SUBSET Links, completions : SUBSET Links, rehash : BOOLEAN]

TypeOK ==
  /\ active \in BOOLEAN /\ legacy \in BOOLEAN
  /\ password \in 0..chosen /\ chosen \in 0..MaxPasswords
  /\ issued \in 0..MaxSignIns /\ sessions \subseteq Session
  /\ links \in [Links -> {"none", "live", "used", "expired", "deleted"}]
  /\ task \in [Tasks -> Task]
  /\ cuts \in 0..MaxCuts /\ missed \in 0..cuts
  /\ spent \in [Links -> 0..chosen]
  /\ met \in Meeting

Init ==
  /\ active = TRUE /\ password = 0 /\ legacy \in BOOLEAN
  /\ sessions = {} /\ issued = 0
  /\ links = [k \in Links |-> "none"]
  /\ task = [t \in Tasks |-> Idle]
  /\ chosen = 0 /\ cuts = 0 /\ missed = 0
  /\ spent = [k \in Links |-> 0]
  /\ met = [links |-> {}, completions |-> {}, rehash |-> FALSE]

-----------------------------------------------------------------------------
Begin(t, s) == task[t] = Idle /\ task' = [task EXCEPT ![t] = s]
End(t)      == task' = [task EXCEPT ![t] = Idle]

Others(t, pc) == {u \in Tasks \ {t} : task[u].pc = pc}

\* The links that a transaction in progress has deleted and holds locked.
Locked(k) == \E u \in Tasks : task[u].pc = "create" /\ k \in task[u].doomed

-----------------------------------------------------------------------------
(* Signing in and out.                                                      *)

\* login: finds the account, verifies the password, refuses a disabled one.
LoginRead(t) ==
  /\ active
  /\ Begin(t, IF legacy THEN [Idle EXCEPT !.pc = "rehash", !.password = password]
              ELSE [Idle EXCEPT !.pc = "cycle"])
  /\ UNCHANGED <<account, sessions, links, observers>>

\* The upgrade of an old hash writes the typed password by id; a failure of
\* that statement is ignored.
LoginRehash(t) ==
  /\ task[t].pc = "rehash"
  /\ \/ password' = task[t].password /\ legacy' = FALSE
     \/ UNCHANGED <<password, legacy>>
  /\ task' = [task EXCEPT ![t] = [Idle EXCEPT !.pc = "cycle"]]
  /\ UNCHANGED <<active, sessions, links, observers>>

\* Mutant: a sign-in leaves the sessions that there are.
LoginKeeps(t) ==
  /\ task[t].pc = "cycle"
  /\ task' = [task EXCEPT ![t].pc = "issue"]
  /\ UNCHANGED <<account, sessions, links, observers>>

\* createSession: the delete of the account's sessions ...
LoginCycle(t) ==
  /\ task[t].pc = "cycle"
  /\ task' = [task EXCEPT ![t].pc = "issue", ![t].doomed = {s.id : s \in sessions}]
  /\ UNCHANGED <<account, sessions, links, observers>>

\* ... and the insert, with the commit of both.
LoginIssue(t) ==
  /\ task[t].pc = "issue" /\ issued < MaxSignIns
  /\ issued' = issued + 1
  /\ sessions' = {s \in sessions : s.id \notin task[t].doomed} \union
                 {[id |-> issued', cuts |-> cuts, twin |-> Others(t, "issue") # {}]}
  /\ End(t)
  /\ UNCHANGED <<account, links, chosen, cuts, missed, spent, met>>

\* destroySession, the expired branch of auth and purgeExpiredSessions.
SessionEnds ==
  /\ \E s \in sessions : sessions' = sessions \ {s}
  /\ UNCHANGED <<account, links, task, observers>>

\* auth, presented with a session of a disabled account.
Auth ==
  /\ ~active /\ sessions # {}
  /\ sessions' = {}
  /\ UNCHANGED <<account, links, task, observers>>

-----------------------------------------------------------------------------
(* Everything that must end the account's sessions does it in two steps.    *)

\* Mutant: the first step is all there is.
CutOnly(t) ==
  /\ cuts < MaxCuts
  /\ cuts' = cuts + 1
  /\ End(t)

Cut(t) ==
  /\ cuts < MaxCuts
  /\ cuts' = cuts + 1
  /\ task' = [task EXCEPT ![t] = [Idle EXCEPT !.pc = "revoke", !.cut = cuts']]

\* revokeAllForUser.
Revoke(t) ==
  /\ task[t].pc = "revoke"
  /\ sessions' = {}
  /\ End(t)
  /\ UNCHANGED <<account, links, observers>>

\* setActive(false) and the user's part of offboard.
Disable(t) ==
  /\ task[t] = Idle
  /\ active' = FALSE
  /\ Cut(t)
  /\ UNCHANGED <<password, legacy, sessions, links, issued, chosen, missed, spent, met>>

\* changeRole, as far as the sessions go.
ChangeRole(t) ==
  /\ task[t] = Idle
  /\ Cut(t)
  /\ UNCHANGED <<account, sessions, links, issued, chosen, missed, spent, met>>

\* setActive(true) and reactivate.
Enable ==
  /\ ~active
  /\ active' = TRUE
  /\ UNCHANGED <<password, legacy, sessions, links, task, observers>>

-----------------------------------------------------------------------------
(* Reset links.                                                             *)

\* Mutant: only the expired links are deleted.
UnusedExpired == {k \in Links : links[k] = "expired"}

Unused == {k \in Links : links[k] \in {"live", "expired"}}

\* requestPasswordReset: finds the account, enabled; what it does next
\* depends on nothing it has read.  deleteMany where usedAt is null ...
ResetRequest(t) ==
  /\ active
  /\ Begin(t, [Idle EXCEPT !.pc = "create", !.doomed = Unused])
  /\ UNCHANGED <<account, sessions, links, observers>>

\* ... and the create.  The link is mailed through the outbox.
LinkCreate(t) ==
  /\ task[t].pc = "create"
  /\ \E k \in Links :
       /\ links[k] = "none" /\ \A j \in 1..(k - 1) : links[j] # "none"
       /\ links' = [j \in Links |-> CASE j = k -> "live"
                                      [] j \in task[t].doomed -> "deleted"
                                      [] OTHER -> links[j]]
       /\ met' = IF Others(t, "create") = {} THEN met
                 ELSE [met EXCEPT !.links = @ \union {k}]
  /\ End(t)
  /\ UNCHANGED <<account, sessions, issued, chosen, cuts, missed, spent>>

LinkExpires ==
  /\ \E k \in Links : links[k] = "live" /\ links' = [links EXCEPT ![k] = "expired"]
  /\ UNCHANGED <<account, sessions, task, observers>>

\* The purge job: used and expired links.
LinksPurged ==
  /\ \E k \in Links : links[k] \in {"used", "expired"}
  /\ links' = [k \in Links |-> IF links[k] \in {"used", "expired"} THEN "deleted" ELSE links[k]]
  /\ UNCHANGED <<account, sessions, task, observers>>

-----------------------------------------------------------------------------
(* Choosing a password.                                                     *)

\* completePasswordReset: validateResetToken, for an account in any state.
CompleteRead(t, k) ==
  /\ links[k] = "live"
  /\ Begin(t, [Idle EXCEPT !.pc = "complete", !.link = k])
  /\ met' = IF \E u \in Others(t, "complete") : task[u].link = k
            THEN [met EXCEPT !.completions = @ \union {k}] ELSE met
  /\ UNCHANGED <<account, sessions, links, issued, chosen, cuts, missed, spent>>

\* Mutant: the hash is of something else than was chosen.
ChooseOther ==
  /\ chosen < MaxPasswords
  /\ chosen' = chosen + 1 /\ password' = chosen' + 1 /\ legacy' = FALSE

\* A new version, by hash and by observer.
Choose ==
  /\ chosen < MaxPasswords
  /\ chosen' = chosen + 1 /\ password' = chosen' /\ legacy' = FALSE

\* Mutant: the transaction leaves usedAt as it is.
CompleteUnburnt(t) ==
  /\ task[t].pc = "complete" /\ ~Locked(task[t].link)
  /\ links[task[t].link] # "deleted"
  /\ Choose
  /\ spent' = [spent EXCEPT ![task[t].link] = @ + 1]
  /\ met' = [met EXCEPT !.rehash = Others(t, "rehash") # {}]
  /\ Cut(t)
  /\ UNCHANGED <<active, sessions, links, issued, missed>>

\* Its transaction: the password, and usedAt by the token's hash, which
\* waits for a lock on the row and fails when the row is gone.
CompleteWrite(t) ==
  /\ task[t].pc = "complete" /\ ~Locked(task[t].link)
  /\ links[task[t].link] # "deleted"
  /\ Choose
  /\ links' = [links EXCEPT ![task[t].link] = "used"]
  /\ spent' = [spent EXCEPT ![task[t].link] = @ + 1]
  /\ met' = [met EXCEPT !.rehash = Others(t, "rehash") # {}]
  /\ Cut(t)
  /\ UNCHANGED <<active, sessions, issued, missed>>

CompleteFails(t) ==
  /\ task[t].pc = "complete" /\ links[task[t].link] = "deleted"
  /\ End(t)
  /\ UNCHANGED <<account, sessions, links, observers>>

\* changeOwnPassword, by someone signed in who knows the current one.
ChangeRead(t) ==
  /\ active /\ sessions # {}
  /\ Begin(t, [Idle EXCEPT !.pc = "change"])
  /\ UNCHANGED <<account, sessions, links, observers>>

\* Mutant: the hash written is the one that was verified.
ChangeNothing(t) ==
  /\ task[t].pc = "change" /\ chosen < MaxPasswords
  /\ chosen' = chosen + 1 /\ UNCHANGED <<password, legacy>>
  /\ met' = [met EXCEPT !.rehash = Others(t, "rehash") # {}]
  /\ End(t)
  /\ UNCHANGED <<active, sessions, links, issued, cuts, missed, spent>>

\* It leaves the sessions alone.
ChangeWrite(t) ==
  /\ task[t].pc = "change"
  /\ Choose
  /\ met' = [met EXCEPT !.rehash = Others(t, "rehash") # {}]
  /\ End(t)
  /\ UNCHANGED <<active, sessions, links, issued, cuts, missed, spent>>

-----------------------------------------------------------------------------
\* The process stops: what is not committed is undone, and what was still
\* to be revoked is not.
Crash(t) ==
  /\ task[t] # Idle
  /\ missed' = IF task[t].cut > missed THEN task[t].cut ELSE missed
  /\ End(t)
  /\ UNCHANGED <<account, sessions, links, issued, chosen, cuts, spent, met>>

SignIn(t) == LoginRead(t) \/ LoginRehash(t) \/ LoginCycle(t) \/ LoginIssue(t)
Reset(t)  == ResetRequest(t) \/ LinkCreate(t)
          \/ (\E k \in Links : CompleteRead(t, k)) \/ CompleteWrite(t) \/ CompleteFails(t)
Change(t) == ChangeRead(t) \/ ChangeWrite(t)
Manage(t) == Disable(t) \/ ChangeRole(t) \/ Revoke(t)

Next ==
  \/ \E t \in Tasks : SignIn(t) \/ Reset(t) \/ Change(t) \/ Manage(t) \/ Crash(t)
  \/ SessionEnds \/ Auth \/ Enable \/ LinkExpires \/ LinksPurged

Spec == Init /\ [][Next]_vars

-----------------------------------------------------------------------------
(* Signing in ends the sessions before it: an account has one, whoever      *)
(* signed in and whatever was revoked, apart from sign-ins whose            *)
(* transactions ran side by side (createSession).                           *)
OneSession == Cardinality({s \in sessions : ~s.twin}) <= 1

(* After a reset, a change of role or a disabling, every session that       *)
(* existed at that moment is gone as soon as the revocation has run, also   *)
(* when the account is enabled again or a sign-in is in progress.  Only a   *)
(* revocation that the process did not live to run leaves them.             *)
RevocationsHold ==
  \A s \in sessions : \/ s.cuts = cuts \/ s.cuts < missed
                      \/ \E t \in Tasks : task[t].pc = "revoke" /\ s.cuts < task[t].cut

\* The link that a step sets a password with is the newest.
SpentIsNewest ==
  \A k \in Links : spent'[k] # spent[k] =>
    \/ \A j \in Links : j > k => links[j] = "none"
    \/ k \in met.links \union met.completions

(* "Only the newest link should work" (requestPasswordReset): a password    *)
(* is set with the newest link, even when the newer one was requested       *)
(* after the older one had been validated.  Two requests side by side each  *)
(* leave a link, and a completion that raced another may be the late one.   *)
NewestLinkOnly == [][SpentIsNewest]_vars

(* A link sets one password (completePasswordReset burns the token), also   *)
(* when it expires, is replaced or is purged on the way, unless two         *)
(* requests had both validated it before either wrote.                      *)
SingleUse == \A k \in Links : spent[k] <= 1 \/ k \in met.completions

(* The password that works is the one its owner chose last: no sign-in,     *)
(* reset or change writes an older one over it, except the rehash of a      *)
(* sign-in that had verified the older one (login).                         *)
PasswordIsLatest == password = chosen \/ met.rehash
=============================================================================
