----------------------------- MODULE RateLimiter -----------------------------
(***************************************************************************)
(* The counters behind lockouts and throttles, src/src/lib/security/       *)
(* rate-limit.ts, and the handlers that use them: sign-in                  *)
(* (authService.login), which peeks at two counters before it judges a      *)
(* password and hits them after a wrong one, and the routes and forms that  *)
(* hit one counter and go on if it allows.                                  *)
(*                                                                         *)
(* Two stores count: a Map in the process, whose operations are atomic and   *)
(* which a restart empties, and Redis, where increment and expiry are two     *)
(* round trips and every one of them may fail.  A failure lets the caller in.  *)
(* Redis reports the time to live of a key without expiry as -1.              *)
(***************************************************************************)
EXTENDS Integers, Sequences, FiniteSets

CONSTANTS
  Users, Ips,  \* counters of sign-ins: login:user:..., login:ip:...
  Forms,       \* counters of everything else: public:ticket:..., device:enrol:...
  Requests,    \* requests that can be in progress at once
  Max,         \* hits a counter allows
  Window,      \* ticks a counter lives
  Cap          \* bound: counters are not told apart from here on

ASSUME LimiterAssumption ==
  /\ IsFiniteSet(Requests)
  /\ Users \intersect Ips = {} /\ Forms \intersect (Users \union Ips) = {}
  /\ Max \in Nat \ {0} /\ Window \in Nat \ {0}
  /\ Cap \in Nat /\ Cap >= Max + Cardinality(Requests)

Keys  == Users \union Ips \union Forms
Never == -1

VARIABLES
  store, \* "memory" or "redis"
  count, \* the counters; 0 is a key that is not there
  left,  \* ticks until a key expires, or Never
  task,  \* what each request does next, and the counters it has to go to
  lost,  \* observer: hits of a counter whose expiry was never set
  blind  \* observer: a peek failed since the counters of sign-ins were last absent

vars == <<store, count, left, task, lost, blind>>

Idle == [op |-> "idle", todo |-> << >>]
Todo == {<< >>} \union (Users \X Ips) \union {<<k>> : k \in Ips \union Forms}

TypeOK ==
  /\ store \in {"memory", "redis"}
  /\ count \in [Keys -> 0..Cap] /\ left \in [Keys -> Never..Window] /\ lost \in [Keys -> 0..Cap]
  /\ task \in [Requests -> [op : {"idle", "askUser", "verify", "hit", "expire", "reset"}, todo : Todo]]
  /\ blind \in BOOLEAN
  /\ \A k \in Keys : count[k] = 0 <=> left[k] = 0
  /\ store = "memory" => \A k \in Keys : left[k] # Never

Init ==
  /\ store \in {"memory", "redis"}
  /\ count = [k \in Keys |-> 0] /\ left = [k \in Keys |-> 0]
  /\ task = [r \in Requests |-> Idle]
  /\ lost = [k \in Keys |-> 0] /\ blind = FALSE

-----------------------------------------------------------------------------
Capped(n) == IF n < Cap THEN n ELSE Cap

Enter(r, op, todo) == task[r] = Idle /\ task' = [task EXCEPT ![r] = [op |-> op, todo |-> todo]]
Goto(r, op) == task' = [task EXCEPT ![r].op = op]
Leave(r)    == task' = [task EXCEPT ![r] = Idle]

\* Observer: the counters that a sign-in looks at are gone, or some are left.
See == blind' = (blind /\ \E k \in Users \union Ips : count'[k] > 0)

Remove(keys) ==
  /\ count' = [k \in Keys |-> IF k \in keys THEN 0 ELSE count[k]]
  /\ left' = [k \in Keys |-> IF k \in keys THEN 0 ELSE left[k]]
  /\ lost' = [k \in Keys |-> IF k \in keys THEN 0 ELSE lost[k]]
  /\ See

-----------------------------------------------------------------------------
(* peek and reset, as authService.login uses them.                          *)

\* Mutant: > for >=.
PeekAllowsMore(k) == count[k] <= Max

\* Whether login goes on after a look at a counter.
PeekAllows(k) == count[k] < Max

\* The look at the network's counter.  A refusal changes nothing.
AskIp(r, u, ip) ==
  /\ Enter(r, "askUser", <<u, ip>>)
  /\ \/ PeekAllows(ip) /\ UNCHANGED blind
     \/ store = "redis" /\ blind' = TRUE
  /\ UNCHANGED <<store, count, left, lost>>

\* The look at the name's.
AskUser(r) ==
  LET u == Head(task[r].todo)
  IN /\ task[r].op = "askUser"
     /\ \/ PeekAllows(u) /\ Goto(r, "verify") /\ UNCHANGED blind
        \/ ~PeekAllows(u) /\ Leave(r) /\ UNCHANGED blind
        \/ store = "redis" /\ Goto(r, "verify") /\ blind' = TRUE
     /\ UNCHANGED <<store, count, left, lost>>

\* The password is wrong, or right, or right for a disabled account.
Verify(r) ==
  /\ task[r].op = "verify"
  /\ Goto(r, "hit") \/ Goto(r, "reset") \/ Leave(r)
  /\ UNCHANGED <<store, count, left, lost, blind>>

\* A sign-in clears both counters; in Redis either deletion may fail.
Reset(r) ==
  /\ task[r].op = "reset"
  /\ \E keys \in SUBSET {task[r].todo[1], task[r].todo[2]} :
       /\ store = "memory" => keys = {task[r].todo[1], task[r].todo[2]}
       /\ Remove(keys)
  /\ Leave(r) /\ UNCHANGED store

-----------------------------------------------------------------------------
(* hit.                                                                     *)

\* Whether request r now goes to counter k: after a wrong password, or as the
\* first thing a form, route or import does; and where it goes next.
At(r, k) ==
  \/ task[r].op = "hit" /\ k = Head(task[r].todo)
  \/ task[r] = Idle /\ k \in Forms

After(r, k) ==
  task' = [task EXCEPT ![r] = IF k \in Users THEN [op |-> "hit", todo |-> Tail(@.todo)] ELSE Idle]
ToExpire(r, k) ==
  task' = [task EXCEPT ![r] = [op |-> "expire", todo |-> IF k \in Forms THEN <<k>> ELSE @.todo]]

\* Mutant: a new window has no end.
HitMemoryOpen(r, k) ==
  /\ At(r, k) /\ store = "memory"
  /\ count' = [count EXCEPT ![k] = Capped(@ + 1)]
  /\ After(r, k)
  /\ UNCHANGED <<store, left, lost, blind>>

\* MemoryRateLimiter.hit: a new window, or one more in the old one.
HitMemory(r, k) ==
  /\ At(r, k) /\ store = "memory"
  /\ count' = [count EXCEPT ![k] = Capped(@ + 1)]
  /\ left' = [left EXCEPT ![k] = IF count[k] = 0 THEN Window ELSE @]
  /\ After(r, k)
  /\ UNCHANGED <<store, lost, blind>>

\* Mutant: every hit sets the expiry anew.
HitRedisSlides(r, k) ==
  /\ At(r, k) /\ store = "redis"
  /\ count' = [count EXCEPT ![k] = Capped(@ + 1)]
  /\ left' = [left EXCEPT ![k] = IF @ > 0 THEN @ ELSE Never]
  /\ ToExpire(r, k)
  /\ UNCHANGED <<store, lost, blind>>

\* Mutant: only the first hit of a counter sets the expiry.
HitRedisFirst(r, k) ==
  /\ At(r, k) /\ store = "redis"
  /\ count' = [count EXCEPT ![k] = Capped(@ + 1)]
  /\ left' = [left EXCEPT ![k] = IF @ > 0 THEN @ ELSE Never]
  /\ IF count[k] > 0 THEN After(r, k) ELSE ToExpire(r, k)
  /\ UNCHANGED <<store, lost, blind>>

\* RedisRateLimiter.hit, its MULTI: increment, and read the time to live.
HitRedis(r, k) ==
  /\ At(r, k) /\ store = "redis"
  /\ count' = [count EXCEPT ![k] = Capped(@ + 1)]
  /\ left' = [left EXCEPT ![k] = IF @ > 0 THEN @ ELSE Never]
  /\ IF left[k] > 0 THEN After(r, k) ELSE ToExpire(r, k)
  /\ UNCHANGED <<store, lost, blind>>

\* The MULTI fails, before or after Redis has done it.
HitFails(r, k) ==
  /\ At(r, k) /\ store = "redis"
  /\ \/ UNCHANGED <<count, left, lost>>
     \/ /\ count' = [count EXCEPT ![k] = Capped(@ + 1)]
        /\ left' = [left EXCEPT ![k] = IF @ > 0 THEN @ ELSE Never]
        /\ lost' = [lost EXCEPT ![k] = IF left[k] > 0 THEN 0 ELSE Capped(@ + 1)]
  /\ After(r, k)
  /\ UNCHANGED <<store, blind>>

\* The EXPIRE: of whatever the key is by now.
Expire(r) ==
  LET k == Head(task[r].todo)
  IN /\ task[r].op = "expire"
     /\ left' = [left EXCEPT ![k] = IF count[k] > 0 THEN Window ELSE 0]
     /\ lost' = [lost EXCEPT ![k] = 0]
     /\ After(r, k)
     /\ UNCHANGED <<store, count, blind>>

\* Observer: an expiry that k still needs is not coming.
Lose(k) == lost' = [lost EXCEPT ![k] = IF left[k] = Never THEN Capped(@ + 1) ELSE @]

\* The EXPIRE fails.
ExpireFails(r) ==
  LET k == Head(task[r].todo)
  IN /\ task[r].op = "expire"
     /\ Lose(k)
     /\ After(r, k)
     /\ UNCHANGED <<store, count, left, blind>>

-----------------------------------------------------------------------------
\* Time passes, and keys whose time is up are gone (Redis), or count as absent
\* until the next hit or sweep (memory).
Tick ==
  /\ \E k \in Keys : left[k] > 0
  /\ LET over == {k \in Keys : left[k] = 1}
     IN /\ count' = [k \in Keys |-> IF k \in over THEN 0 ELSE count[k]]
        /\ left' = [k \in Keys |-> IF left[k] > 0 THEN left[k] - 1 ELSE left[k]]
        /\ lost' = [k \in Keys |-> IF k \in over THEN 0 ELSE lost[k]]
        /\ See
  /\ UNCHANGED <<store, task>>

\* A process stops: Redis keeps its counters, the Map is gone with its process.
Crash(r) ==
  /\ task[r] # Idle
  /\ IF store = "memory"
     THEN task' = [s \in Requests |-> Idle] /\ Remove(Keys)
     ELSE /\ Leave(r)
          /\ IF task[r].op = "expire" THEN Lose(Head(task[r].todo)) ELSE UNCHANGED lost
          /\ UNCHANGED <<count, left, blind>>
  /\ UNCHANGED store

Hit(r, k) == HitMemory(r, k) \/ HitRedis(r, k) \/ HitFails(r, k)

\* The next step of a request in progress.
Step(r) ==
  /\ task[r] # Idle
  /\ \/ AskUser(r) \/ Verify(r) \/ Reset(r) \/ Expire(r) \/ ExpireFails(r)
     \/ \E k \in Keys : Hit(r, k)

Next ==
  \/ \E r \in Requests :
       \/ \E u \in Users, ip \in Ips : AskIp(r, u, ip)
       \/ \E k \in Forms : task[r] = Idle /\ Hit(r, k)
       \/ Step(r) \/ Crash(r)
  \/ Tick

\* The clock runs, and every command to Redis is answered or fails: there is
\* no offline queue, and retries are bounded.
Spec == Init /\ [][Next]_vars /\ WF_vars(Tick) /\ \A r \in Requests : WF_vars(Step(r))

-----------------------------------------------------------------------------
Login      == Users \union Ips
Blocked(k) == IF k \in Login THEN ~PeekAllows(k) ELSE count[k] > Max
Pending(k) == {r \in Requests : task[r].op = "expire" /\ Head(task[r].todo) = k}

\* Sign-ins look first and count later, so that some get past a counter that is
\* about to fill: no more than the other requests in progress, unless a look failed.
OvershootBounded ==
  blind \/ \A k \in Login : count[k] < Max + Cardinality(Requests)

\* A counter without expiry is waiting for one: every hit it has taken either
\* found none and is about to set it, or was lost while doing so.
ExpiryOnItsWay ==
  \A k \in Keys : left[k] = Never => count[k] <= lost[k] + Cardinality(Pending(k))

\* Every counter has an end in sight: in the process always, in Redis as above.
CountersExpire == TypeOK /\ ExpiryOnItsWay

\* Every lock ends, however many requests go on knocking, unless all the hits
\* that made it, as many as it takes, lost their expiry to a failure or a crash.
LocksEnd == \A k \in Keys : Blocked(k) ~> (~Blocked(k) \/ lost[k] >= Max)
=============================================================================
