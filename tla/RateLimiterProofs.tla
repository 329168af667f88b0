--------------------------- MODULE RateLimiterProofs ---------------------------
(***************************************************************************)
(* Machine-checked proofs about RateLimiter, for any sets of counters and    *)
(* any finite number of requests, any limit and any window.                 *)
(***************************************************************************)
EXTENDS RateLimiter, FiniteSetTheorems, TLAPS

\* A request is idle, signs in, or has one counter to go to.
Fits(r) ==
  \/ task[r] = Idle
  \/ /\ task[r].op \in {"askUser", "verify", "reset", "hit", "expire"}
     /\ \E u \in Users, ip \in Ips : task[r].todo = <<u, ip>>
  \/ /\ task[r].op \in {"hit", "expire"}
     /\ \E ip \in Ips : task[r].todo = <<ip>>
  \/ /\ task[r].op = "expire"
     /\ \E k \in Forms : task[r].todo = <<k>>

TasksFit == \A r \in Requests : Fits(r)

\* Request r has been let past the counter k of sign-ins, and has yet to hit it.
Owes(r, k) ==
  \/ task[r].op \in {"verify", "hit"} /\ \E ip \in Ips : task[r].todo = <<k, ip>>
  \/ /\ task[r].op \in {"askUser", "verify", "hit", "expire"}
     /\ \E u \in Users : task[r].todo = <<u, k>>
  \/ task[r].op = "hit" /\ task[r].todo = <<k>>

Owing(k) == {r \in Requests : Owes(r, k)}

\* Request r is about to set the expiry of counter k.
Expires(r, k) == task[r].op = "expire" /\ Head(task[r].todo) = k

\* Hits, those to come included, are no more than it takes to fill a counter and one of
\* every other request.
RoomFor(k) == count[k] + Cardinality(Owing(k)) < Max + Cardinality(Requests)

OwingBounded == blind \/ \A k \in Login : RoomFor(k)

LimiterInv ==
  /\ TypeOK
  /\ TasksFit
  /\ OwingBounded
  /\ ExpiryOnItsWay
-----------------------------------------------------------------------------
\* Sequences of one and two counters.
LEMMA Ends ==
  ASSUME NEW u, NEW ip
  PROVE  /\ Head(<<u, ip>>) = u /\ Tail(<<u, ip>>) = <<ip>>
         /\ Head(<<ip>>) = ip /\ Tail(<<ip>>) = << >>
         /\ <<u, ip>>[1] = u /\ <<u, ip>>[2] = ip
         /\ <<u, ip>> # << >> /\ <<ip>> # << >>
  OBVIOUS

\* And never the same.
LEMMA Lengths == \A a, b, c : <<a, b>> # <<c>>
  OBVIOUS

\* They are to-do lists.
LEMMA Lists ==
  /\ << >> \in Todo
  /\ \A u \in Users, ip \in Ips : <<u, ip>> \in Todo
  /\ \A k \in Ips \union Forms : <<k>> \in Todo
  BY DEF Todo

Request == [op : {"idle", "askUser", "verify", "hit", "expire", "reset"}, todo : Todo]

\* Request r gets on, and no other one does.
Turns(r, s) ==
  /\ task' \in [Requests -> Request] /\ task'[r] = s
  /\ \A q \in Requests : q # r => task'[q] = task[q]

\* One field of the function of requests is assigned, to a request.
LEMMA Turned ==
  ASSUME TypeOK, NEW r \in Requests, NEW s \in Request, task' = [task EXCEPT ![r] = s]
  PROVE  Turns(r, s)
  BY DEF TypeOK, Request, Turns

\* Where a request is that hits counter k.
LEMMA AtCounter ==
  ASSUME TasksFit, NEW r \in Requests, NEW k \in Keys, At(r, k)
  PROVE  \/ /\ k \in Users /\ task[r].op = "hit"
            /\ \E ip \in Ips : task[r].todo = <<k, ip>>
         \/ k \in Ips /\ task[r].op = "hit" /\ task[r].todo = <<k>>
         \/ k \in Forms /\ task[r] = Idle
<1>1. CASE task[r] = Idle /\ k \in Forms
  BY <1>1
<1>2. CASE task[r].op = "hit" /\ k = Head(task[r].todo)
  <2>1. task[r] # Idle
    BY <1>2 DEF Idle
  <2>2. CASE \E u \in Users, ip \in Ips : task[r].todo = <<u, ip>>
    BY <1>2, <2>2, Ends
  <2>3. CASE \E ip \in Ips : task[r].todo = <<ip>>
    BY <1>2, <2>3, Ends
  <2> QED
    BY <1>2, <2>1, <2>2, <2>3 DEF TasksFit, Fits
<1> QED
  BY <1>1, <1>2 DEF At

\* And where one is that sets the expiry of counter k.
LEMMA AtExpiry ==
  ASSUME TasksFit, NEW r \in Requests, task[r].op = "expire"
  PROVE  \E k \in Keys :
           /\ k = Head(task[r].todo)
           /\ \/ k \in Users /\ \E ip \in Ips : task[r].todo = <<k, ip>>
              \/ k \in Ips \union Forms /\ task[r].todo = <<k>>
<1>1. task[r] # Idle
  BY DEF Idle
<1>2. CASE \E u \in Users, ip \in Ips : task[r].todo = <<u, ip>>
  BY <1>2, Ends DEF Keys
<1>3. CASE \E ip \in Ips : task[r].todo = <<ip>>
  BY <1>3, Ends DEF Keys
<1>4. CASE \E k \in Forms : task[r].todo = <<k>>
  BY <1>4, Ends DEF Keys
<1> QED
  BY <1>1, <1>2, <1>3, <1>4 DEF TasksFit, Fits

\* A request that hits counter k and is done with it, by its answer or its failure.
LEMMA Hitting ==
  ASSUME TypeOK, TasksFit, NEW r \in Requests, NEW k \in Keys, At(r, k), After(r, k)
  PROVE  /\ \E s \in Request : Turns(r, s)
         /\ Fits(r)'
         /\ \A j \in Keys : ~Expires(r, j) /\ ~Expires(r, j)'
         /\ \A j \in Login : Owes(r, j)' => Owes(r, j)
         /\ k \in Login => Owes(r, k) /\ ~Owes(r, k)'
<1> USE LimiterAssumption, Ends, Lengths DEF Owes, Expires, Fits, Login
<1>1. CASE k \in Users /\ task[r].op = "hit" /\ \E ip \in Ips : task[r].todo = <<k, ip>>
  <2> PICK ip \in Ips : task[r].todo = <<k, ip>>
    BY <1>1
  <2>1. task' = [task EXCEPT ![r] = [op |-> "hit", todo |-> <<ip>>]]
    BY <1>1 DEF After
  <2>2. [op |-> "hit", todo |-> <<ip>>] \in Request
    BY Lists DEF Request
  <2>3. Turns(r, [op |-> "hit", todo |-> <<ip>>])
    BY ONLY <2>1, <2>2, TypeOK, r \in Requests, Turned
  <2>4. task'[r].op = "hit" /\ task'[r].todo = <<ip>>
    BY <2>3 DEF Turns
  <2> QED
    BY <1>1, <2>2, <2>3, <2>4
<1>2. CASE \/ k \in Ips /\ task[r].op = "hit" /\ task[r].todo = <<k>>
           \/ k \in Forms /\ task[r] = Idle
  <2>1. task' = [task EXCEPT ![r] = Idle]
    BY <1>2 DEF After
  <2>2. Idle \in Request
    BY Lists DEF Request, Idle
  <2>3. Turns(r, Idle)
    BY ONLY <2>1, <2>2, TypeOK, r \in Requests, Turned
  <2>4. task'[r] = Idle /\ Idle.op = "idle"
    BY <2>3 DEF Turns, Idle
  <2> QED
    BY <1>2, <2>2, <2>3, <2>4
<1> QED
  BY <1>1, <1>2, AtCounter

\* A request that hits counter k and is about to set its expiry.
LEMMA HittingFirst ==
  ASSUME TypeOK, TasksFit, NEW r \in Requests, NEW k \in Keys, At(r, k), ToExpire(r, k)
  PROVE  /\ \E s \in Request : Turns(r, s)
         /\ Fits(r)'
         /\ \A j \in Keys : ~Expires(r, j) /\ (Expires(r, j)' <=> j = k)
         /\ \A j \in Login : Owes(r, j)' => Owes(r, j)
         /\ k \in Login => Owes(r, k) /\ ~Owes(r, k)'
<1> USE LimiterAssumption, Ends, Lengths DEF Owes, Expires, Fits, Login
<1>1. CASE k \in Users /\ task[r].op = "hit" /\ \E ip \in Ips : task[r].todo = <<k, ip>>
  <2> PICK ip \in Ips : task[r].todo = <<k, ip>>
    BY <1>1
  <2>1. task' = [task EXCEPT ![r] = [op |-> "expire", todo |-> <<k, ip>>]]
    BY <1>1 DEF ToExpire
  <2>2. [op |-> "expire", todo |-> <<k, ip>>] \in Request
    BY <1>1, Lists DEF Request
  <2>3. Turns(r, [op |-> "expire", todo |-> <<k, ip>>])
    BY ONLY <2>1, <2>2, TypeOK, r \in Requests, Turned
  <2>4. task'[r].op = "expire" /\ task'[r].todo = <<k, ip>>
    BY <2>3 DEF Turns
  <2> QED
    BY <1>1, <2>2, <2>3, <2>4
<1>2. CASE \/ k \in Ips /\ task[r].op = "hit" /\ task[r].todo = <<k>>
           \/ k \in Forms /\ task[r] = Idle
  <2>1. task' = [task EXCEPT ![r] = [op |-> "expire", todo |-> <<k>>]]
    BY <1>2 DEF ToExpire
  <2>2. [op |-> "expire", todo |-> <<k>>] \in Request
    BY <1>2, Lists DEF Request
  <2>3. Turns(r, [op |-> "expire", todo |-> <<k>>])
    BY ONLY <2>1, <2>2, TypeOK, r \in Requests, Turned
  <2>4. task'[r].op = "expire" /\ task'[r].todo = <<k>>
    BY <2>3 DEF Turns
  <2>5. Idle.op = "idle"
    BY DEF Idle
  <2> QED
    BY <1>2, <2>2, <2>3, <2>4, <2>5
<1> QED
  BY <1>1, <1>2, AtCounter

\* A request that has set an expiry, or has failed to.
LEMMA Expiring ==
  ASSUME TypeOK, TasksFit, NEW r \in Requests, NEW k \in Keys,
         task[r].op = "expire", k = Head(task[r].todo), After(r, k)
  PROVE  /\ \E s \in Request : Turns(r, s)
         /\ Fits(r)'
         /\ \A j \in Keys : (Expires(r, j) <=> j = k) /\ ~Expires(r, j)'
         /\ \A j \in Login : Owes(r, j)' => Owes(r, j)
<1> USE LimiterAssumption, Ends, Lengths DEF Owes, Expires, Fits, Login
<1>1. CASE k \in Users /\ \E ip \in Ips : task[r].todo = <<k, ip>>
  <2> PICK ip \in Ips : task[r].todo = <<k, ip>>
    BY <1>1
  <2>1. task' = [task EXCEPT ![r] = [op |-> "hit", todo |-> <<ip>>]]
    BY <1>1 DEF After
  <2>2. [op |-> "hit", todo |-> <<ip>>] \in Request
    BY Lists DEF Request
  <2>3. Turns(r, [op |-> "hit", todo |-> <<ip>>])
    BY ONLY <2>1, <2>2, TypeOK, r \in Requests, Turned
  <2>4. task'[r].op = "hit" /\ task'[r].todo = <<ip>>
    BY <2>3 DEF Turns
  <2> QED
    BY <1>1, <2>2, <2>3, <2>4
<1>2. CASE k \in Ips \union Forms /\ task[r].todo = <<k>>
  <2>1. task' = [task EXCEPT ![r] = Idle]
    BY <1>2 DEF After
  <2>2. Idle \in Request
    BY Lists DEF Request, Idle
  <2>3. Turns(r, Idle)
    BY ONLY <2>1, <2>2, TypeOK, r \in Requests, Turned
  <2>4. task'[r] = Idle /\ Idle.op = "idle"
    BY <2>3 DEF Turns, Idle
  <2> QED
    BY <1>2, <2>2, <2>3, <2>4
<1> QED
  BY <1>1, <1>2, AtExpiry

\* A request that ends.
LEMMA Leaving ==
  ASSUME TypeOK, NEW r \in Requests, Leave(r)
  PROVE  /\ Turns(r, Idle) /\ Idle \in Request /\ Fits(r)'
         /\ \A j : ~Expires(r, j)' /\ ~Owes(r, j)'
<1>1. Idle \in Request /\ Idle.op = "idle"
  BY Lists DEF Request, Idle
<1>2. Turns(r, Idle)
  BY <1>1, Turned DEF Leave
<1> QED
  BY <1>1, <1>2 DEF Turns, Fits, Expires, Owes

\* A request that goes on with the same counters.
LEMMA GoingOn ==
  ASSUME TypeOK, TasksFit, NEW r \in Requests, NEW op \in {"verify", "hit", "reset"}, Goto(r, op),
         task[r].op \in {"askUser", "verify"}
  PROVE  \E u \in Users, ip \in Ips :
           /\ task[r].todo = <<u, ip>> /\ task'[r].op = op /\ task'[r].todo = <<u, ip>>
           /\ \E s \in Request : Turns(r, s)
           /\ Fits(r)'
           /\ \A j : ~Expires(r, j) /\ ~Expires(r, j)'
<1>1. task[r] \in Request /\ task[r] # Idle
  BY DEF TypeOK, Request, Idle
<1>2. PICK u \in Users, ip \in Ips : task[r].todo = <<u, ip>>
  BY <1>1 DEF TasksFit, Fits
<1>3. [task[r] EXCEPT !.op = op] \in Request /\ [task[r] EXCEPT !.op = op].op = op
      /\ [task[r] EXCEPT !.op = op].todo = <<u, ip>>
  BY <1>1, <1>2 DEF Request
<1>4. task' = [task EXCEPT ![r] = [task[r] EXCEPT !.op = op]]
  BY DEF Goto
<1>5. Turns(r, [task[r] EXCEPT !.op = op])
  BY <1>3, <1>4, Turned
<1> QED
  BY <1>2, <1>3, <1>5 DEF Turns, Fits, Expires

-----------------------------------------------------------------------------
(* How many requests owe a hit, or an expiry.                               *)

\* No request but r moves.
Others(r) == \A q \in Requests : q # r => task'[q] = task[q]

\* A subset is no larger, and smaller by whatever it lacks.
LEMMA Smaller ==
  ASSUME NEW T, IsFiniteSet(T), NEW S \in SUBSET T
  PROVE  /\ Cardinality(S) \in Nat /\ Cardinality(T) \in Nat
         /\ Cardinality(S) <= Cardinality(T)
         /\ \A x \in T : x \notin S => Cardinality(S) + 1 <= Cardinality(T)
<1>1. IsFiniteSet(S) /\ Cardinality(S) <= Cardinality(T)
  BY FS_Subset
<1>2. Cardinality(S) \in Nat /\ Cardinality(T) \in Nat
  BY <1>1, FS_CardinalityType
<1>3. ASSUME NEW x \in T, x \notin S
      PROVE  Cardinality(S) + 1 <= Cardinality(T)
  <2>1. IsFiniteSet(T \ {x}) /\ Cardinality(T \ {x}) = Cardinality(T) - 1
    BY FS_RemoveElement
  <2>2. S \in SUBSET (T \ {x})
    BY <1>3
  <2>3. Cardinality(S) <= Cardinality(T \ {x})
    BY <2>1, <2>2, FS_Subset
  <2> QED
    BY <1>2, <2>1, <2>3
<1> QED
  BY <1>1, <1>2, <1>3

\* And a set is larger by one than what is left without an element, or as large.
LEMMA Without ==
  ASSUME NEW S, IsFiniteSet(S), NEW x
  PROVE  IsFiniteSet(S \ {x}) /\ Cardinality(S) <= Cardinality(S \ {x}) + 1
<1>1. CASE x \in S
  <2>1. IsFiniteSet(S \ {x}) /\ Cardinality(S \ {x}) = Cardinality(S) - 1
    BY <1>1, FS_RemoveElement
  <2>2. Cardinality(S) \in Nat
    BY FS_CardinalityType
  <2> QED
    BY <2>1, <2>2
<1>2. CASE x \notin S
  <2>1. S \ {x} = S
    BY <1>2
  <2>2. Cardinality(S) \in Nat
    BY FS_CardinalityType
  <2> QED
    BY <2>1, <2>2
<1> QED
  BY <1>1, <1>2

\* The requests that owe something are some of finitely many.
LEMMA Counted ==
  ASSUME NEW k
  PROVE  /\ IsFiniteSet(Owing(k)) /\ IsFiniteSet(Owing(k)')
         /\ IsFiniteSet(Pending(k)) /\ IsFiniteSet(Pending(k)')
         /\ Cardinality(Requests) \in Nat
         /\ Cardinality(Owing(k)) \in Nat /\ Cardinality(Owing(k)') \in Nat
         /\ Cardinality(Pending(k)) \in Nat /\ Cardinality(Pending(k)') \in Nat
         /\ Cardinality(Owing(k)') <= Cardinality(Requests)
<1>1. /\ Owing(k) \in SUBSET Requests /\ Owing(k)' \in SUBSET Requests
      /\ Pending(k) \in SUBSET Requests /\ Pending(k)' \in SUBSET Requests
  BY DEF Owing, Pending
<1>2. IsFiniteSet(Requests)
  BY LimiterAssumption
<1>3. \A S \in SUBSET Requests :
         IsFiniteSet(S) /\ Cardinality(S) \in Nat /\ Cardinality(S) <= Cardinality(Requests)
  BY <1>2, FS_Subset, FS_CardinalityType
<1> HIDE DEF Owing, Pending
<1> QED
  BY <1>1, <1>2, <1>3, FS_CardinalityType

\* Request r owes counter k nothing new: there are no more that owe it, and fewer when it pays.
LEMMA OwingShrinks ==
  ASSUME NEW r \in Requests, NEW k, Others(r), Owes(r, k)' => Owes(r, k)
  PROVE  /\ Cardinality(Owing(k)') <= Cardinality(Owing(k))
         /\ Owes(r, k) /\ ~Owes(r, k)' => Cardinality(Owing(k)') + 1 <= Cardinality(Owing(k))
<1>1. \A q \in Requests : q # r => (Owes(q, k)' <=> Owes(q, k))
  BY DEF Others, Owes
<1>2. Owing(k)' \in SUBSET Owing(k)
  BY <1>1 DEF Owing
<1>3. Owes(r, k) /\ ~Owes(r, k)' => r \in Owing(k) /\ r \notin Owing(k)'
  BY DEF Owing
<1>4. IsFiniteSet(Owing(k))
  BY Counted
<1> QED
  BY ONLY <1>2, <1>3, <1>4, Smaller

\* The same of expiries, the other way round; and only r's can be gone.
LEMMA PendingGrows ==
  ASSUME NEW r \in Requests, NEW k, Others(r)
  PROVE  /\ (Expires(r, k) => Expires(r, k)') =>
              Cardinality(Pending(k)) <= Cardinality(Pending(k)')
         /\ ~Expires(r, k) /\ Expires(r, k)' =>
              Cardinality(Pending(k)) + 1 <= Cardinality(Pending(k)')
         /\ Cardinality(Pending(k)) <= Cardinality(Pending(k)') + 1
<1>1. \A q \in Requests : q # r => (Expires(q, k)' <=> Expires(q, k))
  BY DEF Others, Expires
<1>2. IsFiniteSet(Pending(k)) /\ IsFiniteSet(Pending(k)')
  BY Counted
<1>3. \A q : q \in Pending(k) <=> q \in Requests /\ Expires(q, k)
  BY DEF Pending, Expires
<1>4. \A q : q \in Pending(k)' <=> q \in Requests /\ Expires(q, k)'
  BY DEF Pending, Expires
<1>5. ASSUME Expires(r, k) => Expires(r, k)'
      PROVE  /\ Cardinality(Pending(k)) <= Cardinality(Pending(k)')
             /\ ~Expires(r, k) /\ Expires(r, k)' =>
                  Cardinality(Pending(k)) + 1 <= Cardinality(Pending(k)')
  <2>1. Pending(k) \in SUBSET (Pending(k)')
    BY <1>1, <1>3, <1>4, <1>5
  <2>2. ~Expires(r, k) /\ Expires(r, k)' => r \in Pending(k)' /\ r \notin Pending(k)
    BY <1>3, <1>4
  <2> QED
    BY ONLY <2>1, <2>2, <1>2, Smaller
<1>6. Cardinality(Pending(k)) <= Cardinality(Pending(k)') + 1
  <2>1. IsFiniteSet(Pending(k) \ {r})
        /\ Cardinality(Pending(k)) <= Cardinality(Pending(k) \ {r}) + 1
    BY ONLY <1>2, Without
  <2>2. (Pending(k) \ {r}) \in SUBSET (Pending(k)')
    BY <1>1, <1>3, <1>4
  <2>3. Cardinality(Pending(k) \ {r}) <= Cardinality(Pending(k)')
    BY ONLY <2>2, <1>2, Smaller
  <2>4. /\ Cardinality(Pending(k)) \in Nat /\ Cardinality(Pending(k)') \in Nat
        /\ Cardinality(Pending(k) \ {r}) \in Nat
    BY <1>2, <2>1, FS_CardinalityType
  <2> QED
    BY ONLY <2>1, <2>3, <2>4, SMT
<1> QED
  BY <1>5, <1>6

-----------------------------------------------------------------------------
(* What a step has to show to keep the invariant's parts.                   *)

\* The constants.
LEMMA Constants ==
  /\ Max \in Nat /\ Max > 0 /\ Window \in Nat /\ Window > 0 /\ Cap \in Nat /\ Cap > 0
  /\ \A k \in Login : k \in Keys
  BY LimiterAssumption, FS_CardinalityType DEF Login, Keys

\* Request r moves on, and is where a request can be.
LEMMA FitStays ==
  ASSUME TasksFit, NEW r \in Requests, Others(r), Fits(r)'
  PROVE  TasksFit'
  BY DEF TasksFit, Fits, Others

\* A counter of sign-ins keeps room for what it is owed when it grows by no more than one
\* request stops owing, and when it is not full.
LEMMA RoomStays ==
  ASSUME TypeOK, OwingBounded, TypeOK', NEW r \in Requests, Others(r),
         blind' = blind \/ See,
         \A k \in Login :
           \/ count'[k] <= count[k] /\ (Owes(r, k)' => Owes(r, k))
           \/ count'[k] <= count[k] + 1 /\ Owes(r, k) /\ ~Owes(r, k)'
           \/ count'[k] < Max
  PROVE  OwingBounded'
<1> SUFFICES ASSUME ~blind', NEW k \in Login
             PROVE  RoomFor(k)'
  BY DEF OwingBounded
<1>1. count[k] \in Nat /\ count'[k] \in Nat
  BY Constants DEF TypeOK
<1>2. CASE count'[k] < Max
  BY <1>1, <1>2, Counted, Constants DEF RoomFor
<1>3. CASE ~blind
  <2>1. RoomFor(k)
    BY <1>3 DEF OwingBounded
  <2>2. CASE count'[k] <= count[k] /\ (Owes(r, k)' => Owes(r, k))
    <3>1. Cardinality(Owing(k)') <= Cardinality(Owing(k))
      BY <2>2, OwingShrinks
    <3> QED
      BY <1>1, <2>1, <2>2, <3>1, Counted, Constants DEF RoomFor
  <2>3. CASE count'[k] <= count[k] + 1 /\ Owes(r, k) /\ ~Owes(r, k)'
    <3>1. Cardinality(Owing(k)') + 1 <= Cardinality(Owing(k))
      BY <2>3, OwingShrinks
    <3> QED
      BY <1>1, <2>1, <2>3, <3>1, Counted, Constants DEF RoomFor
  <2> QED
    BY <1>2, <2>2, <2>3
<1>4. CASE blind
  <2>1. See
    BY <1>4
  <2>2. count'[k] = 0
    <3>1. ~(\E j \in Users \union Ips : count'[j] > 0)
      BY <1>4, <2>1, Zenon DEF See
    <3> QED
      BY <1>1, <3>1 DEF Login
  <2> QED
    BY <1>2, <2>2, Constants
<1> QED
  BY <1>3, <1>4 DEF TypeOK

\* A counter without expiry stays accounted for when nothing changes for it, when a hit is
\* about to set its expiry, when a hit is lost, and when an expiry is.
LEMMA WayStays ==
  ASSUME TypeOK, ExpiryOnItsWay, TypeOK', NEW r \in Requests, Others(r),
         \A k \in Keys : left'[k] = Never =>
           \/ /\ left[k] = Never /\ count'[k] = count[k] /\ lost'[k] = lost[k]
              /\ Expires(r, k) => Expires(r, k)'
           \/ /\ left[k] = Never \/ count[k] = 0
              /\ count'[k] <= count[k] + 1 /\ lost'[k] = lost[k]
              /\ ~Expires(r, k) /\ Expires(r, k)'
           \/ /\ left[k] = Never \/ count[k] = 0
              /\ count'[k] <= count[k] + 1 /\ lost'[k] = Capped(lost[k] + 1)
              /\ ~Expires(r, k)
           \/ left[k] = Never /\ count'[k] = count[k] /\ lost'[k] = Capped(lost[k] + 1)
  PROVE  ExpiryOnItsWay'
<1> SUFFICES ASSUME NEW k \in Keys, left'[k] = Never
             PROVE  count'[k] <= lost'[k] + Cardinality(Pending(k)')
  BY DEF ExpiryOnItsWay, Never
<1> DEFINE n == Cardinality(Pending(k))
<1> DEFINE m == Cardinality(Pending(k)')
<1>1. /\ count[k] \in 0..Cap /\ count'[k] \in 0..Cap
      /\ lost[k] \in 0..Cap /\ lost'[k] \in 0..Cap /\ n \in Nat /\ m \in Nat
  BY Counted DEF TypeOK
<1>2. left[k] = Never \/ count[k] = 0 => count[k] <= lost[k] + n
  BY <1>1, Constants DEF ExpiryOnItsWay
<1>3. /\ (Expires(r, k) => Expires(r, k)') => n <= m
      /\ ~Expires(r, k) /\ Expires(r, k)' => n + 1 <= m
      /\ n <= m + 1
  BY PendingGrows
<1>4. ~Expires(r, k) => n <= m
  BY <1>3
<1>5. lost'[k] = Capped(lost[k] + 1) => lost'[k] >= Cap \/ lost'[k] = lost[k] + 1
  BY <1>1, Constants DEF Capped
<1> HIDE DEF n, m
<1>6. count'[k] <= lost'[k] + m
  BY <1>1, <1>2, <1>3, <1>4, <1>5, Constants
<1> QED
  BY <1>6 DEF m

-----------------------------------------------------------------------------
(* The type.                                                                *)

\* Counter k takes a hit, and nothing else counts.
Bumps(k) ==
  /\ count' \in [Keys -> 0..Cap] /\ count'[k] = Capped(count[k] + 1)
  /\ count'[k] > 0 /\ count'[k] <= count[k] + 1
  /\ \A j \in Keys : j # k => count'[j] = count[j]

\* It does, when its field is incremented.
LEMMA Bumped ==
  ASSUME TypeOK, NEW k \in Keys, count' = [count EXCEPT ![k] = Capped(@ + 1)]
  PROVE  Bumps(k)
<1>1. count[k] \in 0..Cap
  BY DEF TypeOK
<1>2. Capped(count[k] + 1) \in 0..Cap /\ Capped(count[k] + 1) > 0
      /\ Capped(count[k] + 1) <= count[k] + 1
  BY <1>1, Constants DEF Capped
<1> HIDE DEF Capped
<1> QED
  BY <1>2 DEF Bumps, TypeOK

\* The time that counter k has left is set to n, and no other one's.
Sets(k, n) ==
  /\ left' \in [Keys -> Never..Window] /\ left'[k] = n
  /\ \A j \in Keys : j # k => left'[j] = left[j]

\* It is, when its field is assigned.
LEMMA SetTime ==
  ASSUME TypeOK, NEW k \in Keys, NEW n \in Never..Window, left' = [left EXCEPT ![k] = n]
  PROVE  Sets(k, n)
  BY DEF Sets, TypeOK

\* What Redis's MULTI leaves of a counter's time.
LEMMA Kept ==
  ASSUME TypeOK, NEW k \in Keys, left' = [left EXCEPT ![k] = IF @ > 0 THEN @ ELSE Never]
  PROVE  IF left[k] > 0 THEN Sets(k, left[k]) ELSE Sets(k, Never)
<1>1. left[k] \in Never..Window /\ Never \in Never..Window
  BY Constants DEF TypeOK, Never
<1>2. left' = [left EXCEPT ![k] = IF left[k] > 0 THEN left[k] ELSE Never]
  OBVIOUS
<1> QED
  BY <1>1, <1>2, SetTime

\* The observer counts one more lost expiry of counter k, or none.
Loses(k, n) ==
  /\ lost' \in [Keys -> 0..Cap] /\ lost'[k] = n
  /\ \A j \in Keys : j # k => lost'[j] = lost[j]

\* And so for the observer.
LEMMA LossSet ==
  ASSUME TypeOK, NEW k \in Keys, NEW n \in 0..Cap, lost' = [lost EXCEPT ![k] = n]
  PROVE  Loses(k, n)
  BY DEF Loses, TypeOK

\* Counting goes no further than the cap.
LEMMA CapIsType == \A k \in Keys : TypeOK => Capped(lost[k] + 1) \in 0..Cap
  BY Constants DEF Capped, TypeOK

\* A lost expiry is counted where it is still needed.
LEMMA Lost ==
  ASSUME TypeOK, NEW k \in Keys, Lose(k)
  PROVE  IF left[k] = Never THEN Loses(k, Capped(lost[k] + 1)) ELSE Loses(k, lost[k])
<1>1. lost[k] \in 0..Cap /\ Capped(lost[k] + 1) \in 0..Cap
  BY CapIsType DEF TypeOK
<1>2. lost' = [lost EXCEPT ![k] = IF left[k] = Never THEN Capped(lost[k] + 1) ELSE lost[k]]
  BY DEF Lose
<1> HIDE DEF Capped, Never
<1> QED
  BY <1>1, <1>2, LossSet

\* Some counters are removed, for some reason; the others stay.
LEMMA Removed ==
  ASSUME TypeOK, NEW keys \in SUBSET Keys, Remove(keys)
  PROVE  /\ count' \in [Keys -> 0..Cap] /\ left' \in [Keys -> Never..Window]
         /\ lost' \in [Keys -> 0..Cap] /\ blind' \in BOOLEAN
         /\ \A k \in Keys : IF k \in keys
                            THEN count'[k] = 0 /\ left'[k] = 0 /\ lost'[k] = 0
                            ELSE count'[k] = count[k] /\ left'[k] = left[k] /\ lost'[k] = lost[k]
<1>1. 0 \in 0..Cap /\ 0 \in Never..Window
  BY Constants DEF Never
<1>2. /\ count' \in [Keys -> 0..Cap] /\ left' \in [Keys -> Never..Window]
      /\ lost' \in [Keys -> 0..Cap]
  BY <1>1 DEF Remove, TypeOK
<1>3. blind' \in BOOLEAN
  BY DEF Remove, See
<1> QED
  BY <1>2, <1>3 DEF Remove

-----------------------------------------------------------------------------
(* A request's steps before it hits a counter.                              *)

\* The look at the network's counter: r owes it a hit, and it is not full.
LEMMA AskIpKeeps ==
  ASSUME LimiterInv, NEW r \in Requests, NEW u \in Users, NEW ip \in Ips, AskIp(r, u, ip)
  PROVE  LimiterInv'
<1> USE DEF LimiterInv
<1>1. /\ UNCHANGED <<store, count, left, lost>> /\ task[r] = Idle
      /\ task' = [task EXCEPT ![r] = [op |-> "askUser", todo |-> <<u, ip>>]]
  BY DEF AskIp, Enter
<1>2. [op |-> "askUser", todo |-> <<u, ip>>] \in Request
  BY Lists DEF Request
<1>3. Turns(r, [op |-> "askUser", todo |-> <<u, ip>>])
  BY ONLY <1>1, <1>2, TypeOK, r \in Requests, Turned
<1>4. task'[r].op = "askUser" /\ task'[r].todo = <<u, ip>> /\ Others(r)
  BY <1>3 DEF Turns, Others
<1>5. blind' \in BOOLEAN /\ (~blind' => ~blind /\ count[ip] < Max)
  <2>1. CASE count[ip] < Max /\ blind' = blind
    BY <2>1 DEF TypeOK
  <2>2. CASE blind' = TRUE
    BY <2>2
  <2> QED
    BY <2>1, <2>2 DEF AskIp, PeekAllows
<1>6. TypeOK'
  BY <1>1, <1>3, <1>5 DEF TypeOK, Turns, Request
<1>7. TasksFit'
  BY <1>4, FitStays DEF Fits
<1>8. ASSUME NEW k \in Login, Owes(r, k)'
      PROVE  k = ip
  BY <1>4, <1>8, Ends, Lengths DEF Owes
<1>9. OwingBounded'
  <2>1. CASE blind'
    BY <2>1 DEF OwingBounded
  <2>2. CASE ~blind'
    <3>1. blind' = blind
      BY <1>5, <2>2 DEF TypeOK
    <3>2. \A k \in Login : count'[k] <= count[k] /\ count[k] \in Nat
      BY <1>1, Constants DEF TypeOK
    <3>3. count'[ip] < Max
      BY <1>1, <1>5, <2>2
    <3> QED
      BY <1>4, <1>6, <1>8, <3>1, <3>2, <3>3, RoomStays
  <2> QED
    BY <2>1, <2>2
<1>10. \A k \in Keys : ~Expires(r, k)
  BY <1>1 DEF Expires, Idle
<1>11. ExpiryOnItsWay'
  BY <1>1, <1>4, <1>6, <1>10, WayStays
<1> QED
  BY <1>6, <1>7, <1>9, <1>11

\* The look at the name's: r owes it a hit, and it is not full.
LEMMA AskUserKeeps ==
  ASSUME LimiterInv, NEW r \in Requests, AskUser(r)
  PROVE  LimiterInv'
<1> USE DEF LimiterInv
<1>1. UNCHANGED <<store, count, left, lost>> /\ task[r].op = "askUser" /\ task[r] # Idle
  BY DEF AskUser, Idle
<1>2. PICK u \in Users, ip \in Ips : task[r].todo = <<u, ip>>
  BY <1>1 DEF TasksFit, Fits
<1>3. u = Head(task[r].todo)
  BY <1>2, Ends
<1>4. \/ Goto(r, "verify") /\ blind' = blind /\ count[u] < Max
      \/ Leave(r) /\ blind' = blind
      \/ Goto(r, "verify") /\ blind' = TRUE
  BY <1>3 DEF AskUser, PeekAllows
<1>5. \A k \in Keys : ~Expires(r, k)
  BY <1>1 DEF Expires
<1>6. /\ \E s \in Request : Turns(r, s)
      /\ Fits(r)'
      /\ \A k \in Login : k = u \/ (Owes(r, k)' => Owes(r, k))
  <2>1. CASE Leave(r)
    BY <2>1, Leaving
  <2>2. CASE Goto(r, "verify")
    <3>1. /\ \E s \in Request : Turns(r, s)
          /\ Fits(r)'
          /\ task'[r].todo = <<u, ip>>
      BY <1>1, <1>2, <2>2, GoingOn
    <3> QED
      BY <1>1, <1>2, <3>1, Ends, Lengths DEF Owes
  <2> QED
    BY <1>4, <2>1, <2>2
<1>7. Others(r) /\ task' \in [Requests -> Request]
  BY <1>6 DEF Turns, Others
<1>8. TypeOK'
  BY <1>1, <1>4, <1>7 DEF TypeOK, Request
<1>9. TasksFit'
  BY <1>6, <1>7, FitStays
<1>10. OwingBounded'
  <2>1. CASE blind'
    BY <2>1 DEF OwingBounded
  <2>2. CASE ~blind'
    <3>1. blind' = blind /\ (Leave(r) \/ count'[u] < Max)
      BY <1>1, <1>4, <2>2
    <3>2. \A k \in Login : count'[k] <= count[k] /\ count[k] \in Nat
      BY <1>1, Constants DEF TypeOK
    <3>3. Leave(r) => \A k \in Login : ~Owes(r, k)'
      BY Leaving
    <3> QED
      BY <1>6, <1>7, <1>8, <3>1, <3>2, <3>3, RoomStays
  <2> QED
    BY <2>1, <2>2
<1>11. ExpiryOnItsWay'
  BY <1>1, <1>5, <1>7, <1>8, WayStays
<1> QED
  BY <1>8, <1>9, <1>10, <1>11

\* The judgement: r owes what it owed, or nothing.
LEMMA VerifyKeeps ==
  ASSUME LimiterInv, NEW r \in Requests, Verify(r)
  PROVE  LimiterInv'
<1> USE DEF LimiterInv
<1>1. UNCHANGED <<store, count, left, lost, blind>> /\ task[r].op = "verify"
  BY DEF Verify
<1>2. /\ \E s \in Request : Turns(r, s)
      /\ Fits(r)'
      /\ \A k \in Login : Owes(r, k)' => Owes(r, k)
  <2>1. CASE Leave(r)
    BY <2>1, Leaving
  <2>2. ASSUME NEW op \in {"hit", "reset"}, Goto(r, op)
        PROVE  /\ \E s \in Request : Turns(r, s)
               /\ Fits(r)'
               /\ \A k \in Login : Owes(r, k)' => Owes(r, k)
    <3>1. PICK u \in Users, ip \in Ips :
            /\ task[r].todo = <<u, ip>> /\ task'[r].todo = <<u, ip>>
            /\ \E s \in Request : Turns(r, s)
            /\ Fits(r)'
      BY <1>1, <2>2, GoingOn
    <3> QED
      BY <1>1, <3>1, Ends, Lengths DEF Owes
  <2> QED
    BY <2>1, <2>2 DEF Verify
<1>3. Others(r) /\ task' \in [Requests -> Request]
  BY <1>2 DEF Turns, Others
<1>4. TypeOK'
  BY <1>1, <1>3 DEF TypeOK, Request
<1>5. TasksFit'
  BY <1>2, <1>3, FitStays
<1>6. OwingBounded'
  <2>1. \A k \in Login : count'[k] <= count[k]
    BY <1>1, Constants DEF TypeOK
  <2> QED
    BY <1>1, <1>2, <1>3, <1>4, <2>1, RoomStays
<1>7. \A k \in Keys : ~Expires(r, k)
  BY <1>1 DEF Expires
<1>8. ExpiryOnItsWay'
  BY <1>1, <1>3, <1>4, <1>7, WayStays
<1> QED
  BY <1>4, <1>5, <1>6, <1>8

\* The two resets: what they remove is empty, and r owes nothing.
LEMMA ResetKeeps ==
  ASSUME LimiterInv, NEW r \in Requests, Reset(r)
  PROVE  LimiterInv'
<1> USE DEF LimiterInv
<1>1. task[r].op = "reset" /\ task[r] # Idle /\ Leave(r) /\ UNCHANGED store
  BY DEF Reset, Idle
<1>2. PICK u \in Users, ip \in Ips : task[r].todo = <<u, ip>>
  BY <1>1 DEF TasksFit, Fits
<1>3. PICK keys \in SUBSET {u, ip} : Remove(keys)
  BY <1>2, Ends DEF Reset
<1>4. keys \in SUBSET Keys
  BY <1>3 DEF Keys
<1>5. /\ count' \in [Keys -> 0..Cap] /\ left' \in [Keys -> Never..Window]
      /\ lost' \in [Keys -> 0..Cap] /\ blind' \in BOOLEAN
      /\ \A k \in Keys : IF k \in keys
                         THEN count'[k] = 0 /\ left'[k] = 0 /\ lost'[k] = 0
                         ELSE count'[k] = count[k] /\ left'[k] = left[k] /\ lost'[k] = lost[k]
  BY <1>3, <1>4, Removed
<1>6. /\ Fits(r)' /\ Others(r) /\ task' \in [Requests -> Request]
      /\ \A k : ~Owes(r, k)'
  BY <1>1, Leaving DEF Turns, Others
<1>7. TypeOK'
  BY <1>1, <1>5, <1>6 DEF TypeOK, Request, Never
<1>8. TasksFit'
  BY <1>6, FitStays
<1>9. OwingBounded'
  <2>1. \A k \in Login : count'[k] <= count[k]
    BY <1>5, Constants DEF TypeOK
  <2>2. See
    BY <1>3 DEF Remove
  <2> QED
    BY <1>6, <1>7, <2>1, <2>2, RoomStays
<1>10. \A k \in Keys : ~Expires(r, k)
  BY <1>1 DEF Expires
<1>11. \A k \in Keys : left'[k] = Never =>
         left[k] = Never /\ count'[k] = count[k] /\ lost'[k] = lost[k]
  BY <1>5 DEF Never
<1>12. ExpiryOnItsWay'
  BY <1>6, <1>7, <1>10, <1>11, WayStays
<1> QED
  BY <1>7, <1>8, <1>9, <1>12

-----------------------------------------------------------------------------
(* The hits.                                                                *)

\* A hit leaves room where it counts: the request that hits owed it.
LEMMA HitsLeaveRoom ==
  ASSUME LimiterInv, TypeOK', NEW r \in Requests, NEW k \in Keys, Others(r), blind' = blind,
         count' = count \/ Bumps(k),
         \A j \in Login : Owes(r, j)' => Owes(r, j),
         k \in Login => Owes(r, k) /\ ~Owes(r, k)'
  PROVE  OwingBounded'
<1>1. \A j \in Login : count[j] \in Nat
  BY Constants DEF LimiterInv, TypeOK
<1>2. ASSUME NEW j \in Login
      PROVE  \/ count'[j] <= count[j] /\ (Owes(r, j)' => Owes(r, j))
             \/ count'[j] <= count[j] + 1 /\ Owes(r, j) /\ ~Owes(r, j)'
  <2>1. CASE count' = count \/ j # k
    <3>1. count'[j] = count[j]
      BY <2>1, Constants DEF Bumps
    <3> QED
      BY <1>1, <3>1
  <2>2. CASE Bumps(k) /\ j = k
    BY <2>2 DEF Bumps
  <2> QED
    BY <2>1, <2>2
<1> QED
  BY <1>2, RoomStays DEF LimiterInv

\* A hit in the process: r pays, and the window has an end.
LEMMA HitMemoryKeeps ==
  ASSUME LimiterInv, NEW r \in Requests, NEW k \in Keys, HitMemory(r, k)
  PROVE  LimiterInv'
<1> USE DEF LimiterInv
<1>1. /\ UNCHANGED <<store, lost, blind>> /\ At(r, k) /\ After(r, k) /\ store = "memory"
      /\ count' = [count EXCEPT ![k] = Capped(@ + 1)]
      /\ left' = [left EXCEPT ![k] = IF count[k] = 0 THEN Window ELSE left[k]]
  BY DEF HitMemory
<1>2. Bumps(k)
  BY <1>1, Bumped
<1>3. left[k] \in Never..Window /\ Window \in Never..Window
  BY Constants DEF TypeOK, Never
<1>4. IF count[k] = 0 THEN Sets(k, Window) ELSE Sets(k, left[k])
  BY <1>1, <1>3, SetTime
<1>5. /\ \E s \in Request : Turns(r, s)
      /\ Fits(r)'
      /\ \A j \in Login : Owes(r, j)' => Owes(r, j)
      /\ k \in Login => Owes(r, k) /\ ~Owes(r, k)'
  BY <1>1, Hitting
<1>6. Others(r) /\ task' \in [Requests -> Request]
  BY <1>5 DEF Turns, Others
<1>7. /\ \A j \in Keys : left'[j] # Never
      /\ \A j \in Keys : count'[j] = 0 <=> left'[j] = 0
      /\ left' \in [Keys -> Never..Window]
  BY <1>1, <1>2, <1>4, Constants DEF TypeOK, Bumps, Sets, Never
<1>8. TypeOK'
  BY <1>1, <1>2, <1>6, <1>7 DEF TypeOK, Request, Bumps
<1>9. TasksFit'
  BY <1>5, <1>6, FitStays
<1>10. OwingBounded'
  BY <1>1, <1>2, <1>5, <1>6, <1>8, HitsLeaveRoom
<1>11. ExpiryOnItsWay'
  BY <1>7 DEF ExpiryOnItsWay, Never
<1> QED
  BY <1>8, <1>9, <1>10, <1>11

\* A hit in Redis: r pays, and goes on to set an expiry that is missing.
LEMMA HitRedisKeeps ==
  ASSUME LimiterInv, NEW r \in Requests, NEW k \in Keys, HitRedis(r, k)
  PROVE  LimiterInv'
<1> USE DEF LimiterInv
<1>1. /\ UNCHANGED <<store, lost, blind>> /\ At(r, k) /\ store = "redis"
      /\ IF left[k] > 0 THEN After(r, k) ELSE ToExpire(r, k)
  BY DEF HitRedis
<1>2. Bumps(k)
  BY Bumped DEF HitRedis
<1>3. IF left[k] > 0 THEN Sets(k, left[k]) ELSE Sets(k, Never)
  BY Kept DEF HitRedis
<1>4. /\ \E s \in Request : Turns(r, s)
      /\ Fits(r)'
      /\ \A j \in Login : Owes(r, j)' => Owes(r, j)
      /\ k \in Login => Owes(r, k) /\ ~Owes(r, k)'
      /\ \A j \in Keys : ~Expires(r, j)
      /\ left[k] <= 0 => Expires(r, k)'
  <2>1. CASE left[k] > 0
    <3>1. ~(left[k] <= 0)
      BY <2>1 DEF TypeOK, Never
    <3> QED
      BY <1>1, <2>1, <3>1, Hitting
  <2>2. CASE ~(left[k] > 0)
    BY <1>1, <2>2, HittingFirst
  <2> QED
    BY <2>1, <2>2
<1>5. Others(r) /\ task' \in [Requests -> Request]
  BY <1>4 DEF Turns, Others
<1>6. /\ \A j \in Keys : count'[j] = 0 <=> left'[j] = 0
      /\ left' \in [Keys -> Never..Window]
  BY <1>2, <1>3, Constants DEF TypeOK, Bumps, Sets, Never
<1>7. TypeOK'
  BY <1>1, <1>2, <1>5, <1>6 DEF TypeOK, Request, Bumps
<1>8. TasksFit'
  BY <1>4, <1>5, FitStays
<1>9. OwingBounded'
  BY <1>1, <1>2, <1>4, <1>5, <1>7, HitsLeaveRoom
<1>10. ASSUME NEW j \in Keys, left'[j] = Never
       PROVE  \/ left[j] = Never /\ count'[j] = count[j] /\ lost'[j] = lost[j]
              \/ /\ left[j] = Never \/ count[j] = 0
                 /\ count'[j] <= count[j] + 1 /\ lost'[j] = lost[j]
                 /\ ~Expires(r, j) /\ Expires(r, j)'
  <2>1. CASE j # k
    BY <1>1, <1>2, <1>3, <1>10, <2>1 DEF Bumps, Sets
  <2>2. CASE j = k
    <3>1. left[k] <= 0 /\ left[k] \in Never..Window
      BY <1>3, <1>10, <2>2 DEF Sets, Never, TypeOK
    <3>2. left[k] = Never \/ count[k] = 0
      BY <3>1 DEF Never, TypeOK
    <3> QED
      BY <1>1, <1>2, <1>4, <2>2, <3>1, <3>2 DEF Bumps
  <2> QED
    BY <2>1, <2>2
<1>11. ExpiryOnItsWay'
  BY <1>4, <1>5, <1>7, <1>10, WayStays
<1> QED
  BY <1>7, <1>8, <1>9, <1>11

\* A hit that fails: r is done with it, and an expiry that is missing is lost.
LEMMA HitFailsKeeps ==
  ASSUME LimiterInv, NEW r \in Requests, NEW k \in Keys, HitFails(r, k)
  PROVE  LimiterInv'
<1> USE DEF LimiterInv
<1>1. UNCHANGED <<store, blind>> /\ At(r, k) /\ store = "redis" /\ After(r, k)
  BY DEF HitFails
<1>2. /\ \E s \in Request : Turns(r, s)
      /\ Fits(r)'
      /\ \A j \in Login : Owes(r, j)' => Owes(r, j)
      /\ k \in Login => Owes(r, k) /\ ~Owes(r, k)'
      /\ \A j \in Keys : ~Expires(r, j)
  BY <1>1, Hitting
<1>3. Others(r) /\ task' \in [Requests -> Request]
  BY <1>2 DEF Turns, Others
<1>4. TasksFit'
  BY <1>2, <1>3, FitStays
<1>5. CASE UNCHANGED <<count, left, lost>>
  <2>1. TypeOK'
    BY <1>1, <1>3, <1>5 DEF TypeOK, Request
  <2>2. OwingBounded'
    BY <1>1, <1>2, <1>3, <1>5, <2>1, HitsLeaveRoom
  <2>3. ExpiryOnItsWay'
    BY <1>2, <1>3, <1>5, <2>1, WayStays
  <2> QED
    BY <1>4, <2>1, <2>2, <2>3
<1>6. CASE /\ count' = [count EXCEPT ![k] = Capped(@ + 1)]
           /\ left' = [left EXCEPT ![k] = IF @ > 0 THEN @ ELSE Never]
           /\ lost' = [lost EXCEPT ![k] = IF left[k] > 0 THEN 0 ELSE Capped(@ + 1)]
  <2>1. Bumps(k)
    BY <1>6, Bumped
  <2>2. IF left[k] > 0 THEN Sets(k, left[k]) ELSE Sets(k, Never)
    BY <1>6, Kept
  <2>3. IF left[k] > 0 THEN Loses(k, 0) ELSE Loses(k, Capped(lost[k] + 1))
    <3>1. 0 \in 0..Cap /\ Capped(lost[k] + 1) \in 0..Cap
      BY CapIsType, Constants
    <3>2. lost' = [lost EXCEPT ![k] = IF left[k] > 0 THEN 0 ELSE Capped(lost[k] + 1)]
      BY <1>6
    <3> HIDE DEF Capped
    <3> QED
      BY <3>1, <3>2, LossSet
  <2>4. /\ \A j \in Keys : count'[j] = 0 <=> left'[j] = 0
        /\ left' \in [Keys -> Never..Window]
    BY <2>1, <2>2, Constants DEF TypeOK, Bumps, Sets, Never
  <2>5. TypeOK'
    BY <1>1, <1>3, <2>1, <2>3, <2>4 DEF TypeOK, Request, Bumps, Loses
  <2>6. OwingBounded'
    BY <1>1, <1>2, <1>3, <2>1, <2>5, HitsLeaveRoom
  <2>7. ASSUME NEW j \in Keys, left'[j] = Never
        PROVE  \/ left[j] = Never /\ count'[j] = count[j] /\ lost'[j] = lost[j]
               \/ /\ left[j] = Never \/ count[j] = 0
                  /\ count'[j] <= count[j] + 1 /\ lost'[j] = Capped(lost[j] + 1)
    <3>1. CASE j # k
      BY <2>1, <2>2, <2>3, <2>7, <3>1 DEF Bumps, Sets, Loses
    <3>2. CASE j = k
      <4>1. left[k] \in Never..Window /\ ~(left[k] > 0)
        BY <2>2, <2>7, <3>2 DEF Sets, Never, TypeOK
      <4>2. left[k] = Never \/ count[k] = 0
        BY <4>1 DEF Never, TypeOK
      <4> QED
        BY <2>1, <2>3, <3>2, <4>1, <4>2 DEF Bumps, Loses
    <3> QED
      BY <3>1, <3>2
  <2>8. ExpiryOnItsWay'
    BY <1>2, <1>3, <2>5, <2>7, WayStays
  <2> QED
    BY <1>4, <2>5, <2>6, <2>8
<1> QED
  BY <1>5, <1>6 DEF HitFails

-----------------------------------------------------------------------------
(* Expiries, the clock and crashes.                                         *)

\* What the EXPIRE and its failure have in common: r pays nothing that it owes a counter.
LEMMA ExpiringKeepsRoom ==
  ASSUME LimiterInv, TypeOK', NEW r \in Requests, Others(r), UNCHANGED <<count, blind>>,
         \A k \in Login : Owes(r, k)' => Owes(r, k)
  PROVE  OwingBounded'
<1>1. \A k \in Login : count'[k] <= count[k]
  BY Constants DEF LimiterInv, TypeOK
<1> QED
  BY <1>1, RoomStays DEF LimiterInv

\* The EXPIRE: the counter has an end.
LEMMA ExpireKeeps ==
  ASSUME LimiterInv, NEW r \in Requests, Expire(r)
  PROVE  LimiterInv'
<1> USE DEF LimiterInv
<1>1. UNCHANGED <<store, count, blind>> /\ task[r].op = "expire"
  BY DEF Expire
<1>2. PICK k \in Keys : k = Head(task[r].todo)
  BY <1>1, AtExpiry
<1>3. /\ left' = [left EXCEPT ![k] = IF count[k] > 0 THEN Window ELSE 0]
      /\ lost' = [lost EXCEPT ![k] = 0]
      /\ After(r, k)
  BY <1>2 DEF Expire
<1>4. /\ \E s \in Request : Turns(r, s)
      /\ Fits(r)'
      /\ \A j \in Keys : Expires(r, j) <=> j = k
      /\ \A j \in Login : Owes(r, j)' => Owes(r, j)
  BY <1>1, <1>2, <1>3, Expiring
<1>5. Others(r) /\ task' \in [Requests -> Request]
  BY <1>4 DEF Turns, Others
<1>6. Window \in Never..Window /\ 0 \in Never..Window /\ 0 \in 0..Cap
  BY Constants DEF Never
<1>7. IF count[k] > 0 THEN Sets(k, Window) ELSE Sets(k, 0)
  BY <1>3, <1>6, SetTime
<1>8. Loses(k, 0)
  BY <1>3, <1>6, LossSet
<1>9. /\ \A j \in Keys : count'[j] = 0 <=> left'[j] = 0
      /\ left' \in [Keys -> Never..Window]
      /\ store = "memory" => \A j \in Keys : left'[j] # Never
      /\ left'[k] # Never
  BY <1>1, <1>7, Constants DEF TypeOK, Sets, Never
<1>10. TypeOK'
  BY <1>1, <1>5, <1>8, <1>9 DEF TypeOK, Request, Loses
<1>11. TasksFit'
  BY <1>4, <1>5, FitStays
<1>12. OwingBounded'
  BY <1>1, <1>4, <1>5, <1>10, ExpiringKeepsRoom
<1>13. ASSUME NEW j \in Keys, left'[j] = Never
       PROVE  /\ left[j] = Never /\ count'[j] = count[j] /\ lost'[j] = lost[j]
              /\ ~Expires(r, j)
  <2>1. j # k
    BY <1>9, <1>13
  <2> QED
    BY <1>1, <1>4, <1>7, <1>8, <1>13, <2>1 DEF Sets, Loses
<1>14. ExpiryOnItsWay'
  BY <1>5, <1>10, <1>13, WayStays
<1> QED
  BY <1>10, <1>11, <1>12, <1>14

\* An expiry that does not come: by a failure, or because the process stops.
LEMMA LosingOnItsWay ==
  ASSUME LimiterInv, TypeOK', NEW r \in Requests, NEW k \in Keys, Others(r),
         UNCHANGED <<count, left>>, Lose(k), \A j \in Keys : Expires(r, j) <=> j = k
  PROVE  ExpiryOnItsWay'
<1>1. IF left[k] = Never THEN Loses(k, Capped(lost[k] + 1)) ELSE Loses(k, lost[k])
  BY Lost DEF LimiterInv
<1>2. ASSUME NEW j \in Keys, left'[j] = Never
      PROVE  \/ /\ left[j] = Never /\ count'[j] = count[j] /\ lost'[j] = lost[j]
                /\ ~Expires(r, j)
             \/ left[j] = Never /\ count'[j] = count[j] /\ lost'[j] = Capped(lost[j] + 1)
  BY <1>1, <1>2 DEF Loses
<1> QED
  BY <1>2, WayStays DEF LimiterInv

\* Its failure: one lost expiry more for one pending expiry less.
LEMMA ExpireFailsKeeps ==
  ASSUME LimiterInv, NEW r \in Requests, ExpireFails(r)
  PROVE  LimiterInv'
<1> USE DEF LimiterInv
<1>1. UNCHANGED <<store, count, left, blind>> /\ task[r].op = "expire"
  BY DEF ExpireFails
<1>2. PICK k \in Keys : k = Head(task[r].todo)
  BY <1>1, AtExpiry
<1>3. Lose(k) /\ After(r, k)
  BY <1>2 DEF ExpireFails
<1>4. /\ \E s \in Request : Turns(r, s)
      /\ Fits(r)'
      /\ \A j \in Keys : Expires(r, j) <=> j = k
      /\ \A j \in Login : Owes(r, j)' => Owes(r, j)
  BY <1>1, <1>2, <1>3, Expiring
<1>5. Others(r) /\ task' \in [Requests -> Request]
  BY <1>4 DEF Turns, Others
<1>6. lost' \in [Keys -> 0..Cap]
  BY <1>3, Lost DEF Loses
<1>7. TypeOK'
  BY <1>1, <1>5, <1>6 DEF TypeOK, Request
<1>8. TasksFit'
  BY <1>4, <1>5, FitStays
<1>9. OwingBounded'
  BY <1>1, <1>4, <1>5, <1>7, ExpiringKeepsRoom
<1>10. ExpiryOnItsWay'
  BY <1>1, <1>3, <1>4, <1>5, <1>7, LosingOnItsWay
<1> QED
  BY <1>7, <1>8, <1>9, <1>10

\* The clock: counters only go, and those without expiry stay as they are.
LEMMA TickKeeps ==
  ASSUME LimiterInv, Tick
  PROVE  LimiterInv'
<1> USE DEF LimiterInv
<1> PICK over \in SUBSET Keys : over = {k \in Keys : left[k] = 1}
  OBVIOUS
<1>1. /\ count' = [k \in Keys |-> IF k \in over THEN 0 ELSE count[k]]
      /\ left' = [k \in Keys |-> IF left[k] > 0 THEN left[k] - 1 ELSE left[k]]
      /\ lost' = [k \in Keys |-> IF k \in over THEN 0 ELSE lost[k]]
      /\ See /\ UNCHANGED <<store, task>>
  BY DEF Tick
<1>2. \A k \in Keys : left[k] \in Never..Window /\ count[k] \in 0..Cap /\ lost[k] \in 0..Cap
  BY DEF TypeOK
<1>3. ASSUME NEW k \in Keys
      PROVE  /\ left'[k] \in Never..Window /\ count'[k] \in 0..Cap /\ lost'[k] \in 0..Cap
             /\ count'[k] = 0 <=> left'[k] = 0
             /\ left'[k] = Never <=> left[k] = Never
             /\ left'[k] = Never => count'[k] = count[k] /\ lost'[k] = lost[k]
             /\ count'[k] <= count[k]
  BY <1>1, <1>2, Constants DEF Never, TypeOK
<1>4. /\ count' \in [Keys -> 0..Cap] /\ left' \in [Keys -> Never..Window]
      /\ lost' \in [Keys -> 0..Cap]
  BY <1>1, <1>3
<1>5. blind' \in BOOLEAN
  BY <1>1 DEF See
<1>6. TypeOK'
  BY <1>1, <1>3, <1>4, <1>5 DEF TypeOK
<1>7. TasksFit'
  BY <1>1 DEF TasksFit, Fits
<1>8. ExpiryOnItsWay'
  BY <1>1, <1>3 DEF ExpiryOnItsWay, Pending
<1>9. OwingBounded'
  <2> SUFFICES ASSUME ~blind', NEW k \in Login
               PROVE  RoomFor(k)'
    BY DEF OwingBounded
  <2>1. Owing(k)' = Owing(k)
    BY <1>1 DEF Owing, Owes
  <2>2. count[k] \in Nat /\ count'[k] \in Nat /\ count'[k] <= count[k]
    BY <1>2, <1>3, Constants
  <2>3. CASE ~blind
    <3>1. RoomFor(k)
      BY <2>3 DEF OwingBounded
    <3> QED
      BY <2>1, <2>2, <3>1, Counted, Constants DEF RoomFor
  <2>4. CASE blind
    <3>1. ~(\E j \in Users \union Ips : count'[j] > 0)
      BY <1>1, <2>4, Zenon DEF See
    <3>2. count'[k] = 0
      BY <2>2, <3>1 DEF Login
    <3> QED
      BY <3>2, Counted, Constants DEF RoomFor
  <2> QED
    BY <2>3, <2>4
<1> QED
  BY <1>6, <1>7, <1>8, <1>9

\* The Map is gone, and every request with it.
LEMMA RestartKeeps ==
  ASSUME LimiterInv, NEW r \in Requests, task[r] # Idle, store = "memory", Crash(r)
  PROVE  LimiterInv'
<1> USE DEF LimiterInv
<1>1. task' = [s \in Requests |-> Idle] /\ Remove(Keys) /\ UNCHANGED store
  BY DEF Crash
<1>2. /\ count' \in [Keys -> 0..Cap] /\ left' \in [Keys -> Never..Window]
      /\ lost' \in [Keys -> 0..Cap] /\ blind' \in BOOLEAN
      /\ \A k \in Keys : count'[k] = 0 /\ left'[k] = 0 /\ lost'[k] = 0
  BY <1>1, Removed
<1>3. Idle \in Request
  BY Lists DEF Request, Idle
<1>4. task' \in [Requests -> Request] /\ \A q \in Requests : task'[q] = Idle
  BY <1>1, <1>3
<1>5. TypeOK'
  BY <1>1, <1>2, <1>4 DEF TypeOK, Request, Never
<1>6. TasksFit'
  BY <1>4 DEF TasksFit, Fits
<1>7. OwingBounded'
  <2>1. ASSUME NEW k \in Login
        PROVE  RoomFor(k)'
    <3>1. count'[k] = 0
      BY <1>2, Constants
    <3> QED
      BY <3>1, Counted, Constants DEF RoomFor
  <2> QED
    BY <2>1 DEF OwingBounded
<1>8. ExpiryOnItsWay'
  BY <1>2 DEF ExpiryOnItsWay, Never
<1> QED
  BY <1>5, <1>6, <1>7, <1>8

\* A crash takes the Map with it, or one request and the expiry it was to set.
LEMMA CrashKeeps ==
  ASSUME LimiterInv, NEW r \in Requests, Crash(r)
  PROVE  LimiterInv'
<1> USE DEF LimiterInv
<1>1. CASE store = "memory"
  BY <1>1, RestartKeeps DEF Crash
<1>2. CASE store # "memory"
  <2>1. /\ UNCHANGED <<store, count, left, blind>> /\ Leave(r)
        /\ IF task[r].op = "expire" THEN Lose(Head(task[r].todo)) ELSE UNCHANGED lost
    BY <1>2 DEF Crash
  <2>2. /\ Fits(r)' /\ Others(r) /\ task' \in [Requests -> Request]
        /\ \A k : ~Owes(r, k)'
    BY <2>1, Leaving DEF Turns, Others
  <2>3. TasksFit'
    BY <2>2, FitStays
  <2>4. CASE task[r].op = "expire"
    <3>1. PICK k \in Keys : k = Head(task[r].todo)
      BY <2>4, AtExpiry
    <3>2. Lose(k)
      BY <2>1, <2>4, <3>1
    <3>3. lost' \in [Keys -> 0..Cap]
      BY <3>2, Lost DEF Loses
    <3>4. TypeOK'
      BY <2>1, <2>2, <3>3 DEF TypeOK, Request
    <3>5. \A j \in Keys : Expires(r, j) <=> j = k
      BY <2>4, <3>1 DEF Expires
    <3>6. ExpiryOnItsWay'
      BY <2>1, <2>2, <3>2, <3>4, <3>5, LosingOnItsWay
    <3>7. OwingBounded'
      BY <2>1, <2>2, <3>4, ExpiringKeepsRoom
    <3> QED
      BY <2>3, <3>4, <3>6, <3>7
  <2>5. CASE task[r].op # "expire"
    <3>1. TypeOK'
      BY <2>1, <2>2, <2>5 DEF TypeOK, Request
    <3>2. \A j \in Keys : ~Expires(r, j)
      BY <2>5 DEF Expires
    <3>3. ExpiryOnItsWay'
      BY <2>1, <2>2, <2>5, <3>1, <3>2, WayStays
    <3>4. OwingBounded'
      BY <2>1, <2>2, <3>1, ExpiringKeepsRoom
    <3> QED
      BY <2>3, <3>1, <3>3, <3>4
  <2> QED
    BY <2>4, <2>5
<1> QED
  BY <1>1, <1>2

-----------------------------------------------------------------------------
(* The theorems.                                                            *)

\* At first no request is in progress and every counter is absent.
LEMMA InitFits == Init => LimiterInv
<1> SUFFICES ASSUME Init
             PROVE  LimiterInv
  OBVIOUS
<1>1. Idle \in Request /\ 0 \in 0..Cap /\ 0 \in Never..Window
  BY Lists, Constants DEF Request, Idle, Never
<1>2. TypeOK
  <2>1. /\ count \in [Keys -> 0..Cap] /\ left \in [Keys -> Never..Window]
        /\ lost \in [Keys -> 0..Cap] /\ task \in [Requests -> Request]
    BY <1>1 DEF Init
  <2>2. store \in {"memory", "redis"} /\ blind \in BOOLEAN
    BY DEF Init
  <2>3. \A k \in Keys : count[k] = 0 /\ left[k] = 0
    BY DEF Init
  <2> QED
    BY <2>1, <2>2, <2>3 DEF TypeOK, Request, Never
<1>3. TasksFit
  BY DEF Init, TasksFit, Fits
<1>4. OwingBounded
  <2>1. ASSUME NEW k \in Login
        PROVE  RoomFor(k)
    <3>1. count[k] = 0
      BY Constants DEF Init
    <3>2. Owing(k) \in SUBSET Requests
      BY DEF Owing
    <3>3. Cardinality(Owing(k)) <= Cardinality(Requests)
      BY <3>2, LimiterAssumption, FS_Subset
    <3> QED
      BY <3>1, <3>3, Counted, Constants DEF RoomFor
  <2> QED
    BY <2>1 DEF OwingBounded
<1>5. ExpiryOnItsWay
  BY DEF Init, ExpiryOnItsWay, Never
<1> QED
  BY <1>2, <1>3, <1>4, <1>5 DEF LimiterInv

\* Every step keeps the invariant.
LEMMA StepKeeps == LimiterInv /\ [Next]_vars => LimiterInv'
<1> SUFFICES ASSUME LimiterInv, [Next]_vars
             PROVE  LimiterInv'
  OBVIOUS
<1>1. ASSUME NEW r \in Requests, NEW k \in Keys, Hit(r, k)
      PROVE  LimiterInv'
  BY <1>1, HitMemoryKeeps, HitRedisKeeps, HitFailsKeeps DEF Hit
<1>2. ASSUME NEW r \in Requests, NEW k \in Forms, Hit(r, k)
      PROVE  LimiterInv'
  BY <1>1, <1>2 DEF Keys
<1>3. ASSUME NEW r \in Requests, Step(r)
      PROVE  LimiterInv'
  BY <1>1, <1>3, AskUserKeeps, VerifyKeeps, ResetKeeps, ExpireKeeps, ExpireFailsKeeps DEF Step
<1>4. CASE UNCHANGED vars
  BY <1>4, ZenonT(60) DEF vars, LimiterInv, TypeOK, TasksFit, Fits, OwingBounded, RoomFor, Owing, Owes,
              ExpiryOnItsWay, Pending
<1> QED
  BY <1>2, <1>3, <1>4, AskIpKeeps, CrashKeeps, TickKeeps DEF Next

\* The invariant of the rate limiter: it holds of the code's counters whatever interleaving of
\* sign-ins, hits, failures, crashes and ticks.
THEOREM LimiterInvariant == Spec => []LimiterInv
  BY InitFits, StepKeeps, PTL DEF Spec

\* Sign-ins that look first and count later (authService.login) get past a counter by no more
\* than the other requests in progress, unless a look failed.
THEOREM OvershootAlwaysBounded == Spec => []OvershootBounded
<1>1. LimiterInv => OvershootBounded
  <2> SUFFICES ASSUME LimiterInv, ~blind, NEW k \in Login
               PROVE  count[k] < Max + Cardinality(Requests)
    BY DEF OvershootBounded
  <2>1. RoomFor(k) /\ count[k] \in Nat
    BY Constants DEF LimiterInv, OwingBounded, TypeOK
  <2> QED
    BY <2>1, Counted, Constants DEF RoomFor
<1> QED
  BY <1>1, LimiterInvariant, PTL

\* A counter in the process always has an end; one in Redis has an end, or every hit that it has
\* taken is about to set one or was lost doing so (RedisRateLimiter.hit).
THEOREM CountersAlwaysExpire == Spec => []CountersExpire
<1>1. LimiterInv => CountersExpire
  BY DEF LimiterInv, CountersExpire
<1> QED
  BY <1>1, LimiterInvariant, PTL
=============================================================================
