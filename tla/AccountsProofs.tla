---------------------------- MODULE AccountsProofs ----------------------------
(***************************************************************************)
(* Machine-checked proofs about Accounts, for any sets of users, employees  *)
(* and requests in progress.                                                *)
(***************************************************************************)
EXTENDS Accounts, TLAPS

UserRow == [exists : BOOLEAN, active : BOOLEAN, role : Roles, isStaff : BOOLEAN, isSuperuser : BOOLEAN]
EmployeeRow == [user : Users \union {None}, active : BOOLEAN]

\* The parts of TypeOK: every table's type, and the two constraints of the schema.
TablesOK ==
  /\ user \in [Users -> UserRow]
  /\ employee \in [Employees -> EmployeeRow]
  /\ granted \in [Users -> Roles]
  /\ lost \in {"no", "overlap", "offboarding"}
  /\ open \in [Employees -> BOOLEAN]

OneOwner ==
  \A e, f \in Employees : e # f => employee[e].user = None \/ employee[e].user # employee[f].user

AccountsExist == \A e \in Employees : employee[e].user # None => user[employee[e].user].exists

\* The three columns that say a role agree with the one that was given.
ColumnsAgree ==
  \A u \in Users :
    /\ user[u].role = granted[u]
    /\ user[u].isStaff <=> granted[u] # "staff"
    /\ user[u].isSuperuser => granted[u] = "admin"

\* A request works on a row of its kind.
OnItsKind ==
  \A r \in Requests :
    /\ task[r].op \in {"role", "demote", "enable", "disable"} =>
         task[r].on \in Users /\ user[task[r].on].exists
    /\ task[r].op \in {"offboard", "reactivate"} => task[r].on \in Employees

\* Whoever is about to take an administrator away has seen another one.
OthersSeen ==
  \A r \in Requests :
    /\ task[r].op = "disable" => task[r].seen \ {task[r].on} # {}
    /\ task[r].op = "demote" /\ task[r].role # "admin" /\ task[r].on \in task[r].seen =>
         task[r].seen \ {task[r].on} # {}

AccountsInv ==
  /\ TypeOK
  /\ ColumnsAgree
  /\ OnItsKind
  /\ OthersSeen
  /\ AdminUnlessExcused
  /\ OffboardedOut
-----------------------------------------------------------------------------
\* A row stays a row when it is opened or closed, or linked to an account.
LEMMA RowTyped ==
  ASSUME NEW row \in UserRow, NEW b \in BOOLEAN
  PROVE  [row EXCEPT !.active = b] \in UserRow
  BY DEF UserRow

\* And so does a change of an employee's.
LEMMA EmployeeTyped ==
  ASSUME NEW row \in EmployeeRow, NEW b \in BOOLEAN, NEW u \in Users \union {None}
  PROVE  /\ [row EXCEPT !.active = b] \in EmployeeRow
         /\ [row EXCEPT !.user = u, !.active = b] \in EmployeeRow
  BY DEF EmployeeRow

\* So do the tables, by what setActive,
LEMMA ActiveTyped ==
  ASSUME NEW r \in Requests, WriteActive(r), user \in [Users -> UserRow], task[r].on \in Users
  PROVE  user' \in [Users -> UserRow]
<1> PICK b \in BOOLEAN : b = (task[r].op = "enable")
  OBVIOUS
<1>1. user' = [user EXCEPT ![task[r].on] = [user[task[r].on] EXCEPT !.active = b]]
  BY DEF WriteActive
<1> QED
  BY <1>1, RowTyped

\* off-boarding,
LEMMA ClosedTyped ==
  ASSUME NEW r \in Requests, Offboard(r), user \in [Users -> UserRow],
         employee \in [Employees -> EmployeeRow], task[r].on \in Employees
  PROVE  user' \in [Users -> UserRow] /\ employee' \in [Employees -> EmployeeRow]
<1>1. employee' = [employee EXCEPT ![task[r].on] = [employee[task[r].on] EXCEPT !.active = FALSE]]
  BY DEF Offboard
<1>2. user' = [v \in Users |-> IF v = task[r].user THEN [user[v] EXCEPT !.active = FALSE] ELSE user[v]]
  BY DEF Offboard
<1>3. None \in Users \union {None}
  OBVIOUS
<1> QED
  BY <1>1, <1>2, <1>3, RowTyped, EmployeeTyped

\* reactivation
LEMMA ReopenedTyped ==
  ASSUME NEW r \in Requests, Reactivate(r), user \in [Users -> UserRow],
         employee \in [Employees -> EmployeeRow], task[r].on \in Employees
  PROVE  user' \in [Users -> UserRow] /\ employee' \in [Employees -> EmployeeRow]
<1>1. employee' = [employee EXCEPT ![task[r].on] = [employee[task[r].on] EXCEPT !.active = TRUE]]
  BY DEF Reactivate
<1>2. user' = [v \in Users |-> IF v = task[r].user THEN [user[v] EXCEPT !.active = TRUE] ELSE user[v]]
  BY DEF Reactivate
<1>3. None \in Users \union {None}
  OBVIOUS
<1> QED
  BY <1>1, <1>2, <1>3, RowTyped, EmployeeTyped

\* and the form write.
LEMMA LinkTyped ==
  ASSUME NEW a, NEW e \in Employees, NEW u \in Users \union {None}, NEW active \in BOOLEAN,
         UpdateEmployee(a, e, u, active), employee \in [Employees -> EmployeeRow]
  PROVE  employee' \in [Employees -> EmployeeRow]
<1>1. employee' = [employee EXCEPT ![e] = [employee[e] EXCEPT !.user = u, !.active = active]]
  BY DEF UpdateEmployee
<1> QED
  BY <1>1, EmployeeTyped

\* The columns of a new account.
LEMMA Created ==
  ASSUME NEW a, NEW u \in Users, NEW role \in Roles, NEW link,
         CreateUser(a, u, role, link), user \in [Users -> UserRow]
  PROVE  user'[u].role = role /\ (user'[u].isStaff <=> role # "staff") /\ ~user'[u].isSuperuser
<1>1. user'[u] = Account(TRUE, role, FALSE)
  BY DEF CreateUser
<1>2. Account(TRUE, role, FALSE).role = role /\ ~Account(TRUE, role, FALSE).isSuperuser
  BY DEF Account
<1>3. Account(TRUE, role, FALSE).isStaff = (role # "staff")
  BY Zenon DEF Account
<1> QED
  BY <1>1, <1>2, <1>3

\* The reading of a role for a demotion: nothing, or on to the transaction.
LEMMA RoleRead ==
  ASSUME NEW r \in Requests, TypeOK, ReadRole(r)
  PROVE  /\ task[r].op = "role" /\ task' \in [Requests -> Task]
         /\ \A q \in Requests : q # r => task'[q] = task[q]
         /\ \/ task'[r] = Idle
            \/ /\ task'[r].op = "demote" /\ task'[r].seen = Admins
               /\ task'[r].on = task[r].on /\ task'[r].role = task[r].role
               /\ task[r].on \in Admins /\ task[r].role # "admin" => Admins \ {task[r].on} # {}
         /\ UNCHANGED <<user, employee, granted, lost, open>>
<1> DEFINE seen == Admins
<1>1. task \in [Requests -> Task] /\ task[r] \in Task /\ Idle \in Task
  BY AccountsAssumption DEF TypeOK, Task, Idle, Roles
<1>2. seen \subseteq Users
  BY DEF Admins
<1>3. CASE Finish(r)
  BY <1>1, <1>3 DEF ReadRole, Finish
<1>4. CASE /\ Proceed(r, [task[r] EXCEPT !.op = "demote", !.seen = seen])
           /\ ~(task[r].on \in Admins /\ task[r].role # "admin" /\ Admins \ {task[r].on} = {})
  <2> DEFINE new == [task[r] EXCEPT !.op = "demote", !.seen = seen]
  <2> HIDE DEF seen
  <2>1. /\ new \in Task /\ new.op = "demote" /\ new.seen = seen
        /\ new.on = task[r].on /\ new.role = task[r].role
    BY <1>1, <1>2 DEF Task
  <2>2. task' = [task EXCEPT ![r] = new]
    BY <1>4 DEF Proceed
  <2> HIDE DEF new
  <2>3. task' \in [Requests -> Task] /\ task'[r] = new /\ \A q \in Requests : q # r => task'[q] = task[q]
    BY <1>1, <2>1, <2>2
  <2> QED
    BY <1>4, <2>1, <2>3 DEF ReadRole, seen
<1> QED
  BY <1>3, <1>4 DEF ReadRole

\* What the transaction of a role change does, whoever it is about.
LEMMA RoleWrites ==
  ASSUME NEW r \in Requests, TypeOK, OnItsKind, WriteRole(r)
  PROVE  \E u \in Users, role \in Roles :
           /\ u = task[r].on /\ role = task[r].role /\ task[r].op = "demote"
           /\ task'[r] = Idle /\ \A q \in Requests : q # r => task'[q] = task[q]
           /\ user'[u].exists = user[u].exists /\ user'[u].active = user[u].active
           /\ user'[u].role = role /\ granted'[u] = role
           /\ user'[u].isStaff <=> role # "staff"
           /\ user'[u].isSuperuser <=> role = "admin"
           /\ \A v \in Users : v # u => user'[v] = user[v] /\ granted'[v] = granted[v]
           /\ UNCHANGED <<employee, open>>
<1>1. task[r] \in Task /\ Idle \in Task
  BY AccountsAssumption DEF TypeOK, Task, Idle, Roles
<1>2. PICK u \in Users, role \in Roles : u = task[r].on /\ role = task[r].role
  BY <1>1 DEF WriteRole, OnItsKind, Task
<1>3. /\ task[r].op = "demote" /\ UNCHANGED <<employee, open>>
      /\ task'[r] = Idle /\ \A q \in Requests : q # r => task'[q] = task[q]
  BY DEF WriteRole, Finish, TypeOK
<1>4. user' = [user EXCEPT ![u] = [@ EXCEPT !.role = role, !.isStaff = role # "staff",
                                            !.isSuperuser = role = "admin"]]
      /\ granted' = [granted EXCEPT ![u] = role]
  BY <1>2 DEF WriteRole
<1>5. user \in [Users -> UserRow] /\ granted \in [Users -> Roles] /\ user[u] \in UserRow
  BY DEF TypeOK, UserRow
<1>6. \A v \in Users : v # u => user'[v] = user[v] /\ granted'[v] = granted[v]
  BY ONLY <1>4, <1>5
<1>7. granted'[u] = role
  BY ONLY <1>4, <1>5
<1>8. PICK a \in BOOLEAN, b \in BOOLEAN : (a <=> role # "staff") /\ (b <=> role = "admin")
  OBVIOUS
<1>9. user'[u] = [user[u] EXCEPT !.role = role, !.isStaff = a, !.isSuperuser = b]
  <2>1. a = (role # "staff") /\ b = (role = "admin")
    BY <1>8, Zenon
  <2>2. user'[u] = [user[u] EXCEPT !.role = role, !.isStaff = role # "staff",
                                   !.isSuperuser = role = "admin"]
    BY ONLY <1>4, <1>5, Zenon
  <2> QED
    BY ONLY <2>1, <2>2, Zenon
<1>10. /\ user'[u].exists = user[u].exists /\ user'[u].active = user[u].active
       /\ user'[u].role = role /\ user'[u].isStaff = a /\ user'[u].isSuperuser = b
  BY ONLY <1>5, <1>9 DEF UserRow
<1> QED
  BY <1>2, <1>3, <1>6, <1>7, <1>8, <1>10

\* What opening or closing an account does.
LEMMA ActiveWrites ==
  ASSUME NEW r \in Requests, TypeOK, OnItsKind, WriteActive(r)
  PROVE  \E u \in Users :
           /\ u = task[r].on /\ task[r].op \in {"enable", "disable"}
           /\ task'[r] = Idle /\ \A q \in Requests : q # r => task'[q] = task[q]
           /\ user'[u].exists = user[u].exists /\ user'[u].role = user[u].role
           /\ user'[u].isStaff = user[u].isStaff /\ user'[u].isSuperuser = user[u].isSuperuser
           /\ user'[u].active <=> task[r].op = "enable"
           /\ \A v \in Users : v # u => user'[v] = user[v]
           /\ UNCHANGED <<employee, granted>>
<1>1. PICK u \in Users : u = task[r].on
  BY DEF WriteActive, OnItsKind
<1>2. /\ task[r].op \in {"enable", "disable"} /\ UNCHANGED <<employee, granted>>
      /\ task'[r] = Idle /\ \A q \in Requests : q # r => task'[q] = task[q]
  BY DEF WriteActive, Finish, TypeOK
<1>3. PICK on \in BOOLEAN : on <=> task[r].op = "enable"
  OBVIOUS
<1>4. user' = [user EXCEPT ![u] = [@ EXCEPT !.active = on]]
  <2>1. on = (task[r].op = "enable")
    BY <1>3, Zenon
  <2>2. user' = [user EXCEPT ![u] = [@ EXCEPT !.active = task[r].op = "enable"]]
    BY <1>1 DEF WriteActive
  <2> QED
    BY ONLY <2>1, <2>2, Zenon
<1>5. user \in [Users -> UserRow] /\ user[u] \in UserRow
  BY DEF TypeOK, UserRow
<1>6. /\ \A v \in Users : v # u => user'[v] = user[v]
      /\ user'[u] = [user[u] EXCEPT !.active = on]
  BY ONLY <1>4, <1>5
<1>7. /\ user'[u].exists = user[u].exists /\ user'[u].role = user[u].role
      /\ user'[u].isStaff = user[u].isStaff /\ user'[u].isSuperuser = user[u].isSuperuser
      /\ user'[u].active = on
  BY ONLY <1>5, <1>6 DEF UserRow
<1> QED
  BY <1>1, <1>2, <1>3, <1>6, <1>7, ZenonT(30)

\* What off-boarding an employee does to the rows.
LEMMA Offboards ==
  ASSUME NEW r \in Requests, TypeOK, Offboard(r)
  PROVE  /\ task[r].op = "offboard"
         /\ task'[r] = Idle /\ \A q \in Requests : q # r => task'[q] = task[q]
         /\ \A v \in Users :
              /\ user'[v].exists = user[v].exists /\ user'[v].role = user[v].role
              /\ user'[v].isStaff = user[v].isStaff /\ user'[v].isSuperuser = user[v].isSuperuser
              /\ v = task[r].user => ~user'[v].active
              /\ v # task[r].user => user'[v] = user[v]
         /\ \A e \in Employees :
              /\ employee'[e].user = employee[e].user
              /\ e # task[r].on => employee'[e] = employee[e]
              /\ e = task[r].on => ~employee'[e].active
         /\ \A e \in Employees :
              open'[e] <=> /\ ~employee'[e].active
                           /\ IF e = task[r].on THEN employee[e].user # task[r].user ELSE open[e]
         /\ Note("offboarding") /\ granted' = granted
<1>1. /\ task[r].op = "offboard"
      /\ task'[r] = Idle /\ \A q \in Requests : q # r => task'[q] = task[q]
      /\ Note("offboarding") /\ granted' = granted
  BY DEF Offboard, Finish, TypeOK
<1>2. ASSUME NEW v \in Users
      PROVE  /\ user'[v].exists = user[v].exists /\ user'[v].role = user[v].role
             /\ user'[v].isStaff = user[v].isStaff /\ user'[v].isSuperuser = user[v].isSuperuser
             /\ v = task[r].user => ~user'[v].active
             /\ v # task[r].user => user'[v] = user[v]
  BY DEF Offboard, TypeOK
<1>3. ASSUME NEW e \in Employees
      PROVE  /\ employee'[e].user = employee[e].user
             /\ e # task[r].on => employee'[e] = employee[e]
             /\ e = task[r].on => ~employee'[e].active
  BY DEF Offboard, TypeOK
<1>4. ASSUME NEW e \in Employees
      PROVE  open'[e] <=> /\ ~employee'[e].active
                          /\ IF e = task[r].on THEN employee[e].user # task[r].user ELSE open[e]
  <2>1. open' = [f \in Employees |-> /\ ~employee'[f].active
                                     /\ [open EXCEPT ![task[r].on] =
                                            employee[task[r].on].user # task[r].user][f]]
    BY DEF Offboard, Excuse
  <2>2. open \in [Employees -> BOOLEAN]
    BY DEF TypeOK
  <2> QED
    BY ONLY <2>1, <2>2, e \in Employees, Zenon
<1> QED
  BY <1>1, <1>2, <1>3, <1>4

\* And what bringing one back does.
LEMMA Reactivates ==
  ASSUME NEW r \in Requests, TypeOK, Reactivate(r)
  PROVE  /\ task[r].op = "reactivate"
         /\ task'[r] = Idle /\ \A q \in Requests : q # r => task'[q] = task[q]
         /\ \A v \in Users :
              /\ user'[v].exists = user[v].exists /\ user'[v].role = user[v].role
              /\ user'[v].isStaff = user[v].isStaff /\ user'[v].isSuperuser = user[v].isSuperuser
              /\ v = task[r].user => user'[v].active
              /\ v # task[r].user => user'[v] = user[v]
         /\ \A e \in Employees :
              /\ employee'[e].user = employee[e].user
              /\ e # task[r].on => employee'[e] = employee[e]
              /\ e = task[r].on => employee'[e].active
         /\ \A e \in Employees :
              open'[e] <=> /\ ~employee'[e].active
                           /\ open[e] \/ (task[r].user # None /\ employee[e].user = task[r].user)
         /\ Note("no") /\ granted' = granted
<1>1. /\ task[r].op = "reactivate"
      /\ task'[r] = Idle /\ \A q \in Requests : q # r => task'[q] = task[q]
      /\ Note("no") /\ granted' = granted
  BY DEF Reactivate, Finish, TypeOK
<1>2. ASSUME NEW v \in Users
      PROVE  /\ user'[v].exists = user[v].exists /\ user'[v].role = user[v].role
             /\ user'[v].isStaff = user[v].isStaff /\ user'[v].isSuperuser = user[v].isSuperuser
             /\ v = task[r].user => user'[v].active
             /\ v # task[r].user => user'[v] = user[v]
  BY DEF Reactivate, TypeOK
<1>3. ASSUME NEW e \in Employees
      PROVE  /\ employee'[e].user = employee[e].user
             /\ e # task[r].on => employee'[e] = employee[e]
             /\ e = task[r].on => employee'[e].active
  BY DEF Reactivate, TypeOK
<1>4. ASSUME NEW e \in Employees
      PROVE  open'[e] <=> /\ ~employee'[e].active
                          /\ open[e] \/ (task[r].user # None /\ employee[e].user = task[r].user)
  <2>1. open' = [f \in Employees |->
                   /\ ~employee'[f].active
                   /\ [d \in Employees |->
                          open[d] \/ (task[r].user # None /\ d \in LinkedTo(task[r].user))][f]]
    BY DEF Reactivate, Excuse
  <2> QED
    BY ONLY <2>1, e \in Employees, Zenon DEF LinkedTo
<1> QED
  BY <1>1, <1>2, <1>3, <1>4

\* The observers keep their types.
LEMMA NoteTyped ==
  ASSUME NEW why \in {"no", "overlap", "offboarding"}, TypeOK, Note(why)
  PROVE  lost' \in {"no", "overlap", "offboarding"}
  BY DEF TypeOK, Note

\* Who is excused is a set of employees.
LEMMA ExcuseTyped ==
  ASSUME NEW ok, Excuse(ok), ok \in [Employees -> BOOLEAN],
         employee' \in [Employees -> [user : Users \union {None}, active : BOOLEAN]]
  PROVE  open' \in [Employees -> BOOLEAN]
  BY DEF Excuse

-----------------------------------------------------------------------------
\* A register with only the founder satisfies every part of the invariant.
LEMMA InitEstablishes == Init => AccountsInv
<1> SUFFICES ASSUME Init
             PROVE  AccountsInv
  OBVIOUS
<1> USE AccountsAssumption DEF Init, Idle, Account, Roles
<1>1. TypeOK
  BY DEF TypeOK, Task
<1>2. OnItsKind /\ OthersSeen /\ OffboardedOut
  BY DEF OnItsKind, OthersSeen, OffboardedOut
<1>3. ColumnsAgree
  BY DEF ColumnsAgree
<1>4. AdminUnlessExcused
  <2>1. Founder \in Admins
    BY DEF Admins, Active, EffectiveRole
  <2> QED
    BY <2>1 DEF AdminUnlessExcused
<1> QED
  BY <1>1, <1>2, <1>3, <1>4 DEF AccountsInv

\* The tables keep their types.
LEMMA TablesTyped == AccountsInv /\ [Next]_vars => TablesOK'
<1> SUFFICES ASSUME AccountsInv, [Next]_vars
             PROVE  TablesOK'
  OBVIOUS
<1> USE AccountsAssumption
  DEF AccountsInv, TypeOK, TablesOK, UserRow, EmployeeRow, Task, Roles, OnItsKind
<1>1. CASE UNCHANGED vars
  BY <1>1 DEF vars
<1>2. ASSUME NEW a \in Users, NEW u \in Users, NEW role \in Roles,
             NEW link \in Employees \union {None}, CreateUser(a, u, role, link)
      PROVE  TablesOK'
  BY <1>2 DEF CreateUser, Account, Note, Excuse
<1>3. ASSUME NEW r \in Requests, NEW a \in Users, NEW u \in Users, NEW role \in Roles,
             AskRole(r, a, u, role)
      PROVE  TablesOK'
  BY <1>3 DEF AskRole, Begin, Idle, Note, Excuse
<1>4. ASSUME NEW r \in Requests, NEW a \in Users, NEW u \in Users,
             NEW op \in {"enable", "disable"}, AskActive(r, a, u, op)
      PROVE  TablesOK'
  BY <1>4 DEF AskActive, Begin, Idle, Note, Excuse
<1>5. ASSUME NEW r \in Requests, NEW a \in Users, NEW e \in Employees,
             NEW op \in {"offboard", "reactivate"}, ReadEmployee(r, a, e, op)
      PROVE  TablesOK'
  BY <1>5 DEF ReadEmployee, Begin, Idle, Note, Excuse
<1>6. ASSUME NEW r \in Requests, ReadRole(r)
      PROVE  TablesOK'
  BY <1>6 DEF ReadRole, Proceed, Finish, Idle, Note, Excuse
<1>7. ASSUME NEW r \in Requests, WriteRole(r)
      PROVE  TablesOK'
  <2>1. user' \in [Users -> UserRow] /\ granted' \in [Users -> Roles]
    <3>1. task[r] \in Task /\ task[r].role \in Roles
      BY DEF TypeOK, Task
    <3>2. \A row \in UserRow :
            [row EXCEPT !.role = task[r].role, !.isStaff = task[r].role # "staff",
                        !.isSuperuser = task[r].role = "admin"] \in UserRow
      <4>1. (task[r].role # "staff") \in BOOLEAN /\ (task[r].role = "admin") \in BOOLEAN
        BY Zenon
      <4> QED
        BY <3>1, <4>1
    <3>3. user \in [Users -> UserRow] /\ granted \in [Users -> Roles]
      OBVIOUS
    <3>4. /\ user' = [user EXCEPT ![task[r].on] =
                [@ EXCEPT !.role = task[r].role, !.isStaff = task[r].role # "staff",
                          !.isSuperuser = task[r].role = "admin"]]
          /\ granted' = [granted EXCEPT ![task[r].on] = task[r].role]
      BY <1>7 DEF WriteRole
    <3> HIDE DEF UserRow, TypeOK
    <3> QED
      BY ONLY <3>1, <3>2, <3>3, <3>4
  <2>2. lost' \in {"no", "overlap", "offboarding"}
    BY <1>7, NoteTyped DEF WriteRole
  <2>3. UNCHANGED <<employee, open>>
    BY <1>7 DEF WriteRole
  <2> QED
    BY <2>1, <2>2, <2>3
<1>8. ASSUME NEW r \in Requests, WriteActive(r)
      PROVE  TablesOK'
  <2>1. /\ user' \in [Users -> UserRow] /\ granted' = granted
        /\ employee' \in [Employees -> EmployeeRow]
    <3>1. user \in [Users -> UserRow] /\ employee \in [Employees -> EmployeeRow]
      OBVIOUS
    <3> HIDE DEF TypeOK, UserRow, EmployeeRow
    <3> QED
      BY <1>8, <3>1, ActiveTyped DEF WriteActive
  <2>2. lost' \in {"no", "overlap", "offboarding"}
    BY <1>8, NoteTyped DEF WriteActive
  <2>3. open' \in [Employees -> BOOLEAN]
    BY <1>8, <2>1, ExcuseTyped DEF WriteActive
  <2> QED
    BY <2>1, <2>2, <2>3
<1>9. ASSUME NEW r \in Requests, Offboard(r)
      PROVE  TablesOK'
  <2>1. /\ user' \in [Users -> UserRow] /\ granted' = granted
        /\ employee' \in [Employees -> EmployeeRow]
    <3>1. user \in [Users -> UserRow] /\ employee \in [Employees -> EmployeeRow]
      OBVIOUS
    <3> HIDE DEF TypeOK, UserRow, EmployeeRow
    <3> QED
      BY <1>9, <3>1, ClosedTyped DEF Offboard
  <2>2. lost' \in {"no", "overlap", "offboarding"}
    BY <1>9, NoteTyped DEF Offboard
  <2>3. open' \in [Employees -> BOOLEAN]
    BY <1>9, <2>1, ExcuseTyped DEF Offboard
  <2> QED
    BY <2>1, <2>2, <2>3
<1>10. ASSUME NEW r \in Requests, Reactivate(r)
      PROVE  TablesOK'
  <2>1. /\ user' \in [Users -> UserRow] /\ granted' = granted
        /\ employee' \in [Employees -> EmployeeRow]
    <3>1. user \in [Users -> UserRow] /\ employee \in [Employees -> EmployeeRow]
      OBVIOUS
    <3> HIDE DEF TypeOK, UserRow, EmployeeRow
    <3> QED
      BY <1>10, <3>1, ReopenedTyped DEF Reactivate
  <2>2. lost' \in {"no", "overlap", "offboarding"}
    BY <1>10, NoteTyped DEF Reactivate
  <2>3. open' \in [Employees -> BOOLEAN]
    BY <1>10, <2>1, ExcuseTyped DEF Reactivate
  <2> QED
    BY <2>1, <2>2, <2>3
<1>11. ASSUME NEW a \in Users, NEW e \in Employees, NEW u \in Users \union {None},
             NEW active \in BOOLEAN, UpdateEmployee(a, e, u, active)
      PROVE  TablesOK'
  <2>1. employee' \in [Employees -> EmployeeRow] /\ UNCHANGED <<user, granted, lost>>
    <3>1. employee \in [Employees -> EmployeeRow] /\ granted \in [Users -> Roles]
      OBVIOUS
    <3> HIDE DEF TypeOK, UserRow, EmployeeRow
    <3> QED
      BY <1>11, <3>1, LinkTyped DEF UpdateEmployee
  <2>2. open' \in [Employees -> BOOLEAN]
    BY <1>11, <2>1, ExcuseTyped DEF UpdateEmployee
  <2> QED
    BY <2>1, <2>2
<1> QED
  BY <1>1, <1>2, <1>3, <1>4, <1>5, <1>6, <1>7, <1>8, <1>9, <1>10, <1>11 DEF Next

\* So do the requests.
LEMMA TasksTyped == AccountsInv /\ [Next]_vars => task' \in [Requests -> Task]
<1> SUFFICES ASSUME AccountsInv, [Next]_vars
             PROVE  task' \in [Requests -> Task]
  OBVIOUS
<1> USE AccountsAssumption DEF AccountsInv, TypeOK, Task, Roles
<1>1. CASE UNCHANGED vars
  BY <1>1 DEF vars
<1>2. ASSUME NEW a \in Users, NEW u \in Users, NEW role \in Roles,
             NEW link \in Employees \union {None}, CreateUser(a, u, role, link)
      PROVE  task' \in [Requests -> Task]
  BY <1>2 DEF CreateUser, Account
<1>3. ASSUME NEW r \in Requests, NEW a \in Users, NEW u \in Users, NEW role \in Roles,
             AskRole(r, a, u, role)
      PROVE  task' \in [Requests -> Task]
  BY <1>3 DEF AskRole, Begin, Idle
<1>4. ASSUME NEW r \in Requests, NEW a \in Users, NEW u \in Users,
             NEW op \in {"enable", "disable"}, AskActive(r, a, u, op)
      PROVE  task' \in [Requests -> Task]
  <2> DEFINE seen == IF op = "disable" THEN Admins ELSE {}
  <2>1. seen \subseteq Users
    BY DEF Admins
  <2>2. task' = [task EXCEPT ![r] = [Idle EXCEPT !.op = op, !.on = u, !.seen = seen]]
    BY <1>4 DEF AskActive, Begin
  <2> HIDE DEF seen
  <2> QED
    BY <2>1, <2>2 DEF Idle
<1>5. ASSUME NEW r \in Requests, NEW a \in Users, NEW e \in Employees,
             NEW op \in {"offboard", "reactivate"}, ReadEmployee(r, a, e, op)
      PROVE  task' \in [Requests -> Task]
  BY <1>5 DEF ReadEmployee, Begin, Idle
<1>6. ASSUME NEW r \in Requests, ReadRole(r)
      PROVE  task' \in [Requests -> Task]
  BY <1>6, RoleRead
<1>7. ASSUME NEW r \in Requests, WriteRole(r)
      PROVE  task' \in [Requests -> Task]
  BY <1>7 DEF WriteRole, Finish, Idle
<1>8. ASSUME NEW r \in Requests, WriteActive(r)
      PROVE  task' \in [Requests -> Task]
  BY <1>8 DEF WriteActive, Finish, Idle
<1>9. ASSUME NEW r \in Requests, Offboard(r)
      PROVE  task' \in [Requests -> Task]
  BY <1>9 DEF Offboard, Finish, Idle
<1>10. ASSUME NEW r \in Requests, Reactivate(r)
      PROVE  task' \in [Requests -> Task]
  BY <1>10 DEF Reactivate, Finish, Idle
<1>11. ASSUME NEW a \in Users, NEW e \in Employees, NEW u \in Users \union {None},
             NEW active \in BOOLEAN, UpdateEmployee(a, e, u, active)
      PROVE  task' \in [Requests -> Task]
  BY <1>11 DEF UpdateEmployee
<1> QED
  BY <1>1, <1>2, <1>3, <1>4, <1>5, <1>6, <1>7, <1>8, <1>9, <1>10, <1>11 DEF Next

\* OneOwner: create takes an account that nobody could have, since it is new, and the form one
\* that nobody else has.
LEMMA OneOwnerKept == AccountsInv /\ [Next]_vars => OneOwner'
<1> SUFFICES ASSUME AccountsInv, [Next]_vars
             PROVE  OneOwner'
  OBVIOUS
<1> USE AccountsAssumption DEF AccountsInv, TypeOK, OneOwner, LinkedTo
<1>1. CASE UNCHANGED vars
  BY <1>1 DEF vars
<1>2. ASSUME NEW a \in Users, NEW u \in Users, NEW role \in Roles,
             NEW link \in Employees \union {None}, CreateUser(a, u, role, link)
      PROVE  OneOwner'
  BY <1>2 DEF CreateUser, Account
<1>3. ASSUME NEW r \in Requests, NEW a \in Users, NEW u \in Users, NEW role \in Roles,
             AskRole(r, a, u, role)
      PROVE  OneOwner'
  BY <1>3 DEF AskRole, Begin, Idle
<1>4. ASSUME NEW r \in Requests, NEW a \in Users, NEW u \in Users,
             NEW op \in {"enable", "disable"}, AskActive(r, a, u, op)
      PROVE  OneOwner'
  BY <1>4 DEF AskActive, Begin, Idle
<1>5. ASSUME NEW r \in Requests, NEW a \in Users, NEW e \in Employees,
             NEW op \in {"offboard", "reactivate"}, ReadEmployee(r, a, e, op)
      PROVE  OneOwner'
  BY <1>5 DEF ReadEmployee, Begin, Idle
<1>6. ASSUME NEW r \in Requests, ReadRole(r)
      PROVE  OneOwner'
  BY <1>6 DEF ReadRole, Proceed, Finish, Idle
<1>7. ASSUME NEW r \in Requests, WriteRole(r)
      PROVE  OneOwner'
  BY <1>7 DEF WriteRole, Finish, Idle
<1>8. ASSUME NEW r \in Requests, WriteActive(r)
      PROVE  OneOwner'
  BY <1>8 DEF WriteActive, Finish, Idle
<1>9. ASSUME NEW r \in Requests, Offboard(r)
      PROVE  OneOwner'
  BY <1>9 DEF Offboard, Finish, Idle
<1>10. ASSUME NEW r \in Requests, Reactivate(r)
      PROVE  OneOwner'
  BY <1>10 DEF Reactivate, Finish, Idle
<1>11. ASSUME NEW a \in Users, NEW e \in Employees, NEW u \in Users \union {None},
             NEW active \in BOOLEAN, UpdateEmployee(a, e, u, active)
      PROVE  OneOwner'
  BY <1>11 DEF UpdateEmployee
<1> QED
  BY <1>1, <1>2, <1>3, <1>4, <1>5, <1>6, <1>7, <1>8, <1>9, <1>10, <1>11 DEF Next

\* AccountsExist: the form names accounts that are there, and none is ever deleted.
LEMMA AccountsExistKept == AccountsInv /\ [Next]_vars => AccountsExist'
<1> SUFFICES ASSUME AccountsInv, [Next]_vars
             PROVE  AccountsExist'
  OBVIOUS
<1> USE AccountsAssumption DEF AccountsInv, TypeOK, AccountsExist, OnItsKind, UserRow, Roles
<1>1. CASE UNCHANGED vars
  BY <1>1 DEF vars
<1>2. ASSUME NEW a \in Users, NEW u \in Users, NEW role \in Roles,
             NEW link \in Employees \union {None}, CreateUser(a, u, role, link)
      PROVE  AccountsExist'
  BY <1>2 DEF CreateUser, Account
<1>3. ASSUME NEW r \in Requests, NEW a \in Users, NEW u \in Users, NEW role \in Roles,
             AskRole(r, a, u, role)
      PROVE  AccountsExist'
  BY <1>3 DEF AskRole, Begin, Idle
<1>4. ASSUME NEW r \in Requests, NEW a \in Users, NEW u \in Users,
             NEW op \in {"enable", "disable"}, AskActive(r, a, u, op)
      PROVE  AccountsExist'
  BY <1>4 DEF AskActive, Begin, Idle
<1>5. ASSUME NEW r \in Requests, NEW a \in Users, NEW e \in Employees,
             NEW op \in {"offboard", "reactivate"}, ReadEmployee(r, a, e, op)
      PROVE  AccountsExist'
  BY <1>5 DEF ReadEmployee, Begin, Idle
<1>6. ASSUME NEW r \in Requests, ReadRole(r)
      PROVE  AccountsExist'
  BY <1>6, RoleRead DEF Idle
<1>7. ASSUME NEW r \in Requests, WriteRole(r)
      PROVE  AccountsExist'
  BY <1>7 DEF WriteRole, Finish, Idle
<1>8. ASSUME NEW r \in Requests, WriteActive(r)
      PROVE  AccountsExist'
  BY <1>8 DEF WriteActive, Finish, Idle
<1>9. ASSUME NEW r \in Requests, Offboard(r)
      PROVE  AccountsExist'
  BY <1>9, Offboards DEF Idle
<1>10. ASSUME NEW r \in Requests, Reactivate(r)
      PROVE  AccountsExist'
  BY <1>10, Reactivates DEF Idle
<1>11. ASSUME NEW a \in Users, NEW e \in Employees, NEW u \in Users \union {None},
             NEW active \in BOOLEAN, UpdateEmployee(a, e, u, active)
      PROVE  AccountsExist'
  BY <1>11 DEF UpdateEmployee
<1> QED
  BY <1>1, <1>2, <1>3, <1>4, <1>5, <1>6, <1>7, <1>8, <1>9, <1>10, <1>11 DEF Next

\* The types of all of them.
LEMMA TypeKept == AccountsInv /\ [Next]_vars => TypeOK'
<1> SUFFICES ASSUME AccountsInv, [Next]_vars
             PROVE  TypeOK'
  OBVIOUS
<1>1. TablesOK' /\ task' \in [Requests -> Task] /\ OneOwner' /\ AccountsExist'
  BY TablesTyped, TasksTyped, OneOwnerKept, AccountsExistKept
<1> QED
  BY <1>1 DEF TypeOK, TablesOK, OneOwner, AccountsExist, UserRow, EmployeeRow

\* ColumnsAgree: whatever writes one of the three columns writes all of them.
LEMMA ColumnsAgreeKept == AccountsInv /\ TypeOK' /\ [Next]_vars => ColumnsAgree'
<1> SUFFICES ASSUME AccountsInv, TypeOK', [Next]_vars
             PROVE  ColumnsAgree'
  OBVIOUS
<1> USE AccountsAssumption DEF AccountsInv, TypeOK, ColumnsAgree, OnItsKind, Roles
<1>1. CASE UNCHANGED vars
  BY <1>1 DEF vars
<1>2. ASSUME NEW a \in Users, NEW u \in Users, NEW role \in Roles,
             NEW link \in Employees \union {None}, CreateUser(a, u, role, link)
      PROVE  ColumnsAgree'
  <2>0. user \in [Users -> UserRow]
    BY DEF UserRow
  <2>1. /\ user'[u].role = role /\ (user'[u].isStaff <=> role # "staff")
        /\ ~user'[u].isSuperuser
    BY ONLY <1>2, <2>0, Created
  <2>2. granted'[u] = role /\ \A v \in Users : v # u => user'[v] = user[v] /\ granted'[v] = granted[v]
    BY <1>2 DEF CreateUser
  <2> HIDE DEF TypeOK
  <2> QED
    BY <2>1, <2>2
<1>3. ASSUME NEW r \in Requests, NEW a \in Users, NEW u \in Users, NEW role \in Roles,
             AskRole(r, a, u, role)
      PROVE  ColumnsAgree'
  BY <1>3 DEF AskRole, Begin, Idle
<1>4. ASSUME NEW r \in Requests, NEW a \in Users, NEW u \in Users,
             NEW op \in {"enable", "disable"}, AskActive(r, a, u, op)
      PROVE  ColumnsAgree'
  BY <1>4 DEF AskActive, Begin, Idle
<1>5. ASSUME NEW r \in Requests, NEW a \in Users, NEW e \in Employees,
             NEW op \in {"offboard", "reactivate"}, ReadEmployee(r, a, e, op)
      PROVE  ColumnsAgree'
  BY <1>5 DEF ReadEmployee, Begin, Idle
<1>6. ASSUME NEW r \in Requests, ReadRole(r)
      PROVE  ColumnsAgree'
  <2> HIDE DEF TypeOK, Task
  <2> QED
    BY <1>6, RoleRead DEF Idle
<1>7. ASSUME NEW r \in Requests, WriteRole(r)
      PROVE  ColumnsAgree'
  <2> HIDE DEF TypeOK, Task
  <2> QED
    BY <1>7, RoleWrites DEF Idle
<1>8. ASSUME NEW r \in Requests, WriteActive(r)
      PROVE  ColumnsAgree'
  <2> HIDE DEF TypeOK, Task
  <2> QED
    BY <1>8, ActiveWrites DEF Idle
<1>9. ASSUME NEW r \in Requests, Offboard(r)
      PROVE  ColumnsAgree'
  <2> HIDE DEF TypeOK, Task
  <2> QED
    BY <1>9, Offboards DEF Idle
<1>10. ASSUME NEW r \in Requests, Reactivate(r)
      PROVE  ColumnsAgree'
  <2> HIDE DEF TypeOK, Task
  <2> QED
    BY <1>10, Reactivates DEF Idle
<1>11. ASSUME NEW a \in Users, NEW e \in Employees, NEW u \in Users \union {None},
             NEW active \in BOOLEAN, UpdateEmployee(a, e, u, active)
      PROVE  ColumnsAgree'
  BY <1>11 DEF UpdateEmployee
<1> QED
  BY <1>1, <1>2, <1>3, <1>4, <1>5, <1>6, <1>7, <1>8, <1>9, <1>10, <1>11 DEF Next

\* OnItsKind: a request keeps to its row, and no row is ever deleted.
LEMMA OnItsKindKept == AccountsInv /\ TypeOK' /\ [Next]_vars => OnItsKind'
<1> SUFFICES ASSUME AccountsInv, TypeOK', [Next]_vars
             PROVE  OnItsKind'
  OBVIOUS
<1> USE AccountsAssumption DEF AccountsInv, TypeOK, OnItsKind, Task
<1>1. CASE UNCHANGED vars
  BY <1>1 DEF vars
<1>2. ASSUME NEW a \in Users, NEW u \in Users, NEW role \in Roles,
             NEW link \in Employees \union {None}, CreateUser(a, u, role, link)
      PROVE  OnItsKind'
  BY <1>2 DEF CreateUser, Account
<1>3. ASSUME NEW r \in Requests, NEW a \in Users, NEW u \in Users, NEW role \in Roles,
             AskRole(r, a, u, role)
      PROVE  OnItsKind'
  BY <1>3 DEF AskRole, Begin, Idle
<1>4. ASSUME NEW r \in Requests, NEW a \in Users, NEW u \in Users,
             NEW op \in {"enable", "disable"}, AskActive(r, a, u, op)
      PROVE  OnItsKind'
  BY <1>4 DEF AskActive, Begin, Idle
<1>5. ASSUME NEW r \in Requests, NEW a \in Users, NEW e \in Employees,
             NEW op \in {"offboard", "reactivate"}, ReadEmployee(r, a, e, op)
      PROVE  OnItsKind'
  BY <1>5 DEF ReadEmployee, Begin, Idle
<1>6. ASSUME NEW r \in Requests, ReadRole(r)
      PROVE  OnItsKind'
  <2> HIDE DEF TypeOK, Task
  <2> QED
    BY <1>6, RoleRead DEF Idle
<1>7. ASSUME NEW r \in Requests, WriteRole(r)
      PROVE  OnItsKind'
  <2> HIDE DEF TypeOK, Task
  <2> QED
    BY <1>7, RoleWrites DEF Idle
<1>8. ASSUME NEW r \in Requests, WriteActive(r)
      PROVE  OnItsKind'
  <2> HIDE DEF TypeOK, Task
  <2> QED
    BY <1>8, ActiveWrites DEF Idle
<1>9. ASSUME NEW r \in Requests, Offboard(r)
      PROVE  OnItsKind'
  <2> HIDE DEF TypeOK, Task
  <2> QED
    BY <1>9, Offboards DEF Idle
<1>10. ASSUME NEW r \in Requests, Reactivate(r)
      PROVE  OnItsKind'
  <2> HIDE DEF TypeOK, Task
  <2> QED
    BY <1>10, Reactivates DEF Idle
<1>11. ASSUME NEW a \in Users, NEW e \in Employees, NEW u \in Users \union {None},
             NEW active \in BOOLEAN, UpdateEmployee(a, e, u, active)
      PROVE  OnItsKind'
  BY <1>11 DEF UpdateEmployee
<1> QED
  BY <1>1, <1>2, <1>3, <1>4, <1>5, <1>6, <1>7, <1>8, <1>9, <1>10, <1>11 DEF Next

\* OthersSeen: whoever disables an account has another one, and changeRole looks for one.
LEMMA OthersSeenKept == AccountsInv /\ TypeOK' /\ [Next]_vars => OthersSeen'
<1> SUFFICES ASSUME AccountsInv, TypeOK', [Next]_vars
             PROVE  OthersSeen'
  OBVIOUS
<1> USE AccountsAssumption DEF AccountsInv, TypeOK, OthersSeen, OnItsKind, Task
<1>1. CASE UNCHANGED vars
  BY <1>1 DEF vars
<1>2. ASSUME NEW a \in Users, NEW u \in Users, NEW role \in Roles,
             NEW link \in Employees \union {None}, CreateUser(a, u, role, link)
      PROVE  OthersSeen'
  BY <1>2 DEF CreateUser, Account
<1>3. ASSUME NEW r \in Requests, NEW a \in Users, NEW u \in Users, NEW role \in Roles,
             AskRole(r, a, u, role)
      PROVE  OthersSeen'
  BY <1>3 DEF AskRole, Begin, Idle
<1>4. ASSUME NEW r \in Requests, NEW a \in Users, NEW u \in Users,
             NEW op \in {"enable", "disable"}, AskActive(r, a, u, op)
      PROVE  OthersSeen'
  BY <1>4 DEF AskActive, Begin, Idle
<1>5. ASSUME NEW r \in Requests, NEW a \in Users, NEW e \in Employees,
             NEW op \in {"offboard", "reactivate"}, ReadEmployee(r, a, e, op)
      PROVE  OthersSeen'
  BY <1>5 DEF ReadEmployee, Begin, Idle
<1>6. ASSUME NEW r \in Requests, ReadRole(r)
      PROVE  OthersSeen'
  <2> HIDE DEF TypeOK, Task
  <2> QED
    BY <1>6, RoleRead DEF Idle
<1>7. ASSUME NEW r \in Requests, WriteRole(r)
      PROVE  OthersSeen'
  <2> HIDE DEF TypeOK, Task
  <2> QED
    BY <1>7, RoleWrites DEF Idle
<1>8. ASSUME NEW r \in Requests, WriteActive(r)
      PROVE  OthersSeen'
  <2> HIDE DEF TypeOK, Task
  <2> QED
    BY <1>8, ActiveWrites DEF Idle
<1>9. ASSUME NEW r \in Requests, Offboard(r)
      PROVE  OthersSeen'
  <2> HIDE DEF TypeOK, Task
  <2> QED
    BY <1>9, Offboards DEF Idle
<1>10. ASSUME NEW r \in Requests, Reactivate(r)
      PROVE  OthersSeen'
  <2> HIDE DEF TypeOK, Task
  <2> QED
    BY <1>10, Reactivates DEF Idle
<1>11. ASSUME NEW a \in Users, NEW e \in Employees, NEW u \in Users \union {None},
             NEW active \in BOOLEAN, UpdateEmployee(a, e, u, active)
      PROVE  OthersSeen'
  BY <1>11 DEF UpdateEmployee
<1> QED
  BY <1>1, <1>2, <1>3, <1>4, <1>5, <1>6, <1>7, <1>8, <1>9, <1>10, <1>11 DEF Next

\* AdminUnlessExcused: what a request has seen is still so, or it says overlap.
LEMMA AdminKept == AccountsInv /\ TypeOK' /\ [Next]_vars => AdminUnlessExcused'
<1> SUFFICES ASSUME AccountsInv, TypeOK', [Next]_vars
             PROVE  AdminUnlessExcused'
  OBVIOUS
<1> USE AccountsAssumption
  DEF AccountsInv, TypeOK, AdminUnlessExcused, OthersSeen, OnItsKind, ColumnsAgree,
      Admins, Active, EffectiveRole
<1>1. CASE UNCHANGED vars
  BY <1>1 DEF vars
<1>2. ASSUME NEW a \in Users, NEW u \in Users, NEW role \in Roles,
             NEW link \in Employees \union {None}, CreateUser(a, u, role, link)
      PROVE  AdminUnlessExcused'
  BY <1>2 DEF CreateUser, Account, Note
<1>3. ASSUME NEW r \in Requests, NEW a \in Users, NEW u \in Users, NEW role \in Roles,
             AskRole(r, a, u, role)
      PROVE  AdminUnlessExcused'
  BY <1>3 DEF AskRole, Begin, Idle, Note
<1>4. ASSUME NEW r \in Requests, NEW a \in Users, NEW u \in Users,
             NEW op \in {"enable", "disable"}, AskActive(r, a, u, op)
      PROVE  AdminUnlessExcused'
  BY <1>4 DEF AskActive, Begin, Idle, Note
<1>5. ASSUME NEW r \in Requests, NEW a \in Users, NEW e \in Employees,
             NEW op \in {"offboard", "reactivate"}, ReadEmployee(r, a, e, op)
      PROVE  AdminUnlessExcused'
  BY <1>5 DEF ReadEmployee, Begin, Idle, Note
<1>6. ASSUME NEW r \in Requests, ReadRole(r)
      PROVE  AdminUnlessExcused'
  <2> HIDE DEF TypeOK, Task
  <2> QED
    BY <1>6, RoleRead DEF Idle
<1>7. ASSUME NEW r \in Requests, WriteRole(r)
      PROVE  AdminUnlessExcused'
  <2>0. PICK u \in Users, role \in Roles : u = task[r].on /\ role = task[r].role
    BY ONLY <1>7, RoleWrites, TypeOK, OnItsKind
  <2>1. /\ \A v \in Users : v # u => user'[v] = user[v]
        /\ user'[u].exists = user[u].exists /\ user'[u].active = user[u].active
        /\ user'[u].role = role
    BY ONLY <1>7, RoleWrites, TypeOK, OnItsKind, <2>0
  <2>2. Admins \ {u} \subseteq Admins' /\ (role = "admin" => Admins \subseteq Admins')
    <3> HIDE DEF TypeOK
    <3> QED
      BY <2>1
  <2> SUFFICES ASSUME Admins' = {}
               PROVE  lost' # "no"
    OBVIOUS
  <2>3. lost' = IF lost = "no" THEN IF task[r].seen = Admins THEN "no" ELSE "overlap" ELSE lost
    BY <1>7 DEF WriteRole, Note
  <2> HIDE DEF TypeOK, Admins
  <2>4. CASE Admins = {}
    BY <2>3, <2>4
  <2>5. CASE Admins # {}
    <3>1. Admins = {u} /\ role # "admin"
      BY <2>2, <2>5
    <3>2. task[r].seen # Admins
      BY <1>7, <2>0, <3>1 DEF WriteRole
    <3> QED
      BY <2>3, <3>2
  <2> QED
    BY <2>4, <2>5
<1>8. ASSUME NEW r \in Requests, WriteActive(r)
      PROVE  AdminUnlessExcused'
  <2>1. PICK u \in Users :
          /\ u = task[r].on /\ task[r].op \in {"enable", "disable"}
          /\ user'[u].exists = user[u].exists /\ user'[u].role = user[u].role
          /\ user'[u].isStaff = user[u].isStaff /\ user'[u].isSuperuser = user[u].isSuperuser
          /\ user'[u].active <=> task[r].op = "enable"
          /\ \A v \in Users : v # u => user'[v] = user[v]
    BY ONLY <1>8, ActiveWrites, TypeOK, OnItsKind
  <2>2. Admins \ {u} \subseteq Admins' /\ (task[r].op = "enable" => Admins \subseteq Admins')
    <3> HIDE DEF TypeOK
    <3> QED
      BY <2>1
  <2> SUFFICES ASSUME Admins' = {}
               PROVE  lost' # "no"
    OBVIOUS
  <2>3. lost' = IF lost = "no" THEN IF task[r].seen = Admins THEN "no" ELSE "overlap" ELSE lost
    BY <1>8 DEF WriteActive, Note
  <2>4. task[r].op = "disable" => task[r].seen \ {u} # {}
    BY <2>1
  <2> HIDE DEF TypeOK, Admins
  <2>5. CASE Admins = {}
    BY <2>3, <2>5
  <2>6. CASE Admins # {}
    <3>1. Admins = {u} /\ task[r].op = "disable"
      BY <2>1, <2>2, <2>6
    <3> QED
      BY <2>3, <2>4, <3>1
  <2> QED
    BY <2>5, <2>6
<1>9. ASSUME NEW r \in Requests, Offboard(r)
      PROVE  AdminUnlessExcused'
  <2> HIDE DEF TypeOK, Task
  <2> QED
    BY <1>9, Offboards DEF Idle, Note
<1>10. ASSUME NEW r \in Requests, Reactivate(r)
      PROVE  AdminUnlessExcused'
  <2>1. Admins \subseteq Admins'
    <3> HIDE DEF TypeOK, Task
    <3> QED
      BY <1>10, Reactivates
  <2> HIDE DEF TypeOK, Admins
  <2> QED
    BY <1>10, <2>1 DEF Reactivate, Note
<1>11. ASSUME NEW a \in Users, NEW e \in Employees, NEW u \in Users \union {None},
             NEW active \in BOOLEAN, UpdateEmployee(a, e, u, active)
      PROVE  AdminUnlessExcused'
  BY <1>11 DEF UpdateEmployee, Note
<1> QED
  BY <1>1, <1>2, <1>3, <1>4, <1>5, <1>6, <1>7, <1>8, <1>9, <1>10, <1>11 DEF Next

\* OffboardedOut: an account is opened, and linked, by the steps that note it.
LEMMA OffboardedOutKept == AccountsInv /\ TypeOK' /\ [Next]_vars => OffboardedOut'
<1> SUFFICES ASSUME AccountsInv, TypeOK', [Next]_vars
             PROVE  OffboardedOut'
  OBVIOUS
<1> USE AccountsAssumption DEF AccountsInv, TypeOK, OffboardedOut, OnItsKind, LinkedTo
<1>1. CASE UNCHANGED vars
  BY <1>1 DEF vars
<1>2. ASSUME NEW a \in Users, NEW u \in Users, NEW role \in Roles,
             NEW link \in Employees \union {None}, CreateUser(a, u, role, link)
      PROVE  OffboardedOut'
  BY <1>2 DEF CreateUser, Account, Excuse
<1>3. ASSUME NEW r \in Requests, NEW a \in Users, NEW u \in Users, NEW role \in Roles,
             AskRole(r, a, u, role)
      PROVE  OffboardedOut'
  BY <1>3 DEF AskRole, Begin, Idle, Excuse
<1>4. ASSUME NEW r \in Requests, NEW a \in Users, NEW u \in Users,
             NEW op \in {"enable", "disable"}, AskActive(r, a, u, op)
      PROVE  OffboardedOut'
  BY <1>4 DEF AskActive, Begin, Idle, Excuse
<1>5. ASSUME NEW r \in Requests, NEW a \in Users, NEW e \in Employees,
             NEW op \in {"offboard", "reactivate"}, ReadEmployee(r, a, e, op)
      PROVE  OffboardedOut'
  BY <1>5 DEF ReadEmployee, Begin, Idle, Excuse
<1>6. ASSUME NEW r \in Requests, ReadRole(r)
      PROVE  OffboardedOut'
  <2>1. \A e \in Employees : employee[e].user \in Users \union {None}
    OBVIOUS
  <2> HIDE DEF TypeOK, Task
  <2> QED
    BY <1>6, <2>1, RoleRead DEF Idle
<1>7. ASSUME NEW r \in Requests, WriteRole(r)
      PROVE  OffboardedOut'
  <2>1. \A e \in Employees : employee[e].user \in Users \union {None}
    OBVIOUS
  <2> HIDE DEF TypeOK, Task
  <2> QED
    BY <1>7, <2>1, RoleWrites DEF Idle
<1>8. ASSUME NEW r \in Requests, WriteActive(r)
      PROVE  OffboardedOut'
  BY <1>8 DEF WriteActive, Finish, Idle, Excuse
<1>9. ASSUME NEW r \in Requests, Offboard(r)
      PROVE  OffboardedOut'
  <2>1. \A e \in Employees : employee[e].user \in Users \union {None}
    OBVIOUS
  <2> HIDE DEF TypeOK, Task
  <2> QED
    BY <1>9, <2>1, Offboards DEF Idle, Excuse
<1>10. ASSUME NEW r \in Requests, Reactivate(r)
      PROVE  OffboardedOut'
  <2>1. \A e \in Employees : employee[e].user \in Users \union {None}
    OBVIOUS
  <2> HIDE DEF TypeOK, Task
  <2> QED
    BY <1>10, <2>1, Reactivates DEF Idle, Excuse
<1>11. ASSUME NEW a \in Users, NEW e \in Employees, NEW u \in Users \union {None},
             NEW active \in BOOLEAN, UpdateEmployee(a, e, u, active)
      PROVE  OffboardedOut'
  BY <1>11 DEF UpdateEmployee, Excuse
<1> QED
  BY <1>1, <1>2, <1>3, <1>4, <1>5, <1>6, <1>7, <1>8, <1>9, <1>10, <1>11 DEF Next
-----------------------------------------------------------------------------
\* Every step preserves every part.
LEMMA NextPreserves == AccountsInv /\ [Next]_vars => AccountsInv'
  BY TypeKept, ColumnsAgreeKept, OnItsKindKept, OthersSeenKept, AdminKept, OffboardedOutKept
  DEF AccountsInv

\* The invariant that the others follow from: the three columns of a role agree, and
\* whoever takes an administrator away has seen another one.
THEOREM AccountsInvariant == Spec => []AccountsInv
  BY InitEstablishes, NextPreserves, PTL DEF Spec

\* effectiveRole gives every user the role that was last given, whichever requests
\* overlap, and an account belongs to one employee.
THEOREM RolesAlwaysHold == Spec => []RolesHold
<1>1. AccountsInv => RolesHold
  <2> SUFFICES ASSUME AccountsInv, NEW u \in Users
               PROVE  EffectiveRole(u) = granted[u]
    BY DEF RolesHold, RoleAsGranted, AccountsInv
  <2> QED
    BY DEF AccountsInv, TypeOK, ColumnsAgree, EffectiveRole, Roles
<1> QED
  BY <1>1, AccountsInvariant, PTL

\* Somebody can manage the users unless the last administrator was off-boarded, or was
\* taken away by a request that overlapped another one.
THEOREM AdminAlwaysUnlessExcused == Spec => []AdminUnlessExcused
<1>1. AccountsInv => AdminUnlessExcused
  BY DEF AccountsInv
<1> QED
  BY <1>1, AccountsInvariant, PTL

\* Off-boarding closes the account for good, but for the handlers that open or link one.
THEOREM OffboardedAlwaysOut == Spec => []OffboardedOut
<1>1. AccountsInv => OffboardedOut
  BY DEF AccountsInv
<1> QED
  BY <1>1, AccountsInvariant, PTL
=============================================================================
