------------------------------- MODULE Accounts -------------------------------
(***************************************************************************)
(* User accounts and the employees they belong to:                          *)
(* src/src/services/user.service.ts, the account side of employee.service.ts*)
(* (off-boarding, reactivation, the form), effectiveRole in lib/auth/session *)
(* and the guards of lib/permissions/index.ts.                              *)
(*                                                                         *)
(* A request establishes who asks (requireAdmin, requireAgent), then reads,  *)
(* and then writes, and others may write in between.  The transactions that  *)
(* write are one step.  The sessions these handlers revoke when they have    *)
(* written are in Credentials; whoever has an active account can be signed   *)
(* in.  Employees are never in the recycle bin here: AssetRegister has that. *)
(***************************************************************************)
EXTENDS Naturals

CONSTANTS
  Users, Employees,
  Founder,  \* the administrator that create-admin makes
  Requests, \* requests that can be in progress at once
  None

ASSUME AccountsAssumption ==
  /\ Founder \in Users
  /\ Users \intersect Employees = {}
  /\ None \notin Users \union Employees

VARIABLES
  user,     \* accounts_user and its profile's role
  employee, \* core_employee: the linked account and is_active
  task,     \* what each request in progress is about to do
  granted,  \* observer: the role each account was last given
  lost,     \* observer: how the last administrator went
  open      \* observer: an inactive employee's account may be active

vars == <<user, employee, task, granted, lost, open>>

Roles == {"staff", "agent", "admin"}
Idle  == [op |-> "idle", on |-> None, user |-> None, role |-> "staff", seen |-> {}]
Task  == [op    : {"idle", "role", "demote", "enable", "disable", "offboard", "reactivate"},
          on    : Users \union Employees \union {None}, \* the row it works on
          user  : Users \union {None},  \* the account an employee had when read
          role  : Roles,                \* the role to give
          seen  : SUBSET Users]         \* the administrators when it looked

TypeOK ==
  /\ user \in [Users -> [exists : BOOLEAN, active : BOOLEAN, role : Roles,
                         isStaff : BOOLEAN, isSuperuser : BOOLEAN]]
  /\ employee \in [Employees -> [user : Users \union {None}, active : BOOLEAN]]
  /\ task \in [Requests -> Task]
  /\ granted \in [Users -> Roles]
  /\ lost \in {"no", "overlap", "offboarding"}
  /\ open \in [Employees -> BOOLEAN]
  \* The unique index on user_id, and its foreign key.
  /\ \A e, f \in Employees : e # f => employee[e].user = None \/ employee[e].user # employee[f].user
  /\ \A e \in Employees : employee[e].user # None => user[employee[e].user].exists

Account(exists, role, super) ==
  [exists |-> exists, active |-> exists, role |-> role,
   isStaff |-> role # "staff", isSuperuser |-> super]

Init ==
  /\ user = [u \in Users |->
       IF u = Founder THEN Account(TRUE, "admin", TRUE) ELSE Account(FALSE, "staff", FALSE)]
  /\ employee = [e \in Employees |-> [user |-> None, active |-> TRUE]]
  /\ task = [r \in Requests |-> Idle]
  /\ granted = [u \in Users |-> IF u = Founder THEN "admin" ELSE "staff"]
  /\ lost = "no"
  /\ open = [e \in Employees |-> FALSE]

-----------------------------------------------------------------------------
EffectiveRole(u) ==
  IF user[u].isSuperuser \/ user[u].role = "admin" THEN "admin"
  ELSE IF user[u].isStaff THEN "agent" ELSE user[u].role

Active(u) == user[u].exists /\ user[u].active

\* Whom changeRole counts, whom requireAdmin lets through, and whom requireAgent.
Admins == {u \in Users : Active(u) /\ EffectiveRole(u) = "admin"}
Agents == {u \in Users : Active(u) /\ EffectiveRole(u) \in {"agent", "admin"}}

Begin(r, w)   == task[r] = Idle /\ task' = [task EXCEPT ![r] = w]
Proceed(r, w) == task' = [task EXCEPT ![r] = w]
Finish(r)     == task' = [task EXCEPT ![r] = Idle]

\* Observer: a step that leaves no administrator says why.
Note(why) == lost' = IF Admins' # {} THEN "no" ELSE IF lost = "no" THEN why ELSE lost

\* Observer: which inactive employees now have an account that may be open.
Excuse(ok) == open' = [e \in Employees |-> ~employee'[e].active /\ ok[e]]

LinkedTo(u) == {e \in Employees : employee[e].user = u}

-----------------------------------------------------------------------------
(* userService.                                                             *)

\* create: account and profile, linked to the employee with its address if that
\* one has no account.
CreateUser(a, u, role, link) ==
  /\ a \in Admins /\ ~user[u].exists
  /\ user' = [user EXCEPT ![u] = Account(TRUE, role, FALSE)]
  /\ link # None => employee[link].user = None
  /\ employee' = [e \in Employees |->
       IF e = link THEN [employee[e] EXCEPT !.user = u] ELSE employee[e]]
  /\ Excuse([e \in Employees |-> open[e] \/ e = link])
  /\ granted' = [granted EXCEPT ![u] = role]
  /\ UNCHANGED <<task, lost>>

\* changeUserRole up to the reading: an administrator, and not one giving up
\* the role.
AskRole(r, a, u, role) ==
  /\ a \in Admins /\ user[u].exists
  /\ u = a => role = "admin"
  /\ Begin(r, [Idle EXCEPT !.op = "role", !.on = u, !.role = role])
  /\ UNCHANGED <<user, employee, granted, lost, open>>

\* Mutant: the last administrator is not looked for.
ReadAnyRole(r) ==
  /\ task[r].op = "role"
  /\ Proceed(r, [task[r] EXCEPT !.op = "demote", !.seen = Admins])
  /\ UNCHANGED <<user, employee, granted, lost, open>>

\* changeRole reads the target and, to demote an active administrator, counts
\* the other ones.
ReadRole(r) ==
  LET u == task[r].on
  IN /\ task[r].op = "role"
     /\ IF u \in Admins /\ task[r].role # "admin" /\ Admins \ {u} = {}
        THEN Finish(r)
        ELSE Proceed(r, [task[r] EXCEPT !.op = "demote", !.seen = Admins])
     /\ UNCHANGED <<user, employee, granted, lost, open>>

\* Mutant: isSuperuser is cleared for staff only.
WriteRoleKeeps(r) ==
  LET u == task[r].on
      role == task[r].role
  IN /\ task[r].op = "demote"
     /\ user' = [user EXCEPT ![u].role = role, ![u].isStaff = role # "staff",
                             ![u].isSuperuser = role = "admin" \/ (@ /\ role # "staff")]
     /\ granted' = [granted EXCEPT ![u] = role]
     /\ Note(IF task[r].seen = Admins THEN "no" ELSE "overlap")
     /\ Finish(r)
     /\ UNCHANGED <<employee, open>>

\* Its transaction.
WriteRole(r) ==
  LET u == task[r].on
      role == task[r].role
  IN /\ task[r].op = "demote"
     /\ user' = [user EXCEPT ![u].role = role, ![u].isStaff = role # "staff",
                             ![u].isSuperuser = role = "admin"]
     /\ granted' = [granted EXCEPT ![u] = role]
     /\ Note(IF task[r].seen = Admins THEN "no" ELSE "overlap")
     /\ Finish(r)
     /\ UNCHANGED <<employee, open>>

\* Mutant: administrators may disable themselves.
AskSelfDisable(r, a, u, op) ==
  /\ a \in Admins /\ user[u].exists
  /\ Begin(r, [Idle EXCEPT !.op = op, !.on = u, !.seen = IF op = "disable" THEN Admins ELSE {}])
  /\ UNCHANGED <<user, employee, granted, lost, open>>

\* toggleUserActive up to the update: disabling oneself is refused.
AskActive(r, a, u, op) ==
  /\ a \in Admins /\ user[u].exists
  /\ u = a => op = "enable"
  /\ Begin(r, [Idle EXCEPT !.op = op, !.on = u, !.seen = IF op = "disable" THEN Admins ELSE {}])
  /\ UNCHANGED <<user, employee, granted, lost, open>>

\* setActive, which asks no more.
WriteActive(r) ==
  LET u == task[r].on
      on == task[r].op = "enable"
  IN /\ task[r].op \in {"enable", "disable"}
     /\ user' = [user EXCEPT ![u].active = on]
     /\ UNCHANGED <<employee, granted>>
     /\ Excuse([e \in Employees |-> open[e] \/ (on /\ e \in LinkedTo(u))])
     /\ Note(IF task[r].seen = Admins THEN "no" ELSE "overlap")
     /\ Finish(r)

-----------------------------------------------------------------------------
(* employeeService.                                                         *)

\* offboard and reactivate up to their transaction: the account is read.
ReadEmployee(r, a, e, op) ==
  /\ a \in Agents
  /\ Begin(r, [Idle EXCEPT !.op = op, !.on = e, !.user = employee[e].user])
  /\ UNCHANGED <<user, employee, granted, lost, open>>

\* Mutant: the account stays open.
OffboardEmployeeOnly(r) ==
  LET e == task[r].on
  IN /\ task[r].op = "offboard"
     /\ employee' = [employee EXCEPT ![e].active = FALSE]
     /\ Excuse([open EXCEPT ![e] = employee[e].user # task[r].user])
     /\ UNCHANGED <<user, granted>>
     /\ Note("offboarding")
     /\ Finish(r)

\* The transaction of offboard.
Offboard(r) ==
  LET e == task[r].on
      u == task[r].user
  IN /\ task[r].op = "offboard"
     /\ employee' = [employee EXCEPT ![e].active = FALSE]
     /\ user' = [v \in Users |-> IF v = u THEN [user[v] EXCEPT !.active = FALSE] ELSE user[v]]
     /\ Excuse([open EXCEPT ![e] = employee[e].user # u])
     /\ Note("offboarding")
     /\ Finish(r)
     /\ UNCHANGED granted

\* The transaction of reactivate.
Reactivate(r) ==
  LET e == task[r].on
      u == task[r].user
  IN /\ task[r].op = "reactivate"
     /\ employee' = [employee EXCEPT ![e].active = TRUE]
     /\ user' = [v \in Users |-> IF v = u THEN [user[v] EXCEPT !.active = TRUE] ELSE user[v]]
     /\ Excuse([f \in Employees |-> open[f] \/ (u # None /\ f \in LinkedTo(u))])
     /\ Note("no")
     /\ Finish(r)
     /\ UNCHANGED granted

\* Mutant: the account is not asked whether it belongs to another employee.
UpdateAnyLink(a, e, u, active) ==
  /\ a \in Agents
  /\ u # None => user[u].exists
  /\ employee' = [employee EXCEPT ![e].user = u, ![e].active = active]
  /\ Excuse([open EXCEPT ![e] =
       @ \/ u # employee[e].user \/ active # employee[e].active])
  /\ UNCHANGED <<user, task, granted, lost>>

\* update: the form sends the account and is_active along; the unique index
\* refuses an account that another employee has.
UpdateEmployee(a, e, u, active) ==
  /\ a \in Agents
  /\ u # None => user[u].exists /\ LinkedTo(u) \subseteq {e}
  /\ employee' = [employee EXCEPT ![e].user = u, ![e].active = active]
  /\ Excuse([open EXCEPT ![e] =
       @ \/ u # employee[e].user \/ active # employee[e].active])
  /\ UNCHANGED <<user, task, granted, lost>>

-----------------------------------------------------------------------------
Next ==
  \/ \E a, u \in Users, role \in Roles :
       \/ \E link \in Employees \union {None} : CreateUser(a, u, role, link)
       \/ \E r \in Requests : AskRole(r, a, u, role)
  \/ \E r \in Requests, a, u \in Users, op \in {"enable", "disable"} : AskActive(r, a, u, op)
  \/ \E r \in Requests, a \in Users, e \in Employees, op \in {"offboard", "reactivate"} :
       ReadEmployee(r, a, e, op)
  \/ \E r \in Requests :
       ReadRole(r) \/ WriteRole(r) \/ WriteActive(r) \/ Offboard(r) \/ Reactivate(r)
  \/ \E a \in Users, e \in Employees, u \in Users \union {None}, active \in BOOLEAN :
       UpdateEmployee(a, e, u, active)

Spec == Init /\ [][Next]_vars

-----------------------------------------------------------------------------
\* The role a user has is the one last given, although three columns say it.
RoleAsGranted == \A u \in Users : user[u].exists => EffectiveRole(u) = granted[u]

\* Accounts have one owner and the role they were given.
RolesHold == TypeOK /\ RoleAsGranted

\* Somebody can manage the users, unless the last administrator was off-boarded
\* or was demoted or disabled by a request that had looked at other administrators.
AdminUnlessExcused == Admins = {} => lost # "no"

\* An inactive employee's account is closed, unless it was opened again or linked
\* later, the form changed the employee, or it did so while off-boarding ran.
OffboardedOut ==
  \A e \in Employees :
    ~employee[e].active /\ employee[e].user # None =>
      ~user[employee[e].user].active \/ open[e]
=============================================================================
