------------------------ MODULE EquipmentStateMachine ------------------------
(***************************************************************************)
(* What the equipment workflow promises, without saying how: a request that *)
(* is not in the recycle bin moves along the transition map one decision at *)
(* a time, every decision is added to its log, a request in the bin does    *)
(* not move, and nothing happens to a request that was purged.              *)
(*                                                                         *)
(* The promise is made for requests that two people did not act on at the   *)
(* same moment.  Such a request becomes "disputed" and is out of it.        *)
(***************************************************************************)
EXTENDS EquipmentStatus, Sequences

CONSTANT Requests

VARIABLES
  phase,   \* "none", "live", "bin", "gone" or "disputed"
  state,   \* the status of each request
  log      \* its decisions, oldest first

vars == <<phase, state, log>>

Event == [from : EquipmentStatuses, to : EquipmentStatuses]

Init ==
  /\ phase = [r \in Requests |-> "none"]
  /\ state = [r \in Requests |-> "submitted"]
  /\ log = [r \in Requests |-> <<>>]

Submit(r) ==
  /\ phase[r] = "none"
  /\ phase' = [phase EXCEPT ![r] = "live"]
  /\ UNCHANGED <<state, log>>

Decide(r, to) ==
  /\ phase[r] = "live"
  /\ CanTransition(state[r], to)
  /\ state' = [state EXCEPT ![r] = to]
  /\ log' = [log EXCEPT ![r] = Append(@, [from |-> state[r], to |-> to])]
  /\ UNCHANGED phase

\* Into the bin or out of it.
Shelve(r, where) ==
  /\ phase[r] \in {"live", "bin"}
  /\ phase' = [phase EXCEPT ![r] = where]
  /\ UNCHANGED <<state, log>>

\* Out of existence, the log with it.
Erase(r) ==
  /\ phase[r] \in {"live", "bin"}
  /\ phase' = [phase EXCEPT ![r] = "gone"]
  /\ log' = [log EXCEPT ![r] = <<>>]
  /\ UNCHANGED state

\* Two people acted at once; what the request then looks like is not promised.
Dispute(r) ==
  /\ phase[r] # "disputed"
  /\ phase' = [phase EXCEPT ![r] = "disputed"]
  /\ state' = [state EXCEPT ![r] = "submitted"]
  /\ log' = [log EXCEPT ![r] = <<>>]

Next ==
  \E r \in Requests :
    \/ Submit(r)
    \/ \E to \in EquipmentStatuses : Decide(r, to)
    \/ \E where \in {"live", "bin"} : Shelve(r, where)
    \/ Erase(r)
    \/ Dispute(r)

Spec == Init /\ [][Next]_vars
=============================================================================
