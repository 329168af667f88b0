---------------------------- MODULE DeviceTracking ----------------------------
(***************************************************************************)
(* One asset, the device that reports for it, and the server between:      *)
(* src/src/services/device.service.ts, the routes under src/src/app/device  *)
(* and the agent script of src/docs/DEVICE_AGENT.md, with the asset actions  *)
(* that rotate and remove keys.  Devices of different serial numbers share    *)
(* nothing, so that one stands for all.                                      *)
(*                                                                         *)
(* Keys are fresh, so all that matters of one is whether it is the one whose  *)
(* digest the asset holds: "valid" keys become "stale" and never valid again. *)
(* A handler reads, waits (for the database, for the geo lookup) and writes;   *)
(* requests and answers get lost, handlers die, and the agent gives up on      *)
(* answers that then still come about.                                         *)
(***************************************************************************)
EXTENDS Naturals, FiniteSets

CONSTANTS
  Requests,    \* requests the server can be working on at once
  MaxTroubles, \* bound: losses, refusals by the rate limiter and administrators' actions
  Nobody

ASSUME TrackingAssumption ==
  /\ Nobody \notin Requests /\ IsFiniteSet(Requests)
  /\ MaxTroubles \in Nat

VARIABLES
  asset,    \* core_asset: recycle bin, tracking, whose report it shows
  agent,    \* the script: its key file and the request it waits for
  call,     \* the requests the server is working on or has answered
  newest,   \* observer: who made the newest check-in
  behind,   \* observer: the last check-in stored was not the newest
  reports,  \* observer: check-ins since the last cut, with a key no longer good
  flight,   \* observer: check-ins that were past the key check at the last cut
  troubles  \* what has gone wrong so far

deviceVars == <<asset, agent, call, newest, behind, reports, flight, troubles>>

Keys    == {"none", "valid", "stale"}
Sources == {"nobody", "agent", "manual"}
Ops     == {"idle", "enrol", "issue", "report", "locate", "store", "rotate", "manual", "reply"}
NoCall  == [op    |-> "idle", key  |-> "none", by   |-> "agent",
            older |-> {},     late |-> FALSE,  code |-> "ok"]
Call    == [op    : Ops,
            key   : Keys,                         \* presented, or to be handed out
            by    : {"agent", "manual"},          \* the source of a check-in
            older : SUBSET Requests,              \* check-ins in hand whose time is earlier
            late  : BOOLEAN,                      \* observer: a newer one was stored
            code  : {"ok", "refused", "failed"}]  \* the answer

DeviceTypeOK ==
  /\ asset \in [life : {"live", "bin", "gone"}, tracking : BOOLEAN, shown : Sources]
  /\ agent \in [file : Keys, wait : Requests \union {Nobody}]
  /\ call \in [Requests -> Call]
  /\ newest \in Sources /\ behind \in BOOLEAN
  /\ reports \in 0..Cardinality(Requests) /\ flight \in 0..Cardinality(Requests)
  /\ troubles \in 0..MaxTroubles

DeviceInit ==
  /\ asset = [life |-> "live", tracking |-> FALSE, shown |-> "nobody"]
  /\ agent = [file |-> "none", wait |-> Nobody]
  /\ call = [r \in Requests |-> NoCall]
  /\ newest = "nobody" /\ behind = FALSE /\ reports = 0 /\ flight = 0 /\ troubles = 0

-----------------------------------------------------------------------------
Trouble == troubles < MaxTroubles /\ troubles' = troubles + 1

Stale(key) == IF key = "valid" THEN "stale" ELSE key

\* Check-ins that are past the key check.
Admitted == {r \in Requests : call[r].op \in {"locate", "store"} /\ call[r].by = "agent"}

\* The key of the asset is replaced or removed: every copy of it is stale, and
\* request r goes on as w.
RevokeKey(r, w) ==
  /\ call' = [s \in Requests |->
       IF s = r THEN w ELSE [call[s] EXCEPT !.key = Stale(@)]]
  /\ agent' = [agent EXCEPT !.file = Stale(@)]
  /\ flight' = Cardinality(Admitted) /\ reports' = 0

Receive(r, w)   == call[r] = NoCall /\ call' = [call EXCEPT ![r] = w]
Goto(r, op)     == call' = [call EXCEPT ![r].op = op]
Reply(r, code)  == call' = [call EXCEPT ![r] = [NoCall EXCEPT !.op = "reply", !.code = code]]
Handing(key)    == [NoCall EXCEPT !.op = "reply", !.key = key]

-----------------------------------------------------------------------------
(* The agent.                                                               *)

\* A run that finds a key file reports with it, and otherwise enrols first.
Run(r) ==
  /\ agent.wait = Nobody
  /\ Receive(r, [NoCall EXCEPT !.op  = IF agent.file = "none" THEN "enrol" ELSE "report",
                               !.key = agent.file])
  /\ agent' = [agent EXCEPT !.wait = r]
  /\ UNCHANGED <<asset, newest, behind, reports, flight, troubles>>

\* Mutant: a refused key is kept.
LearnKeeping(w) ==
  IF w.key # "none" THEN [file |-> w.key, wait |-> Nobody] ELSE [agent EXCEPT !.wait = Nobody]

\* What the agent makes of an answer: it stores the key it is given, and drops
\* the one that is refused.
Learn(w) ==
  IF w.key # "none" THEN [file |-> w.key, wait |-> Nobody]
  ELSE [file |-> IF w.code = "refused" THEN "none" ELSE agent.file, wait |-> Nobody]

\* An answer arrives, at the agent that still waits for it or at nobody; a key
\* shown to an administrator is brought to the device or not.
Deliver(r) ==
  /\ call[r].op = "reply"
  /\ \/ agent.wait = r /\ agent' = Learn(call[r])
     \/ agent.wait # r /\ UNCHANGED agent
     \/ /\ agent.wait # r /\ call[r].by = "manual" /\ call[r].key # "none"
        /\ agent' = [agent EXCEPT !.file = call[r].key]
  /\ call' = [call EXCEPT ![r] = NoCall]
  /\ UNCHANGED <<asset, newest, behind, reports, flight, troubles>>

\* The agent's patience ends, or its run is killed; the server goes on.
GiveUp ==
  /\ agent.wait # Nobody /\ Trouble
  /\ agent' = [agent EXCEPT !.wait = Nobody]
  /\ UNCHANGED <<asset, call, newest, behind, reports, flight>>

\* A request or an answer is lost, or the process that works on it dies.
Lose(r) ==
  /\ call[r] # NoCall /\ Trouble
  /\ call' = [s \in Requests |-> IF s = r THEN NoCall ELSE [call[s] EXCEPT !.older = @ \ {r}]]
  /\ agent' = [agent EXCEPT !.wait = IF @ = r THEN Nobody ELSE @]
  /\ UNCHANGED <<asset, newest, behind, reports, flight>>

-----------------------------------------------------------------------------
(* The routes.                                                              *)

\* The rate limiter refuses: 429, which the agent does not act on.
Throttle(r) ==
  /\ call[r].op \in {"enrol", "report"} /\ Trouble
  /\ Reply(r, "failed")
  /\ UNCHANGED <<asset, agent, newest, behind, reports, flight>>

\* enrol finds the asset by its serial number, or answers with an error that the
\* script does not catch.
Enrol(r) ==
  /\ call[r].op = "enrol"
  /\ IF asset.life = "live" THEN Goto(r, "issue") ELSE Reply(r, "failed")
  /\ UNCHANGED <<asset, agent, newest, behind, reports, flight, troubles>>

\* Mutant: tracking is not switched on with the new key.
IssueUntracked(r) ==
  /\ call[r].op = "issue"
  /\ IF asset.life = "gone"
     THEN Reply(r, "failed") /\ UNCHANGED <<asset, agent, reports, flight>>
     ELSE RevokeKey(r, Handing("valid")) /\ UNCHANGED asset
  /\ UNCHANGED <<newest, behind, troubles>>

\* Its update, by id: a new key, which the answer carries.
Issue(r) ==
  /\ call[r].op = "issue"
  /\ IF asset.life = "gone"
     THEN Reply(r, "failed") /\ UNCHANGED <<asset, agent, reports, flight>>
     ELSE /\ asset' = [asset EXCEPT !.tracking = TRUE]
          /\ RevokeKey(r, Handing("valid"))
  /\ UNCHANGED <<newest, behind, troubles>>

\* Mutant: the key is looked up and not compared.
AuthenticateAny(r) ==
  /\ call[r].op = "report"
  /\ IF asset.life = "live" /\ asset.tracking THEN Goto(r, "locate") ELSE Reply(r, "refused")
  /\ UNCHANGED <<asset, agent, newest, behind, reports, flight, troubles>>

\* authenticate.
Authenticate(r) ==
  /\ call[r].op = "report"
  /\ IF asset.life = "live" /\ asset.tracking /\ call[r].key = "valid"
     THEN Goto(r, "locate") ELSE Reply(r, "refused")
  /\ UNCHANGED <<asset, agent, newest, behind, reports, flight, troubles>>

\* The geo lookup is over, or was not needed, and the time is taken.
Stamp(r) ==
  /\ call[r].op = "locate"
  /\ call' = [call EXCEPT ![r].op = "store",
                          ![r].older = {s \in Requests : call[s].op = "store"}]
  /\ UNCHANGED <<asset, agent, newest, behind, reports, flight, troubles>>

\* Mutant: a location entered by hand is not shown.
ShownForAgents(w) == IF w.by = "agent" THEN "agent" ELSE asset.shown

\* What the asset shows after check-in w.
Shown(w) == w.by

\* The transaction of recordCheckin and recordManualLocation: the check-in and
\* the summary, unless there is no such asset any more.
Store(r) ==
  LET w == call[r]
      good == asset.life = "live" /\ asset.tracking /\ w.key = "valid"
  IN /\ w.op = "store"
     /\ call' = [s \in Requests |->
          IF s = r THEN [NoCall EXCEPT !.op   = "reply",
                                       !.code = IF asset.life = "gone" THEN "failed" ELSE "ok"]
          ELSE [call[s] EXCEPT !.older = @ \ {r},
                               !.late = @ \/ (s \in w.older /\ asset.life # "gone")]]
     /\ IF asset.life = "gone" THEN UNCHANGED <<asset, newest, behind, reports>>
        ELSE /\ asset' = [asset EXCEPT !.shown = Shown(w)]
             /\ behind' = w.late
             /\ newest' = IF w.late THEN newest ELSE w.by
             /\ reports' = IF w.by = "agent" /\ ~good THEN reports + 1 ELSE reports
     /\ UNCHANGED <<agent, flight, troubles>>

-----------------------------------------------------------------------------
(* Administrators and agents of the help desk.                              *)

\* rotateKey finds the asset.
Rotate(r) ==
  /\ asset.life = "live" /\ Trouble
  /\ Receive(r, [NoCall EXCEPT !.op = "rotate", !.by = "manual"])
  /\ UNCHANGED <<asset, agent, newest, behind, reports, flight>>

\* Its update, by id; the key is shown once.
RotateKey(r) ==
  /\ call[r].op = "rotate"
  /\ IF asset.life = "gone"
     THEN Reply(r, "failed") /\ UNCHANGED <<asset, agent, reports, flight>>
     ELSE /\ asset' = [asset EXCEPT !.tracking = TRUE]
          /\ RevokeKey(r, [Handing("valid") EXCEPT !.by = "manual"])
  /\ UNCHANGED <<newest, behind, troubles>>

\* disableTracking, which asks nothing.
DisableTracking ==
  /\ asset.life # "gone" /\ Trouble
  /\ asset' = [asset EXCEPT !.tracking = FALSE]
  /\ RevokeKey(Nobody, NoCall)
  /\ UNCHANGED <<newest, behind>>

\* recordManualLocation up to its transaction.
Manual(r) ==
  /\ asset.life = "live" /\ Trouble
  /\ Receive(r, [NoCall EXCEPT !.op = "locate", !.by = "manual"])
  /\ UNCHANGED <<asset, agent, newest, behind, reports, flight>>

\* The asset is deleted: its key is not, and serves again once it is restored.
Delete ==
  /\ asset.life = "live" /\ Trouble
  /\ asset' = [asset EXCEPT !.life = "bin"]
  /\ flight' = Cardinality(Admitted) /\ reports' = 0
  /\ UNCHANGED <<agent, call, newest, behind>>

Restore ==
  /\ asset.life = "bin" /\ Trouble
  /\ asset' = [asset EXCEPT !.life = "live"]
  /\ UNCHANGED <<agent, call, newest, behind, reports, flight>>

\* The row goes, and its check-ins with it.
Purge ==
  /\ asset.life # "gone" /\ Trouble
  /\ asset' = [life |-> "gone", tracking |-> FALSE, shown |-> "nobody"]
  /\ newest' = "nobody" /\ behind' = FALSE
  /\ RevokeKey(Nobody, NoCall)

-----------------------------------------------------------------------------
Serve(r) ==
  \/ Enrol(r) \/ Issue(r) \/ Authenticate(r) \/ Stamp(r) \/ Store(r) \/ RotateKey(r) \/ Deliver(r)

DeviceNext ==
  \/ \E r \in Requests : Run(r) \/ Serve(r) \/ Throttle(r) \/ Lose(r) \/ Rotate(r) \/ Manual(r)
  \/ GiveUp \/ DisableTracking \/ Delete \/ Restore \/ Purge

\* The task scheduler starts the agent again and again, and the server works on
\* what it has begun: it awaits the database and, for a bounded time, the lookup.
DeviceSpec ==
  /\ DeviceInit /\ [][DeviceNext]_deviceVars
  /\ WF_deviceVars(\E r \in Requests : Run(r))
  /\ \A r \in Requests : WF_deviceVars(Serve(r))

-----------------------------------------------------------------------------
\* The answer to a check-in that was stored.
Recorded(r) == call[r].op = "reply" /\ call[r].code = "ok" /\ call[r].key = "none"

\* A key that was replaced or removed, and one of a deleted asset, is good for no
\* check-in but those that were past the key check when that happened.
OldKeysDie == reports <= flight

\* Keys and check-ins are what they should be, and a revoked key is of no use.
KeysHold == DeviceTypeOK /\ OldKeysDie

\* The asset shows the newest of its check-ins, unless the last one to be stored
\* had taken its time before a newer one was stored.
ShowsNewest == behind \/ asset.shown = newest

\* Whatever was lost, thrown away, rotated or switched off before, an asset that
\* stays in the register is reported for again and again in the end: a device
\* with no key or a stale one notices and enrols anew.
Recovers ==
  <>[](asset.life = "live") => []<>(\E r \in Requests : agent.wait = r /\ Recorded(r))
=============================================================================
