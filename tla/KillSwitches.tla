---------------------------- MODULE KillSwitches ----------------------------
(***************************************************************************)
(* Kill switches of the control plane (src/modules/control-plane): an      *)
(* operator restricts an operation, for a while or until further notice,   *)
(* and every guarded call reads the switch before it runs.                 *)
(*                                                                         *)
(* Operating reads the version and updates WHERE that version still holds; *)
(* the trigger of migration 0053 appends every version to the history.     *)
(* The check reads the row, then the clock.                                *)
(***************************************************************************)
EXTENDS Requests

CONSTANT KillSwitchId   \* the registered switches

SwitchState == {"ACTIVE_RESTRICTION", "INACTIVE"}

SwitchRow ==
  [state : SwitchState, version : Nat \ {0}, from : Nat, expires : Nat \cup {Open}]

SeededSwitch == [state |-> "INACTIVE", version |-> 1, from |-> 0, expires |-> Open]

\* evaluateKillSwitch: expiry is honoured where the switch is read.
Restricted(row, at) ==
  /\ row.state = "ACTIVE_RESTRICTION"
  /\ row.expires = Open \/ at < row.expires

\* MUTANT of VersionHolds: the last writer wins.
AnyVersionHolds(id, expected) == TRUE

\* The WHERE clause of operate.
VersionHolds(id, expected) == db.switches[id].version = expected

BeginOperate(q, id, state, expires) ==
  /\ expires # Open => state = "ACTIVE_RESTRICTION" /\ expires > now
  /\ Begins(q, "switches", "switch.operate",
            [id |-> id, state |-> state, expires |-> expires], db.switches[id].version)

\* The update and the history row of its trigger, or a version conflict.
OperateKillSwitch(q) ==
  LET in == req[q].in
      row == [state |-> in.state, version |-> req[q].read + 1, from |-> req[q].now,
              expires |-> in.expires]
  IN /\ At(q, "switch.operate")
     /\ VersionHolds(in.id, req[q].read)
     /\ WritesAudited(q, [db EXCEPT !.switches[in.id] = row,
                                    !.switchHistory = Append(@, [id |-> in.id, row |-> row])],
                      [action |-> "controlplane.killswitch." \o in.state, id |-> in.id,
                       version |-> row.version])

\* assertOperationAllowed: the row is read, or it is not and the call is denied.
BeginGuardedCall(q, id) ==
  Begins(q, "guarded", "switch.check", [id |-> id, seen |-> Len(db.switchHistory)],
         db.switches[id])

CheckKillSwitch(q) ==
  /\ At(q, "switch.check")
  /\ IF Restricted(req[q].read, now)
       THEN Ends(q)
       ELSE Reads(q, "admitted", [row |-> req[q].read, at |-> now])

\* The guarded operation runs; what it does is another module's.
FinishGuarded(q) == At(q, "admitted") /\ Ends(q)

-----------------------------------------------------------------------------
KillSwitchesNext ==
  \E q \in Requests :
    \/ /\ May("switches")
       /\ \E id \in KillSwitchId, state \in SwitchState, expires \in {Open} \cup 0 .. MaxNow :
            BeginOperate(q, id, state, expires)
    \/ May("guarded") /\ \E id \in KillSwitchId : BeginGuardedCall(q, id)
    \/ OperateKillSwitch(q) \/ CheckKillSwitch(q) \/ FinishGuarded(q)

-----------------------------------------------------------------------------
\* Properties

\* The version of a switch that is the last in the first n events of the history.
LastVersion(id, n) ==
  LET mine == {i \in 1 .. n : db.switchHistory[i].id = id}
  IN IF mine = {} THEN SeededSwitch
     ELSE db.switchHistory[CHOOSE i \in mine : \A j \in mine : j <= i].row

\* An operation runs only when the last version that was committed when its
\* call began, or one committed since, did not restrict it at the instant it
\* was decided; and the history holds every version once, in order, so that
\* two operators who read the same version cannot both have operated it
\* (operate-kill-switch.ts, check-kill-switch.ts).
RestrictionIsObeyed ==
  /\ \A q \in Requests :
       At(q, "admitted") =>
         \E n \in req[q].in.seen .. Len(db.switchHistory) :
           /\ LastVersion(req[q].in.id, n) = req[q].read.row
           /\ ~Restricted(req[q].read.row, req[q].read.at)
  /\ \A i, j \in DOMAIN db.switchHistory :
       i < j /\ db.switchHistory[i].id = db.switchHistory[j].id
         => db.switchHistory[i].row.version < db.switchHistory[j].row.version
  /\ \A id \in KillSwitchId :
       db.switches[id] = LastVersion(id, Len(db.switchHistory))
=============================================================================
