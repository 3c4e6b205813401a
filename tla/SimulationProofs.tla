-------------------------- MODULE SimulationProofs --------------------------
(***************************************************************************)
(* What the simulator keeps for every number of devices, presses, sessions *)
(* and runs, and what its settings keep for any number of changes.         *)
(***************************************************************************)
EXTENDS SimEngine, SimSettings, FiniteSetTheorems, TLAPS

(* The records of SimDevices. *)
Activity == {"IDLE", "PRESSING", "PLAYING", "OFFLINE", "MOVED", "REJECTED", "FAILED"}
CallRecord == [kind : {"none", "heartbeat", "release"}, session : Sid \cup {NoSession},
               result : {"none", "ok", "lost", "PREEMPTED"}]
VDevice == [state : Activity, session : Sid \cup {NoSession}, over : BOOLEAN, call : CallRecord]
PressRecord == [device : Device \cup {NoDevice}, strategy : {"NAIVE", "PESSIMISTIC"},
                takeover : BOOLEAN, outcome : {"none", "GRANTED", "REJECTED", "FAILED"},
                session : Sid \cup {NoSession}, preempted : SUBSET Sid, fresh : BOOLEAN]

DeviceTypes == dev \in [Device -> VDevice]
PressTypes == press \in [Pressing -> PressRecord] /\ inFlight \in Int
RowTypes == /\ row \in [Sid -> Row] /\ owner \in [Sid -> Device \cup {NoDevice}]
            /\ bySession \in [Sid -> Device \cup {NoDevice}]
UpkeepTypes == strategy \in Strategies /\ swept \subseteq Sid /\ repaired \subseteq Sid
CrowdTypes == DeviceTypes /\ PressTypes /\ RowTypes /\ UpkeepTypes

Stages == {"new", "lock", "setup", "loop", "drain", "restore", "unlock", "over"}
EngineTypes ==
  /\ phase \in {"IDLE", "STARTING", "RUNNING", "PAUSED", "STOPPING", "DONE"}
  /\ at \in [Run -> Stages] /\ lock \in Run \cup {0}
  /\ known \in BOOLEAN /\ limit \in {"theirs", "ours"}

SimulationTypeOK == CrowdTypes /\ EngineTypes
-----------------------------------------------------------------------------
(* The records keep their shape whatever a handler writes into them. *)

LEMMA NoPressType == NoPress \in PressRecord
  BY CrowdAssumption DEF NoPress, PressRecord, NoSession

LEMMA NoCallType == NoCall \in CallRecord
  BY DEF NoCall, CallRecord, NoSession

LEMMA NewDeviceType == NewDevice \in VDevice
  BY NoCallType DEF NewDevice, VDevice, Activity, NoSession

LEMMA WithoutType ==
  ASSUME NEW r \in VDevice, NEW state \in Activity
  PROVE  /\ [r EXCEPT !.state = state, !.session = NoSession, !.over = FALSE] \in VDevice
         /\ [r EXCEPT !.state = state, !.session = NoSession, !.over = FALSE].state = state
         /\ [r EXCEPT !.state = state, !.session = NoSession, !.over = FALSE].call = r.call
  BY DEF VDevice, NoSession

LEMMA StateType ==
  ASSUME NEW r \in VDevice, NEW state \in Activity
  PROVE  /\ [r EXCEPT !.state = state] \in VDevice
         /\ [r EXCEPT !.state = state].state = state
  BY DEF VDevice

LEMMA CallType ==
  ASSUME NEW r \in VDevice, NEW c \in CallRecord
  PROVE  /\ [r EXCEPT !.call = c] \in VDevice
         /\ [r EXCEPT !.call = c].state = r.state
         /\ [r EXCEPT !.call = c].session = r.session
  BY DEF VDevice

LEMMA ResultType ==
  ASSUME NEW r \in CallRecord, NEW result \in {"none", "ok", "lost", "PREEMPTED"}
  PROVE  [r EXCEPT !.result = result] \in CallRecord
  BY DEF CallRecord
-----------------------------------------------------------------------------
(* What PlayingHasSession needs: an answer that makes a device play brings  *)
(* a session.                                                               *)
GrantBringsSession == \A p \in Pressing : press[p].outcome = "GRANTED" => press[p].session \in Sid

CrowdInv == CrowdTypes /\ GrantBringsSession /\ PlayingHasSession

LEMMA InitCrowd == ASSUME CrowdInit PROVE CrowdInv
  <1>1. DeviceTypes /\ PlayingHasSession
    BY NewDeviceType DEF CrowdInit, DeviceTypes, PlayingHasSession, NewDevice
  <1>2. PressTypes /\ GrantBringsSession
    BY NoPressType DEF CrowdInit, PressTypes, GrantBringsSession, NoPress
  <1>3. RowTypes /\ UpkeepTypes
    BY DEF CrowdInit, RowTypes, UpkeepTypes, Row
  <1> QED BY <1>1, <1>2, <1>3 DEF CrowdInv, CrowdTypes

(* The parts of the invariant that speak of the devices, of the presses and *)
(* of the rows each survive a step that leaves theirs alone.                *)
LEMMA DevicesKept ==
  ASSUME CrowdInv, UNCHANGED dev
  PROVE  DeviceTypes' /\ PlayingHasSession'
  BY DEF CrowdInv, CrowdTypes, DeviceTypes, PlayingHasSession

LEMMA PressesKept ==
  ASSUME CrowdInv, UNCHANGED <<press, inFlight>>
  PROVE  PressTypes' /\ GrantBringsSession'
  BY DEF CrowdInv, CrowdTypes, PressTypes, GrantBringsSession

LEMMA RowsKept == ASSUME CrowdInv, UNCHANGED <<row, owner, bySession>> PROVE RowTypes'
  BY DEF CrowdInv, CrowdTypes, RowTypes

LEMMA UpkeepKept == ASSUME CrowdInv, UNCHANGED <<strategy, swept, repaired>> PROVE UpkeepTypes'
  BY DEF CrowdInv, CrowdTypes, UpkeepTypes

(* One device changes, and plays afterwards only with a session. *)
LEMMA OneDevice ==
  ASSUME CrowdInv, NEW d \in Device, NEW r \in VDevice, dev' = [dev EXCEPT ![d] = r],
         r.state = "PLAYING" => r.session # NoSession
  PROVE  DeviceTypes' /\ PlayingHasSession'
  BY DEF CrowdInv, CrowdTypes, DeviceTypes, PlayingHasSession

(* Its state changes to one in which it does not play. *)
LEMMA NewState ==
  ASSUME CrowdInv, NEW d, NEW state \in Activity \ {"PLAYING"}, dev' = [dev EXCEPT ![d].state = state]
  PROVE  DeviceTypes' /\ PlayingHasSession'
  <1>1. CASE d \notin Device
    <2>1. dev' = dev
      BY <1>1 DEF CrowdInv, CrowdTypes, DeviceTypes
    <2> QED BY <2>1, DevicesKept
  <1>2. CASE d \in Device
    <2>1. dev[d] \in VDevice
      BY <1>2 DEF CrowdInv, CrowdTypes, DeviceTypes
    <2> DEFINE r == [dev[d] EXCEPT !.state = state]
    <2>2. r \in VDevice /\ r.state # "PLAYING"
      BY <2>1, StateType
    <2>3. dev' = [dev EXCEPT ![d] = r]
      OBVIOUS
    <2> HIDE DEF r
    <2> QED BY <1>2, <2>2, <2>3, OneDevice
  <1> QED BY <1>1, <1>2

(* Its call changes, and nothing else of it. *)
LEMMA NewCall ==
  ASSUME CrowdInv, NEW d \in Device, NEW c \in CallRecord, dev' = [dev EXCEPT ![d].call = c]
  PROVE  DeviceTypes' /\ PlayingHasSession'
  <1>1. dev[d] \in VDevice
    BY DEF CrowdInv, CrowdTypes, DeviceTypes
  <1> DEFINE r == [dev[d] EXCEPT !.call = c]
  <1>2. r \in VDevice /\ r.state = dev[d].state /\ r.session = dev[d].session
    BY <1>1, CallType
  <1>3. r.state = "PLAYING" => r.session # NoSession
    BY <1>2 DEF CrowdInv, PlayingHasSession
  <1>4. dev' = [dev EXCEPT ![d] = r]
    OBVIOUS
  <1> HIDE DEF r
  <1> QED BY <1>2, <1>3, <1>4, OneDevice

(* Some devices lose their session and stop; the others stay. *)
LEMMA SomeStop ==
  ASSUME CrowdInv, NEW D, NEW state \in Activity \ {"PLAYING"},
         dev' = [d \in Device |-> IF d \in D THEN Without(d, state) ELSE dev[d]]
  PROVE  DeviceTypes' /\ PlayingHasSession'
  <1>1. \A d \in Device : dev[d] \in VDevice /\ Without(d, state) \in VDevice
                          /\ Without(d, state).state = state
    BY WithoutType DEF CrowdInv, CrowdTypes, DeviceTypes, Without
  <1> QED BY <1>1 DEF CrowdInv, DeviceTypes, PlayingHasSession
-----------------------------------------------------------------------------
(* One lemma per step of the crowd. *)

LEMMA PressCrowd == ASSUME CrowdInv, NEW d \in Device, NEW p \in Pressing, Press(d, p) PROVE CrowdInv'
  <1>1. DeviceTypes' /\ PlayingHasSession'
    <2>1. "PRESSING" \in Activity \ {"PLAYING"}
      BY DEF Activity
    <2> QED BY <2>1, NewState DEF Press
  <1>2. PressTypes' /\ GrantBringsSession'
    <2> DEFINE r == [NoPress EXCEPT !.device = d, !.strategy = strategy, !.fresh = TRUE,
                                    !.takeover = (Policy = "TAKEOVER")]
    <2>1. strategy \in {"NAIVE", "PESSIMISTIC"}
      BY CrowdAssumption DEF CrowdInv, CrowdTypes, UpkeepTypes
    <2>2. r \in PressRecord /\ r.outcome = "none"
      BY <2>1 DEF PressRecord, NoPress, NoSession
    <2>3. press' = [press EXCEPT ![p] = r] /\ inFlight' = inFlight + 1
      BY DEF Press
    <2> HIDE DEF r
    <2> QED BY <2>2, <2>3 DEF CrowdInv, CrowdTypes, PressTypes, GrantBringsSession
  <1>3. RowTypes' /\ UpkeepTypes'
    BY RowsKept, UpkeepKept DEF Press, rowVars, upkeepVars
  <1> QED BY <1>1, <1>2, <1>3 DEF CrowdInv, CrowdTypes

LEMMA InsertRowTypes ==
  ASSUME CrowdInv, NEW p \in Pressing, NEW V, NEW s \in Sid, InsertRow(p, V, s), UNCHANGED bySession
  PROVE  RowTypes'
  <1>1. press[p].device \in Device \cup {NoDevice}
    BY DEF CrowdInv, CrowdTypes, PressTypes, PressRecord
  <1> QED BY <1>1 DEF CrowdInv, CrowdTypes, RowTypes, InsertRow, Row

(* One press changes. *)
LEMMA OnePress ==
  ASSUME CrowdInv, NEW p \in Pressing, NEW r \in PressRecord, press' = [press EXCEPT ![p] = r],
         r.outcome = "GRANTED" => r.session \in Sid, inFlight' \in Int
  PROVE  PressTypes' /\ GrantBringsSession'
  BY DEF CrowdInv, CrowdTypes, PressTypes, GrantBringsSession

LEMMA ClaimGrantedCrowd == ASSUME CrowdInv, NEW p \in Pressing, ClaimGranted(p) PROVE CrowdInv'
  <1>1. PICK s \in Sid, V \in (IF press[p].takeover THEN Victims(p) ELSE {{}}) :
          /\ InsertRow(p, V, s)
          /\ press' = [press EXCEPT ![p] =
               [press[p] EXCEPT !.outcome = "GRANTED", !.session = s, !.preempted = V]]
    BY Zenon DEF ClaimGranted
  <1>2. V \subseteq Sid
    BY <1>1 DEF Victims, Rivals, Playing
  <1> DEFINE r == [press[p] EXCEPT !.outcome = "GRANTED", !.session = s, !.preempted = V]
  <1>3. r \in PressRecord /\ r.session = s
    BY <1>2 DEF CrowdInv, CrowdTypes, PressTypes, PressRecord
  <1>4. press' = [press EXCEPT ![p] = r] /\ inFlight' \in Int
    BY <1>1 DEF ClaimGranted, CrowdInv, CrowdTypes, PressTypes
  <1> HIDE DEF r
  <1>5. PressTypes' /\ GrantBringsSession'
    BY <1>3, <1>4, OnePress
  <1>6. RowTypes'
    BY <1>1, InsertRowTypes DEF ClaimGranted
  <1> QED BY <1>5, <1>6, DevicesKept, UpkeepKept DEF ClaimGranted, upkeepVars, CrowdInv, CrowdTypes

LEMMA ClaimRejectedCrowd == ASSUME CrowdInv, NEW p \in Pressing, ClaimRejected(p) PROVE CrowdInv'
  <1>1. press[p] \in PressRecord /\ press[p].outcome = "none"
    BY DEF CrowdInv, CrowdTypes, PressTypes, ClaimRejected, Unanswered
  <1>2. PressTypes' /\ GrantBringsSession'
    <2>1. \/ press' = [press EXCEPT ![p] = [press[p] EXCEPT !.outcome = "REJECTED"]]
          \/ press' = [press EXCEPT ![p] = [press[p] EXCEPT !.takeover = TRUE]]
      BY DEF ClaimRejected
    <2>2. /\ [press[p] EXCEPT !.outcome = "REJECTED"] \in PressRecord
          /\ [press[p] EXCEPT !.outcome = "REJECTED"].outcome = "REJECTED"
          /\ [press[p] EXCEPT !.takeover = TRUE] \in PressRecord
          /\ [press[p] EXCEPT !.takeover = TRUE].outcome = "none"
      BY <1>1 DEF PressRecord
    <2>3. inFlight' \in Int
      BY DEF ClaimRejected, CrowdInv, CrowdTypes, PressTypes
    <2> QED BY <2>1, <2>2, <2>3, OnePress
  <1> QED BY <1>2, DevicesKept, RowsKept, UpkeepKept
          DEF ClaimRejected, upkeepVars, rowVars, CrowdInv, CrowdTypes

LEMMA ClaimFailedCrowd == ASSUME CrowdInv, NEW p \in Pressing, ClaimFailed(p) PROVE CrowdInv'
  <1>1. press[p] \in PressRecord
    BY DEF CrowdInv, CrowdTypes, PressTypes
  <1>2. PressTypes' /\ GrantBringsSession'
    <2>1. press' = [press EXCEPT ![p] = [press[p] EXCEPT !.outcome = "FAILED"]]
      BY DEF ClaimFailed
    <2>2. /\ [press[p] EXCEPT !.outcome = "FAILED"] \in PressRecord
          /\ [press[p] EXCEPT !.outcome = "FAILED"].outcome = "FAILED"
      BY <1>1 DEF PressRecord
    <2>3. inFlight' \in Int
      BY DEF ClaimFailed, CrowdInv, CrowdTypes, PressTypes
    <2> QED BY <2>1, <2>2, <2>3, OnePress
  <1>3. RowTypes'
    <2>1. CASE UNCHANGED rowVars
      BY <2>1, RowsKept DEF ClaimFailed, rowVars
    <2>2. CASE \E s \in Sid : InsertRow(p, {}, s)
      BY <2>2, InsertRowTypes DEF ClaimFailed
    <2> QED BY <2>1, <2>2 DEF ClaimFailed
  <1> QED BY <1>2, <1>3, DevicesKept, UpkeepKept DEF ClaimFailed, upkeepVars, CrowdInv, CrowdTypes

(* Granted: the devices hit stop, the presser has the session it was given. *)
LEMMA GrantedCrowd ==
  ASSUME CrowdInv, NEW p \in Pressing, NEW state \in {"PLAYING", "OFFLINE"},
         press[p].session \in Sid, Granted(p, state)
  PROVE  DeviceTypes' /\ PlayingHasSession' /\ bySession' \in [Sid -> Device \cup {NoDevice}]
  <1>1. press[p] \in PressRecord
    BY DEF CrowdInv, CrowdTypes, PressTypes
  <1> DEFINE grant(d) == [dev[d] EXCEPT !.state = state, !.session = press[p].session, !.over = FALSE]
  <1>2. \A d \in Device : /\ dev[d] \in VDevice
                          /\ Without(d, "MOVED") \in VDevice /\ Without(d, "MOVED").state = "MOVED"
    <2>1. "MOVED" \in Activity
      BY DEF Activity
    <2> QED BY <2>1, WithoutType DEF CrowdInv, CrowdTypes, DeviceTypes, Without
  <1>3. \A d \in Device : grant(d) \in VDevice /\ grant(d).session = press[p].session
    BY <1>2 DEF VDevice, Activity
  <1>4. \A d \in Device : dev'[d] \in {Without(d, "MOVED"), grant(d), dev[d]}
    BY DEF Granted
  <1>5. dev' \in [Device -> VDevice]
    <2> HIDE DEF grant
    <2> QED BY <1>2, <1>3 DEF Granted, grant
  <1>6. ASSUME NEW d \in Device, dev'[d].state = "PLAYING" PROVE dev'[d].session # NoSession
    <2> HIDE DEF grant
    <2>1. press[p].session # NoSession
      BY DEF Sid, NoSession
    <2> QED BY <1>2, <1>3, <1>4, <1>6, <2>1 DEF CrowdInv, PlayingHasSession
  <1>7. bySession' \in [Sid -> Device \cup {NoDevice}]
    BY <1>1 DEF Granted, CrowdInv, CrowdTypes, RowTypes, PressRecord
  <1> QED BY <1>5, <1>6, <1>7 DEF DeviceTypes, PlayingHasSession

LEMMA PressAnsweredCrowd == ASSUME CrowdInv, NEW p \in Pressing, PressAnswered(p) PROVE CrowdInv'
  <1>1. press[p] \in PressRecord
    BY DEF CrowdInv, CrowdTypes, PressTypes
  <1>2. PressTypes' /\ GrantBringsSession'
    <2>1. NoPress \in PressRecord /\ NoPress.outcome = "none"
      BY NoPressType DEF NoPress
    <2>2. press' = [press EXCEPT ![p] = NoPress] /\ inFlight' \in Int
      BY DEF PressAnswered, CrowdInv, CrowdTypes, PressTypes
    <2> QED BY <2>1, <2>2, OnePress
  <1>3. DeviceTypes' /\ PlayingHasSession' /\ bySession' \in [Sid -> Device \cup {NoDevice}]
    <2>1. CASE UNCHANGED <<dev, bySession>>
      BY <2>1, DevicesKept DEF CrowdInv, CrowdTypes, RowTypes
    <2>2. CASE press[p].outcome = "GRANTED" /\ \E state \in {"PLAYING", "OFFLINE"} : Granted(p, state)
      BY <2>2, GrantedCrowd DEF CrowdInv, GrantBringsSession
    <2>3. CASE /\ press[p].outcome \notin {"none", "GRANTED"}
               /\ dev' = [dev EXCEPT ![press[p].device].state = press[p].outcome]
               /\ UNCHANGED bySession
      <3>1. press[p].outcome \in Activity \ {"PLAYING"}
        BY <1>1, <2>3 DEF PressRecord, Activity
      <3> QED BY <2>3, <3>1, NewState DEF CrowdInv, CrowdTypes, RowTypes
    <2> QED BY <2>1, <2>2, <2>3 DEF PressAnswered
  <1> QED BY <1>2, <1>3, UpkeepKept DEF PressAnswered, upkeepVars, rowVars, CrowdInv, CrowdTypes, RowTypes

LEMMA SongOverCrowd == ASSUME CrowdInv, NEW d \in Device, SongOver(d) PROVE CrowdInv'
  <1>1. dev[d] \in VDevice /\ dev[d].session # NoSession
    BY DEF CrowdInv, CrowdTypes, DeviceTypes, PlayingHasSession, SongOver
  <1> DEFINE r == [dev[d] EXCEPT !.over = TRUE]
  <1>2. r \in VDevice /\ r.session = dev[d].session
    BY <1>1 DEF VDevice
  <1>3. dev' = [dev EXCEPT ![d] = r]
    BY DEF SongOver
  <1> HIDE DEF r
  <1>4. DeviceTypes' /\ PlayingHasSession'
    BY <1>1, <1>2, <1>3, OneDevice
  <1> QED BY <1>4, PressesKept, RowsKept, UpkeepKept DEF SongOver, upkeepVars, rowVars, CrowdInv, CrowdTypes

LEMMA CallCrowd ==
  ASSUME CrowdInv, NEW d \in Device, NEW kind \in {"heartbeat", "release"}, Call(d, kind)
  PROVE  CrowdInv'
  <1> DEFINE c == [kind |-> kind, session |-> dev[d].session, result |-> "none"]
  <1>1. c \in CallRecord
    BY DEF CrowdInv, CrowdTypes, DeviceTypes, VDevice, CallRecord
  <1>2. DeviceTypes' /\ PlayingHasSession'
    <2>1. dev' = [dev EXCEPT ![d].call = c]
      BY DEF Call
    <2> HIDE DEF c
    <2> QED BY <1>1, <2>1, NewCall
  <1> QED BY <1>2, PressesKept, RowsKept, UpkeepKept DEF Call, upkeepVars, rowVars, CrowdInv, CrowdTypes

LEMMA CallServedCrowd == ASSUME CrowdInv, NEW d \in Device, CallServed(d) PROVE CrowdInv'
  <1>1. dev[d].call \in CallRecord
    BY DEF CrowdInv, CrowdTypes, DeviceTypes, VDevice
  <1>2. DeviceTypes' /\ PlayingHasSession'
    <2>1. PICK result \in {"ok", "PREEMPTED", "lost"} : dev' = [dev EXCEPT ![d].call.result = result]
      BY DEF CallServed
    <2> DEFINE c == [dev[d].call EXCEPT !.result = result]
    <2>2. c \in CallRecord
      BY <1>1, ResultType
    <2>3. dev' = [dev EXCEPT ![d].call = c]
      BY <2>1
    <2> HIDE DEF c
    <2> QED BY <2>2, <2>3, NewCall
  <1>3. RowTypes'
    BY <1>1 DEF CallServed, CrowdInv, CrowdTypes, RowTypes, CallRecord, Row
  <1> QED BY <1>2, <1>3, PressesKept, UpkeepKept DEF CallServed, upkeepVars, CrowdInv, CrowdTypes

LEMMA CallFailsCrowd == ASSUME CrowdInv, NEW d \in Device, CallFails(d) PROVE CrowdInv'
  <1>1. DeviceTypes' /\ PlayingHasSession'
    BY NoCallType, NewCall DEF CallFails
  <1> QED BY <1>1, PressesKept, RowsKept, UpkeepKept DEF CallFails, upkeepVars, rowVars, CrowdInv, CrowdTypes

LEMMA CallAnsweredCrowd == ASSUME CrowdInv, NEW d \in Device, CallAnswered(d) PROVE CrowdInv'
  <1>1. dev[d] \in VDevice /\ dev[d].call \in CallRecord /\ dev[d].session \in Sid \cup {NoSession}
    BY DEF CrowdInv, CrowdTypes, DeviceTypes, VDevice
  <1>2. DeviceTypes' /\ PlayingHasSession'
    <2>1. CASE dev' = [dev EXCEPT ![d].call = NoCall]
      BY <2>1, NoCallType, NewCall
    <2>2. CASE \E state \in {"IDLE", "MOVED"} : dev' = [dev EXCEPT ![d] = [Without(d, state) EXCEPT !.call = NoCall]]
      <3>1. PICK state \in {"IDLE", "MOVED"} : dev' = [dev EXCEPT ![d] = [Without(d, state) EXCEPT !.call = NoCall]]
        BY <2>2
      <3>2. state \in Activity
        BY DEF Activity
      <3>3. Without(d, state) \in VDevice /\ Without(d, state).state = state
        BY <1>1, <3>2, WithoutType DEF Without
      <3> DEFINE r == [Without(d, state) EXCEPT !.call = NoCall]
      <3>4. r \in VDevice /\ r.state = state
        BY <3>3, NoCallType, CallType
      <3>5. dev' = [dev EXCEPT ![d] = r]
        BY <3>1
      <3> HIDE DEF r
      <3> QED BY <3>4, <3>5, OneDevice
    <2> QED BY <2>1, <2>2 DEF CallAnswered
  <1>3. RowTypes'
    BY <1>1 DEF CallAnswered, Forget, CrowdInv, CrowdTypes, RowTypes, CallRecord, rowVars
  <1> QED BY <1>2, <1>3, PressesKept, UpkeepKept DEF CallAnswered, upkeepVars, CrowdInv, CrowdTypes

LEMMA CoolDownCrowd == ASSUME CrowdInv, NEW d \in Device, CoolDown(d) PROVE CrowdInv'
  <1>1. "IDLE" \in Activity \ {"PLAYING"}
    BY DEF Activity
  <1>2. DeviceTypes' /\ PlayingHasSession'
    BY <1>1, NewState DEF CoolDown
  <1> QED BY <1>2, PressesKept, RowsKept, UpkeepKept DEF CoolDown, upkeepVars, rowVars, CrowdInv, CrowdTypes

LEMMA TellCrowd ==
  ASSUME CrowdInv, NEW S, Tell(S)
  PROVE  DeviceTypes' /\ PlayingHasSession' /\ bySession' \in [Sid -> Device \cup {NoDevice}]
  <1> DEFINE D == {d \in Device : \E s \in S : bySession[s] = d}
  <1>1. "IDLE" \in Activity \ {"PLAYING"}
    BY DEF Activity
  <1>2. dev' = [d \in Device |-> IF d \in D THEN Without(d, "IDLE") ELSE dev[d]]
    BY DEF Tell
  <1> HIDE DEF D
  <1>3. DeviceTypes' /\ PlayingHasSession'
    BY <1>1, <1>2, SomeStop
  <1> QED BY <1>3 DEF Tell, CrowdInv, CrowdTypes, RowTypes

LEMMA SweepCrowd == ASSUME CrowdInv, Sweep PROVE CrowdInv'
  <1>1. RowTypes' /\ UpkeepTypes'
    BY DEF Sweep, deviceVars, OpenRows, CrowdInv, CrowdTypes, RowTypes, UpkeepTypes, Row
  <1> QED BY <1>1, DevicesKept, PressesKept DEF Sweep, deviceVars, CrowdInv, CrowdTypes

LEMMA RepairCrowd == ASSUME CrowdInv, Repair PROVE CrowdInv'
  <1>1. RowTypes' /\ UpkeepTypes'
    BY DEF Repair, deviceVars, Playing, CrowdInv, CrowdTypes, RowTypes, UpkeepTypes, Row
  <1> QED BY <1>1, DevicesKept, PressesKept DEF Repair, deviceVars, CrowdInv, CrowdTypes

LEMMA ToldCrowd == ASSUME CrowdInv, SweepTold \/ RepairTold PROVE CrowdInv'
  <1>1. DeviceTypes' /\ PlayingHasSession' /\ bySession' \in [Sid -> Device \cup {NoDevice}]
    BY TellCrowd DEF SweepTold, RepairTold
  <1>2. RowTypes' /\ UpkeepTypes'
    BY <1>1 DEF SweepTold, RepairTold, rowVars, CrowdInv, CrowdTypes, RowTypes, UpkeepTypes
  <1> QED BY <1>1, <1>2, PressesKept DEF SweepTold, RepairTold, CrowdInv, CrowdTypes

LEMMA LapseCrowd == ASSUME CrowdInv, NEW s \in Sid, Lapse(s) PROVE CrowdInv'
  <1>1. RowTypes'
    BY DEF Lapse, deviceVars, CrowdInv, CrowdTypes, RowTypes, Row
  <1> QED BY <1>1, DevicesKept, PressesKept, UpkeepKept
          DEF Lapse, deviceVars, upkeepVars, CrowdInv, CrowdTypes

LEMMA PatchCrowd == ASSUME CrowdInv, NEW to \in Strategies, Patch(to) PROVE CrowdInv'
  <1>1. UpkeepTypes'
    BY DEF Patch, upkeepVars, CrowdInv, CrowdTypes, UpkeepTypes
  <1> QED BY <1>1, DevicesKept, PressesKept, RowsKept DEF Patch, rowVars, CrowdInv, CrowdTypes

LEMMA CrowdStepInv == ASSUME CrowdInv, CrowdStep PROVE CrowdInv'
  BY ClaimGrantedCrowd, ClaimRejectedCrowd, ClaimFailedCrowd, PressAnsweredCrowd, CallServedCrowd,
     CallFailsCrowd, CallAnsweredCrowd, ToldCrowd, LapseCrowd DEF CrowdStep

LEMMA LoopStepInv == ASSUME CrowdInv, LoopStep PROVE CrowdInv'
  BY SongOverCrowd, CallCrowd, CoolDownCrowd, SweepCrowd DEF LoopStep, Beat, Finish
-----------------------------------------------------------------------------
(* The engine's own steps. *)

LEMMA PreparedInv == ASSUME CrowdInv, Prepared PROVE CrowdInv'
  <1>1. DeviceTypes' /\ PlayingHasSession'
    BY NewDeviceType DEF Prepared, DeviceTypes, PlayingHasSession, NewDevice
  <1>2. PressTypes' /\ GrantBringsSession'
    <2>1. \A p \in Pressing : /\ press[p] \in PressRecord
                              /\ [press[p] EXCEPT !.fresh = FALSE] \in PressRecord
                              /\ [press[p] EXCEPT !.fresh = FALSE].outcome = press[p].outcome
                              /\ [press[p] EXCEPT !.fresh = FALSE].session = press[p].session
      BY DEF CrowdInv, CrowdTypes, PressTypes, PressRecord
    <2>2. NoPress \in PressRecord /\ NoPress.outcome = "none"
      BY NoPressType DEF NoPress
    <2>3. press' = [p \in Pressing |-> IF press[p] = NoPress THEN NoPress ELSE [press[p] EXCEPT !.fresh = FALSE]]
          /\ inFlight' \in Int
      BY DEF Prepared, CrowdInv, CrowdTypes, PressTypes
    <2> QED BY <2>1, <2>2, <2>3 DEF CrowdInv, PressTypes, GrantBringsSession
  <1>3. RowTypes' /\ UpkeepTypes'
    BY DEF Prepared, CrowdInv, CrowdTypes, RowTypes, UpkeepTypes, Row
  <1> QED BY <1>1, <1>2, <1>3 DEF CrowdInv, CrowdTypes

LEMMA LockedInv == ASSUME CrowdInv, NEW r \in Run, Locked(r) PROVE CrowdInv'
  <1>1. PressTypes' /\ GrantBringsSession' /\ RowTypes'
    BY DEF Locked, rowVars, CrowdInv, CrowdTypes, PressTypes, GrantBringsSession, RowTypes
  <1> QED BY <1>1, DevicesKept, UpkeepKept DEF Locked, upkeepVars, CrowdInv, CrowdTypes

LEMMA DrainedInv == ASSUME CrowdInv, NEW r \in Run, Drained(r) PROVE CrowdInv'
  <1>1. RowTypes'
    BY DEF Drained, deviceVars, CrowdInv, CrowdTypes, RowTypes, Row
  <1> QED BY <1>1, DevicesKept, PressesKept, UpkeepKept
          DEF Drained, deviceVars, upkeepVars, CrowdInv, CrowdTypes

LEMMA CrowdKept == ASSUME CrowdInv, UNCHANGED crowdVars PROVE CrowdInv'
  BY DevicesKept, PressesKept, RowsKept, UpkeepKept
     DEF crowdVars, deviceVars, upkeepVars, rowVars, CrowdInv, CrowdTypes

LEMMA StartKeeps == ASSUME NEW r \in Run, Start(r) \/ LabBusy(r) PROVE UNCHANGED crowdVars
  BY DEF Start, LabBusy

LEMMA LifecycleInv == ASSUME CrowdInv, NEW r \in Run, Lifecycle(r) PROVE CrowdInv'
  <1>1. CASE SetUp(r) \/ SetupFails(r)
    BY <1>1, PreparedInv, CrowdKept DEF SetUp, SetupFails
  <1>2. CASE LabBusy(r) \/ LoopEnds(r) \/ Restored(r) \/ TeardownFails(r) \/ Unlocked(r)
    BY <1>2, CrowdKept DEF LabBusy, LoopEnds, Restored, TeardownFails, Unlocked
  <1> QED BY <1>1, <1>2, LockedInv, DrainedInv DEF Lifecycle

LEMMA NextCrowd == ASSUME CrowdInv, [Next]_vars PROVE CrowdInv'
  <1>1. CASE UNCHANGED vars
    BY <1>1, CrowdKept DEF vars
  <1>2. CASE \E r \in Run : Start(r)
    BY <1>2, CrowdKept DEF Start
  <1>3. CASE \E r \in Run : Lifecycle(r)
    BY <1>3, LifecycleInv
  <1>4. CASE Pause \/ Resume
    BY <1>4, CrowdKept DEF Pause, Resume
  <1>5. CASE InLoop
    BY <1>5, LoopStepInv DEF InLoop
  <1>6. CASE Upkeep
    BY <1>6, CrowdStepInv, RepairCrowd, PatchCrowd DEF Upkeep
  <1>7. CASE \E d \in Device, p \in Pressing : Arrival(d, p)
    BY <1>7, PressCrowd DEF Arrival
  <1> QED BY <1>1, <1>2, <1>3, <1>4, <1>5, <1>6, <1>7 DEF Next

(* No device of the simulator plays without a session, however late the    *)
(* answers, preemptions, sweeps and repairs of one run or the next come.   *)
THEOREM SimulatedPlayHasSession == Spec => []PlayingHasSession
  <1>1. Init => CrowdInv
    BY InitCrowd DEF Init
  <1>2. CrowdInv /\ [Next]_vars => CrowdInv'
    BY NextCrowd
  <1>3. CrowdInv => PlayingHasSession
    BY DEF CrowdInv
  <1> QED BY <1>1, <1>2, <1>3, PTL DEF Spec
-----------------------------------------------------------------------------
(* Type correctness of the engine.                                         *)
LEMMA EngineStep == ASSUME EngineTypes, [Next]_vars PROVE EngineTypes'
  <1>1. CASE UNCHANGED vars
    BY <1>1 DEF vars, engineVars, EngineTypes
  <1>2. CASE \E r \in Run : Start(r)
    BY <1>2 DEF Start, Go, EngineTypes, Stages
  <1>3. CASE \E r \in Run : Lifecycle(r)
    <2> PICK r \in Run : Lifecycle(r)
      BY <1>3
    <2>1. CASE Locked(r) \/ LabBusy(r)
      BY <2>1 DEF Locked, LabBusy, Go, EngineTypes, Stages
    <2>2. CASE SetUp(r) \/ SetupFails(r)
      BY <2>2 DEF SetUp, SetupFails, Prepared, Go, EngineTypes, Stages
    <2>3. CASE LoopEnds(r) \/ Drained(r) \/ Restored(r)
      BY <2>3 DEF LoopEnds, Drained, Restored, Go, EngineTypes, Stages
    <2>4. CASE TeardownFails(r) \/ Unlocked(r)
      BY <2>4 DEF TeardownFails, Unlocked, Go, EngineTypes, Stages
    <2> QED BY <2>1, <2>2, <2>3, <2>4 DEF Lifecycle
  <1>4. CASE Pause \/ Resume
    BY <1>4 DEF Pause, Resume, EngineTypes
  <1>5. CASE UNCHANGED engineVars
    BY <1>5 DEF engineVars, EngineTypes
  <1> QED BY <1>1, <1>2, <1>3, <1>4, <1>5 DEF Next, InLoop, Upkeep, Arrival

(* Type correctness of the simulator, whatever outlives its run.           *)
THEOREM SimulationTypes == Spec => []SimulationTypeOK
  <1>1. Init => CrowdInv /\ EngineTypes
    BY InitCrowd DEF Init, EngineTypes, Stages
  <1>2. CrowdInv /\ EngineTypes /\ [Next]_vars => CrowdInv' /\ EngineTypes'
    BY NextCrowd, EngineStep
  <1>3. CrowdInv /\ EngineTypes => SimulationTypeOK
    BY DEF CrowdInv, SimulationTypeOK
  <1> QED BY <1>1, <1>2, <1>3, PTL DEF Spec
-----------------------------------------------------------------------------
(* NothingLeftBehind, where no press outlives teardown's deadline.  It is  *)
(* not inductive: that no session is open once the lock is free rests on   *)
(* there being no press under way any more that could still insert one,    *)
(* which teardown only knows from its counter.                             *)
UnderWay == {p \in Pressing : press[p] # NoPress}
Among(stages) == \E r \in Run : at[r] \in stages

HolderKnown ==
  \A r \in Run : at[r] \in {"setup", "loop", "drain", "restore", "unlock"} <=> lock = r
CountRight == inFlight = Cardinality(UnderWay)
UsedInRun == UnderWay # {} \/ OpenRows # {} => Among({"loop", "drain"})
LimitInRun == limit # "theirs" => Among({"loop", "drain", "restore"})
KnownFirst == /\ ~known => UnderWay = {} /\ OpenRows = {} /\ limit = "theirs"
              /\ \A r \in Run : at[r] = "loop" => known

LifeInv == HolderKnown /\ CountRight /\ UsedInRun /\ LimitInRun /\ KnownFirst

LEMMA PressesFinite == IsFiniteSet(UnderWay)
  BY CrowdAssumption, FS_Subset DEF UnderWay

LEMMA InitLife == ASSUME Init PROVE LifeInv
  <1>1. UnderWay = {} /\ OpenRows = {}
    BY DEF Init, CrowdInit, UnderWay, OpenRows
  <1>2. Cardinality(UnderWay) = 0
    BY <1>1, FS_EmptySet
  <1>3. 0 \notin Run
    BY DEF Run
  <1> QED BY <1>1, <1>2, <1>3 DEF Init, CrowdInit, LifeInv, HolderKnown, CountRight, UsedInRun,
             LimitInRun, KnownFirst

(* What the crowd does by itself: presses end, and only a press under way  *)
(* can open a session.                                                     *)
Ebbs == /\ UnderWay' \subseteq UnderWay
        /\ inFlight' = Cardinality(UnderWay')
        /\ OpenRows' # {} => OpenRows # {} \/ UnderWay # {}

LEMMA SamePresses == ASSUME CountRight, UNCHANGED <<press, inFlight>>
                     PROVE  UnderWay' = UnderWay /\ inFlight' = Cardinality(UnderWay')
  BY DEF CountRight, UnderWay

LEMMA RowsClose == ASSUME \A s \in Sid : row'[s] \in {"PLAYING", "LAPSED"} => s \in OpenRows
                   PROVE  OpenRows' # {} => OpenRows # {}
  BY DEF OpenRows

LEMMA ClaimEbbs ==
  ASSUME CrowdInv, CountRight, NEW p \in Pressing, ClaimGranted(p) \/ ClaimRejected(p) \/ ClaimFailed(p)
  PROVE  Ebbs
  <1>1. p \in UnderWay
    BY DEF ClaimGranted, ClaimRejected, ClaimFailed, Unanswered, UnderWay
  <1>2. press[p] \in PressRecord
    BY DEF CrowdInv, CrowdTypes, PressTypes
  <1>3. PICK r : press' = [press EXCEPT ![p] = r] /\ r # NoPress
    <2>1. \A s, V : [press[p] EXCEPT !.outcome = "GRANTED", !.session = s, !.preempted = V].outcome = "GRANTED"
      BY <1>2 DEF PressRecord
    <2>2. [press[p] EXCEPT !.outcome = "REJECTED"].outcome = "REJECTED"
      BY <1>2 DEF PressRecord
    <2>3. [press[p] EXCEPT !.outcome = "FAILED"].outcome = "FAILED"
      BY <1>2 DEF PressRecord
    <2>4. [press[p] EXCEPT !.takeover = TRUE].takeover = TRUE
      BY <1>2 DEF PressRecord
    <2>5. NoPress.outcome = "none" /\ NoPress.takeover = FALSE
      BY DEF NoPress
    <2>6. CASE ClaimGranted(p)
      <3>1. PICK s, V : press' = [press EXCEPT ![p] =
                [press[p] EXCEPT !.outcome = "GRANTED", !.session = s, !.preempted = V]]
        BY <2>6, Zenon DEF ClaimGranted
      <3> DEFINE r == [press[p] EXCEPT !.outcome = "GRANTED", !.session = s, !.preempted = V]
      <3>2. r # NoPress
        BY <2>1, <2>5
      <3>3. press' = [press EXCEPT ![p] = r]
        BY <3>1
      <3> HIDE DEF r
      <3> QED BY <3>2, <3>3
    <2>7. CASE ClaimRejected(p)
      <3>1. \/ press' = [press EXCEPT ![p] = [press[p] EXCEPT !.outcome = "REJECTED"]]
            \/ press' = [press EXCEPT ![p] = [press[p] EXCEPT !.takeover = TRUE]]
        BY <2>7 DEF ClaimRejected
      <3> QED BY <2>2, <2>4, <2>5, <3>1
    <2>8. CASE ClaimFailed(p)
      <3>1. press' = [press EXCEPT ![p] = [press[p] EXCEPT !.outcome = "FAILED"]]
        BY <2>8 DEF ClaimFailed
      <3> QED BY <2>3, <2>5, <3>1
    <2> QED BY <2>6, <2>7, <2>8
  <1>4. UnderWay' = UnderWay
    BY <1>1, <1>3 DEF UnderWay, CrowdInv, CrowdTypes, PressTypes
  <1>5. inFlight' = Cardinality(UnderWay')
    BY <1>4 DEF CountRight, ClaimGranted, ClaimRejected, ClaimFailed
  <1> QED BY <1>1, <1>4, <1>5 DEF Ebbs

LEMMA PressAnsweredEbbs ==
  ASSUME CrowdInv, CountRight, NEW p \in Pressing, PressAnswered(p) PROVE Ebbs
  <1>1. p \in UnderWay
    BY DEF PressAnswered, UnderWay
  <1>2. UnderWay' = UnderWay \ {p}
    BY DEF PressAnswered, UnderWay, CrowdInv, CrowdTypes, PressTypes
  <1>3. Cardinality(UnderWay') = Cardinality(UnderWay) - 1
    BY <1>1, <1>2, PressesFinite, FS_RemoveElement
  <1>4. OpenRows' = OpenRows
    BY DEF PressAnswered, rowVars, OpenRows
  <1> QED BY <1>1, <1>2, <1>3, <1>4 DEF PressAnswered, CountRight, Ebbs

LEMMA OthersEbb ==
  ASSUME CrowdInv, CountRight,
         \/ \E d \in Device : CallServed(d) \/ CallFails(d) \/ CallAnswered(d)
         \/ SweepTold \/ RepairTold \/ Repair
         \/ \E s \in Sid : Lapse(s)
         \/ LoopStep \/ \E to \in Strategies : Patch(to)
  PROVE  Ebbs
  <1>1. UNCHANGED <<press, inFlight>>
    BY DEF CallServed, CallFails, CallAnswered, SweepTold, RepairTold, Repair, Lapse, LoopStep,
           SongOver, Beat, Finish, Call, CoolDown, Sweep, Patch, deviceVars
  <1>2. \A s \in Sid : row'[s] \in {"PLAYING", "LAPSED"} => s \in OpenRows
    <2> USE DEF OpenRows
    <2>1. CASE \E d \in Device : CallServed(d)
      BY <2>1 DEF CallServed, CrowdInv, CrowdTypes, RowTypes
    <2>2. CASE Repair
      BY <2>2 DEF Repair, Playing
    <2>3. CASE \E s \in Sid : Lapse(s)
      BY <2>3 DEF Lapse, CrowdInv, CrowdTypes, RowTypes
    <2>4. CASE Sweep
      BY <2>4 DEF Sweep, CrowdInv, CrowdTypes, RowTypes
    <2>5. CASE UNCHANGED row
      BY <2>5
    <2> QED BY <2>1, <2>2, <2>3, <2>4, <2>5
            DEF CallFails, CallAnswered, SweepTold, RepairTold, LoopStep, SongOver, Beat, Finish,
                Call, CoolDown, Patch, rowVars
  <1> QED BY <1>1, <1>2, SamePresses, RowsClose DEF Ebbs

LEMMA CrowdEbbs ==
  ASSUME CrowdInv, CountRight, CrowdStep \/ LoopStep \/ Repair \/ \E to \in Strategies : Patch(to)
  PROVE  Ebbs
  BY ClaimEbbs, PressAnsweredEbbs, OthersEbb DEF CrowdStep

LEMMA EbbKeepsLife == ASSUME LifeInv, Ebbs, UNCHANGED engineVars PROVE LifeInv'
  BY DEF LifeInv, Ebbs, engineVars, HolderKnown, CountRight, UsedInRun, LimitInRun, KnownFirst, Among

(* A press begins while the loop runs. *)
LEMMA ArrivalLife ==
  ASSUME CrowdInv, LifeInv, NEW d \in Device, NEW p \in Pressing, Arrival(d, p) PROVE LifeInv'
  <1> DEFINE r == [NoPress EXCEPT !.device = d, !.strategy = strategy, !.fresh = TRUE,
                                  !.takeover = (Policy = "TAKEOVER")]
  <1>1. r # NoPress
    <2>1. r.fresh = TRUE /\ NoPress.fresh = FALSE
      BY DEF NoPress
    <2> QED BY <2>1
  <1>2. press' = [press EXCEPT ![p] = r] /\ p \notin UnderWay /\ inFlight' = inFlight + 1
    BY DEF Arrival, Press, UnderWay
  <1> HIDE DEF r
  <1>3. UnderWay' = UnderWay \cup {p}
    BY <1>1, <1>2 DEF UnderWay, CrowdInv, CrowdTypes, PressTypes
  <1>4. CountRight'
    BY <1>2, <1>3, PressesFinite, FS_AddElement DEF LifeInv, CountRight
  <1>5. OpenRows' = OpenRows
    BY DEF Arrival, Press, rowVars, OpenRows
  <1> QED BY <1>4, <1>5 DEF Arrival, Looping, engineVars, LifeInv, HolderKnown, UsedInRun,
             LimitInRun, KnownFirst, Among
-----------------------------------------------------------------------------
(* Steps of a run.                                                         *)

(* A run that holds the lock is the only one that is past it. *)
LEMMA OnlyHolder ==
  ASSUME LifeInv, NEW r \in Run, at[r] \in {"setup", "loop", "drain", "restore", "unlock"}
  PROVE  \A q \in Run : q # r => at[q] \notin {"setup", "loop", "drain", "restore", "unlock"}
  BY DEF LifeInv, HolderKnown

(* Outside loop and drain the household is at rest. *)
LEMMA AtRest ==
  ASSUME LifeInv, ~Among({"loop", "drain"}) PROVE UnderWay = {} /\ OpenRows = {}
  BY DEF LifeInv, UsedInRun

LEMMA SetUpLife ==
  ASSUME CrowdInv, EngineTypes, LifeInv, NEW r \in Run, at[r] = "setup", Prepared,
         Go(r, "loop") \/ Go(r, "drain")
  PROVE  LifeInv'
  <1>1. ~Among({"loop", "drain"})
    BY OnlyHolder DEF Among
  <1>2. UnderWay' = {}
    BY <1>1, AtRest DEF Prepared, UnderWay
  <1>3. OpenRows' = {}
    BY DEF Prepared, OpenRows
  <1>4. Cardinality(UnderWay) = Cardinality(UnderWay')
    BY <1>1, <1>2, AtRest
  <1> QED BY <1>2, <1>3, <1>4 DEF Prepared, Go, EngineTypes, LifeInv, HolderKnown, CountRight,
             UsedInRun, LimitInRun, KnownFirst, Among

LEMMA QuietLife ==
  ASSUME EngineTypes, LifeInv, UNCHANGED <<press, inFlight, row>>
  PROVE  UnderWay' = UnderWay /\ OpenRows' = OpenRows /\ CountRight'
  BY DEF LifeInv, CountRight, UnderWay, OpenRows

LEMMA LifecycleLife ==
  ASSUME ~Outlives, CrowdInv, EngineTypes, LifeInv, NEW r \in Run, Start(r) \/ Lifecycle(r)
  PROVE  LifeInv'
  <1> USE DEF Go, EngineTypes, HolderKnown, UsedInRun, LimitInRun, KnownFirst, Among
  <1>0. 0 \notin Run
    BY DEF Run
  <1>1. CASE Start(r) \/ LabBusy(r) \/ LoopEnds(r)
    <2>1. UNCHANGED <<press, inFlight, row, lock, known, limit>>
      BY <1>1 DEF Start, LabBusy, LoopEnds, crowdVars, deviceVars, rowVars
    <2>2. UnderWay' = UnderWay /\ OpenRows' = OpenRows /\ CountRight'
      BY <2>1, QuietLife
    <2> QED BY <1>1, <2>1, <2>2 DEF Start, LabBusy, LoopEnds, LifeInv
  <1>2. CASE Locked(r)
    <2>1. ~Among({"loop", "drain"})
      BY <1>0, <1>2 DEF Locked, LifeInv
    <2>2. UnderWay' = {} /\ OpenRows' = {}
      BY <1>2, <2>1, AtRest DEF Locked, UnderWay, OpenRows, rowVars
    <2>3. CountRight'
      BY <1>2, <2>2, FS_EmptySet DEF Locked, CountRight
    <2> QED BY <1>0, <1>2, <2>2, <2>3 DEF Locked, LifeInv
  <1>3. CASE SetUp(r)
    BY <1>3, SetUpLife DEF SetUp
  <1>4. CASE SetupFails(r)
    <2>1. CASE Prepared
      BY <1>4, <2>1, SetUpLife DEF SetupFails
    <2>2. CASE UNCHANGED <<crowdVars, lock, known, limit>>
      <3>1. UNCHANGED <<press, inFlight, row>>
        BY <2>2 DEF crowdVars, deviceVars, rowVars
      <3>2. UnderWay' = UnderWay /\ OpenRows' = OpenRows /\ CountRight'
        BY <3>1, QuietLife
      <3> QED BY <1>4, <2>2, <3>2 DEF SetupFails, LifeInv
    <2> QED BY <1>4, <2>1, <2>2 DEF SetupFails
  <1>5. CASE Drained(r)
    <2>1. UnderWay = {}
      BY <1>5, PressesFinite, FS_EmptySet, FS_CardinalityType DEF Drained, LifeInv, CountRight
    <2>2. UnderWay' = {} /\ CountRight'
      BY <1>5, <2>1 DEF Drained, deviceVars, UnderWay, LifeInv, CountRight
    <2>3. OpenRows' = {}
      BY <1>5 DEF Drained, OpenRows, CrowdInv, CrowdTypes, RowTypes
    <2> QED BY <1>5, <2>2, <2>3 DEF Drained, LifeInv
  <1>6. CASE Restored(r)
    <2>1. ~Among({"loop", "drain"})
      BY <1>6, OnlyHolder DEF Restored
    <2>2. UNCHANGED <<press, inFlight, row>>
      BY <1>6 DEF Restored, crowdVars, deviceVars, rowVars
    <2>3. UnderWay' = {} /\ OpenRows' = {} /\ CountRight'
      BY <2>1, <2>2, AtRest, QuietLife
    <2> QED BY <1>6, <2>3 DEF Restored, LifeInv
  <1>7. CASE TeardownFails(r)
    <2>1. UNCHANGED <<press, inFlight, row, known, limit, lock>> /\ ~known
      BY <1>7 DEF TeardownFails, crowdVars, deviceVars, rowVars
    <2>2. UnderWay' = {} /\ OpenRows' = {} /\ CountRight' /\ limit' = "theirs"
      BY <2>1, QuietLife DEF LifeInv
    <2> QED BY <1>7, <2>1, <2>2 DEF TeardownFails, LifeInv
  <1>8. CASE Unlocked(r)
    <2>1. ~Among({"loop", "drain"}) /\ ~Among({"loop", "drain", "restore"})
      BY <1>8, OnlyHolder DEF Unlocked
    <2>2. UNCHANGED <<press, inFlight, row, known, limit>>
      BY <1>8 DEF Unlocked, crowdVars, deviceVars, rowVars
    <2>3. UnderWay' = {} /\ OpenRows' = {} /\ CountRight' /\ limit' = "theirs"
      BY <2>1, <2>2, AtRest, QuietLife DEF LifeInv
    <2>4. HolderKnown'
      BY <1>0, <1>8, OnlyHolder DEF Unlocked, LifeInv
    <2> QED BY <1>8, <2>2, <2>3, <2>4 DEF Unlocked, LifeInv
  <1> QED BY <1>1, <1>2, <1>3, <1>4, <1>5, <1>6, <1>7, <1>8 DEF Lifecycle

LEMMA NextLife == ASSUME ~Outlives, CrowdInv, EngineTypes, LifeInv, [Next]_vars PROVE LifeInv'
  <1>1. CASE UNCHANGED <<press, inFlight, row, at, lock, known, limit>>
    <2>1. UnderWay' = UnderWay /\ OpenRows' = OpenRows /\ CountRight'
      BY <1>1, QuietLife
    <2> QED BY <1>1, <2>1 DEF LifeInv, HolderKnown, UsedInRun, LimitInRun, KnownFirst, Among
  <1>2. CASE \E r \in Run : Start(r) \/ Lifecycle(r)
    BY <1>2, LifecycleLife
  <1>3. CASE InLoop \/ Upkeep
    <2>1. CountRight /\ UNCHANGED engineVars
      BY <1>3 DEF InLoop, Upkeep, LifeInv
    <2>2. Ebbs
      BY <1>3, <2>1, CrowdEbbs DEF InLoop, Upkeep
    <2> QED BY <2>1, <2>2, EbbKeepsLife
  <1>4. CASE \E d \in Device, p \in Pressing : Arrival(d, p)
    BY <1>4, ArrivalLife
  <1>5. CASE Pause \/ Resume \/ UNCHANGED vars
    BY <1>1, <1>5 DEF Pause, Resume, vars, engineVars, crowdVars, deviceVars, rowVars
  <1> QED BY <1>2, <1>3, <1>4, <1>5 DEF Next

(* Once no run holds the lab, every session of the household is over and   *)
(* its limit is restored, though starts fail, wait and overlap: provided   *)
(* that no press outlives the 8 s that teardown waits for it.              *)
THEOREM SimulationLeavesNothing == ASSUME ~Outlives PROVE Spec => []NothingLeftBehind
  <1>1. Init => CrowdInv /\ EngineTypes /\ LifeInv
    BY InitCrowd, InitLife DEF Init, EngineTypes, Stages
  <1>2. CrowdInv /\ EngineTypes /\ LifeInv /\ [Next]_vars => CrowdInv' /\ EngineTypes' /\ LifeInv'
    BY NextCrowd, EngineStep, NextLife
  <1>3. CrowdInv /\ EngineTypes /\ LifeInv => NothingLeftBehind
    <2> SUFFICES ASSUME LifeInv, lock = 0 PROVE OpenRows = {} /\ limit = "theirs"
      BY DEF NothingLeftBehind
    <2>1. \A r \in Run : at[r] \notin {"setup", "loop", "drain", "restore", "unlock"}
      BY DEF LifeInv, HolderKnown, Run
    <2> QED BY <2>1 DEF LifeInv, UsedInRun, LimitInRun, Among
  <1> QED BY <1>1, <1>2, <1>3, PTL DEF Spec
-----------------------------------------------------------------------------
(* The settings.                                                           *)
AnyValue == UNION {Values[f] : f \in Fields}
SettingPatch == [field : Fields, value : AnyValue, n : Nat]
Configs == [Fields -> AnyValue]

SettingsTypes ==
  /\ simRun \in [phase : {"DONE", "STARTING", "RUNNING", "STOPPING"}, cfg : Configs, asked : Configs]
  /\ draft \in Configs
  /\ patchTimer \in SettingPatch \cup {NoPatch}
  /\ patches \subseteq SettingPatch /\ preparing \subseteq SettingPatch
  /\ choice \in [Fields -> SUBSET AnyValue]
  /\ picks \in Nat

(* The strategy fits the screens of the run at every point of its life, and *)
(* so does one whose artifacts are still being prepared.                    *)
FitsThroughout ==
  /\ StrategyFits(simRun.cfg)
  /\ simRun.phase = "STARTING" => StrategyFits(simRun.asked)
  /\ \A p \in preparing : p.field = "strategy" /\ StrategyFits(Patched(simRun.cfg, p))

(* What was chosen for a field waits in the timer; or everything that is    *)
(* under way for the field brings it; or the run has it.                    *)
OnItsWay(f, v) ==
  \/ patchTimer.field = f /\ patchTimer.value = v
  \/ /\ patchTimer.field # f
     /\ \A p \in patches \cup preparing : p.field = f => p.value = v
     /\ (\A p \in patches \cup preparing : p.field # f) => simRun.cfg[f] = v
ChoicesArrive == \A f \in LiveFields : \A v \in choice[f] : OnItsWay(f, v)

SettingsInv == SettingsTypes /\ FitsThroughout /\ ChoicesArrive

LEMMA FieldNames == Fields = {"strategy", "ratePerSec", "maxStreams"} /\ LiveFields \subseteq Fields
                    /\ "none" \notin Fields /\ "maxStreams" \notin LiveFields
  BY DEF Fields, Values, LiveFields

LEMMA ValuesKnown == \A f \in Fields : Values[f] \subseteq AnyValue
  BY DEF AnyValue

LEMMA ConfigsKnown == Config \subseteq Configs /\ DefaultConfig \in Configs /\ Presets \subseteq Configs
  <1>1. Config \subseteq Configs
    <2> SUFFICES ASSUME NEW c \in Config PROVE c \in Configs
      OBVIOUS
    <2>1. c.strategy \in AnyValue /\ c.ratePerSec \in AnyValue /\ c.maxStreams \in AnyValue
      BY FieldNames, ValuesKnown DEF Config, Values
    <2>2. c = [f \in Fields |-> c[f]]
      BY FieldNames DEF Config
    <2>3. \A f \in Fields : c[f] \in AnyValue
      BY <2>1, FieldNames
    <2> QED BY <2>2, <2>3 DEF Configs
  <1>2. DefaultConfig \in Config
    BY DEF DefaultConfig, Config, Values
  <1>3. Presets \subseteq Config
    <2>1. \A a \in {2, 4}, b \in {1, 2} :
            [DefaultConfig EXCEPT !.ratePerSec = a, !.maxStreams = b] \in Config
      BY DEF DefaultConfig, Config, Values
    <2> QED BY <1>2, <2>1 DEF Presets
  <1> QED BY <1>1, <1>2, <1>3

LEMMA PatchedIs ==
  ASSUME NEW c \in Configs, NEW p \in SettingPatch
  PROVE  /\ Patched(c, p) \in Configs
         /\ \A f \in Fields : Patched(c, p)[f] = IF f = p.field THEN p.value ELSE c[f]
  BY DEF Patched, Configs, SettingPatch

(* Whether a strategy fits depends on two fields. *)
LEMMA FitsBySame ==
  ASSUME NEW c, NEW b, c["maxStreams"] = b["maxStreams"], c["strategy"] = b["strategy"], StrategyFits(b)
  PROVE  StrategyFits(c)
  BY DEF StrategyFits

LEMMA InitSettings == ASSUME SettingsInit PROVE SettingsInv
  <1>1. SettingsTypes
    BY ConfigsKnown DEF SettingsInit, SettingsTypes, Unchosen
  <1>2. StrategyFits(DefaultConfig)
    BY DEF StrategyFits, DefaultConfig
  <1> QED BY <1>1, <1>2, FieldNames
          DEF SettingsInit, SettingsInv, FitsThroughout, ChoicesArrive, Unchosen

(* Forgetting a change leaves no choice that it alone would have brought. *)
LEMMA ForgottenIs ==
  ASSUME SettingsTypes, NEW p \in SettingPatch \cup {NoPatch}
  PROVE  /\ Forgotten(p) \in [Fields -> SUBSET AnyValue]
         /\ \A f \in Fields : \A v \in Forgotten(p)[f] :
              v \in choice[f] /\ (p \in SettingPatch /\ p.field = f => v # p.value)
  <1>1. CASE p = NoPatch
    <2>1. NoPatch \notin SettingPatch
      BY FieldNames DEF NoPatch, SettingPatch
    <2> QED BY <1>1, <2>1 DEF Forgotten, SettingsTypes
  <1>2. CASE p # NoPatch
    BY <1>2 DEF Forgotten, SettingsTypes, SettingPatch
  <1> QED BY <1>1, <1>2

LEMMA NoPatchField == NoPatch.field \notin Fields
  BY FieldNames DEF NoPatch

(* The cases of a step that leaves the run and the preparations alone. *)
LEMMA FitsKept == ASSUME SettingsInv, UNCHANGED <<simRun, preparing>> PROVE FitsThroughout'
  BY DEF SettingsInv, FitsThroughout

LEMMA SetLiveStep ==
  ASSUME SettingsInv, NEW f \in Fields, NEW v \in Values[f], SetLive(f, v) PROVE SettingsInv'
  <1>1. v \in AnyValue
    BY ValuesKnown
  <1> DEFINE t == [field |-> f, value |-> v, n |-> picks]
  <1>2. t \in SettingPatch /\ t.field = f /\ t.value = v
    BY <1>1 DEF SettingPatch, SettingsInv, SettingsTypes
  <1>3. patchTimer' = t /\ choice' = [Forgotten(patchTimer) EXCEPT ![f] = {v}]
    BY DEF SetLive
  <1>4. /\ Forgotten(patchTimer) \in [Fields -> SUBSET AnyValue]
        /\ \A g \in Fields : \A w \in Forgotten(patchTimer)[g] :
             w \in choice[g] /\ (patchTimer \in SettingPatch /\ patchTimer.field = g => w # patchTimer.value)
    BY ForgottenIs DEF SettingsInv, SettingsTypes
  <1> HIDE DEF t
  <1>5. SettingsTypes'
    BY <1>1, <1>2, <1>3, <1>4 DEF SetLive, SettingsInv, SettingsTypes, Configs
  <1>6. ASSUME NEW g \in LiveFields, NEW w \in choice'[g] PROVE OnItsWay(g, w)'
    <2>1. CASE g = f
      BY <1>2, <1>3, <1>4, <1>6, <2>1, FieldNames DEF OnItsWay
    <2>2. CASE g # f
      <3>1. w \in Forgotten(patchTimer)[g]
        BY <1>3, <1>4, <1>6, <2>2, FieldNames
      <3>2. patchTimer.field # g
        <4>1. patchTimer.field = g => patchTimer \in SettingPatch
          BY NoPatchField, FieldNames DEF SettingsInv, SettingsTypes
        <4> QED BY <1>4, <3>1, <4>1, FieldNames DEF SettingsInv, ChoicesArrive, OnItsWay
      <3>3. OnItsWay(g, w)
        BY <1>4, <3>1, FieldNames DEF SettingsInv, ChoicesArrive
      <3>4. UNCHANGED <<simRun, patches, preparing>> /\ patchTimer'.field # g
        BY <1>2, <1>3, <2>2 DEF SetLive
      <3> QED BY <3>2, <3>3, <3>4 DEF OnItsWay
    <2> QED BY <2>1, <2>2
  <1>7. FitsThroughout'
    BY FitsKept DEF SetLive
  <1> QED BY <1>5, <1>6, <1>7 DEF SettingsInv, ChoicesArrive

LEMMA DraftStep ==
  ASSUME SettingsInv,
         \/ \E f \in Fields : \E v \in Values[f] : SetDraft(f, v)
         \/ \E c \in Presets : PickPreset(c)
         \/ HearConfig \/ UNCHANGED settingsVars
  PROVE  SettingsInv'
  <1>1. UNCHANGED <<simRun, patchTimer, patches, preparing, choice>>
    BY DEF SetDraft, PickPreset, HearConfig, settingsVars
  <1>2. draft' \in Configs /\ picks' \in Nat
    BY ValuesKnown, ConfigsKnown
       DEF SetDraft, PickPreset, HearConfig, settingsVars, SettingsInv, SettingsTypes, Configs
  <1>3. SettingsTypes'
    BY <1>1, <1>2 DEF SettingsInv, SettingsTypes
  <1>4. ChoicesArrive'
    BY <1>1 DEF SettingsInv, ChoicesArrive, OnItsWay
  <1> QED BY <1>1, <1>3, <1>4, FitsKept DEF SettingsInv

LEMMA PatchSentStep == ASSUME SettingsInv, PatchSent PROVE SettingsInv'
  <1>1. patchTimer \in SettingPatch /\ patchTimer.field \in Fields
    BY DEF PatchSent, SettingsInv, SettingsTypes, SettingPatch
  <1>2. SettingsTypes'
    BY <1>1 DEF PatchSent, SettingsInv, SettingsTypes
  <1>3. ASSUME NEW g \in LiveFields, NEW w \in choice'[g] PROVE OnItsWay(g, w)'
    <2>1. w \in choice[g] /\ (patchTimer.field = g => ~Crossed(g))
      BY <1>1, <1>3, FieldNames DEF PatchSent, SettingsInv, SettingsTypes
    <2>2. OnItsWay(g, w)
      BY <2>1 DEF SettingsInv, ChoicesArrive
    <2>3. patchTimer'.field # g
      BY NoPatchField, FieldNames DEF PatchSent
    <2>4. CASE patchTimer.field = g
      BY <2>1, <2>2, <2>3, <2>4 DEF PatchSent, Crossed, OnItsWay
    <2>5. CASE patchTimer.field # g
      BY <2>2, <2>3, <2>5 DEF PatchSent, OnItsWay
    <2> QED BY <2>4, <2>5
  <1> QED BY <1>2, <1>3, FitsKept DEF PatchSent, SettingsInv, ChoicesArrive

LEMMA OtherSendsStep ==
  ASSUME SettingsInv, NEW f \in Fields, NEW v \in Values[f], OtherSends(f, v) PROVE SettingsInv'
  <1> DEFINE q == [field |-> f, value |-> v, n |-> picks]
  <1>1. q \in SettingPatch /\ q.field = f /\ q.value = v
    BY ValuesKnown DEF SettingPatch, SettingsInv, SettingsTypes
  <1>2. patches' = patches \cup {q} /\ UNCHANGED <<simRun, draft, patchTimer, preparing>>
    BY DEF OtherSends
  <1> HIDE DEF q
  <1>3. choice' = [choice EXCEPT ![f] = IF Crossed(f) \/ patchTimer.field = f THEN {} ELSE {v}]
    BY DEF OtherSends
  <1>4. SettingsTypes'
    BY <1>1, <1>2, <1>3, ValuesKnown DEF OtherSends, SettingsInv, SettingsTypes
  <1>5. ASSUME NEW g \in LiveFields, NEW w \in choice'[g] PROVE OnItsWay(g, w)'
    <2>1. CASE g = f
      <3>1. ~Crossed(f) /\ patchTimer.field # f /\ w = v
        BY <1>3, <1>5, <2>1, FieldNames DEF SettingsInv, SettingsTypes
      <3> QED BY <1>1, <1>2, <2>1, <3>1 DEF Crossed, OnItsWay
    <2>2. CASE g # f
      <3>1. OnItsWay(g, w)
        BY <1>3, <1>5, <2>2, FieldNames DEF SettingsInv, SettingsTypes, ChoicesArrive
      <3> QED BY <1>1, <1>2, <2>2, <3>1 DEF OnItsWay
    <2> QED BY <2>1, <2>2
  <1> QED BY <1>2, <1>4, <1>5, FitsKept DEF SettingsInv, ChoicesArrive

(* A change that is lost, refused or cannot be prepared is forgotten. *)
LEMMA ForgetStep ==
  ASSUME SettingsInv, NEW p \in SettingPatch, choice' = Forgotten(p),
         UNCHANGED <<simRun, draft, patchTimer, picks>>,
         \/ p \in patches /\ patches' = patches \ {p} /\ preparing' = preparing
         \/ p \in preparing /\ preparing' = preparing \ {p} /\ patches' = patches
  PROVE  SettingsInv'
  <1>1. /\ Forgotten(p) \in [Fields -> SUBSET AnyValue]
        /\ \A g \in Fields : \A w \in Forgotten(p)[g] :
             w \in choice[g] /\ (p.field = g => w # p.value)
    BY ForgottenIs DEF SettingsInv
  <1>2. SettingsTypes'
    BY <1>1 DEF SettingsInv, SettingsTypes
  <1>3. FitsThroughout'
    BY DEF SettingsInv, FitsThroughout
  <1>4. ASSUME NEW g \in LiveFields, NEW w \in choice'[g] PROVE OnItsWay(g, w)'
    <2>1. w \in choice[g] /\ (p.field = g => w # p.value)
      BY <1>1, <1>4, FieldNames
    <2>2. OnItsWay(g, w)
      BY <2>1 DEF SettingsInv, ChoicesArrive
    <2> QED BY <2>1, <2>2 DEF OnItsWay
  <1> QED BY <1>2, <1>3, <1>4 DEF SettingsInv, ChoicesArrive

(* A change takes effect, at once or after its strategy was prepared. *)
LEMMA TakeEffect ==
  ASSUME SettingsInv, NEW p \in SettingPatch,
         simRun' = [simRun EXCEPT !.cfg = Patched(@, p)],
         UNCHANGED <<draft, patchTimer, choice, picks>>,
         patches' \subseteq patches, preparing' \subseteq preparing,
         (patches \cup preparing) \ (patches' \cup preparing') \subseteq {p},
         p \in patches \cup preparing, p.field # "maxStreams",
         StrategyFits(Patched(simRun.cfg, p))
  PROVE  SettingsInv'
  <1> DEFINE c == Patched(simRun.cfg, p)
  <1>1. simRun.cfg \in Configs
    BY DEF SettingsInv, SettingsTypes
  <1>2. c \in Configs /\ \A f \in Fields : c[f] = IF f = p.field THEN p.value ELSE simRun.cfg[f]
    BY <1>1, PatchedIs
  <1>3. simRun' = [simRun EXCEPT !.cfg = c]
    OBVIOUS
  <1>4. StrategyFits(c)
    OBVIOUS
  <1> HIDE DEF c
  <1>5. simRun'.cfg = c /\ simRun'.phase = simRun.phase /\ simRun'.asked = simRun.asked
    BY <1>3 DEF SettingsInv, SettingsTypes
  <1>6. SettingsTypes'
    BY <1>2, <1>3 DEF SettingsInv, SettingsTypes
  <1>7. FitsThroughout'
    <2>1. ASSUME NEW q \in preparing' PROVE q.field = "strategy" /\ StrategyFits(Patched(c, q))
      <3>1. q \in SettingPatch /\ q.field = "strategy" /\ StrategyFits(Patched(simRun.cfg, q))
        BY <2>1 DEF SettingsInv, SettingsTypes, FitsThroughout
      <3>2. Patched(c, q)["maxStreams"] = Patched(simRun.cfg, q)["maxStreams"]
        BY <1>1, <1>2, <3>1, PatchedIs, FieldNames
      <3>3. Patched(c, q)["strategy"] = Patched(simRun.cfg, q)["strategy"]
        BY <1>1, <1>2, <3>1, PatchedIs, FieldNames
      <3> QED BY <3>1, <3>2, <3>3, FitsBySame
    <2> QED BY <1>4, <1>5, <2>1 DEF SettingsInv, FitsThroughout
  <1>8. ASSUME NEW g \in LiveFields, NEW w \in choice'[g] PROVE OnItsWay(g, w)'
    <2>1. OnItsWay(g, w)
      BY <1>8 DEF SettingsInv, ChoicesArrive
    <2>2. CASE patchTimer.field = g
      BY <2>1, <2>2 DEF OnItsWay
    <2>3. CASE patchTimer.field # g
      <3>1. \A q \in patches' \cup preparing' : q.field = g => q.value = w
        BY <2>1, <2>3 DEF OnItsWay
      <3>2. CASE p.field = g
        BY <1>2, <1>5, <2>1, <2>3, <3>1, <3>2, FieldNames DEF OnItsWay
      <3>3. CASE p.field # g
        <4>1. c[g] = simRun.cfg[g]
          BY <1>2, <3>3, FieldNames
        <4> QED BY <1>5, <2>1, <2>3, <3>1, <3>3, <4>1 DEF OnItsWay
      <3> QED BY <3>2, <3>3
    <2> QED BY <2>2, <2>3
  <1> QED BY <1>6, <1>7, <1>8 DEF SettingsInv, ChoicesArrive

LEMMA ApplyStep == ASSUME SettingsInv, NEW p \in patches, Apply(p) PROVE SettingsInv'
  <1>1. p \in SettingPatch /\ p.field # "maxStreams"
    BY FieldNames DEF Apply, Acceptable, SettingsInv, SettingsTypes
  <1>2. simRun.cfg \in Configs /\ StrategyFits(simRun.cfg)
    BY DEF SettingsInv, SettingsTypes, FitsThroughout
  <1>3. StrategyFits(Patched(simRun.cfg, p))
    <2>1. p.field = "strategy" => p.value = simRun.cfg["strategy"]
      BY DEF Apply, NeedsPrepare
    <2> QED BY <1>1, <1>2, <2>1, PatchedIs, FieldNames, FitsBySame
  <1> QED BY <1>1, <1>3, TakeEffect DEF Apply

LEMMA ApplyPreparedStep == ASSUME SettingsInv, NEW p \in preparing, ApplyPrepared(p) PROVE SettingsInv'
  <1>1. p \in SettingPatch /\ p.field = "strategy" /\ StrategyFits(Patched(simRun.cfg, p))
    BY DEF SettingsInv, SettingsTypes, FitsThroughout
  <1> QED BY <1>1, TakeEffect DEF ApplyPrepared

LEMMA PrepareStep == ASSUME SettingsInv, NEW p \in patches, Prepare(p) PROVE SettingsInv'
  <1>1. SettingsTypes'
    BY DEF Prepare, SettingsInv, SettingsTypes
  <1>2. FitsThroughout'
    BY DEF Prepare, Acceptable, NeedsPrepare, SettingsInv, FitsThroughout
  <1>3. patches' \cup preparing' = patches \cup preparing
    BY DEF Prepare
  <1>4. ChoicesArrive'
    BY <1>3 DEF Prepare, SettingsInv, ChoicesArrive, OnItsWay
  <1> QED BY <1>1, <1>2, <1>4 DEF SettingsInv

LEMMA PhaseStep ==
  ASSUME PrepareEnds, SettingsInv,
         StartShown \/ (\E c \in Config : StartWith(c)) \/ SettingsSetUp \/ StartRefused \/ RunEnds
  PROVE  SettingsInv'
  <1> USE DEF SettingsInv, SettingsTypes, FitsThroughout
  <1>1. CASE \E c \in Configs : StartWith(c)
    <2> PICK c \in Configs : StartWith(c)
      BY <1>1
    <2>1. /\ simRun' = [simRun EXCEPT !.phase = "STARTING", !.asked = c] /\ StrategyFits(c)
          /\ UNCHANGED <<draft, patchTimer, patches, preparing, choice, picks>>
      BY DEF StartWith
    <2>2. SettingsTypes' /\ FitsThroughout'
      BY <2>1
    <2>3. simRun'.cfg = simRun.cfg
      BY <2>1
    <2> QED BY <2>1, <2>2, <2>3 DEF ChoicesArrive, OnItsWay
  <1>2. CASE SettingsSetUp
    <2>1. SettingsTypes' /\ FitsThroughout'
      BY <1>2 DEF SettingsSetUp, Unchosen
    <2> QED BY <1>2, <2>1, FieldNames DEF SettingsSetUp, Unchosen, ChoicesArrive
  <1>3. CASE StartRefused \/ RunEnds
    <2>1. PICK ph \in {"DONE", "STOPPING"} : simRun' = [simRun EXCEPT !.phase = ph]
      BY <1>3 DEF StartRefused, RunEnds
    <2>2. UNCHANGED <<draft, patchTimer, patches, preparing, choice, picks>>
      BY <1>3 DEF StartRefused, RunEnds
    <2>3. SettingsTypes' /\ FitsThroughout' /\ simRun'.cfg = simRun.cfg
      BY <2>1, <2>2
    <2> QED BY <2>2, <2>3 DEF ChoicesArrive, OnItsWay
  <1> QED BY <1>1, <1>2, <1>3, ConfigsKnown DEF StartShown

LEMMA SettingsStep ==
  ASSUME PrepareEnds, SettingsInv, [SettingsNext]_settingsVars PROVE SettingsInv'
  <1>1. CASE \E p \in patches : LosePatch(p) \/ Refuse(p)
    BY <1>1, ForgetStep DEF LosePatch, Refuse, SettingsInv, SettingsTypes
  <1>2. CASE \E p \in preparing : PrepareFails(p)
    BY <1>2, ForgetStep DEF PrepareFails, SettingsInv, SettingsTypes
  <1> QED BY <1>1, <1>2, SetLiveStep, DraftStep, OtherSendsStep, PatchSentStep, ApplyStep,
             PrepareStep, ApplyPreparedStep, PhaseStep DEF SettingsNext

(* A run's strategy fits its number of screens at every moment, and once   *)
(* no change is under way the run goes by the last one chosen, unless that *)
(* was replaced, crossed, refused or lost: provided that a strategy is     *)
(* prepared before the next run is set up.                                 *)
THEOREM SettingsTakeEffect == ASSUME PrepareEnds PROVE SettingsSpec => []SettingsTake
  <1>1. SettingsInit => SettingsInv
    BY InitSettings
  <1>2. SettingsInv /\ [SettingsNext]_settingsVars => SettingsInv'
    BY SettingsStep
  <1>3. SettingsInv => SettingsTake
    BY NoPatchField, FieldNames DEF SettingsInv, SettingsTypes, FitsThroughout, ChoicesArrive, OnItsWay, SettingsTake
  <1> QED BY <1>1, <1>2, <1>3, PTL DEF SettingsSpec
=============================================================================
