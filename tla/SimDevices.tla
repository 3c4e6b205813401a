---------------------------- MODULE SimDevices ----------------------------
(***************************************************************************)
(* The simulator's crowd (server/src/lab/sim): the virtual devices of one  *)
(* household, the presses, heartbeats and releases they have under way,    *)
(* the expire sweep and the repair, all against one account of the         *)
(* database.  Every call of a device is three steps, because its handler   *)
(* goes on with what it knew: it is sent, the database does it, and the    *)
(* answer is handled.  The claim itself is one step here (the strategy     *)
(* modules are about its inside), guarded by the limit unless it is NAIVE. *)
(***************************************************************************)
EXTENDS Integers, FiniteSets

CONSTANTS
  Device,        \* virtual devices of the household
  NoDevice,      \* none of them
  Pressing,      \* names for presses under way
  MaxSession,    \* bound: session rows ever inserted
  MaxStreams,    \* cfg.maxStreams
  Strategies,    \* cfg.strategy values of the run: "NAIVE", "PESSIMISTIC"
  Policy,        \* cfg.policy: "REJECT", "TAKEOVER" or "ASK"
  OfflineToo     \* cfg.offlinePct > 0: a granted device may fall asleep

ASSUME CrowdAssumption ==
  /\ NoDevice \notin Device /\ IsFiniteSet(Device) /\ IsFiniteSet(Pressing)
  /\ MaxSession \in Nat /\ MaxStreams \in Nat \ {0}
  /\ Strategies \subseteq {"NAIVE", "PESSIMISTIC"} /\ Strategies # {}
  /\ Policy \in {"REJECT", "TAKEOVER", "ASK"}
  /\ OfflineToo \in BOOLEAN

Sid == 1..MaxSession
NoSession == 0
(* LAPSED is PLAYING with lease_expires_at in the past. *)
Row == {"NONE", "PLAYING", "LAPSED", "ENDED", "PREEMPTED", "EXPIRED", "DELETED"}

VARIABLES
  dev,        \* device -> its VDevice: state, sessionId, song over, call that keeps it busy
  bySession,  \* session -> the device it belongs to, if any
  press,      \* the presses under way
  inFlight,   \* presses the engine believes are under way
  strategy,   \* cfg.strategy
  swept,      \* sessions a sweep has expired and not yet told the devices
  repaired,   \* the same of a repair
  row,        \* session -> status of its row
  owner       \* session -> device of its row

deviceVars == <<dev, bySession, press, inFlight, strategy>>
upkeepVars == <<swept, repaired>>
rowVars == <<row, owner>>
crowdVars == <<deviceVars, upkeepVars, rowVars>>

NoCall == [kind |-> "none", session |-> NoSession, result |-> "none"]
NewDevice == [state |-> "IDLE", session |-> NoSession, over |-> FALSE, call |-> NoCall]
NoPress == [device |-> NoDevice, strategy |-> "NAIVE", takeover |-> FALSE,
            outcome |-> "none", session |-> NoSession, preempted |-> {}, fresh |-> FALSE]

Playing == {s \in Sid : row[s] = "PLAYING"}
OpenRows == {s \in Sid : row[s] \in {"PLAYING", "LAPSED"}}
Busy(d) == dev[d].call # NoCall

CrowdInit ==
  /\ dev = [d \in Device |-> NewDevice]
  /\ bySession = [s \in Sid |-> NoDevice]
  /\ press = [p \in Pressing |-> NoPress]
  /\ inFlight = 0
  /\ strategy \in Strategies
  /\ swept = {} /\ repaired = {}
  /\ row = [s \in Sid |-> "NONE"]
  /\ owner = [s \in Sid |-> NoDevice]

(* setState with the device's session forgotten, as every handler that     *)
(* takes a session away from a device does.                                *)
Without(d, state) == [dev[d] EXCEPT !.state = state, !.session = NoSession, !.over = FALSE]
Forget(s) == [bySession EXCEPT ![s] = NoDevice]
-----------------------------------------------------------------------------
(* press: an IDLE device starts a claim with the protection of the moment. *)
Press(d, p) ==
  /\ dev[d].state = "IDLE" /\ press[p] = NoPress
  /\ dev' = [dev EXCEPT ![d].state = "PRESSING"]
  /\ press' = [press EXCEPT ![p] =
       [NoPress EXCEPT !.device = d, !.strategy = strategy, !.fresh = TRUE,
                       !.takeover = (Policy = "TAKEOVER")]]
  /\ inFlight' = inFlight + 1
  /\ UNCHANGED <<bySession, strategy, upkeepVars, rowVars>>

Rivals(p) == {s \in Playing : owner[s] # press[p].device}
Room(p) == Cardinality(Rivals(p)) < MaxStreams

(* The sessions a TAKEOVER stops: the oldest, as many as make room. *)
Victims(p) == {V \in SUBSET Rivals(p) :
  /\ Cardinality(V) = IF Room(p) THEN 0 ELSE Cardinality(Rivals(p)) - MaxStreams + 1
  /\ \A s \in V, t \in Rivals(p) \ V : s < t}

(* The row of a grant: the device's own open session ends. *)
InsertRow(p, V, s) ==
  /\ s \in Sid /\ row[s] = "NONE" /\ \A t \in Sid : t < s => row[t] # "NONE"
  /\ row' = [t \in Sid |-> IF t = s THEN "PLAYING" ELSE IF t \in V THEN "PREEMPTED"
                           ELSE IF t \in OpenRows /\ owner[t] = press[p].device THEN "ENDED"
                           ELSE row[t]]
  /\ owner' = [owner EXCEPT ![s] = press[p].device]

Unanswered(p) == press[p] # NoPress /\ press[p].outcome = "none"

(* executeClaim grants.  NAIVE counted before others inserted. *)
ClaimGranted(p) ==
  /\ Unanswered(p)
  /\ Room(p) \/ press[p].takeover \/ press[p].strategy = "NAIVE"
  /\ \E s \in Sid, V \in (IF press[p].takeover THEN Victims(p) ELSE {{}}) :
       /\ InsertRow(p, V, s)
       /\ press' = [press EXCEPT ![p] = [@ EXCEPT !.outcome = "GRANTED", !.session = s, !.preempted = V]]
  /\ UNCHANGED <<dev, bySession, inFlight, strategy, upkeepVars>>

(* It rejects.  Under ASK the user may want to take over: a second claim. *)
ClaimRejected(p) ==
  /\ Unanswered(p) /\ ~Room(p) /\ ~press[p].takeover
  /\ press' \in {[press EXCEPT ![p].outcome = "REJECTED"]} \cup
       IF Policy = "ASK" THEN {[press EXCEPT ![p].takeover = TRUE]} ELSE {}
  /\ UNCHANGED <<dev, bySession, inFlight, strategy, upkeepVars, rowVars>>

(* It gives up or meets the injected fault; NAIVE leaves the row behind. *)
ClaimFailed(p) ==
  /\ Unanswered(p)
  /\ press' = [press EXCEPT ![p].outcome = "FAILED"]
  /\ \/ UNCHANGED rowVars
     \/ /\ press[p].strategy = "NAIVE"
        /\ \E s \in Sid : InsertRow(p, {}, s)
  /\ UNCHANGED <<dev, bySession, inFlight, strategy, upkeepVars>>

(* What onGranted does to the devices: the presser plays (or sleeps), and  *)
(* the devices it knows to hold a preempted session learn of it.           *)
Hit(p) == {bySession[s] : s \in press[p].preempted} \ {NoDevice}
Granted(p, state) ==
  /\ dev' = [d \in Device |->
       IF d \in Hit(p) THEN Without(d, "MOVED")
       ELSE IF d = press[p].device
         THEN [dev[d] EXCEPT !.state = state, !.session = press[p].session, !.over = FALSE]
       ELSE dev[d]]
  /\ bySession' = [s \in Sid |-> IF s \in press[p].preempted THEN NoDevice
                                 ELSE IF s = press[p].session THEN press[p].device
                                 ELSE bySession[s]]

(* The press goes on after its claim and the network lag; its device may   *)
(* be one of an earlier run, which is in no grid any more.                 *)
PressAnswered(p) ==
  /\ press[p] # NoPress /\ press[p].outcome # "none"
  /\ press' = [press EXCEPT ![p] = NoPress]
  /\ inFlight' = inFlight - 1
  /\ \/ ~press[p].fresh /\ UNCHANGED <<dev, bySession>>
     \/ /\ press[p].fresh /\ press[p].outcome = "GRANTED"
        /\ \E state \in {"PLAYING"} \cup IF OfflineToo THEN {"OFFLINE"} ELSE {} : Granted(p, state)
     \/ /\ press[p].fresh /\ press[p].outcome # "GRANTED"
        /\ dev' = [dev EXCEPT ![press[p].device].state = press[p].outcome]
        /\ UNCHANGED bySession
  /\ UNCHANGED <<strategy, upkeepVars, rowVars>>
-----------------------------------------------------------------------------
(* listenEndsAt passes. *)
SongOver(d) ==
  /\ dev[d].state = "PLAYING" /\ ~dev[d].over
  /\ dev' = [dev EXCEPT ![d].over = TRUE]
  /\ UNCHANGED <<bySession, press, inFlight, strategy, upkeepVars, rowVars>>

(* stepDevices: a heartbeat is due, or the song is over. *)
Call(d, kind) ==
  /\ dev[d].state = "PLAYING" /\ ~Busy(d) /\ dev[d].session # NoSession
  /\ dev' = [dev EXCEPT ![d].call = [kind |-> kind, session |-> dev[d].session, result |-> "none"]]
  /\ UNCHANGED <<bySession, press, inFlight, strategy, upkeepVars, rowVars>>
Beat(d) == ~dev[d].over /\ Call(d, "heartbeat")
Finish(d) == dev[d].over /\ Call(d, "release")

(* heartbeat and release are fenced: the session is PLAYING and its lease  *)
(* is not over; otherwise the answer is SessionLostError with the reason.  *)
CallServed(d) ==
  /\ Busy(d) /\ dev[d].call.result = "none"
  /\ LET s == dev[d].call.session IN
       \/ /\ row[s] = "PLAYING"
          /\ dev' = [dev EXCEPT ![d].call.result = "ok"]
          /\ row' = IF dev[d].call.kind = "release" THEN [row EXCEPT ![s] = "ENDED"] ELSE row
       \/ /\ row[s] # "PLAYING"
          /\ dev' = [dev EXCEPT ![d].call.result = IF row[s] = "PREEMPTED" THEN "PREEMPTED" ELSE "lost"]
          /\ UNCHANGED row
  /\ UNCHANGED <<bySession, press, inFlight, strategy, upkeepVars, owner>>

(* Faulty: an error that is no SessionLostError leaves the device busy. *)
CallFailsBusy(d) ==
  /\ Busy(d) /\ dev[d].call.result = "none"
  /\ dev' = [dev EXCEPT ![d].call.result = "failed"]
  /\ UNCHANGED <<bySession, press, inFlight, strategy, upkeepVars, rowVars>>

(* The statement fails otherwise: the device tries again later. *)
CallFails(d) ==
  /\ Busy(d) /\ dev[d].call.result = "none"
  /\ dev' = [dev EXCEPT ![d].call = NoCall]
  /\ UNCHANGED <<bySession, press, inFlight, strategy, upkeepVars, rowVars>>

(* The answer is handled: a finished song makes the device IDLE, and lost  *)
(* takes whatever session the device holds by now.                         *)
CallAnswered(d) ==
  /\ Busy(d) /\ dev[d].call.result # "none"
  /\ LET c == dev[d].call
         idle(state) == [Without(d, state) EXCEPT !.call = NoCall]
     IN \/ /\ c.result = "ok" /\ c.kind = "heartbeat"
           /\ dev' = [dev EXCEPT ![d].call = NoCall] /\ UNCHANGED bySession
        \/ /\ c.result = "ok" /\ c.kind = "release"
           /\ dev' = [dev EXCEPT ![d] = idle("IDLE")] /\ bySession' = Forget(c.session)
        \/ /\ c.result \in {"lost", "PREEMPTED"}
           /\ dev' = [dev EXCEPT ![d] = idle(IF c.result = "lost" THEN "IDLE" ELSE "MOVED")]
           /\ bySession' = IF dev[d].session = NoSession THEN bySession ELSE Forget(dev[d].session)
  /\ UNCHANGED <<press, inFlight, strategy, upkeepVars, rowVars>>

(* stepDevices: a refused device tries again after COOL_MS, and a sleeping *)
(* one that lost its session is IDLE again.                                *)
CoolDown(d) ==
  /\ \/ dev[d].state \in {"REJECTED", "FAILED", "MOVED"}
     \/ dev[d].state = "OFFLINE" /\ dev[d].session = NoSession
  /\ dev' = [dev EXCEPT ![d].state = "IDLE"]
  /\ UNCHANGED <<bySession, press, inFlight, strategy, upkeepVars, rowVars>>
(* Faulty: the device loses its session and goes on playing. *)
TellKeepsPlaying(S) ==
  /\ dev' = [d \in Device |->
       IF \E s \in S : bySession[s] = d THEN [dev[d] EXCEPT !.session = NoSession] ELSE dev[d]]
  /\ bySession' = [s \in Sid |-> IF s \in S THEN NoDevice ELSE bySession[s]]

(* Devices of sessions that a sweep or a repair ended become IDLE. *)
Tell(S) ==
  /\ dev' = [d \in Device |->
       IF \E s \in S : bySession[s] = d THEN Without(d, "IDLE") ELSE dev[d]]
  /\ bySession' = [s \in Sid |-> IF s \in S THEN NoDevice ELSE bySession[s]]

(* sweep: reapAccount expires what lapsed ... *)
Sweep ==
  /\ swept = {} /\ OpenRows # Playing
  /\ swept' = OpenRows \ Playing
  /\ row' = [s \in Sid |-> IF row[s] = "LAPSED" THEN "EXPIRED" ELSE row[s]]
  /\ UNCHANGED <<deviceVars, repaired, owner>>

(* Faulty: `sweeping' is not reset when the sweep is over. *)
SweepToldOnce ==
  /\ swept # {} /\ Tell(swept)
  /\ UNCHANGED <<press, inFlight, strategy, swept, repaired, rowVars>>

(* ... and its answer reaches the devices. *)
SweepTold ==
  /\ swept # {} /\ Tell(swept) /\ swept' = {}
  /\ UNCHANGED <<press, inFlight, strategy, repaired, rowVars>>

(* repairAccount ends the newest sessions beyond the limit ... *)
Repair ==
  /\ repaired = {} /\ Cardinality(Playing) > MaxStreams
  /\ \E V \in SUBSET Playing :
       /\ Cardinality(V) = Cardinality(Playing) - MaxStreams
       /\ \A s \in V, t \in Playing \ V : s > t
       /\ repaired' = V
       /\ row' = [s \in Sid |-> IF s \in V THEN "ENDED" ELSE row[s]]
  /\ UNCHANGED <<deviceVars, swept, owner>>

(* ... and repair() tells their devices. *)
RepairTold ==
  /\ repaired # {} /\ Tell(repaired) /\ repaired' = {}
  /\ UNCHANGED <<press, inFlight, strategy, swept, rowVars>>

(* patch({ strategy }) while the run is on. *)
Patch(to) ==
  /\ to \in Strategies \ {strategy} /\ strategy' = to
  /\ UNCHANGED <<dev, bySession, press, inFlight, upkeepVars, rowVars>>

(* A lease that nobody extends runs out, and a heartbeat may come too      *)
(* late.  A lease (5 s or more) outlives the answer that brings it (lag of *)
(* at most 500 ms).                                                        *)
Lapse(s) ==
  /\ row[s] = "PLAYING" /\ \A p \in Pressing : press[p].session # s
  /\ row' = [row EXCEPT ![s] = "LAPSED"]
  /\ UNCHANGED <<deviceVars, upkeepVars, owner>>

(* What goes on in the database and on the network whatever the phase. *)
CrowdStep ==
  \/ \E p \in Pressing : ClaimGranted(p) \/ ClaimRejected(p) \/ ClaimFailed(p) \/ PressAnswered(p)
  \/ \E d \in Device : CallServed(d) \/ CallFails(d) \/ CallAnswered(d)
  \/ SweepTold \/ RepairTold
  \/ \E s \in Sid : Lapse(s)

(* What the engine's loop does. *)
LoopStep ==
  \/ \E d \in Device : SongOver(d) \/ Beat(d) \/ Finish(d) \/ CoolDown(d)
  \/ Sweep
-----------------------------------------------------------------------------
(* finish and beat return at once when the device has no session: a device *)
(* that plays without one would play for ever, so there is none, however   *)
(* late answers, sweeps, repairs and preemptions cross.                    *)
PlayingHasSession ==
  \A d \in Device : dev[d].state = "PLAYING" => dev[d].session # NoSession
=============================================================================
