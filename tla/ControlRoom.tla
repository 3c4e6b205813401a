---------------------------- MODULE ControlRoom ----------------------------
(***************************************************************************)
(* The simulation page (useSimControl.ts, the reducer of lib/sim.ts and    *)
(* its socket) against the engine's ticks: device diffs with a sequence    *)
(* number over the socket, whole snapshots when it joins and over HTTP,    *)
(* runs that this tab or another one starts.  The engine's inside is       *)
(* SimEngine's; here it changes devices and emits.                         *)
(***************************************************************************)
EXTENDS Integers, Sequences

CONSTANTS
  VDevice,      \* virtual devices of a run
  MaxSimRuns,   \* bound: runs
  MaxChanges,   \* bound: changes of one device in a run
  MaxSeq,       \* bound: ticks of a run before its last two
  MaxWire,      \* bound: ticks under way to the page
  MaxCuts,      \* bound: disconnections
  Prompt        \* an answer over HTTP arrives before its run ends

ASSUME ControlRoomAssumption ==
  /\ {MaxSimRuns, MaxChanges, MaxSeq, MaxWire, MaxCuts} \subseteq Nat
  /\ Prompt \in BOOLEAN

VARIABLES
  engine,     \* SimEngine: phase, seq, its devices, the dirty ones, whether a run was ever
              \* set up, the summary, whether a failed start is being torn down
  runs,       \* runs begun
  view,       \* SimState of the page, and whether a late snapshot has set it back
  wire,       \* what is under way on the page's socket, in order; not connected: NotConnected
  answer,     \* a snapshot under way over HTTP, or why there is none
  cuts        \* disconnections so far

simVars == <<engine, runs, view, wire, answer, cuts>>

(* The state of a device is represented by how often it changed in the run. *)
Untouched == [d \in VDevice |-> 0]
Down == [kind |-> "down"]
NoAnswer == [kind |-> "none"]
Asked == [kind |-> "asked"]       \* GET /lab/sim/state is under way to the server
Starting == [kind |-> "starting"] \* POST /lab/sim/start is not answered yet

Connected == wire # <<Down>>
ToPage(messages) == wire' = IF Connected THEN wire \o messages ELSE wire

EmptyView == [seq |-> 0, phase |-> "IDLE", devices |-> Untouched, known |-> FALSE,
              named |-> FALSE, summary |-> FALSE, sent |-> Untouched, late |-> FALSE]

SimInit ==
  /\ engine = [phase |-> "IDLE", seq |-> 0, devices |-> Untouched, dirty |-> {},
               begun |-> FALSE, summary |-> FALSE, closing |-> FALSE]
  /\ runs = 0 /\ view = EmptyView /\ wire = <<Down>> /\ answer = NoAnswer /\ cuts = 0
-----------------------------------------------------------------------------
(* buildTick: diffs of the dirty devices, or of all; `sent' is what the    *)
(* devices were like, which a tick of diffs does not carry.                *)
TickOf(e, full) ==
  [kind |-> "tick", seq |-> e.seq + 1, phase |-> e.phase, sent |-> e.devices,
   begun |-> e.begun, diffs |-> IF full THEN VDevice ELSE e.dirty]
Ticked(e) == [e EXCEPT !.seq = @ + 1, !.dirty = {}]

(* snapshot(): all devices, at the number of the last tick; before the     *)
(* first run there are none.                                               *)
SnapshotOf(e) == [kind |-> "snapshot", seq |-> e.seq, phase |-> e.phase, sent |-> e.devices,
                  begun |-> e.begun, summary |-> e.summary]

(* A snapshot on its way as an HTTP answer: see Prompt. *)
MayEnd == Prompt => answer.kind # "snapshot"

(* start, by this tab or by another.  What starts that overlap the end of  *)
(* an earlier one do to the engine is SimEngine's.                         *)
Begin(mine) ==
  /\ engine.phase \in {"IDLE", "DONE"} /\ ~engine.closing /\ runs < MaxSimRuns
  /\ mine => Connected /\ view.phase \in {"IDLE", "DONE"} /\ answer = NoAnswer
  /\ runs' = runs + 1
  /\ engine' = [engine EXCEPT !.phase = "STARTING"]
  /\ answer' = IF mine THEN Starting ELSE answer
  /\ UNCHANGED <<view, wire, cuts>>

(* setup: the first tick is whole, and the starter's answer a snapshot. *)
SetUp ==
  /\ engine.phase = "STARTING" /\ MayEnd
  /\ LET e == [phase |-> "RUNNING", seq |-> 0, devices |-> Untouched, dirty |-> {},
               begun |-> TRUE, summary |-> FALSE, closing |-> FALSE]
     IN /\ engine' = Ticked(e)
        /\ ToPage(<<TickOf(e, TRUE)>>)
        /\ answer' = IF answer = Starting THEN SnapshotOf(Ticked(e)) ELSE answer
  /\ UNCHANGED <<runs, view, cuts>>

(* start's catch, for the tab that asked: 409, or what went wrong. *)
Refused == answer' = IF answer = Starting THEN NoAnswer ELSE answer

(* The lab lock is taken: IDLE again, and nobody is told. *)
LabBusy ==
  /\ engine.phase = "STARTING"
  /\ engine' = [engine EXCEPT !.phase = "IDLE"]
  /\ Refused
  /\ UNCHANGED <<runs, view, wire, cuts>>

(* setup fails after it reset the sequence: teardown's tick says STOPPING, *)
(* start's catch says IDLE, and teardown goes on if it knows accounts.     *)
StartFails ==
  /\ engine.phase = "STARTING" /\ MayEnd
  /\ LET e == [engine EXCEPT !.phase = "STOPPING", !.seq = 0, !.summary = FALSE,
                             !.closing = engine.begun]
     IN engine' = [Ticked(e) EXCEPT !.phase = "IDLE"] /\ ToPage(<<TickOf(e, TRUE)>>)
  /\ Refused
  /\ UNCHANGED <<runs, view, cuts>>

(* setState. *)
Change(d) ==
  /\ engine.phase \in {"RUNNING", "STOPPING"} /\ engine.devices[d] < MaxChanges
  /\ engine' = [engine EXCEPT !.devices[d] = @ + 1, !.dirty = @ \cup {d}]
  /\ UNCHANGED <<runs, view, wire, answer, cuts>>

EmitTick ==
  /\ engine.phase = "RUNNING" /\ engine.seq < MaxSeq /\ Len(wire) < MaxWire
  /\ engine' = Ticked(engine)
  /\ ToPage(<<TickOf(engine, FALSE)>>)
  /\ UNCHANGED <<runs, view, answer, cuts>>

(* teardown: STOPPING, with a tick of everything ... *)
StopRun ==
  /\ engine.phase = "RUNNING"
  /\ LET e == [engine EXCEPT !.phase = "STOPPING"]
     IN engine' = Ticked(e) /\ ToPage(<<TickOf(e, TRUE)>>)
  /\ UNCHANGED <<runs, view, answer, cuts>>

Closing == engine.phase = "STOPPING" \/ engine.closing
Closed(e) == [e EXCEPT !.phase = "DONE", !.summary = TRUE, !.closing = FALSE]

(* Faulty: the last tick is emitted before the phase is DONE. *)
LastTickEarly ==
  /\ Closing /\ MayEnd
  /\ engine' = Closed(Ticked(engine))
  /\ ToPage(<<TickOf(engine, TRUE), [kind |-> "done"]>>)
  /\ UNCHANGED <<runs, view, answer, cuts>>

(* ... and DONE, with the summary and another. *)
FinishRun ==
  /\ Closing /\ MayEnd
  /\ engine' = Ticked(Closed(engine))
  /\ ToPage(<<[kind |-> "done"], TickOf(Closed(engine), TRUE)>>)
  /\ UNCHANGED <<runs, view, answer, cuts>>
-----------------------------------------------------------------------------
(* Faulty: the page joins the room and does not use the snapshot. *)
JoinOnly ==
  /\ ~Connected
  /\ wire' = <<>>
  /\ UNCHANGED <<engine, runs, view, answer, cuts>>

(* connect, join_sim: the server joins the room and acknowledges with a    *)
(* snapshot, which comes before every later tick.                          *)
JoinSim ==
  /\ ~Connected
  /\ wire' = <<SnapshotOf(engine)>>
  /\ UNCHANGED <<engine, runs, view, answer, cuts>>

Cut ==
  /\ Connected /\ cuts < MaxCuts
  /\ wire' = <<Down>> /\ cuts' = cuts + 1
  /\ UNCHANGED <<engine, runs, view, answer>>

(* simReducer, a snapshot: the page shows it and nothing else. *)
Shown(s) ==
  [seq |-> s.seq, phase |-> s.phase, devices |-> s.sent, known |-> s.begun,
   named |-> s.begun, summary |-> s.summary, sent |-> s.sent, late |-> FALSE]

(* A tick: number 1 starts clean (the names stay), and a number that is    *)
(* not higher is dropped.                                                  *)
Fresh(v) == [EmptyView EXCEPT !.named = v.named]
Merged(v, t) ==
  LET base == IF t.seq = 1 THEN Fresh(v) ELSE v IN
  IF t.seq # 1 /\ t.seq <= v.seq THEN v
  ELSE [base EXCEPT !.seq = t.seq, !.phase = t.phase, !.known = t.begun, !.sent = t.sent,
                    !.devices = [d \in VDevice |-> IF d \in t.diffs THEN t.sent[d] ELSE base.devices[d]],
                    !.late = base.late /\ t.diffs # VDevice]

Handled(m) ==
  CASE m.kind = "snapshot" -> Shown(m)
    [] m.kind = "tick" -> Merged(view, m)
    [] m.kind = "done" -> [view EXCEPT !.summary = TRUE]

(* The effect in useSimControl: households without names, so the whole     *)
(* state is fetched.                                                       *)
Nameless(v) == v.known /\ ~v.named
Fetching(v) == IF Nameless(v) /\ ~Nameless(view) /\ answer = NoAnswer THEN Asked ELSE answer

Receive ==
  /\ Connected /\ wire # <<>>
  /\ view' = Handled(Head(wire)) /\ wire' = Tail(wire)
  /\ answer' = Fetching(view')
  /\ UNCHANGED <<engine, runs, cuts>>

(* GET /lab/sim/state *)
ServeState ==
  /\ answer = Asked /\ answer' = SnapshotOf(engine)
  /\ UNCHANGED <<engine, runs, view, wire, cuts>>

(* The answer of a start or a fetch is shown when it comes.  It is out of  *)
(* step when the socket was quicker, or still has to deliver its run.      *)
OutOfStep == answer.seq < view.seq \/ \E k \in DOMAIN wire : wire[k].kind = "tick" /\ wire[k].seq = 1

ShowAnswer ==
  /\ answer.kind = "snapshot"
  /\ view' = [Shown(answer) EXCEPT !.late = OutOfStep]
  /\ answer' = NoAnswer
  /\ UNCHANGED <<engine, runs, wire, cuts>>

AnswerLost ==
  /\ answer # NoAnswer /\ answer' = NoAnswer
  /\ UNCHANGED <<engine, runs, view, wire, cuts>>

ServerSteps ==
  \/ \E mine \in BOOLEAN : Begin(mine)
  \/ SetUp \/ LabBusy \/ StartFails
  \/ \E d \in VDevice : Change(d)
  \/ EmitTick \/ StopRun \/ FinishRun
PageSteps == JoinSim \/ Receive \/ ServeState \/ ShowAnswer
SimPageNext == ServerSteps \/ PageSteps \/ Cut \/ AnswerLost

SimPageSpec == SimInit /\ [][SimPageNext]_simVars
-----------------------------------------------------------------------------
(* "device diffs only; seq guarded on the client": a page that shows tick  *)
(* n shows every device at least as new as the engine had it at tick n,    *)
(* whatever was dropped or came twice, until a snapshot over HTTP is       *)
(* overtaken by the ticks after it.                                        *)
NotBehind == ~view.late => \A d \in VDevice : view.devices[d] >= view.sent[d]

(* "two tabs stay in sync via the sim room": a run that is over is shown   *)
(* over, with its summary and every device as it is, by every open page.   *)
ShowsTheEnd == view.phase = "DONE" /\ view.summary /\ view.devices = engine.devices
OverIsShown == (engine.phase = "DONE") ~> (engine.phase # "DONE" \/ ShowsTheEnd)
=============================================================================
