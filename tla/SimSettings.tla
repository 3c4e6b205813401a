---------------------------- MODULE SimSettings ----------------------------
(***************************************************************************)
(* The conditions of a simulation (config.ts, SimEngine.patch): the page   *)
(* edits a draft while nothing runs and changes the live fields of a run   *)
(* through one timer; another tab or client does the same.  The run itself *)
(* is SimEngine's, the ticks are ControlRoom's.                            *)
(***************************************************************************)
EXTENDS Naturals

CONSTANTS
  MaxChosen,    \* bound: settings chosen
  MaxStarts,    \* bound: runs
  PrepareEnds   \* an index or a trigger is prepared before the next run is set up

ASSUME SettingsAssumption == MaxChosen \in Nat /\ MaxStarts \in Nat /\ PrepareEnds \in BOOLEAN

VARIABLES
  simRun,       \* SimEngine: phase, cfg, and what start was asked for
  heard,        \* phase and cfg of the page's last tick or snapshot
  draft,        \* the page's own cfg
  patchTimer,   \* the change that waits for its 250 ms
  patches,      \* PATCH requests under way to the server
  preparing,    \* those whose strategy is being prepared
  choice,       \* field -> what was last chosen for it in the run, if it has to take effect
  picks, starts

settingsVars == <<simRun, heard, draft, patchTimer, patches, preparing, choice, picks, starts>>

(* maxStreams stands for the fields that need a restart. *)
Values == [strategy |-> {"NAIVE", "CONSTRAINT"}, ratePerSec |-> {2, 4}, maxStreams |-> {1, 2}]
Fields == DOMAIN Values
LiveFields == {"strategy", "ratePerSec"}
Config == [strategy : Values.strategy, ratePerSec : Values.ratePerSec, maxStreams : Values.maxStreams]
DefaultConfig == [strategy |-> "NAIVE", ratePerSec |-> 2, maxStreams |-> 1]
Presets == {DefaultConfig, [DefaultConfig EXCEPT !.ratePerSec = 4, !.maxStreams = 2]}

NoPatch == [field |-> "none"]
Unchosen == [f \in Fields |-> {}]

(* assertStrategyFits: "only supports one screen per household". *)
StrategyFits(c) == c.maxStreams > 1 => c.strategy # "CONSTRAINT"

SettingsInit ==
  /\ simRun = [phase |-> "DONE", cfg |-> DefaultConfig, asked |-> DefaultConfig]
  /\ heard = [phase |-> "DONE", cfg |-> DefaultConfig]
  /\ draft = DefaultConfig /\ patchTimer = NoPatch
  /\ patches = {} /\ preparing = {} /\ choice = Unchosen /\ picks = 0 /\ starts = 0
-----------------------------------------------------------------------------
PageRuns == heard.phase # "DONE"
ShownConfig == IF PageRuns THEN heard.cfg ELSE draft

(* What the controls offer: CONSTRAINT for one screen only, and the fields *)
(* that need a restart while nothing runs.                                 *)
Offered(f, v) ==
  /\ v \in Values[f] /\ v # ShownConfig[f]
  /\ f = "strategy" /\ v = "CONSTRAINT" => ShownConfig.maxStreams = 1
  /\ PageRuns => f \in LiveFields

Forgotten(p) == IF p = NoPatch THEN choice ELSE [choice EXCEPT ![p.field] = @ \ {p.value}]

(* set, while a run is shown: the timer is shared, so a change of another  *)
(* field that still waits in it is never sent.                             *)
SetLive(f, v) ==
  /\ PageRuns /\ Offered(f, v) /\ picks < MaxChosen
  /\ draft' = [draft EXCEPT ![f] = v]
  /\ patchTimer' = [field |-> f, value |-> v, n |-> picks]
  /\ choice' = [Forgotten(patchTimer) EXCEPT ![f] = {v}]
  /\ picks' = picks + 1
  /\ UNCHANGED <<simRun, heard, patches, preparing, starts>>

SetDraft(f, v) ==
  /\ ~PageRuns /\ Offered(f, v) /\ picks < MaxChosen
  /\ draft' = [draft EXCEPT ![f] = v]
  /\ picks' = picks + 1
  /\ UNCHANGED <<simRun, heard, patchTimer, patches, preparing, choice, starts>>

PickPreset(c) ==
  /\ ~PageRuns /\ draft # c /\ picks < MaxChosen
  /\ draft' = c /\ picks' = picks + 1
  /\ UNCHANGED <<simRun, heard, patchTimer, patches, preparing, choice, starts>>

(* Two changes of one field under way at once may arrive, or be prepared,  *)
(* in either order: neither has to be the one that stays.                  *)
Crossed(f) == \E q \in patches \cup preparing : q.field = f

PatchSent ==
  /\ patchTimer # NoPatch
  /\ patches' = patches \cup {patchTimer} /\ patchTimer' = NoPatch
  /\ choice' = IF Crossed(patchTimer.field) THEN [choice EXCEPT ![patchTimer.field] = {}] ELSE choice
  /\ UNCHANGED <<simRun, heard, draft, preparing, picks, starts>>

(* Another tab, whose view may be behind, or any other client. *)
OtherSends(f, v) ==
  /\ picks < MaxChosen /\ starts > 0
  /\ patches' = patches \cup {[field |-> f, value |-> v, n |-> picks]}
  /\ choice' = [choice EXCEPT ![f] = IF Crossed(f) \/ patchTimer.field = f THEN {} ELSE {v}]
  /\ picks' = picks + 1
  /\ UNCHANGED <<simRun, heard, draft, patchTimer, preparing, starts>>

LosePatch(p) ==
  /\ p \in patches /\ patches' = patches \ {p} /\ choice' = Forgotten(p)
  /\ UNCHANGED <<simRun, heard, draft, patchTimer, preparing, picks, starts>>
-----------------------------------------------------------------------------
(* Faulty: the schema's defaults stand for the fields that were not sent. *)
PatchedOverDefaults(c, p) == [DefaultConfig EXCEPT ![p.field] = p.value]

(* { ...this.cfg, ...patch } *)
Patched(c, p) == [c EXCEPT ![p.field] = p.value]


(* 409 NOT_RUNNING, "cannot change ... while a run is in progress", and a  *)
(* strategy that does not fit the run's limit.                             *)
Acceptable(p) ==
  /\ simRun.phase = "RUNNING" /\ p.field \in LiveFields
  /\ p.field = "strategy" /\ p.value # simRun.cfg.strategy => StrategyFits(Patched(simRun.cfg, p))
NeedsPrepare(p) == p.field = "strategy" /\ p.value # simRun.cfg.strategy

Refuse(p) ==
  /\ p \in patches /\ ~Acceptable(p)
  /\ patches' = patches \ {p} /\ choice' = Forgotten(p)
  /\ UNCHANGED <<simRun, heard, draft, patchTimer, preparing, picks, starts>>

Apply(p) ==
  /\ p \in patches /\ Acceptable(p) /\ ~NeedsPrepare(p)
  /\ patches' = patches \ {p}
  /\ simRun' = [simRun EXCEPT !.cfg = Patched(@, p)]
  /\ UNCHANGED <<heard, draft, patchTimer, preparing, choice, picks, starts>>

(* prepareForStrategy is awaited; nothing is looked at again after it. *)
Prepare(p) ==
  /\ p \in patches /\ Acceptable(p) /\ NeedsPrepare(p)
  /\ patches' = patches \ {p} /\ preparing' = preparing \cup {p}
  /\ UNCHANGED <<simRun, heard, draft, patchTimer, choice, picks, starts>>

ApplyPrepared(p) ==
  /\ p \in preparing /\ preparing' = preparing \ {p}
  /\ simRun' = [simRun EXCEPT !.cfg = Patched(@, p)]
  /\ UNCHANGED <<heard, draft, patchTimer, patches, choice, picks, starts>>

(* A unique index on slots that two sessions share, for example. *)
PrepareFails(p) ==
  /\ p \in preparing /\ preparing' = preparing \ {p} /\ choice' = Forgotten(p)
  /\ UNCHANGED <<simRun, heard, draft, patchTimer, patches, picks, starts>>
-----------------------------------------------------------------------------
(* start, by the page with its draft or by another client: parseConfig. *)
StartWith(c) ==
  /\ simRun.phase = "DONE" /\ starts < MaxStarts /\ StrategyFits(c)
  /\ simRun' = [simRun EXCEPT !.phase = "STARTING", !.asked = c]
  /\ starts' = starts + 1
  /\ UNCHANGED <<heard, draft, patchTimer, patches, preparing, choice, picks>>

StartShown == ~PageRuns /\ StartWith(draft)

(* setup, or the lab lock is taken. *)
SettingsSetUp ==
  /\ simRun.phase = "STARTING" /\ (PrepareEnds => preparing = {})
  /\ simRun' = [simRun EXCEPT !.phase = "RUNNING", !.cfg = simRun.asked]
  /\ choice' = Unchosen
  /\ UNCHANGED <<heard, draft, patchTimer, patches, preparing, picks, starts>>
StartRefused ==
  /\ simRun.phase = "STARTING"
  /\ simRun' = [simRun EXCEPT !.phase = "DONE"]
  /\ UNCHANGED <<heard, draft, patchTimer, patches, preparing, choice, picks, starts>>

RunEnds ==
  /\ simRun.phase \in {"RUNNING", "STOPPING"}
  /\ simRun' = [simRun EXCEPT !.phase = IF @ = "RUNNING" THEN "STOPPING" ELSE "DONE"]
  /\ UNCHANGED <<heard, draft, patchTimer, patches, preparing, choice, picks, starts>>

(* A tick or a snapshot carries the phase and the configuration. *)
HearConfig ==
  /\ heard' = [phase |-> simRun.phase, cfg |-> simRun.cfg] /\ heard' # heard
  /\ UNCHANGED <<simRun, draft, patchTimer, patches, preparing, choice, picks, starts>>

SettingsNext ==
  \/ \E f \in Fields : \E v \in Values[f] : SetLive(f, v) \/ SetDraft(f, v) \/ OtherSends(f, v)
  \/ \E c \in Presets : PickPreset(c)
  \/ PatchSent
  \/ \E p \in patches : LosePatch(p) \/ Refuse(p) \/ Apply(p) \/ Prepare(p)
  \/ \E p \in preparing : ApplyPrepared(p) \/ PrepareFails(p)
  \/ StartShown \/ \E c \in Config : StartWith(c)
  \/ SettingsSetUp \/ StartRefused \/ RunEnds \/ HearConfig

SettingsSpec == SettingsInit /\ [][SettingsNext]_settingsVars
-----------------------------------------------------------------------------
(* "Live: change it mid-run and watch what happens": once no change is     *)
(* under way the run goes by the last one chosen for each field, unless it *)
(* was refused, lost or replaced in the timer or crossed another; and its  *)
(* strategy always fits the number of screens it was started with.         *)
SettingsTake ==
  simRun.phase = "RUNNING" =>
    /\ StrategyFits(simRun.cfg)
    /\ patchTimer = NoPatch /\ patches = {} /\ preparing = {} =>
         \A f \in LiveFields : choice[f] \subseteq {simRun.cfg[f]}
=============================================================================
