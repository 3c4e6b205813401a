-------------------------------- MODULE Lab --------------------------------
(***************************************************************************)
(* The concurrency lab: experiments of the browser (LabTab, StressPage,    *)
(* IndexTab), which the server runs, and of the bench script, a process of *)
(* its own, one after the other under the named lock playsync.lab; the     *)
(* schema artifacts (unique index, trigger) and the secondary indexes that *)
(* they change and must put back; and the switch of the live strategy and  *)
(* the server's start, which change the artifacts without the lock.        *)
(*                                                                         *)
(* A trial of the lost-update experiment runs in LostUpdate's steps.  Of a *)
(* stream-limit trial only the artifacts matter here and whether it leaves *)
(* two unexpired sessions on one account: the claims are in Strategies.    *)
(***************************************************************************)
EXTENDS LostUpdate

CONSTANTS
  Tab,          \* browser panels that run experiments on the server
  Bench,        \* the bench script
  NoRunner,
  Streams,      \* strategies tried
  Default,      \* DEFAULT_STRATEGY
  MaxTrials,    \* trials of an experiment
  Concurrency, PoolSize,   \* connections a trial takes, LAB_POOL_SIZE
  Menus,        \* bound: the sets of methods a runner is asked for
  MaxBatches, MaxSwitches, MaxFaults   \* bounds

Runner == Tab \cup {Bench}
Strategy == Streams \cup {Default}
Method == Streams \cup Variants \cup {"INDEX"}

ASSUME LabAssumption ==
  /\ Bench \notin Tab /\ NoRunner \notin Runner
  /\ Concurrency \in 1..PoolSize   \* validate
  /\ \A menu \in Menus : menu # {} /\ menu \subseteq Method
  /\ {MaxTrials, MaxBatches, MaxSwitches, MaxFaults} \subseteq Nat

VARIABLES
  job,        \* what each runner does
  holder,     \* who has the lab lock
  live,       \* the server's liveStrategy
  switch,     \* setLiveStrategy under way
  up,         \* the server has started
  index, trigger,               \* the artifacts
  composite, statusIndex,       \* the secondary indexes
  tagged,     \* the index experiment's rows are in the table
  crowded,    \* a lab account has two unexpired PLAYING sessions
  leaked,     \* lab connections of the server taken and never released
  why,        \* why the artifacts may not fit the live strategy
  hurt,       \* an index experiment was cut short
  batches, switches, faults

artifacts == <<index, trigger>>
secondary == <<composite, statusIndex>>
schema == <<artifacts, secondary, tagged, crowded>>
server == <<live, switch, up>>
history == <<leaked, why, hurt>>
bounds == <<batches, switches, faults>>
labVars == <<job, holder, server, schema, history, bounds>>
allVars == <<vars, labVars>>

NoJob == [stage |-> "idle", todo |-> {}, now |-> "INDEX", goOn |-> FALSE, restore |-> Default,
          trial |-> 0, touched |-> FALSE, failed |-> FALSE]
NoSwitch == [stage |-> "none", to |-> Default, touched |-> FALSE]

(* A request is "asked" until it has the lock; the stages after it, in     *)
(* order, are those of prepareForStrategy, the trials and the restore, or  *)
(* these of the index experiment.                                          *)
IndexStages == {"clean", "seed", "dropOne", "dropBoth", "bare", "addOne", "addBoth", "delete"}
Waiting == {"idle", "next"}

(* What prepareForStrategy makes of the schema for a strategy. *)
Unique(s) == s = "CONSTRAINT"
Fits(s) == index = Unique(s) /\ trigger = (s = "TRIGGER")

LabInit ==
  /\ Init
  /\ job = [r \in Runner |-> NoJob] /\ holder = NoRunner
  /\ live = Default /\ switch = NoSwitch /\ up = TRUE
  /\ index = Unique(Default) /\ trigger = (Default = "TRIGGER")
  /\ composite = TRUE /\ statusIndex = TRUE /\ tagged = FALSE /\ crowded = FALSE
  /\ leaked = 0 /\ why = {} /\ hurt = FALSE
  /\ batches = 0 /\ switches = 0 /\ faults = 0

Fault == faults < MaxFaults /\ faults' = faults + 1
To(r, stage) == job' = [job EXCEPT ![r].stage = stage]
FailTo(r, stage) == job' = [job EXCEPT ![r].stage = stage, ![r].failed = TRUE]
IsStream(r) == job[r].now \in Streams
Holds(r, stage) == holder = r /\ job[r].stage = stage

(* setUniqueIndex: ADD UNIQUE INDEX meets the rows that are there. *)
Refused(present) == present /\ ~index /\ crowded
SetIndex(present) == ~Refused(present) /\ index' = present

(* The request is answered: the client's loop goes on, or ends. *)
After(j, ok) == IF j.todo # {} /\ (ok \/ j.goOn)
                THEN [NoJob EXCEPT !.stage = "next", !.todo = j.todo, !.goOn = j.goOn]
                ELSE NoJob
-----------------------------------------------------------------------------
(* The clients. *)

(* A run: its methods, and whether it goes on after one that failed. *)
Run(r, todo, goOn) ==
  /\ job[r].stage = "idle" /\ batches < MaxBatches /\ batches' = batches + 1
  /\ job' = [job EXCEPT ![r] = [NoJob EXCEPT !.stage = "next", !.todo = todo, !.goOn = goOn]]
  /\ UNCHANGED <<vars, holder, server, schema, history, switches, faults>>

(* LabTab: the strategies, or the variants, ticked, until one fails. *)
LabRun(r) == r \in Tab /\ \E todo \in Menus : todo \subseteq Streams /\ Run(r, todo, FALSE)
CountRun(r) == r \in Tab /\ \E todo \in Menus : todo \subseteq Variants /\ Run(r, todo, FALSE)

(* The stress page tries every strategy, or every variant, in any case. *)
CompareAll(r) == r \in Tab /\ \E todo \in Menus : todo \subseteq Streams /\ Run(r, todo, TRUE)
CompareCounts(r) == r \in Tab /\ \E todo \in Menus : todo \subseteq Variants /\ Run(r, todo, TRUE)

IndexRun(r) == r \in Tab /\ {"INDEX"} \in Menus /\ Run(r, {"INDEX"}, FALSE)

(* The bench exits at the first error. *)
BenchRun == \E todo \in Menus : "INDEX" \notin todo /\ Run(Bench, todo, FALSE)

(* The route reads the live strategy to restore before it asks for the     *)
(* lock; the bench restores DEFAULT_STRATEGY.                              *)
Post(r) == \E m \in job[r].todo :
  /\ job[r].stage = "next" /\ (r \in Tab => up)
  /\ r = Bench /\ m \in Variants => job[r].todo \cap Streams = {}
  /\ job' = [job EXCEPT ![r].stage = "asked", ![r].todo = @ \ {m}, ![r].now = m,
                        ![r].restore = IF r \in Tab THEN live ELSE Default,
                        ![r].touched = switch.stage # "none"]
  /\ UNCHANGED <<vars, holder, server, schema, history, bounds>>

NoServer(r) == \E m \in job[r].todo :
  /\ job[r].stage = "next" /\ r \in Tab /\ ~up
  /\ job' = [job EXCEPT ![r] = After([job[r] EXCEPT !.todo = job[r].todo \ {m}], FALSE)]
  /\ UNCHANGED <<vars, holder, server, schema, history, bounds>>
-----------------------------------------------------------------------------
(* The lab lock. *)

(* validate: more claims than devices or connections; answered 400. *)
BadParams(r) ==
  /\ job[r].stage = "asked" /\ r \in Tab
  /\ job' = [job EXCEPT ![r] = After(@, FALSE)]
  /\ UNCHANGED <<vars, holder, server, schema, history, bounds>>

FirstStage(m) == IF m \in Streams THEN "index" ELSE IF m \in Variants THEN "trial" ELSE "clean"

(* Faulty: the result of GET_LOCK is not looked at. *)
GetLockAnyway(r) ==
  /\ job[r].stage = "asked" /\ holder' = r
  /\ To(r, FirstStage(job[r].now))
  /\ UNCHANGED <<vars, server, schema, history, bounds>>

GetLock(r) ==
  /\ job[r].stage = "asked" /\ holder = NoRunner /\ holder' = r
  /\ To(r, FirstStage(job[r].now))
  /\ why' = IF IsStream(r) /\ job[r].touched THEN why \cup {"overlap"} ELSE why
  /\ switch' = [switch EXCEPT !.touched = @ \/ (IsStream(r) /\ switch.stage # "none")]
  /\ UNCHANGED <<vars, live, up, schema, leaked, hurt, bounds>>

(* GET_LOCK(name, 0) returns 0: 409 BUSY. *)
Busy(r) ==
  /\ job[r].stage = "asked" /\ holder # NoRunner
  /\ job' = [job EXCEPT ![r] = After(@, FALSE)]
  /\ UNCHANGED <<vars, holder, server, schema, history, bounds>>

(* Faulty: RELEASE_LOCK is not in the finally. *)
UnlockOnSuccess(r) ==
  /\ Holds(r, "unlock") /\ holder' = IF job[r].failed THEN r ELSE NoRunner
  /\ job' = [job EXCEPT ![r] = After(@, ~@.failed)]
  /\ UNCHANGED <<vars, server, schema, history, bounds>>

Unlock(r) ==
  /\ Holds(r, "unlock") /\ holder' = NoRunner
  /\ job' = [job EXCEPT ![r] = After(@, ~@.failed)]
  /\ UNCHANGED <<vars, server, schema, history, bounds>>
-----------------------------------------------------------------------------
(* The experiments' trials. *)

PrepareIndex(r) ==
  /\ Holds(r, "index") /\ SetIndex(Unique(job[r].now)) /\ To(r, "trigger")
  /\ UNCHANGED <<vars, holder, server, trigger, secondary, tagged, crowded, history, bounds>>

PrepareTrigger(r) ==
  /\ Holds(r, "trigger") /\ trigger' = (job[r].now = "TRIGGER") /\ To(r, "trial")
  /\ UNCHANGED <<vars, holder, server, index, secondary, tagged, crowded, history, bounds>>

(* The preparation is not inside the try: nothing is restored. *)
PrepareFails(r) ==
  /\ Holds(r, "index") \/ Holds(r, "trigger")
  /\ IF Holds(r, "index") /\ Refused(Unique(job[r].now))
     THEN UNCHANGED <<why, faults>>
     ELSE Fault /\ why' = why \cup {"fault"}
  /\ FailTo(r, "unlock")
  /\ UNCHANGED <<vars, holder, server, schema, leaked, hurt, batches, switches>>

(* Where a trial that failed, or the last one, continues. *)
Leave(r) == IF IsStream(r) THEN "restoreIndex" ELSE "unlock"

(* The rows are reset and every connection of the race is acquired. *)
StartStream(r) ==
  /\ Holds(r, "trial") /\ IsStream(r)
  /\ r \in Tab => Concurrency <= PoolSize - leaked
  /\ crowded' = FALSE /\ tagged' = FALSE /\ To(r, "race")
  /\ UNCHANGED <<vars, holder, server, artifacts, secondary, history, bounds>>

StartCount(r) ==
  /\ Holds(r, "trial") /\ ~IsStream(r)
  /\ r \in Tab => Concurrency <= PoolSize - leaked
  /\ variant' = job[r].now /\ count' = 0 /\ lock' = Free
  /\ step' = [w \in Worker |-> "start"]
  /\ seen' = [w \in Worker |-> 0] /\ retries' = [w \in Worker |-> 0]
  /\ To(r, "race")
  /\ UNCHANGED <<holder, server, schema, history, bounds>>

(* One of the connections cannot be had: Promise.all rejects, and the      *)
(* others stay taken.                                                      *)
AcquireFails(r) ==
  /\ Holds(r, "trial") /\ Fault
  /\ r \in Tab => Concurrency <= PoolSize - leaked
  /\ leaked' = IF r \in Tab THEN leaked + Concurrency - 1 ELSE leaked
  /\ FailTo(r, Leave(r))
  /\ UNCHANGED <<vars, holder, server, schema, why, hurt, batches, switches>>

(* The claims are answered.  Only under CONSTRAINT is one session per      *)
(* account certain: the others may be broken, or have a higher limit.      *)
RaceEnds(r) ==
  /\ Holds(r, "race") /\ IsStream(r)
  /\ crowded' \in IF job[r].now = "CONSTRAINT" THEN {FALSE} ELSE BOOLEAN
  /\ To(r, "save")
  /\ UNCHANGED <<vars, holder, server, artifacts, secondary, tagged, history, bounds>>

CountStep(r) == Holds(r, "race") /\ ~IsStream(r) /\ Next /\ UNCHANGED labVars

CountEnds(r) ==
  /\ Holds(r, "race") /\ ~IsStream(r)
  /\ \A w \in Worker : step[w] \in {"succeeded", "unanswered", "failed"}
  /\ To(r, "save")
  /\ UNCHANGED <<vars, holder, server, schema, history, bounds>>

(* checkInvariant or the count, then saveRun. *)
Save(r) ==
  /\ Holds(r, "save")
  /\ job' = [job EXCEPT ![r].trial = @ + 1,
                        ![r].stage = IF job[r].trial + 1 = MaxTrials THEN Leave(r) ELSE "trial"]
  /\ UNCHANGED <<vars, holder, server, schema, history, bounds>>

(* Faulty: the artifacts are put back only after the last trial. *)
TrialFailsNoFinally(r) ==
  /\ Holds(r, "trial") \/ Holds(r, "save")
  /\ Fault /\ FailTo(r, "unlock")
  /\ UNCHANGED <<vars, holder, server, schema, history, batches, switches>>

(* A reset, a check or the INSERT into experiment_run fails. *)
TrialFails(r) ==
  /\ Holds(r, "trial") \/ Holds(r, "save")
  /\ Fault /\ FailTo(r, Leave(r))
  /\ UNCHANGED <<vars, holder, server, schema, history, batches, switches>>

RestoreIndex(r) ==
  /\ Holds(r, "restoreIndex") /\ SetIndex(Unique(job[r].restore)) /\ To(r, "restoreTrigger")
  /\ UNCHANGED <<vars, holder, server, trigger, secondary, tagged, crowded, history, bounds>>

RestoreTrigger(r) ==
  /\ Holds(r, "restoreTrigger") /\ trigger' = (job[r].restore = "TRIGGER") /\ To(r, "unlock")
  /\ why' = IF job[r].touched THEN why ELSE IF job[r].restore = live THEN {} ELSE {"bench"}
  /\ UNCHANGED <<vars, holder, server, index, secondary, tagged, crowded, leaked, hurt, bounds>>

(* ADD UNIQUE INDEX fails while the last trial's sessions are unexpired. *)
RestoreFails(r) ==
  /\ Holds(r, "restoreIndex") \/ Holds(r, "restoreTrigger")
  /\ IF Holds(r, "restoreIndex") /\ Refused(Unique(job[r].restore))
     THEN why' = why \cup {"crowded"} /\ UNCHANGED faults
     ELSE Fault /\ why' = why \cup {"fault"}
  /\ FailTo(r, "unlock")
  /\ UNCHANGED <<vars, holder, server, schema, leaked, hurt, batches, switches>>
-----------------------------------------------------------------------------
(* runIndexExperiment. *)

(* The lab accounts' rows go, and an index missing since a crash is added. *)
Clean(r) ==
  /\ Holds(r, "clean") /\ To(r, "seed")
  /\ crowded' = FALSE /\ tagged' = FALSE /\ composite' = TRUE /\ hurt' = FALSE
  /\ UNCHANGED <<vars, holder, server, artifacts, statusIndex, leaked, why, bounds>>

Seed(r) ==
  /\ Holds(r, "seed") /\ To(r, "dropOne") /\ tagged' = TRUE
  /\ UNCHANGED <<vars, holder, server, artifacts, secondary, crowded, history, bounds>>

(* measure, then the next DROP. *)
DropComposite(r) ==
  /\ Holds(r, "dropOne") /\ composite /\ composite' = FALSE /\ To(r, "dropBoth")
  /\ UNCHANGED <<vars, holder, server, artifacts, statusIndex, tagged, crowded, history, bounds>>

DropStatus(r) ==
  /\ Holds(r, "dropBoth") /\ statusIndex /\ statusIndex' = FALSE /\ To(r, "bare")
  /\ UNCHANGED <<vars, holder, server, artifacts, composite, tagged, crowded, history, bounds>>

Measured(r) ==
  /\ Holds(r, "bare") /\ To(r, "addOne")
  /\ UNCHANGED <<vars, holder, server, schema, history, bounds>>

(* A statement fails, of itself or because the index to drop is missing    *)
(* since a crash; the finally runs.                                        *)
IndexFails(r) ==
  /\ holder = r /\ job[r].stage \in {"clean", "seed", "dropOne", "dropBoth", "bare"}
  /\ IF Holds(r, "dropBoth") /\ ~statusIndex THEN UNCHANGED faults ELSE Fault
  /\ FailTo(r, "addOne")
  /\ UNCHANGED <<vars, holder, server, schema, history, batches, switches>>

AddComposite(r) ==
  /\ Holds(r, "addOne") /\ To(r, "addBoth") /\ composite' = TRUE
  /\ UNCHANGED <<vars, holder, server, artifacts, statusIndex, tagged, crowded, history, bounds>>

(* Faulty: the finally puts back the composite index only. *)
AddStatusNot(r) ==
  /\ Holds(r, "addBoth") /\ To(r, "delete")
  /\ UNCHANGED <<vars, holder, server, schema, history, bounds>>

AddStatus(r) ==
  /\ Holds(r, "addBoth") /\ To(r, "delete") /\ statusIndex' = TRUE
  /\ UNCHANGED <<vars, holder, server, artifacts, composite, tagged, crowded, history, bounds>>

DeleteTagged(r) ==
  /\ Holds(r, "delete") /\ To(r, "unlock") /\ tagged' = FALSE
  /\ UNCHANGED <<vars, holder, server, artifacts, secondary, crowded, history, bounds>>

(* Each statement of the finally catches its own failure and goes on. *)
FinallyFails(r) ==
  /\ holder = r /\ job[r].stage \in {"addOne", "addBoth", "delete"}
  /\ Fault /\ hurt' = TRUE
  /\ To(r, CASE job[r].stage = "addOne" -> "addBoth" [] job[r].stage = "addBoth" -> "delete"
             [] OTHER -> "unlock")
  /\ UNCHANGED <<vars, holder, server, schema, leaked, why, batches, switches>>
-----------------------------------------------------------------------------
(* The live strategy, and the processes. *)

Touch(j) == IF j.stage \in Waiting \/ j.now \notin Streams THEN j ELSE [j EXCEPT !.touched = TRUE]

(* setLiveStrategy begins, for PUT /admin/strategy or at the start of the  *)
(* server; it does not ask for the lab lock.                               *)
Begin(to) ==
  LET overlap == holder # NoRunner /\ IsStream(holder)
  IN /\ switch.stage = "none"
     /\ switch' = [stage |-> "index", to |-> to, touched |-> overlap]
     /\ job' = [r \in Runner |-> Touch(job[r])]
     /\ why' = IF overlap THEN why \cup {"overlap"} ELSE why
     /\ UNCHANGED <<vars, holder, live, up, schema, leaked, hurt, batches, faults>>

Switch == \E to \in Strategy :
  up /\ switches < MaxSwitches /\ switches' = switches + 1 /\ Begin(to)

StartUp == ~up /\ Begin(Default) /\ UNCHANGED switches

SwitchIndex ==
  /\ switch.stage = "index" /\ SetIndex(Unique(switch.to))
  /\ switch' = [switch EXCEPT !.stage = "trigger"]
  /\ UNCHANGED <<vars, job, holder, live, up, trigger, secondary, tagged, crowded, history, bounds>>

SwitchTrigger ==
  /\ switch.stage = "trigger" /\ trigger' = (switch.to = "TRIGGER")
  /\ switch' = [switch EXCEPT !.stage = "set"]
  /\ UNCHANGED <<vars, job, holder, live, up, index, secondary, tagged, crowded, history, bounds>>

SwitchDone ==
  LET overlap == switch.touched \/ (holder # NoRunner /\ IsStream(holder))
  IN /\ switch.stage = "set" /\ live' = switch.to /\ up' = TRUE /\ switch' = NoSwitch
     /\ why' = IF overlap THEN why \cup {"overlap"} ELSE {}
     /\ UNCHANGED <<vars, job, holder, schema, leaked, hurt, bounds>>

(* A statement fails; a server that is starting gives up and is started    *)
(* again.                                                                  *)
SwitchFails ==
  /\ switch.stage \in {"index", "trigger"}
  /\ IF switch.stage = "index" /\ Refused(Unique(switch.to)) THEN UNCHANGED faults ELSE Fault
  /\ switch' = NoSwitch /\ why' = why \cup {"fault"}
  /\ UNCHANGED <<vars, job, holder, live, up, schema, leaked, hurt, batches, switches>>

(* The processes in P die: their lab lock is freed and what they ran stops. *)
Die(P) ==
  LET cut == IF holder \in P THEN job[holder] ELSE NoJob
      abandoned == cut.stage = "race" /\ cut.now \in Variants
  IN /\ job' = [r \in Runner |-> IF r \notin P \/ job[r].stage \in Waiting THEN job[r]
                                 ELSE After(job[r], FALSE)]
     /\ holder' = IF holder \in P THEN NoRunner ELSE holder
     /\ why' = IF cut.now \in Streams \/ switch.stage # "none" THEN why \cup {"fault"} ELSE why
     /\ hurt' = (hurt \/ cut.stage \in IndexStages)
     /\ step' = [w \in Worker |-> IF ~abandoned THEN step[w]
                                  ELSE CASE step[w] = "written" -> "unanswered"
                                         [] step[w] \in {"start", "read"} -> "failed"
                                         [] OTHER -> step[w]]
     /\ lock' = IF abandoned THEN Free ELSE lock
     /\ UNCHANGED <<variant, count, seen, retries, live, schema, batches, switches>>

ServerDies ==
  /\ up /\ Fault /\ up' = FALSE /\ leaked' = 0 /\ switch' = NoSwitch
  /\ Die(Tab)

BenchDies ==
  /\ job[Bench].stage \notin Waiting /\ Fault
  /\ Die({Bench}) /\ UNCHANGED <<up, leaked, switch>>

(* The last trial's leases end (15 s). *)
LeasesLapse ==
  /\ crowded /\ crowded' = FALSE
  /\ UNCHANGED <<vars, job, holder, server, artifacts, secondary, tagged, history, bounds>>
-----------------------------------------------------------------------------
Progress(r) ==
  \/ GetLock(r) \/ Busy(r) \/ Unlock(r)
  \/ PrepareIndex(r) \/ PrepareTrigger(r) \/ PrepareFails(r)
  \/ StartStream(r) \/ StartCount(r) \/ RaceEnds(r) \/ CountStep(r) \/ CountEnds(r) \/ Save(r)
  \/ RestoreIndex(r) \/ RestoreTrigger(r) \/ RestoreFails(r)
  \/ Clean(r) \/ Seed(r) \/ DropComposite(r) \/ DropStatus(r) \/ Measured(r) \/ IndexFails(r)
  \/ AddComposite(r) \/ AddStatus(r) \/ DeleteTagged(r)

LabWork == \E r \in Runner : Progress(r)

LabNext ==
  \/ LabWork
  \/ \E r \in Runner : LabRun(r) \/ CountRun(r) \/ CompareAll(r) \/ CompareCounts(r) \/ IndexRun(r)
  \/ \E r \in Runner : Post(r) \/ NoServer(r) \/ BadParams(r)
  \/ BenchRun
  \/ \E r \in Runner : AcquireFails(r) \/ TrialFails(r) \/ FinallyFails(r)
  \/ Switch \/ StartUp \/ SwitchIndex \/ SwitchTrigger \/ SwitchDone \/ SwitchFails
  \/ ServerDies \/ BenchDies \/ LeasesLapse

LabSpec == LabInit /\ [][LabNext]_allVars

(* A request that is under way is worked on. *)
LabFairness == WF_allVars(LabWork)
-----------------------------------------------------------------------------
(* README.md:219, "or NAIVE would be silently protected": from the reset   *)
(* to the check, a trial has the artifacts of its own strategy and no      *)
(* other, whoever else runs experiments, unless the live strategy was      *)
(* switched or the server started meanwhile.                               *)
TrialsUndisturbed == \A r \in Runner :
  job[r].stage \in {"race", "save"} /\ IsStream(r) /\ ~job[r].touched => Fits(job[r].now)

Quiet == switch.stage = "none" /\ up /\ (holder # NoRunner => ~IsStream(holder))

(* raceRunner.ts:188, "restored ... even if a trial throws": when nothing  *)
(* runs, the artifacts are those of the live strategy, unless a switch and *)
(* an experiment overlapped, the statements that restore them or their     *)
(* process failed, the bench restored DEFAULT_STRATEGY, or the unique      *)
(* index met the sessions of the last trial.                               *)
ArtifactsRestored == Quiet /\ why = {} => Fits(live)

(* README.md:219, "Anything that toggles it temporarily (the lab, ...)     *)
(* restores it for the live strategy afterwards": also when no statement   *)
(* failed but the one that was refused for the rows the trial left.        *)
RestoredAfterwards == Quiet /\ why \subseteq {"crowded"} => Fits(live)

(* indexExperiment.ts:10, "The index is always restored": both indexes are *)
(* there and the tagged rows gone, also after failures, and after an       *)
(* experiment that follows one cut short by a crash.                       *)
IndexesRestored ==
  ~hurt /\ (\A r \in Runner : job[r].stage \notin IndexStages) => composite /\ statusIndex /\ ~tagged

(* namedLock.ts:23: the lock is freed again, whatever fails, as long as    *)
(* the connections that failed trials left taken do not starve the race.   *)
LockIsFreed ==
  (holder # NoRunner) ~> (holder = NoRunner \/ Concurrency > PoolSize - leaked)
=============================================================================
