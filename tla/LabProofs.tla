------------------------------ MODULE LabProofs ------------------------------
(***************************************************************************)
(* Theorems about the lab: a lost-update trial for every number of workers *)
(* alone and among the other experiments, and what the experiments, the    *)
(* switches and the crashes leave of the artifacts and the indexes, for    *)
(* every number of panels, trials, runs and faults.                        *)
(***************************************************************************)
EXTENDS Lab, FiniteSetTheorems, TLAPS

(* The inductive invariant: what a worker that is about to write has seen, *)
(* against what is there.                                                  *)
SeenBelow ==
  \A w \in Worker : step[w] = "read" => seen[w] <= Cardinality(Applied)

HolderSawAll ==
  \A w \in Worker :
    variant = "LOCKED" /\ step[w] = "read" => lock = w /\ seen[w] = count

(* Each conflict of a CAS worker was another worker's increment. *)
ConflictsBelow ==
  \A w \in Worker : variant = "CAS" =>
    /\ step[w] = "start" => retries[w] <= count
    /\ step[w] = "read" => retries[w] <= seen[w] /\ seen[w] <= count

SafeCount == variant # "NAIVE_RMW" => count = Cardinality(Applied)

IInv ==
  /\ TypeOK
  /\ NoneCountedTwice
  /\ SafeCount
  /\ SeenBelow
  /\ HolderSawAll
  /\ ConflictsBelow
  /\ CasNeverGivesUp

LEMMA BoundNat == MaxRetries \in Nat
  BY TrialAssumption DEF MaxRetries

LEMMA AppliedNat == IsFiniteSet(Applied) /\ Cardinality(Applied) \in Nat
  <1>1. IsFiniteSet(Applied)
    BY TrialAssumption, FS_Subset DEF Applied
  <1> QED
    BY <1>1, FS_CardinalityType

(* While one worker has not written, fewer than all have. *)
LEMMA AppliedRoom ==
  ASSUME NEW w \in Worker, w \notin Applied
  PROVE  Cardinality(Applied) < Cardinality(Worker)
  <1>1. Applied \in SUBSET Worker /\ Applied # Worker
    BY DEF Applied
  <1>2. IsFiniteSet(Worker) /\ Cardinality(Worker) \in Nat
    BY TrialAssumption, FS_CardinalityType
  <1>3. Cardinality(Applied) <= Cardinality(Worker) /\ Cardinality(Applied) # Cardinality(Worker)
    BY <1>1, <1>2, FS_Subset, Zenon
  <1> QED
    BY <1>2, <1>3, AppliedNat

(* A commit adds exactly the worker that made it. *)
LEMMA WriteApplies ==
  ASSUME TypeOK, NEW w \in Worker, step[w] \in {"start", "read"},
         step' = [step EXCEPT ![w] = "written"]
  PROVE  Cardinality(Applied') = Cardinality(Applied) + 1
  <1>1. w \notin Applied /\ Applied' = Applied \cup {w}
    BY DEF Applied, TypeOK
  <1> QED
    BY <1>1, AppliedNat, FS_AddElement

LEMMA OtherStepsKeepApplied ==
  ASSUME TypeOK, NEW w \in Worker, NEW x, step' = [step EXCEPT ![w] = x],
         \/ step[w] \in {"start", "read"} /\ x \in {"start", "read", "failed"}
         \/ step[w] = "written" /\ x \in {"succeeded", "unanswered"}
  PROVE  Applied' = Applied
  BY DEF Applied, TypeOK

LEMMA InitIInv == Init => IInv
  <1> SUFFICES ASSUME Init PROVE IInv
    OBVIOUS
  <1>1. TypeOK
    BY TrialAssumption, BoundNat DEF Init, TypeOK, Step
  <1>2. Applied = {} /\ Cardinality(Applied) = 0
    BY FS_EmptySet DEF Applied, Init
  <1> QED
    BY <1>1, <1>2, TrialAssumption
    DEF Init, IInv, NoneCountedTwice, SafeCount, SeenBelow, HolderSawAll,
        ConflictsBelow, CasNeverGivesUp

LEMMA NextIInv == IInv /\ [Next]_vars => IInv'
  <1> SUFFICES ASSUME IInv, [Next]_vars PROVE IInv'
    OBVIOUS
  <1> USE DEF NoneCountedTwice, SafeCount, SeenBelow, HolderSawAll,
              ConflictsBelow, CasNeverGivesUp
  <1>0. TypeOK /\ Cardinality(Applied) \in Nat /\ MaxRetries \in Nat
    BY AppliedNat, BoundNat DEF IInv
  <1>1. CASE UNCHANGED vars
    BY <1>1 DEF vars, IInv, TypeOK, MaxRetries, Applied
  <1>2. ASSUME NEW w \in Worker, Read(w) PROVE IInv'
    <2>1. Applied' = Applied
      BY <1>0, <1>2, OtherStepsKeepApplied DEF Read
    <2>2. TypeOK'
      BY <1>0, <1>2 DEF Read, TypeOK, Step, MaxRetries
    <2> QED
      BY <1>0, <1>2, <2>1, <2>2, TrialAssumption DEF Read, IInv, TypeOK
  <1>3. ASSUME NEW w \in Worker, NaiveWrite(w) \/ LockedCommit(w) \/ CasWrite(w)
        PROVE  IInv'
    <2>1. Cardinality(Applied') = Cardinality(Applied) + 1
      BY <1>0, <1>3, WriteApplies DEF NaiveWrite, LockedCommit, CasWrite, Write
    <2>2. TypeOK'
      BY <1>0, <1>3 DEF NaiveWrite, LockedCommit, CasWrite, Write, TypeOK, Step, MaxRetries
    <2>3. count' = seen[w] + 1 /\ seen[w] <= Cardinality(Applied) /\ seen[w] \in Nat
      BY <1>0, <1>3 DEF NaiveWrite, LockedCommit, CasWrite, Write, IInv, TypeOK
    <2>4. variant # "NAIVE_RMW" => seen[w] = count
      BY <1>0, <1>3 DEF NaiveWrite, LockedCommit, CasWrite, Write, IInv, TypeOK
    <2>5. variant' = variant /\ retries' = retries
      BY <1>3 DEF NaiveWrite, LockedCommit, CasWrite, Write
    <2>6. NoneCountedTwice' /\ SafeCount' /\ CasNeverGivesUp'
      BY <1>0, <2>1, <2>3, <2>4, <2>5 DEF IInv, TypeOK
    <2>7. \A v \in Worker : v # w => step'[v] = step[v] /\ seen'[v] = seen[v]
      BY <1>0, <1>3 DEF NaiveWrite, LockedCommit, CasWrite, Write, TypeOK
    <2>8. step'[w] = "written" /\ step[w] = "read"
      BY <1>0, <1>3 DEF NaiveWrite, LockedCommit, CasWrite, Write, TypeOK
    <2>9. SeenBelow' /\ ConflictsBelow'
      BY <1>0, <2>1, <2>3, <2>4, <2>5, <2>7, <2>8 DEF IInv, TypeOK
    <2>10. HolderSawAll'
      BY <1>0, <1>3, <2>5, <2>7, <2>8 DEF IInv, TypeOK
    <2> QED
      BY <2>2, <2>6, <2>9, <2>10 DEF IInv
  <1>4. ASSUME NEW w \in Worker, AtomicUpdate(w) PROVE IInv'
    <2>1. Cardinality(Applied') = Cardinality(Applied) + 1
      BY <1>0, <1>4, WriteApplies DEF AtomicUpdate
    <2>2. TypeOK'
      BY <1>0, <1>4 DEF AtomicUpdate, TypeOK, Step, MaxRetries
    <2> QED
      BY <1>0, <1>4, <2>1, <2>2 DEF AtomicUpdate, IInv, TypeOK
  <1>5. ASSUME NEW w \in Worker, LockTimeout(w) PROVE IInv'
    <2>1. Applied' = Applied
      BY <1>0, <1>5, OtherStepsKeepApplied DEF LockTimeout, Applied
    <2>2. TypeOK'
      <3>1. retries[w] < RetryMax => retries[w] + 1 \in 0 .. MaxRetries
        BY <1>0, <1>5 DEF LockTimeout, TypeOK, MaxRetries
      <3>2. MaxRetries' = MaxRetries
        BY <1>5 DEF LockTimeout, MaxRetries
      <3> QED
        BY <1>0, <1>5, <3>1, <3>2 DEF LockTimeout, TypeOK, Step
    <2> QED
      BY <1>0, <1>5, <2>1, <2>2 DEF LockTimeout, IInv, TypeOK
  <1>6. ASSUME NEW w \in Worker, CasConflict(w) PROVE IInv'
    <2>1. Applied' = Applied
      BY <1>0, <1>6, OtherStepsKeepApplied DEF CasConflict
    <2>2. retries[w] + 1 <= count
      BY <1>0, <1>6 DEF CasConflict, IInv, TypeOK
    <2>3. count < CasMaxAttempts
      <3>1. w \notin Applied
        BY <1>6 DEF CasConflict, Applied
      <3>2. Cardinality(Worker) \in Nat
        BY TrialAssumption, FS_CardinalityType
      <3> QED
        BY <1>0, <1>6, <3>1, <3>2, AppliedRoom, PoolAssumption, TrialAssumption
        DEF CasConflict, IInv, TypeOK
    <2>4. retries[w] + 1 \in 0 .. MaxRetries /\ retries[w] + 1 < CasMaxAttempts
      BY <1>0, <1>6, <2>2, <2>3, TrialAssumption DEF CasConflict, TypeOK, MaxRetries
    <2>5. TypeOK'
      BY <1>0, <1>6, <2>4 DEF CasConflict, TypeOK, Step, MaxRetries
    <2> QED
      BY <1>0, <1>6, <2>1, <2>2, <2>4, <2>5 DEF CasConflict, IInv, TypeOK
  <1>7. ASSUME NEW w \in Worker, Fail(w) PROVE IInv'
    <2>1. Applied' = Applied
      BY <1>0, <1>7, OtherStepsKeepApplied DEF Fail
    <2>2. TypeOK'
      BY <1>0, <1>7 DEF Fail, TypeOK, Step, MaxRetries
    <2> QED
      BY <1>0, <1>7, <2>1, <2>2 DEF Fail, IInv, TypeOK
  <1>8. ASSUME NEW w \in Worker, Succeed(w) \/ LoseAnswer(w) PROVE IInv'
    <2>1. Applied' = Applied
      BY <1>0, <1>8, OtherStepsKeepApplied DEF Succeed, LoseAnswer
    <2>2. TypeOK'
      BY <1>0, <1>8 DEF Succeed, LoseAnswer, TypeOK, Step, MaxRetries
    <2> QED
      BY <1>0, <1>8, <2>1, <2>2 DEF Succeed, LoseAnswer, IInv, TypeOK
  <1> QED
    BY <1>1, <1>2, <1>3, <1>4, <1>5, <1>6, <1>7, <1>8 DEF Next, WorkerStep

LEMMA Invariance == Spec => []IInv
  BY InitIInv, NextIInv, PTL DEF Spec
-----------------------------------------------------------------------------
(* Every trial keeps its variables well typed, the retries within their    *)
(* bounds.                                                                 *)
THEOREM LostUpdateTypes == Spec => []TypeOK
  <1>1. IInv => TypeOK
    BY DEF IInv
  <1> QED
    BY <1>1, Invariance, PTL

(* No variant counts an increment twice. *)
THEOREM LostUpdateOnce == Spec => []NoneCountedTwice
  <1>1. IInv => NoneCountedTwice
    BY DEF IInv
  <1> QED
    BY <1>1, Invariance, PTL

(* CAS never uses up its attempts. *)
THEOREM LostUpdateCasEnds == Spec => []CasNeverGivesUp
  <1>1. IInv => CasNeverGivesUp
    BY DEF IInv
  <1> QED
    BY <1>1, Invariance, PTL

LEMMA InvLossIsUnanswered == IInv => LossIsUnanswered
  <1> SUFFICES ASSUME IInv, variant # "NAIVE_RMW"
               PROVE  lost = -Cardinality(AtDatabase)
    BY DEF LossIsUnanswered
  <1>1. /\ Applied = Succeeded \cup AtDatabase
        /\ Succeeded \cap AtDatabase = {}
    BY DEF Applied, Succeeded, AtDatabase
  <1>2. IsFiniteSet(Succeeded) /\ IsFiniteSet(AtDatabase)
    BY TrialAssumption, FS_Subset DEF Succeeded, AtDatabase
  <1>3. Cardinality(Applied) =
          Cardinality(Succeeded) + Cardinality(AtDatabase) - Cardinality(Succeeded \cap AtDatabase)
    BY <1>1, <1>2, FS_Union, Zenon
  <1>4. /\ Cardinality(Succeeded) \in Nat
        /\ Cardinality(AtDatabase) \in Nat
        /\ Cardinality(Succeeded \cap AtDatabase) = 0
    BY <1>1, <1>2, FS_CardinalityType, FS_EmptySet
  <1> QED
    BY <1>3, <1>4 DEF IInv, SafeCount, lost

(* ATOMIC, LOCKED and CAS lose no increment: what they report as lost is   *)
(* minus the increments whose answer did not arrive.                       *)
THEOREM LostUpdateNothingLost == Spec => []LossIsUnanswered
  BY InvLossIsUnanswered, Invariance, PTL
-----------------------------------------------------------------------------
(* The lab's inductive invariant. *)

StreamStages == {"index", "trigger", "restoreIndex", "restoreTrigger"}
Stage == Waiting \cup {"asked", "trial", "race", "save", "unlock"} \cup StreamStages \cup IndexStages
Outside == Waiting \cup {"asked"}     \* without the lab lock

Job == [stage : Stage, todo : SUBSET Method, now : Method, goOn : BOOLEAN, restore : Strategy,
        trial : Nat, touched : BOOLEAN, failed : BOOLEAN]
Switching == [stage : {"none", "index", "trigger", "set"}, to : Strategy, touched : BOOLEAN]

JobTypes == job \in [Runner -> Job] /\ holder \in Runner \cup {NoRunner}
SchemaTypes ==
  /\ live \in Strategy /\ switch \in Switching /\ up \in BOOLEAN
  /\ index \in BOOLEAN /\ trigger \in BOOLEAN
  /\ composite \in BOOLEAN /\ statusIndex \in BOOLEAN
  /\ tagged \in BOOLEAN /\ crowded \in BOOLEAN /\ hurt \in BOOLEAN

(* The runner that is past its GET_LOCK has the lock, and nobody else. *)
HolderIs == \A r \in Runner : job[r].stage \notin Outside <=> holder = r

(* Which experiment goes through which stages. *)
StagesFit == \A r \in Runner :
  /\ job[r].stage \in StreamStages => IsStream(r)
  /\ job[r].stage \in IndexStages => ~IsStream(r)
  /\ job[r].stage \in {"trial", "race", "save"} => IsStream(r) \/ job[r].now \in Variants

(* An experiment and a switch under way at once know of each other. *)
OverlapKnown ==
  /\ \A r \in Runner :
       switch.stage # "none" /\ job[r].stage \notin Waiting /\ IsStream(r) => job[r].touched
  /\ \A r \in Runner : holder = r /\ IsStream(r) /\ switch.stage # "none" => switch.touched
  /\ \A r \in Runner : holder = r /\ IsStream(r) /\ job[r].touched => why # {}

(* What an undisturbed experiment has made of the artifacts so far. *)
TrialFits == \A r \in Runner : IsStream(r) /\ ~job[r].touched =>
  /\ job[r].stage = "trigger" => index = Unique(job[r].now)
  /\ job[r].stage \in {"trial", "race", "save"} => Fits(job[r].now)
  /\ job[r].stage = "restoreTrigger" => index = Unique(job[r].restore)

(* What an undisturbed switch has made of them. *)
SwitchFits == ~switch.touched =>
  /\ switch.stage \in {"trigger", "set"} => index = Unique(switch.to)
  /\ switch.stage = "set" => trigger = (switch.to = "TRIGGER")

(* They fit the live strategy before an experiment's first statement and   *)
(* after its last.                                                         *)
LiveFits ==
  switch.stage = "none" /\ up /\ why = {}
  /\ (\A r \in Runner : holder = r /\ IsStream(r) => job[r].stage \in {"index", "unlock"})
  => Fits(live)

(* What an index experiment has put back so far. *)
PutBack == ~hurt =>
  /\ (\A r \in Runner : job[r].stage \notin IndexStages) => composite /\ statusIndex /\ ~tagged
  /\ \A r \in Runner : /\ job[r].stage = "addBoth" => composite
                       /\ job[r].stage = "delete" => composite /\ statusIndex

LabInv ==
  /\ JobTypes /\ SchemaTypes
  /\ HolderIs /\ StagesFit /\ OverlapKnown
  /\ TrialFits /\ SwitchFits /\ LiveFits /\ PutBack
-----------------------------------------------------------------------------
(* How a step changes the jobs. *)

Moved(r, stage) ==
  /\ job' \in [Runner -> Job] /\ job'[r].stage = stage
  /\ job'[r].now = job[r].now /\ job'[r].restore = job[r].restore
  /\ job'[r].touched = job[r].touched
  /\ \A q \in Runner : q # r => job'[q] = job[q]

Gone(r) ==
  /\ job' \in [Runner -> Job] /\ job'[r].stage \in Waiting
  /\ \A q \in Runner : q # r => job'[q] = job[q]

LEMMA NoJobType == NoJob \in Job
  BY DEF NoJob, Job, Stage, Waiting, Method, Strategy

LEMMA AfterType ==
  ASSUME NEW j \in Job, NEW ok \in BOOLEAN
  PROVE  After(j, ok) \in Job /\ After(j, ok).stage \in Waiting
  BY NoJobType DEF After, NoJob, Job, Stage, Waiting

LEMMA JobMoved ==
  ASSUME JobTypes, NEW r \in Runner, NEW stage \in Stage, To(r, stage) \/ FailTo(r, stage)
  PROVE  Moved(r, stage)
  <1>1. CASE To(r, stage)
    <2> DEFINE j == [job[r] EXCEPT !.stage = stage]
    <2>1. job[r] \in Job
      BY DEF JobTypes
    <2>2. j \in Job /\ j.stage = stage /\ j.now = job[r].now /\ j.restore = job[r].restore
          /\ j.touched = job[r].touched
      BY <2>1 DEF Job
    <2>3. job' = [job EXCEPT ![r] = j]
      BY <1>1 DEF To
    <2> HIDE DEF j
    <2> QED
      BY <2>2, <2>3 DEF Moved, JobTypes
  <1>2. CASE FailTo(r, stage)
    <2> DEFINE j == [job[r] EXCEPT !.stage = stage, !.failed = TRUE]
    <2>1. job[r] \in Job
      BY DEF JobTypes
    <2>2. j \in Job /\ j.stage = stage /\ j.now = job[r].now /\ j.restore = job[r].restore
          /\ j.touched = job[r].touched
      BY <2>1 DEF Job
    <2>3. job' = [job EXCEPT ![r] = j]
      <3>1. job \in [Runner -> Job]
        BY DEF JobTypes
      <3> QED
        BY <1>2, <3>1, <2>1 DEF FailTo, Job
    <2> HIDE DEF j
    <2> QED
      BY <2>2, <2>3 DEF Moved, JobTypes
  <1> QED
    BY <1>1, <1>2

LEMMA JobGone ==
  ASSUME JobTypes, NEW r \in Runner, NEW j \in Job, NEW ok \in BOOLEAN,
         job' = [job EXCEPT ![r] = After(j, ok)]
  PROVE  Gone(r)
  BY AfterType DEF Gone, JobTypes

LEMMA InitLabInv == LabInit => LabInv
  <1> SUFFICES ASSUME LabInit PROVE LabInv
    OBVIOUS
  <1>1. JobTypes /\ SchemaTypes
    BY NoJobType, LabAssumption
    DEF LabInit, JobTypes, SchemaTypes, Switching, NoSwitch, Strategy, Unique
  <1>2. HolderIs /\ StagesFit /\ OverlapKnown /\ TrialFits /\ PutBack
    BY LabAssumption
    DEF LabInit, HolderIs, StagesFit, OverlapKnown, TrialFits, PutBack, NoJob, NoSwitch,
        Outside, Waiting, StreamStages, IndexStages
  <1>3. SwitchFits /\ LiveFits
    BY LabAssumption DEF LabInit, SwitchFits, LiveFits, NoSwitch, Fits, Unique
  <1> QED
    BY <1>1, <1>2, <1>3 DEF LabInv
-----------------------------------------------------------------------------
(* A runner with the lock goes on to its next stage. *)

LEMMA HeldJobs ==
  ASSUME LabInv, NEW r \in Runner, holder = r, NEW stage \in Stage \ Outside, Moved(r, stage),
         holder' = holder,
         stage \in StreamStages => IsStream(r),
         stage \in IndexStages => ~IsStream(r),
         stage \in {"trial", "race", "save"} => IsStream(r) \/ job[r].now \in Variants
  PROVE  JobTypes' /\ HolderIs' /\ StagesFit'
  <1>1. JobTypes'
    BY DEF LabInv, JobTypes, Moved
  <1>2. HolderIs'
    BY DEF LabInv, HolderIs, Moved
  <1>3. StagesFit'
    BY DEF LabInv, StagesFit, Moved, IsStream
  <1> QED
    BY <1>1, <1>2, <1>3

LEMMA HeldOverlap ==
  ASSUME LabInv, NEW r \in Runner, holder = r, NEW stage \in Stage \ Outside, Moved(r, stage),
         holder' = holder, switch' = switch,
         why' # {} \/ why' = why \/ ~job[r].touched
  PROVE  OverlapKnown'
  <1>1. job[r].stage \notin Outside
    BY DEF LabInv, HolderIs
  <1> QED
    BY <1>1 DEF LabInv, OverlapKnown, Moved, IsStream, Outside

LEMMA HeldSwitch ==
  ASSUME LabInv, NEW r \in Runner, holder = r, switch' = switch,
         UNCHANGED artifacts \/ IsStream(r)
  PROVE  SwitchFits'
  BY DEF LabInv, SwitchFits, OverlapKnown, artifacts

(* Nobody but the holder has anything to say of the artifacts. *)
LEMMA OthersOutside ==
  ASSUME LabInv, NEW r \in Runner, holder = r, NEW stage \in Stage, Moved(r, stage),
         NEW q \in Runner, q # r
  PROVE  job'[q].stage \in Outside /\ job[q].stage \in Outside /\ holder # q
  BY DEF LabInv, HolderIs, Moved

LEMMA HeldTrial ==
  ASSUME LabInv, NEW r \in Runner, holder = r, NEW stage \in Stage \ Outside, Moved(r, stage),
         IsStream(r) /\ ~job[r].touched =>
           /\ stage = "trigger" => index' = Unique(job[r].now)
           /\ stage \in {"trial", "race", "save"} => Fits(job[r].now)'
           /\ stage = "restoreTrigger" => index' = Unique(job[r].restore)
  PROVE  TrialFits'
  <1> SUFFICES ASSUME NEW q \in Runner, IsStream(q)', ~job'[q].touched
               PROVE  /\ job'[q].stage = "trigger" => index' = Unique(job'[q].now)
                      /\ job'[q].stage \in {"trial", "race", "save"} => Fits(job[q].now)'
                      /\ job'[q].stage = "restoreTrigger" => index' = Unique(job'[q].restore)
    BY DEF TrialFits, Unique
  <1>1. CASE q = r
    BY <1>1 DEF Moved, IsStream, Fits, Unique
  <1>2. CASE q # r
    BY <1>2, OthersOutside DEF Outside, Waiting
  <1> QED
    BY <1>1, <1>2

LEMMA HeldLive ==
  ASSUME LabInv, NEW r \in Runner, holder = r, NEW stage \in Stage \ Outside, Moved(r, stage),
         holder' = holder, live' = live, switch' = switch, up' = up,
         \/ ~IsStream(r) /\ why' = why /\ UNCHANGED artifacts
         \/ IsStream(r) /\ stage \notin {"index", "unlock"}
         \/ why' # {}
         \/ Fits(live)'
  PROVE  LiveFits'
  BY DEF LabInv, LiveFits, Moved, IsStream, Fits, artifacts

LEMMA HeldPutBack ==
  ASSUME LabInv, NEW r \in Runner, holder = r, NEW stage \in Stage \ Outside, Moved(r, stage),
         job[r].stage \notin IndexStages, stage \notin IndexStages,
         UNCHANGED secondary, hurt' = hurt, tagged' \in {tagged, FALSE}
  PROVE  PutBack'
  <1>1. \A q \in Runner : job[q].stage \notin IndexStages /\ job'[q].stage \notin IndexStages
    <2> SUFFICES ASSUME NEW q \in Runner
                 PROVE  job[q].stage \notin IndexStages /\ job'[q].stage \notin IndexStages
      OBVIOUS
    <2>1. CASE q = r
      BY <2>1 DEF Moved
    <2>2. CASE q # r
      BY <2>2, OthersOutside DEF Outside, Waiting, IndexStages
    <2> QED
      BY <2>1, <2>2
  <1>2. ~hurt' => composite' /\ statusIndex' /\ ~tagged'
    BY <1>1 DEF LabInv, PutBack, secondary
  <1> QED
    BY <1>1, <1>2 DEF PutBack, IndexStages
-----------------------------------------------------------------------------
(* The stream-limit experiment and the counting trials. *)

LEMMA HeldStage ==
  ASSUME LabInv, NEW r \in Runner, NEW stage, Holds(r, stage)
  PROVE  /\ holder = r /\ job[r].stage = stage
         /\ stage \in StreamStages => IsStream(r)
         /\ stage \in IndexStages => ~IsStream(r)
         /\ stage \in {"trial", "race", "save"} => IsStream(r) \/ job[r].now \in Variants
  BY DEF Holds, LabInv, StagesFit

(* Between the preparation and the restore nothing of the schema changes   *)
(* but the rows.                                                           *)
LEMMA TrialGoesOn ==
  ASSUME LabInv, NEW r \in Runner, NEW stage \in {"trial", "race", "save"},
         Holds(r, "trial") \/ Holds(r, "race") \/ Holds(r, "save"),
         Moved(r, stage) \/ Moved(r, Leave(r)),
         UNCHANGED <<holder, server, artifacts, secondary, why, hurt>>,
         tagged' \in {tagged, FALSE}, crowded' \in BOOLEAN
  PROVE  LabInv'
  <1>1. PICK to \in {stage, Leave(r)} : Moved(r, to)
    OBVIOUS
  <1>2. holder = r /\ job[r].stage \in {"trial", "race", "save"}
        /\ (IsStream(r) \/ job[r].now \in Variants)
    BY HeldStage
  <1>3. to \in Stage \ Outside /\ job[r].stage \notin IndexStages /\ to \notin IndexStages
    BY <1>1, <1>2 DEF Leave, Stage, Outside, Waiting, StreamStages, IndexStages
  <1>4. /\ to \in StreamStages => IsStream(r)
        /\ to \in {"trial", "race", "save"} => IsStream(r) \/ job[r].now \in Variants
    BY <1>1, <1>2 DEF Leave, StreamStages
  <1>5. switch' = switch /\ live' = live /\ up' = up /\ UNCHANGED artifacts /\ holder' = holder
        /\ why' = why /\ hurt' = hurt /\ UNCHANGED secondary
    BY DEF server
  <1>6. JobTypes' /\ HolderIs' /\ StagesFit'
    BY <1>1, <1>2, <1>3, <1>4, <1>5, HeldJobs
  <1>7. SchemaTypes'
    BY <1>5 DEF LabInv, SchemaTypes, artifacts, secondary
  <1>8. OverlapKnown' /\ SwitchFits'
    BY <1>1, <1>2, <1>3, <1>5, HeldOverlap, HeldSwitch
  <1>9. TrialFits'
    <2>1. IsStream(r) /\ ~job[r].touched =>
            /\ to = "trigger" => index' = Unique(job[r].now)
            /\ to \in {"trial", "race", "save"} => Fits(job[r].now)'
            /\ to = "restoreTrigger" => index' = Unique(job[r].restore)
      <3>1. IsStream(r) /\ ~job[r].touched => Fits(job[r].now)
        BY <1>2 DEF LabInv, TrialFits
      <3>2. to \notin {"trigger", "restoreTrigger"} /\ job'[r].now = job[r].now
        BY <1>1 DEF Leave, Moved
      <3> QED
        BY <3>1, <3>2, <1>5 DEF Fits, artifacts
    <2> QED
      BY <1>1, <1>2, <1>3, <2>1, HeldTrial
  <1>10. LiveFits'
    <2>1. IsStream(r) => to \notin {"index", "unlock"}
      BY <1>1 DEF Leave
    <2> QED
      BY <1>1, <1>2, <1>3, <1>5, <2>1, HeldLive
  <1>11. PutBack'
    BY <1>1, <1>2, <1>3, <1>5, HeldPutBack
  <1> QED
    BY <1>6, <1>7, <1>8, <1>9, <1>10, <1>11 DEF LabInv

LEMMA TrialKeeps ==
  ASSUME LabInv, NEW r \in Runner,
         \/ StartStream(r) \/ StartCount(r) \/ AcquireFails(r) \/ RaceEnds(r) \/ CountEnds(r)
         \/ Save(r) \/ TrialFails(r)
  PROVE  LabInv'
  <1>0. JobTypes /\ tagged \in BOOLEAN /\ crowded \in BOOLEAN
        /\ {"trial", "race", "save"} \subseteq Stage /\ Leave(r) \in Stage
    BY DEF LabInv, SchemaTypes, Leave, Stage, StreamStages
  <1>1. CASE StartStream(r)
    <2>1. Moved(r, "race")
      BY <1>0, <1>1, JobMoved DEF StartStream
    <2> QED
      BY <1>0, <1>1, <2>1, TrialGoesOn DEF StartStream, history
  <1>2. CASE StartCount(r)
    <2>1. Moved(r, "race")
      BY <1>0, <1>2, JobMoved DEF StartCount
    <2> QED
      BY <1>0, <1>2, <2>1, TrialGoesOn DEF StartCount, history, schema
  <1>3. CASE AcquireFails(r)
    <2>1. Moved(r, Leave(r))
      BY <1>0, <1>3, JobMoved DEF AcquireFails
    <2> QED
      BY <1>0, <1>3, <2>1, TrialGoesOn DEF AcquireFails, schema
  <1>4. CASE RaceEnds(r)
    <2>1. Moved(r, "save")
      BY <1>0, <1>4, JobMoved DEF RaceEnds
    <2>2. crowded' \in BOOLEAN
      BY <1>4 DEF RaceEnds
    <2> QED
      BY <1>0, <1>4, <2>1, <2>2, TrialGoesOn DEF RaceEnds, history
  <1>5. CASE CountEnds(r)
    <2>1. Moved(r, "save")
      BY <1>0, <1>5, JobMoved DEF CountEnds
    <2> QED
      BY <1>0, <1>5, <2>1, TrialGoesOn DEF CountEnds, history, schema
  <1>6. CASE Save(r)
    <2> DEFINE to == IF job[r].trial + 1 = MaxTrials THEN Leave(r) ELSE "trial"
               j == [job[r] EXCEPT !.trial = job[r].trial + 1, !.stage = to]
    <2>1. job[r] \in Job /\ to \in Stage
      BY <1>0 DEF JobTypes
    <2>2. job' = [job EXCEPT ![r] = j]
      <3>1. job \in [Runner -> Job]
        BY <1>0 DEF JobTypes
      <3> QED
        BY <1>6, <3>1, <2>1 DEF Save, Job
    <2> HIDE DEF to
    <2>3. j \in Job /\ j.stage = to /\ j.now = job[r].now /\ j.restore = job[r].restore
          /\ j.touched = job[r].touched
      <3>1. job[r].trial + 1 \in Nat
        BY <2>1 DEF Job
      <3>2. \A k \in Nat, s \in Stage :
              LET x == [job[r] EXCEPT !.trial = k, !.stage = s]
              IN  x \in Job /\ x.stage = s /\ x.now = job[r].now
                  /\ x.restore = job[r].restore /\ x.touched = job[r].touched
        BY <2>1 DEF Job
      <3> QED
        BY <2>1, <3>1, <3>2
    <2> HIDE DEF j
    <2>4. Moved(r, to)
      BY <1>0, <2>2, <2>3 DEF Moved, JobTypes
    <2>5. to \in {"trial", Leave(r)}
      BY DEF to
    <2> QED
      BY <1>0, <1>6, <2>4, <2>5, TrialGoesOn DEF Save, history, schema
  <1>7. CASE TrialFails(r)
    <2>1. Moved(r, Leave(r))
      BY <1>0, <1>7, JobMoved DEF TrialFails
    <2> QED
      BY <1>0, <1>7, <2>1, TrialGoesOn DEF TrialFails, history, schema
  <1> QED
    BY <1>1, <1>2, <1>3, <1>4, <1>5, <1>6, <1>7

LEMMA PrepareKeeps ==
  ASSUME LabInv, NEW r \in Runner, PrepareIndex(r) \/ PrepareTrigger(r)
  PROVE  LabInv'
  <1>0. JobTypes /\ {"trigger", "trial"} \subseteq Stage \ Outside
    BY DEF LabInv, Stage, StreamStages, Outside, Waiting
  <1>1. PICK to \in {"trigger", "trial"} :
          /\ Moved(r, to) /\ Holds(r, IF to = "trigger" THEN "index" ELSE "trigger")
          /\ to = "trigger" => PrepareIndex(r)
          /\ to = "trial" => PrepareTrigger(r)
    BY <1>0, JobMoved DEF PrepareIndex, PrepareTrigger
  <1>2. holder = r /\ IsStream(r) /\ job[r].stage \in {"index", "trigger"}
    BY <1>1, HeldStage DEF StreamStages
  <1>3. /\ to \in Stage \ Outside /\ job[r].stage \notin IndexStages /\ to \notin IndexStages
        /\ to \notin {"index", "unlock"}
    BY <1>0, <1>2 DEF IndexStages
  <1>4. switch' = switch /\ live' = live /\ up' = up /\ holder' = holder /\ why' = why
        /\ hurt' = hurt /\ UNCHANGED secondary /\ tagged' = tagged /\ crowded' = crowded
    BY DEF PrepareIndex, PrepareTrigger, server, history
  <1>5. JobTypes' /\ HolderIs' /\ StagesFit'
    BY <1>1, <1>2, <1>3, <1>4, HeldJobs
  <1>6. SchemaTypes'
    BY <1>4 DEF LabInv, SchemaTypes, secondary, PrepareIndex, PrepareTrigger, SetIndex, Unique
  <1>7. OverlapKnown' /\ SwitchFits' /\ LiveFits' /\ PutBack'
    BY <1>1, <1>2, <1>3, <1>4, HeldOverlap, HeldSwitch, HeldLive, HeldPutBack
  <1>8. TrialFits'
    <2>1. to = "trigger" => index' = Unique(job[r].now)
      BY <1>1 DEF PrepareIndex, SetIndex
    <2>2. to = "trial" /\ ~job[r].touched => Fits(job[r].now)'
      <3> SUFFICES ASSUME to = "trial", ~job[r].touched PROVE Fits(job[r].now)'
        OBVIOUS
      <3>1. index = Unique(job[r].now)
        BY <1>1, <1>2 DEF LabInv, TrialFits, Holds
      <3>2. job'[r].now = job[r].now
        BY <1>1 DEF Moved
      <3> QED
        BY <1>1, <3>1, <3>2 DEF PrepareTrigger, Fits
    <2> QED
      BY <1>1, <1>2, <1>3, <2>1, <2>2, HeldTrial
  <1> QED
    BY <1>5, <1>6, <1>7, <1>8 DEF LabInv

LEMMA RestoreKeeps ==
  ASSUME LabInv, NEW r \in Runner, RestoreIndex(r) \/ RestoreTrigger(r)
  PROVE  LabInv'
  <1>0. JobTypes /\ {"restoreTrigger", "unlock"} \subseteq Stage \ Outside
    BY DEF LabInv, Stage, StreamStages, Outside, Waiting
  <1>1. PICK to \in {"restoreTrigger", "unlock"} :
          /\ Moved(r, to)
          /\ Holds(r, IF to = "unlock" THEN "restoreTrigger" ELSE "restoreIndex")
          /\ to = "restoreTrigger" => RestoreIndex(r)
          /\ to = "unlock" => RestoreTrigger(r)
    BY <1>0, JobMoved DEF RestoreIndex, RestoreTrigger
  <1>2. holder = r /\ IsStream(r) /\ job[r].stage \in {"restoreIndex", "restoreTrigger"}
    BY <1>1, HeldStage DEF StreamStages
  <1>3. to \in Stage \ Outside /\ job[r].stage \notin IndexStages /\ to \notin IndexStages
    BY <1>0, <1>2 DEF IndexStages
  <1>4. switch' = switch /\ live' = live /\ up' = up /\ holder' = holder
        /\ hurt' = hurt /\ UNCHANGED secondary /\ tagged' = tagged /\ crowded' = crowded
    BY DEF RestoreIndex, RestoreTrigger, server, history
  <1>5. JobTypes' /\ HolderIs' /\ StagesFit'
    BY <1>1, <1>2, <1>3, <1>4, HeldJobs
  <1>6. SchemaTypes'
    BY <1>4 DEF LabInv, SchemaTypes, secondary, RestoreIndex, RestoreTrigger, SetIndex, Unique
  <1>7. why' = why \/ ~job[r].touched
    BY DEF RestoreIndex, RestoreTrigger, history
  <1>8. OverlapKnown' /\ SwitchFits' /\ PutBack'
    BY <1>1, <1>2, <1>3, <1>4, <1>7, HeldOverlap, HeldSwitch, HeldPutBack
  <1>9. TrialFits'
    <2>1. to = "restoreTrigger" => index' = Unique(job[r].restore)
      BY <1>1 DEF RestoreIndex, SetIndex
    <2> QED
      BY <1>1, <1>2, <1>3, <2>1, HeldTrial
  <1>10. LiveFits'
    <2>1. CASE to = "restoreTrigger"
      BY <1>1, <1>2, <1>3, <1>4, <2>1, HeldLive
    <2>2. CASE to = "unlock"
      <3>1. RestoreTrigger(r) /\ job[r].stage = "restoreTrigger"
        BY <1>1, <2>2 DEF Holds
      <3>2. why' # {} \/ Fits(live)'
        <4>1. CASE job[r].touched
          BY <1>2, <3>1, <4>1 DEF LabInv, OverlapKnown, RestoreTrigger
        <4>2. CASE ~job[r].touched /\ job[r].restore = live
          <5>1. index = Unique(live)
            BY <1>2, <3>1, <4>2 DEF LabInv, TrialFits
          <5> QED
            BY <1>4, <3>1, <4>2, <5>1 DEF RestoreTrigger, Fits, Unique
        <4>3. CASE ~job[r].touched /\ job[r].restore # live
          BY <3>1, <4>3 DEF RestoreTrigger
        <4> QED
          BY <4>1, <4>2, <4>3
      <3> QED
        BY <1>1, <1>2, <1>3, <1>4, <3>2, HeldLive
    <2> QED
      BY <2>1, <2>2
  <1> QED
    BY <1>5, <1>6, <1>8, <1>9, <1>10 DEF LabInv

(* What fails leaves a reason, or, before the first statement, nothing.    *)
LEMMA StatementFailsKeeps ==
  ASSUME LabInv, NEW r \in Runner, PrepareFails(r) \/ RestoreFails(r)
  PROVE  LabInv'
  <1>0. JobTypes /\ "unlock" \in Stage \ Outside
    BY DEF LabInv, Stage, Outside, Waiting
  <1>1. Moved(r, "unlock")
    BY <1>0, JobMoved DEF PrepareFails, RestoreFails
  <1>2. holder = r /\ IsStream(r) /\ job[r].stage \in StreamStages
    BY HeldStage DEF StreamStages, PrepareFails, RestoreFails
  <1>3. job[r].stage \notin IndexStages /\ "unlock" \notin IndexStages \cup StreamStages
    BY <1>2 DEF IndexStages, StreamStages
  <1>4. switch' = switch /\ live' = live /\ up' = up /\ holder' = holder /\ UNCHANGED artifacts
        /\ hurt' = hurt /\ UNCHANGED secondary /\ tagged' = tagged /\ crowded' = crowded
    BY DEF PrepareFails, RestoreFails, server, schema
  <1>5. JobTypes' /\ HolderIs' /\ StagesFit'
    BY <1>0, <1>1, <1>2, <1>3, <1>4, HeldJobs
  <1>6. SchemaTypes'
    BY <1>4 DEF LabInv, SchemaTypes, secondary, artifacts
  <1>7. why' # {} \/ why' = why
    BY DEF PrepareFails, RestoreFails
  <1>8. OverlapKnown' /\ SwitchFits' /\ PutBack'
    BY <1>0, <1>1, <1>2, <1>3, <1>4, <1>7, HeldOverlap, HeldSwitch, HeldPutBack
  <1>9. TrialFits'
    BY <1>0, <1>1, <1>2, HeldTrial
  <1>10. LiveFits'
    <2>1. CASE why' # {}
      BY <1>0, <1>1, <1>2, <1>4, <2>1, HeldLive
    <2>2. CASE why' = {}
      <3>1. PrepareFails(r) /\ why' = why /\ job[r].stage = "index"
        BY <2>2 DEF PrepareFails, RestoreFails, Holds
      <3>2. Fits(live)' <=> Fits(live)
        BY <1>4 DEF Fits, artifacts
      <3> QED
        BY <1>2, <1>4, <2>2, <3>1, <3>2 DEF LabInv, LiveFits
    <2> QED
      BY <2>1, <2>2
  <1> QED
    BY <1>5, <1>6, <1>8, <1>9, <1>10 DEF LabInv
-----------------------------------------------------------------------------
(* The index experiment: the artifacts are left alone. *)

LEMMA MeasureGoesOn ==
  ASSUME LabInv, NEW r \in Runner, holder = r, job[r].stage \in IndexStages,
         NEW stage \in IndexStages \cup {"unlock"}, Moved(r, stage),
         UNCHANGED <<holder, server, artifacts, why>>,
         composite' \in BOOLEAN, statusIndex' \in BOOLEAN, tagged' \in BOOLEAN,
         crowded' \in BOOLEAN, hurt' \in BOOLEAN,
         ~hurt' => /\ stage = "addBoth" => composite'
                   /\ stage = "delete" => composite' /\ statusIndex'
                   /\ stage = "unlock" => composite' /\ statusIndex' /\ ~tagged'
  PROVE  LabInv'
  <1>1. ~IsStream(r)
    BY DEF LabInv, StagesFit
  <1>2. switch' = switch /\ live' = live /\ up' = up /\ holder' = holder /\ UNCHANGED artifacts
        /\ why' = why
    BY DEF server
  <1>3. stage \in Stage \ Outside /\ stage \notin StreamStages
        /\ stage \notin {"trial", "race", "save"}
    BY DEF Stage, Outside, Waiting, StreamStages, IndexStages
  <1>4. JobTypes' /\ HolderIs' /\ StagesFit'
    BY <1>1, <1>2, <1>3, HeldJobs
  <1>5. SchemaTypes'
    BY <1>2 DEF LabInv, SchemaTypes, artifacts
  <1>6. OverlapKnown' /\ SwitchFits' /\ TrialFits' /\ LiveFits'
    BY <1>1, <1>2, <1>3, HeldOverlap, HeldSwitch, HeldTrial, HeldLive
  <1>7. PutBack'
    <2>1. job'[r].stage = stage
      BY DEF Moved
    <2>2. \A q \in Runner : q # r => job'[q].stage \notin IndexStages
      <3> SUFFICES ASSUME NEW q \in Runner, q # r PROVE job'[q].stage \notin IndexStages
        OBVIOUS
      <3>1. job'[q].stage \in Outside
        BY <1>3, OthersOutside
      <3> QED
        BY <3>1 DEF Outside, Waiting, IndexStages
    <2>3. {"addBoth", "delete"} \subseteq IndexStages
      BY DEF IndexStages
    <2> QED
      BY <2>1, <2>2, <2>3 DEF PutBack
  <1> QED
    BY <1>4, <1>5, <1>6, <1>7 DEF LabInv

LEMMA MeasureKeeps ==
  ASSUME LabInv, NEW r \in Runner,
         \/ Clean(r) \/ Seed(r) \/ DropComposite(r) \/ DropStatus(r) \/ Measured(r)
         \/ IndexFails(r) \/ AddComposite(r) \/ AddStatus(r) \/ DeleteTagged(r) \/ FinallyFails(r)
  PROVE  LabInv'
  <1>0. /\ JobTypes /\ SchemaTypes
        /\ IndexStages \cup {"unlock"} \subseteq Stage
        /\ IndexStages = {"clean", "seed", "dropOne", "dropBoth", "bare", "addOne", "addBoth",
                          "delete"}
    BY DEF LabInv, Stage, IndexStages
  <1>p. /\ ~hurt /\ job[r].stage = "addBoth" => composite
        /\ ~hurt /\ job[r].stage = "delete" => composite /\ statusIndex
    BY DEF LabInv, PutBack
  <1> USE DEF Holds, history, schema, secondary
  <1>1. CASE Clean(r)
    <2>1. Moved(r, "seed")
      BY <1>0, <1>1, JobMoved DEF Clean
    <2> QED
      BY <1>0, <1>1, <2>1, MeasureGoesOn DEF Clean, SchemaTypes
  <1>2. CASE Seed(r)
    <2>1. Moved(r, "dropOne")
      BY <1>0, <1>2, JobMoved DEF Seed
    <2> QED
      BY <1>0, <1>2, <2>1, MeasureGoesOn DEF Seed, SchemaTypes
  <1>3. CASE DropComposite(r)
    <2>1. Moved(r, "dropBoth")
      BY <1>0, <1>3, JobMoved DEF DropComposite
    <2> QED
      BY <1>0, <1>3, <2>1, MeasureGoesOn DEF DropComposite, SchemaTypes
  <1>4. CASE DropStatus(r)
    <2>1. Moved(r, "bare")
      BY <1>0, <1>4, JobMoved DEF DropStatus
    <2> QED
      BY <1>0, <1>4, <2>1, MeasureGoesOn DEF DropStatus, SchemaTypes
  <1>5. CASE Measured(r)
    <2>1. Moved(r, "addOne")
      BY <1>0, <1>5, JobMoved DEF Measured
    <2> QED
      BY <1>0, <1>5, <2>1, MeasureGoesOn DEF Measured, SchemaTypes
  <1>6. CASE IndexFails(r)
    <2>1. Moved(r, "addOne")
      BY <1>0, <1>6, JobMoved DEF IndexFails
    <2> QED
      BY <1>0, <1>6, <2>1, MeasureGoesOn DEF IndexFails, SchemaTypes
  <1>7. CASE AddComposite(r)
    <2>1. Moved(r, "addBoth")
      BY <1>0, <1>7, JobMoved DEF AddComposite
    <2> QED
      BY <1>0, <1>7, <2>1, MeasureGoesOn DEF AddComposite, SchemaTypes
  <1>8. CASE AddStatus(r)
    <2>1. Moved(r, "delete")
      BY <1>0, <1>8, JobMoved DEF AddStatus
    <2> QED
      BY <1>0, <1>p, <1>8, <2>1, MeasureGoesOn DEF AddStatus, SchemaTypes
  <1>9. CASE DeleteTagged(r)
    <2>1. Moved(r, "unlock")
      BY <1>0, <1>9, JobMoved DEF DeleteTagged
    <2> QED
      BY <1>0, <1>p, <1>9, <2>1, MeasureGoesOn DEF DeleteTagged, SchemaTypes
  <1>10. CASE FinallyFails(r)
    <2>1. PICK to \in {"addBoth", "delete", "unlock"} : To(r, to)
      BY <1>10 DEF FinallyFails
    <2>2. Moved(r, to)
      BY <1>0, <2>1, JobMoved
    <2> QED
      BY <1>0, <1>10, <2>2, MeasureGoesOn DEF FinallyFails, SchemaTypes
  <1> QED
    BY <1>1, <1>2, <1>3, <1>4, <1>5, <1>6, <1>7, <1>8, <1>9, <1>10
-----------------------------------------------------------------------------
(* A runner without the lock, and taking and giving it back. *)

LEMMA OutsideGoesOn ==
  ASSUME LabInv, NEW r \in Runner, job[r].stage \in Outside,
         job' \in [Runner -> Job], job'[r].stage \in Outside,
         \A q \in Runner : q # r => job'[q] = job[q],
         job'[r].stage = "asked" => job'[r].touched = (switch.stage # "none"),
         UNCHANGED <<holder, server, schema, history>>
  PROVE  LabInv'
  <1>1. holder # r
    BY DEF LabInv, HolderIs
  <1>2. switch' = switch /\ live' = live /\ up' = up /\ holder' = holder /\ index' = index
        /\ trigger' = trigger /\ why' = why /\ hurt' = hurt /\ composite' = composite
        /\ statusIndex' = statusIndex /\ tagged' = tagged /\ crowded' = crowded
    BY DEF server, schema, artifacts, secondary, history
  <1>3. \A s \in StreamStages \cup IndexStages \cup {"trial", "race", "save", "unlock"} :
          s \notin Outside
    BY DEF Outside, Waiting, StreamStages, IndexStages
  <1>4. JobTypes' /\ SchemaTypes'
    BY <1>2 DEF LabInv, JobTypes, SchemaTypes
  <1>5. HolderIs'
    BY <1>1, <1>2 DEF LabInv, HolderIs
  <1>6. StagesFit'
    BY <1>3 DEF LabInv, StagesFit, IsStream
  <1>7. OverlapKnown'
    BY <1>1, <1>2 DEF LabInv, OverlapKnown, IsStream, Outside
  <1>8. TrialFits'
    <2>1. {"trigger", "restoreTrigger"} \subseteq StreamStages
      BY DEF StreamStages
    <2> QED
      BY <1>2, <1>3, <2>1 DEF LabInv, TrialFits, IsStream, Fits, Unique
  <1>9. SwitchFits' /\ LiveFits'
    BY <1>1, <1>2 DEF LabInv, SwitchFits, LiveFits, IsStream, Fits, Unique
  <1>10. PutBack'
    <2>1. {"addBoth", "delete"} \subseteq IndexStages
      BY DEF IndexStages
    <2>2. \A q \in Runner : job'[q].stage \in IndexStages <=> job[q].stage \in IndexStages
      BY <1>3
    <2> QED
      BY <1>2, <1>3, <2>1, <2>2 DEF LabInv, PutBack
  <1> QED
    BY <1>4, <1>5, <1>6, <1>7, <1>8, <1>9, <1>10 DEF LabInv

LEMMA OutsideKeeps ==
  ASSUME LabInv, NEW r \in Runner,
         \/ LabRun(r) \/ CountRun(r) \/ CompareAll(r) \/ CompareCounts(r) \/ IndexRun(r)
         \/ r = Bench /\ BenchRun
         \/ Post(r) \/ NoServer(r) \/ BadParams(r) \/ Busy(r)
  PROVE  LabInv'
  <1>0. JobTypes /\ job[r] \in Job /\ Outside = {"idle", "next", "asked"}
        /\ Waiting = {"idle", "next"} /\ "next" \in Stage /\ "asked" \in Stage
    BY DEF LabInv, JobTypes, Outside, Waiting, Stage
  <1>1. ASSUME NEW todo \in SUBSET Method, NEW goOn \in BOOLEAN, Run(r, todo, goOn)
        PROVE  LabInv'
    <2> DEFINE j == [NoJob EXCEPT !.stage = "next", !.todo = todo, !.goOn = goOn]
    <2>1. j \in Job /\ j.stage = "next"
      BY <1>0, NoJobType DEF Job, NoJob
    <2>2. job' = [job EXCEPT ![r] = j]
      BY <1>1 DEF Run
    <2> HIDE DEF j
    <2>3. job' \in [Runner -> Job] /\ job'[r].stage = "next"
          /\ \A q \in Runner : q # r => job'[q] = job[q]
      BY <1>0, <2>1, <2>2 DEF JobTypes
    <2> QED
      BY <1>0, <1>1, <2>3, OutsideGoesOn DEF Run
  <1>2. CASE \/ LabRun(r) \/ CountRun(r) \/ CompareAll(r) \/ CompareCounts(r) \/ IndexRun(r)
             \/ r = Bench /\ BenchRun
    <2>1. PICK todo \in Menus, goOn \in BOOLEAN : Run(r, todo, goOn)
      BY <1>2 DEF LabRun, CountRun, CompareAll, CompareCounts, IndexRun, BenchRun
    <2>2. todo \in SUBSET Method
      BY LabAssumption
    <2> QED
      BY <1>1, <2>1, <2>2
  <1>3. CASE Post(r)
    <2>1. PICK m \in job[r].todo :
            /\ job[r].stage = "next"
            /\ job' = [job EXCEPT ![r].stage = "asked", ![r].todo = @ \ {m}, ![r].now = m,
                                  ![r].restore = IF r \in Tab THEN live ELSE Default,
                                  ![r].touched = switch.stage # "none"]
            /\ UNCHANGED <<vars, holder, server, schema, history, bounds>>
      BY <1>3 DEF Post
    <2> DEFINE back == IF r \in Tab THEN live ELSE Default
               told == switch.stage # "none"
               j == [job[r] EXCEPT !.stage = "asked", !.todo = job[r].todo \ {m}, !.now = m,
                                   !.restore = back, !.touched = told]
    <2>2. job' = [job EXCEPT ![r] = j]
      BY <1>0, <2>1 DEF JobTypes, Job
    <2>3. back \in Strategy /\ told \in BOOLEAN /\ m \in Method
          /\ job[r].todo \ {m} \in SUBSET Method
      BY <1>0 DEF LabInv, SchemaTypes, Strategy, Job
    <2> HIDE DEF back, told
    <2>4. j \in Job /\ j.stage = "asked" /\ j.touched = told
      BY <1>0, <2>3 DEF Job
    <2> HIDE DEF j
    <2>5. job' \in [Runner -> Job] /\ job'[r].stage = "asked" /\ job'[r].touched = told
          /\ \A q \in Runner : q # r => job'[q] = job[q]
      BY <1>0, <2>2, <2>4 DEF JobTypes
    <2> QED
      BY <1>0, <2>1, <2>5, OutsideGoesOn DEF told
  <1>4. CASE NoServer(r)
    <2>1. PICK m \in job[r].todo :
            /\ job[r].stage = "next" /\ r \in Tab /\ ~up
            /\ job' = [job EXCEPT ![r] = After([job[r] EXCEPT !.todo = job[r].todo \ {m}], FALSE)]
            /\ UNCHANGED <<vars, holder, server, schema, history, bounds>>
      BY <1>4, Zenon DEF NoServer
    <2> DEFINE rest == job[r].todo \ {m}
               j == [job[r] EXCEPT !.todo = rest]
    <2>2. j \in Job
      BY <1>0 DEF Job
    <2>3. job' = [job EXCEPT ![r] = After(j, FALSE)]
      BY <2>1
    <2> HIDE DEF j
    <2>4. Gone(r)
      BY <1>0, <2>2, <2>3, JobGone
    <2> QED
      BY <1>0, <2>1, <2>4, OutsideGoesOn DEF Gone
  <1>5. CASE BadParams(r) \/ Busy(r)
    <2>1. job[r].stage = "asked" /\ UNCHANGED <<holder, server, schema, history>>
          /\ job' = [job EXCEPT ![r] = After(job[r], FALSE)]
      BY <1>0, <1>5 DEF BadParams, Busy, JobTypes
    <2>2. Gone(r)
      BY <1>0, <2>1, JobGone
    <2> QED
      BY <1>0, <2>1, <2>2, OutsideGoesOn DEF Gone
  <1> QED
    BY <1>2, <1>3, <1>4, <1>5

LEMMA GetLockKeeps ==
  ASSUME LabInv, NEW r \in Runner, GetLock(r)
  PROVE  LabInv'
  <1> DEFINE first == FirstStage(job[r].now)
  <1>0. /\ JobTypes /\ job[r] \in Job /\ job[r].stage = "asked" /\ holder = NoRunner
        /\ holder' = r /\ holder # r
    BY LabAssumption DEF LabInv, JobTypes, GetLock
  <1>1. /\ first \in {"index", "trial", "clean"}
        /\ first = "index" <=> IsStream(r)
        /\ first = "trial" => job[r].now \in Variants
    BY DEF FirstStage, IsStream
  <1>2. first \in Stage /\ first \notin Outside
    BY <1>1 DEF Stage, Outside, Waiting, StreamStages, IndexStages
  <1>3. Moved(r, first)
    BY <1>0, <1>2, JobMoved DEF GetLock
  <1>4. live' = live /\ up' = up /\ index' = index
        /\ trigger' = trigger /\ hurt' = hurt /\ composite' = composite
        /\ statusIndex' = statusIndex /\ tagged' = tagged /\ crowded' = crowded
    BY DEF GetLock, schema, artifacts, secondary
  <1>5. switch' \in Switching /\ switch'.stage = switch.stage /\ switch'.to = switch.to
        /\ (switch'.touched <=> switch.touched \/ (IsStream(r) /\ switch.stage # "none"))
    <2>1. switch \in Switching /\ IsStream(r) \in BOOLEAN
      BY DEF LabInv, SchemaTypes, IsStream
    <2> DEFINE t == switch.touched \/ (IsStream(r) /\ switch.stage # "none")
    <2>2. switch' = [switch EXCEPT !.touched = t]
      BY <2>1 DEF GetLock, Switching
    <2>3. t \in BOOLEAN
      OBVIOUS
    <2>4. switch' \in Switching /\ switch'.stage = switch.stage /\ switch'.to = switch.to
          /\ switch'.touched = t
      <3> HIDE DEF t
      <3> QED
        BY <2>1, <2>2, <2>3 DEF Switching
    <2> QED
      BY <2>4
  <1>6. why' = why \/ why' # {}
    BY DEF GetLock
  <1>7. IsStream(r) /\ job[r].touched => why' # {}
    BY DEF GetLock
  <1>8. \A q \in Runner : job[q].stage \in Outside /\ holder # q
    BY <1>0, LabAssumption DEF LabInv, HolderIs
  <1> HIDE DEF first
  <1>9. JobTypes' /\ SchemaTypes'
    BY <1>0, <1>3, <1>4, <1>5 DEF LabInv, JobTypes, SchemaTypes, Moved
  <1>10. HolderIs'
    BY <1>0, <1>2, <1>3, <1>8 DEF HolderIs, Moved
  <1>11. StagesFit'
    <2>1. \A s \in StreamStages \cup IndexStages \cup {"trial", "race", "save"} : s \notin Outside
      BY DEF Outside, Waiting, StreamStages, IndexStages
    <2>2. first \in StreamStages => IsStream(r)
      BY <1>1 DEF StreamStages
    <2>3. first \in IndexStages => ~IsStream(r)
      BY <1>1 DEF IndexStages
    <2> QED
      BY <1>1, <1>3, <1>8, <2>1, <2>2, <2>3 DEF StagesFit, Moved, IsStream
  <1>12. OverlapKnown'
    <2>1. \A q \in Runner :
            /\ job'[q].now = job[q].now /\ job'[q].touched = job[q].touched
            /\ job'[q].stage \notin Waiting => job[q].stage \notin Waiting
      BY <1>0, <1>3 DEF Moved, Waiting
    <2> QED
      BY <1>0, <1>5, <1>7, <2>1 DEF LabInv, OverlapKnown, IsStream
  <1>13. TrialFits'
    <2> SUFFICES ASSUME NEW q \in Runner, IsStream(q)',
                        job'[q].stage \in {"trigger", "trial", "race", "save", "restoreTrigger"}
                 PROVE  FALSE
      BY DEF TrialFits
    <2>1. q = r
      BY <1>3, <1>8 DEF Moved, Outside, Waiting
    <2> QED
      BY <1>1, <1>3, <2>1 DEF Moved, IsStream
  <1>14. SwitchFits'
    BY <1>4, <1>5 DEF LabInv, SwitchFits
  <1>15. LiveFits'
    BY <1>0, <1>4, <1>5, <1>6, <1>8 DEF LabInv, LiveFits, Fits
  <1>16. PutBack'
    <2>1. \A q \in Runner : job[q].stage \notin IndexStages
      BY <1>8 DEF Outside, Waiting, IndexStages
    <2>2. \A q \in Runner : job'[q].stage \notin {"addBoth", "delete"}
      <3>1. \A q \in Runner : q # r => job'[q].stage \notin {"addBoth", "delete"}
        BY <1>3, <2>1 DEF Moved, IndexStages
      <3> QED
        BY <1>1, <1>3, <3>1 DEF Moved
    <2> QED
      BY <1>4, <2>1, <2>2 DEF LabInv, PutBack
  <1> QED
    BY <1>9, <1>10, <1>11, <1>12, <1>13, <1>14, <1>15, <1>16 DEF LabInv

LEMMA UnlockKeeps ==
  ASSUME LabInv, NEW r \in Runner, Unlock(r)
  PROVE  LabInv'
  <1>0. /\ JobTypes /\ job[r] \in Job /\ job[r].stage = "unlock" /\ holder = r
        /\ holder' = NoRunner /\ NoRunner \notin Runner
    BY LabAssumption DEF LabInv, JobTypes, Unlock, Holds
  <1>1. Gone(r)
    <2> DEFINE ok == ~job[r].failed
    <2>1. job' = [job EXCEPT ![r] = After(job[r], ok)]
      BY <1>0 DEF Unlock, JobTypes
    <2>2. ok \in BOOLEAN
      OBVIOUS
    <2> HIDE DEF ok
    <2> QED
      BY <1>0, <2>1, <2>2, JobGone
  <1>2. switch' = switch /\ live' = live /\ up' = up /\ index' = index
        /\ trigger' = trigger /\ why' = why /\ hurt' = hurt /\ composite' = composite
        /\ statusIndex' = statusIndex /\ tagged' = tagged /\ crowded' = crowded
    BY DEF Unlock, server, schema, artifacts, secondary, history
  <1>3. \A q \in Runner :
          /\ job'[q].stage \in Outside /\ job'[q].stage \notin IndexStages
          /\ job[q].stage \notin IndexStages
    <2>1. \A q \in Runner : q # r => job[q].stage \in Outside
      BY <1>0 DEF LabInv, HolderIs
    <2> QED
      BY <1>0, <1>1, <2>1 DEF Gone, Outside, Waiting, IndexStages
  <1>4. JobTypes' /\ SchemaTypes' /\ HolderIs'
    BY <1>0, <1>1, <1>2, <1>3 DEF LabInv, JobTypes, SchemaTypes, HolderIs, Gone
  <1>5. StagesFit' /\ TrialFits'
    BY <1>3 DEF StagesFit, TrialFits, Outside, Waiting, StreamStages, IndexStages
  <1>6. OverlapKnown'
    BY <1>0, <1>1, <1>2 DEF LabInv, OverlapKnown, Gone, IsStream
  <1>7. SwitchFits' /\ LiveFits'
    BY <1>0, <1>2 DEF LabInv, SwitchFits, LiveFits, Fits, Unique
  <1>8. PutBack'
    BY <1>2, <1>3 DEF LabInv, PutBack, IndexStages
  <1> QED
    BY <1>4, <1>5, <1>6, <1>7, <1>8 DEF LabInv
-----------------------------------------------------------------------------
(* The switch of the live strategy. *)

LEMMA BeginKeeps ==
  ASSUME LabInv, NEW to \in Strategy, Begin(to)
  PROVE  LabInv'
  <1> DEFINE overlap == holder # NoRunner /\ IsStream(holder)
  <1>1. /\ switch.stage = "none" /\ switch' = [stage |-> "index", to |-> to, touched |-> overlap]
        /\ job' = [r \in Runner |-> Touch(job[r])]
        /\ why' = IF overlap THEN why \cup {"overlap"} ELSE why
    BY DEF Begin
  <1>2. holder' = holder /\ live' = live /\ up' = up /\ index' = index
        /\ trigger' = trigger /\ hurt' = hurt /\ composite' = composite
        /\ statusIndex' = statusIndex /\ tagged' = tagged /\ crowded' = crowded
    BY DEF Begin, schema, artifacts, secondary
  <1>3. overlap \in BOOLEAN
    BY DEF IsStream
  <1>4. switch' \in Switching /\ switch'.stage = "index" /\ switch'.touched = overlap
    <2> HIDE DEF overlap
    <2> QED
      BY <1>1, <1>3 DEF Switching
  <1>5. \A r \in Runner :
          /\ job'[r] \in Job /\ job'[r].stage = job[r].stage /\ job'[r].now = job[r].now
          /\ job'[r].restore = job[r].restore
          /\ job[r].touched => job'[r].touched
          /\ job[r].stage \notin Waiting /\ IsStream(r) => job'[r].touched
    <2>1. \A j \in Job : /\ Touch(j) \in Job /\ Touch(j).stage = j.stage /\ Touch(j).now = j.now
                         /\ Touch(j).restore = j.restore
                         /\ j.touched => Touch(j).touched
                         /\ j.stage \notin Waiting /\ j.now \in Streams => Touch(j).touched
      BY DEF Touch, Job
    <2> QED
      BY <1>1, <2>1 DEF LabInv, JobTypes, IsStream
  <1>6. JobTypes' /\ SchemaTypes'
    BY <1>1, <1>2, <1>4, <1>5 DEF LabInv, JobTypes, SchemaTypes
  <1>7. HolderIs' /\ StagesFit'
    BY <1>2, <1>5 DEF LabInv, HolderIs, StagesFit, IsStream
  <1>8. OverlapKnown'
    <2>1. \A r \in Runner : holder = r /\ IsStream(r) => overlap
      BY LabAssumption
    <2> QED
      BY <1>1, <1>2, <1>4, <1>5, <2>1 DEF OverlapKnown, IsStream
  <1>9. TrialFits'
    <2>1. \A r \in Runner : IsStream(r)' /\ ~job'[r].touched => job'[r].stage \in Waiting
      BY <1>5 DEF IsStream
    <2> QED
      BY <2>1 DEF TrialFits, Waiting
  <1>10. SwitchFits' /\ LiveFits' /\ PutBack'
    BY <1>2, <1>4, <1>5 DEF LabInv, SwitchFits, LiveFits, PutBack
  <1> QED
    BY <1>6, <1>7, <1>8, <1>9, <1>10 DEF LabInv

(* Its statements find every experiment that runs already told. *)
LEMMA SwitchGoesOn ==
  ASSUME LabInv, switch.stage # "none", switch' \in Switching,
         live' \in Strategy, up' \in BOOLEAN, index' \in BOOLEAN, trigger' \in BOOLEAN,
         UNCHANGED <<job, holder, secondary, tagged, crowded, hurt>>,
         switch'.stage # "none" => switch'.touched = switch.touched,
         why' # {} \/ (\A r \in Runner : holder = r => ~IsStream(r)) \/ why' = why,
         SwitchFits', LiveFits'
  PROVE  LabInv'
  <1>1. JobTypes' /\ SchemaTypes'
    BY DEF LabInv, JobTypes, SchemaTypes, secondary
  <1>2. HolderIs' /\ StagesFit' /\ PutBack'
    BY DEF LabInv, HolderIs, StagesFit, PutBack, IsStream, secondary
  <1>3. OverlapKnown'
    BY DEF LabInv, OverlapKnown, IsStream
  <1>4. TrialFits'
    <2>1. \A r \in Runner : IsStream(r)' /\ ~job'[r].touched => job'[r].stage \in Waiting
      BY DEF LabInv, OverlapKnown, IsStream
    <2> QED
      BY <2>1 DEF TrialFits, Waiting
  <1> QED
    BY <1>1, <1>2, <1>3, <1>4 DEF LabInv

LEMMA SwitchKeeps ==
  ASSUME LabInv, SwitchIndex \/ SwitchTrigger \/ SwitchDone \/ SwitchFails
  PROVE  LabInv'
  <1>0. switch \in Switching /\ live \in Strategy /\ up \in BOOLEAN /\ index \in BOOLEAN
        /\ trigger \in BOOLEAN /\ NoSwitch \in Switching
    BY DEF LabInv, SchemaTypes, NoSwitch, Switching, Strategy
  <1>1. \A s \in {"trigger", "set"} :
          LET x == [switch EXCEPT !.stage = s]
          IN  x \in Switching /\ x.stage = s /\ x.to = switch.to /\ x.touched = switch.touched
    BY <1>0 DEF Switching
  <1>2. CASE SwitchIndex
    <2>1. switch' \in Switching /\ switch'.stage = "trigger" /\ switch'.to = switch.to
          /\ switch'.touched = switch.touched
      BY <1>1, <1>2 DEF SwitchIndex
    <2>2. SwitchFits' /\ LiveFits'
      BY <1>2, <2>1 DEF SwitchIndex, SetIndex, SwitchFits, LiveFits
    <2>3. index' \in BOOLEAN
      BY <1>2 DEF SwitchIndex, SetIndex, Unique
    <2> QED
      BY <1>0, <1>2, <2>1, <2>2, <2>3, SwitchGoesOn DEF SwitchIndex, history
  <1>3. CASE SwitchTrigger
    <2>1. switch' \in Switching /\ switch'.stage = "set" /\ switch'.to = switch.to
          /\ switch'.touched = switch.touched
      BY <1>1, <1>3 DEF SwitchTrigger
    <2>2. SwitchFits' /\ LiveFits'
      BY <1>3, <2>1 DEF LabInv, SwitchTrigger, SwitchFits, LiveFits
    <2>3. trigger' \in BOOLEAN
      BY <1>3 DEF SwitchTrigger
    <2> QED
      BY <1>0, <1>3, <2>1, <2>2, <2>3, SwitchGoesOn DEF SwitchTrigger, history
  <1>4. CASE SwitchDone
    <2>1. /\ switch.stage = "set" /\ live' = switch.to /\ up' = TRUE /\ switch' = NoSwitch
          /\ index' = index /\ trigger' = trigger
      BY <1>4 DEF SwitchDone, schema, artifacts
    <2>2. SwitchFits'
      BY <2>1 DEF SwitchFits, NoSwitch
    <2>3. why' = {} => ~switch.touched /\ (\A r \in Runner : holder = r => ~IsStream(r))
      BY <1>4, LabAssumption DEF SwitchDone
    <2>4. LiveFits'
      BY <2>1, <2>3 DEF LabInv, LiveFits, SwitchFits, Fits
    <2>5. live' \in Strategy
      BY <1>0, <2>1 DEF Switching
    <2> QED
      BY <1>0, <1>4, <2>1, <2>2, <2>3, <2>4, <2>5, SwitchGoesOn
      DEF SwitchDone, schema, artifacts, NoSwitch
  <1>5. CASE SwitchFails
    <2>1. switch' = NoSwitch /\ why' # {}
      BY <1>5 DEF SwitchFails
    <2>2. SwitchFits' /\ LiveFits'
      BY <2>1 DEF SwitchFits, LiveFits, NoSwitch
    <2> QED
      BY <1>0, <1>5, <2>1, <2>2, SwitchGoesOn DEF SwitchFails, schema, artifacts, NoSwitch
  <1> QED
    BY <1>2, <1>3, <1>4, <1>5
-----------------------------------------------------------------------------
(* Processes that die, and what the lab is not part of. *)

LEMMA DieKeeps ==
  ASSUME LabInv, ServerDies \/ BenchDies
  PROVE  LabInv'
  <1>1. PICK P \in SUBSET Runner :
          /\ Die(P) /\ UNCHANGED schema
          /\ switch' = switch \/ switch' = NoSwitch
          /\ up' \in {up, FALSE}
    <2>1. Tab \in SUBSET Runner /\ {Bench} \in SUBSET Runner
      BY DEF Runner
    <2> QED
      BY <2>1 DEF ServerDies, BenchDies, Die
  <1>2. live' = live /\ index' = index
        /\ trigger' = trigger /\ composite' = composite
        /\ statusIndex' = statusIndex /\ tagged' = tagged /\ crowded' = crowded
    BY <1>1 DEF Die, schema, artifacts, secondary
  <1>3. /\ JobTypes /\ NoRunner \notin Runner
        /\ holder' = IF holder \in P THEN NoRunner ELSE holder
        /\ job' = [r \in Runner |-> IF r \notin P \/ job[r].stage \in Waiting THEN job[r]
                                    ELSE After(job[r], FALSE)]
    BY <1>1, LabAssumption DEF Die, LabInv
  <1>4. \A r \in Runner : /\ job'[r] \in Job
                          /\ r \notin P => job'[r] = job[r]
                          /\ r \in P => job'[r].stage \in Waiting
    BY <1>3, AfterType DEF JobTypes
  <1>5. /\ why' = {} => why = {} /\ switch.stage = "none"
                        /\ \A r \in P : holder = r => ~IsStream(r)
        /\ ~hurt' => ~hurt /\ \A r \in P : holder = r => job[r].stage \notin IndexStages
    BY <1>1 DEF Die, IsStream
  <1>6. switch' \in Switching /\ up' \in BOOLEAN /\ hurt' \in BOOLEAN
        /\ (switch'.stage # "none" => switch' = switch)
    <2>1. switch \in Switching /\ up \in BOOLEAN /\ hurt \in BOOLEAN
      BY DEF LabInv, SchemaTypes
    <2>2. NoSwitch \in Switching /\ NoSwitch.stage = "none"
      BY DEF NoSwitch, Switching, Strategy
    <2>3. hurt' \in BOOLEAN
      BY <1>1, <2>1 DEF Die
    <2> QED
      BY <1>1, <2>1, <2>2, <2>3
  <1>7. JobTypes' /\ SchemaTypes'
    BY <1>2, <1>3, <1>4, <1>6 DEF LabInv, JobTypes, SchemaTypes
  <1>8. HolderIs'
    <2> SUFFICES ASSUME NEW r \in Runner PROVE job'[r].stage \notin Outside <=> holder' = r
      BY DEF HolderIs
    <2>1. CASE r \in P
      BY <1>3, <1>4, <2>1 DEF Outside
    <2>2. CASE r \notin P
      BY <1>3, <1>4, <2>2 DEF LabInv, HolderIs
    <2> QED
      BY <2>1, <2>2
  <1>9. \A r \in Runner : job'[r].stage \in Waiting \/ (r \notin P /\ job'[r] = job[r])
    BY <1>4
  <1>10. StagesFit' /\ TrialFits'
    <2>1. \A s \in StreamStages \cup IndexStages \cup {"trial", "race", "save"} : s \notin Waiting
      BY DEF Waiting, StreamStages, IndexStages
    <2>2. {"trigger", "restoreTrigger"} \subseteq StreamStages
      BY DEF StreamStages
    <2>3. StagesFit'
      BY <1>9, <2>1 DEF LabInv, StagesFit, IsStream
    <2>4. TrialFits'
      BY <1>2, <1>9, <2>1, <2>2 DEF LabInv, TrialFits, IsStream, Fits, Unique
    <2> QED
      BY <2>3, <2>4
  <1>11. OverlapKnown'
    <2>1. \A r \in Runner : holder' = r => holder = r /\ r \notin P /\ job'[r] = job[r]
      BY <1>3, <1>4
    <2>2. why' # {} \/ why' = why
      BY <1>5
    <2> QED
      BY <1>6, <1>9, <2>1, <2>2 DEF LabInv, OverlapKnown, IsStream
  <1>12. SwitchFits'
    BY <1>2, <1>6 DEF LabInv, SwitchFits, Unique
  <1>13. LiveFits'
    <2> SUFFICES ASSUME switch'.stage = "none", up', why' = {},
                        \A r \in Runner : holder' = r /\ IsStream(r)' =>
                          job'[r].stage \in {"index", "unlock"}
                 PROVE  Fits(live)'
      BY DEF LiveFits
    <2>1. \A r \in Runner : holder = r /\ IsStream(r) => job[r].stage \in {"index", "unlock"}
      BY <1>3, <1>4, <1>5 DEF IsStream
    <2>2. up /\ why = {} /\ switch.stage = "none"
      BY <1>1, <1>5
    <2> QED
      BY <1>2, <2>1, <2>2 DEF LabInv, LiveFits, Fits, Unique
  <1>14. PutBack'
    <2> SUFFICES ASSUME ~hurt'
                 PROVE  /\ (\A r \in Runner : job'[r].stage \notin IndexStages) =>
                             composite' /\ statusIndex' /\ ~tagged'
                        /\ \A r \in Runner :
                             /\ job'[r].stage = "addBoth" => composite'
                             /\ job'[r].stage = "delete" => composite' /\ statusIndex'
      BY DEF PutBack
    <2>1. \A r \in Runner : job[r].stage \in IndexStages => job'[r] = job[r]
      <3> SUFFICES ASSUME NEW r \in Runner, job[r].stage \in IndexStages PROVE job'[r] = job[r]
        OBVIOUS
      <3>1. holder = r
        BY DEF LabInv, HolderIs, IndexStages, Outside, Waiting
      <3> QED
        BY <1>4, <1>5, <3>1
    <2>2. "addBoth" \notin Waiting /\ "delete" \notin Waiting
      BY DEF Waiting
    <2> QED
      BY <1>2, <1>5, <1>9, <2>1, <2>2 DEF LabInv, PutBack
  <1> QED
    BY <1>7, <1>8, <1>10, <1>11, <1>12, <1>13, <1>14 DEF LabInv

LEMMA ApartKeeps ==
  ASSUME LabInv, UNCHANGED <<job, holder, server, artifacts, secondary, tagged, why, hurt>>,
         crowded' \in BOOLEAN
  PROVE  LabInv'
  <1>1. switch' = switch /\ live' = live /\ up' = up /\ index' = index
        /\ trigger' = trigger /\ composite' = composite /\ statusIndex' = statusIndex
    BY DEF server, artifacts, secondary
  <1>2. JobTypes' /\ SchemaTypes' /\ HolderIs' /\ StagesFit' /\ OverlapKnown'
    BY <1>1 DEF LabInv, JobTypes, SchemaTypes, HolderIs, StagesFit, OverlapKnown, IsStream
  <1>3. TrialFits' /\ SwitchFits' /\ LiveFits' /\ PutBack'
    BY <1>1 DEF LabInv, TrialFits, SwitchFits, LiveFits, PutBack, IsStream, Fits, Unique
  <1> QED
    BY <1>2, <1>3 DEF LabInv

LEMMA NextLabInv == LabInv /\ [LabNext]_allVars => LabInv'
  <1> SUFFICES ASSUME LabInv, [LabNext]_allVars PROVE LabInv'
    OBVIOUS
  <1>1. crowded \in BOOLEAN
    BY DEF LabInv, SchemaTypes
  <1>2. ASSUME NEW r \in Runner, Progress(r) PROVE LabInv'
    <2>1. CASE CountStep(r)
      BY <1>1, <2>1, ApartKeeps DEF CountStep, labVars, schema, history
    <2> QED
      BY <1>2, <2>1, GetLockKeeps, OutsideKeeps, UnlockKeeps, PrepareKeeps, StatementFailsKeeps,
         TrialKeeps, RestoreKeeps, MeasureKeeps DEF Progress
  <1>3. ASSUME BenchRun PROVE LabInv'
    BY <1>3, OutsideKeeps DEF Runner
  <1>4. CASE LeasesLapse
    BY <1>4, ApartKeeps DEF LeasesLapse, history
  <1>5. CASE Switch \/ StartUp
    <2>1. Default \in Strategy
      BY DEF Strategy
    <2> QED
      BY <1>5, <2>1, BeginKeeps DEF Switch, StartUp
  <1>6. CASE UNCHANGED allVars
    BY <1>1, <1>6, ApartKeeps DEF allVars, labVars, schema, history
  <1> QED
    BY <1>2, <1>3, <1>4, <1>5, <1>6, OutsideKeeps, TrialKeeps, MeasureKeeps, SwitchKeeps, DieKeeps
    DEF LabNext, LabWork

LEMMA LabInvariance == LabSpec => []LabInv
  BY InitLabInv, NextLabInv, PTL DEF LabSpec
-----------------------------------------------------------------------------
(* From the reset to the check, a trial has the artifacts of its own       *)
(* strategy, whoever else runs experiments, unless a switch overlapped     *)
(* with it: for every number of runners, trials and faults.                *)
THEOREM LabTrialsUndisturbed == LabSpec => []TrialsUndisturbed
  <1>1. LabInv => TrialsUndisturbed
    BY DEF LabInv, TrialFits, TrialsUndisturbed
  <1> QED
    BY <1>1, LabInvariance, PTL

(* When nothing runs, the artifacts are those of the live strategy, unless *)
(* one of the reasons the model keeps an account of interfered.            *)
THEOREM LabArtifactsRestored == LabSpec => []ArtifactsRestored
  <1>1. LabInv => ArtifactsRestored
    BY LabAssumption DEF LabInv, LiveFits, ArtifactsRestored, Quiet
  <1> QED
    BY <1>1, LabInvariance, PTL

(* After every index experiment, also one of whose statements some failed, *)
(* and after one that follows a crash, both indexes are there and the      *)
(* tagged rows gone.                                                       *)
THEOREM LabIndexesRestored == LabSpec => []IndexesRestored
  <1>1. LabInv => IndexesRestored
    BY DEF LabInv, PutBack, IndexesRestored
  <1> QED
    BY <1>1, LabInvariance, PTL

(* The lab's variables keep their types, and the lock its one holder.      *)
THEOREM LabTypes == LabSpec => [](JobTypes /\ SchemaTypes /\ HolderIs)
  <1>1. LabInv => JobTypes /\ SchemaTypes /\ HolderIs
    BY DEF LabInv
  <1> QED
    BY <1>1, LabInvariance, PTL
-----------------------------------------------------------------------------
(* The counting trials among everything else the lab does. *)

LEMMA CutTrial ==
  ASSUME IInv, NEW P, Die(P)
  PROVE  IInv'
  <1> DEFINE cut == IF holder \in P THEN job[holder] ELSE NoJob
             abandoned == cut.stage = "race" /\ cut.now \in Variants
  <1>1. CASE ~abandoned
    <2>1. UNCHANGED vars
      BY <1>1 DEF Die, vars, IInv, TypeOK
    <2> QED
      BY <2>1, NextIInv
  <1>2. CASE abandoned
    <2>0. TypeOK
      BY DEF IInv
    <2>1. /\ step' = [w \in Worker |-> CASE step[w] = "written" -> "unanswered"
                                         [] step[w] \in {"start", "read"} -> "failed"
                                         [] OTHER -> step[w]]
          /\ lock' = Free
          /\ variant' = variant /\ count' = count /\ seen' = seen /\ retries' = retries
      BY <1>2 DEF Die
    <2>2. /\ step' \in [Worker -> Step]
          /\ \A w \in Worker : step'[w] \notin {"start", "read"}
      BY <2>0, <2>1 DEF TypeOK, Step
    <2>3. Applied' = Applied
      BY <2>0, <2>1 DEF Applied, TypeOK, Step
    <2>4. MaxRetries' = MaxRetries
      BY <2>1 DEF MaxRetries
    <2>5. TypeOK'
      BY <2>0, <2>1, <2>2, <2>4 DEF TypeOK
    <2> QED
      BY <2>1, <2>2, <2>3, <2>5
      DEF IInv, NoneCountedTwice, SafeCount, SeenBelow, HolderSawAll, ConflictsBelow,
          CasNeverGivesUp
  <1> QED
    BY <1>1, <1>2

LEMMA LabKeepsTrial == LabInv /\ IInv /\ [LabNext]_allVars => IInv'
  <1> SUFFICES ASSUME LabInv, IInv, [LabNext]_allVars PROVE IInv'
    OBVIOUS
  <1>1. CASE UNCHANGED vars
    BY <1>1, NextIInv
  <1>2. CASE \E r \in Runner : CountStep(r)
    BY <1>2, NextIInv DEF CountStep
  <1>3. CASE \E r \in Runner : StartCount(r)
    <2>1. PICK r \in Runner : StartCount(r)
      BY <1>3
    <2>2. job[r].now \in Variants
      BY <2>1 DEF StartCount, Holds, LabInv, StagesFit
    <2>3. Init'
      BY <2>1, <2>2 DEF StartCount, Init
    <2>4. (Init => IInv)'
      BY InitIInv, PTL
    <2> QED
      BY <2>3, <2>4
  <1>4. CASE ServerDies \/ BenchDies
    BY <1>4, CutTrial DEF ServerDies, BenchDies
  <1>5. ASSUME NEW r \in Runner, Progress(r)
        PROVE  UNCHANGED vars \/ CountStep(r) \/ StartCount(r)
    BY <1>5
    DEF Progress, GetLock, Busy, Unlock, PrepareIndex, PrepareTrigger, PrepareFails, StartStream,
        RaceEnds, CountEnds, Save, RestoreIndex, RestoreTrigger, RestoreFails, Clean, Seed,
        DropComposite, DropStatus, Measured, IndexFails, AddComposite, AddStatus, DeleteTagged
  <1>6. ASSUME NEW r \in Runner,
               \/ LabRun(r) \/ CountRun(r) \/ CompareAll(r) \/ CompareCounts(r) \/ IndexRun(r)
               \/ Post(r) \/ NoServer(r) \/ BadParams(r)
               \/ AcquireFails(r) \/ TrialFails(r) \/ FinallyFails(r)
        PROVE  UNCHANGED vars
    BY <1>6
    DEF LabRun, CountRun, CompareAll, CompareCounts, IndexRun, Run, Post, NoServer, BadParams,
        AcquireFails, TrialFails, FinallyFails
  <1>7. BenchRun \/ Switch \/ StartUp \/ SwitchIndex \/ SwitchTrigger \/ SwitchDone
        \/ SwitchFails \/ LeasesLapse => UNCHANGED vars
    BY DEF BenchRun, Run, Switch, StartUp, Begin, SwitchIndex, SwitchTrigger, SwitchDone,
           SwitchFails, LeasesLapse
  <1>8. UNCHANGED allVars => UNCHANGED vars
    BY DEF allVars
  <1> QED
    BY <1>1, <1>2, <1>3, <1>4, <1>5, <1>6, <1>7, <1>8 DEF LabNext, LabWork

(* Among switches, crashes and the other experiments too, a safe variant   *)
(* reports as lost only minus what was not answered, and no CAS worker     *)
(* uses up its attempts.                                                   *)
THEOREM LabCountsTrue == LabSpec => [](LossIsUnanswered /\ CasNeverGivesUp)
  <1>1. LabInit => Init
    BY DEF LabInit
  <1>2. LabSpec => []IInv
    BY <1>1, InitIInv, LabKeepsTrial, LabInvariance, PTL DEF LabSpec
  <1>3. IInv => CasNeverGivesUp
    BY DEF IInv
  <1> QED
    BY <1>2, <1>3, InvLossIsUnanswered, PTL
=============================================================================
