----------------------------- MODULE SimEngine -----------------------------
(***************************************************************************)
(* The simulator's life: start, setup, the loop, stop and teardown, under  *)
(* the lab's named lock.  Each start() is a run of its own: one that waits *)
(* for the lock or fails in setup goes on beside the next one, and all of  *)
(* them write the one `phase'.                                             *)
(***************************************************************************)
EXTENDS SimDevices

CONSTANTS
  MaxRuns,    \* bound: calls of start()
  Outlives    \* a press may still be under way when teardown's 8 s are over

ASSUME EngineAssumption == MaxRuns \in Nat /\ Outlives \in BOOLEAN

VARIABLES
  phase,      \* SimEngine.phase
  at,         \* run -> where its promise chain is
  lock,       \* the run that holds the lab's named lock, 0 for none
  known,      \* accountIds is not empty
  limit       \* account.max_streams: "theirs" or "ours"

engineVars == <<phase, at, lock, known, limit>>
vars == <<crowdVars, engineVars>>

Run == 1..MaxRuns
Go(r, stage) == at' = [at EXCEPT ![r] = stage]

Init ==
  /\ CrowdInit
  /\ phase = "IDLE" /\ at = [r \in Run |-> "new"] /\ lock = 0
  /\ known = FALSE /\ limit = "theirs"

(* start: 409 unless IDLE or DONE; the run first needs the lab lock. *)
Start(r) ==
  /\ phase \in {"IDLE", "DONE"} /\ at[r] = "new" /\ \A q \in Run : q < r => at[q] # "new"
  /\ phase' = "STARTING" /\ Go(r, "lock")
  /\ UNCHANGED <<crowdVars, lock, known, limit>>

(* Another run or another experiment holds it: LabBusyError, phase IDLE. *)
LabBusy(r) ==
  /\ at[r] = "lock"
  /\ phase' = "IDLE" /\ Go(r, "over")
  /\ UNCHANGED <<crowdVars, lock, known, limit>>

(* setup up to its first await: counters start again. *)
Locked(r) ==
  /\ at[r] = "lock" /\ lock = 0
  /\ lock' = r /\ Go(r, "setup")
  /\ inFlight' = 0 /\ bySession' = [s \in Sid |-> NoDevice]
  /\ UNCHANGED <<dev, press, strategy, upkeepVars, rowVars, phase, known, limit>>

(* The rest: old rows are deleted, limits set, and new devices stand ready *)
(* (whatever is still under way belongs to devices of an earlier run).     *)
Prepared ==
  /\ dev' = [d \in Device |-> NewDevice]
  /\ press' = [p \in Pressing |-> IF press[p] = NoPress THEN NoPress ELSE [press[p] EXCEPT !.fresh = FALSE]]
  /\ swept' = {} /\ repaired' = {}
  /\ row' = [s \in Sid |-> IF row[s] = "NONE" THEN "NONE" ELSE "DELETED"]
  /\ known' = TRUE /\ limit' = "ours"
  /\ UNCHANGED <<bySession, inFlight, strategy, owner, lock>>

SetUp(r) ==
  /\ at[r] = "setup"
  /\ Prepared /\ phase' = "RUNNING" /\ Go(r, "loop")

(* setup throws, before or after it prepared the accounts.  teardown has   *)
(* just set STOPPING when start()'s own catch says IDLE.                   *)
SetupFails(r) ==
  /\ at[r] = "setup"
  /\ Prepared \/ UNCHANGED <<crowdVars, lock, known, limit>>
  /\ phase' = "IDLE" /\ Go(r, "drain")

(* The loop ends: stop(), the duration, or an error in it. *)
LoopEnds(r) ==
  /\ at[r] = "loop"
  /\ phase' = "STOPPING" /\ Go(r, "drain")
  /\ UNCHANGED <<crowdVars, lock, known, limit>>

(* Faulty: teardown ends the sessions without waiting for the presses. *)
DrainedAtOnce(r) ==
  /\ at[r] = "drain"
  /\ row' = [s \in Sid |-> IF s \in OpenRows THEN "ENDED" ELSE row[s]]
  /\ Go(r, "restore")
  /\ UNCHANGED <<deviceVars, upkeepVars, owner, phase, lock, known, limit>>

(* teardown: once no press is under way (or the deadline is over) every    *)
(* open session of the accounts ends.                                      *)
Drained(r) ==
  /\ at[r] = "drain"
  /\ inFlight <= 0 \/ Outlives
  /\ row' = [s \in Sid |-> IF s \in OpenRows THEN "ENDED" ELSE row[s]]
  /\ Go(r, "restore")
  /\ UNCHANGED <<deviceVars, upkeepVars, owner, phase, lock, known, limit>>

(* The limits are restored and the summary saved. *)
Restored(r) ==
  /\ at[r] = "restore" /\ known
  /\ limit' = "theirs" /\ phase' = "DONE" /\ Go(r, "unlock")
  /\ UNCHANGED <<crowdVars, lock, known>>

(* The first run failed before it knew any account: "IN ()" is an SQL      *)
(* error, teardown stops there.                                            *)
TeardownFails(r) ==
  /\ at[r] \in {"drain", "restore"} /\ ~known
  /\ Go(r, "unlock")
  /\ UNCHANGED <<crowdVars, phase, lock, known, limit>>

(* withNamedLock's finally. *)
Unlocked(r) ==
  /\ at[r] = "unlock"
  /\ lock' = 0 /\ Go(r, "over")
  /\ UNCHANGED <<crowdVars, phase, known, limit>>

Pause == phase = "RUNNING" /\ phase' = "PAUSED" /\ UNCHANGED <<crowdVars, at, lock, known, limit>>
Resume == phase = "PAUSED" /\ phase' = "RUNNING" /\ UNCHANGED <<crowdVars, at, lock, known, limit>>

Looping == \E r \in Run : at[r] = "loop"
Operable == phase \in {"RUNNING", "PAUSED"}

Lifecycle(r) == \/ Locked(r) \/ LabBusy(r) \/ SetUp(r) \/ SetupFails(r) \/ LoopEnds(r)
                \/ Drained(r) \/ Restored(r) \/ TeardownFails(r) \/ Unlocked(r)

(* What goes on whatever the phase, and patch and repair (409 unless       *)
(* RUNNING or PAUSED).                                                     *)
Upkeep ==
  /\ \/ CrowdStep
     \/ Operable /\ (Repair \/ \E to \in Strategies : Patch(to))
  /\ UNCHANGED engineVars
InLoop == Looping /\ LoopStep /\ UNCHANGED engineVars
Arrival(d, p) == Looping /\ phase = "RUNNING" /\ Press(d, p) /\ UNCHANGED engineVars

Next ==
  \/ \E r \in Run : Start(r) \/ Lifecycle(r)
  \/ Pause \/ Resume
  \/ InLoop \/ Upkeep
  \/ \E d \in Device, p \in Pressing : Arrival(d, p)

Spec == Init /\ [][Next]_vars

(* A song has an end, a statement that can be sent is served in the end,   *)
(* and an answer that came is handled.                                     *)
SongsEnd == \A d \in Device :
  /\ WF_vars(Looping /\ (SongOver(d) \/ Finish(d)) /\ UNCHANGED engineVars)
  /\ SF_vars((CallServed(d) \/ CallAnswered(d)) /\ UNCHANGED engineVars)

(* The loop's sweep runs every second, and its answer is handled. *)
SweepsEnd == /\ WF_vars(Looping /\ Sweep /\ UNCHANGED engineVars)
             /\ WF_vars(SweepTold /\ UNCHANGED engineVars)

FairSpec == Spec /\ SongsEnd /\ SweepsEnd
-----------------------------------------------------------------------------
(* teardown: "everything the simulation started is ended, limits ... are   *)
(* restored".  When no run holds the lab, no session of the household is   *)
(* open and the limit is the one found, however presses, failed starts and *)
(* earlier runs overlap.                                                   *)
NothingLeftBehind == lock = 0 => OpenRows = {} /\ limit = "theirs"

(* A device that plays stops, or learns that it lost its session.          *)
PlayingEnds == \A d \in Device :
  (dev[d].state = "PLAYING") ~> (dev[d].state # "PLAYING" \/ ~Looping)

(* The global reaper skips the lab's accounts, so the run's own sweep must *)
(* expire what lapsed, every time, while the run lasts.                    *)
LapsedIsSwept == \A s \in Sid :
  (row[s] = "LAPSED") ~> (row[s] # "LAPSED" \/ ~Looping)
=============================================================================
