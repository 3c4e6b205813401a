------------------------------- MODULE MCLab -------------------------------
(* Instances of Lab for TLC.  A counting trial shares nothing but the lock *)
(* with what else goes on, so it is checked alone: a behaviour begins as   *)
(* Lab says, or with one batch and no switch left to come, and    *)
(* only then, while nothing else runs, is a counting experiment begun.     *)
EXTENDS Lab

VARIABLE counting     \* a counting experiment may be begun

Counting ==
  /\ Init
  /\ job = [r \in Runner |-> NoJob] /\ holder = NoRunner
  /\ live = Default /\ switch = NoSwitch /\ up = TRUE
  /\ index = Unique(Default) /\ trigger = (Default = "TRIGGER")
  /\ composite = TRUE /\ statusIndex = TRUE /\ tagged = FALSE /\ crowded = FALSE
  /\ leaked = 0 /\ why = {} /\ hurt = FALSE
  /\ batches = MaxBatches - 1 /\ switches = MaxSwitches /\ faults = 0

MCInit ==
  \/ LabInit /\ variant = (CHOOSE v \in Variants : TRUE) /\ counting = FALSE
  \/ Counting /\ counting = TRUE

Asked(r) == job[r].todo \cap Variants # {}
MCNext ==
  /\ LabNext
  /\ (\E r \in Runner : ~Asked(r) /\ Asked(r)') => counting
  /\ UNCHANGED counting

MCSpec == MCInit /\ [][MCNext]_<<allVars, counting>> /\ LabFairness
=============================================================================
