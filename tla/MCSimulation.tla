--------------------------- MODULE MCSimulation ---------------------------
(***************************************************************************)
(* Small instances of the simulator for TLC: its runs with the devices of  *)
(* a household (SimEngine), or with its settings (SimSettings), which do   *)
(* not depend on what the devices do.                                      *)
(***************************************************************************)
EXTENDS SimEngine, SimSettings, TLC

VARIABLE aspect      \* what the instance is about

simulationVars == <<aspect, vars, settingsVars>>

SimulationInit == aspect \in {"crowd", "settings"} /\ Init /\ SettingsInit

Crowd == aspect = "crowd" /\ Next /\ UNCHANGED <<aspect, settingsVars>>
Settings == aspect = "settings" /\ SettingsNext /\ UNCHANGED <<aspect, vars>>

SimulationSpec == SimulationInit /\ [][Crowd \/ Settings]_simulationVars

Symmetry == Permutations(Device) \cup Permutations(Pressing)
=============================================================================
