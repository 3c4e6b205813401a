----------------------------- MODULE MCStepper -----------------------------
(* Small instances of Stepper for TLC. *)
EXTENDS Stepper
=============================================================================
