----------------------------- MODULE MCRecorder -----------------------------
(* The recorder with a one-slot buffer, for two tools.                     *)
EXTENDS Recorder
=============================================================================
