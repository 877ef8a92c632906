----------------------------- MODULE MCCobdAsync -----------------------------
(* Instances of CobdAsync for TLC. *)
EXTENDS CobdAsync

AllWorkers == {NUnits}
AnyWorkers == 0..NUnits
FirstWorkerOnly == {1}
NoWorkers == {0}
=============================================================================
