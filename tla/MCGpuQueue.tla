----------------------------- MODULE MCGpuQueue -----------------------------
(* Instances of GpuQueue for TLC. *)
EXTENDS GpuQueue
=============================================================================
