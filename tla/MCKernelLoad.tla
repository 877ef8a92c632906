----------------------------- MODULE MCKernelLoad -----------------------------
(* Instances of KernelLoad for TLC. *)
EXTENDS KernelLoad
=============================================================================
