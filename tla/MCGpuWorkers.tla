---------------------------- MODULE MCGpuWorkers ----------------------------
(***************************************************************************)
(* Small instances of GpuWorkers for TLC.                                  *)
(***************************************************************************)
EXTENDS GpuWorkers, TLC

==============================================================================
