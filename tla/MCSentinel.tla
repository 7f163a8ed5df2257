---------------------------- MODULE MCSentinel -----------------------------
(***************************************************************************)
(* Instances of Sentinel for TLC: three voltage bins at one clock, and a   *)
(* ladder short enough to be climbed by both layers.                       *)
(***************************************************************************)
EXTENDS Sentinel

Bin(mv) == [mhz |-> 1800, mv |-> mv, off |-> 950 - mv]

MCBins == {Bin(840), Bin(845), Bin(850)}
MCLowest == {Bin(840)}

(* A forged profile, applied, and Forge again.                             *)
SentinelMenu == {"forge", "apply_f2"}
=============================================================================
