----------------------------- MODULE MCSafeLoop -----------------------------
(***************************************************************************)
(* Instances of SafeLoop for TLC: two candidates at one clock, a descent   *)
(* from 850 mV to 840 mV, and the menus of the runs.                       *)
(***************************************************************************)
EXTENDS SafeLoop

Upper == [mhz |-> 1800, mv |-> 850, off |-> 100]
Lower == [mhz |-> 1800, mv |-> 840, off |-> 110]

MCPairs == {Upper, Lower}
MCOnePair == {Upper}

(* Core, memory and manual applies and a forged profile in daily use.      *)
DailyMenu == {"forge", "apply_f2", "apply_f1", "apply_mem", "manual", "manual_reset",
              "report", "reset", "reset_full"}

(* Forge, its incidents and what follows from them.                        *)
ForgeMenu == {"forge", "clean_run", "forge_stop", "ack", "reset", "reset_full", "stop", "busy"}
=============================================================================
