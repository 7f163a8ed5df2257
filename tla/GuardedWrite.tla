----------------------------- MODULE GuardedWrite -----------------------------
(***************************************************************************)
(* What every writer of an experimental curve promises: the GPU leaves     *)
(* stock only under an armed boot flag, and the flag is taken down only    *)
(* once the GPU is back at stock.                                          *)
(***************************************************************************)
VARIABLES
    tuned,  \* the driver may hold something else than stock
    armed   \* the boot flag is on disk

gvars == <<tuned, armed>>

GuardInit == ~ tuned /\ ~ armed

Arm == ~ tuned /\ ~ armed /\ armed' = TRUE /\ UNCHANGED tuned

Write == armed /\ ~ tuned /\ tuned' = TRUE /\ UNCHANGED armed

ToStock == tuned /\ tuned' = FALSE /\ UNCHANGED armed

Disarm == ~ tuned /\ armed /\ armed' = FALSE /\ UNCHANGED tuned

(* A reboot: the driver starts at stock and startup recovery takes the     *)
(* flag down.                                                              *)
Reboot == tuned' = FALSE /\ armed' = FALSE

GuardNext == Arm \/ Write \/ ToStock \/ Disarm \/ Reboot

GuardSpec == GuardInit /\ [][GuardNext]_gvars

TunedOnlyArmed == tuned => armed
==============================================================================
