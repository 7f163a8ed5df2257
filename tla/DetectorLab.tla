----------------------------- MODULE DetectorLab -----------------------------
(***************************************************************************)
(* The manual diagnostic point (manual_point.rs), the Detector Lab worker  *)
(* that borrows it (detector_lab.rs), and the Forge worker as the others   *)
(* see it (gpu_power_sweep.rs, start_with_intent): what it publishes, what *)
(* its candidates do to the GPU, and how it ends.                          *)
(***************************************************************************)
EXTENDS PackageRuns

ManualHw == [vf |-> "manual", mem |-> 0, vlock |-> TRUE, cap |-> TRUE]

PointActive  == [active |-> TRUE, verified |-> TRUE]
PointUnknown == [active |-> TRUE, verified |-> FALSE]
PointAtStock == [active |-> FALSE, verified |-> FALSE]

(* reset_hardware tries the clock cap and NVAPI, whatever the first says.  *)
ResetHardwareFails ==
    /\ Fault
    /\ hw' \in {hw, NvapiReset(hw), [hw EXCEPT !.cap = FALSE]}

(* reset_and_disarm: stock, no applied profile, no boot flag.              *)
ResetAndDisarm ==
    /\ hw' = Stock
    /\ stored' = NoProfile
    /\ flag' = "none"
    /\ UNCHANGED used

-----------------------------------------------------------------------------
(* The Detector Lab worker.                                                *)

LabRest == <<handles, timers, result, forge, ipc>>

(* What the thread does on any error: stock, or a point nobody vouches for.*)
LabRecovers(t, tdr) ==
    /\ latch' = (latch \/ tdr)
    /\ \/ ResetAndDisarm /\ manual' = PointAtStock
       \/ ResetHardwareFails /\ manual' = PointUnknown /\ UNCHANGED <<flag, stored>>
    /\ Go(t, "end")
    /\ UNCHANGED LabRest

LabCalibrates(t) ==
    /\ At(t, "lab", "init")
    /\ \/ ResetAndDisarm /\ manual' = PointAtStock /\ Go(t, "stock")
       \/ ResetHardwareFails /\ Go(t, "error") /\ UNCHANGED <<flag, stored, manual>>
    /\ UNCHANGED <<LabRest, latch>>

(* The goldens and, for the full recipe, the whole sequence at stock; the  *)
(* point's physical bin is resolved again and must not have moved.         *)
LabControls(t) ==
    /\ At(t, "lab", "stock")
    /\ \/ Go(t, "error")
       \/ Go(t, IF Stopped(t) THEN "stopped" ELSE "arm")
    /\ UNCHANGED <<gpu, stored, LabRest, latch, manual, used>>

LabArms(t) ==
    /\ At(t, "lab", "arm")
    /\ IF Stopped(t) THEN Go(t, "stopped") /\ UNCHANGED flag
       ELSE flag' = "detector_lab" /\ Go(t, "write")
    /\ UNCHANGED <<hw, stored, LabRest, latch, manual, used>>

(* A write that is not verified has gone back to stock by itself.          *)
LabWrites(t) ==
    /\ At(t, "lab", "write")
    /\ \/ hw' = ManualHw /\ Go(t, "applied") /\ UNCHANGED used
       \/ Fault /\ hw' = Stock /\ Go(t, "error")
    /\ UNCHANGED <<flag, stored, LabRest, latch, manual>>

LabOwnsPoint(t) ==
    /\ At(t, "lab", "applied")
    /\ IF Stopped(t) THEN Go(t, "restore") /\ UNCHANGED manual
       ELSE manual' = PointActive /\ Go(t, "dwell")
    /\ UNCHANGED <<gpu, stored, LabRest, latch, used>>

(* The verdict of the dwell; a stop is looked at once more, before it.     *)
LabDwells(t) ==
    /\ At(t, "lab", "dwell")
    /\ IF Stopped(t) THEN Go(t, "restore")
       ELSE Go(t, "passed") \/ Go(t, "rejected") \/ Go(t, "error")
    /\ UNCHANGED <<gpu, stored, LabRest, latch, manual, used>>

(* Variant: a rejected point is only reported.                             *)
LabRejects_StatusOnly(t) ==
    /\ At(t, "lab", "rejected")
    /\ manual' = PointAtStock /\ Go(t, "over")
    /\ UNCHANGED <<gpu, stored, used, LabRest, latch>>

LabRejects(t) ==
    /\ At(t, "lab", "rejected")
    /\ \/ ResetAndDisarm /\ manual' = PointAtStock /\ Go(t, "over")
       \/ ResetHardwareFails /\ Go(t, "error") /\ UNCHANGED <<flag, stored, manual>>
    /\ UNCHANGED <<LabRest, latch>>

LabRestores(t) ==
    /\ At(t, "lab", "restore")
    /\ \/ ResetAndDisarm /\ Go(t, "stopped")
       \/ ResetHardwareFails /\ Go(t, "error") /\ UNCHANGED <<flag, stored>>
    /\ UNCHANGED <<LabRest, latch, manual>>

LabStopped(t) ==
    /\ At(t, "lab", "stopped")
    /\ manual' = PointAtStock
    /\ Go(t, "over")
    /\ UNCHANGED <<gpu, stored, LabRest, latch, used>>

(* The thread looks for a driver reset of its session, whatever the result.*)
LabConcludes(t) ==
    \/ At(t, "lab", "error") /\ \E tdr \in BOOLEAN : LabRecovers(t, tdr)
    \/ thr[t].kind = "lab" /\ thr[t].pc \in {"over", "passed"} /\ LabRecovers(t, TRUE)
    \/ /\ thr[t].kind = "lab" /\ thr[t].pc \in {"over", "passed"}
       /\ Go(t, "end")
       /\ UNCHANGED <<gpu, stored, LabRest, latch, manual, used>>

LabExits(t) ==
    /\ At(t, "lab", "end")
    /\ run' = [run EXCEPT !["lab"] = FALSE]
    /\ shown' = [shown EXCEPT !["lab"] = FALSE]
    /\ thr' = [thr EXCEPT ![t] = Free]
    /\ UNCHANGED <<stop, gpu, stored, timers, service, used>>

Lab(t) ==
    \/ LabCalibrates(t) \/ LabControls(t) \/ LabArms(t) \/ LabWrites(t) \/ LabOwnsPoint(t)
    \/ LabDwells(t) \/ LabRejects(t) \/ LabRestores(t) \/ LabStopped(t)
    \/ LabConcludes(t) \/ LabExits(t)

-----------------------------------------------------------------------------
(* The Forge worker.  Every `set' publishes its own copy of the progress,  *)
(* running, over whatever a reset has published meanwhile.                 *)

ForgePublishes(t, p) ==
    /\ At(t, "power", p)
    /\ Publish(t, TRUE)
    /\ UNCHANGED <<stored, timers, result, manual, latch, ipc, run, stop>>

ForgeBegins(t) ==
    /\ ForgePublishes(t, "gap")
    /\ Go(t, "check")
    /\ UNCHANGED <<gpu, forge, used>>

(* An armed flag belongs to somebody else: refused, hardware untouched.    *)
ForgeChecks(t) ==
    /\ At(t, "power", "check")
    /\ IF flag # "none" THEN Publish(t, FALSE) /\ Go(t, "end") /\ UNCHANGED gpu
       ELSE hw' = Stock /\ flag' = "none" /\ Go(t, "between") /\ UNCHANGED shown
    /\ UNCHANGED <<stored, timers, service, run, stop, used>>

ForgeTries(t) ==
    /\ ForgePublishes(t, "between")
    /\ ~ Stopped(t)
    /\ hw' = [Stock EXCEPT !.vf = "anchored", !.vlock = TRUE, !.cap = TRUE]
    /\ flag' = "gpu_f2_undervolt_candidate"
    /\ thr' = [thr EXCEPT ![t].n = @ + 1, ![t].pc = "candidate"]
    /\ thr[t].n < CoreCap
    /\ UNCHANGED <<forge, used>>

ForgeRestores(t) ==
    /\ ForgePublishes(t, "candidate")
    /\ hw' = Stock
    /\ flag' = "none"
    /\ Go(t, "between")
    /\ UNCHANGED <<forge, used>>

ForgeConcludes(t) ==
    /\ At(t, "power", "between")
    /\ Publish(t, FALSE)
    /\ result' = [result EXCEPT !.forged = ~ Stopped(t)]
    /\ hw' = Stock
    /\ flag' = "none"
    /\ Go(t, "end")
    /\ UNCHANGED <<stored, timers, manual, forge, latch, ipc, run, stop, used>>

(* A panic is caught here: interrupted, not running, an incident to        *)
(* acknowledge; the GPU and the flag stay as they are.                     *)
ForgePanics(t) ==
    /\ thr[t].kind = "power" /\ thr[t].pc \in {"between", "candidate"}
    /\ Panic
    /\ Publish(t, FALSE)
    /\ forge' = [forge EXCEPT !.incident = TRUE]
    /\ result' = [result EXCEPT !.forged = FALSE]
    /\ Go(t, "end")
    /\ UNCHANGED <<gpu, stored, timers, manual, latch, ipc, run, stop>>

ForgeExits(t) ==
    /\ At(t, "power", "end")
    /\ run' = [run EXCEPT !["power"] = FALSE]
    /\ forge' = [forge EXCEPT !.active = FALSE]
    /\ thr' = [thr EXCEPT ![t] = Free]
    /\ UNCHANGED <<shown, stop, gpu, stored, timers, result, manual, latch, ipc, used>>

ForgeWorker(t) ==
    \/ ForgeBegins(t) \/ ForgeChecks(t) \/ ForgeTries(t) \/ ForgeRestores(t) \/ ForgeConcludes(t) \/ ForgeExits(t)
==============================================================================
