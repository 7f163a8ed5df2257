------------------------------ MODULE GpuWorkers ------------------------------
(***************************************************************************)
(* The GPU workers together under the IPC server (ipc_server.rs).          *)
(* Requests are handled one at a time under the service mutex; workers run *)
(* outside it.  ResetGpuTuning is not leased: it asks every worker to stop *)
(* and resets the GPU at once, in steps a worker can get between.          *)
(***************************************************************************)
EXTENDS DetectorLab

-----------------------------------------------------------------------------
(* Requests.                                                               *)

Idle == ipc = "idle"

Leased == Idle /\ ~ LeaseHeld /\ ~ latch

Budget == used.grants < MaxGrants

(* A start or an apply is granted, with or without a failing driver call;  *)
(* `overlap' remembers that a worker was alive (in its start gap).  The    *)
(* manual point takes turns with the workers and needs no budget.          *)
Spend(grants, faults) ==
    used' = [used EXCEPT !.grants = @ + grants, !.faults = @ + faults, !.reset = FALSE,
                         !.overlap = @ \/ Live # {}]

Grant(faults)  == Spend(1, faults)
Occupy(faults) == Spend(0, faults)

StartLegacy(k) ==
    /\ k \in Offered \cap {"validation", "real", "mem", "forge_all", "benchmark"}
    /\ Leased /\ Budget
    /\ Spawn(k, k = "validation")
    /\ Grant(0)
    /\ UNCHANGED <<gpu, stored, timers, service>>

StartPower ==
    /\ "power" \in Offered
    /\ Leased /\ Budget
    /\ ~ forge.incident
    /\ Spawn("power", FALSE)
    /\ forge' = [forge EXCEPT !.active = TRUE]
    /\ Grant(0)
    /\ UNCHANGED <<gpu, stored, timers, result, manual, latch, ipc>>

(* Not leased: the lab borrows the manual point that holds the lease.      *)
StartLab ==
    /\ "lab" \in Offered
    /\ Idle /\ ~ latch /\ Budget
    /\ manual.active /\ manual.verified
    /\ Spawn("lab", TRUE)
    /\ Grant(0)
    /\ UNCHANGED <<gpu, stored, timers, service>>

StopWorker(k) ==
    /\ Idle /\ run[k] /\ ~ stop[k] /\ k # "validation"
    /\ stop' = [stop EXCEPT ![k] = TRUE]
    /\ UNCHANGED <<thr, run, shown, gpu, stored, timers, service, used>>

(* A write by a handler while a worker is in its start gap.                *)
Marked ==
    [t \in Threads |-> IF t \in Live /\ ~ thr[t].shared THEN [thr[t] EXCEPT !.shared = TRUE]
                       ELSE thr[t]]

(* apply_and_persist: arm, write, save, leave the flag to a timer; a write *)
(* that fails leaves the flag.                                             *)
ApplyF1(p) ==
    /\ Leased /\ Budget
    /\ flag' = "gpu_apply"
    /\ \/ /\ hw' \in ApplyLegacy(p, hw)
          /\ stored' = p
          /\ timers' = timers + 1
          /\ Grant(0)
       \/ /\ used.faults < MaxFaults
          /\ Grant(1)
          /\ UNCHANGED <<hw, stored, timers>>
    /\ thr' = Marked
    /\ UNCHANGED <<handles, service>>

ApplyGodforge == result.profiles /\ ApplyF1([stored EXCEPT !.kind = "F1", !.core = TRUE])

ApplyMemPeak == result.peak > 0 /\ ApplyF1([stored EXCEPT !.kind = "F1", !.mem = result.peak])

ApplyPowerProfile ==
    /\ Leased /\ Budget
    /\ result.forged /\ ~ forge.incident
    /\ flag' = "gpu_apply_undervolt"
    /\ hw' = [hw EXCEPT !.vf = "anchored", !.vlock = TRUE, !.cap = TRUE,
                        !.mem = IF stored.mem > 0 THEN stored.mem ELSE @]
    /\ stored' = [stored EXCEPT !.kind = "F2", !.core = TRUE]
    /\ timers' = timers + 1
    /\ Grant(0)
    /\ thr' = Marked
    /\ UNCHANGED <<handles, service>>

(* The manual point: not over an armed flag; stock first.                  *)
ApplyManual ==
    /\ "lab" \in Offered
    /\ Leased
    /\ flag = "none"
    /\ \/ /\ hw' = ManualHw /\ flag' = "manual_diagnostic_point"
          /\ manual' = PointActive
          /\ Occupy(0)
       \/ /\ used.faults < MaxFaults
          /\ Occupy(1)
          /\ hw' = Stock /\ UNCHANGED <<flag, manual>>
    /\ stored' = NoProfile
    /\ thr' = Marked
    /\ UNCHANGED <<handles, timers, result, forge, latch, ipc>>

ResetManual ==
    /\ Idle /\ ~ run["lab"]
    /\ manual.active
    /\ \/ ResetAndDisarm /\ manual' = PointAtStock
       \/ ResetHardwareFails /\ UNCHANGED <<flag, stored, manual>>
    /\ UNCHANGED <<thr, handles, timers, result, forge, latch, ipc>>

AcknowledgeForgeIncident ==
    /\ Idle /\ forge.incident
    /\ forge' = [forge EXCEPT !.incident = FALSE]
    /\ UNCHANGED <<thr, handles, gpu, stored, timers, result, manual, latch, ipc, used>>

(* ResetGpuTuning, ResetGpuTuningFull: ask the workers to stop ...         *)
ResetAsksToStop ==
    /\ Idle /\ used.resets < MaxResets
    /\ ipc' \in {"reset", "reset_full"}
    /\ stop' = [k \in Kinds |-> k # "validation" \/ stop[k]]
    /\ thr' = Marked
    /\ used' = [used EXCEPT !.resets = @ + 1,
                            !.reset = \A t \in Live : thr[t].kind \notin {"forge_all", "benchmark"}]
    /\ UNCHANGED <<run, shown, gpu, stored, timers, result, manual, forge, latch>>

(* ... reset the GPU and forget the profile; a failure ends the request ...*)
ResetsGpu ==
    /\ ipc \in {"reset", "reset_full"}
    /\ \/ /\ hw' = Stock
          /\ stored' = NoProfile
          /\ ipc' = IF ipc = "reset" THEN "disarm" ELSE "disarm_full"
          /\ UNCHANGED used
       \/ ResetHardwareFails /\ ipc' = "idle" /\ UNCHANGED stored
    /\ UNCHANGED <<thr, handles, flag, timers, result, manual, forge, latch>>

(* ... and disarm, take the manual point back and publish Forge as idle,   *)
(* the only handle a reset forces open.                                    *)
ResetPublishes ==
    /\ ipc \in {"disarm", "disarm_full"}
    /\ flag' = "none"
    /\ manual' = PointAtStock
    /\ run' = [run EXCEPT !["power"] = FALSE]
    /\ shown' = [shown EXCEPT !["power"] = FALSE]
    /\ stop' = [stop EXCEPT !["power"] = TRUE]
    /\ result' = [result EXCEPT !.forged = FALSE]
    /\ forge' = IF ipc = "disarm_full" THEN [forge EXCEPT !.incident = FALSE] ELSE forge
    /\ ipc' = "idle"
    /\ UNCHANGED <<thr, hw, stored, timers, latch, used>>

(* The survival window of an apply: the flag is cleared, whoever armed it. *)
TimerFires ==
    /\ timers > 0
    /\ timers' = timers - 1
    /\ flag' = "none"
    /\ UNCHANGED <<thr, handles, hw, stored, service, used>>

Requests ==
    \/ \E k \in Kinds : StartLegacy(k) \/ StopWorker(k)
    \/ StartPower \/ StartLab
    \/ ApplyGodforge \/ ApplyMemPeak \/ ApplyPowerProfile
    \/ ApplyManual \/ ResetManual \/ AcknowledgeForgeIncident
    \/ ResetAsksToStop

Handler == ResetsGpu \/ ResetPublishes

-----------------------------------------------------------------------------

Worker(t) ==
    \/ ValidationRuns(t) \/ MemSweep(t) \/ RealSweep(t) \/ ForgeAll(t) \/ Benchmark(t)
    \/ Lab(t) \/ ForgeWorker(t) \/ Exit(t)

Panics(t) == ValidationPanics(t) \/ MemPanics(t) \/ AllMemPanics(t) \/ ForgePanics(t)

WNext ==
    \/ Requests \/ Handler \/ TimerFires
    \/ \E t \in Threads : Worker(t) \/ Panics(t)

(* A thread that can go on does: the operating system schedules it and     *)
(* every GPU load it waits for is bounded in time.  Clients promise        *)
(* nothing; a request that is being handled is finished.                   *)
Fairness ==
    /\ \A t \in Threads : WF_vars(Worker(t))
    /\ WF_vars(Handler)

WSpec == LInit /\ [][WNext]_vars /\ Fairness

-----------------------------------------------------------------------------
(* Properties.                                                             *)

ThreadType ==
    [kind : Kinds \cup {"free"},
     pc : {"gap", "init", "end", "loop", "set", "test", "soaks", "soakarm", "soakset", "soak",
           "finish", "vram", "volt", "arm", "next", "synth", "varm", "vset", "vtest", "lock",
           "core", "ctest", "cend", "mem", "mtest", "mend", "package", "stock", "restore",
           "tuned", "write", "applied", "dwell", "passed", "rejected", "stopped", "error",
           "over", "check", "between", "candidate"},
     v : 0 .. Volts + 1, off : -2 .. CoreCap + MemCap, best : -1 .. CoreCap + MemCap,
     n : 0 .. CoreCap + 3, bad : BOOLEAN, shared : BOOLEAN, soaked : 0 .. MemCap,
     ap : [kind : {"none", "F1", "F2"}, core : BOOLEAN, mem : 0 .. MemCap]]

(* The types of the variables; a memory offset that is stored or offered   *)
(* is one a search may have tried, never below stock or above its cap.     *)
WTypeOK ==
    /\ thr \in [Threads -> ThreadType]
    /\ run \in [Kinds -> BOOLEAN] /\ shown \in [Kinds -> BOOLEAN] /\ stop \in [Kinds -> BOOLEAN]
    /\ hw \in [vf : VfStates, mem : 0 .. MemCap, vlock : BOOLEAN, cap : BOOLEAN]
    /\ stored \in [kind : {"none", "F1", "F2"}, core : BOOLEAN, mem : 0 .. MemCap]
    /\ timers \in Nat
    /\ result \in [profiles : BOOLEAN, peak : 0 .. MemCap, forged : BOOLEAN]
    /\ manual \in {PointActive, PointUnknown, PointAtStock}
    /\ ipc \in {"idle", "reset", "reset_full", "disarm", "disarm_full"}

(* A worker is admitted only while every other worker that has published   *)
(* itself was itself caught by an overlap the code allows: a start in      *)
(* another's start gap, or a reset.  What is published therefore covers    *)
(* the whole time each worker uses the GPU.                                *)
GrantedOnlyWhenFree ==
    [][\A t, u \in Threads :
          (t \notin Live /\ t \in Live' /\ Owns(u)) => thr[u].shared]_vars

SweepFlags == {"gpu_mem_sweep", "gpu_mem_validate", "gpu_real_sweep", "gpu_real_validate"}

(* However a core or memory sweep that was alone ends (stop, crash, lost   *)
(* device, failed driver call, cap), it leaves no clock, voltage or memory *)
(* setting and no boot flag of its own behind.  This assumes that the      *)
(* sweep's own last reset succeeds: the code drops its result              *)
(* (let _ = reset_all(), gpu_mem_sweep.rs 287) and clears the flag anyway. *)
SweepEndsAtStock ==
    [][\A t \in Threads :
          (/\ Owns(t) /\ thr[t].kind \in {"real", "mem"} /\ ~ thr[t].shared
           /\ thr'[t].pc = "end" /\ thr'[t].kind # "free")
          => hw' = NvapiReset(hw') /\ flag' \notin SweepFlags]_vars

(* What Forge-all persists and re-applies at every start is a memory       *)
(* offset that held the package soak of this run, or none.                 *)
PackageWasSoaked ==
    [][\A t \in Threads :
          At(t, "forge_all", "package") /\ stored' # stored /\ thr'[t] # thr[t]
          => stored'.mem \in {0, thr[t].soaked}]_vars

(* Once no worker is left and no request is being handled, the manual      *)
(* point's status says what the GPU runs: a verified point is on the GPU,  *)
(* and a manual point on the GPU is reported.  The lab changes both from a *)
(* thread while requests are handled.  Granting a point in another        *)
(* worker's start gap is the lease's known hole, and a reset that failed   *)
(* half-way is reported to the caller only.                                *)
ManualStatusTruthful ==
    Live = {} /\ Idle /\ ~ used.overlap =>
        /\ manual = PointActive /\ used.faults = 0 => hw = ManualHw
        /\ hw.vf = "manual" => manual.active

(* The emergency reset wins: when the last request granted is a reset and  *)
(* every worker it asked to stop is gone, the GPU is at stock, although    *)
(* those workers went on writing for a while.  Forge-all and the benchmark *)
(* apply a profile when they are stopped and are not meant.                *)
ResetReturnsToStock ==
    used.reset /\ Idle /\ Live = {} /\ used.panics + used.faults = 0 => hw = Stock /\ flag = "none" /\ ~ manual.active

(* Whoever holds the lease gives it back, whatever clients do: no search   *)
(* goes on for ever and every end of a worker publishes itself, so that    *)
(* again and again no worker holds the lease (unless one has panicked).    *)
LeaseReturned == []<>(used.panics > 0 \/ \A k \in Kinds : ~ shown[k])

(* FORGE_ACTIVE is true while a live Forge worker owns the GPU.            *)
ForgeActiveWhileLive ==
    \A t \in Threads : Owns(t) /\ thr[t].kind = "power" => forge.active

(* An undervolt profile is never programmed as an F1 ceiling.              *)
UndervoltKeepsItsRoute ==
    stored.kind = "F2" /\ Live = {} => hw.vf \notin {"ceiling", "offset"}
==============================================================================
