----------------------------- MODULE WorkerLease -----------------------------
(***************************************************************************)
(* What the GPU workers of the service share: the GPU, the boot flag, the  *)
(* handle every worker publishes its progress through, and the service-    *)
(* wide lease the IPC server computes from what is published               *)
(* (crates/service/src/ipc_server.rs, gpu_operation_running).              *)
(*                                                                         *)
(* A handle is three cells: `run' admits one worker of a kind, `shown' is  *)
(* the published progress the lease reads, `stop' the flag the worker      *)
(* polls.  A worker sets `shown' itself, some time after `run': between    *)
(* the two it is in its start gap (program counter "gap").                 *)
(*                                                                         *)
(* Offsets count steps of the search (15, 50 or 100 MHz in the code).      *)
(***************************************************************************)
EXTENDS Integers, FiniteSets

CONSTANTS
    Threads,     \* identities for worker threads (numbers)
    Offered,     \* the kinds of worker clients ask for
    MemCap,      \* highest memory offset tried, in steps
    CoreCap,     \* highest core offset tried, in steps
    Volts,       \* voltages of a real sweep (1 is the highest)
    MaxGrants,   \* budget of starts and applies granted
    MaxResets,   \* budget of emergency resets
    MaxPanics,   \* budget of panics outside catch_unwind
    MaxFaults    \* budget of driver calls that fail

Kinds == {"validation", "real", "mem", "forge_all", "benchmark", "power", "lab"}

ASSUME LeaseAssumption ==
    /\ Threads \subseteq Nat /\ Offered \subseteq Kinds
    /\ {MemCap, CoreCap, Volts} \subseteq Nat \ {0}
    /\ {MaxGrants, MaxResets, MaxPanics, MaxFaults} \subseteq Nat

VARIABLES
    thr,     \* the worker threads
    run,     \* handle.running: one worker of a kind
    shown,   \* what the handle publishes: a worker of the kind is running
    stop,    \* handle.stop
    hw,      \* what the driver is programmed with
    flag,    \* the Safe Loop boot flag: who armed it
    stored,  \* gpu_applied.json
    timers,  \* survival windows that will clear the flag
    result,  \* what finished sweeps offer to apply
    manual,  \* the manual diagnostic point's published status
    forge,   \* FORGE_ACTIVE and the pending Forge incident
    latch,   \* GPU_REBOOT_REQUIRED
    ipc,     \* the request the IPC server is in the middle of
    used     \* budgets spent; was the last request a reset; did grants overlap

handles == <<run, shown, stop>>
gpu     == <<hw, flag>>
service == <<result, manual, forge, latch, ipc>>
vars == <<thr, run, shown, stop, hw, flag, stored, timers, result, manual,
          forge, latch, ipc, used>>

Stock == [vf |-> "stock", mem |-> 0, vlock |-> FALSE, cap |-> FALSE]

VfStates == {"stock", "offset", "ceiling", "anchored", "manual"}

(* nvapi reset_all leaves the clock cap, which NVML holds.                 *)
NvapiReset(h) == [Stock EXCEPT !.cap = h.cap]

NoProfile == [kind |-> "none", core |-> FALSE, mem |-> 0]

Free == [kind |-> "free", pc |-> "end", v |-> 0, off |-> 0, best |-> 0,
         n |-> 0, bad |-> FALSE, shared |-> FALSE, soaked |-> 0, ap |-> NoProfile]

NewThread(k) == [Free EXCEPT !.kind = k, !.pc = "gap"]

Live == {t \in Threads : thr[t].kind # "free"}

(* A worker that has published itself and has not yet reported its end.    *)
Owns(t) == t \in Live /\ thr[t].pc \notin {"gap", "end"}

At(t, k, p) == thr[t].kind = k /\ thr[t].pc = p

Go(t, p) == thr' = [thr EXCEPT ![t] = IF p = "end" THEN [NewThread(@.kind) EXCEPT !.pc = p, !.shared = thr[t].shared]
                                      ELSE [@ EXCEPT !.pc = p]]

Panic == used.panics < MaxPanics /\ used' = [used EXCEPT !.panics = @ + 1]
Fault == used.faults < MaxFaults /\ used' = [used EXCEPT !.faults = @ + 1]

LInit ==
    /\ thr = [t \in Threads |-> Free]
    /\ run = [k \in Kinds |-> FALSE]
    /\ shown = [k \in Kinds |-> FALSE]
    /\ stop = [k \in Kinds |-> FALSE]
    /\ hw = Stock
    /\ flag = "none"
    /\ stored = NoProfile
    /\ timers = 0
    /\ result = [profiles |-> FALSE, peak |-> 0, forged |-> FALSE]
    /\ manual = [active |-> FALSE, verified |-> FALSE]
    /\ forge = [active |-> FALSE, incident |-> FALSE]
    /\ latch = FALSE
    /\ ipc = "idle"
    /\ used = [grants |-> 0, resets |-> 0, panics |-> 0, faults |-> 0, reset |-> FALSE, overlap |-> FALSE]

-----------------------------------------------------------------------------
(* The lease.                                                              *)

(* Variant: a Forge-all run is not looked at.                              *)
LeaseHeld_NoForgeAll == manual.active \/ \E k \in Kinds \ {"forge_all"} : shown[k]

LeaseHeld == manual.active \/ \E k \in Kinds : shown[k]

(* A start is granted: the handle's swap, the cleared stop flag, the       *)
(* spawned thread.  Two workers that are alive together are marked.        *)
Spawn(k, published) ==
    /\ ~ run[k]
    /\ \E t \in Threads \ Live :
          /\ \A u \in Threads \ Live : t <= u
          /\ thr' = [u \in Threads |->
                    IF u = t THEN [NewThread(k) EXCEPT !.shared = Live # {},
                                                       !.pc = IF published THEN "init" ELSE "gap"]
                    ELSE IF u \in Live THEN [thr[u] EXCEPT !.shared = TRUE]
                    ELSE thr[u]]
    /\ run' = [run EXCEPT ![k] = TRUE]
    /\ stop' = [stop EXCEPT ![k] = FALSE]
    /\ shown' = IF published THEN [shown EXCEPT ![k] = TRUE] ELSE shown

(* The thread's last statements: the handle admits another worker.         *)
Exit(t) ==
    /\ t \in Live /\ thr[t].pc = "end" /\ thr[t].kind \in Kinds \ {"power", "lab"}
    /\ run' = [run EXCEPT ![thr[t].kind] = FALSE]
    /\ thr' = [thr EXCEPT ![t] = Free]
    /\ UNCHANGED <<shown, stop, gpu, stored, timers, service, used>>

(* A panic outside catch_unwind ends the thread and nothing else: neither  *)
(* `running' nor the published progress is taken back.                     *)
Dies(t) ==
    /\ Panic
    /\ thr' = [thr EXCEPT ![t] = Free]
    /\ UNCHANGED <<handles, gpu, stored, timers, service>>

(* apply_core: the V/F ceiling, or its fallback (an offset and a clock     *)
(* cap), or nothing.                                                       *)
CoreApplied(h) == {[h EXCEPT !.vf = "ceiling"],
                   [h EXCEPT !.vf = "offset", !.cap = TRUE]}
==============================================================================
