---------------------------- MODULE CandidateMotor ----------------------------
(***************************************************************************)
(* One candidate on the hardware (crates/service/src/gpu_undervolt.rs):    *)
(* arm the boot flag, write the curve, verify, load the GPU, reset,        *)
(* blacklist, take the flag down.  Two motors share the steps:             *)
(*   "transaction"  several phases under one write (the descent);          *)
(*   "step"         one phase (calibration, the exact-Apply gate).         *)
(* Each access to the driver or the disk is an action and may fail.        *)
(*                                                                         *)
(* One target clock is under search, so a point is its voltage: the        *)
(* blacklist is the set of the blacklisted voltages at that clock, and by  *)
(* the field floor everything at or below one of them is refused.          *)
(***************************************************************************)
EXTENDS PowerEvidence

CONSTANTS
    Target,     \* the clock under search, MHz
    MaxFaults   \* bound: failing driver or disk accesses

ASSUME MotorAssumption == Target \in Nat /\ MaxFaults \in Nat

VARIABLES
    flag,       \* the armed intent in boot_flag.json: a voltage, or None
    hw,         \* the voltage the driver's curve and rail are set to, or None
    blacklist,  \* safe_loop.json, at this clock
    motor,      \* the candidate being executed
    faults      \* consumption of MaxFaults

mvars == <<flag, hw, blacklist, motor, faults>>

IdleMotor ==
    [pc      |-> "idle",     \* the next step
     mode    |-> "step",
     mv      |-> None,       \* the candidate
     reports |-> <<>>,       \* one report per phase
     resetOk |-> FALSE, saved |-> FALSE,
     clean   |-> FALSE,      \* F2TransactionCleanup::clean
     retain  |-> FALSE]      \* F2TransactionCleanup::retain_boot_flag

MotorInit ==
    /\ flag = None
    /\ hw = None
    /\ blacklist = {}
    /\ motor = IdleMotor
    /\ faults = 0

Fault == faults < MaxFaults /\ faults' = faults + 1
NoFault == UNCHANGED faults

Blacklisted(mv) == \E bad \in blacklist : mv <= bad

(* The check immediately before a candidate's write (Safe Mode is latched  *)
(* only at a service start, before a search exists).                       *)
Selectable(mv) == flag = None /\ ~ Blacklisted(mv)

EmptyReport ==
    [kind |-> "Discovery", outcome |-> "Validated", p99 |-> None, p5 |-> None,
     capped |-> FALSE, thermal |-> FALSE, clean |-> FALSE, confirmed |-> FALSE,
     retryable |-> FALSE]

Report(kind, outcome) == [EmptyReport EXCEPT !.kind = kind, !.outcome = outcome]

Begin(mode, mv) ==
    motor' = [IdleMotor EXCEPT !.pc = "arm", !.mode = mode, !.mv = mv]

Fails(kind, outcome) == Append(motor.reports, Report(kind, outcome))

-----------------------------------------------------------------------------
(* Up to the load.                                                         *)

(* A failed arm ends the candidate; the reset finds stock.                 *)
ArmBootFlag ==
    /\ motor.pc = "arm"
    /\ \/ /\ flag' = motor.mv
          /\ motor' = [motor EXCEPT !.pc = "write"]
          /\ NoFault
       \/ /\ Fault
          /\ motor' = [motor EXCEPT !.pc = "done", !.reports = Fails("Discovery", "ArmFailed")]
          /\ UNCHANGED flag
    /\ UNCHANGED <<hw, blacklist>>

(* Rail lock, curve, clock ceiling; a failure can leave part of them.      *)
ApplyPositiveOffset ==
    /\ motor.pc = "write"
    /\ \/ /\ hw' = motor.mv
          /\ motor' = [motor EXCEPT !.pc = "verify"]
          /\ NoFault
       \/ /\ Fault
          /\ hw' \in {hw, motor.mv}
          /\ motor' = [motor EXCEPT !.pc = "reset", !.reports = Fails("Discovery", "ApplyFailed")]
    /\ UNCHANGED <<flag, blacklist>>

VerifyOffset ==
    /\ motor.pc = "verify"
    /\ \/ motor' = [motor EXCEPT !.pc = "active"] /\ NoFault
       \/ /\ Fault
          /\ motor' = [motor EXCEPT !.pc = "reset", !.reports = Fails("Discovery", "VerifyFailed")]
    /\ UNCHANGED <<flag, hw, blacklist>>

(* A phase under load: what the caller sees of it is r.                    *)
RunPhase(r) == [motor EXCEPT !.reports = Append(@, r)]

Finish(m) == [m EXCEPT !.pc = "reset"]

-----------------------------------------------------------------------------
(* Cleanup.                                                                *)

LostDevice == \E r \in Reports(motor.reports) : r.outcome = "DeviceLost"

Condemns ==
    LostDevice \/ \E r \in Reports(motor.reports) : r.outcome \in {"SilentError", "Unstable"}

(* Variant: the reset is not read back.                                    *)
ResetToStock_Unchecked ==
    /\ motor.pc = "reset"
    /\ \/ hw' = None /\ motor' = [motor EXCEPT !.resetOk = TRUE, !.pc = "blacklist"] /\ NoFault
       \/ /\ Fault
          /\ hw' \in {hw, None}
          /\ motor' = [motor EXCEPT !.resetOk = TRUE, !.pc = "blacklist"]
    /\ UNCHANGED <<flag, blacklist>>

(* The reset counts only if every bin and the rail lock read back stock.   *)
ResetToStock ==
    /\ motor.pc = "reset"
    /\ \/ hw' = None /\ motor' = [motor EXCEPT !.resetOk = TRUE, !.pc = "blacklist"] /\ NoFault
       \/ /\ Fault
          /\ hw' \in {hw, None}
          /\ motor' = [motor EXCEPT !.resetOk = FALSE, !.pc = "blacklist"]
    /\ UNCHANGED <<flag, blacklist>>

BlacklistPoint ==
    /\ motor.pc = "blacklist"
    /\ \/ ~ Condemns /\ motor' = [motor EXCEPT !.pc = "clear"] /\ NoFault /\ UNCHANGED blacklist
       \/ /\ Condemns
          /\ blacklist' = blacklist \cup {motor.mv}
          /\ motor' = [motor EXCEPT !.saved = TRUE, !.pc = "clear"]
          /\ NoFault
       \/ /\ Condemns /\ Fault
          /\ motor' = [motor EXCEPT !.pc = "clear"]
          /\ UNCHANGED blacklist
    /\ UNCHANGED <<flag, hw>>

(* Variant: only a failed reset keeps the flag.                            *)
KeepsFlag_ResetOnly == ~ motor.resetOk

(* Only a transaction treats an unsaved blacklist as a reason to keep the  *)
(* flag; a step ignores it.                                                *)
KeepsFlag ==
    \/ LostDevice
    \/ ~ motor.resetOk
    \/ motor.mode = "transaction" /\ Condemns /\ ~ motor.saved

MarkLast(outcome) ==
    [n \in DOMAIN motor.reports |->
        IF n = Len(motor.reports) THEN [motor.reports[n] EXCEPT !.outcome = outcome] ELSE motor.reports[n]]

Dirty(reports) ==
    motor' = [motor EXCEPT !.pc = "done", !.clean = FALSE, !.retain = TRUE, !.reports = reports]

RetainBootFlag ==
    /\ motor.pc = "clear"
    /\ KeepsFlag
    /\ Dirty(IF LostDevice THEN motor.reports ELSE MarkLast("ResetFailed"))
    /\ UNCHANGED <<flag, hw, blacklist, faults>>

ClearBootFlag ==
    /\ motor.pc = "clear"
    /\ ~ KeepsFlag
    /\ \/ /\ flag' = None
          /\ motor' = [motor EXCEPT !.pc = "done", !.clean = TRUE, !.retain = FALSE,
                                    !.reports = [n \in DOMAIN @ |-> [@[n] EXCEPT !.clean = TRUE]]]
          /\ NoFault
       \/ Fault /\ Dirty(MarkLast("ResetFailed")) /\ UNCHANGED flag
    /\ UNCHANGED <<hw, blacklist>>

MotorStep ==
    \/ ArmBootFlag \/ ApplyPositiveOffset \/ VerifyOffset
    \/ ResetToStock \/ BlacklistPoint \/ RetainBootFlag \/ ClearBootFlag

-----------------------------------------------------------------------------
(* The environment.                                                        *)

(* The worker panics under load: the transaction's guard resets, best      *)
(* effort, and leaves the flag to startup recovery.                        *)
PanicReset ==
    /\ motor.pc = "active" /\ motor.mode = "transaction"
    /\ Fault
    /\ hw' \in {hw, None}
    /\ motor' = IdleMotor
    /\ UNCHANGED <<flag, blacklist>>

(* The machine goes down; the next start blacklists the armed intent       *)
(* before anything else runs (SafeLoop has the steps).                     *)
RebootAndRecover ==
    /\ hw' = None
    /\ flag' = None
    /\ blacklist' = IF flag = None THEN blacklist ELSE blacklist \cup {flag}
    /\ motor' = IdleMotor
    /\ UNCHANGED faults

-----------------------------------------------------------------------------
MotorTypeOK ==
    /\ flag \in Int /\ hw \in Int
    /\ blacklist \subseteq Int
    /\ motor.pc \in {"idle", "arm", "write", "verify", "active", "reset", "blacklist", "clear", "done"}
    /\ motor.mode \in {"step", "transaction"}
    /\ faults \in 0 .. MaxFaults

(* Both motors keep the promise of GuardedWrite.                           *)
Guard == INSTANCE GuardedWrite WITH tuned <- hw # None, armed <- flag # None
==============================================================================
