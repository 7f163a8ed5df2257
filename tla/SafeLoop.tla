------------------------------ MODULE SafeLoop ------------------------------
(***************************************************************************)
(* The crash-recovery loop of the Core Service: what the service does to   *)
(* its files and to the GPU between two power cycles.                      *)
(*                                                                         *)
(* Durable state (files of the data directory): the boot flag, the Safe    *)
(* Loop record, the clean-shutdown marker, the applied profile, the Forge  *)
(* checkpoint, the condemnation ledger (rigid entries of this GPU) and the *)
(* sentinel's event cursor.  Windows contributes its event log; the driver *)
(* keeps the V/F curve and the locks until a reboot or a driver reset.     *)
(*                                                                         *)
(* Every file write that a crash can separate from the next one is a step  *)
(* of its own in the start sequence, in an apply and in a Forge candidate. *)
(* IPC handlers that only touch files run under the service mutex and are  *)
(* one step.  So are the refusals of an apply and the arming of its flag:  *)
(* what the sentinel latches or condemns in between is missed there as it  *)
(* is between the arming and the write.  A Forge request is two steps:     *)
(* what the handler has tested may have changed when the run is active.    *)
(* The live TDR watcher is the business of module Sentinel; the ownership  *)
(* race between two Forge workers, and the Detector Lab that a service     *)
(* stop also stops, that of module GpuWorkers.                             *)
(* Abstractions: memory offsets (an F1 apply with no core point is a       *)
(* memory-only profile), quarantine entries, and Forge Resume are left out *)
(***************************************************************************)
EXTENDS SafeLoopCore, Condemnation

CONSTANTS
    Pairs,          \* points of the V/F plane, records [mhz, mv, off]
    Candidates,     \* bound: the points a Forge run tries
    NoProfile,      \* gpu_applied.json absent
    NoCheckpoint,   \* forge_state.json absent
    NoBaseline,     \* sentinel_baseline.txt absent
    NoJob,          \* no apply under way
    OperatorMenu,   \* the requests the operator may send
    OldTdr,         \* TDR events on the log when the program is installed
    MaxFaults,      \* bound: machine crashes, service kills, driver resets
    MaxOps,         \* bound: operator requests
    MaxTimers       \* bound: survival timers pending together

ASSUME PairsAssumption ==
    /\ Pairs \subseteq [mhz : Nat, mv : Nat, off : Nat]
    /\ Candidates \subseteq Pairs
    /\ Stock \notin Pairs

ASSUME BoundsAssumption ==
    /\ MaxFaults \in Nat /\ MaxOps \in Nat /\ MaxTimers \in Nat
    /\ OldTdr \in Nat

(* The file gpu_applied.json is absent, or holds one of these.             *)
AppliedProfile == [kind : {"F1", "F2"}, pair : Pairs \cup {Stock}]

ASSUME AbsentAssumption == NoProfile \notin AppliedProfile

(* The event cursor is absent, or an event number.                         *)
ASSUME BaselineAssumption == NoBaseline \notin Nat

VARIABLES
    flag,        \* boot_flag.json: the armed intent, or NoFlag
    record,      \* safe_loop.json
    clean,       \* the clean-shutdown marker exists
    applied,     \* gpu_applied.json: [kind, pair], or NoProfile
    checkpoint,  \* forge_state.json: a Progress, or NoCheckpoint
    ledger,      \* condemnation_ledger.jsonl: rigid <<mhz, mv>>
    baseline,    \* sentinel_baseline.txt: a TDR event number, or NoBaseline
    log,         \* the Windows event log: bugchecks and TDR events
    hw,          \* the driver: the programmed curve and the locks
    pc,          \* where the service process is
    latch,       \* the process-local "reboot required" latch
    job,         \* the apply or the Forge request under way, or NoJob
    timers,      \* survival timers running
    manual,      \* a manual diagnostic point is active
    prog,        \* the in-memory PowerSweepProgress
    forge,       \* the Forge worker
    hist,        \* what happened so far (observer, read by properties only)
    used         \* bounds consumed

vars == <<flag, record, clean, applied, checkpoint, ledger, baseline, log, hw,
          pc, latch, job, timers, manual, prog, forge, hist, used>>

-----------------------------------------------------------------------------
(* Intents and refusals.                                                   *)

(* f2_intent: the axes of a Forge candidate and of a manual point.         *)
F2Intent(p) ==
    [NoAxes EXCEPT !["gpu_freq_mhz"] = p.mhz,
                   !["gpu_vf_bin_mv"] = p.mv,
                   !["gpu_offset_mhz"] = p.off]

(* The 2-axis intent of a field failure.                                   *)
FieldIntent(p) ==
    [NoAxes EXCEPT !["gpu_freq_mhz"] = p.mhz, !["gpu_vf_bin_mv"] = p.mv]

(* The intent an apply arms: a measured-voltage axis, not the VF-bin axis. *)
ApplyIntent(p) ==
    IF p = Stock THEN NoAxes
    ELSE [NoAxes EXCEPT !["gpu_freq_mhz"] = p.mhz, !["gpu_voltage_mv"] = p.mv]

Pair2(p) == <<p.mhz, p.mv>>

(* The centres that carry both V/F axes, as condemned pairs.               *)
FieldPairs(rec) ==
    {<<c["gpu_freq_mhz"], c["gpu_vf_bin_mv"]>> :
        c \in {d \in rec.blacklist : HasAxis(d, "gpu_freq_mhz") /\ HasAxis(d, "gpu_vf_bin_mv")}}

FieldPairBlacklisted(rec, p) ==
    \/ IsBlacklisted(rec, FieldIntent(p))
    \/ AtOrBelowFloor(FieldPairs(rec), p.mhz, p.mv)

CandidateBlacklisted(rec, p) ==
    IsBlacklisted(rec, F2Intent(p)) \/ FieldPairBlacklisted(rec, p)

LedgerRefuses(p) == Refuses(ledger, {}, p.mhz, p.mv)

StripGpuVfBlacklist(rec) ==
    [rec EXCEPT !.blacklist = {c \in @ : ~ HasAxis(c, "gpu_freq_mhz")}]

-----------------------------------------------------------------------------
(* State of the parts.                                                     *)

StockHw == [curve |-> Stock, lock |-> FALSE]

Point == Pairs \cup {Stock}

Progress ==
    [running   : BOOLEAN,
     phase     : {"idle", "power", "stopping", "needs_attention", "interrupted",
                  "incomplete", "paused", "finished", "field_rejected"},
     run       : Nat,
     profile   : Point,
     qualified : BOOLEAN]

IdleProgress ==
    [running |-> FALSE, phase |-> "idle", run |-> 0, profile |-> Stock, qualified |-> FALSE]

IdleForge ==
    [step |-> "idle", cand |-> Stock, good |-> Stock, run |-> 0, clean |-> FALSE,
     stop |-> "no", outcome |-> "none", retain |-> FALSE]

ForgeSteps ==
    {"idle", "starting", "preheat", "select", "armed", "dwell", "reset",
     "blacklist", "clear", "final"}

StartupSteps ==
    {"reconcile", "reconcile_save", "recover", "disarm", "commit", "guard",
     "tdr", "tdr_condemn", "tdr_clear", "tdr_baseline", "reapply"}

Armed == flag # NoFlag

Arm(intent, phase) == flag' = [intent |-> intent, phase |-> phase]

(* gpu_operation_running: the lease, as far as this module sees it.        *)
LeaseFree == ~ prog.running /\ ~ manual

(* A request reaches the service: it is up, and no handler holds the lock. *)
Request(op) ==
    /\ op \in OperatorMenu
    /\ pc = "ready" /\ job = NoJob
    /\ used.ops < MaxOps
    /\ used' = [used EXCEPT !.ops = @ + 1]

(* The reset requests and the service stop do not take the lease; under a  *)
(* live Forge worker they happen only when the menu says so.               *)
ResetOffered == forge.step = "idle" \/ "busy" \in OperatorMenu

-----------------------------------------------------------------------------
Init ==
    /\ flag = NoFlag
    /\ record = DefaultRecord
    /\ clean = FALSE
    /\ applied = NoProfile
    /\ checkpoint = NoCheckpoint
    /\ ledger = {}
    /\ baseline = NoBaseline
    /\ log = [class |-> "Unknown", inSession |-> FALSE, tdr |-> OldTdr, thisBoot |-> FALSE]
    /\ hw = StockHw
    /\ pc = "off"
    /\ latch = FALSE
    /\ job = NoJob
    /\ timers = 0
    /\ manual = FALSE
    /\ prog = IdleProgress
    /\ forge = IdleForge
    /\ hist = [bootCrash |-> FALSE, armedBy |-> "none", autoCrashes |-> 0,
               unacked |-> FALSE, crashed |-> {}, wedged |-> {}, kept |-> NoProfile]
    /\ used = [faults |-> 0, ops |-> 0, runs |-> 0]

-----------------------------------------------------------------------------
(* Service start: run_service up to the pipe server.                       *)

(* The service process starts, at boot or again on the same boot.          *)
Start ==
    /\ pc = "off"
    /\ pc' = "reconcile"
    /\ hist' = [hist EXCEPT !.bootCrash = Armed /\ ~ clean,
                            !.armedBy = "stale"]
    /\ UNCHANGED <<flag, record, clean, applied, checkpoint, ledger, baseline, log, hw,
                   latch, job, timers, manual, prog, forge, used>>

(* A checkpoint that still says running: the incident first ...            *)
ReconcileRecord ==
    /\ pc = "reconcile"
    /\ IF checkpoint # NoCheckpoint /\ checkpoint.running
       THEN /\ record' = RecordForgeIncident(record,
                            IF Armed /\ flag.phase = SUPERVISED_F2_FORGE_PHASE /\ ~ clean
                            THEN "CandidateCrash" ELSE "UnaccountedRestart",
                            checkpoint.run)
            /\ pc' = "reconcile_save"
       ELSE /\ pc' = "recover"
            /\ UNCHANGED record
    /\ UNCHANGED <<flag, clean, applied, checkpoint, ledger, baseline, log, hw,
                   latch, job, timers, manual, prog, forge, hist, used>>

(* ... then the checkpoint.                                                *)
ReconcileCheckpoint ==
    /\ pc = "reconcile_save"
    /\ checkpoint' = [checkpoint EXCEPT !.running = FALSE,
                                        !.phase = "needs_attention",
                                        !.qualified = FALSE]
    /\ pc' = "recover"
    /\ UNCHANGED <<flag, record, clean, applied, ledger, baseline, log, hw,
                   latch, job, timers, manual, prog, forge, hist, used>>

(* Variant: every armed flag is taken for a graceful stop.                 *)
RecoverConsumeMarker_AnyFlag ==
    /\ pc = "recover"
    /\ clean' = FALSE
    /\ pc' = IF Armed THEN "disarm" ELSE "commit"
    /\ UNCHANGED <<flag, record, applied, checkpoint, ledger, baseline, log, hw,
                   latch, job, timers, manual, prog, forge, hist, used>>

(* The one-shot marker is consumed before anything is decided.             *)
RecoverConsumeMarker ==
    /\ pc = "recover"
    /\ clean' = FALSE
    /\ pc' = IF Armed /\ clean THEN "disarm" ELSE "commit"
    /\ UNCHANGED <<flag, record, applied, checkpoint, ledger, baseline, log, hw,
                   latch, job, timers, manual, prog, forge, hist, used>>

(* A graceful stop with the flag armed is not a crash.                     *)
RecoverDisarm ==
    /\ pc = "disarm"
    /\ flag' = NoFlag
    /\ pc' = "commit"
    /\ UNCHANGED <<record, clean, applied, checkpoint, ledger, baseline, log, hw,
                   latch, job, timers, manual, prog, forge, hist, used>>

(* Decide, account the crash, keep its flag for apply-on-boot.             *)
RecoverCommit ==
    /\ pc = "commit"
    /\ LET class  == IF Armed THEN log.class ELSE "Unknown"
           action == DecideRecovery(flag, class, record)
       IN  /\ record' = ApplyRecovery(record, action, flag, class)
           /\ flag' = IF RetainBootFlagUntilReapply(action) THEN flag ELSE NoFlag
    /\ pc' = "guard"
    /\ UNCHANGED <<clean, applied, checkpoint, ledger, baseline, log, hw,
                   latch, job, timers, manual, prog, forge, hist, used>>

(* Variant: the guard is left to the watcher, a new process starts open.   *)
InitializeRebootGuard_Forgets ==
    /\ pc = "guard"
    /\ pc' = "tdr"
    /\ UNCHANGED <<flag, record, clean, applied, checkpoint, ledger, baseline, log, hw,
                   latch, job, timers, manual, prog, forge, hist, used>>

(* initialize_reboot_guard: a TDR of this Windows boot closes the GPU.     *)
InitializeRebootGuard ==
    /\ pc = "guard"
    /\ latch' = log.thisBoot
    /\ pc' = "tdr"
    /\ UNCHANGED <<flag, record, clean, applied, checkpoint, ledger, baseline, log, hw,
                   job, timers, manual, prog, forge, hist, used>>

NewTdr == log.tdr > 0 /\ baseline # NoBaseline /\ log.tdr > baseline

SessionBugcheck == log.inSession /\ log.class = "OcInstability"

(* Variant: the event cursor is saved before the demotion.                 *)
StartupReconcile_CursorFirst ==
    /\ pc = "tdr"
    /\ IF applied # NoProfile /\ applied.kind = "F2" /\ (NewTdr \/ SessionBugcheck)
       THEN /\ record' = [record EXCEPT !.blacklist = @ \cup {FieldIntent(applied.pair)}]
            /\ pc' = "tdr_condemn"
       ELSE /\ pc' = "tdr_baseline"
            /\ UNCHANGED record
    /\ baseline' = IF log.tdr > 0 THEN log.tdr ELSE baseline
    /\ UNCHANGED <<flag, clean, applied, checkpoint, ledger, log, hw,
                   latch, job, timers, manual, prog, forge, hist, used>>

(* startup_reconcile: an undervolt whose session ended in a TDR or an OC   *)
(* bugcheck is blacklisted, condemned and forgotten, in this order.        *)
StartupReconcile ==
    /\ pc = "tdr"
    /\ IF applied # NoProfile /\ applied.kind = "F2" /\ (NewTdr \/ SessionBugcheck)
       THEN /\ record' = [record EXCEPT !.blacklist = @ \cup {FieldIntent(applied.pair)}]
            /\ pc' = "tdr_condemn"
       ELSE /\ pc' = "tdr_baseline"
            /\ UNCHANGED record
    /\ UNCHANGED <<flag, clean, applied, checkpoint, ledger, baseline, log, hw,
                   latch, job, timers, manual, prog, forge, hist, used>>

DemoteCondemn ==
    /\ pc = "tdr_condemn"
    /\ ledger' = ledger \cup {Pair2(applied.pair)}
    /\ pc' = "tdr_clear"
    /\ UNCHANGED <<flag, record, clean, applied, checkpoint, baseline, log, hw,
                   latch, job, timers, manual, prog, forge, hist, used>>

DemoteClearApplied ==
    /\ pc = "tdr_clear"
    /\ applied' = NoProfile
    /\ hist' = [hist EXCEPT !.kept = NoProfile]
    /\ pc' = "tdr_baseline"
    /\ UNCHANGED <<flag, record, clean, checkpoint, ledger, baseline, log, hw,
                   latch, job, timers, manual, prog, forge, used>>

(* The event cursor moves only when there is an event to point at.         *)
PersistBaseline ==
    /\ pc = "tdr_baseline"
    /\ baseline' = IF log.tdr > 0 THEN log.tdr ELSE baseline
    /\ pc' = "reapply"
    /\ UNCHANGED <<flag, record, clean, applied, checkpoint, ledger, log, hw,
                   latch, job, timers, manual, prog, forge, hist, used>>

(* restore_handle: what the service remembers of the last Forge.           *)
RestoredProgress ==
    IF checkpoint = NoCheckpoint THEN IdleProgress
    ELSE LET rejected == /\ checkpoint.qualified
                         /\ \/ FieldPairBlacklisted(record, checkpoint.profile)
                            \/ LedgerRefuses(checkpoint.profile)
             waiting  == record.pending # NoIncident
         IN  [checkpoint EXCEPT
                !.running = FALSE,
                !.qualified = @ /\ ~ rejected /\ ~ waiting,
                !.phase = IF waiting THEN "needs_attention"
                          ELSE IF rejected THEN "field_rejected"
                          ELSE IF checkpoint.running THEN "interrupted" ELSE @]

(* The handles are built and the pipe server opens.                        *)
OpenPipe == pc' = "ready" /\ prog' = RestoredProgress

MayReapply ==
    /\ ~ latch
    /\ ~ Armed
    /\ ~ record.safe_mode
    /\ record.pending = NoIncident
    /\ applied # NoProfile

(* reapply_on_boot, the refusals: the locks are released, an accounted     *)
(* flag is disarmed (unless the reboot latch returned first).              *)
SkipReapply ==
    /\ pc = "reapply" /\ job = NoJob /\ ~ MayReapply
    /\ hw' = [hw EXCEPT !.lock = FALSE]
    /\ flag' = IF latch THEN flag ELSE NoFlag
    /\ OpenPipe
    /\ UNCHANGED <<record, clean, applied, checkpoint, ledger, baseline, log,
                   latch, job, timers, manual, forge, hist, used>>

ApplyPhase(kind) == IF kind = "F2" THEN "gpu_apply_undervolt" ELSE "gpu_apply"

(* reapply_on_boot, the re-apply: the flag is armed before the write.      *)
ReapplyArm ==
    /\ pc = "reapply" /\ job = NoJob /\ MayReapply
    /\ Arm(ApplyIntent(applied.pair), ApplyPhase(applied.kind))
    /\ hw' = [hw EXCEPT !.lock = FALSE]
    /\ job' = [who |-> "boot", kind |-> applied.kind, pair |-> applied.pair,
               core |-> TRUE, step |-> "write"]
    /\ hist' = [hist EXCEPT !.armedBy = "boot"]
    /\ UNCHANGED <<record, clean, applied, checkpoint, ledger, baseline, log,
                   pc, latch, timers, manual, prog, forge, used>>

-----------------------------------------------------------------------------
(* Apply: arm, write, persist; a timer disarms after the survival window.  *)

(* What the boot path does once its apply has returned.                    *)
ApplyReturns(who) ==
    /\ job' = NoJob
    /\ IF who = "boot" THEN OpenPipe ELSE UNCHANGED <<pc, prog>>

ApplyWriteOk ==
    /\ job # NoJob /\ job.kind # "Manual" /\ job.step = "write"
    /\ hw' = IF job.kind = "F2" THEN [curve |-> job.pair, lock |-> TRUE]
             ELSE IF job.pair = Stock THEN hw
             ELSE [hw EXCEPT !.curve = job.pair]
    /\ job' = [job EXCEPT !.step = "save"]
    /\ UNCHANGED <<flag, record, clean, applied, checkpoint, ledger, baseline, log,
                   pc, latch, timers, manual, prog, forge, hist, used>>

(* A refused or unverified write returns with the flag still armed, part   *)
(* of the point perhaps written.  The undervolt writer resets first; its   *)
(* own recovery may fail as well.                                          *)
ApplyWriteFails ==
    /\ job # NoJob /\ job.kind # "Manual" /\ job.step = "write"
    /\ \E curve \in {hw.curve} \cup ({job.pair} \ {Stock})
                        \cup (IF job.kind = "F2" THEN {Stock} ELSE {}) :
           hw' = [curve |-> curve, lock |-> hw.lock /\ curve # Stock]
    /\ ApplyReturns(job.who)
    /\ UNCHANGED <<flag, record, clean, applied, checkpoint, ledger, baseline, log,
                   latch, timers, manual, forge, hist, used>>

(* Variant: the flag is cleared as soon as the profile is saved.           *)
ApplySave_DisarmsAtOnce ==
    /\ job # NoJob /\ job.step = "save"
    /\ applied' = [kind |-> job.kind, pair |-> job.pair]
    /\ log' = [log EXCEPT !.inSession = FALSE]
    /\ timers' = timers + 1
    /\ flag' = NoFlag
    /\ ApplyReturns(job.who)
    /\ hist' = IF job.core THEN [hist EXCEPT !.kept = applied'] ELSE hist
    /\ UNCHANGED <<record, clean, checkpoint, ledger, baseline, hw,
                   latch, manual, forge, used>>

(* save_applied stamps a new session; the survival timer starts.           *)
ApplySave ==
    /\ job # NoJob /\ job.step = "save"
    /\ applied' = [kind |-> job.kind, pair |-> job.pair]
    /\ log' = [log EXCEPT !.inSession = FALSE]
    /\ timers' = timers + 1
    /\ ApplyReturns(job.who)
    /\ hist' = IF job.core THEN [hist EXCEPT !.kept = applied'] ELSE hist
    /\ UNCHANGED <<flag, record, clean, checkpoint, ledger, baseline, hw,
                   latch, manual, forge, used>>

(* The thread clears whatever flag is on disk by then.                     *)
SurvivalTimer ==
    /\ timers > 0
    /\ timers' = timers - 1
    /\ flag' = NoFlag
    /\ UNCHANGED <<record, clean, applied, checkpoint, ledger, baseline, log, hw,
                   pc, latch, job, manual, prog, forge, hist, used>>

(* An IPC apply, its refusals passed, arms the flag.                       *)
BeginApply(kind, p, core) ==
    /\ LeaseFree /\ ~ latch
    /\ timers < MaxTimers
    /\ Arm(ApplyIntent(p), ApplyPhase(kind))
    /\ job' = [who |-> "ipc", kind |-> kind, pair |-> p, core |-> core, step |-> "write"]
    /\ hist' = [hist EXCEPT !.armedBy = "operator"]
    /\ UNCHANGED <<record, clean, applied, checkpoint, ledger, baseline, log, hw,
                   pc, latch, timers, manual, prog, forge>>

(* ApplyPower*: a qualified Forge profile through the anchored writer.     *)
ApplyForgeProfile ==
    /\ Request("apply_f2")
    /\ record.pending = NoIncident
    /\ prog.qualified /\ prog.profile # Stock
    /\ ~ FieldPairBlacklisted(record, prog.profile)
    /\ ~ LedgerRefuses(prog.profile)
    /\ BeginApply("F2", prog.profile, TRUE)

(* ApplyGodforge and its siblings: a point of the ceiling sweep.           *)
ApplySweepProfile ==
    /\ Request("apply_f1")
    /\ \E p \in Pairs : BeginApply("F1", p, TRUE)

(* Variant: a memory apply that forgets the stored core point.             *)
ApplyMemPeak_DropsCore ==
    /\ Request("apply_mem")
    /\ BeginApply("F1", Stock, applied = NoProfile)

(* ApplyMemPeak: the stored core point again, always by the F1 writer.     *)
ApplyMemPeak ==
    /\ Request("apply_mem")
    /\ IF applied = NoProfile THEN BeginApply("F1", Stock, TRUE)
       ELSE BeginApply("F1", applied.pair, FALSE)

-----------------------------------------------------------------------------
(* The manual diagnostic point.                                            *)

ManualApply ==
    /\ Request("manual")
    /\ LeaseFree /\ ~ latch
    /\ ~ record.safe_mode /\ ~ Armed
    /\ \E p \in Pairs :
           /\ Arm(F2Intent(p), "manual_diagnostic_point")
           /\ job' = [who |-> "ipc", kind |-> "Manual", pair |-> p, core |-> TRUE, step |-> "write"]
    /\ hw' = StockHw
    /\ applied' = NoProfile
    /\ hist' = [hist EXCEPT !.armedBy = "operator", !.kept = NoProfile]
    /\ UNCHANGED <<record, clean, checkpoint, ledger, baseline, log,
                   pc, latch, timers, manual, prog, forge>>

(* The flag stays armed for as long as the point is active.                *)
ManualWriteOk ==
    /\ job # NoJob /\ job.kind = "Manual"
    /\ hw' = [curve |-> job.pair, lock |-> TRUE]
    /\ manual' = TRUE
    /\ job' = NoJob
    /\ UNCHANGED <<flag, record, clean, applied, checkpoint, ledger, baseline, log,
                   pc, latch, timers, prog, forge, hist, used>>

(* reset_and_disarm: a confirmed stock reset clears profile and flag.      *)
ManualWriteFails ==
    /\ job # NoJob /\ job.kind = "Manual"
    /\ \/ hw' = StockHw /\ flag' = NoFlag
       \/ UNCHANGED <<hw, flag>>
    /\ job' = NoJob
    /\ applied' = NoProfile
    /\ UNCHANGED <<record, clean, checkpoint, ledger, baseline, log,
                   pc, latch, timers, manual, prog, forge, hist, used>>

ManualReset ==
    /\ Request("manual_reset")
    /\ ResetOffered
    /\ \/ /\ hw' = StockHw /\ flag' = NoFlag /\ applied' = NoProfile /\ manual' = FALSE
          /\ hist' = [hist EXCEPT !.kept = NoProfile]
       \/ UNCHANGED <<hw, flag, applied, manual, hist>>
    /\ UNCHANGED <<record, clean, checkpoint, ledger, baseline, log,
                   pc, latch, job, timers, prog, forge>>

-----------------------------------------------------------------------------
(* Operator recovery.                                                      *)

(* abort: a non-resumable stop.                                            *)
AbortForge == forge' = IF forge.step = "idle" THEN forge ELSE [forge EXCEPT !.stop = "abort"]

(* recover_after_reset                                                     *)
ProgressAfterReset ==
    IF prog.phase \in {"needs_attention", "interrupted"}
    THEN [prog EXCEPT !.running = FALSE, !.phase = "interrupted", !.qualified = FALSE]
    ELSE IdleProgress

(* "Reset all": stock, no profile, the recovery latch released.            *)
ResetGpuTuning ==
    /\ Request("reset")
    /\ ResetOffered
    /\ AbortForge
    /\ \/ /\ hw' = StockHw
          /\ applied' = NoProfile
          /\ record' = ClearRecoveryLatch(record)
          /\ flag' = NoFlag
          /\ manual' = FALSE
          /\ prog' = ProgressAfterReset
          /\ hist' = [hist EXCEPT !.autoCrashes = 0, !.kept = NoProfile]
       \/ UNCHANGED <<hw, applied, record, flag, manual, prog, hist>>
    /\ UNCHANGED <<clean, checkpoint, ledger, baseline, log, pc, latch, job, timers>>

(* The full reset forgets all learning except the condemnation ledger.     *)
ResetGpuTuningFull ==
    /\ Request("reset_full")
    /\ ResetOffered
    /\ AbortForge
    /\ \/ /\ hw' = StockHw
          /\ applied' = NoProfile
          /\ record' = DefaultRecord
          /\ flag' = NoFlag
          /\ manual' = FALSE
          /\ checkpoint' = NoCheckpoint
          /\ baseline' = NoBaseline
          /\ prog' = IdleProgress
          /\ hist' = [hist EXCEPT !.autoCrashes = 0, !.unacked = FALSE, !.crashed = {},
                                  !.kept = NoProfile]
       \/ UNCHANGED <<hw, applied, record, flag, manual, checkpoint, baseline, prog, hist>>
    /\ UNCHANGED <<clean, ledger, log, pc, latch, job, timers>>

AcknowledgeIncident ==
    /\ Request("ack")
    /\ record.pending # NoIncident
    /\ record' = AcknowledgeForgeIncident(record)
    /\ hist' = [hist EXCEPT !.unacked = FALSE]
    /\ UNCHANGED <<flag, clean, applied, checkpoint, ledger, baseline, log, hw,
                   pc, latch, job, timers, manual, prog, forge>>

(* The operator reports the forged profile unstable in real use.           *)
ReportProfileUnstable ==
    /\ Request("report")
    /\ ~ prog.running
    /\ prog.profile # Stock
    /\ record' = [Blacklist(record, F2Intent(prog.profile)) EXCEPT
                    !.state = StateUnlessSafe(record, "Unstable")]
    /\ ledger' = ledger \cup {Pair2(prog.profile)}
    /\ prog' = [prog EXCEPT !.qualified = FALSE, !.phase = "field_rejected"]
    /\ checkpoint' = prog'
    /\ UNCHANGED <<flag, clean, applied, baseline, log, hw,
                   pc, latch, job, timers, manual, forge, hist>>

-----------------------------------------------------------------------------
(* Forge: one supervised run, candidate by candidate.                      *)

(* StartPowerSweep: lease and reboot latch are tested here only ...        *)
ForgeRequest ==
    /\ Request("forge")
    /\ LeaseFree /\ ~ latch
    /\ job' = [who |-> "ipc", kind |-> "Forge", pair |-> Stock, core |-> TRUE, step |-> "start"]
    /\ UNCHANGED <<flag, record, clean, applied, checkpoint, ledger, baseline, log, hw,
                   pc, latch, timers, manual, prog, forge, hist>>

(* ... then start_with_intent looks for an incident and a worker, and the  *)
(* run is active (FORGE_ACTIVE).                                           *)
ForgeStart ==
    /\ job # NoJob /\ job.kind = "Forge"
    /\ job' = NoJob
    /\ IF record.pending = NoIncident /\ forge.step = "idle"
       THEN \E organic \in (IF "clean_run" \in OperatorMenu THEN BOOLEAN ELSE {FALSE}) :
                forge' = [IdleForge EXCEPT !.step = "starting", !.clean = organic,
                                           !.run = used.runs + 1]
       ELSE UNCHANGED forge
    /\ UNCHANGED <<flag, record, clean, applied, checkpoint, ledger, baseline, log, hw,
                   pc, latch, timers, manual, prog, hist, used>>

(* A clean run archives the checkpoint and strips the working blacklist    *)
(* before the Safe Loop checks of the worker.                              *)
ForgePreflight ==
    /\ forge.step = "starting"
    /\ used' = [used EXCEPT !.runs = @ + 1]
    /\ record' = IF forge.clean THEN StripGpuVfBlacklist(record) ELSE record
    /\ checkpoint' = IF forge.clean THEN NoCheckpoint ELSE checkpoint
    /\ hist' = IF forge.clean THEN [hist EXCEPT !.crashed = {}] ELSE hist
    /\ LET started == [running |-> TRUE, phase |-> "power", run |-> forge.run,
                       profile |-> IF forge.clean THEN Stock ELSE prog.profile,
                       qualified |-> FALSE]
       IN  \/ /\ record.safe_mode \/ Armed
              /\ prog' = [started EXCEPT !.running = FALSE,
                            !.phase = IF record.safe_mode THEN "incomplete" ELSE "interrupted"]
              /\ forge' = IdleForge
              /\ UNCHANGED <<hw, flag>>
           \/ /\ ~ record.safe_mode /\ ~ Armed
              /\ \/ /\ hw' = StockHw /\ flag' = NoFlag
                    /\ prog' = started
                    /\ forge' = [forge EXCEPT !.step = "preheat"]
                 \/ /\ prog' = [started EXCEPT !.running = FALSE, !.phase = "incomplete"]
                    /\ forge' = IdleForge
                    /\ UNCHANGED <<hw, flag>>
    /\ UNCHANGED <<clean, applied, ledger, baseline, log, pc, latch, job, timers, manual>>

(* Preheat or planning gives up before the crash marker is written.        *)
ForgePreheatFails ==
    /\ forge.step = "preheat"
    /\ \/ hw' = StockHw /\ flag' = NoFlag
       \/ UNCHANGED <<hw, flag>>
    /\ prog' = [prog EXCEPT !.running = FALSE,
                  !.phase = IF forge.stop = "pause" /\ hw' = StockHw THEN "paused" ELSE "incomplete"]
    /\ checkpoint' = IF prog'.phase = "paused" THEN prog' ELSE checkpoint
    /\ forge' = IdleForge
    /\ UNCHANGED <<record, clean, applied, ledger, baseline, log,
                   pc, latch, job, timers, manual, hist, used>>

(* The run-wide crash marker, on disk before the first candidate.          *)
ForgeMarkRunning ==
    /\ forge.step = "preheat"
    /\ checkpoint' = prog
    /\ forge' = [forge EXCEPT !.step = "select"]
    /\ UNCHANGED <<flag, record, clean, applied, ledger, baseline, log, hw,
                   pc, latch, job, timers, manual, prog, hist, used>>

(* select + arm_boot_flag.  The 10 s stock preheat outlasts the 8 s        *)
(* survival window, so no timer of an earlier apply is still running.      *)
ForgeArm(p) ==
    /\ forge.step = "select" /\ forge.stop = "no"
    /\ timers = 0
    /\ ~ record.safe_mode /\ ~ Armed
    /\ ~ CandidateBlacklisted(record, p)
    /\ forge.clean \/ ~ LedgerRefuses(p)
    /\ Arm(F2Intent(p), SUPERVISED_F2_FORGE_PHASE)
    /\ forge' = [forge EXCEPT !.step = "armed", !.cand = p]
    /\ hist' = [hist EXCEPT !.armedBy = "forge"]
    /\ UNCHANGED <<record, clean, applied, checkpoint, ledger, baseline, log, hw,
                   pc, latch, job, timers, manual, prog, used>>

(* apply_positive_offset and verify; a failure goes straight to the reset. *)
ForgeWrite ==
    /\ forge.step = "armed"
    /\ \/ /\ hw' = [curve |-> forge.cand, lock |-> TRUE]
          /\ forge' = [forge EXCEPT !.step = "dwell"]
       \/ /\ \E curve \in {Stock, forge.cand} : hw' = [curve |-> curve, lock |-> TRUE]
          /\ forge' = [forge EXCEPT !.step = "reset", !.outcome = "failed"]
    /\ UNCHANGED <<flag, record, clean, applied, checkpoint, ledger, baseline, log,
                   pc, latch, job, timers, manual, prog, hist, used>>

(* "boundary": SilentError or Unstable; "failed": ClockDrop, Inconclusive. *)
ForgeDwell ==
    /\ forge.step = "dwell"
    /\ \E outcome \in {"stable", "boundary", "failed", "lost"} :
           forge' = [forge EXCEPT !.step = "reset", !.outcome = outcome]
    /\ UNCHANGED <<flag, record, clean, applied, checkpoint, ledger, baseline, log, hw,
                   pc, latch, job, timers, manual, prog, hist, used>>

(* Variant: the flag is cleared before the boundary is blacklisted.        *)
ForgeReset_ClearsFirst ==
    /\ forge.step = "reset"
    /\ \E ok \in BOOLEAN :
           /\ hw' = IF ok THEN StockHw ELSE hw
           /\ flag' = IF ok /\ forge.outcome # "lost" THEN NoFlag ELSE flag
           /\ forge' = [forge EXCEPT
                !.retain = ~ ok \/ forge.outcome = "lost",
                !.step = IF forge.outcome \in {"boundary", "lost"} THEN "blacklist"
                         ELSE IF ok THEN "clear" ELSE "final"]
    /\ UNCHANGED <<record, clean, applied, checkpoint, ledger, baseline, log,
                   pc, latch, job, timers, manual, prog, hist, used>>

(* reset_to_stock with readback; a device loss or an unconfirmed reset     *)
(* retains the flag.                                                       *)
ForgeReset ==
    /\ forge.step = "reset"
    /\ \E ok \in BOOLEAN :
           /\ hw' = IF ok THEN StockHw ELSE hw
           /\ forge' = [forge EXCEPT
                !.retain = ~ ok \/ forge.outcome = "lost",
                !.step = IF forge.outcome \in {"boundary", "lost"} THEN "blacklist"
                         ELSE IF ok THEN "clear" ELSE "final"]
    /\ UNCHANGED <<flag, record, clean, applied, checkpoint, ledger, baseline, log,
                   pc, latch, job, timers, manual, prog, hist, used>>

ForgeBlacklist ==
    /\ forge.step = "blacklist"
    /\ record' = Blacklist(record, F2Intent(forge.cand))
    /\ forge' = [forge EXCEPT !.step = IF forge.retain THEN "final" ELSE "clear"]
    /\ UNCHANGED <<flag, clean, applied, checkpoint, ledger, baseline, log, hw,
                   pc, latch, job, timers, manual, prog, hist, used>>

(* Only a confirmed reset clears the flag, and only then is a stable       *)
(* candidate validated.                                                    *)
ForgeClear ==
    /\ forge.step = "clear"
    /\ flag' = NoFlag
    /\ forge' = [forge EXCEPT !.step = "select", !.outcome = "none", !.cand = Stock,
                   !.good = IF forge.outcome = "stable" THEN forge.cand ELSE @]
    /\ UNCHANGED <<record, clean, applied, checkpoint, ledger, baseline, log, hw,
                   pc, latch, job, timers, manual, prog, hist, used>>

(* f2_terminal_phase, with the profiles a complete run publishes.          *)
TerminalProgress(resetOk, complete) ==
    LET published == complete /\ resetOk
        paused    == forge.stop = "pause" /\ resetOk /\ ~ forge.retain
    IN  [prog EXCEPT
            !.running = FALSE,
            !.profile = IF ~ resetOk THEN Stock ELSE IF published THEN forge.good ELSE @,
            !.qualified = published,
            !.phase = IF paused THEN "paused"
                      ELSE IF forge.retain THEN "interrupted"
                      ELSE IF published THEN "finished"
                      ELSE "incomplete"]

(* The final stock reset and the terminal checkpoint.                      *)
ForgeEnd ==
    /\ forge.step \in {"select", "final"}
    /\ \E resetOk \in BOOLEAN, complete \in BOOLEAN :
           /\ complete => /\ forge.step = "select" /\ forge.stop = "no"
                          /\ forge.good # Stock
           /\ hw' = IF resetOk THEN StockHw ELSE hw
           /\ flag' = IF resetOk /\ ~ forge.retain THEN NoFlag ELSE flag
           /\ prog' = TerminalProgress(resetOk, complete)
    /\ checkpoint' = prog'
    /\ forge' = IdleForge
    /\ UNCHANGED <<record, clean, applied, ledger, baseline, log,
                   pc, latch, job, timers, manual, hist, used>>

(* StopPowerSweep: a cooperative pause.                                    *)
ForgeStop ==
    /\ Request("forge_stop")
    /\ forge.step # "idle" /\ forge.stop = "no"
    /\ forge' = [forge EXCEPT !.stop = "pause"]
    /\ prog' = IF prog.running THEN [prog EXCEPT !.phase = "stopping"] ELSE prog
    /\ UNCHANGED <<flag, record, clean, applied, checkpoint, ledger, baseline, log, hw,
                   pc, latch, job, timers, manual, hist>>

-----------------------------------------------------------------------------
(* The end of a process, and of a Windows session.                         *)

(* Everything the process held is gone.                                    *)
ProcessGone ==
    /\ pc' = "off"
    /\ latch' = FALSE
    /\ job' = NoJob
    /\ timers' = 0
    /\ manual' = FALSE
    /\ prog' = IdleProgress
    /\ forge' = IdleForge

ForgeUnderWay == checkpoint # NoCheckpoint /\ checkpoint.running

Fault ==
    /\ used.faults < MaxFaults
    /\ used' = [used EXCEPT !.faults = @ + 1]

(* A candidate armed by the live worker, unless this crash is the one that *)
(* would trip Safe Mode.                                                   *)
CrashedCandidate ==
    IF /\ forge.step \in {"armed", "dwell", "reset"}
       /\ Armed /\ flag.phase = SUPERVISED_F2_FORGE_PHASE
       /\ record.consecutive_crashes + 1 < SAFE_MODE_CRASH_THRESHOLD
    THEN {forge.cand} ELSE {}

(* The applied undervolt, with the evidence that it brought the GPU down.  *)
Wedged(evidence) ==
    IF applied # NoProfile /\ applied.kind = "F2"
    THEN {[pair |-> applied.pair, by |-> e] : e \in evidence} ELSE {}

TdrEvidence == IF baseline = NoBaseline THEN "first_tdr" ELSE "tdr"

(* The machine goes down and reboots: a bugcheck with its class, or a      *)
(* freeze and a power cycle that logs none; the NVIDIA provider may or may *)
(* not have logged its TDR event before.                                   *)
MachineCrash ==
    /\ pc # "off" \/ hw.curve # Stock
    /\ Fault
    /\ \E class \in CrashClass \cup {"freeze"}, tdr \in {0, 1} :
         /\ log' = [class     |-> IF class = "freeze" THEN log.class ELSE class,
                    inSession |-> IF class = "freeze" THEN log.inSession
                                  ELSE applied # NoProfile,
                    tdr       |-> log.tdr + tdr,
                    thisBoot  |-> FALSE]
         /\ hist' = [hist EXCEPT
              !.autoCrashes = IF pc # "off" /\ Armed /\ hist.armedBy = "boot"
                              THEN @ + 1 ELSE @,
              !.unacked = @ \/ ForgeUnderWay,
              !.crashed = @ \cup CrashedCandidate,
              !.wedged = @ \cup Wedged(
                    (IF tdr = 1 THEN {TdrEvidence} ELSE {})
                        \cup (IF class = "OcInstability" THEN {"bugcheck"} ELSE {}))]
    /\ hw' = StockHw
    /\ ProcessGone
    /\ UNCHANGED <<flag, record, clean, applied, checkpoint, ledger, baseline>>

(* The service process dies; Windows and the driver live on.               *)
ServiceKilled ==
    /\ pc # "off"
    /\ Fault
    /\ hist' = [hist EXCEPT !.unacked = @ \/ ForgeUnderWay]
    /\ ProcessGone
    /\ UNCHANGED <<flag, record, clean, applied, checkpoint, ledger, baseline, log, hw>>

(* The driver resets the GPU while no watcher runs.                        *)
DriverResetWhileDown ==
    /\ pc = "off" /\ hw.curve # Stock
    /\ Fault
    /\ log' = [log EXCEPT !.tdr = @ + 1, !.thisBoot = TRUE]
    /\ hw' = StockHw
    /\ hist' = [hist EXCEPT !.wedged = @ \cup Wedged({TdrEvidence})]
    /\ UNCHANGED <<flag, record, clean, applied, checkpoint, ledger, baseline,
                   pc, latch, job, timers, manual, prog, forge>>

(* Stop or Shutdown: the service resets the GPU, profile and flag (and     *)
(* stops the Detector Lab, which is in GpuWorkers) ...                     *)
StopReset ==
    /\ Request("stop")
    /\ ResetOffered
    /\ \/ /\ hw' = StockHw /\ flag' = NoFlag /\ applied' = NoProfile /\ manual' = FALSE
       \/ UNCHANGED <<hw, flag, applied, manual>>
    /\ pc' = "stopping"
    /\ UNCHANGED <<record, clean, checkpoint, ledger, baseline, log,
                   latch, job, timers, prog, forge, hist>>

(* ... and records that the stop was graceful; Windows may go down too.    *)
StopMark ==
    /\ pc = "stopping"
    /\ clean' = TRUE
    /\ hist' = [hist EXCEPT !.unacked = @ \/ ForgeUnderWay]
    /\ \/ UNCHANGED <<hw, log>>
       \/ hw' = StockHw /\ log' = [log EXCEPT !.thisBoot = FALSE]
    /\ ProcessGone
    /\ UNCHANGED <<flag, record, applied, checkpoint, ledger, baseline, used>>

-----------------------------------------------------------------------------
Startup ==
    \/ Start \/ ReconcileRecord \/ ReconcileCheckpoint
    \/ RecoverConsumeMarker \/ RecoverDisarm \/ RecoverCommit
    \/ InitializeRebootGuard
    \/ StartupReconcile \/ DemoteCondemn \/ DemoteClearApplied \/ PersistBaseline
    \/ SkipReapply \/ ReapplyArm

Applying ==
    \/ ApplyWriteOk \/ ApplyWriteFails \/ ApplySave
    \/ ManualWriteOk \/ ManualWriteFails

Operator ==
    \/ ApplyForgeProfile \/ ApplySweepProfile \/ ApplyMemPeak
    \/ ManualApply \/ ManualReset
    \/ ResetGpuTuning \/ ResetGpuTuningFull
    \/ AcknowledgeIncident \/ ReportProfileUnstable
    \/ ForgeRequest \/ ForgeStop
    \/ StopReset

Forge ==
    \/ ForgeStart
    \/ ForgePreflight \/ ForgePreheatFails \/ ForgeMarkRunning
    \/ \E p \in Candidates : ForgeArm(p)
    \/ ForgeWrite \/ ForgeDwell \/ ForgeReset \/ ForgeBlacklist \/ ForgeClear
    \/ ForgeEnd

Environment == SurvivalTimer \/ MachineCrash \/ ServiceKilled \/ DriverResetWhileDown \/ StopMark

Next == Startup \/ Applying \/ Operator \/ Forge \/ Environment

Spec == Init /\ [][Next]_vars

-----------------------------------------------------------------------------
(* Properties.                                                             *)

EventLog == [class : CrashClass, inSession : BOOLEAN, tdr : Nat, thisBoot : BOOLEAN]

Gpu == [curve : Point, lock : BOOLEAN]

Job == [who : {"boot", "ipc"}, kind : {"F1", "F2", "Manual", "Forge"}, pair : Point,
        core : BOOLEAN, step : {"write", "save", "start"}]

ForgeWorker ==
    [step : ForgeSteps, cand : Point, good : Point, run : Nat, clean : BOOLEAN,
     stop : {"no", "pause", "abort"},
     outcome : {"none", "stable", "boundary", "failed", "lost"}, retain : BOOLEAN]

Observed ==
    [bootCrash : BOOLEAN, armedBy : {"none", "stale", "boot", "operator", "forge", "sentinel"},
     autoCrashes : Nat, unacked : BOOLEAN, crashed : SUBSET Point,
     wedged : SUBSET [pair : Point, by : {"tdr", "first_tdr", "bugcheck"}],
     kept : AppliedProfile \cup {NoProfile}]

(* Every variable stays in its domain.                                     *)
TypeOK ==
    /\ flag \in BootFlag \cup {NoFlag}
    /\ record \in SafeLoopRecord
    /\ clean \in BOOLEAN
    /\ applied \in AppliedProfile \cup {NoProfile}
    /\ checkpoint \in Progress \cup {NoCheckpoint}
    /\ ledger \subseteq Nat \X Nat
    /\ baseline \in Nat \cup {NoBaseline}
    /\ log \in EventLog
    /\ hw \in Gpu
    /\ pc \in StartupSteps \cup {"off", "ready", "stopping"}
    /\ latch \in BOOLEAN
    /\ job \in Job \cup {NoJob}
    /\ timers \in Nat
    /\ manual \in BOOLEAN
    /\ prog \in Progress
    /\ forge \in ForgeWorker
    /\ hist \in Observed
    /\ used \in [faults : Nat, ops : Nat, runs : Nat]

(* Safe Mode is latched exactly while the crash streak on record has       *)
(* reached the threshold: no path of recovery, reset or clean run sets or  *)
(* releases one without the other (decide_recovery, clear_recovery_latch). *)
SafeModeIffThreshold ==
    record.safe_mode <=> record.consecutive_crashes >= SAFE_MODE_CRASH_THRESHOLD

(* A service start that finds the boot flag armed with no graceful-stop    *)
(* marker writes nothing to the GPU on its own, wherever the sequence      *)
(* reconcile / recovery / guard / sentinel / apply-on-boot was cut before  *)
(* (reapply_on_boot: "boot-flag armed (prior crash) - not re-applying").   *)
NoReapplyAfterCrash ==
    job # NoJob /\ job.who = "boot" => ~ hist.bootCrash /\ ~ record.safe_mode

(* However the machine crashes inside the survival window of a profile     *)
(* that apply-on-boot wrote, without an operator reset it does so at most  *)
(* SAFE_MODE_CRASH_THRESHOLD times (the boot-loop bound of safe_loop.rs).  *)
CrashLoopBound == hist.autoCrashes <= SAFE_MODE_CRASH_THRESHOLD

(* A Forge run cut short by a crash, a kill or a graceful stop blocks every *)
(* later Forge run, every Forge-profile apply and apply-on-boot until the  *)
(* operator has acknowledged it or has wiped everything                    *)
(* (reconcile_interrupted_forge).  Nothing has recorded an incident of the *)
(* run while it was alive: the live watcher is not part of this module.    *)
InterruptedForgeAwaitsAck ==
    hist.unacked /\ pc # "stopping" =>
        /\ forge.step = "idle"
        /\ ~ (job # NoJob /\ (job.who = "boot" \/ job.kind = "F2"))

(* A candidate the machine crashed on is never armed by Forge again, until *)
(* a full reset or a clean run drops the blacklist on purpose              *)
(* (apply_recovery, candidate_blacklisted).                                *)
CrashedCandidateNeverRearmed ==
    forge.step \in {"armed", "dwell"} => forge.cand \notin hist.crashed

(* An undervolt that was applied when the driver logged a TDR newer than   *)
(* the cursor, in a crash or with the service down, is never written again *)
(* by the undervolt path, at boot or on request, even after a full reset:  *)
(* the cursor moves only after record, ledger and profile are written      *)
(* (startup_reconcile).                                                    *)
StaysOff(evidence) ==
    job # NoJob /\ job.kind = "F2" => [pair |-> job.pair, by |-> evidence] \notin hist.wedged

WedgedProfileStaysOff == StaysOff("tdr")

(* The same for an OC bugcheck of the profile's own session                *)
(* (startup_reconcile: "A hard interruption before this point leaves the   *)
(* event pending for the next boot").                                      *)
BugcheckedProfileStaysOff == StaysOff("bugcheck")

(* Through crashes, kills and interrupted starts, apply-on-boot finds the  *)
(* core point the operator applied last and did not take back              *)
(* (gpu_apply.rs: "persist it so the Core Service re-applies it on every   *)
(* boot").                                                                 *)
CorePoint(profile) == IF profile = NoProfile THEN NoProfile ELSE profile.pair

AppliedProfileKept == pc = "reapply" => CorePoint(applied) = CorePoint(hist.kept)

(* While the survival timer of the applied profile runs, the flag that     *)
(* would report its crash is armed (apply_and_persist: "a crash leaves it  *)
(* armed"); sound as long as two applies do not overlap their windows.     *)
AppliedWindowGuarded ==
    timers > 0 /\ job = NoJob /\ applied # NoProfile /\ applied.pair # Stock
        /\ hw.curve = applied.pair => Armed

(* A Forge candidate is on the hardware only under its own armed intent,   *)
(* from the write to the durable blacklist (run_confirmed_f2_step: arm     *)
(* before any write, clear after the reset), unless a reset request or the *)
(* service stop takes the GPU from the live worker.                        *)
CandidateArmed ==
    forge.step \in {"dwell", "reset", "blacklist"} =>
        Armed /\ flag.intent = F2Intent(forge.cand)

CandidateGuarded == forge.stop # "abort" /\ pc = "ready" => CandidateArmed

(* What the repository says of the program and the code does not do.       *)

(* A candidate the machine crashed on is in the condemnation ledger once   *)
(* the service is up again (condemnation.rs, the Rigid severity).          *)
CrashedCandidateInLedger ==
    pc = "ready" => \A p \in hist.crashed : Pair2(p) \in ledger

(* Apply-on-boot writes no pair the condemnation ledger refuses            *)
(* (ledger_refusal: every hardware-write preflight consults it).           *)
CondemnedProfileNotReapplied ==
    job # NoJob /\ job.who = "boot" /\ job.pair # Stock => ~ LedgerRefuses(job.pair)

(* The profile on disk is written by the route of the core point the       *)
(* operator chose (UndervoltApply: an undervolt never goes to the F1       *)
(* ceiling).                                                               *)
CoreRouteKept ==
    pc = "ready" /\ job = NoJob /\ applied # NoProfile => applied.kind = hist.kept.kind
=============================================================================
