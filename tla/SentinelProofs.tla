--------------------------- MODULE SentinelProofs ---------------------------
(***************************************************************************)
(* Theorems about the service: the record, the starts and the applies of   *)
(* SafeLoop, and the recovery ladder that module Sentinel adds to them;    *)
(* for every set of candidates, every crash threshold, every menu and      *)
(* every bound.                                                            *)
(***************************************************************************)
EXTENDS Sentinel, FiniteSetTheorems, WellFoundedInduction, TLAPS

-----------------------------------------------------------------------------
(* SafeLoop.  The inductive invariant has four named parts: the domains of *)
(* the variables, the shape of what a step hands to the next one, the      *)
(* guard that keeps a crashed boot from re-applying, and the budget that   *)
(* bounds the boot loop.  On top of it four more invariants, one per       *)
(* promise, say what the files hold between two starts: the applied        *)
(* profile, the condemned undervolts, the runs and their incidents, and    *)
(* the candidates the machine crashed on.                                  *)

(* The start sequence up to the decision, and all of it up to apply-on-boot. *)
Undecided == {"reconcile", "reconcile_save", "recover"}

Starting == Undecided \cup {"disarm", "commit", "guard", "tdr", "tdr_condemn",
                            "tdr_clear", "tdr_baseline"}

(* What one step of a multi-step operation leaves for the next.            *)
ShapeOK ==
    /\ applied # NoProfile /\ applied.kind = "F2" => applied.pair # Stock
    /\ job # NoJob /\ job.kind \in {"F2", "Manual"} => job.pair # Stock
    /\ job # NoJob /\ job.step = "save" => job.kind \in {"F1", "F2"}
    /\ job # NoJob => (job.kind = "Forge" <=> job.step = "start")
    /\ job # NoJob /\ job.kind = "Forge" => job.who = "ipc"
    /\ job # NoJob => pc = IF job.who = "boot" THEN "reapply" ELSE "ready"
    /\ pc \in {"tdr_condemn", "tdr_clear"} => applied # NoProfile /\ applied.kind = "F2"
    /\ forge.step \in {"armed", "dwell", "reset", "blacklist", "clear"} => forge.cand # Stock
    /\ forge.step # "idle" => pc \in {"ready", "stopping"}
    /\ pc \in Starting \cup {"off", "reapply"} => timers = 0
    /\ pc = "reconcile_save" => checkpoint # NoCheckpoint

(* A start that found evidence of a crash keeps the flag armed until the   *)
(* apply-on-boot step has refused.                                         *)
GuardOK ==
    /\ pc \in Undecided /\ hist.bootCrash => ~ clean
    /\ pc = "disarm" => ~ hist.bootCrash
    /\ pc \in Starting \cup {"reapply"} /\ hist.bootCrash => Armed

(* A crash inside a boot window is counted by the next start before        *)
(* anything else can happen.                                               *)
CrashUncounted ==
    /\ Armed /\ ~ clean
    /\ flag.phase # SUPERVISED_F2_FORGE_PHASE
    /\ pc \in Undecided \cup {"off", "commit"}

BudgetOK ==
    /\ hist.autoCrashes <= SAFE_MODE_CRASH_THRESHOLD
    /\ \/ hist.autoCrashes <= record.consecutive_crashes
       \/ hist.autoCrashes = record.consecutive_crashes + 1 /\ CrashUncounted
    /\ pc \in Starting => hist.armedBy = "stale"
    /\ Armed /\ hist.armedBy = "boot" /\ pc # "off" =>
           /\ hist.autoCrashes <= record.consecutive_crashes
           /\ record.consecutive_crashes < SAFE_MODE_CRASH_THRESHOLD
           /\ flag.phase # SUPERVISED_F2_FORGE_PHASE
    /\ pc \notin Undecided \cup {"off"} => ~ clean

IInv ==
    /\ TypeOK /\ ShapeOK
    /\ SafeModeIffThreshold
    /\ GuardOK /\ NoReapplyAfterCrash
    /\ BudgetOK

-----------------------------------------------------------------------------
(* Lemmas on the operators of the record.                                  *)

(* Every intent the service arms is a tuning point.                        *)
LEMMA IntentType ==
    ASSUME NEW p \in Pairs
    PROVE  /\ F2Intent(p) \in TuningPoint
           /\ FieldIntent(p) \in TuningPoint
           /\ ApplyIntent(p) \in TuningPoint
           /\ Pair2(p) \in Nat \X Nat
<1>1. p.mhz \in Int /\ p.mv \in Int /\ p.off \in Int /\ p.mhz \in Nat /\ p.mv \in Nat
  BY PairsAssumption
<1> QED
  BY <1>1 DEF F2Intent, FieldIntent, ApplyIntent, Pair2, TuningPoint, NoAxes, Axes

(* The empty intent of a memory-only apply is one too.                     *)
LEMMA StockIntentType == ApplyIntent(Stock) \in TuningPoint
  BY DEF ApplyIntent, TuningPoint, NoAxes

(* Blacklisting a point touches neither the crash count nor the latch.     *)
LEMMA BlacklistType ==
    ASSUME NEW rec \in SafeLoopRecord, NEW point \in TuningPoint
    PROVE  /\ Blacklist(rec, point) \in SafeLoopRecord
           /\ Blacklist(rec, point).consecutive_crashes = rec.consecutive_crashes
           /\ Blacklist(rec, point).safe_mode = rec.safe_mode
  BY DEF Blacklist, SafeLoopRecord

(* So does a clean run, which strips the V/F centres.                      *)
LEMMA StripType ==
    ASSUME NEW rec \in SafeLoopRecord
    PROVE  /\ StripGpuVfBlacklist(rec) \in SafeLoopRecord
           /\ StripGpuVfBlacklist(rec).consecutive_crashes = rec.consecutive_crashes
           /\ StripGpuVfBlacklist(rec).safe_mode = rec.safe_mode
  BY DEF StripGpuVfBlacklist, SafeLoopRecord

(* Incidents are recorded and acknowledged beside the crash count.         *)
LEMMA IncidentType ==
    ASSUME NEW rec \in SafeLoopRecord, NEW kind \in ForgeIncidentKind, NEW run \in Nat
    PROVE  /\ RecordForgeIncident(rec, kind, run) \in SafeLoopRecord
           /\ RecordForgeIncident(rec, kind, run).consecutive_crashes = rec.consecutive_crashes
           /\ RecordForgeIncident(rec, kind, run).safe_mode = rec.safe_mode
  BY DEF RecordForgeIncident, StateUnlessSafe, SafeLoopRecord, ForgeIncident, SafeLoopState

(* The operator's acknowledgement.                                         *)
LEMMA AcknowledgeType ==
    ASSUME NEW rec \in SafeLoopRecord
    PROVE  /\ AcknowledgeForgeIncident(rec) \in SafeLoopRecord
           /\ AcknowledgeForgeIncident(rec).consecutive_crashes = rec.consecutive_crashes
           /\ AcknowledgeForgeIncident(rec).safe_mode = rec.safe_mode
  BY DEF AcknowledgeForgeIncident, StateUnlessSafe, SafeLoopRecord, SafeLoopState

(* Both resets leave a record with an empty crash budget and no latch.     *)
LEMMA ClearType ==
    ASSUME NEW rec \in SafeLoopRecord
    PROVE  /\ ClearRecoveryLatch(rec) \in SafeLoopRecord
           /\ ClearRecoveryLatch(rec).consecutive_crashes = 0
           /\ ClearRecoveryLatch(rec).safe_mode = FALSE
  BY DEF ClearRecoveryLatch, SafeLoopRecord, SafeLoopState

(* The record of a fresh installation, and of a full reset.                *)
LEMMA DefaultType ==
    /\ DefaultRecord \in SafeLoopRecord
    /\ DefaultRecord.consecutive_crashes = 0
    /\ DefaultRecord.safe_mode = FALSE
  BY DEF DefaultRecord, SafeLoopRecord, SafeLoopState

(* What a start decides about an armed flag and does to the record: one    *)
(* more crash on record exactly when it counts, and the latch exactly when *)
(* the record then reaches the threshold.                                  *)
LEMMA RecoveryType ==
    ASSUME NEW rec \in SafeLoopRecord, NEW f \in BootFlag \cup {NoFlag}, NEW class \in CrashClass,
           rec.safe_mode <=> rec.consecutive_crashes >= SAFE_MODE_CRASH_THRESHOLD
    PROVE  LET action == DecideRecovery(f, class, rec)
               new    == ApplyRecovery(rec, action, f, class)
           IN  /\ new \in SafeLoopRecord
               /\ new.safe_mode <=> new.consecutive_crashes >= SAFE_MODE_CRASH_THRESHOLD
               /\ f = NoFlag \/ ~ CountsTowardSafeMode(f, class)
                      => new.consecutive_crashes = rec.consecutive_crashes
               /\ f # NoFlag /\ CountsTowardSafeMode(f, class)
                      => new.consecutive_crashes = rec.consecutive_crashes + 1
               /\ f # NoFlag => RetainBootFlagUntilReapply(action)
<1> DEFINE action == DecideRecovery(f, class, rec)
           new    == ApplyRecovery(rec, action, f, class)
           counts == CountsTowardSafeMode(f, class)
<1>0. SAFE_MODE_CRASH_THRESHOLD \in Nat \ {0} /\ rec.consecutive_crashes \in Nat
      /\ rec.safe_mode \in BOOLEAN
  BY ThresholdAssumption DEF SafeLoopRecord
<1>1. CASE f = NoFlag
  <2>1. action \in {"Idle", "ApplyLastValidated", "AwaitOperatorAcknowledgement"}
        \/ (action = "RemainSafeMode" /\ rec.safe_mode)
    BY <1>1 DEF DecideRecovery
  <2>2. new \in SafeLoopRecord /\ new.consecutive_crashes = rec.consecutive_crashes
        /\ new.safe_mode = rec.safe_mode
    BY <2>1 DEF ApplyRecovery, SafeLoopRecord, SafeLoopState
  <2> QED
    BY <1>1, <2>2
<1>2. CASE f # NoFlag /\ action = "EnterSafeMode"
  <2>1. counts /\ rec.consecutive_crashes + 1 >= SAFE_MODE_CRASH_THRESHOLD
    BY <1>2 DEF DecideRecovery
  <2>2. new = [rec EXCEPT !.consecutive_crashes = @ + 1, !.safe_mode = TRUE,
                          !.state = "SafeMode"]
    BY <1>2 DEF ApplyRecovery
  <2>3. RetainBootFlagUntilReapply(action)
    BY <1>2 DEF RetainBootFlagUntilReapply
  <2> HIDE DEF action, new, counts
  <2>4. new \in SafeLoopRecord /\ new.safe_mode
        /\ new.consecutive_crashes = rec.consecutive_crashes + 1
    <3> DEFINE n == rec.consecutive_crashes + 1
    <3>1. n \in Nat
      BY <1>0
    <3>2. new = [rec EXCEPT !.consecutive_crashes = n, !.safe_mode = TRUE,
                            !.state = "SafeMode"]
      BY <2>2
    <3> HIDE DEF n
    <3>3. new \in SafeLoopRecord /\ new.safe_mode /\ new.consecutive_crashes = n
      BY <3>1, <3>2 DEF SafeLoopRecord, SafeLoopState
    <3> QED
      BY <3>3 DEF n
  <2>5. new.safe_mode <=> new.consecutive_crashes >= SAFE_MODE_CRASH_THRESHOLD
    BY <2>1, <2>4
  <2> QED
    BY <1>2, <2>1, <2>3, <2>4, <2>5 DEF action, new, counts
<1>3. CASE f # NoFlag /\ action # "EnterSafeMode"
  <2>1. action = "BlacklistAndRecede"
        /\ (counts => ~ (rec.consecutive_crashes + 1 >= SAFE_MODE_CRASH_THRESHOLD))
    BY <1>3 DEF DecideRecovery
  <2> DEFINE listed == Blacklist(rec, f.intent)
  <2>2. f.intent \in TuningPoint
    BY <1>3 DEF BootFlag
  <2>3. listed \in SafeLoopRecord /\ listed.consecutive_crashes = rec.consecutive_crashes
        /\ listed.safe_mode = rec.safe_mode
    BY <2>2, BlacklistType
  <2>4. new = [listed EXCEPT !.consecutive_crashes = IF counts THEN @ + 1 ELSE @,
                             !.state = "Unstable"]
    BY <2>1 DEF ApplyRecovery
  <2>5. RetainBootFlagUntilReapply(action)
    BY <2>1 DEF RetainBootFlagUntilReapply
  <2> HIDE DEF action, new, counts, listed
  <2>6. new \in SafeLoopRecord /\ new.safe_mode = rec.safe_mode
        /\ (counts => new.consecutive_crashes = rec.consecutive_crashes + 1)
        /\ (~ counts => new.consecutive_crashes = rec.consecutive_crashes)
    <3> DEFINE n == IF counts THEN rec.consecutive_crashes + 1 ELSE rec.consecutive_crashes
    <3>1. n \in Nat
      BY <1>0
    <3>2. new = [listed EXCEPT !.consecutive_crashes = n, !.state = "Unstable"]
      BY <2>3, <2>4
    <3> HIDE DEF n
    <3>3. new \in SafeLoopRecord /\ new.safe_mode = listed.safe_mode
          /\ new.consecutive_crashes = n
      BY <2>3, <3>1, <3>2 DEF SafeLoopRecord, SafeLoopState
    <3> QED
      BY <2>3, <3>3 DEF n
  <2>7. new.safe_mode <=> new.consecutive_crashes >= SAFE_MODE_CRASH_THRESHOLD
    <3>1. CASE counts
      BY <1>0, <2>1, <2>6, <3>1
    <3>2. CASE ~ counts
      BY <2>6, <3>2
    <3> QED
      BY <3>1, <3>2
  <2> QED
    BY <1>3, <2>5, <2>6, <2>7 DEF action, new, counts
<1> QED
  BY <1>1, <1>2, <1>3
-----------------------------------------------------------------------------
(* Type correctness.                                                       *)

(* The values the parts are reset to.                                      *)
LEMMA ResetValuesType ==
    /\ StockHw \in Gpu
    /\ IdleProgress \in Progress
    /\ IdleForge \in ForgeWorker
  BY DEF StockHw, Gpu, IdleProgress, Progress, IdleForge, ForgeWorker, ForgeSteps, Point

(* What the service remembers of a Forge run after a restart, a reset and  *)
(* the end of a run.                                                       *)
LEMMA ProgressType ==
    ASSUME TypeOK
    PROVE  /\ RestoredProgress \in Progress
           /\ ProgressAfterReset \in Progress
           /\ \A resetOk, complete \in BOOLEAN : TerminalProgress(resetOk, complete) \in Progress
<1>1. RestoredProgress \in Progress
  <2>1. CASE checkpoint = NoCheckpoint
    BY <2>1, ResetValuesType DEF RestoredProgress
  <2>2. CASE checkpoint # NoCheckpoint
    BY <2>2 DEF RestoredProgress, TypeOK, Progress
  <2> QED
    BY <2>1, <2>2
<1>2. ProgressAfterReset \in Progress
  BY ResetValuesType DEF ProgressAfterReset, TypeOK, Progress
<1>3. ASSUME NEW resetOk \in BOOLEAN, NEW complete \in BOOLEAN
      PROVE  TerminalProgress(resetOk, complete) \in Progress
  BY DEF TerminalProgress, TypeOK, Progress, ForgeWorker, Point
<1> QED
  BY <1>1, <1>2, <1>3

(* What the requests and the crashes note for the properties.              *)
LEMMA ObservedType ==
    ASSUME NEW h \in Observed
    PROVE  /\ \A b \in BOOLEAN :
                 [h EXCEPT !.bootCrash = b, !.armedBy = "stale"] \in Observed
           /\ [h EXCEPT !.autoCrashes = 0, !.kept = NoProfile] \in Observed
           /\ [h EXCEPT !.autoCrashes = 0, !.unacked = FALSE, !.crashed = {},
                        !.kept = NoProfile] \in Observed
           /\ \A a \in AppliedProfile : [h EXCEPT !.kept = a] \in Observed
           /\ \A a \in AppliedProfile \cup {NoProfile} : [h EXCEPT !.kept = a] \in Observed
           /\ h.autoCrashes \in Nat
<1>1. /\ [h EXCEPT !.autoCrashes = 0, !.kept = NoProfile] \in Observed
      /\ [h EXCEPT !.autoCrashes = 0, !.unacked = FALSE, !.crashed = {},
                   !.kept = NoProfile] \in Observed
  BY DEF Observed
<1>2. \A b \in BOOLEAN :
          [h EXCEPT !.bootCrash = b, !.armedBy = "stale"] \in Observed
  BY DEF Observed
<1>3. \A a \in AppliedProfile \cup {NoProfile} : [h EXCEPT !.kept = a] \in Observed
  BY DEF Observed
<1> QED
  BY <1>1, <1>2, <1>3 DEF Observed

(* The flags an apply, a manual point and a Forge candidate arm.           *)
LEMMA FlagType ==
    /\ \A p \in Point : \A kind :
          [intent |-> ApplyIntent(p), phase |-> ApplyPhase(kind)] \in BootFlag
    /\ \A p \in Pairs : \A phase \in FlagPhases :
          [intent |-> F2Intent(p), phase |-> phase] \in BootFlag
<1>1. ASSUME NEW p \in Point, NEW kind
      PROVE  [intent |-> ApplyIntent(p), phase |-> ApplyPhase(kind)] \in BootFlag
  <2>1. ApplyIntent(p) \in TuningPoint
    BY IntentType, StockIntentType DEF Point
  <2>2. ApplyPhase(kind) \in FlagPhases
    BY DEF ApplyPhase, FlagPhases
  <2> QED
    BY <2>1, <2>2 DEF BootFlag
<1>2. ASSUME NEW p \in Pairs, NEW phase \in FlagPhases
      PROVE  [intent |-> F2Intent(p), phase |-> phase] \in BootFlag
  BY IntentType DEF BootFlag
<1> QED
  BY <1>1, <1>2

(* Evidence against the applied undervolt is about a point of this GPU.    *)
LEMMA WedgedType ==
    ASSUME applied \in AppliedProfile \cup {NoProfile},
           NEW evidence \in SUBSET {"tdr", "first_tdr", "bugcheck"}
    PROVE  Wedged(evidence) \subseteq [pair : Point, by : {"tdr", "first_tdr", "bugcheck"}]
  BY DEF Wedged, AppliedProfile, Point

(* The domains hold at the first start ...                                 *)
LEMMA TypeInit == Init => TypeOK
<1> SUFFICES ASSUME Init PROVE TypeOK
  OBVIOUS
<1>1. hist \in Observed
  BY DEF Init, Observed
<1>2. log \in EventLog
  BY BoundsAssumption DEF Init, EventLog, CrashClass
<1>3. used \in [faults : Nat, ops : Nat, runs : Nat]
  BY DEF Init
<1> QED
  BY <1>1, <1>2, <1>3, ResetValuesType, DefaultType DEF Init, TypeOK

(* ... and every step stays inside them.                                   *)
LEMMA TypeNext == TypeOK /\ ShapeOK /\ SafeModeIffThreshold /\ [Next]_vars => TypeOK'
<1> SUFFICES ASSUME TypeOK, ShapeOK, SafeModeIffThreshold, [Next]_vars PROVE TypeOK'
  OBVIOUS
<1>1. CASE Start
  <2>1. pc' \in StartupSteps \cup {"off", "ready", "stopping"}
    BY <1>1 DEF TypeOK, Start, StartupSteps
  <2>2. hist' \in Observed
    <3> DEFINE b == Armed /\ ~ clean
    <3>1. b \in BOOLEAN
      OBVIOUS
    <3>2. hist' = [hist EXCEPT !.bootCrash = b, !.armedBy = "stale"]
      BY <1>1 DEF Start
    <3> HIDE DEF b
    <3> QED
      BY <3>1, <3>2, ObservedType DEF TypeOK
  <2> QED
    BY <1>1, <2>1, <2>2 DEF TypeOK, Start
<1>2. CASE ReconcileRecord
  <2>1. record' \in SafeLoopRecord
    <3>1. CASE checkpoint # NoCheckpoint /\ checkpoint.running
      <4> DEFINE kind == IF Armed /\ flag.phase = SUPERVISED_F2_FORGE_PHASE /\ ~ clean
                         THEN "CandidateCrash" ELSE "UnaccountedRestart"
      <4>1. kind \in ForgeIncidentKind
        BY DEF ForgeIncidentKind
      <4>2. checkpoint.run \in Nat
        BY <3>1 DEF TypeOK, Progress
      <4>3. record' = RecordForgeIncident(record, kind, checkpoint.run)
        BY <1>2, <3>1 DEF ReconcileRecord
      <4> HIDE DEF kind
      <4> QED
        BY <4>1, <4>2, <4>3, IncidentType DEF TypeOK
    <3>2. CASE ~ (checkpoint # NoCheckpoint /\ checkpoint.running)
      BY <1>2, <3>2 DEF TypeOK, ReconcileRecord
    <3> QED
      BY <3>1, <3>2
  <2>2. pc' \in StartupSteps \cup {"off", "ready", "stopping"}
    BY <1>2 DEF TypeOK, ReconcileRecord, StartupSteps
  <2> QED
    BY <1>2, <2>1, <2>2 DEF TypeOK, ReconcileRecord
<1>3. CASE ReconcileCheckpoint
  <2>1. checkpoint' \in Progress \cup {NoCheckpoint}
    BY <1>3 DEF TypeOK, ShapeOK, ReconcileCheckpoint, Progress
  <2>2. pc' \in StartupSteps \cup {"off", "ready", "stopping"}
    BY <1>3 DEF TypeOK, ReconcileCheckpoint, StartupSteps
  <2> QED
    BY <1>3, <2>1, <2>2 DEF TypeOK, ReconcileCheckpoint
<1>4. CASE RecoverConsumeMarker
  <2>1. clean' \in BOOLEAN
    BY <1>4 DEF TypeOK, RecoverConsumeMarker
  <2>2. pc' \in StartupSteps \cup {"off", "ready", "stopping"}
    BY <1>4 DEF TypeOK, RecoverConsumeMarker, StartupSteps
  <2> QED
    BY <1>4, <2>1, <2>2 DEF TypeOK, RecoverConsumeMarker
<1>5. CASE RecoverDisarm
  <2>1. flag' \in BootFlag \cup {NoFlag}
    BY <1>5 DEF TypeOK, RecoverDisarm
  <2>2. pc' \in StartupSteps \cup {"off", "ready", "stopping"}
    BY <1>5 DEF TypeOK, RecoverDisarm, StartupSteps
  <2> QED
    BY <1>5, <2>1, <2>2 DEF TypeOK, RecoverDisarm
<1>6. CASE RecoverCommit
  <2>1. flag' \in BootFlag \cup {NoFlag}
    BY <1>6 DEF TypeOK, RecoverCommit
  <2>2. record' \in SafeLoopRecord
    <3> DEFINE class == IF Armed THEN log.class ELSE "Unknown"
    <3>1. class \in CrashClass
      BY DEF TypeOK, EventLog, CrashClass
    <3>2. record' = ApplyRecovery(record, DecideRecovery(flag, class, record), flag, class)
      BY <1>6 DEF RecoverCommit
    <3> HIDE DEF class
    <3> QED
      BY <3>1, <3>2, RecoveryType DEF TypeOK, SafeModeIffThreshold
  <2>3. pc' \in StartupSteps \cup {"off", "ready", "stopping"}
    BY <1>6 DEF TypeOK, RecoverCommit, StartupSteps
  <2> QED
    BY <1>6, <2>1, <2>2, <2>3 DEF TypeOK, RecoverCommit
<1>7. CASE InitializeRebootGuard
  <2>1. pc' \in StartupSteps \cup {"off", "ready", "stopping"}
    BY <1>7 DEF TypeOK, InitializeRebootGuard, StartupSteps
  <2>2. latch' \in BOOLEAN
    BY <1>7 DEF TypeOK, InitializeRebootGuard, EventLog
  <2> QED
    BY <1>7, <2>1, <2>2 DEF TypeOK, InitializeRebootGuard
<1>8. CASE StartupReconcile
  <2>1. record' \in SafeLoopRecord
    BY <1>8, IntentType DEF TypeOK, StartupReconcile, SafeLoopRecord,
       AppliedProfile, Point, ShapeOK
  <2>2. pc' \in StartupSteps \cup {"off", "ready", "stopping"}
    BY <1>8 DEF TypeOK, StartupReconcile, StartupSteps
  <2> QED
    BY <1>8, <2>1, <2>2 DEF TypeOK, StartupReconcile
<1>9. CASE DemoteCondemn
  <2>1. ledger' \subseteq Nat \X Nat
    BY <1>9, IntentType DEF TypeOK, DemoteCondemn, Point, Progress,
       AppliedProfile, ShapeOK
  <2>2. pc' \in StartupSteps \cup {"off", "ready", "stopping"}
    BY <1>9 DEF TypeOK, DemoteCondemn, StartupSteps
  <2> QED
    BY <1>9, <2>1, <2>2 DEF TypeOK, DemoteCondemn
<1>10. CASE DemoteClearApplied
  <2>1. applied' \in AppliedProfile \cup {NoProfile}
    BY <1>10 DEF TypeOK, DemoteClearApplied, Point, Job, AppliedProfile
  <2>2. pc' \in StartupSteps \cup {"off", "ready", "stopping"}
    BY <1>10 DEF TypeOK, DemoteClearApplied, StartupSteps
  <2>3. hist' \in Observed
    BY <1>10 DEF TypeOK, DemoteClearApplied, Point, Observed
  <2> QED
    BY <1>10, <2>1, <2>2, <2>3 DEF TypeOK, DemoteClearApplied
<1>11. CASE PersistBaseline
  <2>1. baseline' \in Nat \cup {NoBaseline}
    BY <1>11 DEF TypeOK, PersistBaseline, EventLog
  <2>2. pc' \in StartupSteps \cup {"off", "ready", "stopping"}
    BY <1>11 DEF TypeOK, PersistBaseline, StartupSteps
  <2> QED
    BY <1>11, <2>1, <2>2 DEF TypeOK, PersistBaseline
<1>12. CASE SkipReapply
  <2>1. flag' \in BootFlag \cup {NoFlag}
    BY <1>12 DEF TypeOK, SkipReapply
  <2>2. hw' \in Gpu
    BY <1>12, ResetValuesType DEF TypeOK, SkipReapply, OpenPipe, Point, Job,
       ForgeWorker, Gpu
  <2>3. pc' \in StartupSteps \cup {"off", "ready", "stopping"}
    BY <1>12 DEF TypeOK, SkipReapply, OpenPipe, StartupSteps
  <2>4. prog' \in Progress
    BY <1>12, ProgressType, ResetValuesType DEF TypeOK, SkipReapply, OpenPipe,
       Point, Progress
  <2> QED
    BY <1>12, <2>1, <2>2, <2>3, <2>4 DEF TypeOK, SkipReapply
<1>13. CASE ReapplyArm
  <2>1. flag' \in BootFlag \cup {NoFlag}
    BY <1>13, FlagType DEF TypeOK, ReapplyArm, Arm, Point, AppliedProfile, MayReapply, ShapeOK
  <2>2. hw' \in Gpu
    BY <1>13, ResetValuesType DEF TypeOK, ReapplyArm, Point, Job, ForgeWorker,
       Gpu
  <2>3. job' \in Job \cup {NoJob}
    BY <1>13 DEF TypeOK, ReapplyArm, Point, AppliedProfile, Progress,
       MayReapply, Job
  <2>4. hist' \in Observed
    BY <1>13 DEF TypeOK, ReapplyArm, Point, Observed
  <2> QED
    BY <1>13, <2>1, <2>2, <2>3, <2>4 DEF TypeOK, ReapplyArm
<1>14. CASE ApplyWriteOk
  <2>1. hw' \in Gpu
    BY <1>14, ResetValuesType DEF TypeOK, ApplyWriteOk, Point, Job,
       ForgeWorker, Gpu
  <2>2. job' \in Job \cup {NoJob}
    BY <1>14 DEF TypeOK, ApplyWriteOk, Point, AppliedProfile, Progress,
       MayReapply, Job
  <2> QED
    BY <1>14, <2>1, <2>2 DEF TypeOK, ApplyWriteOk
<1>15. CASE ApplyWriteFails
  <2>1. hw' \in Gpu
    BY <1>15, ResetValuesType DEF TypeOK, ApplyWriteFails, ApplyReturns,
       OpenPipe, Point, Job, ForgeWorker, Gpu
  <2>2. pc' \in StartupSteps \cup {"off", "ready", "stopping"}
    BY <1>15 DEF TypeOK, ApplyWriteFails, ApplyReturns, OpenPipe, StartupSteps
  <2>3. job' \in Job \cup {NoJob}
    BY <1>15 DEF TypeOK, ApplyWriteFails, ApplyReturns, OpenPipe, Point,
       AppliedProfile, Progress, MayReapply, Job
  <2>4. prog' \in Progress
    BY <1>15, ProgressType, ResetValuesType DEF TypeOK, ApplyWriteFails,
       ApplyReturns, OpenPipe, Point, Progress
  <2> QED
    BY <1>15, <2>1, <2>2, <2>3, <2>4 DEF TypeOK, ApplyWriteFails
<1>16. CASE ApplySave
  <2>1. applied' \in AppliedProfile \cup {NoProfile}
    <3>1. job.kind \in {"F1", "F2"} /\ job.pair \in Point
      BY <1>16 DEF TypeOK, ShapeOK, ApplySave, Job
    <3> QED
      BY <1>16, <3>1 DEF ApplySave, AppliedProfile, Point
  <2>2. log' \in EventLog
    BY <1>16 DEF TypeOK, ApplySave, ApplyReturns, OpenPipe, CrashClass,
       EventLog
  <2>3. pc' \in StartupSteps \cup {"off", "ready", "stopping"}
    BY <1>16 DEF TypeOK, ApplySave, ApplyReturns, OpenPipe, StartupSteps
  <2>4. job' \in Job \cup {NoJob}
    BY <1>16 DEF TypeOK, ApplySave, ApplyReturns, OpenPipe, Point,
       AppliedProfile, Progress, MayReapply, Job
  <2>5. timers' \in Nat
    BY <1>16 DEF TypeOK, ApplySave, ApplyReturns, OpenPipe
  <2>6. prog' \in Progress
    BY <1>16, ProgressType, ResetValuesType DEF TypeOK, ApplySave,
       ApplyReturns, OpenPipe, Point, Progress
  <2>7. hist' \in Observed
    <3>1. applied' \in AppliedProfile
      <4>1. job.kind \in {"F1", "F2"} /\ job.pair \in Point
        BY <1>16 DEF TypeOK, ShapeOK, ApplySave, Job
      <4> QED
        BY <1>16, <4>1 DEF ApplySave, AppliedProfile, Point
    <3>2. hist' = hist \/ hist' = [hist EXCEPT !.kept = applied']
      BY <1>16 DEF ApplySave
    <3> QED
      BY <3>1, <3>2, ObservedType DEF TypeOK
  <2> QED
    BY <1>16, <2>1, <2>2, <2>3, <2>4, <2>5, <2>6, <2>7 DEF TypeOK, ApplySave
<1>17. CASE ManualWriteOk
  <2>1. hw' \in Gpu
    BY <1>17, ResetValuesType DEF TypeOK, ManualWriteOk, Point, Job,
       ForgeWorker, Gpu
  <2>2. job' \in Job \cup {NoJob}
    BY <1>17 DEF TypeOK, ManualWriteOk, Point, AppliedProfile, Progress,
       MayReapply, Job
  <2>3. manual' \in BOOLEAN
    BY <1>17 DEF TypeOK, ManualWriteOk
  <2> QED
    BY <1>17, <2>1, <2>2, <2>3 DEF TypeOK, ManualWriteOk
<1>18. CASE ManualWriteFails
  <2>1. flag' \in BootFlag \cup {NoFlag}
    BY <1>18 DEF TypeOK, ManualWriteFails
  <2>2. applied' \in AppliedProfile \cup {NoProfile}
    BY <1>18 DEF TypeOK, ManualWriteFails, Point, Job, AppliedProfile
  <2>3. hw' \in Gpu
    BY <1>18, ResetValuesType DEF TypeOK, ManualWriteFails, Point, Job,
       ForgeWorker, Gpu
  <2>4. job' \in Job \cup {NoJob}
    BY <1>18 DEF TypeOK, ManualWriteFails, Point, AppliedProfile, Progress,
       MayReapply, Job
  <2> QED
    BY <1>18, <2>1, <2>2, <2>3, <2>4 DEF TypeOK, ManualWriteFails
<1>19. CASE ApplyForgeProfile
  <2>1. flag' \in BootFlag \cup {NoFlag}
    BY <1>19, FlagType DEF TypeOK, ApplyForgeProfile, Arm, BeginApply, Progress, Point
  <2>2. job' \in Job \cup {NoJob}
    BY <1>19 DEF TypeOK, ApplyForgeProfile, BeginApply, Point, AppliedProfile,
       Progress, MayReapply, Job
  <2>3. hist' \in Observed
    BY <1>19 DEF TypeOK, ApplyForgeProfile, BeginApply, Point, Observed
  <2>4. used' \in [faults : Nat, ops : Nat, runs : Nat]
    BY <1>19 DEF TypeOK, ApplyForgeProfile, Request
  <2> QED
    BY <1>19, <2>1, <2>2, <2>3, <2>4 DEF TypeOK, ApplyForgeProfile, BeginApply
<1>20. CASE ApplySweepProfile
  <2>1. flag' \in BootFlag \cup {NoFlag}
    BY <1>20, FlagType DEF TypeOK, ApplySweepProfile, Arm, BeginApply, Point
  <2>2. job' \in Job \cup {NoJob}
    BY <1>20 DEF TypeOK, ApplySweepProfile, BeginApply, Point, AppliedProfile,
       Progress, MayReapply, Job
  <2>3. hist' \in Observed
    BY <1>20 DEF TypeOK, ApplySweepProfile, BeginApply, Point, Observed
  <2>4. used' \in [faults : Nat, ops : Nat, runs : Nat]
    BY <1>20 DEF TypeOK, ApplySweepProfile, Request
  <2> QED
    BY <1>20, <2>1, <2>2, <2>3, <2>4 DEF TypeOK, ApplySweepProfile, BeginApply
<1>21. CASE ApplyMemPeak
  <2>1. flag' \in BootFlag \cup {NoFlag}
    BY <1>21, FlagType DEF TypeOK, ApplyMemPeak, Arm, BeginApply, Point, AppliedProfile
  <2>2. job' \in Job \cup {NoJob}
    <3>1. PICK p \in Point, core \in BOOLEAN : BeginApply("F1", p, core)
      BY <1>21 DEF TypeOK, ApplyMemPeak, AppliedProfile, Point
    <3>2. job' = [who |-> "ipc", kind |-> "F1", pair |-> p, core |-> core, step |-> "write"]
      BY <3>1 DEF BeginApply
    <3> QED
      BY <3>2 DEF Job
  <2>3. hist' \in Observed
    BY <1>21 DEF TypeOK, ApplyMemPeak, BeginApply, Point, Observed
  <2>4. used' \in [faults : Nat, ops : Nat, runs : Nat]
    BY <1>21 DEF TypeOK, ApplyMemPeak, Request
  <2> QED
    BY <1>21, <2>1, <2>2, <2>3, <2>4 DEF TypeOK, ApplyMemPeak, BeginApply
<1>22. CASE ManualApply
  <2>1. flag' \in BootFlag \cup {NoFlag}
    <3>1. "manual_diagnostic_point" \in FlagPhases
      BY DEF FlagPhases
    <3> QED
      BY <1>22, <3>1, FlagType DEF ManualApply, Arm
  <2>2. applied' \in AppliedProfile \cup {NoProfile}
    BY <1>22 DEF TypeOK, ManualApply, Point, Job, AppliedProfile
  <2>3. hw' \in Gpu
    BY <1>22, ResetValuesType DEF TypeOK, ManualApply, Point, Job,
       ForgeWorker, Gpu
  <2>4. job' \in Job \cup {NoJob}
    BY <1>22 DEF TypeOK, ManualApply, Point, AppliedProfile, Progress,
       MayReapply, Job
  <2>5. hist' \in Observed
    BY <1>22 DEF TypeOK, ManualApply, Point, Observed
  <2>6. used' \in [faults : Nat, ops : Nat, runs : Nat]
    BY <1>22 DEF TypeOK, ManualApply, Request
  <2> QED
    BY <1>22, <2>1, <2>2, <2>3, <2>4, <2>5, <2>6 DEF TypeOK, ManualApply
<1>23. CASE ManualReset
  <2>1. flag' \in BootFlag \cup {NoFlag}
    BY <1>23 DEF TypeOK, ManualReset
  <2>2. applied' \in AppliedProfile \cup {NoProfile}
    BY <1>23 DEF TypeOK, ManualReset, Point, Job, AppliedProfile
  <2>3. hw' \in Gpu
    BY <1>23, ResetValuesType DEF TypeOK, ManualReset, Point, Job,
       ForgeWorker, Gpu
  <2>4. manual' \in BOOLEAN
    BY <1>23 DEF TypeOK, ManualReset
  <2>5. hist' \in Observed
    BY <1>23 DEF TypeOK, ManualReset, Point, Observed
  <2>6. used' \in [faults : Nat, ops : Nat, runs : Nat]
    BY <1>23 DEF TypeOK, ManualReset, Request
  <2> QED
    BY <1>23, <2>1, <2>2, <2>3, <2>4, <2>5, <2>6 DEF TypeOK, ManualReset
<1>24. CASE ResetGpuTuning
  <2>1. flag' \in BootFlag \cup {NoFlag}
    BY <1>24 DEF TypeOK, ResetGpuTuning
  <2>2. record' \in SafeLoopRecord
    BY <1>24, ClearType DEF TypeOK, ResetGpuTuning, AbortForge
  <2>3. applied' \in AppliedProfile \cup {NoProfile}
    BY <1>24 DEF TypeOK, ResetGpuTuning, AbortForge, Point, Job,
       AppliedProfile
  <2>4. hw' \in Gpu
    BY <1>24, ResetValuesType DEF TypeOK, ResetGpuTuning, AbortForge, Point,
       Job, ForgeWorker, Gpu
  <2>5. manual' \in BOOLEAN
    BY <1>24 DEF TypeOK, ResetGpuTuning, AbortForge
  <2>6. prog' \in Progress
    BY <1>24, ProgressType, ResetValuesType DEF TypeOK, ResetGpuTuning,
       AbortForge, Point, Progress
  <2>7. forge' \in ForgeWorker
    BY <1>24, ResetValuesType DEF TypeOK, ResetGpuTuning, AbortForge, Point,
       ForgeWorker, ForgeSteps
  <2>8. hist' \in Observed
    BY <1>24, ObservedType DEF TypeOK, ResetGpuTuning
  <2>9. used' \in [faults : Nat, ops : Nat, runs : Nat]
    BY <1>24 DEF TypeOK, ResetGpuTuning, Request
  <2> QED
    BY <1>24, <2>1, <2>2, <2>3, <2>4, <2>5, <2>6, <2>7, <2>8, <2>9 DEF TypeOK, ResetGpuTuning
<1>25. CASE ResetGpuTuningFull
  <2>1. flag' \in BootFlag \cup {NoFlag}
    BY <1>25 DEF TypeOK, ResetGpuTuningFull
  <2>2. record' \in SafeLoopRecord
    BY <1>25, DefaultType DEF TypeOK, ResetGpuTuningFull, AbortForge
  <2>3. applied' \in AppliedProfile \cup {NoProfile}
    BY <1>25 DEF TypeOK, ResetGpuTuningFull, AbortForge, Point, Job,
       AppliedProfile
  <2>4. checkpoint' \in Progress \cup {NoCheckpoint}
    BY <1>25, ProgressType, ResetValuesType DEF TypeOK, ResetGpuTuningFull,
       AbortForge, Progress
  <2>5. baseline' \in Nat \cup {NoBaseline}
    BY <1>25 DEF TypeOK, ResetGpuTuningFull, AbortForge, EventLog
  <2>6. hw' \in Gpu
    BY <1>25, ResetValuesType DEF TypeOK, ResetGpuTuningFull, AbortForge,
       Point, Job, ForgeWorker, Gpu
  <2>7. manual' \in BOOLEAN
    BY <1>25 DEF TypeOK, ResetGpuTuningFull, AbortForge
  <2>8. prog' \in Progress
    BY <1>25, ProgressType, ResetValuesType DEF TypeOK, ResetGpuTuningFull,
       AbortForge, Point, Progress
  <2>9. forge' \in ForgeWorker
    BY <1>25, ResetValuesType DEF TypeOK, ResetGpuTuningFull, AbortForge,
       Point, ForgeWorker, ForgeSteps
  <2>10. hist' \in Observed
    BY <1>25, ObservedType DEF TypeOK, ResetGpuTuningFull
  <2>11. used' \in [faults : Nat, ops : Nat, runs : Nat]
    BY <1>25 DEF TypeOK, ResetGpuTuningFull, Request
  <2> QED
    BY <1>25, <2>1, <2>2, <2>3, <2>4, <2>5, <2>6, <2>7, <2>8, <2>9, <2>10,
       <2>11 DEF TypeOK, ResetGpuTuningFull
<1>26. CASE AcknowledgeIncident
  <2>1. record' \in SafeLoopRecord
    BY <1>26, AcknowledgeType DEF TypeOK, AcknowledgeIncident
  <2>2. hist' \in Observed
    BY <1>26 DEF TypeOK, AcknowledgeIncident, Point, Observed
  <2>3. used' \in [faults : Nat, ops : Nat, runs : Nat]
    BY <1>26 DEF TypeOK, AcknowledgeIncident, Request
  <2> QED
    BY <1>26, <2>1, <2>2, <2>3 DEF TypeOK, AcknowledgeIncident
<1>27. CASE ReportProfileUnstable
  <2>1. record' \in SafeLoopRecord
    BY <1>27, IntentType, BlacklistType DEF TypeOK, ReportProfileUnstable,
       Progress, Point, StateUnlessSafe, SafeLoopRecord, SafeLoopState
  <2>2. checkpoint' \in Progress \cup {NoCheckpoint}
    BY <1>27, ProgressType, ResetValuesType DEF TypeOK, ReportProfileUnstable,
       Progress
  <2>3. ledger' \subseteq Nat \X Nat
    BY <1>27, IntentType DEF TypeOK, ReportProfileUnstable, Point, Progress,
       AppliedProfile, ShapeOK
  <2>4. prog' \in Progress
    BY <1>27, ProgressType, ResetValuesType DEF TypeOK, ReportProfileUnstable,
       Point, Progress
  <2>5. used' \in [faults : Nat, ops : Nat, runs : Nat]
    BY <1>27 DEF TypeOK, ReportProfileUnstable, Request
  <2> QED
    BY <1>27, <2>1, <2>2, <2>3, <2>4, <2>5 DEF TypeOK, ReportProfileUnstable
<1>28. CASE ForgeStart
  <2>1. forge' \in ForgeWorker
    <3>1. CASE forge' = forge
      BY <3>1 DEF TypeOK
    <3>2. CASE \E organic \in BOOLEAN :
                 forge' = [IdleForge EXCEPT !.step = "starting", !.clean = organic,
                                            !.run = used.runs + 1]
      <4>1. PICK organic \in BOOLEAN :
                forge' = [IdleForge EXCEPT !.step = "starting", !.clean = organic,
                                           !.run = used.runs + 1]
        BY <3>2
      <4> DEFINE run == used.runs + 1
      <4>2. run \in Nat
        BY DEF TypeOK
      <4>3. forge' = [IdleForge EXCEPT !.step = "starting", !.clean = organic, !.run = run]
        BY <4>1
      <4> HIDE DEF run
      <4> QED
        BY <4>2, <4>3, ResetValuesType DEF ForgeWorker, ForgeSteps
    <3> QED
      BY <1>28, <3>1, <3>2 DEF ForgeStart
  <2> QED
    BY <1>28, <2>1 DEF TypeOK, ForgeStart
<1>47. CASE ForgeRequest
  <2>1. job' \in Job
    BY <1>47 DEF ForgeRequest, Job, Point
  <2>2. used' \in [faults : Nat, ops : Nat, runs : Nat]
    BY <1>47 DEF TypeOK, ForgeRequest, Request
  <2> QED
    BY <1>47, <2>1, <2>2 DEF TypeOK, ForgeRequest
<1>29. CASE ForgeStop
  <2>1. prog' \in Progress
    BY <1>29, ProgressType, ResetValuesType DEF TypeOK, ForgeStop, Point,
       Progress
  <2>2. forge' \in ForgeWorker
    BY <1>29, ResetValuesType DEF TypeOK, ForgeStop, Point, ForgeWorker,
       ForgeSteps
  <2>3. used' \in [faults : Nat, ops : Nat, runs : Nat]
    BY <1>29 DEF TypeOK, ForgeStop, Request
  <2> QED
    BY <1>29, <2>1, <2>2, <2>3 DEF TypeOK, ForgeStop
<1>30. CASE StopReset
  <2>1. flag' \in BootFlag \cup {NoFlag}
    BY <1>30 DEF TypeOK, StopReset
  <2>2. applied' \in AppliedProfile \cup {NoProfile}
    BY <1>30 DEF TypeOK, StopReset, Point, Job, AppliedProfile
  <2>3. hw' \in Gpu
    BY <1>30, ResetValuesType DEF TypeOK, StopReset, Point, Job, ForgeWorker,
       Gpu
  <2>4. pc' \in StartupSteps \cup {"off", "ready", "stopping"}
    BY <1>30 DEF TypeOK, StopReset, StartupSteps
  <2>5. manual' \in BOOLEAN
    BY <1>30 DEF TypeOK, StopReset
  <2>6. used' \in [faults : Nat, ops : Nat, runs : Nat]
    BY <1>30 DEF TypeOK, StopReset, Request
  <2> QED
    BY <1>30, <2>1, <2>2, <2>3, <2>4, <2>5, <2>6 DEF TypeOK, StopReset
<1>31. CASE ForgePreflight
  <2>1. flag' \in BootFlag \cup {NoFlag}
    BY <1>31 DEF TypeOK, ForgePreflight
  <2>2. record' \in SafeLoopRecord
    BY <1>31, StripType DEF TypeOK, ForgePreflight
  <2>3. checkpoint' \in Progress \cup {NoCheckpoint}
    BY <1>31, ProgressType, ResetValuesType DEF TypeOK, ForgePreflight,
       Progress
  <2>4. hw' \in Gpu
    BY <1>31, ResetValuesType DEF TypeOK, ForgePreflight, Point, Job,
       ForgeWorker, Gpu
  <2>5. prog' \in Progress
    <3> DEFINE started == [running |-> TRUE, phase |-> "power", run |-> forge.run,
                           profile |-> IF forge.clean THEN Stock ELSE prog.profile,
                           qualified |-> FALSE]
    <3>1. started \in Progress
      BY DEF TypeOK, Progress, ForgeWorker, Point
    <3>2. \/ prog' = started
          \/ prog' = [started EXCEPT !.running = FALSE, !.phase = "incomplete"]
          \/ prog' = [started EXCEPT !.running = FALSE, !.phase = "interrupted"]
      BY <1>31 DEF ForgePreflight
    <3> HIDE DEF started
    <3> QED
      BY <3>1, <3>2 DEF Progress
  <2>6. forge' \in ForgeWorker
    BY <1>31, ResetValuesType DEF TypeOK, ForgePreflight, Point, ForgeWorker,
       ForgeSteps
  <2>7. hist' \in Observed
    BY <1>31 DEF TypeOK, ForgePreflight, Point, Observed
  <2>8. used' \in [faults : Nat, ops : Nat, runs : Nat]
    BY <1>31 DEF TypeOK, ForgePreflight
  <2> QED
    BY <1>31, <2>1, <2>2, <2>3, <2>4, <2>5, <2>6, <2>7, <2>8 DEF TypeOK, ForgePreflight
<1>32. CASE ForgePreheatFails
  <2>1. flag' \in BootFlag \cup {NoFlag}
    BY <1>32 DEF TypeOK, ForgePreheatFails
  <2>2. checkpoint' \in Progress \cup {NoCheckpoint}
    BY <1>32, ProgressType, ResetValuesType DEF TypeOK, ForgePreheatFails,
       Progress
  <2>3. hw' \in Gpu
    BY <1>32, ResetValuesType DEF TypeOK, ForgePreheatFails, Point, Job,
       ForgeWorker, Gpu
  <2>4. prog' \in Progress
    BY <1>32, ProgressType, ResetValuesType DEF TypeOK, ForgePreheatFails,
       Point, Progress
  <2>5. forge' \in ForgeWorker
    BY <1>32, ResetValuesType DEF TypeOK, ForgePreheatFails, Point,
       ForgeWorker, ForgeSteps
  <2> QED
    BY <1>32, <2>1, <2>2, <2>3, <2>4, <2>5 DEF TypeOK, ForgePreheatFails
<1>33. CASE ForgeMarkRunning
  <2>1. checkpoint' \in Progress \cup {NoCheckpoint}
    BY <1>33, ProgressType, ResetValuesType DEF TypeOK, ForgeMarkRunning,
       Progress
  <2>2. forge' \in ForgeWorker
    BY <1>33, ResetValuesType DEF TypeOK, ForgeMarkRunning, Point,
       ForgeWorker, ForgeSteps
  <2> QED
    BY <1>33, <2>1, <2>2 DEF TypeOK, ForgeMarkRunning
<1>34. ASSUME NEW p \in Pairs, ForgeArm(p) PROVE TypeOK'
  <2>1. flag' \in BootFlag \cup {NoFlag}
    <3>1. SUPERVISED_F2_FORGE_PHASE \in FlagPhases
      BY DEF FlagPhases
    <3> QED
      BY <1>34, <3>1, FlagType DEF ForgeArm, Arm
  <2>2. forge' \in ForgeWorker
    BY <1>34, ResetValuesType DEF TypeOK, ForgeArm, Point, ForgeWorker,
       ForgeSteps
  <2>3. hist' \in Observed
    BY <1>34 DEF TypeOK, ForgeArm, Point, Observed
  <2> QED
    BY <1>34, <2>1, <2>2, <2>3 DEF TypeOK, ForgeArm
<1>35. CASE ForgeWrite
  <2>1. hw' \in Gpu
    <3>1. forge.cand \in Point /\ Stock \in Point
      BY DEF TypeOK, ForgeWorker, Point
    <3>2. \E curve \in Point : hw' = [curve |-> curve, lock |-> TRUE]
      BY <1>35, <3>1 DEF ForgeWrite
    <3> QED
      BY <3>2 DEF Gpu
  <2>2. forge' \in ForgeWorker
    BY <1>35, ResetValuesType DEF TypeOK, ForgeWrite, Point, ForgeWorker,
       ForgeSteps
  <2> QED
    BY <1>35, <2>1, <2>2 DEF TypeOK, ForgeWrite
<1>36. CASE ForgeDwell
  <2>1. forge' \in ForgeWorker
    BY <1>36, ResetValuesType DEF TypeOK, ForgeDwell, Point, ForgeWorker,
       ForgeSteps
  <2> QED
    BY <1>36, <2>1 DEF TypeOK, ForgeDwell
<1>37. CASE ForgeReset
  <2>1. hw' \in Gpu
    BY <1>37, ResetValuesType DEF TypeOK, ForgeReset, Point, Job, ForgeWorker,
       Gpu
  <2>2. forge' \in ForgeWorker
    BY <1>37, ResetValuesType DEF TypeOK, ForgeReset, Point, ForgeWorker,
       ForgeSteps
  <2> QED
    BY <1>37, <2>1, <2>2 DEF TypeOK, ForgeReset
<1>38. CASE ForgeBlacklist
  <2>1. record' \in SafeLoopRecord
    BY <1>38, IntentType, BlacklistType DEF TypeOK, ForgeBlacklist,
       ForgeWorker, Point, ShapeOK
  <2>2. forge' \in ForgeWorker
    BY <1>38, ResetValuesType DEF TypeOK, ForgeBlacklist, Point, ForgeWorker,
       ForgeSteps
  <2> QED
    BY <1>38, <2>1, <2>2 DEF TypeOK, ForgeBlacklist
<1>39. CASE ForgeClear
  <2>1. flag' \in BootFlag \cup {NoFlag}
    BY <1>39 DEF TypeOK, ForgeClear
  <2>2. forge' \in ForgeWorker
    BY <1>39, ResetValuesType DEF TypeOK, ForgeClear, Point, ShapeOK,
       ForgeWorker, ForgeSteps
  <2> QED
    BY <1>39, <2>1, <2>2 DEF TypeOK, ForgeClear
<1>40. CASE ForgeEnd
  <2>1. flag' \in BootFlag \cup {NoFlag}
    BY <1>40 DEF TypeOK, ForgeEnd
  <2>2. checkpoint' \in Progress \cup {NoCheckpoint}
    BY <1>40, ProgressType, ResetValuesType DEF TypeOK, ForgeEnd, Progress
  <2>3. hw' \in Gpu
    BY <1>40, ResetValuesType DEF TypeOK, ForgeEnd, Point, Job, ForgeWorker,
       Gpu
  <2>4. prog' \in Progress
    BY <1>40, ProgressType, ResetValuesType DEF TypeOK, ForgeEnd, Point,
       Progress
  <2>5. forge' \in ForgeWorker
    BY <1>40, ResetValuesType DEF TypeOK, ForgeEnd, Point, ForgeWorker,
       ForgeSteps
  <2> QED
    BY <1>40, <2>1, <2>2, <2>3, <2>4, <2>5 DEF TypeOK, ForgeEnd
<1>41. CASE SurvivalTimer
  <2>1. flag' \in BootFlag \cup {NoFlag}
    BY <1>41 DEF TypeOK, SurvivalTimer
  <2>2. timers' \in Nat
    BY <1>41 DEF TypeOK, SurvivalTimer
  <2> QED
    BY <1>41, <2>1, <2>2 DEF TypeOK, SurvivalTimer
<1>42. CASE MachineCrash
  <2>1. log' \in EventLog
    <3>1. PICK class \in CrashClass, inSession \in BOOLEAN, tdr \in {0, 1} :
              log' = [class |-> class, inSession |-> inSession, tdr |-> log.tdr + tdr,
                      thisBoot |-> FALSE]
      <4>1. PICK class \in CrashClass \cup {"freeze"}, tdr \in {0, 1} :
                log' = [class     |-> IF class = "freeze" THEN log.class ELSE class,
                        inSession |-> IF class = "freeze" THEN log.inSession
                                      ELSE applied # NoProfile,
                        tdr       |-> log.tdr + tdr,
                        thisBoot  |-> FALSE]
        BY <1>42 DEF MachineCrash
      <4>2. log.class \in CrashClass /\ log.inSession \in BOOLEAN
        BY DEF TypeOK, EventLog
      <4>3. CASE class = "freeze"
        BY <4>1, <4>2, <4>3
      <4>4. CASE class # "freeze"
        BY <4>1, <4>4
      <4> QED
        BY <4>3, <4>4
    <3> DEFINE count == log.tdr + tdr
    <3>2. count \in Nat
      BY DEF TypeOK, EventLog
    <3>3. log' = [class |-> class, inSession |-> inSession, tdr |-> count,
                  thisBoot |-> FALSE]
      BY <3>1
    <3> HIDE DEF count
    <3> QED
      BY <3>2, <3>3 DEF EventLog
  <2>2. hw' \in Gpu
    BY <1>42, ResetValuesType DEF TypeOK, MachineCrash, ProcessGone, Point,
       Job, ForgeWorker, Gpu
  <2>3. pc' \in StartupSteps \cup {"off", "ready", "stopping"}
    BY <1>42 DEF TypeOK, MachineCrash, ProcessGone, StartupSteps
  <2>4. latch' \in BOOLEAN
    BY <1>42 DEF TypeOK, MachineCrash, ProcessGone, EventLog
  <2>5. job' \in Job \cup {NoJob}
    BY <1>42 DEF TypeOK, MachineCrash, ProcessGone, Point, AppliedProfile,
       Progress, MayReapply, Job
  <2>6. timers' \in Nat
    BY <1>42 DEF TypeOK, MachineCrash, ProcessGone
  <2>7. manual' \in BOOLEAN
    BY <1>42 DEF TypeOK, MachineCrash, ProcessGone
  <2>8. prog' \in Progress
    BY <1>42, ProgressType, ResetValuesType DEF TypeOK, MachineCrash,
       ProcessGone, Point, Progress
  <2>9. forge' \in ForgeWorker
    BY <1>42, ResetValuesType DEF TypeOK, MachineCrash, ProcessGone, Point,
       ForgeWorker, ForgeSteps
  <2>10. hist' \in Observed
    <3>1. PICK count \in Nat, crashes \in SUBSET Point,
               wedges \in SUBSET [pair : Point, by : {"tdr", "first_tdr", "bugcheck"}] :
              hist' = [hist EXCEPT !.autoCrashes = count,
                                   !.unacked = @ \/ ForgeUnderWay,
                                   !.crashed = @ \cup crashes,
                                   !.wedged = @ \cup wedges]
      <4>1. PICK class \in CrashClass \cup {"freeze"}, tdr \in {0, 1} :
                hist' = [hist EXCEPT
                  !.autoCrashes = IF pc # "off" /\ Armed /\ hist.armedBy = "boot"
                                  THEN @ + 1 ELSE @,
                  !.unacked = @ \/ ForgeUnderWay,
                  !.crashed = @ \cup CrashedCandidate,
                  !.wedged = @ \cup Wedged(
                        (IF tdr = 1 THEN {TdrEvidence} ELSE {})
                            \cup (IF class = "OcInstability" THEN {"bugcheck"} ELSE {}))]
        BY <1>42 DEF MachineCrash
      <4> DEFINE count == IF pc # "off" /\ Armed /\ hist.armedBy = "boot"
                          THEN hist.autoCrashes + 1 ELSE hist.autoCrashes
                 evidence == (IF tdr = 1 THEN {TdrEvidence} ELSE {})
                            \cup (IF class = "OcInstability" THEN {"bugcheck"} ELSE {})
      <4>2. hist.autoCrashes \in Nat
        BY ObservedType DEF TypeOK
      <4>3. count \in Nat
        BY <4>2
      <4>4. CrashedCandidate \in SUBSET Point
        BY DEF TypeOK, ForgeWorker, CrashedCandidate
      <4>5. evidence \subseteq {"tdr", "first_tdr", "bugcheck"}
        BY DEF TdrEvidence
      <4>6. Wedged(evidence) \in SUBSET [pair : Point, by : {"tdr", "first_tdr", "bugcheck"}]
        BY <4>5, WedgedType DEF TypeOK
      <4>7. hist' = [hist EXCEPT !.autoCrashes = count,
                                 !.unacked = @ \/ ForgeUnderWay,
                                 !.crashed = @ \cup CrashedCandidate,
                                 !.wedged = @ \cup Wedged(evidence)]
        BY <4>1 DEF TypeOK, Observed
      <4> HIDE DEF count, evidence
      <4> QED
        BY <4>3, <4>4, <4>6, <4>7
    <3> QED
      BY <3>1 DEF TypeOK, Observed
  <2>11. used' \in [faults : Nat, ops : Nat, runs : Nat]
    BY <1>42 DEF TypeOK, MachineCrash, Fault
  <2> QED
    BY <1>42, <2>1, <2>2, <2>3, <2>4, <2>5, <2>6, <2>7, <2>8, <2>9, <2>10,
       <2>11 DEF TypeOK, MachineCrash
<1>43. CASE ServiceKilled
  <2>1. pc' \in StartupSteps \cup {"off", "ready", "stopping"}
    BY <1>43 DEF TypeOK, ServiceKilled, ProcessGone, StartupSteps
  <2>2. latch' \in BOOLEAN
    BY <1>43 DEF TypeOK, ServiceKilled, ProcessGone, EventLog
  <2>3. job' \in Job \cup {NoJob}
    BY <1>43 DEF TypeOK, ServiceKilled, ProcessGone, Point, AppliedProfile,
       Progress, MayReapply, Job
  <2>4. timers' \in Nat
    BY <1>43 DEF TypeOK, ServiceKilled, ProcessGone
  <2>5. manual' \in BOOLEAN
    BY <1>43 DEF TypeOK, ServiceKilled, ProcessGone
  <2>6. prog' \in Progress
    BY <1>43, ProgressType, ResetValuesType DEF TypeOK, ServiceKilled,
       ProcessGone, Point, Progress
  <2>7. forge' \in ForgeWorker
    BY <1>43, ResetValuesType DEF TypeOK, ServiceKilled, ProcessGone, Point,
       ForgeWorker, ForgeSteps
  <2>8. hist' \in Observed
    BY <1>43 DEF TypeOK, ServiceKilled, ProcessGone, Point, ForgeUnderWay,
       Observed
  <2>9. used' \in [faults : Nat, ops : Nat, runs : Nat]
    BY <1>43 DEF TypeOK, ServiceKilled, Fault
  <2> QED
    BY <1>43, <2>1, <2>2, <2>3, <2>4, <2>5, <2>6, <2>7, <2>8, <2>9 DEF TypeOK, ServiceKilled
<1>44. CASE DriverResetWhileDown
  <2>1. log' \in EventLog
    <3> DEFINE count == log.tdr + 1
    <3>1. count \in Nat
      BY DEF TypeOK, EventLog
    <3>2. log' = [log EXCEPT !.tdr = count, !.thisBoot = TRUE]
      BY <1>44 DEF DriverResetWhileDown
    <3> HIDE DEF count
    <3> QED
      BY <3>1, <3>2 DEF TypeOK, EventLog
  <2>2. hw' \in Gpu
    BY <1>44, ResetValuesType DEF TypeOK, DriverResetWhileDown, Point, Job,
       ForgeWorker, Gpu
  <2>3. hist' \in Observed
    BY <1>44 DEF TypeOK, DriverResetWhileDown, Point, Wedged, TdrEvidence,
       AppliedProfile, Observed
  <2>4. used' \in [faults : Nat, ops : Nat, runs : Nat]
    BY <1>44 DEF TypeOK, DriverResetWhileDown, Fault
  <2> QED
    BY <1>44, <2>1, <2>2, <2>3, <2>4 DEF TypeOK, DriverResetWhileDown
<1>45. CASE StopMark
  <2>1. clean' \in BOOLEAN
    BY <1>45 DEF TypeOK, StopMark, ProcessGone
  <2>2. log' \in EventLog
    BY <1>45 DEF TypeOK, StopMark, ProcessGone, CrashClass, EventLog
  <2>3. hw' \in Gpu
    BY <1>45, ResetValuesType DEF TypeOK, StopMark, ProcessGone, Point, Job,
       ForgeWorker, Gpu
  <2>4. pc' \in StartupSteps \cup {"off", "ready", "stopping"}
    BY <1>45 DEF TypeOK, StopMark, ProcessGone, StartupSteps
  <2>5. latch' \in BOOLEAN
    BY <1>45 DEF TypeOK, StopMark, ProcessGone, EventLog
  <2>6. job' \in Job \cup {NoJob}
    BY <1>45 DEF TypeOK, StopMark, ProcessGone, Point, AppliedProfile,
       Progress, MayReapply, Job
  <2>7. timers' \in Nat
    BY <1>45 DEF TypeOK, StopMark, ProcessGone
  <2>8. manual' \in BOOLEAN
    BY <1>45 DEF TypeOK, StopMark, ProcessGone
  <2>9. prog' \in Progress
    BY <1>45, ProgressType, ResetValuesType DEF TypeOK, StopMark, ProcessGone,
       Point, Progress
  <2>10. forge' \in ForgeWorker
    BY <1>45, ResetValuesType DEF TypeOK, StopMark, ProcessGone, Point,
       ForgeWorker, ForgeSteps
  <2>11. hist' \in Observed
    BY <1>45 DEF TypeOK, StopMark, ProcessGone, Point, ForgeUnderWay, Observed
  <2> QED
    BY <1>45, <2>1, <2>2, <2>3, <2>4, <2>5, <2>6, <2>7, <2>8, <2>9, <2>10,
       <2>11 DEF TypeOK, StopMark
<1>46. CASE UNCHANGED vars
  BY <1>46 DEF TypeOK, vars
<1> QED
  BY <1>1, <1>2, <1>3, <1>4, <1>5, <1>6, <1>7, <1>8, <1>9, <1>10, <1>11,
     <1>12, <1>13, <1>14, <1>15, <1>16, <1>17, <1>18, <1>19, <1>20, <1>21,
     <1>22, <1>23, <1>24, <1>25, <1>26, <1>27, <1>28, <1>29, <1>30, <1>31,
     <1>32, <1>33, <1>34, <1>35, <1>36, <1>37, <1>38, <1>39, <1>40, <1>41,
     <1>42, <1>43, <1>44, <1>45, <1>46, <1>47, PairsAssumption
     DEF Next, Startup, Applying, Operator, Forge, Environment
-----------------------------------------------------------------------------
(* The shape of what one step leaves for the next.                         *)

LEMMA ShapeNext == TypeOK /\ ShapeOK /\ [Next]_vars => ShapeOK'
<1> SUFFICES ASSUME TypeOK, ShapeOK, [Next]_vars PROVE ShapeOK'
  OBVIOUS
<1>1. CASE Start
  BY <1>1 DEF ShapeOK, Starting, Undecided, Start
<1>2. CASE ReconcileRecord
  BY <1>2 DEF ShapeOK, Starting, Undecided, ReconcileRecord
<1>3. CASE ReconcileCheckpoint
  BY <1>3 DEF ShapeOK, Starting, Undecided, TypeOK, ReconcileCheckpoint,
     Progress
<1>4. CASE RecoverConsumeMarker
  BY <1>4 DEF ShapeOK, Starting, Undecided, RecoverConsumeMarker
<1>5. CASE RecoverDisarm
  BY <1>5 DEF ShapeOK, Starting, Undecided, RecoverDisarm
<1>6. CASE RecoverCommit
  BY <1>6 DEF ShapeOK, Starting, Undecided, RecoverCommit
<1>7. CASE InitializeRebootGuard
  BY <1>7 DEF ShapeOK, Starting, Undecided, InitializeRebootGuard
<1>8. CASE StartupReconcile
  BY <1>8 DEF ShapeOK, Starting, Undecided, StartupReconcile
<1>9. CASE DemoteCondemn
  BY <1>9 DEF ShapeOK, Starting, Undecided, DemoteCondemn
<1>10. CASE DemoteClearApplied
  BY <1>10 DEF ShapeOK, Starting, Undecided, TypeOK, Job, AppliedProfile,
     Point, DemoteClearApplied
<1>11. CASE PersistBaseline
  BY <1>11 DEF ShapeOK, Starting, Undecided, PersistBaseline
<1>12. CASE SkipReapply
  BY <1>12 DEF ShapeOK, Starting, Undecided, SkipReapply, MayReapply, OpenPipe
<1>13. CASE ReapplyArm
  BY <1>13 DEF ShapeOK, Starting, Undecided, TypeOK, Job, AppliedProfile,
     Point, ReapplyArm, Arm, MayReapply
<1>14. CASE ApplyWriteOk
  BY <1>14 DEF ShapeOK, Starting, Undecided, TypeOK, Job, AppliedProfile,
     Point, ApplyWriteOk
<1>15. CASE ApplyWriteFails
  BY <1>15 DEF ShapeOK, Starting, Undecided, TypeOK, Job, AppliedProfile,
     Point, ApplyWriteFails, ApplyReturns, OpenPipe
<1>16. CASE ApplySave
  <2>1. pc' \in {pc, "ready"} /\ job' = NoJob /\ UNCHANGED <<forge, checkpoint>>
    BY <1>16 DEF ApplySave, ApplyReturns, OpenPipe
  <2>3. pc' = "ready"
    BY <1>16 DEF ShapeOK, ApplySave, ApplyReturns, OpenPipe
  <2>4. applied' = [kind |-> job.kind, pair |-> job.pair]
        /\ (job.kind = "F2" => job.pair # Stock)
    BY <1>16 DEF ShapeOK, ApplySave
  <2> QED
    BY <2>1, <2>3, <2>4 DEF ShapeOK, Starting, Undecided
<1>17. CASE ManualWriteOk
  BY <1>17 DEF ShapeOK, Starting, Undecided, TypeOK, Job, AppliedProfile,
     Point, ManualWriteOk
<1>18. CASE ManualWriteFails
  BY <1>18 DEF ShapeOK, Starting, Undecided, TypeOK, Job, AppliedProfile,
     Point, ManualWriteFails
<1>19. CASE ApplyForgeProfile
  BY <1>19, PairsAssumption DEF ShapeOK, Starting, Undecided, TypeOK, Job,
     AppliedProfile, Point, ApplyForgeProfile, BeginApply, Arm, Request,
     Progress
<1>20. CASE ApplySweepProfile
  BY <1>20, PairsAssumption DEF ShapeOK, Starting, Undecided, TypeOK, Job,
     AppliedProfile, Point, ApplySweepProfile, BeginApply, Arm, Request
<1>21. CASE ApplyMemPeak
  BY <1>21 DEF ShapeOK, Starting, Undecided, TypeOK, Job, AppliedProfile,
     Point, ApplyMemPeak, BeginApply, Arm, Request
<1>22. CASE ManualApply
  BY <1>22, PairsAssumption DEF ShapeOK, Starting, Undecided, TypeOK, Job,
     AppliedProfile, Point, ManualApply, Arm, Request
<1>23. CASE ManualReset
  BY <1>23 DEF ShapeOK, Starting, Undecided, TypeOK, Job, AppliedProfile,
     Point, ManualReset, Request
<1>24. CASE ResetGpuTuning
  BY <1>24 DEF ShapeOK, Starting, Undecided, TypeOK, Job, AppliedProfile,
     Point, ForgeWorker, ResetGpuTuning, AbortForge, Request
<1>25. CASE ResetGpuTuningFull
  BY <1>25 DEF ShapeOK, Starting, Undecided, TypeOK, Job, AppliedProfile,
     Point, ForgeWorker, ResetGpuTuningFull, AbortForge, Request
<1>26. CASE AcknowledgeIncident
  BY <1>26 DEF ShapeOK, Starting, Undecided, AcknowledgeIncident, Request
<1>27. CASE ReportProfileUnstable
  BY <1>27 DEF ShapeOK, Starting, Undecided, TypeOK, ReportProfileUnstable,
     Request
<1>28. CASE ForgeStart
  BY <1>28 DEF ShapeOK, Starting, Undecided, TypeOK, ForgeWorker, Point,
     ForgeStart, IdleForge
<1>47. CASE ForgeRequest
  BY <1>47 DEF ShapeOK, Starting, Undecided, TypeOK, ForgeWorker, Point,
     ForgeRequest, Request
<1>29. CASE ForgeStop
  BY <1>29 DEF ShapeOK, Starting, Undecided, TypeOK, ForgeWorker, Point,
     ForgeStop, Request
<1>30. CASE StopReset
  BY <1>30 DEF ShapeOK, Starting, Undecided, TypeOK, Job, AppliedProfile,
     Point, StopReset, Request
<1>31. CASE ForgePreflight
  BY <1>31 DEF ShapeOK, Starting, Undecided, TypeOK, ForgeWorker, Point,
     ForgePreflight, IdleForge
<1>32. CASE ForgePreheatFails
  BY <1>32 DEF ShapeOK, Starting, Undecided, TypeOK, ForgeWorker, Point,
     ForgePreheatFails, IdleForge
<1>33. CASE ForgeMarkRunning
  BY <1>33 DEF ShapeOK, Starting, Undecided, TypeOK, ForgeWorker, Point,
     ForgeMarkRunning
<1>34. ASSUME NEW p \in Pairs, ForgeArm(p) PROVE ShapeOK'
  BY <1>34, PairsAssumption DEF ShapeOK, Starting, Undecided, TypeOK,
     ForgeWorker, Point, ForgeArm, Arm
<1>35. CASE ForgeWrite
  BY <1>35 DEF ShapeOK, Starting, Undecided, TypeOK, ForgeWorker, Point,
     ForgeWrite
<1>36. CASE ForgeDwell
  BY <1>36 DEF ShapeOK, Starting, Undecided, TypeOK, ForgeWorker, Point,
     ForgeDwell
<1>37. CASE ForgeReset
  BY <1>37 DEF ShapeOK, Starting, Undecided, TypeOK, ForgeWorker, Point,
     ForgeReset
<1>38. CASE ForgeBlacklist
  BY <1>38 DEF ShapeOK, Starting, Undecided, TypeOK, ForgeWorker, Point,
     ForgeBlacklist
<1>39. CASE ForgeClear
  BY <1>39 DEF ShapeOK, Starting, Undecided, TypeOK, ForgeWorker, Point,
     ForgeClear
<1>40. CASE ForgeEnd
  BY <1>40 DEF ShapeOK, Starting, Undecided, TypeOK, ForgeWorker, Point,
     ForgeEnd, IdleForge
<1>41. CASE SurvivalTimer
  BY <1>41 DEF ShapeOK, Starting, Undecided, SurvivalTimer
<1>42. CASE MachineCrash
  BY <1>42 DEF ShapeOK, Starting, Undecided, TypeOK, Job, AppliedProfile,
     Point, ForgeWorker, MachineCrash, ProcessGone, IdleForge
<1>43. CASE ServiceKilled
  BY <1>43 DEF ShapeOK, Starting, Undecided, TypeOK, Job, AppliedProfile,
     Point, ForgeWorker, ServiceKilled, ProcessGone, IdleForge
<1>44. CASE DriverResetWhileDown
  BY <1>44 DEF ShapeOK, Starting, Undecided, DriverResetWhileDown
<1>45. CASE StopMark
  BY <1>45 DEF ShapeOK, Starting, Undecided, TypeOK, Job, AppliedProfile,
     Point, ForgeWorker, StopMark, ProcessGone, IdleForge
<1>46. CASE UNCHANGED vars
  BY <1>46 DEF vars, ShapeOK, Starting, Undecided
<1> QED
  BY <1>1, <1>2, <1>3, <1>4, <1>5, <1>6, <1>7, <1>8, <1>9, <1>10, <1>11,
     <1>12, <1>13, <1>14, <1>15, <1>16, <1>17, <1>18, <1>19, <1>20, <1>21,
     <1>22, <1>23, <1>24, <1>25, <1>26, <1>27, <1>28, <1>29, <1>30, <1>31,
     <1>32, <1>33, <1>34, <1>35, <1>36, <1>37, <1>38, <1>39, <1>40, <1>41,
     <1>42, <1>43, <1>44, <1>45, <1>46, <1>47, PairsAssumption
     DEF Next, Startup, Applying, Operator, Forge, Environment

-----------------------------------------------------------------------------
(* Beside the recovery decision, a step keeps crash count and latch, or    *)
(* resets both together with the count of automatic crashes.                *)
RecordKept ==
    /\ record'.consecutive_crashes = record.consecutive_crashes
    /\ record'.safe_mode = record.safe_mode

RecordReset ==
    /\ record'.consecutive_crashes = 0
    /\ record'.safe_mode = FALSE
    /\ hist'.autoCrashes = 0

LEMMA RecordNext == TypeOK /\ ShapeOK /\ [Next]_vars => RecordKept \/ RecordReset \/ RecoverCommit
<1> SUFFICES ASSUME TypeOK, ShapeOK, [Next]_vars PROVE RecordKept \/ RecordReset \/ RecoverCommit
  OBVIOUS
<1>1. CASE Start
  BY <1>1 DEF RecordKept, Start
<1>2. CASE ReconcileRecord
  <2>1. CASE checkpoint # NoCheckpoint /\ checkpoint.running
    <3> DEFINE kind == IF Armed /\ flag.phase = SUPERVISED_F2_FORGE_PHASE /\ ~ clean
                       THEN "CandidateCrash" ELSE "UnaccountedRestart"
    <3>1. kind \in ForgeIncidentKind
      BY DEF ForgeIncidentKind
    <3>2. checkpoint.run \in Nat
      BY <2>1 DEF TypeOK, Progress
    <3>3. record' = RecordForgeIncident(record, kind, checkpoint.run)
      BY <1>2, <2>1 DEF ReconcileRecord
    <3> HIDE DEF kind
    <3> QED
      BY <3>1, <3>2, <3>3, IncidentType DEF TypeOK, RecordKept
  <2>2. CASE ~ (checkpoint # NoCheckpoint /\ checkpoint.running)
    BY <1>2, <2>2 DEF RecordKept, ReconcileRecord
  <2> QED
    BY <2>1, <2>2
<1>3. CASE ReconcileCheckpoint
  BY <1>3 DEF RecordKept, ReconcileCheckpoint
<1>4. CASE RecoverConsumeMarker
  BY <1>4 DEF RecordKept, RecoverConsumeMarker
<1>5. CASE RecoverDisarm
  BY <1>5 DEF RecordKept, RecoverDisarm
<1>6. CASE RecoverCommit
  BY <1>6 DEF RecordKept, RecoverCommit
<1>7. CASE InitializeRebootGuard
  BY <1>7 DEF RecordKept, InitializeRebootGuard
<1>8. CASE StartupReconcile
  BY <1>8 DEF RecordKept, StartupReconcile, TypeOK, SafeLoopRecord
<1>9. CASE DemoteCondemn
  BY <1>9 DEF RecordKept, DemoteCondemn
<1>10. CASE DemoteClearApplied
  BY <1>10 DEF RecordKept, DemoteClearApplied
<1>11. CASE PersistBaseline
  BY <1>11 DEF RecordKept, PersistBaseline
<1>12. CASE SkipReapply
  BY <1>12 DEF RecordKept, SkipReapply, MayReapply, OpenPipe
<1>13. CASE ReapplyArm
  BY <1>13 DEF RecordKept, ReapplyArm, Arm, MayReapply
<1>14. CASE ApplyWriteOk
  BY <1>14 DEF RecordKept, ApplyWriteOk
<1>15. CASE ApplyWriteFails
  BY <1>15 DEF RecordKept, ApplyWriteFails, ApplyReturns, OpenPipe
<1>16. CASE ApplySave
  BY <1>16 DEF RecordKept, ApplySave, ApplyReturns, OpenPipe
<1>17. CASE ManualWriteOk
  BY <1>17 DEF RecordKept, ManualWriteOk
<1>18. CASE ManualWriteFails
  BY <1>18 DEF RecordKept, ManualWriteFails
<1>19. CASE ApplyForgeProfile
  BY <1>19 DEF RecordKept, ApplyForgeProfile, BeginApply, Arm, Request
<1>20. CASE ApplySweepProfile
  BY <1>20 DEF RecordKept, ApplySweepProfile, BeginApply, Arm, Request
<1>21. CASE ApplyMemPeak
  BY <1>21 DEF RecordKept, ApplyMemPeak, BeginApply, Arm, Request
<1>22. CASE ManualApply
  BY <1>22 DEF RecordKept, ManualApply, Arm, Request
<1>23. CASE ManualReset
  BY <1>23 DEF RecordKept, ManualReset, Request
<1>24. CASE ResetGpuTuning
  BY <1>24, ClearType DEF RecordKept, ResetGpuTuning, AbortForge, Request,
     TypeOK, RecordReset, Observed
<1>25. CASE ResetGpuTuningFull
  BY <1>25, DefaultType DEF RecordKept, ResetGpuTuningFull, AbortForge,
     Request, TypeOK, RecordReset, Observed
<1>26. CASE AcknowledgeIncident
  BY <1>26, AcknowledgeType DEF RecordKept, AcknowledgeIncident, Request,
     TypeOK
<1>27. CASE ReportProfileUnstable
  BY <1>27, IntentType, BlacklistType DEF RecordKept, ReportProfileUnstable,
     Request, TypeOK, Progress, Point, SafeLoopRecord
<1>28. CASE ForgeStart
  BY <1>28 DEF RecordKept, ForgeStart, IdleForge
<1>47. CASE ForgeRequest
  BY <1>47 DEF RecordKept, ForgeRequest, Request
<1>29. CASE ForgeStop
  BY <1>29 DEF RecordKept, ForgeStop, Request
<1>30. CASE StopReset
  BY <1>30 DEF RecordKept, StopReset, Request
<1>31. CASE ForgePreflight
  BY <1>31, StripType DEF RecordKept, ForgePreflight, IdleForge, TypeOK
<1>32. CASE ForgePreheatFails
  BY <1>32 DEF RecordKept, ForgePreheatFails, IdleForge
<1>33. CASE ForgeMarkRunning
  BY <1>33 DEF RecordKept, ForgeMarkRunning
<1>34. ASSUME NEW p \in Pairs, ForgeArm(p) PROVE RecordKept \/ RecordReset \/ RecoverCommit
  BY <1>34 DEF RecordKept, ForgeArm, Arm
<1>35. CASE ForgeWrite
  BY <1>35 DEF RecordKept, ForgeWrite
<1>36. CASE ForgeDwell
  BY <1>36 DEF RecordKept, ForgeDwell
<1>37. CASE ForgeReset
  BY <1>37 DEF RecordKept, ForgeReset
<1>38. CASE ForgeBlacklist
  BY <1>38, IntentType, BlacklistType DEF RecordKept, ForgeBlacklist, TypeOK,
     ShapeOK, ForgeWorker, Point
<1>39. CASE ForgeClear
  BY <1>39 DEF RecordKept, ForgeClear
<1>40. CASE ForgeEnd
  BY <1>40 DEF RecordKept, ForgeEnd, IdleForge
<1>41. CASE SurvivalTimer
  BY <1>41 DEF RecordKept, SurvivalTimer
<1>42. CASE MachineCrash
  BY <1>42 DEF RecordKept, MachineCrash, ProcessGone, IdleForge
<1>43. CASE ServiceKilled
  BY <1>43 DEF RecordKept, ServiceKilled, ProcessGone, IdleForge
<1>44. CASE DriverResetWhileDown
  BY <1>44 DEF RecordKept, DriverResetWhileDown
<1>45. CASE StopMark
  BY <1>45 DEF RecordKept, StopMark, ProcessGone, IdleForge
<1>46. CASE UNCHANGED vars
  BY <1>46 DEF vars, RecordKept
<1> QED
  BY <1>1, <1>2, <1>3, <1>4, <1>5, <1>6, <1>7, <1>8, <1>9, <1>10, <1>11,
     <1>12, <1>13, <1>14, <1>15, <1>16, <1>17, <1>18, <1>19, <1>20, <1>21,
     <1>22, <1>23, <1>24, <1>25, <1>26, <1>27, <1>28, <1>29, <1>30, <1>31,
     <1>32, <1>33, <1>34, <1>35, <1>36, <1>37, <1>38, <1>39, <1>40, <1>41,
     <1>42, <1>43, <1>44, <1>45, <1>46, <1>47, PairsAssumption
     DEF Next, Startup, Applying, Operator, Forge, Environment

(* What the decision does to crash count, latch and flag.                  *)
LEMMA CommitNext ==
    ASSUME TypeOK, SafeModeIffThreshold, RecoverCommit
    PROVE  /\ SafeModeIffThreshold'
           /\ ~ Armed => record'.consecutive_crashes = record.consecutive_crashes
           /\ Armed => flag' = flag
           /\ ~ Armed => flag' = NoFlag
           /\ Armed /\ flag.phase # SUPERVISED_F2_FORGE_PHASE =>
                  record'.consecutive_crashes = record.consecutive_crashes + 1
           /\ record'.consecutive_crashes \in
                  {record.consecutive_crashes, record.consecutive_crashes + 1}
<1> DEFINE class  == IF Armed THEN log.class ELSE "Unknown"
           action == DecideRecovery(flag, class, record)
<1>1. class \in CrashClass
  BY DEF TypeOK, EventLog, CrashClass
<1>2. /\ record' = ApplyRecovery(record, action, flag, class)
      /\ flag' = IF RetainBootFlagUntilReapply(action) THEN flag ELSE NoFlag
  BY DEF RecoverCommit
<1>3. flag \in BootFlag \cup {NoFlag} /\ record \in SafeLoopRecord
  BY DEF TypeOK
<1>4. /\ record'.safe_mode <=> record'.consecutive_crashes >= SAFE_MODE_CRASH_THRESHOLD
      /\ flag = NoFlag \/ ~ CountsTowardSafeMode(flag, class)
             => record'.consecutive_crashes = record.consecutive_crashes
      /\ flag # NoFlag /\ CountsTowardSafeMode(flag, class)
             => record'.consecutive_crashes = record.consecutive_crashes + 1
      /\ flag # NoFlag => RetainBootFlagUntilReapply(action)
  <2> HIDE DEF class
  <2> QED
    BY <1>1, <1>2, <1>3, RecoveryType DEF SafeModeIffThreshold
<1> HIDE DEF class, action
<1>5. flag.phase # SUPERVISED_F2_FORGE_PHASE => CountsTowardSafeMode(flag, class)
  BY DEF CountsTowardSafeMode
<1>6. SafeModeIffThreshold'
  BY <1>4 DEF SafeModeIffThreshold
<1> QED
  BY <1>2, <1>4, <1>5, <1>6 DEF Armed

(* The latch moves with the count in every step.                           *)
LEMMA SafeModeNext ==
    TypeOK /\ ShapeOK /\ SafeModeIffThreshold /\ [Next]_vars => SafeModeIffThreshold'
<1> SUFFICES ASSUME TypeOK, ShapeOK, SafeModeIffThreshold, [Next]_vars
             PROVE  SafeModeIffThreshold'
  OBVIOUS
<1>1. CASE RecordKept
  BY <1>1 DEF RecordKept, SafeModeIffThreshold
<1>2. CASE RecordReset
  BY <1>2, ThresholdAssumption DEF RecordReset, SafeModeIffThreshold
<1>3. CASE RecoverCommit
  BY <1>3, CommitNext
<1> QED
  BY <1>1, <1>2, <1>3, RecordNext
-----------------------------------------------------------------------------
(* A crashed boot re-applies nothing.                                      *)

LEMMA GuardNext == TypeOK /\ ShapeOK /\ SafeModeIffThreshold /\ GuardOK /\ NoReapplyAfterCrash /\ [Next]_vars => GuardOK' /\ NoReapplyAfterCrash'
<1> SUFFICES ASSUME TypeOK, ShapeOK, SafeModeIffThreshold, GuardOK, NoReapplyAfterCrash, [Next]_vars PROVE GuardOK' /\ NoReapplyAfterCrash'
  OBVIOUS
<1>1. CASE Start
  BY <1>1 DEF GuardOK, NoReapplyAfterCrash, Armed, Starting, Undecided,
     TypeOK, Observed, Start,
     ShapeOK
<1>2. CASE ReconcileRecord
  BY <1>2 DEF GuardOK, NoReapplyAfterCrash, Armed, Starting, Undecided,
     ReconcileRecord,
     ShapeOK
<1>3. CASE ReconcileCheckpoint
  BY <1>3 DEF GuardOK, NoReapplyAfterCrash, Armed, Starting, Undecided,
     ReconcileCheckpoint
<1>4. CASE RecoverConsumeMarker
  BY <1>4 DEF GuardOK, NoReapplyAfterCrash, Armed, Starting, Undecided,
     RecoverConsumeMarker
<1>5. CASE RecoverDisarm
  BY <1>5 DEF GuardOK, NoReapplyAfterCrash, Armed, Starting, Undecided,
     RecoverDisarm
<1>6. CASE RecoverCommit
  <2>1. pc = "commit" /\ pc' = "guard" /\ UNCHANGED <<hist, clean, job>>
    BY <1>6 DEF RecoverCommit
  <2>2. job = NoJob
    BY <2>1 DEF ShapeOK
  <2>3. Armed => Armed'
    BY <1>6, CommitNext DEF Armed
  <2> QED
    BY <2>1, <2>2, <2>3 DEF GuardOK, NoReapplyAfterCrash, Starting, Undecided
<1>7. CASE InitializeRebootGuard
  BY <1>7 DEF GuardOK, NoReapplyAfterCrash, Armed, Starting, Undecided,
     InitializeRebootGuard
<1>8. CASE StartupReconcile
  BY <1>8 DEF GuardOK, NoReapplyAfterCrash, Armed, Starting, Undecided,
     StartupReconcile,
     ShapeOK
<1>9. CASE DemoteCondemn
  BY <1>9 DEF GuardOK, NoReapplyAfterCrash, Armed, Starting, Undecided,
     DemoteCondemn
<1>10. CASE DemoteClearApplied
  BY <1>10 DEF GuardOK, NoReapplyAfterCrash, Armed, Starting, Undecided,
     TypeOK, Observed, DemoteClearApplied
<1>11. CASE PersistBaseline
  BY <1>11 DEF GuardOK, NoReapplyAfterCrash, Armed, Starting, Undecided,
     PersistBaseline
<1>12. CASE SkipReapply
  BY <1>12 DEF GuardOK, NoReapplyAfterCrash, Armed, Starting, Undecided,
     SkipReapply, MayReapply, OpenPipe
<1>13. CASE ReapplyArm
  BY <1>13 DEF GuardOK, NoReapplyAfterCrash, Armed, Starting, Undecided,
     TypeOK, Observed, ReapplyArm, Arm, MayReapply
<1>14. CASE ApplyWriteOk
  BY <1>14 DEF GuardOK, NoReapplyAfterCrash, Armed, Starting, Undecided,
     ApplyWriteOk, ShapeOK
<1>15. CASE ApplyWriteFails
  BY <1>15 DEF GuardOK, NoReapplyAfterCrash, Armed, Starting, Undecided,
     ApplyWriteFails, ApplyReturns, OpenPipe, ShapeOK
<1>16. CASE ApplySave
  BY <1>16 DEF GuardOK, NoReapplyAfterCrash, Armed, Starting, Undecided,
     TypeOK, Observed, ApplySave, ApplyReturns, OpenPipe, ShapeOK
<1>17. CASE ManualWriteOk
  BY <1>17 DEF GuardOK, NoReapplyAfterCrash, Armed, Starting, Undecided,
     ManualWriteOk, ShapeOK
<1>18. CASE ManualWriteFails
  BY <1>18 DEF GuardOK, NoReapplyAfterCrash, Armed, Starting, Undecided,
     ManualWriteFails, ShapeOK
<1>19. CASE ApplyForgeProfile
  BY <1>19 DEF GuardOK, NoReapplyAfterCrash, Armed, Starting, Undecided,
     TypeOK, Observed, ApplyForgeProfile, BeginApply, Arm, Request
<1>20. CASE ApplySweepProfile
  BY <1>20 DEF GuardOK, NoReapplyAfterCrash, Armed, Starting, Undecided,
     TypeOK, Observed, ApplySweepProfile, BeginApply, Arm, Request
<1>21. CASE ApplyMemPeak
  BY <1>21 DEF GuardOK, NoReapplyAfterCrash, Armed, Starting, Undecided,
     TypeOK, Observed, ApplyMemPeak, BeginApply, Arm, Request
<1>22. CASE ManualApply
  BY <1>22 DEF GuardOK, NoReapplyAfterCrash, Armed, Starting, Undecided,
     TypeOK, Observed, ManualApply, Arm, Request
<1>23. CASE ManualReset
  BY <1>23 DEF GuardOK, NoReapplyAfterCrash, Armed, Starting, Undecided,
     TypeOK, Observed, ManualReset, Request
<1>24. CASE ResetGpuTuning
  BY <1>24 DEF GuardOK, NoReapplyAfterCrash, Armed, Starting, Undecided,
     TypeOK, Observed, ResetGpuTuning, AbortForge, Request
<1>25. CASE ResetGpuTuningFull
  BY <1>25 DEF GuardOK, NoReapplyAfterCrash, Armed, Starting, Undecided,
     TypeOK, Observed, ResetGpuTuningFull, AbortForge, Request
<1>26. CASE AcknowledgeIncident
  BY <1>26 DEF GuardOK, NoReapplyAfterCrash, Armed, Starting, Undecided,
     TypeOK, Observed, AcknowledgeIncident, Request
<1>27. CASE ReportProfileUnstable
  BY <1>27 DEF GuardOK, NoReapplyAfterCrash, Armed, Starting, Undecided,
     ReportProfileUnstable, Request
<1>28. CASE ForgeStart
  BY <1>28 DEF GuardOK, NoReapplyAfterCrash, Armed, Starting, Undecided,
     ForgeStart, IdleForge
<1>47. CASE ForgeRequest
  BY <1>47 DEF GuardOK, NoReapplyAfterCrash, Armed, Starting, Undecided,
     ForgeRequest, Request
<1>29. CASE ForgeStop
  BY <1>29 DEF GuardOK, NoReapplyAfterCrash, Armed, Starting, Undecided,
     ForgeStop, Request
<1>30. CASE StopReset
  BY <1>30 DEF GuardOK, NoReapplyAfterCrash, Armed, Starting, Undecided,
     StopReset, Request
<1>31. CASE ForgePreflight
  BY <1>31 DEF GuardOK, NoReapplyAfterCrash, Armed, Starting, Undecided,
     TypeOK, Observed, ForgePreflight, IdleForge, ShapeOK
<1>32. CASE ForgePreheatFails
  BY <1>32 DEF GuardOK, NoReapplyAfterCrash, Armed, Starting, Undecided,
     ForgePreheatFails, IdleForge, ShapeOK
<1>33. CASE ForgeMarkRunning
  BY <1>33 DEF GuardOK, NoReapplyAfterCrash, Armed, Starting, Undecided,
     ForgeMarkRunning, ShapeOK
<1>34. ASSUME NEW p \in Pairs, ForgeArm(p) PROVE GuardOK' /\ NoReapplyAfterCrash'
  BY <1>34 DEF GuardOK, NoReapplyAfterCrash, Armed, Starting, Undecided,
     TypeOK, Observed, ForgeArm, Arm, ShapeOK
<1>35. CASE ForgeWrite
  BY <1>35 DEF GuardOK, NoReapplyAfterCrash, Armed, Starting, Undecided,
     ForgeWrite, ShapeOK
<1>36. CASE ForgeDwell
  BY <1>36 DEF GuardOK, NoReapplyAfterCrash, Armed, Starting, Undecided,
     ForgeDwell, ShapeOK
<1>37. CASE ForgeReset
  BY <1>37 DEF GuardOK, NoReapplyAfterCrash, Armed, Starting, Undecided,
     ForgeReset, ShapeOK
<1>38. CASE ForgeBlacklist
  BY <1>38 DEF GuardOK, NoReapplyAfterCrash, Armed, Starting, Undecided,
     ForgeBlacklist, ShapeOK
<1>39. CASE ForgeClear
  BY <1>39 DEF GuardOK, NoReapplyAfterCrash, Armed, Starting, Undecided,
     ForgeClear, ShapeOK
<1>40. CASE ForgeEnd
  BY <1>40 DEF GuardOK, NoReapplyAfterCrash, Armed, Starting, Undecided,
     ForgeEnd, IdleForge, ShapeOK
<1>41. CASE SurvivalTimer
  BY <1>41 DEF GuardOK, NoReapplyAfterCrash, Armed, Starting, Undecided,
     SurvivalTimer, ShapeOK
<1>42. CASE MachineCrash
  BY <1>42 DEF GuardOK, NoReapplyAfterCrash, Armed, Starting, Undecided,
     TypeOK, Observed, MachineCrash, ProcessGone, IdleForge
<1>43. CASE ServiceKilled
  BY <1>43 DEF GuardOK, NoReapplyAfterCrash, Armed, Starting, Undecided,
     TypeOK, Observed, ServiceKilled, ProcessGone, IdleForge
<1>44. CASE DriverResetWhileDown
  BY <1>44 DEF GuardOK, NoReapplyAfterCrash, Armed, Starting, Undecided,
     TypeOK, Observed, DriverResetWhileDown
<1>45. CASE StopMark
  BY <1>45 DEF GuardOK, NoReapplyAfterCrash, Armed, Starting, Undecided,
     TypeOK, Observed, StopMark, ProcessGone, IdleForge, ShapeOK
<1>46. CASE UNCHANGED vars
  BY <1>46 DEF vars, GuardOK, NoReapplyAfterCrash, Armed, Starting, Undecided
<1> QED
  BY <1>1, <1>2, <1>3, <1>4, <1>5, <1>6, <1>7, <1>8, <1>9, <1>10, <1>11,
     <1>12, <1>13, <1>14, <1>15, <1>16, <1>17, <1>18, <1>19, <1>20, <1>21,
     <1>22, <1>23, <1>24, <1>25, <1>26, <1>27, <1>28, <1>29, <1>30, <1>31,
     <1>32, <1>33, <1>34, <1>35, <1>36, <1>37, <1>38, <1>39, <1>40, <1>41,
     <1>42, <1>43, <1>44, <1>45, <1>46, <1>47, PairsAssumption
     DEF Next, Startup, Applying, Operator, Forge, Environment

-----------------------------------------------------------------------------
(* The boot loop.                                                          *)

LEMMA BudgetNext == TypeOK /\ ShapeOK /\ SafeModeIffThreshold /\ NoReapplyAfterCrash /\ BudgetOK /\ [Next]_vars => BudgetOK'
<1> SUFFICES ASSUME TypeOK, ShapeOK, SafeModeIffThreshold, NoReapplyAfterCrash, BudgetOK, [Next]_vars PROVE BudgetOK'
  OBVIOUS
<1>1. CASE Start
  BY <1>1 DEF BudgetOK, CrashUncounted, Armed, Starting, Undecided, TypeOK,
     SafeLoopRecord, Observed, Start
<1>2. CASE ReconcileRecord
  <2>1. RecordKept \/ RecordReset
    BY <1>2, RecordNext DEF ReconcileRecord, RecoverCommit
  <2> QED
    BY <1>2, <2>1, ThresholdAssumption
    DEF RecordKept, RecordReset, BudgetOK, CrashUncounted, Armed, Starting,
       Undecided, TypeOK, SafeLoopRecord, Observed,
       ReconcileRecord
<1>3. CASE ReconcileCheckpoint
  BY <1>3 DEF BudgetOK, CrashUncounted, Armed, Starting, Undecided, TypeOK,
     SafeLoopRecord, ReconcileCheckpoint
<1>4. CASE RecoverConsumeMarker
  BY <1>4 DEF BudgetOK, CrashUncounted, Armed, Starting, Undecided, TypeOK,
     SafeLoopRecord, RecoverConsumeMarker
<1>5. CASE RecoverDisarm
  BY <1>5 DEF BudgetOK, CrashUncounted, Armed, Starting, Undecided, TypeOK,
     SafeLoopRecord, RecoverDisarm
<1>6. CASE RecoverCommit
  <2>1. pc = "commit" /\ pc' = "guard" /\ UNCHANGED <<hist, clean>>
    BY <1>6 DEF RecoverCommit
  <2>2. hist.armedBy = "stale" /\ ~ clean
    BY <2>1 DEF BudgetOK, Starting, Undecided
  <2>3. hist.autoCrashes \in Nat /\ record.consecutive_crashes \in Nat
    BY DEF TypeOK, Observed, SafeLoopRecord
  <2>4. hist.autoCrashes <= record'.consecutive_crashes
    BY <1>6, <2>3, CommitNext DEF BudgetOK, CrashUncounted
  <2> QED
    BY <2>1, <2>2, <2>4 DEF BudgetOK, Starting, Undecided
<1>7. CASE InitializeRebootGuard
  BY <1>7 DEF BudgetOK, CrashUncounted, Armed, Starting, Undecided, TypeOK,
     SafeLoopRecord, InitializeRebootGuard
<1>8. CASE StartupReconcile
  BY <1>8 DEF BudgetOK, CrashUncounted, Armed, Starting, Undecided, TypeOK,
     SafeLoopRecord, StartupReconcile
<1>9. CASE DemoteCondemn
  BY <1>9 DEF BudgetOK, CrashUncounted, Armed, Starting, Undecided, TypeOK,
     SafeLoopRecord, DemoteCondemn
<1>10. CASE DemoteClearApplied
  BY <1>10 DEF BudgetOK, CrashUncounted, Armed, Starting, Undecided, TypeOK,
     SafeLoopRecord, Observed, DemoteClearApplied
<1>11. CASE PersistBaseline
  BY <1>11 DEF BudgetOK, CrashUncounted, Armed, Starting, Undecided, TypeOK,
     SafeLoopRecord, PersistBaseline
<1>12. CASE SkipReapply
  BY <1>12 DEF BudgetOK, CrashUncounted, Armed, Starting, Undecided, TypeOK,
     SafeLoopRecord, SkipReapply, MayReapply, OpenPipe
<1>13. CASE ReapplyArm
  <2>1. /\ pc = "reapply" /\ UNCHANGED <<pc, record, clean>>
        /\ ~ Armed /\ ~ record.safe_mode
        /\ flag' = [intent |-> ApplyIntent(applied.pair), phase |-> ApplyPhase(applied.kind)]
        /\ hist' = [hist EXCEPT !.armedBy = "boot"]
    BY <1>13 DEF ReapplyArm, Arm, MayReapply
  <2>2. hist.autoCrashes \in Nat /\ record.consecutive_crashes \in Nat
        /\ hist'.autoCrashes = hist.autoCrashes
    BY <2>1 DEF TypeOK, Observed, SafeLoopRecord
  <2>3. record.consecutive_crashes < SAFE_MODE_CRASH_THRESHOLD
    BY <2>1, <2>2, ThresholdAssumption DEF SafeModeIffThreshold
  <2>4. hist.autoCrashes <= record.consecutive_crashes
    BY <2>1, <2>2 DEF BudgetOK, CrashUncounted, Undecided
  <2>5. flag'.phase # SUPERVISED_F2_FORGE_PHASE
    BY <2>1 DEF ApplyPhase, SUPERVISED_F2_FORGE_PHASE
  <2>6. ~ clean
    BY <2>1 DEF BudgetOK, Undecided
  <2> QED
    BY <2>1, <2>2, <2>3, <2>4, <2>5, <2>6 DEF BudgetOK, Starting, Undecided
<1>14. CASE ApplyWriteOk
  BY <1>14 DEF BudgetOK, CrashUncounted, Armed, Starting, Undecided, TypeOK,
     SafeLoopRecord, ApplyWriteOk, ShapeOK
<1>15. CASE ApplyWriteFails
  BY <1>15 DEF BudgetOK, CrashUncounted, Armed, Starting, Undecided, TypeOK,
     SafeLoopRecord, ApplyWriteFails, ApplyReturns, OpenPipe, ShapeOK
<1>16. CASE ApplySave
  BY <1>16 DEF BudgetOK, CrashUncounted, Armed, Starting, Undecided, TypeOK,
     SafeLoopRecord, Observed, ApplySave, ApplyReturns, OpenPipe, ShapeOK
<1>17. CASE ManualWriteOk
  BY <1>17 DEF BudgetOK, CrashUncounted, Armed, Starting, Undecided, TypeOK,
     SafeLoopRecord, ManualWriteOk, ShapeOK
<1>18. CASE ManualWriteFails
  BY <1>18 DEF BudgetOK, CrashUncounted, Armed, Starting, Undecided, TypeOK,
     SafeLoopRecord, ManualWriteFails, ShapeOK
<1>19. CASE ApplyForgeProfile
  BY <1>19 DEF BudgetOK, CrashUncounted, Armed, Starting, Undecided, TypeOK,
     SafeLoopRecord, Observed, ApplyForgeProfile, BeginApply, Arm, Request
<1>20. CASE ApplySweepProfile
  BY <1>20 DEF BudgetOK, CrashUncounted, Armed, Starting, Undecided, TypeOK,
     SafeLoopRecord, Observed, ApplySweepProfile, BeginApply, Arm, Request
<1>21. CASE ApplyMemPeak
  BY <1>21 DEF BudgetOK, CrashUncounted, Armed, Starting, Undecided, TypeOK,
     SafeLoopRecord, Observed, ApplyMemPeak, BeginApply, Arm, Request
<1>22. CASE ManualApply
  BY <1>22 DEF BudgetOK, CrashUncounted, Armed, Starting, Undecided, TypeOK,
     SafeLoopRecord, Observed, ManualApply, Arm, Request
<1>23. CASE ManualReset
  BY <1>23 DEF BudgetOK, CrashUncounted, Armed, Starting, Undecided, TypeOK,
     SafeLoopRecord, Observed, ManualReset, Request
<1>24. CASE ResetGpuTuning
  <2>1. pc = "ready" /\ UNCHANGED <<pc, clean>>
    BY <1>24 DEF ResetGpuTuning, Request
  <2>2. \/ UNCHANGED <<flag, record, hist>>
        \/ /\ flag' = NoFlag /\ record'.consecutive_crashes = 0
           /\ hist'.autoCrashes = 0
    BY <1>24, ClearType DEF ResetGpuTuning, TypeOK, Observed
  <2>3. CASE UNCHANGED <<flag, record, hist>>
    BY <2>1, <2>3 DEF BudgetOK, CrashUncounted, Armed, Starting, Undecided
  <2>4. CASE flag' = NoFlag /\ record'.consecutive_crashes = 0 /\ hist'.autoCrashes = 0
    BY <2>1, <2>4, ThresholdAssumption
    DEF BudgetOK, CrashUncounted, Armed, Starting, Undecided
  <2> QED
    BY <2>2, <2>3, <2>4
<1>25. CASE ResetGpuTuningFull
  <2>1. pc = "ready" /\ UNCHANGED <<pc, clean>>
    BY <1>25 DEF ResetGpuTuningFull, Request
  <2>2. \/ UNCHANGED <<flag, record, hist>>
        \/ /\ flag' = NoFlag /\ record'.consecutive_crashes = 0
           /\ hist'.autoCrashes = 0
    BY <1>25, DefaultType DEF ResetGpuTuningFull, TypeOK, Observed
  <2>3. CASE UNCHANGED <<flag, record, hist>>
    BY <2>1, <2>3 DEF BudgetOK, CrashUncounted, Armed, Starting, Undecided
  <2>4. CASE flag' = NoFlag /\ record'.consecutive_crashes = 0 /\ hist'.autoCrashes = 0
    BY <2>1, <2>4, ThresholdAssumption
    DEF BudgetOK, CrashUncounted, Armed, Starting, Undecided
  <2> QED
    BY <2>2, <2>3, <2>4
<1>26. CASE AcknowledgeIncident
  <2>1. RecordKept \/ RecordReset
    BY <1>26, RecordNext DEF AcknowledgeIncident, Request, RecoverCommit
  <2> QED
    BY <1>26, <2>1, ThresholdAssumption
    DEF RecordKept, RecordReset, BudgetOK, CrashUncounted, Armed, Starting,
       Undecided, TypeOK, SafeLoopRecord, Observed,
       AcknowledgeIncident, Request
<1>27. CASE ReportProfileUnstable
  <2>1. RecordKept \/ RecordReset
    BY <1>27, RecordNext DEF ReportProfileUnstable, Request, RecoverCommit
  <2> QED
    BY <1>27, <2>1, ThresholdAssumption
    DEF RecordKept, RecordReset, BudgetOK, CrashUncounted, Armed, Starting,
       Undecided, TypeOK, SafeLoopRecord, Observed,
       ReportProfileUnstable, Request
<1>28. CASE ForgeStart
  BY <1>28 DEF BudgetOK, CrashUncounted, Armed, Starting, Undecided, TypeOK,
     SafeLoopRecord, ForgeStart, IdleForge
<1>47. CASE ForgeRequest
  BY <1>47 DEF BudgetOK, CrashUncounted, Armed, Starting, Undecided, TypeOK,
     SafeLoopRecord, ForgeRequest, Request
<1>29. CASE ForgeStop
  BY <1>29 DEF BudgetOK, CrashUncounted, Armed, Starting, Undecided, TypeOK,
     SafeLoopRecord, ForgeStop, Request
<1>30. CASE StopReset
  BY <1>30 DEF BudgetOK, CrashUncounted, Armed, Starting, Undecided, TypeOK,
     SafeLoopRecord, StopReset, Request
<1>31. CASE ForgePreflight
  <2>1. RecordKept \/ RecordReset
    BY <1>31, RecordNext DEF ForgePreflight, RecoverCommit, ShapeOK
  <2> QED
    BY <1>31, <2>1, ThresholdAssumption
    DEF RecordKept, RecordReset, BudgetOK, CrashUncounted, Armed, Starting,
       Undecided, TypeOK, SafeLoopRecord, Observed,
       ForgePreflight, ShapeOK
<1>32. CASE ForgePreheatFails
  BY <1>32 DEF BudgetOK, CrashUncounted, Armed, Starting, Undecided, TypeOK,
     SafeLoopRecord, ForgePreheatFails, IdleForge, ShapeOK
<1>33. CASE ForgeMarkRunning
  BY <1>33 DEF BudgetOK, CrashUncounted, Armed, Starting, Undecided, TypeOK,
     SafeLoopRecord, ForgeMarkRunning, ShapeOK
<1>34. ASSUME NEW p \in Pairs, ForgeArm(p) PROVE BudgetOK'
  BY <1>34 DEF BudgetOK, CrashUncounted, Armed, Starting, Undecided, TypeOK,
     SafeLoopRecord, Observed, ForgeArm, Arm, ShapeOK
<1>35. CASE ForgeWrite
  BY <1>35 DEF BudgetOK, CrashUncounted, Armed, Starting, Undecided, TypeOK,
     SafeLoopRecord, ForgeWrite, ShapeOK
<1>36. CASE ForgeDwell
  BY <1>36 DEF BudgetOK, CrashUncounted, Armed, Starting, Undecided, TypeOK,
     SafeLoopRecord, ForgeDwell, ShapeOK
<1>37. CASE ForgeReset
  BY <1>37 DEF BudgetOK, CrashUncounted, Armed, Starting, Undecided, TypeOK,
     SafeLoopRecord, ForgeReset, ShapeOK
<1>38. CASE ForgeBlacklist
  <2>1. RecordKept \/ RecordReset
    BY <1>38, RecordNext DEF ForgeBlacklist, RecoverCommit, ShapeOK
  <2> QED
    BY <1>38, <2>1, ThresholdAssumption
    DEF RecordKept, RecordReset, BudgetOK, CrashUncounted, Armed, Starting,
       Undecided, TypeOK, SafeLoopRecord, Observed,
       ForgeBlacklist, ShapeOK
<1>39. CASE ForgeClear
  BY <1>39 DEF BudgetOK, CrashUncounted, Armed, Starting, Undecided, TypeOK,
     SafeLoopRecord, ForgeClear, ShapeOK
<1>40. CASE ForgeEnd
  BY <1>40 DEF BudgetOK, CrashUncounted, Armed, Starting, Undecided, TypeOK,
     SafeLoopRecord, ForgeEnd, IdleForge, ShapeOK
<1>41. CASE SurvivalTimer
  BY <1>41 DEF BudgetOK, CrashUncounted, Armed, Starting, Undecided, TypeOK,
     SafeLoopRecord, SurvivalTimer, ShapeOK
<1>42. CASE MachineCrash
  <2> DEFINE inWindow == pc # "off" /\ Armed /\ hist.armedBy = "boot"
  <2>1. pc' = "off" /\ UNCHANGED <<flag, record, clean>>
    BY <1>42 DEF MachineCrash, ProcessGone
  <2>2. hist.autoCrashes \in Nat /\ record.consecutive_crashes \in Nat
        /\ SAFE_MODE_CRASH_THRESHOLD \in Nat
    BY ThresholdAssumption DEF TypeOK, Observed, SafeLoopRecord
  <2>3. hist'.autoCrashes = IF inWindow THEN hist.autoCrashes + 1 ELSE hist.autoCrashes
    BY <1>42 DEF MachineCrash, TypeOK, Observed
  <2>4. CASE inWindow
    <3>1. /\ hist.autoCrashes <= record.consecutive_crashes
          /\ record.consecutive_crashes < SAFE_MODE_CRASH_THRESHOLD
          /\ flag.phase # SUPERVISED_F2_FORGE_PHASE
      BY <2>4 DEF BudgetOK
    <3>2. pc \notin Starting
      BY <2>4 DEF BudgetOK
    <3>3. ~ clean
      BY <2>4, <3>2 DEF BudgetOK, Starting, Undecided
    <3> QED
      BY <2>1, <2>2, <2>3, <2>4, <3>1, <3>3
      DEF BudgetOK, CrashUncounted, Armed, Starting, Undecided
  <2>5. CASE ~ inWindow
    BY <2>1, <2>2, <2>3, <2>5 DEF BudgetOK, CrashUncounted, Armed, Starting, Undecided
  <2> QED
    BY <2>4, <2>5
<1>43. CASE ServiceKilled
  BY <1>43 DEF BudgetOK, CrashUncounted, Armed, Starting, Undecided, TypeOK,
     SafeLoopRecord, Observed, ServiceKilled, ProcessGone, IdleForge
<1>44. CASE DriverResetWhileDown
  BY <1>44 DEF BudgetOK, CrashUncounted, Armed, Starting, Undecided, TypeOK,
     SafeLoopRecord, Observed, DriverResetWhileDown
<1>45. CASE StopMark
  BY <1>45 DEF BudgetOK, CrashUncounted, Armed, Starting, Undecided, TypeOK,
     SafeLoopRecord, Observed, StopMark, ProcessGone, IdleForge, ShapeOK
<1>46. CASE UNCHANGED vars
  BY <1>46 DEF vars, BudgetOK, CrashUncounted, Armed, Starting, Undecided,
     TypeOK, SafeLoopRecord
<1> QED
  BY <1>1, <1>2, <1>3, <1>4, <1>5, <1>6, <1>7, <1>8, <1>9, <1>10, <1>11,
     <1>12, <1>13, <1>14, <1>15, <1>16, <1>17, <1>18, <1>19, <1>20, <1>21,
     <1>22, <1>23, <1>24, <1>25, <1>26, <1>27, <1>28, <1>29, <1>30, <1>31,
     <1>32, <1>33, <1>34, <1>35, <1>36, <1>37, <1>38, <1>39, <1>40, <1>41,
     <1>42, <1>43, <1>44, <1>45, <1>46, <1>47, PairsAssumption
     DEF Next, Startup, Applying, Operator, Forge, Environment
-----------------------------------------------------------------------------
(* The theorems.                                                           *)

(* The invariant holds initially ...                                       *)
LEMMA InvInit == Init => IInv
<1> SUFFICES ASSUME Init PROVE IInv
  OBVIOUS
<1>1. TypeOK
  BY TypeInit
<1>2. ShapeOK /\ GuardOK /\ NoReapplyAfterCrash
  BY DEF Init, ShapeOK, GuardOK, NoReapplyAfterCrash, Starting, Undecided, IdleForge
<1>3. SafeModeIffThreshold /\ BudgetOK
  BY DefaultType, ThresholdAssumption
  DEF Init, SafeModeIffThreshold, BudgetOK, Armed, Starting, Undecided
<1> QED
  BY <1>1, <1>2, <1>3 DEF IInv

(* ... is kept by every step ...                                           *)
LEMMA InvNext == IInv /\ [Next]_vars => IInv'
  BY TypeNext, ShapeNext, SafeModeNext, GuardNext, BudgetNext DEF IInv

(* ... and so holds always.                                                *)
THEOREM Invariance == Spec => []IInv
  BY InvInit, InvNext, PTL DEF Spec

(* Every variable stays in its domain: each handler hands the next one     *)
(* values it can use, in particular a candidate or a core point wherever   *)
(* one is written, blacklisted or condemned.                               *)
THEOREM TypeCorrect == Spec => []TypeOK
<1>1. IInv => TypeOK
  BY DEF IInv
<1> QED
  BY <1>1, Invariance, PTL

(* decide_recovery and both resets keep the Safe Mode latch and the crash  *)
(* count together.                                                         *)
THEOREM SafeModeLatched == Spec => []SafeModeIffThreshold
<1>1. IInv => SafeModeIffThreshold
  BY DEF IInv
<1> QED
  BY <1>1, Invariance, PTL

(* reapply_on_boot writes nothing after a start that found evidence of a   *)
(* crash, nor in Safe Mode, wherever earlier starts were cut.              *)
THEOREM CrashedBootReappliesNothing == Spec => []NoReapplyAfterCrash
<1>1. IInv => NoReapplyAfterCrash
  BY DEF IInv
<1> QED
  BY <1>1, Invariance, PTL

(* The boot loop ends: between two resets by the operator, at most         *)
(* SAFE_MODE_CRASH_THRESHOLD crashes fall into the survival window of a    *)
(* profile that apply-on-boot wrote.                                       *)
THEOREM BootLoopEnds == Spec => []CrashLoopBound
<1>1. IInv => CrashLoopBound
  BY DEF IInv, BudgetOK, CrashLoopBound
<1> QED
  BY <1>1, Invariance, PTL
-----------------------------------------------------------------------------
(* Apply-on-boot finds the profile the operator applied last.              *)

(* What apply-on-boot will find is the core point the operator chose last. *)
KeptOK ==
    /\ CorePoint(applied) = CorePoint(hist.kept)
    /\ job # NoJob /\ ~ job.core => applied # NoProfile /\ job.pair = applied.pair
    /\ job # NoJob /\ job.kind = "Manual" => applied = NoProfile /\ hist.kept = NoProfile


(* There is no profile at the first start ...                              *)
LEMMA KeptInit == Init => KeptOK
  BY DEF Init, KeptOK, CorePoint

(* ... and every step keeps it, as long as the service is not stopped.      *)
LEMMA KeptNext == "stop" \notin OperatorMenu /\ TypeOK /\ ShapeOK /\ KeptOK /\ [Next]_vars => KeptOK'
<1> SUFFICES ASSUME "stop" \notin OperatorMenu, TypeOK, ShapeOK, KeptOK, [Next]_vars PROVE KeptOK'
  OBVIOUS
<1>1. CASE Start
  BY <1>1 DEF Start, KeptOK, CorePoint, TypeOK, Observed
<1>2. CASE ReconcileRecord
  BY <1>2 DEF ReconcileRecord, KeptOK, CorePoint
<1>3. CASE ReconcileCheckpoint
  BY <1>3 DEF ReconcileCheckpoint, KeptOK, CorePoint
<1>4. CASE RecoverConsumeMarker
  BY <1>4 DEF RecoverConsumeMarker, KeptOK, CorePoint
<1>5. CASE RecoverDisarm
  BY <1>5 DEF RecoverDisarm, KeptOK, CorePoint
<1>6. CASE RecoverCommit
  BY <1>6 DEF RecoverCommit, KeptOK, CorePoint
<1>7. CASE InitializeRebootGuard
  BY <1>7 DEF InitializeRebootGuard, KeptOK, CorePoint
<1>8. CASE StartupReconcile
  BY <1>8 DEF StartupReconcile, KeptOK, CorePoint
<1>9. CASE DemoteCondemn
  BY <1>9 DEF DemoteCondemn, KeptOK, CorePoint
<1>10. CASE DemoteClearApplied
  BY <1>10 DEF DemoteClearApplied, KeptOK, CorePoint, TypeOK, Observed, ShapeOK
<1>11. CASE PersistBaseline
  BY <1>11 DEF PersistBaseline, KeptOK, CorePoint
<1>12. CASE SkipReapply
  BY <1>12 DEF SkipReapply, OpenPipe, KeptOK, CorePoint
<1>13. CASE ReapplyArm
  BY <1>13 DEF ReapplyArm, Arm, KeptOK, CorePoint, TypeOK, Observed, MayReapply,
     AppliedProfile
<1>14. CASE ApplyWriteOk
  BY <1>14 DEF ApplyWriteOk, KeptOK, CorePoint, TypeOK, Job
<1>15. CASE ApplyWriteFails
  BY <1>15 DEF ApplyWriteFails, ApplyReturns, OpenPipe, KeptOK, CorePoint
<1>16. CASE ApplySave
  <2>1. applied \in AppliedProfile \cup {NoProfile} /\ applied' \in AppliedProfile
    BY <1>16, TypeNext DEF TypeOK, ApplySave, Job, AppliedProfile, Point, ShapeOK
  <2>2. applied' # NoProfile /\ applied'.pair = job.pair /\ job' = NoJob
    BY <1>16, <2>1, AbsentAssumption DEF ApplySave, ApplyReturns
  <2>3. CASE job.core
    BY <1>16, <2>2, <2>3 DEF ApplySave, TypeOK, Observed, KeptOK, CorePoint
  <2>4. CASE ~ job.core
    BY <1>16, <2>2, <2>4 DEF ApplySave, KeptOK, CorePoint
  <2> QED
    BY <2>3, <2>4
<1>17. CASE ManualWriteOk
  BY <1>17 DEF ManualWriteOk, KeptOK, CorePoint
<1>18. CASE ManualWriteFails
  BY <1>18 DEF ManualWriteFails, KeptOK, CorePoint
<1>19. CASE ApplyForgeProfile
  BY <1>19 DEF ApplyForgeProfile, BeginApply, Arm, Request, KeptOK, CorePoint, TypeOK,
     Observed
<1>20. CASE ApplySweepProfile
  BY <1>20 DEF ApplySweepProfile, BeginApply, Arm, Request, KeptOK, CorePoint, TypeOK,
     Observed
<1>21. CASE ApplyMemPeak
  BY <1>21 DEF ApplyMemPeak, BeginApply, Arm, Request, KeptOK, CorePoint, TypeOK,
     Observed
<1>22. CASE ManualApply
  BY <1>22 DEF ManualApply, Arm, Request, KeptOK, CorePoint, TypeOK, Observed
<1>23. CASE ManualReset
  BY <1>23 DEF ManualReset, Request, KeptOK, CorePoint, TypeOK, Observed
<1>24. CASE ResetGpuTuning
  BY <1>24 DEF ResetGpuTuning, Request, KeptOK, CorePoint, TypeOK, Observed
<1>25. CASE ResetGpuTuningFull
  BY <1>25 DEF ResetGpuTuningFull, Request, KeptOK, CorePoint, TypeOK, Observed
<1>26. CASE AcknowledgeIncident
  BY <1>26 DEF AcknowledgeIncident, Request, KeptOK, CorePoint, TypeOK, Observed
<1>27. CASE ReportProfileUnstable
  BY <1>27 DEF ReportProfileUnstable, Request, KeptOK, CorePoint
<1>28. CASE ForgeStart
  BY <1>28 DEF ForgeStart, KeptOK, CorePoint
<1>47. CASE ForgeRequest
  BY <1>47 DEF ForgeRequest, Request, KeptOK, CorePoint
<1>29. CASE ForgeStop
  BY <1>29 DEF ForgeStop, Request, KeptOK, CorePoint
<1>30. CASE StopReset
  BY <1>30 DEF StopReset, Request, KeptOK, CorePoint
<1>31. CASE ForgePreflight
  BY <1>31 DEF ForgePreflight, KeptOK, CorePoint, TypeOK, Observed
<1>32. CASE ForgePreheatFails
  BY <1>32 DEF ForgePreheatFails, KeptOK, CorePoint
<1>33. CASE ForgeMarkRunning
  BY <1>33 DEF ForgeMarkRunning, KeptOK, CorePoint
<1>34. ASSUME NEW p \in Pairs, ForgeArm(p) PROVE KeptOK'
  BY <1>34 DEF ForgeArm, Arm, KeptOK, CorePoint, TypeOK, Observed
<1>35. CASE ForgeWrite
  BY <1>35 DEF ForgeWrite, KeptOK, CorePoint
<1>36. CASE ForgeDwell
  BY <1>36 DEF ForgeDwell, KeptOK, CorePoint
<1>37. CASE ForgeReset
  BY <1>37 DEF ForgeReset, KeptOK, CorePoint
<1>38. CASE ForgeBlacklist
  BY <1>38 DEF ForgeBlacklist, KeptOK, CorePoint
<1>39. CASE ForgeClear
  BY <1>39 DEF ForgeClear, KeptOK, CorePoint
<1>40. CASE ForgeEnd
  BY <1>40 DEF ForgeEnd, KeptOK, CorePoint
<1>41. CASE SurvivalTimer
  BY <1>41 DEF SurvivalTimer, KeptOK, CorePoint
<1>42. CASE MachineCrash
  BY <1>42 DEF MachineCrash, ProcessGone, KeptOK, CorePoint, TypeOK, Observed
<1>43. CASE ServiceKilled
  BY <1>43 DEF ServiceKilled, ProcessGone, KeptOK, CorePoint, TypeOK, Observed
<1>44. CASE DriverResetWhileDown
  BY <1>44 DEF DriverResetWhileDown, KeptOK, CorePoint, TypeOK, Observed
<1>45. CASE StopMark
  BY <1>45 DEF StopMark, ProcessGone, KeptOK, CorePoint, TypeOK, Observed
<1>46. CASE UNCHANGED vars
  BY <1>46 DEF vars, KeptOK, CorePoint
<1> QED
  BY <1>1, <1>2, <1>3, <1>4, <1>5, <1>6, <1>7, <1>8, <1>9, <1>10, <1>11, <1>12, <1>13,
     <1>14, <1>15, <1>16, <1>17, <1>18, <1>19, <1>20, <1>21, <1>22, <1>23, <1>24,
     <1>25, <1>26, <1>27, <1>28, <1>29, <1>30, <1>31, <1>32, <1>33, <1>34, <1>35,
     <1>36, <1>37, <1>38, <1>39, <1>40, <1>41, <1>42, <1>43, <1>44, <1>45, <1>46, <1>47,
     PairsAssumption
     DEF Next, Startup, Applying, Operator, Forge, Environment

(* Through crashes, kills, interrupted starts and every request but the    *)
(* service stop, apply-on-boot finds the core point of the last apply the  *)
(* operator did not take back (apply_and_persist, save_applied).  The stop *)
(* does forget it: reset_and_disarm clears gpu_applied.json.               *)
THEOREM LastApplyIsKept ==
    ASSUME "stop" \notin OperatorMenu
    PROVE  Spec => []AppliedProfileKept
<1>1. TypeOK /\ ShapeOK /\ KeptOK /\ [Next]_vars => KeptOK'
  BY KeptNext
<1>2. IInv => TypeOK /\ ShapeOK
  BY DEF IInv
<1>3. KeptOK => AppliedProfileKept
  BY DEF KeptOK, AppliedProfileKept
<1> QED
  BY <1>1, <1>2, <1>3, KeptInit, Invariance, PTL DEF Spec
-----------------------------------------------------------------------------
(* A wedged undervolt stays off.                                           *)

(* The undervolt on disk is this point.                                    *)
AppliedUndervolt(p) == applied # NoProfile /\ applied.kind = "F2" /\ applied.pair = p

(* The point is condemned, and neither on disk nor on its way there.       *)
PutAway(p) ==
    /\ Pair2(p) \in ledger
    /\ ~ AppliedUndervolt(p)
    /\ ~ (job # NoJob /\ job.kind = "F2" /\ job.pair = p)

(* The event that condemns it lies beyond the cursor, and the sequence has *)
(* not passed the sentinel's step.                                         *)
EventPending(p) ==
    /\ AppliedUndervolt(p)
    /\ baseline # NoBaseline /\ log.tdr > baseline
    /\ pc \in (Starting \ {"tdr_baseline"}) \cup {"off"}
    /\ pc = "tdr_clear" => Pair2(p) \in ledger

WedgedOK ==
    /\ baseline # NoBaseline => baseline <= log.tdr
    /\ \E bound \in Nat : \A pair \in ledger : pair[1] <= bound /\ pair[2] <= bound
    /\ \A w \in hist.wedged : w.by = "tdr" => PutAway(w.pair) \/ EventPending(w.pair)

(* The least and the greatest of a set of clocks or voltages.              *)

LEMMA MinMember ==
    ASSUME NEW S \in SUBSET Nat, S # {}
    PROVE  Min(S) \in S /\ \A y \in S : Min(S) <= y
<1>1. \E x \in S : \A y \in S : ~ (<<y, x>> \in OpToRel(<, Nat))
  BY NatLessThanWellFounded, WFMin
<1>2. \A x, y \in Nat : <<y, x>> \in OpToRel(<, Nat) <=> y < x
  BY DEF OpToRel
<1>3. \E x \in S : \A y \in S : ~ (y < x)
  BY <1>1, <1>2, Zenon
<1>4. \E x \in S : \A y \in S : x <= y
  BY <1>3
<1> QED
  BY <1>4 DEF Min

LEMMA MaxMember ==
    ASSUME NEW bound \in Nat, NEW S \in SUBSET (0 .. bound), S # {}
    PROVE  Max(S) \in S /\ \A y \in S : Max(S) >= y
<1> DEFINE T == {bound - x : x \in S}
<1>1. \A x \in S : bound - x \in Nat
  OBVIOUS
<1>2. T \in SUBSET Nat /\ T # {}
  BY <1>1
<1>3. Min(T) \in T /\ \A y \in T : Min(T) <= y
  BY <1>2, MinMember
<1>4. PICK x \in S : Min(T) = bound - x
  BY <1>3
<1>5. \A y \in S : bound - x <= bound - y
  BY <1>3, <1>4
<1>6. \A y \in S : x >= y
  BY <1>5
<1> QED
  BY <1>6 DEF Max

(* A condemned pair is refused: at its own clock the envelope reaches its  *)
(* own voltage (CondemnedPairs::refuses).                                  *)
LEMMA CondemnedIsRefused ==
    ASSUME NEW pairs \in SUBSET (Nat \X Nat), NEW bound \in Nat,
           \A q \in pairs : q[1] <= bound /\ q[2] <= bound,
           NEW pair \in pairs, NEW quarantine
    PROVE  Refuses(pairs, quarantine, pair[1], pair[2])
<1> DEFINE clock == pair[1]
           at    == {c \in Clocks(pairs) : c <= clock}
           volts == {p[2] : p \in {q \in pairs : q[1] <= clock}}
<1>1. \A q \in pairs : q[1] \in 0 .. bound /\ q[2] \in 0 .. bound
  OBVIOUS
<1>2. clock \in at /\ at \in SUBSET (0 .. bound)
  BY <1>1 DEF Clocks
<1>3. Max(at) = clock
  <2>1. Max(at) \in at /\ \A y \in at : Max(at) >= y
    BY <1>2, MaxMember
  <2> QED
    BY <1>1, <1>2, <2>1
<1>4. volts \in SUBSET (0 .. bound) /\ pair[2] \in volts
  BY <1>1
<1>5. Max(volts) >= pair[2]
  <2>1. volts # {}
    BY <1>4
  <2> HIDE DEF volts
  <2> QED
    BY <1>4, <2>1, MaxMember
<1>6. HasFloor(pairs, clock)
  BY <1>1 DEF HasFloor
<1>7. Envelope(pairs, clock) = Max(volts)
  BY DEF Envelope
<1>8. FloorMv(pairs, clock) = Envelope(pairs, clock)
  BY <1>3 DEF FloorMv
<1>9. Max(volts) \in Nat
  <2>1. volts # {}
    BY <1>4
  <2>2. Max(volts) \in volts
    <3> HIDE DEF volts
    <3> QED
      BY <1>4, <2>1, MaxMember
  <2> QED
    BY <1>4, <2>2
<1>10. pair[2] <= FloorMv(pairs, clock)
  BY <1>1, <1>5, <1>7, <1>8, <1>9
<1> QED
  BY <1>6, <1>10 DEF Refuses, AtOrBelowFloor

(* The ledger keeps a bound as it grows.                                   *)
LEMMA LedgerGrows ==
    ASSUME NEW L \in SUBSET (Nat \X Nat), NEW pair \in Nat \X Nat,
           \E bound \in Nat : \A q \in L : q[1] <= bound /\ q[2] <= bound
    PROVE  \E bound \in Nat : \A q \in L \cup {pair} : q[1] <= bound /\ q[2] <= bound
<1>1. PICK bound \in Nat : \A q \in L : q[1] <= bound /\ q[2] <= bound
  OBVIOUS
<1>2. bound + pair[1] + pair[2] \in Nat
  OBVIOUS
<1>3. \A q \in L \cup {pair} : /\ q[1] <= bound + pair[1] + pair[2]
                               /\ q[2] <= bound + pair[1] + pair[2]
  BY <1>1
<1> QED
  BY <1>2, <1>3

(* Nothing is wedged at the first start ...                                *)
LEMMA WedgedInit == Init => WedgedOK
<1>1. 0 \in Nat
  OBVIOUS
<1> QED
  BY <1>1 DEF Init, WedgedOK

(* ... and every step keeps it.                                            *)
LEMMA WedgedNext == TypeOK /\ ShapeOK /\ WedgedOK /\ [Next]_vars => WedgedOK'
<1> SUFFICES ASSUME TypeOK, ShapeOK, WedgedOK, [Next]_vars PROVE WedgedOK'
  OBVIOUS
<1>1. CASE Start
  BY <1>1 DEF Start, WedgedOK, PutAway, AppliedUndervolt, EventPending, Starting,
     Undecided, TypeOK, Observed
<1>2. CASE ReconcileRecord
  BY <1>2 DEF ReconcileRecord, WedgedOK, PutAway, AppliedUndervolt, EventPending,
     Starting, Undecided, TypeOK
<1>3. CASE ReconcileCheckpoint
  BY <1>3 DEF ReconcileCheckpoint, WedgedOK, PutAway, AppliedUndervolt, EventPending,
     Starting, Undecided, TypeOK
<1>4. CASE RecoverConsumeMarker
  BY <1>4 DEF RecoverConsumeMarker, WedgedOK, PutAway, AppliedUndervolt, EventPending,
     Starting, Undecided, TypeOK
<1>5. CASE RecoverDisarm
  BY <1>5 DEF RecoverDisarm, WedgedOK, PutAway, AppliedUndervolt, EventPending,
     Starting, Undecided, TypeOK
<1>6. CASE RecoverCommit
  BY <1>6 DEF RecoverCommit, WedgedOK, PutAway, AppliedUndervolt, EventPending,
     Starting, Undecided, TypeOK
<1>7. CASE InitializeRebootGuard
  BY <1>7 DEF InitializeRebootGuard, WedgedOK, PutAway, AppliedUndervolt,
     EventPending, Starting, Undecided, TypeOK
<1>8. CASE StartupReconcile
  BY <1>8 DEF StartupReconcile, WedgedOK, PutAway, AppliedUndervolt, EventPending,
     Starting, Undecided, TypeOK, NewTdr, EventLog
<1>9. CASE DemoteCondemn
  <2>1. applied # NoProfile /\ applied.kind = "F2" /\ applied.pair \in Pairs
    BY <1>9 DEF DemoteCondemn, ShapeOK, TypeOK, AppliedProfile
  <2>2. Pair2(applied.pair) \in Nat \X Nat
    BY <2>1, IntentType
  <2>3. \E bound \in Nat : \A pair \in ledger' : pair[1] <= bound /\ pair[2] <= bound
    BY <1>9, <2>2, LedgerGrows DEF DemoteCondemn, TypeOK, WedgedOK
  <2>4. ASSUME NEW w \in hist'.wedged, w.by = "tdr"
        PROVE  PutAway(w.pair)' \/ EventPending(w.pair)'
    BY <1>9, <2>4 DEF DemoteCondemn, WedgedOK, PutAway, AppliedUndervolt, EventPending,
       Starting, Undecided
  <2> QED
    BY <1>9, <2>3, <2>4 DEF DemoteCondemn, WedgedOK
<1>10. CASE DemoteClearApplied
  BY <1>10 DEF DemoteClearApplied, WedgedOK, PutAway, AppliedUndervolt, EventPending,
     Starting, Undecided, TypeOK, Observed, ShapeOK
<1>11. CASE PersistBaseline
  BY <1>11 DEF PersistBaseline, WedgedOK, PutAway, AppliedUndervolt, EventPending,
     Starting, Undecided, TypeOK, EventLog
<1>12. CASE SkipReapply
  BY <1>12 DEF SkipReapply, OpenPipe, WedgedOK, PutAway, AppliedUndervolt,
     EventPending, Starting, Undecided, TypeOK, ShapeOK
<1>13. CASE ReapplyArm
  BY <1>13 DEF ReapplyArm, Arm, WedgedOK, PutAway, AppliedUndervolt, EventPending,
     Starting, Undecided, TypeOK, Observed, ShapeOK, MayReapply, AppliedProfile
<1>14. CASE ApplyWriteOk
  BY <1>14 DEF ApplyWriteOk, WedgedOK, PutAway, AppliedUndervolt, EventPending,
     Starting, Undecided, TypeOK, Job, ShapeOK
<1>15. CASE ApplyWriteFails
  BY <1>15 DEF ApplyWriteFails, ApplyReturns, OpenPipe, WedgedOK, PutAway,
     AppliedUndervolt, EventPending, Starting, Undecided, TypeOK, ShapeOK
<1>16. CASE ApplySave
  BY <1>16 DEF ApplySave, ApplyReturns, OpenPipe, WedgedOK, PutAway, AppliedUndervolt,
     EventPending, Starting, Undecided, TypeOK, Observed, Job, ShapeOK
<1>17. CASE ManualWriteOk
  BY <1>17 DEF ManualWriteOk, WedgedOK, PutAway, AppliedUndervolt, EventPending,
     Starting, Undecided, TypeOK, ShapeOK
<1>18. CASE ManualWriteFails
  BY <1>18 DEF ManualWriteFails, WedgedOK, PutAway, AppliedUndervolt, EventPending,
     Starting, Undecided, TypeOK, ShapeOK
<1>19. CASE ApplyForgeProfile
  <2>1. ASSUME NEW w \in hist.wedged, w.by = "tdr"
        PROVE  PutAway(w.pair) /\ w.pair # prog.profile
    <3>1. PutAway(w.pair)
      BY <1>19, <2>1 DEF ApplyForgeProfile, Request, WedgedOK, EventPending, Starting,
         Undecided
    <3>2. PICK bound \in Nat : \A q \in ledger : q[1] <= bound /\ q[2] <= bound
      BY DEF WedgedOK
    <3>3. Refuses(ledger, {}, Pair2(w.pair)[1], Pair2(w.pair)[2])
      BY <3>1, <3>2, CondemnedIsRefused DEF PutAway, TypeOK
    <3>4. LedgerRefuses(w.pair)
      BY <3>3 DEF LedgerRefuses, Pair2
    <3> QED
      BY <1>19, <3>1, <3>4 DEF ApplyForgeProfile
  <2>2. /\ UNCHANGED <<applied, ledger, baseline, log, pc>>
        /\ job'.kind = "F2" /\ job'.pair = prog.profile
        /\ hist'.wedged = hist.wedged
    BY <1>19 DEF ApplyForgeProfile, BeginApply, TypeOK, Observed
  <2> QED
    BY <2>1, <2>2 DEF WedgedOK, PutAway, AppliedUndervolt
<1>20. CASE ApplySweepProfile
  BY <1>20 DEF ApplySweepProfile, BeginApply, Arm, Request, WedgedOK, PutAway,
     AppliedUndervolt, EventPending, Starting, Undecided, TypeOK, Observed
<1>21. CASE ApplyMemPeak
  BY <1>21 DEF ApplyMemPeak, BeginApply, Arm, Request, WedgedOK, PutAway,
     AppliedUndervolt, EventPending, Starting, Undecided, TypeOK, Observed
<1>22. CASE ManualApply
  BY <1>22 DEF ManualApply, Arm, Request, WedgedOK, PutAway, AppliedUndervolt,
     EventPending, Starting, Undecided, TypeOK, Observed
<1>23. CASE ManualReset
  BY <1>23 DEF ManualReset, Request, WedgedOK, PutAway, AppliedUndervolt,
     EventPending, Starting, Undecided, TypeOK, Observed
<1>24. CASE ResetGpuTuning
  BY <1>24 DEF ResetGpuTuning, Request, WedgedOK, PutAway, AppliedUndervolt,
     EventPending, Starting, Undecided, TypeOK, Observed
<1>25. CASE ResetGpuTuningFull
  BY <1>25 DEF ResetGpuTuningFull, Request, WedgedOK, PutAway, AppliedUndervolt,
     EventPending, Starting, Undecided, TypeOK, Observed
<1>26. CASE AcknowledgeIncident
  BY <1>26 DEF AcknowledgeIncident, Request, WedgedOK, PutAway, AppliedUndervolt,
     EventPending, Starting, Undecided, TypeOK, Observed
<1>27. CASE ReportProfileUnstable
  <2>1. Pair2(prog.profile) \in Nat \X Nat
    BY <1>27, IntentType DEF ReportProfileUnstable, TypeOK, Progress, Point
  <2>2. \E bound \in Nat : \A pair \in ledger' : pair[1] <= bound /\ pair[2] <= bound
    BY <1>27, <2>1, LedgerGrows DEF ReportProfileUnstable, TypeOK, WedgedOK
  <2>3. ASSUME NEW w \in hist'.wedged, w.by = "tdr"
        PROVE  PutAway(w.pair)' \/ EventPending(w.pair)'
    BY <1>27, <2>3 DEF ReportProfileUnstable, WedgedOK, PutAway, AppliedUndervolt,
       EventPending
  <2> QED
    BY <1>27, <2>2, <2>3 DEF ReportProfileUnstable, WedgedOK
<1>28. CASE ForgeStart
  BY <1>28 DEF ForgeStart, WedgedOK, PutAway, AppliedUndervolt, EventPending,
     Starting, Undecided, TypeOK
<1>47. CASE ForgeRequest
  BY <1>47 DEF ForgeRequest, Request, WedgedOK, PutAway, AppliedUndervolt, EventPending,
     Starting, Undecided, TypeOK
<1>29. CASE ForgeStop
  BY <1>29 DEF ForgeStop, Request, WedgedOK, PutAway, AppliedUndervolt, EventPending,
     Starting, Undecided, TypeOK
<1>30. CASE StopReset
  BY <1>30 DEF StopReset, Request, WedgedOK, PutAway, AppliedUndervolt, EventPending,
     Starting, Undecided, TypeOK
<1>31. CASE ForgePreflight
  BY <1>31 DEF ForgePreflight, WedgedOK, PutAway, AppliedUndervolt, EventPending,
     Starting, Undecided, TypeOK, Observed
<1>32. CASE ForgePreheatFails
  BY <1>32 DEF ForgePreheatFails, WedgedOK, PutAway, AppliedUndervolt, EventPending,
     Starting, Undecided, TypeOK
<1>33. CASE ForgeMarkRunning
  BY <1>33 DEF ForgeMarkRunning, WedgedOK, PutAway, AppliedUndervolt, EventPending,
     Starting, Undecided, TypeOK
<1>34. ASSUME NEW p \in Pairs, ForgeArm(p) PROVE WedgedOK'
  BY <1>34 DEF ForgeArm, Arm, WedgedOK, PutAway, AppliedUndervolt, EventPending,
     Starting, Undecided, TypeOK, Observed
<1>35. CASE ForgeWrite
  BY <1>35 DEF ForgeWrite, WedgedOK, PutAway, AppliedUndervolt, EventPending,
     Starting, Undecided, TypeOK
<1>36. CASE ForgeDwell
  BY <1>36 DEF ForgeDwell, WedgedOK, PutAway, AppliedUndervolt, EventPending,
     Starting, Undecided, TypeOK
<1>37. CASE ForgeReset
  BY <1>37 DEF ForgeReset, WedgedOK, PutAway, AppliedUndervolt, EventPending,
     Starting, Undecided, TypeOK
<1>38. CASE ForgeBlacklist
  BY <1>38 DEF ForgeBlacklist, WedgedOK, PutAway, AppliedUndervolt, EventPending,
     Starting, Undecided, TypeOK
<1>39. CASE ForgeClear
  BY <1>39 DEF ForgeClear, WedgedOK, PutAway, AppliedUndervolt, EventPending,
     Starting, Undecided, TypeOK
<1>40. CASE ForgeEnd
  BY <1>40 DEF ForgeEnd, WedgedOK, PutAway, AppliedUndervolt, EventPending, Starting,
     Undecided, TypeOK
<1>41. CASE SurvivalTimer
  BY <1>41 DEF SurvivalTimer, WedgedOK, PutAway, AppliedUndervolt, EventPending,
     Starting, Undecided, TypeOK
<1>42. CASE MachineCrash
  <2> DEFINE evidence(class, tdr) ==
               (IF tdr = 1 THEN {TdrEvidence} ELSE {})
                   \cup (IF class = "OcInstability" THEN {"bugcheck"} ELSE {})
  <2>0. PICK class \in CrashClass \cup {"freeze"}, tdr \in {0, 1} :
           /\ log' = [class     |-> IF class = "freeze" THEN log.class ELSE class,
                       inSession |-> IF class = "freeze" THEN log.inSession
                                     ELSE applied # NoProfile,
                       tdr       |-> log.tdr + tdr,
                       thisBoot  |-> FALSE]
           /\ hist' = [hist EXCEPT
                !.autoCrashes = IF pc # "off" /\ Armed /\ hist.armedBy = "boot"
                                THEN @ + 1 ELSE @,
                !.unacked = @ \/ ForgeUnderWay,
                !.crashed = @ \cup CrashedCandidate,
                !.wedged = @ \cup Wedged(evidence(class, tdr))]
    BY <1>42 DEF MachineCrash
  <2>1. /\ log'.tdr = log.tdr + tdr
        /\ hist'.wedged = hist.wedged \cup Wedged(evidence(class, tdr))
    <3> HIDE DEF evidence
    <3> QED
      BY <2>0 DEF TypeOK, Observed
  <2>2. UNCHANGED <<applied, ledger, baseline>> /\ pc' = "off" /\ job' = NoJob
    BY <1>42 DEF MachineCrash, ProcessGone
  <2>3. log.tdr \in Nat /\ log'.tdr \in Nat /\ log'.tdr >= log.tdr
    BY <2>1 DEF TypeOK, EventLog
  <2>4. baseline' # NoBaseline => baseline' <= log'.tdr
    BY <2>2, <2>3 DEF TypeOK, WedgedOK
  <2>5. ASSUME NEW w \in hist.wedged, w.by = "tdr"
        PROVE  PutAway(w.pair)' \/ EventPending(w.pair)'
    <3>1. CASE PutAway(w.pair)
      BY <2>2, <3>1 DEF PutAway, AppliedUndervolt
    <3>2. CASE EventPending(w.pair)
      BY <2>2, <2>3, <3>2 DEF EventPending, AppliedUndervolt, TypeOK
    <3> QED
      BY <2>5, <3>1, <3>2 DEF WedgedOK
  <2>6. ASSUME NEW w \in hist'.wedged, w \notin hist.wedged, w.by = "tdr"
        PROVE  EventPending(w.pair)'
    <3>1. AppliedUndervolt(w.pair) /\ tdr = 1 /\ baseline # NoBaseline
      BY <2>1, <2>6 DEF Wedged, TdrEvidence, AppliedUndervolt
    <3>2. log'.tdr > baseline'
      BY <2>1, <2>2, <2>3, <3>1 DEF WedgedOK, TypeOK
    <3> QED
      BY <2>2, <3>1, <3>2 DEF EventPending, AppliedUndervolt
  <2> QED
    BY <2>2, <2>4, <2>5, <2>6 DEF WedgedOK
<1>43. CASE ServiceKilled
  BY <1>43 DEF ServiceKilled, ProcessGone, WedgedOK, PutAway, AppliedUndervolt,
     EventPending, Starting, Undecided, TypeOK, Observed
<1>44. CASE DriverResetWhileDown
  <2>1. /\ log'.tdr = log.tdr + 1
        /\ hist'.wedged = hist.wedged \cup Wedged({TdrEvidence})
    BY <1>44 DEF DriverResetWhileDown, TypeOK, Observed, EventLog
  <2>2. UNCHANGED <<applied, ledger, baseline, pc, job>> /\ pc = "off"
    BY <1>44 DEF DriverResetWhileDown
  <2>3. log.tdr \in Nat
    BY DEF TypeOK, EventLog
  <2>4. baseline' # NoBaseline => baseline' <= log'.tdr
    BY <2>1, <2>2, <2>3 DEF TypeOK, WedgedOK
  <2>5. ASSUME NEW w \in hist.wedged, w.by = "tdr"
        PROVE  PutAway(w.pair)' \/ EventPending(w.pair)'
    <3>1. CASE PutAway(w.pair)
      BY <2>2, <3>1 DEF PutAway, AppliedUndervolt
    <3>2. CASE EventPending(w.pair)
      BY <2>1, <2>2, <2>3, <3>2 DEF EventPending, AppliedUndervolt, TypeOK
    <3> QED
      BY <2>5, <3>1, <3>2 DEF WedgedOK
  <2>6. ASSUME NEW w \in hist'.wedged, w \notin hist.wedged, w.by = "tdr"
        PROVE  EventPending(w.pair)'
    <3>1. AppliedUndervolt(w.pair) /\ baseline # NoBaseline
      BY <2>1, <2>6 DEF Wedged, TdrEvidence, AppliedUndervolt
    <3>2. log'.tdr > baseline'
      BY <2>1, <2>2, <2>3, <3>1 DEF WedgedOK, TypeOK
    <3> QED
      BY <2>2, <3>1, <3>2 DEF EventPending, AppliedUndervolt
  <2> QED
    BY <2>2, <2>4, <2>5, <2>6 DEF WedgedOK
<1>45. CASE StopMark
  BY <1>45 DEF StopMark, ProcessGone, WedgedOK, PutAway, AppliedUndervolt,
     EventPending, Starting, Undecided, TypeOK, Observed, EventLog
<1>46. CASE UNCHANGED vars
  BY <1>46 DEF vars, WedgedOK, PutAway, AppliedUndervolt, EventPending, Starting,
     Undecided, TypeOK
<1> QED
  BY <1>1, <1>2, <1>3, <1>4, <1>5, <1>6, <1>7, <1>8, <1>9, <1>10, <1>11, <1>12, <1>13,
     <1>14, <1>15, <1>16, <1>17, <1>18, <1>19, <1>20, <1>21, <1>22, <1>23, <1>24,
     <1>25, <1>26, <1>27, <1>28, <1>29, <1>30, <1>31, <1>32, <1>33, <1>34, <1>35,
     <1>36, <1>37, <1>38, <1>39, <1>40, <1>41, <1>42, <1>43, <1>44, <1>45, <1>46, <1>47,
     PairsAssumption
     DEF Next, Startup, Applying, Operator, Forge, Environment

(* startup_reconcile: an undervolt that was applied when the driver logged *)
(* an event beyond the cursor is never written by the undervolt path again *)
(* at boot or on request, wherever the demotion is cut and whatever is     *)
(* reset afterwards.                                                       *)
THEOREM WedgedStaysOff == Spec => []WedgedProfileStaysOff
<1>1. IInv => TypeOK /\ ShapeOK
  BY DEF IInv
<1>2. ShapeOK /\ WedgedOK => WedgedProfileStaysOff
  <2> SUFFICES ASSUME ShapeOK, WedgedOK, job # NoJob, job.kind = "F2",
                      [pair |-> job.pair, by |-> "tdr"] \in hist.wedged
               PROVE  FALSE
    BY DEF WedgedProfileStaysOff, StaysOff
  <2> DEFINE w == [pair |-> job.pair, by |-> "tdr"]
  <2>1. w.pair = job.pair /\ w.by = "tdr"
    OBVIOUS
  <2>2. PutAway(job.pair) \/ EventPending(job.pair)
    BY <2>1 DEF WedgedOK
  <2>3. pc \in {"reapply", "ready"}
    BY DEF ShapeOK
  <2> QED
    BY <2>2, <2>3 DEF PutAway, EventPending, Starting, Undecided
<1> QED
  BY <1>1, <1>2, WedgedInit, WedgedNext, Invariance, PTL DEF Spec
-----------------------------------------------------------------------------
(* An interrupted Forge run waits for its acknowledgement.                 *)

(* Runs are numbered, and a run has its incident on record at most once.   *)
RunsOK ==
    /\ \A r \in record.incidents : r <= used.runs
    /\ checkpoint # NoCheckpoint => checkpoint.run <= used.runs
    /\ prog.run <= used.runs
    /\ forge.step = "starting" => forge.run = used.runs + 1
    /\ forge.step \notin {"idle", "starting"} => used.runs \notin record.incidents
    /\ prog.running => prog.run = used.runs /\ forge.step \notin {"idle", "starting"}

(* A checkpoint that says running belongs to the live worker, or is        *)
(* reconciled by the next start before anything else.                      *)
RunningOK ==
    /\ ForgeUnderWay /\ pc \notin {"off", "reconcile", "reconcile_save"}
         => /\ forge.step \notin {"idle", "starting", "preheat"}
            /\ checkpoint.run \notin record.incidents
    /\ ForgeUnderWay => checkpoint.run \notin record.incidents \/ record.pending # NoIncident
    /\ pc = "reconcile_save" => record.pending # NoIncident

(* An interrupted run is on record, or about to be.                        *)
IncidentOK ==
    /\ hist.unacked => \/ record.pending # NoIncident
                       \/ /\ pc \in {"off", "reconcile"} /\ ForgeUnderWay
                          /\ checkpoint.run \notin record.incidents
    /\ hist.unacked => forge.step = "idle"
    /\ hist.unacked /\ job # NoJob => job.who # "boot" /\ job.kind # "F2"

ForgeRunsOK == RunsOK /\ RunningOK /\ IncidentOK
(* Only a start that finds a running checkpoint records an incident.       *)
LEMMA RecoveryKeepsIncidents ==
    ASSUME NEW rec \in SafeLoopRecord, NEW f \in BootFlag \cup {NoFlag}, NEW class \in CrashClass
    PROVE  /\ ApplyRecovery(rec, DecideRecovery(f, class, rec), f, class).pending = rec.pending
           /\ ApplyRecovery(rec, DecideRecovery(f, class, rec), f, class).incidents = rec.incidents
<1> DEFINE action == DecideRecovery(f, class, rec)
           new    == ApplyRecovery(rec, action, f, class)
<1>1. action \in RecoveryActions
  BY DEF DecideRecovery, RecoveryActions
<1>2. CASE action \in {"Idle", "ApplyLastValidated", "AwaitOperatorAcknowledgement"}
  BY <1>2 DEF ApplyRecovery, SafeLoopRecord
<1>3. CASE action = "BlacklistAndRecede"
  <2>1. \E n : new = [Blacklist(rec, f.intent) EXCEPT !.consecutive_crashes = n,
                                                     !.state = "Unstable"]
    BY <1>3 DEF ApplyRecovery
  <2>2. new.pending = rec.pending /\ new.incidents = rec.incidents
    <3> HIDE DEF new
    <3> QED
      BY <2>1 DEF Blacklist, SafeLoopRecord
  <2> QED
    BY <2>2
<1>4. CASE action \in {"EnterSafeMode", "RemainSafeMode"}
  BY <1>4 DEF ApplyRecovery, SafeLoopRecord
<1>5. new.pending = rec.pending /\ new.incidents = rec.incidents
  BY <1>1, <1>2, <1>3, <1>4 DEF RecoveryActions
<1> QED
  BY <1>5

(* Neither blacklisting nor the release of the latch touches an incident.  *)
LEMMA IncidentsKept ==
    ASSUME NEW rec \in SafeLoopRecord, NEW point
    PROVE  /\ Blacklist(rec, point).pending = rec.pending
           /\ Blacklist(rec, point).incidents = rec.incidents
           /\ StripGpuVfBlacklist(rec).pending = rec.pending
           /\ StripGpuVfBlacklist(rec).incidents = rec.incidents
           /\ ClearRecoveryLatch(rec).pending = rec.pending
           /\ ClearRecoveryLatch(rec).incidents = rec.incidents
  BY DEF Blacklist, StripGpuVfBlacklist, ClearRecoveryLatch, SafeLoopRecord

(* What the service remembers after a restart or a reset does not run.     *)
LEMMA IdleProgressRuns ==
    ASSUME TypeOK, RunsOK
    PROVE  /\ RestoredProgress.running = FALSE /\ RestoredProgress.run <= used.runs
           /\ ProgressAfterReset.running = FALSE /\ ProgressAfterReset.run <= used.runs
           /\ IdleProgress.running = FALSE /\ IdleProgress.run <= used.runs
<1>1. used.runs \in Nat
  BY DEF TypeOK
<1>2. IdleProgress.running = FALSE /\ IdleProgress.run <= used.runs
  BY <1>1 DEF IdleProgress
<1>3. RestoredProgress.running = FALSE /\ RestoredProgress.run <= used.runs
  <2>1. CASE checkpoint = NoCheckpoint
    BY <1>2, <2>1 DEF RestoredProgress
  <2>2. CASE checkpoint # NoCheckpoint
    <3>1. \E qualified, phase : RestoredProgress =
              [checkpoint EXCEPT !.running = FALSE, !.qualified = qualified, !.phase = phase]
      BY <2>2 DEF RestoredProgress
    <3> QED
      BY <2>2, <3>1 DEF TypeOK, Progress, RunsOK
  <2> QED
    BY <2>1, <2>2
<1>4. ProgressAfterReset.running = FALSE /\ ProgressAfterReset.run <= used.runs
  BY <1>2 DEF ProgressAfterReset, TypeOK, Progress, RunsOK
<1> QED
  BY <1>2, <1>3, <1>4

(* The invariant depends on the record only through its incidents.         *)
LEMMA ForgeRunsFrame ==
    ASSUME ForgeRunsOK,
           record'.pending = record.pending, record'.incidents = record.incidents,
           UNCHANGED <<checkpoint, pc, forge, job>>, used'.runs = used.runs,
           hist'.unacked = hist.unacked,
           UNCHANGED prog \/ (prog'.running = FALSE /\ prog'.run <= used.runs)
    PROVE  ForgeRunsOK'
  BY DEF ForgeRunsOK, RunsOK, RunningOK, IncidentOK, ForgeUnderWay

(* No run is under way at the first start ...                              *)
LEMMA ForgeRunsInit == Init => ForgeRunsOK
  BY DefaultType DEF Init, ForgeRunsOK, RunsOK, RunningOK, IncidentOK, ForgeUnderWay,
     IdleProgress, IdleForge, DefaultRecord

(* ... and every step keeps it.                                            *)
LEMMA ForgeRunsNext == TypeOK /\ ShapeOK /\ ForgeRunsOK /\ [Next]_vars => ForgeRunsOK'
<1> SUFFICES ASSUME TypeOK, ShapeOK, ForgeRunsOK, [Next]_vars PROVE ForgeRunsOK'
  OBVIOUS
<1>1. CASE Start
  BY <1>1 DEF Start, ForgeRunsOK, RunsOK, RunningOK, IncidentOK, ForgeUnderWay,
     TypeOK, Observed
<1>2. CASE ReconcileRecord
  <2>1. CASE ForgeUnderWay
    <3>1. PICK kind \in ForgeIncidentKind :
             record' = RecordForgeIncident(record, kind, checkpoint.run)
      BY <1>2, <2>1 DEF ReconcileRecord, ForgeUnderWay, ForgeIncidentKind
    <3>2. UNCHANGED <<checkpoint, prog, forge, hist, used, job>> /\ pc' = "reconcile_save"
          /\ pc = "reconcile"
      BY <1>2, <2>1 DEF ReconcileRecord, ForgeUnderWay
    <3>3. checkpoint # NoCheckpoint /\ checkpoint.run \in Nat
      BY <2>1 DEF ForgeUnderWay, TypeOK, Progress
    <3>4. CASE checkpoint.run \in record.incidents
      <4>1. record' = record /\ record.pending # NoIncident
        BY <2>1, <3>1, <3>4 DEF RecordForgeIncident, ForgeRunsOK, RunningOK
      <4> QED
        BY <3>2, <4>1 DEF ForgeRunsOK, RunsOK, RunningOK, IncidentOK, ForgeUnderWay
    <3>5. CASE checkpoint.run \notin record.incidents
      <4>1. /\ record'.pending = [kind |-> kind, run |-> checkpoint.run]
            /\ record'.incidents = record.incidents \cup {checkpoint.run}
        BY <3>1, <3>5 DEF RecordForgeIncident, TypeOK, SafeLoopRecord
      <4>2. record'.pending # NoIncident
        BY <3>3, <4>1, IncidentAssumption DEF ForgeIncident
      <4>3. forge.step = "idle"
        BY <3>2 DEF ShapeOK
      <4> QED
        BY <3>2, <3>3, <4>1, <4>2, <4>3
        DEF ForgeRunsOK, RunsOK, RunningOK, IncidentOK, ForgeUnderWay
    <3> QED
      BY <3>4, <3>5
  <2>2. CASE ~ ForgeUnderWay
    BY <1>2, <2>2 DEF ReconcileRecord, ForgeRunsOK, RunsOK, RunningOK, IncidentOK, ForgeUnderWay
  <2> QED
    BY <2>1, <2>2
<1>3. CASE ReconcileCheckpoint
  BY <1>3 DEF ReconcileCheckpoint, ForgeRunsOK, RunsOK, RunningOK, IncidentOK,
     ForgeUnderWay, TypeOK, Progress, ShapeOK
<1>4. CASE RecoverConsumeMarker
  BY <1>4 DEF RecoverConsumeMarker, ForgeRunsOK, RunsOK, RunningOK, IncidentOK,
     ForgeUnderWay
<1>5. CASE RecoverDisarm
  BY <1>5 DEF RecoverDisarm, ForgeRunsOK, RunsOK, RunningOK, IncidentOK, ForgeUnderWay
<1>6. CASE RecoverCommit
  <2> DEFINE class == IF Armed THEN log.class ELSE "Unknown"
  <2>1. class \in CrashClass
    BY DEF TypeOK, EventLog, CrashClass
  <2>2. record'.pending = record.pending /\ record'.incidents = record.incidents
    <3>1. record' = ApplyRecovery(record, DecideRecovery(flag, class, record), flag, class)
      BY <1>6 DEF RecoverCommit
    <3> HIDE DEF class
    <3> QED
      BY <2>1, <3>1, RecoveryKeepsIncidents DEF TypeOK
  <2> HIDE DEF class
  <2> QED
    BY <1>6, <2>2 DEF RecoverCommit, ForgeRunsOK, RunsOK, RunningOK, IncidentOK, ForgeUnderWay
<1>7. CASE InitializeRebootGuard
  BY <1>7 DEF InitializeRebootGuard, ForgeRunsOK, RunsOK, RunningOK, IncidentOK,
     ForgeUnderWay
<1>8. CASE StartupReconcile
  BY <1>8 DEF StartupReconcile, ForgeRunsOK, RunsOK, RunningOK, IncidentOK,
     ForgeUnderWay, TypeOK, SafeLoopRecord
<1>9. CASE DemoteCondemn
  BY <1>9 DEF DemoteCondemn, ForgeRunsOK, RunsOK, RunningOK, IncidentOK, ForgeUnderWay
<1>10. CASE DemoteClearApplied
  BY <1>10 DEF DemoteClearApplied, ForgeRunsOK, RunsOK, RunningOK, IncidentOK,
     ForgeUnderWay, TypeOK, Observed
<1>11. CASE PersistBaseline
  BY <1>11 DEF PersistBaseline, ForgeRunsOK, RunsOK, RunningOK, IncidentOK,
     ForgeUnderWay
<1>12. CASE SkipReapply
  BY <1>12 DEF SkipReapply, OpenPipe, ForgeRunsOK, RunsOK, RunningOK, IncidentOK,
     ForgeUnderWay, RestoredProgress, TypeOK, Progress, IdleProgress, ShapeOK
<1>13. CASE ReapplyArm
  BY <1>13 DEF ReapplyArm, Arm, ForgeRunsOK, RunsOK, RunningOK, IncidentOK,
     ForgeUnderWay, TypeOK, Observed, MayReapply
<1>14. CASE ApplyWriteOk
  BY <1>14 DEF ApplyWriteOk, ForgeRunsOK, RunsOK, RunningOK, IncidentOK,
     ForgeUnderWay, TypeOK, Job
<1>15. CASE ApplyWriteFails
  <2>1. /\ UNCHANGED <<record, checkpoint, forge, used, hist>> /\ job' = NoJob
        /\ (UNCHANGED <<pc, prog>> \/ (pc = "reapply" /\ pc' = "ready" /\ prog' = RestoredProgress))
    BY <1>15 DEF ApplyWriteFails, ApplyReturns, OpenPipe, ShapeOK
  <2> QED
    BY <2>1, IdleProgressRuns
    DEF ForgeRunsOK, RunsOK, RunningOK, IncidentOK, ForgeUnderWay
<1>16. CASE ApplySave
  <2>1. hist'.unacked = hist.unacked
    BY <1>16 DEF ApplySave, TypeOK, Observed
  <2>2. /\ UNCHANGED <<record, checkpoint, forge, used>> /\ job' = NoJob
        /\ (UNCHANGED <<pc, prog>> \/ (pc = "reapply" /\ pc' = "ready" /\ prog' = RestoredProgress))
    BY <1>16 DEF ApplySave, ApplyReturns, OpenPipe, ShapeOK
  <2> QED
    BY <2>1, <2>2, IdleProgressRuns
    DEF ForgeRunsOK, RunsOK, RunningOK, IncidentOK, ForgeUnderWay
<1>17. CASE ManualWriteOk
  BY <1>17 DEF ManualWriteOk, ForgeRunsOK, RunsOK, RunningOK, IncidentOK,
     ForgeUnderWay
<1>18. CASE ManualWriteFails
  BY <1>18 DEF ManualWriteFails, ForgeRunsOK, RunsOK, RunningOK, IncidentOK,
     ForgeUnderWay
<1>19. CASE ApplyForgeProfile
  BY <1>19 DEF ApplyForgeProfile, BeginApply, Arm, Request, ForgeRunsOK, RunsOK,
     RunningOK, IncidentOK, ForgeUnderWay, TypeOK, Observed
<1>20. CASE ApplySweepProfile
  BY <1>20 DEF ApplySweepProfile, BeginApply, Arm, Request, ForgeRunsOK, RunsOK,
     RunningOK, IncidentOK, ForgeUnderWay, TypeOK, Observed
<1>21. CASE ApplyMemPeak
  BY <1>21 DEF ApplyMemPeak, BeginApply, Arm, Request, ForgeRunsOK, RunsOK, RunningOK,
     IncidentOK, ForgeUnderWay, TypeOK, Observed
<1>22. CASE ManualApply
  BY <1>22 DEF ManualApply, Arm, Request, ForgeRunsOK, RunsOK, RunningOK, IncidentOK,
     ForgeUnderWay, TypeOK, Observed
<1>23. CASE ManualReset
  BY <1>23 DEF ManualReset, Request, ForgeRunsOK, RunsOK, RunningOK, IncidentOK,
     ForgeUnderWay, TypeOK, Observed
<1>24. CASE ResetGpuTuning
  <2>1. /\ record'.pending = record.pending /\ record'.incidents = record.incidents
        /\ hist'.unacked = hist.unacked /\ used'.runs = used.runs
    BY <1>24, IncidentsKept DEF ResetGpuTuning, Request, TypeOK, Observed
  <2>2. UNCHANGED prog \/ (prog'.running = FALSE /\ prog'.run <= used.runs)
    BY <1>24, IdleProgressRuns DEF ResetGpuTuning, ForgeRunsOK
  <2>3. UNCHANGED <<checkpoint, pc, job>> /\ forge'.step = forge.step /\ forge'.run = forge.run
    BY <1>24 DEF ResetGpuTuning, AbortForge, TypeOK, ForgeWorker
  <2> QED
    BY <2>1, <2>2, <2>3 DEF ForgeRunsOK, RunsOK, RunningOK, IncidentOK, ForgeUnderWay
<1>25. CASE ResetGpuTuningFull
  <2>1. /\ UNCHANGED <<pc, job>> /\ used'.runs = used.runs
        /\ forge'.step = forge.step /\ forge'.run = forge.run
        /\ pc = "ready"
    BY <1>25 DEF ResetGpuTuningFull, Request, AbortForge, TypeOK, ForgeWorker
  <2>2. CASE UNCHANGED <<record, checkpoint, prog, hist>>
    BY <2>1, <2>2 DEF ForgeRunsOK, RunsOK, RunningOK, IncidentOK, ForgeUnderWay
  <2>3. CASE /\ record' = DefaultRecord /\ checkpoint' = NoCheckpoint
             /\ prog' = IdleProgress /\ hist'.unacked = FALSE
    <3>1. record'.incidents = {}
      BY <2>3 DEF DefaultRecord
    <3> QED
      BY <2>1, <2>3, <3>1, IdleProgressRuns
      DEF ForgeRunsOK, RunsOK, RunningOK, IncidentOK, ForgeUnderWay
  <2> QED
    BY <1>25, <2>2, <2>3 DEF ResetGpuTuningFull, TypeOK, Observed
<1>26. CASE AcknowledgeIncident
  BY <1>26 DEF AcknowledgeIncident, Request, ForgeRunsOK, RunsOK, RunningOK,
     IncidentOK, ForgeUnderWay, TypeOK, Observed, AcknowledgeForgeIncident,
     SafeLoopRecord, ShapeOK
<1>27. CASE ReportProfileUnstable
  BY <1>27, IncidentsKept DEF ReportProfileUnstable, Request, ForgeRunsOK, RunsOK,
     RunningOK, IncidentOK, ForgeUnderWay, TypeOK, SafeLoopRecord, Progress
<1>28. CASE ForgeStart
  BY <1>28 DEF ForgeStart, ForgeRunsOK, RunsOK, RunningOK, IncidentOK,
     ForgeUnderWay, TypeOK, ForgeWorker, Progress, IdleForge, ShapeOK
<1>47. CASE ForgeRequest
  BY <1>47 DEF ForgeRequest, Request, ForgeRunsOK, RunsOK, RunningOK, IncidentOK,
     ForgeUnderWay, TypeOK, ForgeWorker, Progress, ShapeOK
<1>29. CASE ForgeStop
  BY <1>29 DEF ForgeStop, Request, ForgeRunsOK, RunsOK, RunningOK, IncidentOK,
     ForgeUnderWay, TypeOK, ForgeWorker, Progress, IdleForge, ShapeOK
<1>30. CASE StopReset
  BY <1>30 DEF StopReset, Request, ForgeRunsOK, RunsOK, RunningOK, IncidentOK,
     ForgeUnderWay
<1>31. CASE ForgePreflight
  <2>1. /\ record'.pending = record.pending /\ record'.incidents = record.incidents
        /\ hist'.unacked = hist.unacked
    BY <1>31, IncidentsKept DEF ForgePreflight, TypeOK, Observed
  <2>2. used.runs \in Nat /\ used'.runs = used.runs + 1 /\ UNCHANGED <<pc, job>>
        /\ forge.step = "starting"
    BY <1>31 DEF ForgePreflight, TypeOK
  <2>3. /\ prog'.run = forge.run
        /\ \/ prog'.running = FALSE /\ forge' = IdleForge
           \/ forge' = [forge EXCEPT !.step = "preheat"]
    <3> DEFINE started == [running |-> TRUE, phase |-> "power", run |-> forge.run,
                           profile |-> IF forge.clean THEN Stock ELSE prog.profile,
                           qualified |-> FALSE]
    <3>1. \/ /\ \E phase : prog' = [started EXCEPT !.running = FALSE, !.phase = phase]
             /\ forge' = IdleForge
          \/ prog' = started /\ forge' = [forge EXCEPT !.step = "preheat"]
      BY <1>31 DEF ForgePreflight
    <3>2. ASSUME NEW phase, prog' = [started EXCEPT !.running = FALSE, !.phase = phase]
          PROVE  prog'.run = forge.run /\ prog'.running = FALSE
      BY <3>2
    <3>3. prog' = started => prog'.run = forge.run
      OBVIOUS
    <3> HIDE DEF started
    <3> QED
      BY <3>1, <3>2, <3>3
  <2>4. forge.run = used.runs + 1 /\ forge'.step \in {"idle", "preheat"}
    BY <2>2, <2>3 DEF ForgeRunsOK, RunsOK, TypeOK, ForgeWorker, IdleForge
  <2>5. ~ (checkpoint # NoCheckpoint /\ checkpoint.running)
    BY <1>31, <2>2 DEF ForgeRunsOK, RunningOK, ForgeUnderWay, ShapeOK
  <2>6. checkpoint' = NoCheckpoint \/ checkpoint' = checkpoint
    BY <1>31 DEF ForgePreflight
  <2>7. ~ hist.unacked
    BY <2>2 DEF ForgeRunsOK, IncidentOK
  <2>8. RunsOK'
    <3>1. \A r \in record.incidents : r \in Nat
      BY DEF TypeOK, SafeLoopRecord
    <3>2. prog'.running => forge'.step # "idle"
      BY <2>3, <2>4 DEF TypeOK, ForgeWorker
    <3>3. checkpoint # NoCheckpoint => checkpoint.run \in Nat
      BY DEF TypeOK, Progress
    <3> QED
      BY <2>1, <2>2, <2>3, <2>4, <2>6, <3>1, <3>2, <3>3 DEF ForgeRunsOK, RunsOK
  <2>9. RunningOK' /\ IncidentOK'
    BY <2>1, <2>2, <2>5, <2>6, <2>7
    DEF ForgeRunsOK, RunningOK, IncidentOK, ForgeUnderWay, ShapeOK
  <2> QED
    BY <2>8, <2>9 DEF ForgeRunsOK
<1>32. CASE ForgePreheatFails
  BY <1>32 DEF ForgePreheatFails, ForgeRunsOK, RunsOK, RunningOK, IncidentOK,
     ForgeUnderWay, TypeOK, ForgeWorker, Progress, IdleForge, ShapeOK
<1>33. CASE ForgeMarkRunning
  BY <1>33 DEF ForgeMarkRunning, ForgeRunsOK, RunsOK, RunningOK, IncidentOK,
     ForgeUnderWay, TypeOK, ForgeWorker, Progress, IdleForge, ShapeOK
<1>34. ASSUME NEW p \in Pairs, ForgeArm(p) PROVE ForgeRunsOK'
  BY <1>34 DEF ForgeArm, Arm, ForgeRunsOK, RunsOK, RunningOK, IncidentOK,
     ForgeUnderWay, TypeOK, Observed, ForgeWorker, Progress, IdleForge, ShapeOK
<1>35. CASE ForgeWrite
  BY <1>35 DEF ForgeWrite, ForgeRunsOK, RunsOK, RunningOK, IncidentOK, ForgeUnderWay,
     TypeOK, ForgeWorker, Progress, IdleForge, ShapeOK
<1>36. CASE ForgeDwell
  BY <1>36 DEF ForgeDwell, ForgeRunsOK, RunsOK, RunningOK, IncidentOK, ForgeUnderWay,
     TypeOK, ForgeWorker, Progress, IdleForge, ShapeOK
<1>37. CASE ForgeReset
  BY <1>37 DEF ForgeReset, ForgeRunsOK, RunsOK, RunningOK, IncidentOK, ForgeUnderWay,
     TypeOK, ForgeWorker, Progress, IdleForge, ShapeOK
<1>38. CASE ForgeBlacklist
  BY <1>38, IncidentsKept DEF ForgeBlacklist, ForgeRunsOK, RunsOK, RunningOK,
     IncidentOK, ForgeUnderWay, TypeOK, SafeLoopRecord, Progress, ForgeWorker,
     IdleForge, ShapeOK
<1>39. CASE ForgeClear
  BY <1>39 DEF ForgeClear, ForgeRunsOK, RunsOK, RunningOK, IncidentOK, ForgeUnderWay,
     TypeOK, ForgeWorker, Progress, IdleForge, ShapeOK
<1>40. CASE ForgeEnd
  BY <1>40 DEF ForgeEnd, ForgeRunsOK, RunsOK, RunningOK, IncidentOK, ForgeUnderWay,
     TypeOK, ForgeWorker, Progress, IdleForge, ShapeOK, TerminalProgress
<1>41. CASE SurvivalTimer
  BY <1>41 DEF SurvivalTimer, ForgeRunsOK, RunsOK, RunningOK, IncidentOK,
     ForgeUnderWay
<1>42. CASE MachineCrash
  <2>1. /\ pc' = "off" /\ forge' = IdleForge /\ prog' = IdleProgress /\ job' = NoJob
        /\ UNCHANGED <<record, checkpoint>> /\ used'.runs = used.runs
    BY <1>42 DEF MachineCrash, Fault, ProcessGone, TypeOK
  <2>2. hist'.unacked = (hist.unacked \/ ForgeUnderWay)
    <3>1. hist \in Observed
      BY DEF TypeOK
    <3> QED
      BY <1>42, <3>1 DEF MachineCrash, Observed
  <2>3. RunsOK'
    BY <2>1, IdleProgressRuns DEF ForgeRunsOK, RunsOK, IdleForge
  <2>4. RunningOK'
    BY <2>1 DEF ForgeRunsOK, RunningOK, ForgeUnderWay
  <2>5. IncidentOK'
    <3>1. CASE ForgeUnderWay
      BY <2>1, <3>1 DEF ForgeRunsOK, RunningOK, IncidentOK, ForgeUnderWay, IdleForge
    <3>2. CASE ~ ForgeUnderWay
      BY <2>1, <2>2, <3>2 DEF ForgeRunsOK, IncidentOK, ForgeUnderWay, IdleForge
    <3> QED
      BY <3>1, <3>2
  <2> QED
    BY <2>3, <2>4, <2>5 DEF ForgeRunsOK
<1>43. CASE ServiceKilled
  <2>1. /\ pc' = "off" /\ forge' = IdleForge /\ prog' = IdleProgress /\ job' = NoJob
        /\ UNCHANGED <<record, checkpoint>> /\ used'.runs = used.runs
    BY <1>43 DEF ServiceKilled, Fault, ProcessGone, TypeOK
  <2>2. hist'.unacked = (hist.unacked \/ ForgeUnderWay)
    <3>1. hist \in Observed
      BY DEF TypeOK
    <3> QED
      BY <1>43, <3>1 DEF ServiceKilled, Observed
  <2>3. RunsOK'
    BY <2>1, IdleProgressRuns DEF ForgeRunsOK, RunsOK, IdleForge
  <2>4. RunningOK'
    BY <2>1 DEF ForgeRunsOK, RunningOK, ForgeUnderWay
  <2>5. IncidentOK'
    <3>1. CASE ForgeUnderWay
      BY <2>1, <3>1 DEF ForgeRunsOK, RunningOK, IncidentOK, ForgeUnderWay, IdleForge
    <3>2. CASE ~ ForgeUnderWay
      BY <2>1, <2>2, <3>2 DEF ForgeRunsOK, IncidentOK, ForgeUnderWay, IdleForge
    <3> QED
      BY <3>1, <3>2
  <2> QED
    BY <2>3, <2>4, <2>5 DEF ForgeRunsOK
<1>44. CASE DriverResetWhileDown
  <2>1. hist'.unacked = hist.unacked /\ used'.runs = used.runs
    BY <1>44 DEF DriverResetWhileDown, Fault, TypeOK, Observed
  <2> QED
    BY <1>44, <2>1, ForgeRunsFrame DEF DriverResetWhileDown
<1>45. CASE StopMark
  BY <1>45 DEF StopMark, ProcessGone, ForgeRunsOK, RunsOK, RunningOK, IncidentOK,
     ForgeUnderWay, TypeOK, Observed, IdleForge, IdleProgress, ShapeOK
<1>46. CASE UNCHANGED vars
  BY <1>46 DEF vars, ForgeRunsOK, RunsOK, RunningOK, IncidentOK, ForgeUnderWay
<1> QED
  BY <1>1, <1>2, <1>3, <1>4, <1>5, <1>6, <1>7, <1>8, <1>9, <1>10, <1>11, <1>12, <1>13,
     <1>14, <1>15, <1>16, <1>17, <1>18, <1>19, <1>20, <1>21, <1>22, <1>23, <1>24,
     <1>25, <1>26, <1>27, <1>28, <1>29, <1>30, <1>31, <1>32, <1>33, <1>34, <1>35,
     <1>36, <1>37, <1>38, <1>39, <1>40, <1>41, <1>42, <1>43, <1>44, <1>45, <1>46, <1>47,
     PairsAssumption
     DEF Next, Startup, Applying, Operator, Forge, Environment

(* reconcile_interrupted_forge: a run cut short by a crash, a kill or a    *)
(* stop blocks Forge, the undervolt path and apply-on-boot until it is     *)
(* acknowledged, even when the crash falls between the incident and the    *)
(* checkpoint, and through every reset of the recovery latch.              *)
THEOREM InterruptedForgeBlocks == Spec => []InterruptedForgeAwaitsAck
<1>1. IInv => TypeOK /\ ShapeOK
  BY DEF IInv
<1>2. ForgeRunsOK => InterruptedForgeAwaitsAck
  BY DEF ForgeRunsOK, IncidentOK, InterruptedForgeAwaitsAck
<1> QED
  BY <1>1, <1>2, ForgeRunsInit, ForgeRunsNext, Invariance, PTL DEF Spec
-----------------------------------------------------------------------------
(* A crashed candidate is not armed again.                                 *)

(* The crash flag of the candidate is armed and will be accounted.         *)
CrashPending(p) ==
    /\ Armed /\ flag.intent = F2Intent(p) /\ flag.phase = SUPERVISED_F2_FORGE_PHASE
    /\ ~ clean
    /\ record.consecutive_crashes + 1 < SAFE_MODE_CRASH_THRESHOLD
    /\ pc \in Undecided \cup {"off", "commit"}

CrashedOK ==
    /\ \A p \in hist.crashed : p \in Pairs /\ (IsBlacklisted(record, F2Intent(p)) \/ CrashPending(p))
    /\ forge.step \in {"armed", "dwell", "reset"} /\ Armed
           /\ flag.phase = SUPERVISED_F2_FORGE_PHASE => flag.intent = F2Intent(forge.cand)
    /\ forge.step \in {"armed", "dwell"} => forge.cand \notin hist.crashed
(* A blacklisted point covers itself, and blacklisting drops no region.    *)
LEMMA BlacklistCovers ==
    ASSUME NEW rec \in SafeLoopRecord, NEW point \in TuningPoint
    PROVE  /\ IsBlacklisted(Blacklist(rec, point), point)
           /\ rec.blacklist \subseteq Blacklist(rec, point).blacklist
<1>1. Contains(point, point)
  BY DEF Contains, TuningPoint, DEFAULT_BLACKLIST_RADIUS
<1> QED
  BY <1>1 DEF Blacklist, IsBlacklisted, SafeLoopRecord

(* Whatever the start decides, no region is dropped, and the candidate of  *)
(* an armed flag that does not trip Safe Mode gets its own.                *)
LEMMA RecoveryCovers ==
    ASSUME NEW rec \in SafeLoopRecord, NEW f \in BootFlag \cup {NoFlag}, NEW class \in CrashClass
    PROVE  LET new == ApplyRecovery(rec, DecideRecovery(f, class, rec), f, class)
           IN  /\ rec.blacklist \subseteq new.blacklist
               /\ f # NoFlag /\ rec.consecutive_crashes + 1 < SAFE_MODE_CRASH_THRESHOLD
                      => IsBlacklisted(new, f.intent)
<1> DEFINE action == DecideRecovery(f, class, rec)
           new    == ApplyRecovery(rec, action, f, class)
<1>0. rec.consecutive_crashes \in Nat /\ SAFE_MODE_CRASH_THRESHOLD \in Nat
  BY ThresholdAssumption DEF SafeLoopRecord
<1>1. action \in RecoveryActions
  BY DEF DecideRecovery, RecoveryActions
<1>2. f # NoFlag /\ rec.consecutive_crashes + 1 < SAFE_MODE_CRASH_THRESHOLD
          => action = "BlacklistAndRecede"
  BY <1>0 DEF DecideRecovery
<1>3. ASSUME action # "BlacklistAndRecede" PROVE new.blacklist = rec.blacklist
  BY <1>1, <1>3 DEF ApplyRecovery, SafeLoopRecord, RecoveryActions
<1>4. ASSUME action = "BlacklistAndRecede"
      PROVE  new.blacklist = Blacklist(rec, f.intent).blacklist
  <2>1. \E n : new = [Blacklist(rec, f.intent) EXCEPT !.consecutive_crashes = n,
                                                     !.state = "Unstable"]
    BY <1>4 DEF ApplyRecovery
  <2>2. Blacklist(rec, f.intent) = [Blacklist(rec, f.intent) EXCEPT !.blacklist = @]
        /\ "blacklist" \in DOMAIN Blacklist(rec, f.intent)
    BY DEF Blacklist, SafeLoopRecord
  <2> HIDE DEF new
  <2> QED
    BY <2>1, <2>2
<1>5. action = "BlacklistAndRecede" => f # NoFlag
  BY DEF DecideRecovery
<1>6. f # NoFlag => f.intent \in TuningPoint
  BY DEF BootFlag
<1> HIDE DEF new, action
<1>7. rec.blacklist \subseteq new.blacklist
  BY <1>3, <1>4, <1>5, <1>6, BlacklistCovers
<1>8. f # NoFlag /\ rec.consecutive_crashes + 1 < SAFE_MODE_CRASH_THRESHOLD
          => IsBlacklisted(new, f.intent)
  BY <1>2, <1>4, <1>6, BlacklistCovers DEF IsBlacklisted
<1> QED
  BY <1>7, <1>8 DEF new, action

(* No candidate has crashed at the first start ...                         *)
LEMMA CrashedInit == Init => CrashedOK
  BY DEF Init, CrashedOK, IdleForge

(* ... and every step keeps it.                                            *)
LEMMA CrashedNext == TypeOK /\ ShapeOK /\ BudgetOK /\ CrashedOK /\ [Next]_vars => CrashedOK'
<1> SUFFICES ASSUME TypeOK, ShapeOK, BudgetOK, CrashedOK, [Next]_vars PROVE CrashedOK'
  OBVIOUS
<1>1. CASE Start
  BY <1>1 DEF Start, CrashedOK, IsBlacklisted, CrashPending, Armed, Undecided, TypeOK,
     Observed
<1>2. CASE ReconcileRecord
  BY <1>2 DEF ReconcileRecord, CrashedOK, IsBlacklisted, CrashPending, Armed,
     Undecided, TypeOK, SafeLoopRecord, RecordForgeIncident
<1>3. CASE ReconcileCheckpoint
  BY <1>3 DEF ReconcileCheckpoint, CrashedOK, IsBlacklisted, CrashPending, Armed,
     Undecided
<1>4. CASE RecoverConsumeMarker
  BY <1>4 DEF RecoverConsumeMarker, CrashedOK, IsBlacklisted, CrashPending, Armed,
     Undecided
<1>5. CASE RecoverDisarm
  BY <1>5 DEF RecoverDisarm, CrashedOK, IsBlacklisted, CrashPending, Armed, Undecided
<1>6. CASE RecoverCommit
  <2> DEFINE class == IF Armed THEN log.class ELSE "Unknown"
  <2>1. class \in CrashClass
    BY DEF TypeOK, EventLog, CrashClass
  <2>2. record' = ApplyRecovery(record, DecideRecovery(flag, class, record), flag, class)
    BY <1>6 DEF RecoverCommit
  <2> HIDE DEF class
  <2>3. /\ record.blacklist \subseteq record'.blacklist
        /\ Armed /\ record.consecutive_crashes + 1 < SAFE_MODE_CRASH_THRESHOLD
               => IsBlacklisted(record', flag.intent)
    BY <2>1, <2>2, RecoveryCovers DEF TypeOK, Armed
  <2>4. pc = "commit" /\ UNCHANGED <<forge, hist>> /\ forge.step = "idle"
    BY <1>6 DEF RecoverCommit, ShapeOK
  <2>5. ASSUME NEW p \in hist.crashed PROVE IsBlacklisted(record', F2Intent(p))
    BY <2>3 DEF CrashedOK, IsBlacklisted, CrashPending
  <2>6. \A p \in hist'.crashed : p \in Pairs /\ IsBlacklisted(record, F2Intent(p))'
    BY <2>4, <2>5 DEF CrashedOK, IsBlacklisted, F2Intent, NoAxes
  <2> QED
    BY <2>4, <2>6 DEF CrashedOK
<1>7. CASE InitializeRebootGuard
  BY <1>7 DEF InitializeRebootGuard, CrashedOK, IsBlacklisted, CrashPending, Armed,
     Undecided
<1>8. CASE StartupReconcile
  BY <1>8 DEF StartupReconcile, CrashedOK, IsBlacklisted, CrashPending, Armed,
     Undecided, TypeOK, SafeLoopRecord
<1>9. CASE DemoteCondemn
  BY <1>9 DEF DemoteCondemn, CrashedOK, IsBlacklisted, CrashPending, Armed, Undecided
<1>10. CASE DemoteClearApplied
  BY <1>10 DEF DemoteClearApplied, CrashedOK, IsBlacklisted, CrashPending, Armed,
     Undecided, TypeOK, Observed
<1>11. CASE PersistBaseline
  BY <1>11 DEF PersistBaseline, CrashedOK, IsBlacklisted, CrashPending, Armed,
     Undecided
<1>12. CASE SkipReapply
  BY <1>12 DEF SkipReapply, OpenPipe, CrashedOK, IsBlacklisted, CrashPending, Armed,
     Undecided
<1>13. CASE ReapplyArm
  BY <1>13 DEF ReapplyArm, Arm, CrashedOK, IsBlacklisted, CrashPending, Armed,
     Undecided, TypeOK, Observed, ApplyPhase, SUPERVISED_F2_FORGE_PHASE, ShapeOK,
     MayReapply
<1>14. CASE ApplyWriteOk
  BY <1>14 DEF ApplyWriteOk, CrashedOK, IsBlacklisted, CrashPending, Armed, Undecided
<1>15. CASE ApplyWriteFails
  BY <1>15 DEF ApplyWriteFails, ApplyReturns, OpenPipe, CrashedOK, IsBlacklisted,
     CrashPending, Armed, Undecided, ShapeOK, Starting, TypeOK
<1>16. CASE ApplySave
  BY <1>16 DEF ApplySave, ApplyReturns, OpenPipe, CrashedOK, IsBlacklisted,
     CrashPending, Armed, Undecided, TypeOK, Observed, ShapeOK, Starting
<1>17. CASE ManualWriteOk
  BY <1>17 DEF ManualWriteOk, CrashedOK, IsBlacklisted, CrashPending, Armed, Undecided
<1>18. CASE ManualWriteFails
  BY <1>18 DEF ManualWriteFails, CrashedOK, IsBlacklisted, CrashPending, Armed,
     Undecided, ShapeOK, Starting, TypeOK
<1>19. CASE ApplyForgeProfile
  BY <1>19 DEF ApplyForgeProfile, BeginApply, Arm, Request, CrashedOK, IsBlacklisted,
     CrashPending, Armed, Undecided, TypeOK, Observed, ApplyPhase,
     SUPERVISED_F2_FORGE_PHASE, ShapeOK
<1>20. CASE ApplySweepProfile
  BY <1>20 DEF ApplySweepProfile, BeginApply, Arm, Request, CrashedOK, IsBlacklisted,
     CrashPending, Armed, Undecided, TypeOK, Observed, ApplyPhase,
     SUPERVISED_F2_FORGE_PHASE, ShapeOK
<1>21. CASE ApplyMemPeak
  BY <1>21 DEF ApplyMemPeak, BeginApply, Arm, Request, CrashedOK, IsBlacklisted,
     CrashPending, Armed, Undecided, TypeOK, Observed, ApplyPhase,
     SUPERVISED_F2_FORGE_PHASE, ShapeOK
<1>22. CASE ManualApply
  BY <1>22 DEF ManualApply, Arm, Request, CrashedOK, IsBlacklisted, CrashPending,
     Armed, Undecided, TypeOK, Observed, SUPERVISED_F2_FORGE_PHASE
<1>23. CASE ManualReset
  BY <1>23 DEF ManualReset, Request, CrashedOK, IsBlacklisted, CrashPending, Armed,
     Undecided, TypeOK, Observed
<1>24. CASE ResetGpuTuning
  BY <1>24 DEF ResetGpuTuning, Request, CrashedOK, IsBlacklisted, CrashPending, Armed,
     Undecided, TypeOK, Observed, ClearRecoveryLatch, SafeLoopRecord, AbortForge,
     ForgeWorker
<1>25. CASE ResetGpuTuningFull
  BY <1>25 DEF ResetGpuTuningFull, Request, CrashedOK, IsBlacklisted, CrashPending,
     Armed, Undecided, TypeOK, Observed, AbortForge, ForgeWorker
<1>26. CASE AcknowledgeIncident
  BY <1>26 DEF AcknowledgeIncident, Request, CrashedOK, IsBlacklisted, CrashPending,
     Armed, Undecided, TypeOK, Observed, AcknowledgeForgeIncident, SafeLoopRecord
<1>27. CASE ReportProfileUnstable
  <2>1. F2Intent(prog.profile) \in TuningPoint
    BY <1>27, IntentType DEF ReportProfileUnstable, TypeOK, Progress, Point
  <2>2. record.blacklist \subseteq record'.blacklist
    <3>1. Blacklist(record, F2Intent(prog.profile)) \in SafeLoopRecord
      BY <2>1, BlacklistType DEF TypeOK
    <3>2. record'.blacklist = Blacklist(record, F2Intent(prog.profile)).blacklist
      BY <1>27, <3>1 DEF ReportProfileUnstable, SafeLoopRecord
    <3> QED
      BY <2>1, <3>2, BlacklistCovers DEF TypeOK
  <2>3. pc = "ready" /\ UNCHANGED <<flag, forge, hist>>
    BY <1>27 DEF ReportProfileUnstable, Request
  <2> QED
    BY <2>2, <2>3 DEF CrashedOK, IsBlacklisted, CrashPending, Armed, Undecided, F2Intent, NoAxes
<1>28. CASE ForgeStart
  BY <1>28 DEF ForgeStart, CrashedOK, IsBlacklisted, CrashPending, Armed,
     Undecided, TypeOK, ForgeWorker, IdleForge, ShapeOK
<1>47. CASE ForgeRequest
  BY <1>47 DEF ForgeRequest, Request, CrashedOK, IsBlacklisted, CrashPending, Armed,
     Undecided, TypeOK, ForgeWorker, ShapeOK
<1>29. CASE ForgeStop
  BY <1>29 DEF ForgeStop, Request, CrashedOK, IsBlacklisted, CrashPending, Armed,
     Undecided, TypeOK, ForgeWorker, IdleForge, ShapeOK
<1>30. CASE StopReset
  BY <1>30 DEF StopReset, Request, CrashedOK, IsBlacklisted, CrashPending, Armed,
     Undecided
<1>31. CASE ForgePreflight
  BY <1>31 DEF ForgePreflight, CrashedOK, IsBlacklisted, CrashPending, Armed,
     Undecided, TypeOK, Observed, ForgeWorker, IdleForge, ShapeOK
<1>32. CASE ForgePreheatFails
  BY <1>32 DEF ForgePreheatFails, CrashedOK, IsBlacklisted, CrashPending, Armed,
     Undecided, TypeOK, ForgeWorker, IdleForge, ShapeOK
<1>33. CASE ForgeMarkRunning
  BY <1>33 DEF ForgeMarkRunning, CrashedOK, IsBlacklisted, CrashPending, Armed,
     Undecided, TypeOK, ForgeWorker, IdleForge, ShapeOK
<1>34. ASSUME NEW p \in Pairs, ForgeArm(p) PROVE CrashedOK'
  BY <1>34, PairsAssumption DEF ForgeArm, Arm, CrashedOK, IsBlacklisted, CrashPending,
     Armed, Undecided, TypeOK, Observed, ForgeWorker, IdleForge, ShapeOK,
     CandidateBlacklisted
<1>35. CASE ForgeWrite
  BY <1>35 DEF ForgeWrite, CrashedOK, IsBlacklisted, CrashPending, Armed, Undecided,
     TypeOK, ForgeWorker, IdleForge, ShapeOK
<1>36. CASE ForgeDwell
  BY <1>36 DEF ForgeDwell, CrashedOK, IsBlacklisted, CrashPending, Armed, Undecided,
     TypeOK, ForgeWorker, IdleForge, ShapeOK
<1>37. CASE ForgeReset
  BY <1>37 DEF ForgeReset, CrashedOK, IsBlacklisted, CrashPending, Armed, Undecided,
     TypeOK, ForgeWorker, IdleForge, ShapeOK
<1>38. CASE ForgeBlacklist
  <2>1. F2Intent(forge.cand) \in TuningPoint
    BY <1>38, IntentType DEF ForgeBlacklist, TypeOK, ForgeWorker, Point, ShapeOK
  <2>2. record.blacklist \subseteq record'.blacklist
    BY <1>38, <2>1, BlacklistCovers DEF ForgeBlacklist, TypeOK
  <2>3. pc \in {"ready", "stopping"} /\ UNCHANGED <<flag, hist>>
        /\ forge'.step \in {"final", "clear"}
    BY <1>38 DEF ForgeBlacklist, ShapeOK, TypeOK, ForgeWorker
  <2> QED
    BY <2>2, <2>3 DEF CrashedOK, IsBlacklisted, CrashPending, Undecided, F2Intent, NoAxes
<1>39. CASE ForgeClear
  BY <1>39 DEF ForgeClear, CrashedOK, IsBlacklisted, CrashPending, Armed, Undecided,
     TypeOK, ForgeWorker, IdleForge, ShapeOK
<1>40. CASE ForgeEnd
  BY <1>40 DEF ForgeEnd, CrashedOK, IsBlacklisted, CrashPending, Armed, Undecided,
     TypeOK, ForgeWorker, IdleForge, ShapeOK
<1>41. CASE SurvivalTimer
  BY <1>41 DEF SurvivalTimer, CrashedOK, IsBlacklisted, CrashPending, Armed,
     Undecided, ShapeOK, Starting, TypeOK
<1>42. CASE MachineCrash
  <2>1. /\ pc' = "off" /\ forge' = IdleForge /\ UNCHANGED <<flag, record, clean>>
        /\ hist'.crashed = hist.crashed \cup CrashedCandidate
    <3>1. hist \in Observed
      BY DEF TypeOK
    <3> QED
      BY <1>42, <3>1 DEF MachineCrash, ProcessGone, Observed
  <2>2. ASSUME NEW p \in hist.crashed
        PROVE  p \in Pairs /\ (IsBlacklisted(record, F2Intent(p))' \/ CrashPending(p)')
    BY <2>1 DEF CrashedOK, IsBlacklisted, CrashPending, Armed, F2Intent, NoAxes
  <2>3. ASSUME NEW p \in CrashedCandidate
        PROVE  p \in Pairs /\ CrashPending(p)'
    <3>1. /\ p = forge.cand /\ forge.step \in {"armed", "dwell", "reset"}
          /\ Armed /\ flag.phase = SUPERVISED_F2_FORGE_PHASE
          /\ record.consecutive_crashes + 1 < SAFE_MODE_CRASH_THRESHOLD
      BY <2>3 DEF CrashedCandidate
    <3>2. p \in Pairs /\ pc \in {"ready", "stopping"}
      BY <3>1 DEF TypeOK, ForgeWorker, Point, ShapeOK
    <3>3. ~ clean
      BY <3>2 DEF BudgetOK, Undecided
    <3>4. flag.intent = F2Intent(p)
      BY <3>1 DEF CrashedOK
    <3> QED
      BY <2>1, <3>1, <3>2, <3>3, <3>4 DEF CrashPending, Armed, F2Intent, NoAxes
  <2> QED
    BY <2>1, <2>2, <2>3 DEF CrashedOK, IdleForge
<1>43. CASE ServiceKilled
  BY <1>43 DEF ServiceKilled, ProcessGone, CrashedOK, IsBlacklisted, CrashPending,
     Armed, Undecided, TypeOK, Observed, IdleForge, ShapeOK, BudgetOK,
     CrashedCandidate
<1>44. CASE DriverResetWhileDown
  BY <1>44 DEF DriverResetWhileDown, CrashedOK, IsBlacklisted, CrashPending, Armed,
     Undecided, TypeOK, Observed
<1>45. CASE StopMark
  BY <1>45 DEF StopMark, ProcessGone, CrashedOK, IsBlacklisted, CrashPending, Armed,
     Undecided, TypeOK, Observed, IdleForge, ShapeOK, BudgetOK, CrashedCandidate
<1>46. CASE UNCHANGED vars
  BY <1>46 DEF vars, CrashedOK, IsBlacklisted, CrashPending, Armed, Undecided
<1> QED
  BY <1>1, <1>2, <1>3, <1>4, <1>5, <1>6, <1>7, <1>8, <1>9, <1>10, <1>11, <1>12, <1>13,
     <1>14, <1>15, <1>16, <1>17, <1>18, <1>19, <1>20, <1>21, <1>22, <1>23, <1>24,
     <1>25, <1>26, <1>27, <1>28, <1>29, <1>30, <1>31, <1>32, <1>33, <1>34, <1>35,
     <1>36, <1>37, <1>38, <1>39, <1>40, <1>41, <1>42, <1>43, <1>44, <1>45, <1>46, <1>47,
     PairsAssumption
     DEF Next, Startup, Applying, Operator, Forge, Environment

(* apply_recovery, candidate_blacklisted: a candidate the machine crashed  *)
(* on is blacklisted by the start that accounts the crash, however often   *)
(* that start is cut, and Forge does not arm it again before a full reset  *)
(* or a clean run.                                                         *)
THEOREM CrashedCandidateStaysOff == Spec => []CrashedCandidateNeverRearmed
<1>1. IInv => TypeOK /\ ShapeOK /\ BudgetOK
  BY DEF IInv
<1>2. CrashedOK => CrashedCandidateNeverRearmed
  BY DEF CrashedOK, CrashedCandidateNeverRearmed
<1> QED
  BY <1>1, <1>2, CrashedInit, CrashedNext, Invariance, PTL DEF Spec

-----------------------------------------------------------------------------
(* Sentinel.  What the service does between two sentinel steps is left     *)
(* open but for two facts: it never moves a thread, and it forgets the     *)
(* episode only at a full reset or with the process.  The claim is         *)
(* therefore shared state that only the layers and the clock change, and   *)
(* the ladder follows from it.                                             *)
(* The second half keeps an account of every driver reset that has to be   *)
(* answered: it waits ahead of the event cursor, with somebody on it, or   *)
(* it is settled.  That needs the domains of all the variables, and the    *)
(* fact that a fallback is a higher bin than the point it replaces.        *)

Handling == RecoverySteps \cup {"decide", "claim"}

(* Two layer records, whatever points they hold.                           *)
LayersOK ==
    /\ layer = [l \in Layers |-> layer[l]]
    /\ \A l \in Layers :
          /\ layer[l] = [step |-> layer[l].step, event |-> layer[l].event, n |-> layer[l].n,
                         pair |-> layer[l].pair, to |-> layer[l].to]
          /\ layer[l].n \in Nat

(* Who recovers holds the claim.                                           *)
ClaimOK == \A l \in Layers : layer[l].step \in RecoverySteps => recent = l

(* The bumps counted are the bumps made; a layer that still has the way to *)
(* its claim open has seen all of them, and so has the one that recovers.  *)
BudgetSeen ==
    /\ bumps \in Nat
    /\ seen = [owed |-> seen.owed, writes |-> bumps]
    /\ bumps <= SENTINEL_MAX_BUMPS_PER_SESSION
    /\ \A l \in Layers :
          /\ layer[l].step \in {"decide", "claim"} => layer[l].n = bumps \/ recent # "none"
          /\ layer[l].step \in RecoverySteps => layer[l].n = bumps
          /\ layer[l].step \in {"claim", "record", "ledger", "reset"} =>
                layer[l].to = Stock \/ layer[l].n < SENTINEL_MAX_BUMPS_PER_SESSION
          /\ layer[l].step \in {"arm", "write", "save"} =>
                layer[l].n < SENTINEL_MAX_BUMPS_PER_SESSION

LadderInv == LayersOK /\ ClaimOK /\ BudgetSeen

(* A service step without a full reset leaves the threads and their claim  *)
(* alone, or ends them all.                                                *)
LEMMA ServiceKeepsLadder ==
    ASSUME "reset_full" \notin OperatorMenu, LadderInv, ServiceStep
    PROVE  LadderInv'
<1>1. ~ EpisodeForgotten
  BY DEF EpisodeForgotten, ResetGpuTuningFull, Request
<1>2. CASE pc' = "off"
  <2>1. /\ layer' = [l \in Layers |-> IdleLayer]
        /\ bumps' = 0 /\ seen' = [owed |-> seen'.owed, writes |-> 0]
    BY <1>2 DEF ServiceStep, Threads
  <2>2. LayersOK' /\ ClaimOK'
    BY <2>1 DEF LayersOK, ClaimOK, IdleLayer, RecoverySteps
  <2>3. BudgetSeen'
    BY <2>1, LadderAssumption DEF BudgetSeen, IdleLayer, RecoverySteps
  <2> QED
    BY <2>2, <2>3 DEF LadderInv
<1>3. CASE pc' # "off"
  <2>1. /\ layer' = layer /\ bumps' = bumps /\ recent' = recent
        /\ seen' = [owed |-> seen'.owed, writes |-> seen.writes]
    BY <1>1, <1>3 DEF ServiceStep, Threads
  <2> QED
    BY <2>1 DEF LadderInv, LayersOK, ClaimOK, BudgetSeen
<1> QED
  BY <1>2, <1>3

-----------------------------------------------------------------------------
(* What a layer keeps when it moves on, and when it is done.               *)

LEMMA GoOn ==
    ASSUME LayersOK, NEW l \in Layers, NEW step, Go(l, step)
    PROVE  /\ LayersOK'
           /\ layer'[l].step = step /\ layer'[l].n = layer[l].n /\ layer'[l].to = layer[l].to
           /\ \A k \in Layers \ {l} : layer'[k] = layer[k]
  BY DEF LayersOK, Go

LEMMA GoDone ==
    ASSUME LayersOK, NEW l \in Layers, layer' = DoneLayer(l)
    PROVE  /\ LayersOK'
           /\ layer'[l].step \in {"commit", "poll"}
           /\ \A k \in Layers \ {l} : layer'[k] = layer[k]
  BY DEF LayersOK, DoneLayer, IdleLayer

(* A step of one layer that stays outside its recovery, or leaves it.      *)
LEMMA Outside ==
    ASSUME LadderInv, NEW l \in Layers,
           LayersOK', \A k \in Layers \ {l} : layer'[k] = layer[k],
           layer'[l].step \notin Handling,
           recent' = recent, bumps' = bumps, seen' = seen
    PROVE  LadderInv'
<1>1. ClaimOK'
  BY DEF LadderInv, ClaimOK, Handling
<1>2. BudgetSeen'
  BY DEF LadderInv, BudgetSeen, Handling, RecoverySteps
<1> QED
  BY <1>1, <1>2 DEF LadderInv

(* A step along the recovery of the layer that holds the claim.            *)
LEMMA Along ==
    ASSUME LadderInv, NEW l \in Layers, NEW step \in RecoverySteps, Go(l, step),
           layer[l].step \in RecoverySteps,
           step \in {"arm", "write", "save"} =>
                \/ layer[l].step \in {"arm", "write", "save"}
                \/ layer[l].step = "reset" /\ layer[l].to # Stock,
           recent' = recent, bumps' = bumps, seen' = seen
    PROVE  LadderInv'
<1>1. /\ LayersOK'
      /\ layer'[l].step = step /\ layer'[l].n = layer[l].n /\ layer'[l].to = layer[l].to
      /\ \A k \in Layers \ {l} : layer'[k] = layer[k]
  BY GoOn DEF LadderInv
<1>2. ClaimOK'
  BY <1>1 DEF LadderInv, ClaimOK
<1>3. layer[l].n = bumps
  BY DEF LadderInv, BudgetSeen
<1>4. /\ step \in {"record", "ledger", "reset"} =>
            layer[l].to = Stock \/ layer[l].n < SENTINEL_MAX_BUMPS_PER_SESSION
      /\ step \in {"arm", "write", "save"} => layer[l].n < SENTINEL_MAX_BUMPS_PER_SESSION
  BY DEF LadderInv, BudgetSeen, RecoverySteps
<1>5. BudgetSeen'
  BY <1>1, <1>3, <1>4 DEF LadderInv, BudgetSeen, RecoverySteps
<1> QED
  BY <1>1, <1>2, <1>5 DEF LadderInv

-----------------------------------------------------------------------------
(* handle_failure keeps the ladder.                                        *)

LEMMA DecideKeepsLadder ==
    ASSUME LadderInv, NEW l \in Layers, Decide(l)
    PROVE  LadderInv'
<1>1. /\ recent' = recent /\ bumps' = bumps /\ seen' = seen
  BY DEF Decide
<1>2. CASE recent = "none" /\ Undervolted /\ ~ Armed
  <2>1. layer' = [layer EXCEPT ![l] =
                    [@ EXCEPT !.step = "claim", !.pair = applied.pair, !.to = FallbackPoint(l)]]
    BY <1>2 DEF Decide
  <2>2. /\ LayersOK'
        /\ layer'[l].step = "claim" /\ layer'[l].n = layer[l].n
        /\ layer'[l].to = FallbackPoint(l)
        /\ \A k \in Layers \ {l} : layer'[k] = layer[k]
    <3> DEFINE moved == [step |-> "claim", event |-> layer[l].event, n |-> layer[l].n,
                         pair |-> applied.pair, to |-> FallbackPoint(l)]
    <3>1. LayersOK
      BY DEF LadderInv
    <3>2. layer[l] = [step |-> layer[l].step, event |-> layer[l].event, n |-> layer[l].n,
                      pair |-> layer[l].pair, to |-> layer[l].to]
      BY <3>1 DEF LayersOK
    <3>3. layer'[l] = moved
      BY <2>1, <3>1, <3>2 DEF LayersOK
    <3>4. layer' = [layer EXCEPT ![l] = layer'[l]]
      BY <2>1, <3>1 DEF LayersOK
    <3>5. layer'[l] = moved /\ \A k \in Layers \ {l} : layer'[k] = layer[k]
      BY <3>1, <3>3, <3>4 DEF LayersOK
    <3>6. LayersOK'
      BY <3>1, <3>4, <3>5 DEF LayersOK
    <3> QED
      BY <3>5, <3>6
  <2>3. FallbackPoint(l) = Stock \/ layer[l].n < SENTINEL_MAX_BUMPS_PER_SESSION
    BY LadderAssumption DEF FallbackPoint, LadderInv, LayersOK
  <2>4. layer[l].n = bumps \/ recent # "none"
    BY DEF Decide, LadderInv, BudgetSeen
  <2>5. ClaimOK'
    BY <1>1, <2>2 DEF LadderInv, ClaimOK, RecoverySteps
  <2>6. BudgetSeen'
    BY <1>1, <2>2, <2>3, <2>4 DEF LadderInv, BudgetSeen, RecoverySteps
  <2> QED
    BY <2>2, <2>5, <2>6 DEF LadderInv
<1>3. CASE ~ (recent = "none" /\ Undervolted /\ ~ Armed)
  <2>1. layer' = DoneLayer(l)
    BY <1>3 DEF Decide
  <2> QED
    BY <1>1, <2>1, GoDone, Outside DEF LadderInv, Handling, RecoverySteps
<1> QED
  BY <1>2, <1>3

LEMMA ClaimKeepsLadder ==
    ASSUME LadderInv, NEW l \in Layers, Claim(l)
    PROVE  LadderInv'
<1>1. bumps' = bumps
  BY DEF Claim
<1>2. seen' = [owed |-> seen'.owed, writes |-> bumps]
  BY DEF Claim, LadderInv, BudgetSeen
<1>3. CASE recent = "none"
  <2>1. recent' = l /\ Go(l, "record")
    BY <1>3 DEF Claim
  <2>2. /\ LayersOK'
        /\ layer'[l].step = "record" /\ layer'[l].n = layer[l].n /\ layer'[l].to = layer[l].to
        /\ \A k \in Layers \ {l} : layer'[k] = layer[k]
    BY <2>1, GoOn DEF LadderInv
  <2>3. /\ layer[l].n = bumps
        /\ layer[l].to = Stock \/ layer[l].n < SENTINEL_MAX_BUMPS_PER_SESSION
    BY <1>3 DEF Claim, LadderInv, BudgetSeen
  <2>4. \A k \in Layers : layer[k].step \notin RecoverySteps
    BY <1>3 DEF LadderInv, ClaimOK, Layers
  <2>5. ClaimOK'
    BY <2>1, <2>2, <2>4 DEF ClaimOK
  <2>6. recent' # "none"
    BY <2>1 DEF Layers
  <2>7. BudgetSeen'
    BY <1>1, <1>2, <2>2, <2>3, <2>6 DEF LadderInv, BudgetSeen, RecoverySteps
  <2> QED
    BY <2>2, <2>5, <2>7 DEF LadderInv
<1>4. CASE recent # "none"
  <2>1. layer' = DoneLayer(l) /\ recent' = recent /\ seen' = seen
    BY <1>4 DEF Claim
  <2> QED
    BY <1>1, <2>1, GoDone, Outside DEF LadderInv, Handling, RecoverySteps
<1> QED
  BY <1>3, <1>4

(* The steps between the claim and the save.                               *)
LEMMA RecoveryKeepsLadder ==
    ASSUME LadderInv, NEW l \in Layers,
           \/ PersistRecord(l) \/ PersistLedger(l) \/ ResetToStock(l)
           \/ FallbackArm(l) \/ FallbackWrite(l)
    PROVE  LadderInv'
<1>1. recent' = recent /\ bumps' = bumps /\ seen' = seen
  BY DEF PersistRecord, PersistLedger, ResetToStock, FallbackArm, FallbackWrite
<1>2. CASE layer' = DoneLayer(l)
  BY <1>1, <1>2, GoDone, Outside DEF LadderInv, Handling, RecoverySteps
<1>3. CASE PersistRecord(l)
  BY <1>1, <1>3, Along DEF PersistRecord, RecoverySteps
<1>4. CASE PersistLedger(l)
  BY <1>1, <1>4, Along DEF PersistLedger, RecoverySteps
<1>5. CASE ResetToStock(l)
  BY <1>1, <1>2, <1>5, Along DEF ResetToStock, Go, RecoverySteps
<1>6. CASE FallbackArm(l)
  BY <1>1, <1>6, Along DEF FallbackArm, RecoverySteps
<1>7. CASE FallbackWrite(l)
  BY <1>1, <1>2, <1>7, Along DEF FallbackWrite, RecoverySteps
<1> QED
  BY <1>3, <1>4, <1>5, <1>6, <1>7

(* Another layer in its recovery would have to hold the claim as well.     *)
LEMMA SaveKeepsLadder ==
    ASSUME LadderInv, NEW l \in Layers, FallbackSave(l)
    PROVE  LadderInv'
<1>1. /\ layer[l].step = "save" /\ layer' = DoneLayer(l)
      /\ bumps' = bumps + 1 /\ recent' = recent
      /\ seen' = [seen EXCEPT !.writes = @ + 1]
  BY DEF FallbackSave
<1>2. /\ LayersOK' /\ layer'[l].step \in {"commit", "poll"}
      /\ \A k \in Layers \ {l} : layer'[k] = layer[k]
  BY <1>1, GoDone DEF LadderInv
<1>3. recent = l /\ layer[l].n = bumps /\ layer[l].n < SENTINEL_MAX_BUMPS_PER_SESSION
  BY <1>1 DEF LadderInv, ClaimOK, BudgetSeen, RecoverySteps
<1>4. \A k \in Layers \ {l} : layer[k].step \notin RecoverySteps
  BY <1>3 DEF LadderInv, ClaimOK
<1>5. recent # "none"
  BY <1>3 DEF Layers
<1>6. ClaimOK'
  BY <1>1, <1>2, <1>4 DEF ClaimOK, RecoverySteps
<1>7. seen' = [owed |-> seen'.owed, writes |-> bumps']
  BY <1>1 DEF LadderInv, BudgetSeen
<1>8. BudgetSeen'
  BY <1>1, <1>2, <1>3, <1>4, <1>5, <1>7, LadderAssumption
     DEF LadderInv, BudgetSeen, RecoverySteps
<1> QED
  BY <1>2, <1>6, <1>8 DEF LadderInv

-----------------------------------------------------------------------------
(* So do the steps around it.                                              *)

LEMMA EpisodeOverKeepsLadder ==
    ASSUME LadderInv, EpisodeOver
    PROVE  LadderInv'
  BY DEF LadderInv, LayersOK, ClaimOK, BudgetSeen, EpisodeOver, RecoverySteps

LEMMA DriverResetKeepsLadder ==
    ASSUME LadderInv, DriverReset
    PROVE  LadderInv'
<1>1. layer' = layer /\ bumps' = bumps /\ recent' = recent
  BY DEF DriverReset
<1>2. seen' = [owed |-> seen'.owed, writes |-> bumps]
  BY DEF DriverReset, LadderInv, BudgetSeen
<1> QED
  BY <1>1, <1>2 DEF LadderInv, LayersOK, ClaimOK, BudgetSeen

(* A failure is taken up with the budget as it stands.                     *)
LEMMA TakenUp ==
    ASSUME LadderInv, NEW l \in Layers,
           layer' = [layer EXCEPT ![l] = [@ EXCEPT !.step = "decide", !.n = bumps]],
           recent' = recent, bumps' = bumps, seen' = seen
    PROVE  LadderInv'
<1>1. LayersOK /\ bumps \in Nat
  BY DEF LadderInv, BudgetSeen
<1>2. layer'[l] = [step |-> "decide", event |-> layer[l].event, n |-> bumps,
                   pair |-> layer[l].pair, to |-> layer[l].to]
  <2>1. layer[l] = [step |-> layer[l].step, event |-> layer[l].event, n |-> layer[l].n,
                    pair |-> layer[l].pair, to |-> layer[l].to]
    BY <1>1 DEF LayersOK
  <2>2. layer'[l] = [layer[l] EXCEPT !.step = "decide", !.n = bumps]
    BY <1>1 DEF LayersOK
  <2> QED
    BY <2>1, <2>2
<1>3. \A k \in Layers \ {l} : layer'[k] = layer[k]
  BY <1>1 DEF LayersOK
<1>4. layer' = [k \in Layers |-> layer'[k]]
  BY <1>1 DEF LayersOK
<1>5. LayersOK'
  BY <1>1, <1>2, <1>3, <1>4 DEF LayersOK
<1>6. ClaimOK'
  BY <1>2, <1>3 DEF LadderInv, ClaimOK, RecoverySteps
<1>7. BudgetSeen'
  BY <1>2, <1>3 DEF LadderInv, BudgetSeen, RecoverySteps
<1> QED
  BY <1>5, <1>6, <1>7 DEF LadderInv

(* The watcher's own steps: the layer is rewritten outside a recovery.     *)
LEMMA WatcherMoves ==
    ASSUME LadderInv, NEW step, step \notin Handling, NEW event, NEW pair,
           \/ layer' = [layer EXCEPT !["watcher"] = [@ EXCEPT !.step = step, !.event = event]]
           \/ layer' = [layer EXCEPT !["watcher"] = [@ EXCEPT !.step = step, !.pair = pair]]
           \/ layer' = [layer EXCEPT !["watcher"] = [IdleLayer EXCEPT !.step = step]],
           recent' = recent, bumps' = bumps, seen' = seen
    PROVE  LadderInv'
<1>1. LayersOK /\ "watcher" \in Layers
  BY DEF LadderInv, Layers
<1>2. /\ layer'["watcher"] = [step |-> step, event |-> layer'["watcher"].event,
                              n |-> layer'["watcher"].n, pair |-> layer'["watcher"].pair,
                              to |-> layer'["watcher"].to]
      /\ layer'["watcher"].n \in Nat
  <2> DEFINE w == layer["watcher"]
  <2>1. /\ w = [step |-> w.step, event |-> w.event, n |-> w.n, pair |-> w.pair, to |-> w.to]
        /\ w.n \in Nat
    BY <1>1 DEF LayersOK
  <2>2. \/ layer'["watcher"] = [w EXCEPT !.step = step, !.event = event]
        \/ layer'["watcher"] = [w EXCEPT !.step = step, !.pair = pair]
        \/ layer'["watcher"] = [IdleLayer EXCEPT !.step = step]
    BY <1>1 DEF LayersOK
  <2>3. CASE layer'["watcher"] = [w EXCEPT !.step = step, !.event = event]
    BY <2>1, <2>3
  <2>4. CASE layer'["watcher"] = [w EXCEPT !.step = step, !.pair = pair]
    BY <2>1, <2>4
  <2>5. CASE layer'["watcher"] = [IdleLayer EXCEPT !.step = step]
    BY <2>5 DEF IdleLayer
  <2> QED
    BY <2>2, <2>3, <2>4, <2>5
<1>3. \A k \in Layers \ {"watcher"} : layer'[k] = layer[k]
  BY <1>1 DEF LayersOK
<1>4. layer' = [k \in Layers |-> layer'[k]]
  BY <1>1 DEF LayersOK
<1>5. LayersOK'
  BY <1>1, <1>2, <1>3, <1>4 DEF LayersOK
<1> QED
  BY <1>1, <1>2, <1>3, <1>5, Outside

LEMMA WatchKeepsLadder ==
    ASSUME LadderInv, Watch
    PROVE  LadderInv'
<1> USE DEF Handling, RecoverySteps
<1>1. CASE WatcherPoll
  BY <1>1, WatcherMoves DEF WatcherPoll
<1>2. CASE WatcherHandles
  BY <1>2, TakenUp DEF WatcherHandles, Layers
<1>3. CASE WatcherHandsOff
  BY <1>3, WatcherMoves DEF WatcherHandsOff
<1>4. CASE WatcherHandoffRecord
  BY <1>4, WatcherMoves DEF WatcherHandoffRecord
<1>5. CASE WatcherCommit
  BY <1>5, WatcherMoves DEF WatcherCommit
<1>6. CASE WatcherCooldown
  <2>1. layer' = [layer EXCEPT !["watcher"] = [IdleLayer EXCEPT !.step = "poll"]]
    BY <1>6 DEF WatcherCooldown, IdleLayer
  <2> QED
    BY <1>6, <2>1, WatcherMoves DEF WatcherCooldown
<1>7. CASE CanaryStarts
  BY <1>7, GoOn, Outside DEF CanaryStarts, Layers, LadderInv
<1>8. CASE CanaryVerdict
  <2>1. CASE Go("canary", "poll")
    BY <1>8, <2>1, GoOn, Outside DEF CanaryVerdict, Layers, LadderInv
  <2>2. CASE layer' = [layer EXCEPT !["canary"] = [@ EXCEPT !.step = "decide", !.n = bumps]]
    BY <1>8, <2>2, TakenUp DEF CanaryVerdict, Layers
  <2> QED
    BY <1>8, <2>1, <2>2 DEF CanaryVerdict
<1> QED
  BY <1>1, <1>2, <1>3, <1>4, <1>5, <1>6, <1>7, <1>8 DEF Watch

-----------------------------------------------------------------------------
(* The ladder invariant of the specification, as long as the operator does *)
(* not ask for the full reset: reset_sentinel_state forgets the claim of a *)
(* recovery under way.                                                     *)
THEOREM LadderInvariance ==
    ASSUME "reset_full" \notin OperatorMenu
    PROVE  SSpec => []LadderInv
<1>1. SInit => LadderInv
  BY LadderAssumption
     DEF SInit, LadderInv, LayersOK, ClaimOK, BudgetSeen, IdleLayer, Unowed, RecoverySteps
<1>2. LadderInv /\ [SNext]_svars => LadderInv'
  <2> SUFFICES ASSUME LadderInv, [SNext]_svars PROVE LadderInv'
    OBVIOUS
  <2>1. CASE ServiceStep
    BY <2>1, ServiceKeepsLadder
  <2>2. CASE DriverReset
    BY <2>2, DriverResetKeepsLadder
  <2>3. CASE EpisodeOver
    BY <2>3, EpisodeOverKeepsLadder
  <2>4. CASE Watch
    BY <2>4, WatchKeepsLadder
  <2>5. ASSUME NEW l \in Layers, Recover(l) PROVE LadderInv'
    BY <2>5, DecideKeepsLadder, ClaimKeepsLadder, RecoveryKeepsLadder, SaveKeepsLadder
       DEF Recover
  <2>6. CASE UNCHANGED svars
    BY <2>6 DEF svars, sentinelVars, LadderInv, LayersOK, ClaimOK, BudgetSeen
  <2> QED
    BY <2>1, <2>2, <2>3, <2>4, <2>5, <2>6 DEF SNext
<1> QED
  BY <1>1, <1>2, PTL DEF SSpec

(* The watcher and the canary never recover the GPU together               *)
(* (claim_action_epoch), without a full reset in between.                  *)
THEOREM RecoveryIsExclusive ==
    ASSUME "reset_full" \notin OperatorMenu
    PROVE  SSpec => []OneRecoveryOwner
<1>1. LadderInv => OneRecoveryOwner
  BY DEF LadderInv, ClaimOK, OneRecoveryOwner, Layers
<1> QED
  BY <1>1, LadderInvariance, PTL

(* Whatever fails and whatever is applied, the sentinel rewrites the       *)
(* profile at most SENTINEL_MAX_BUMPS_PER_SESSION times per session.       *)
THEOREM LadderIsBounded ==
    ASSUME "reset_full" \notin OperatorMenu
    PROVE  SSpec => []LadderEnds
<1>1. LadderInv => LadderEnds
  BY DEF LadderInv, BudgetSeen, LadderEnds
<1> QED
  BY <1>1, LadderInvariance, PTL

-----------------------------------------------------------------------------
(* The fallback is a higher bin of the same clock.                         *)

(* q has the clock of p and a higher voltage bin.                          *)
Above(p, q) == q.mhz = p.mhz /\ q.mv > p.mv

(* The bins above a point are ranked 1, 2, ... without a gap, so that the  *)
(* n-th of them, or the highest, exists (bins_above_anchor,                *)
(* sentinel_decide).                                                       *)
LEMMA BinAboveExists ==
    ASSUME NEW p \in Pairs, NEW n \in Nat \ {0}
    PROVE  BinAbove(p, n) = Stock \/ (BinAbove(p, n) \in Pairs /\ Above(p, BinAbove(p, n)))
<1> DEFINE above == {q \in Pairs : q.mhz = p.mhz /\ q.mv > p.mv}
           upTo(q) == {r \in above : r.mv <= q.mv}
           count == Cardinality(above)
           rank == [q \in above |-> Cardinality(upTo(q))]
<1>1. IsFiniteSet(above) /\ count \in Nat
  BY PlaneAssumption, FS_Subset, FS_CardinalityType
<1>2. CASE above = {}
  BY <1>2 DEF BinAbove
<1>3. CASE above # {}
  <2>1. count >= 1
    BY <1>1, <1>3, FS_EmptySet
  <2>2. ASSUME NEW q \in above
        PROVE  /\ IsFiniteSet(upTo(q)) /\ q \in upTo(q)
               /\ Cardinality(upTo(q)) \in 1 .. count
    <3>1. q.mv \in Nat
      BY PairsAssumption
    <3>2. q \in upTo(q) /\ upTo(q) \in SUBSET above
      BY <3>1
    <3> HIDE DEF upTo, above
    <3>3. IsFiniteSet(upTo(q)) /\ Cardinality(upTo(q)) <= count /\ Cardinality(upTo(q)) \in Nat
      BY <1>1, <3>2, FS_Subset, FS_CardinalityType
    <3>4. Cardinality(upTo(q)) # 0
      BY <3>2, <3>3, FS_EmptySet
    <3> QED
      BY <1>1, <3>2, <3>3, <3>4
  <2>3. ASSUME NEW q \in above, NEW r \in above, q.mv < r.mv
        PROVE  rank[q] # rank[r]
    <3>1. q.mv \in Nat /\ r.mv \in Nat
      BY PairsAssumption
    <3>2. upTo(q) \in SUBSET upTo(r) /\ r \notin upTo(q) /\ r \in upTo(r)
      <4>1. \A s \in above : s.mv \in Nat
        BY PairsAssumption
      <4> QED
        BY <2>3, <3>1, <4>1
    <3>3. IsFiniteSet(upTo(r))
      BY <2>2
    <3>4. Cardinality(upTo(q)) # Cardinality(upTo(r))
      <4> HIDE DEF upTo
      <4> QED
        BY <3>2, <3>3, FS_Subset
    <3> QED
      BY <3>4
  <2>4. \A q, r \in above : rank[q] = rank[r] => q = r
    <3> SUFFICES ASSUME NEW q \in above, NEW r \in above, q # r PROVE rank[q] # rank[r]
      OBVIOUS
    <3>1. q.mv \in Nat /\ r.mv \in Nat /\ q.mv # r.mv
      BY PairsAssumption, BinsAssumption
    <3> QED
      BY <2>3, <3>1
  <2>5. rank \in [above -> 1 .. count]
    BY <2>2
  <2>6. rank \in Injection(above, 1 .. count)
    <3> HIDE DEF rank, above
    <3> QED
      BY <2>4, <2>5 DEF Injection, IsInjective
  <2>7. IsFiniteSet(1 .. count) /\ Cardinality(1 .. count) = count
    <3> HIDE DEF above
    <3> QED
      BY <1>1, <2>1, FS_Interval
  <2>8. rank \in Surjection(above, 1 .. count)
    <3> HIDE DEF rank, above
    <3> QED
      BY <2>6, <2>7, FS_Injection
  <2>9. Min({n, count}) \in 1 .. count
    <3> HIDE DEF count
    <3>1. {n, count} \in SUBSET Nat /\ {n, count} # {}
      BY <1>1
    <3>2. Min({n, count}) \in {n, count} /\ Min({n, count}) <= count
      BY <3>1, MinMember
    <3> QED
      BY <1>1, <2>1, <3>2
  <2>10. \E q \in above : rank[q] = Min({n, count})
    <3> HIDE DEF rank, above
    <3> QED
      BY <2>8, <2>9 DEF Surjection
  <2>11. BinAbove(p, n) = CHOOSE q \in above : Cardinality(upTo(q)) = Min({n, count})
    BY <1>3 DEF BinAbove
  <2>12. BinAbove(p, n) \in above
    <3>1. \E q \in above : Cardinality(upTo(q)) = Min({n, count})
      BY <2>10
    <3> HIDE DEF upTo, above, count
    <3> QED
      BY <2>11, <3>1
  <2> QED
    BY <2>12 DEF Above
<1> QED
  BY <1>2, <1>3

-----------------------------------------------------------------------------
(* The domains of the sentinel's variables, and what the layers hold.      *)

(* The steps after handle_failure has chosen the fallback.                 *)
Deciding == {"claim"} \cup RecoverySteps

(* A layer past its decision holds the undervolt it recovers and a higher  *)
(* bin of its clock, or none when the ladder is exhausted.                 *)
HoldsPoints(r) ==
    /\ r.step \in {"claim", "record", "ledger"} => r.pair # Stock
    /\ r.step \in {"arm", "write", "save"} => r.to # Stock
    /\ r.step \in Deciding => r.to = Stock \/ Above(r.pair, r.to)
    /\ r.step \notin Deciding => r.to = Stock

(* Every variable of the service and of the two threads is in its domain.  *)
SentinelShape ==
    /\ STypeOK /\ ShapeOK /\ SafeModeIffThreshold
    /\ \A l \in Layers : HoldsPoints(layer[l])

(* One layer's record is rewritten.                                        *)
LEMMA LayerWritten ==
    ASSUME layer \in [Layers -> SentinelLayer], \A l \in Layers : HoldsPoints(layer[l]),
           NEW l \in Layers, NEW r \in SentinelLayer, HoldsPoints(r),
           layer' = [layer EXCEPT ![l] = r]
    PROVE  /\ layer' \in [Layers -> SentinelLayer] /\ \A k \in Layers : HoldsPoints(layer'[k])
           /\ layer'[l] = r /\ \A k \in Layers \ {l} : layer'[k] = layer[k]
<1>1. layer'[l] = r /\ \A k \in Layers \ {l} : layer'[k] = layer[k]
  OBVIOUS
<1>2. layer' \in [Layers -> SentinelLayer]
  OBVIOUS
<1>3. \A k \in Layers : HoldsPoints(layer'[k])
  BY <1>1, Zenon
<1> QED
  BY <1>1, <1>2, <1>3

(* The other fields stay.                                                  *)
LEMMA Moved ==
    ASSUME layer \in [Layers -> SentinelLayer], \A l \in Layers : HoldsPoints(layer[l]),
           NEW l \in Layers, NEW step, Go(l, step),
           \/ layer[l].step = "claim" /\ step = "record"
           \/ layer[l].step = "record" /\ step = "ledger"
           \/ layer[l].step = "ledger" /\ step = "reset"
           \/ layer[l].step = "reset" /\ step = "arm" /\ layer[l].to # Stock
           \/ layer[l].step = "arm" /\ step = "write"
           \/ layer[l].step = "write" /\ step = "save"
           \/ layer[l].step = "poll" /\ step = "check"
           \/ layer[l].step = "check" /\ step = "poll"
    PROVE  /\ layer' \in [Layers -> SentinelLayer] /\ \A k \in Layers : HoldsPoints(layer'[k])
           /\ layer'[l].step = step /\ layer'[l].event = layer[l].event
           /\ layer'[l].pair = layer[l].pair /\ layer'[l].to = layer[l].to
           /\ \A k \in Layers \ {l} : layer'[k] = layer[k]
<1>1. PICK w \in SentinelLayer : w = layer[l]
  OBVIOUS
<1>2. HoldsPoints(w)
  BY <1>1
<1>3. PICK r : r = [w EXCEPT !.step = step]
  OBVIOUS
<1>4. step \in {"record", "ledger", "reset", "arm", "write", "save", "check", "poll"}
  OBVIOUS
<1>5. /\ r \in SentinelLayer /\ r.step = step
      /\ r.event = w.event /\ r.pair = w.pair /\ r.to = w.to
  BY <1>3, <1>4 DEF SentinelLayer, RecoverySteps
<1>6. HoldsPoints(r)
  BY <1>1, <1>2, <1>5 DEF HoldsPoints, Deciding, RecoverySteps
<1>7. layer' = [layer EXCEPT ![l] = r]
  BY <1>1, <1>3 DEF Go
<1>8. /\ layer' \in [Layers -> SentinelLayer] /\ \A k \in Layers : HoldsPoints(layer'[k])
      /\ layer'[l] = r /\ \A k \in Layers \ {l} : layer'[k] = layer[k]
  BY <1>5, <1>6, <1>7, LayerWritten
<1> QED
  BY <1>1, <1>5, <1>8

(* A layer that is done holds nothing but the event.                       *)
LEMMA Finished ==
    ASSUME layer \in [Layers -> SentinelLayer], \A l \in Layers : HoldsPoints(layer[l]),
           NEW l \in Layers, layer' = DoneLayer(l)
    PROVE  /\ layer' \in [Layers -> SentinelLayer] /\ \A k \in Layers : HoldsPoints(layer'[k])
           /\ layer'[l].step = IF l = "watcher" THEN "commit" ELSE "poll"
           /\ layer'[l].event = layer[l].event /\ layer'[l].to = Stock
           /\ \A k \in Layers \ {l} : layer'[k] = layer[k]
<1>1. PICK e \in Nat : e = layer[l].event
  BY DEF SentinelLayer
<1>2. PICK step : step = IF l = "watcher" THEN "commit" ELSE "poll"
  OBVIOUS
<1>3. PICK r : r = [IdleLayer EXCEPT !.step = step, !.event = e]
  OBVIOUS
<1>4. r = [step |-> step, event |-> e, n |-> 0, pair |-> Stock, to |-> Stock]
  BY <1>3 DEF IdleLayer
<1>5. step \in {"commit", "poll"}
  BY <1>2
<1>6. r \in SentinelLayer /\ HoldsPoints(r)
  BY <1>4, <1>5 DEF SentinelLayer, HoldsPoints, Deciding, RecoverySteps, Point
<1>7. layer' = [layer EXCEPT ![l] = r]
  BY <1>1, <1>2, <1>3 DEF DoneLayer
<1>8. /\ layer' \in [Layers -> SentinelLayer] /\ \A k \in Layers : HoldsPoints(layer'[k])
      /\ layer'[l] = r /\ \A k \in Layers \ {l} : layer'[k] = layer[k]
  BY <1>6, <1>7, LayerWritten
<1> QED
  BY <1>1, <1>2, <1>4, <1>8

(* The undervolt on disk is a point of this card.                          *)
LEMMA UndervoltPoint ==
    ASSUME TypeOK, ShapeOK, Undervolted
    PROVE  applied.pair \in Pairs
  BY DEF TypeOK, ShapeOK, Undervolted, AppliedProfile

(* handle_failure decides: the layer holds the applied undervolt and a     *)
(* higher bin.                                                             *)
LEMMA Decided ==
    ASSUME TypeOK, ShapeOK, Undervolted,
           layer \in [Layers -> SentinelLayer], \A l \in Layers : HoldsPoints(layer[l]),
           NEW l \in Layers, layer[l].step = "decide",
           layer' = [layer EXCEPT ![l] =
                        [@ EXCEPT !.step = "claim", !.pair = applied.pair, !.to = FallbackPoint(l)]]
    PROVE  /\ layer' \in [Layers -> SentinelLayer] /\ \A k \in Layers : HoldsPoints(layer'[k])
           /\ layer'[l].step = "claim" /\ layer'[l].event = layer[l].event
           /\ layer'[l].pair = applied.pair
           /\ layer'[l].to = Stock \/ Above(applied.pair, layer'[l].to)
           /\ \A k \in Layers \ {l} : layer'[k] = layer[k]
<1>1. PICK w \in SentinelLayer : w = layer[l]
  OBVIOUS
<1>2. PICK p \in Pairs : p = applied.pair
  BY UndervoltPoint
<1>3. BumpBins(l) \in Nat \ {0}
  BY LadderAssumption DEF BumpBins
<1>4. FallbackPoint(l) = Stock \/ (FallbackPoint(l) \in Pairs /\ Above(p, FallbackPoint(l)))
  <2>1. \/ BinAbove(p, BumpBins(l)) = Stock
        \/ BinAbove(p, BumpBins(l)) \in Pairs /\ Above(p, BinAbove(p, BumpBins(l)))
    BY <1>3, BinAboveExists
  <2> QED
    BY <1>2, <2>1 DEF FallbackPoint
<1>5. PICK q \in Point : q = FallbackPoint(l) /\ (q = Stock \/ Above(p, q))
  BY <1>4 DEF Point
<1>6. PICK r : r = [w EXCEPT !.step = "claim", !.pair = p, !.to = q]
  OBVIOUS
<1>7. /\ r \in SentinelLayer
      /\ r.step = "claim" /\ r.event = w.event /\ r.pair = p /\ r.to = q
  BY <1>6 DEF SentinelLayer, Point
<1>8. HoldsPoints(r)
  BY <1>5, <1>7, PairsAssumption DEF HoldsPoints, Deciding, RecoverySteps
<1>9. layer' = [layer EXCEPT ![l] = r]
  BY <1>1, <1>2, <1>5, <1>6
<1>10. /\ layer' \in [Layers -> SentinelLayer] /\ \A k \in Layers : HoldsPoints(layer'[k])
       /\ layer'[l] = r /\ \A k \in Layers \ {l} : layer'[k] = layer[k]
  BY <1>7, <1>8, <1>9, LayerWritten
<1> QED
  BY <1>1, <1>2, <1>5, <1>7, <1>10

(* The service's share of it.                                              *)
Service == TypeOK /\ ShapeOK /\ SafeModeIffThreshold

(* A thread of a running service changes the service's state: what is left *)
(* to show.                                                                *)
LEMMA ServiceFrame ==
    ASSUME Service, Alive,
           UNCHANGED <<clean, checkpoint, pc, job, manual, prog>>,
           flag' \in BootFlag \cup {NoFlag}, record' \in SafeLoopRecord,
           record'.safe_mode <=> record'.consecutive_crashes >= SAFE_MODE_CRASH_THRESHOLD,
           applied' \in AppliedProfile \cup {NoProfile},
           applied' # NoProfile /\ applied'.kind = "F2" => applied'.pair # Stock,
           ledger' \subseteq Nat \X Nat, baseline' \in Nat \cup {NoBaseline},
           log' \in EventLog, hw' \in Gpu, latch' \in BOOLEAN, timers' \in Nat,
           forge' \in ForgeWorker, forge'.step = forge.step, forge'.cand = forge.cand,
           hist' \in Observed, used' \in [faults : Nat, ops : Nat, runs : Nat]
    PROVE  Service'
<1>1. TypeOK'
  BY DEF Service, TypeOK
<1>2. pc \in {"ready", "stopping"}
  BY DEF Alive
<1>3. ShapeOK'
  BY <1>2 DEF Service, ShapeOK, Starting, Undecided
<1>4. SafeModeIffThreshold'
  BY DEF SafeModeIffThreshold
<1> QED
  BY <1>1, <1>3, <1>4 DEF Service

(* The record of a field failure, of a reset and of a handoff.             *)
LEMMA RecordsKept ==
    ASSUME Service
    PROVE  /\ \A p \in Pairs : LET r == [record EXCEPT !.blacklist = @ \cup {FieldIntent(p)}]
                               IN  /\ r \in SafeLoopRecord
                                   /\ r.safe_mode <=>
                                        r.consecutive_crashes >= SAFE_MODE_CRASH_THRESHOLD
           /\ LET r == ClearRecoveryLatch(record)
              IN  /\ r \in SafeLoopRecord
                  /\ r.safe_mode <=> r.consecutive_crashes >= SAFE_MODE_CRASH_THRESHOLD
<1>1. ASSUME NEW p \in Pairs
      PROVE  LET r == [record EXCEPT !.blacklist = @ \cup {FieldIntent(p)}]
             IN  /\ r \in SafeLoopRecord
                 /\ r.safe_mode <=> r.consecutive_crashes >= SAFE_MODE_CRASH_THRESHOLD
  <2>1. FieldIntent(p) \in TuningPoint
    BY IntentType
  <2> QED
    BY <2>1 DEF Service, TypeOK, SafeModeIffThreshold, SafeLoopRecord
<1>2. LET r == ClearRecoveryLatch(record)
      IN  /\ r \in SafeLoopRecord
          /\ r.safe_mode <=> r.consecutive_crashes >= SAFE_MODE_CRASH_THRESHOLD
  <2>1. PICK r : r = ClearRecoveryLatch(record)
    OBVIOUS
  <2>2. r \in SafeLoopRecord /\ r.consecutive_crashes = 0 /\ r.safe_mode = FALSE
    BY <2>1, ClearType DEF Service, TypeOK
  <2>3. ~ (r.consecutive_crashes >= SAFE_MODE_CRASH_THRESHOLD)
    BY <2>2, ThresholdAssumption
  <2> QED
    BY <2>1, <2>2, <2>3, Zenon
<1> QED
  BY <1>1, <1>2

(* handle_failure, step by step.                                           *)
LEMMA RecoverKeepsService ==
    ASSUME SentinelShape, NEW l \in Layers, Recover(l)
    PROVE  Service'
<1>1. Service /\ TypeOK /\ layer[l] \in SentinelLayer /\ HoldsPoints(layer[l])
  BY DEF SentinelShape, STypeOK, Service
<1>2. CASE Decide(l) \/ Claim(l)
  <2>1. UNCHANGED vars
    BY <1>2 DEF Decide, Claim
  <2> QED
    BY <1>1, <2>1 DEF Service, TypeOK, ShapeOK, SafeModeIffThreshold, vars, Starting, Armed
<1>3. CASE PersistRecord(l)
  <2>1. layer[l].pair \in Pairs
    BY <1>1, <1>3 DEF PersistRecord, HoldsPoints, SentinelLayer, Point
  <2>2. /\ record' \in SafeLoopRecord
        /\ record'.safe_mode <=> record'.consecutive_crashes >= SAFE_MODE_CRASH_THRESHOLD
    BY <1>1, <1>3, <2>1, RecordsKept DEF PersistRecord
  <2>3. Alive /\ UNCHANGED <<flag, clean, applied, checkpoint, ledger, baseline, log, hw,
                             pc, latch, job, timers, manual, prog, forge, hist, used>>
    BY <1>3 DEF PersistRecord
  <2> QED
    BY <1>1, <2>2, <2>3, ServiceFrame DEF TypeOK, Service, ShapeOK
<1>4. CASE PersistLedger(l)
  <2>1. layer[l].pair \in Pairs
    BY <1>1, <1>4 DEF PersistLedger, HoldsPoints, SentinelLayer, Point
  <2>2. ledger' \subseteq Nat \X Nat
    BY <1>1, <1>4, <2>1, IntentType DEF PersistLedger, TypeOK
  <2>3. Alive /\ UNCHANGED <<flag, record, clean, applied, checkpoint, baseline, log, hw,
                             pc, latch, job, timers, manual, prog, forge, hist, used>>
    BY <1>4 DEF PersistLedger
  <2> QED
    BY <1>1, <2>2, <2>3, ServiceFrame DEF TypeOK, Service, ShapeOK, SafeModeIffThreshold
<1>5. CASE ResetToStock(l)
  <2>1. /\ record' \in SafeLoopRecord
        /\ record'.safe_mode <=> record'.consecutive_crashes >= SAFE_MODE_CRASH_THRESHOLD
    BY <1>1, <1>5, RecordsKept DEF ResetToStock, TypeOK, Service, SafeModeIffThreshold
  <2>2. /\ flag' \in BootFlag \cup {NoFlag} /\ hw' \in Gpu
        /\ applied' = NoProfile /\ hist' \in Observed
    BY <1>1, <1>5, ResetValuesType, ObservedType DEF ResetToStock, TypeOK
  <2>3. Alive /\ UNCHANGED <<clean, checkpoint, ledger, baseline, log,
                             pc, latch, job, timers, manual, prog, forge, used>>
    BY <1>5 DEF ResetToStock
  <2> QED
    BY <1>1, <2>1, <2>2, <2>3, ServiceFrame DEF TypeOK
<1>6. CASE FallbackArm(l)
  <2>1. layer[l].to \in Point
    BY <1>1 DEF SentinelLayer
  <2>2. flag' \in BootFlag \cup {NoFlag}
    BY <1>6, <2>1, FlagType DEF FallbackArm, Arm, ApplyPhase
  <2>3. hist' \in Observed
    BY <1>1, <1>6 DEF FallbackArm, TypeOK, Observed
  <2>4. Alive /\ UNCHANGED <<record, clean, applied, checkpoint, ledger, baseline, log, hw,
                             pc, latch, job, timers, manual, prog, forge, used>>
    BY <1>6 DEF FallbackArm
  <2> QED
    BY <1>1, <2>2, <2>3, <2>4, ServiceFrame DEF TypeOK, Service, ShapeOK, SafeModeIffThreshold
<1>7. CASE FallbackWrite(l)
  <2>1. layer[l].to \in Point /\ Stock \in Point
    BY <1>1 DEF SentinelLayer, Point
  <2>2. hw' \in Gpu
    <3>1. CASE hw' = [curve |-> layer[l].to, lock |-> TRUE]
      BY <2>1, <3>1 DEF Gpu
    <3>2. ASSUME NEW curve \in {hw.curve, Stock, layer[l].to},
                 hw' = [curve |-> curve, lock |-> hw.lock /\ curve # Stock]
          PROVE  hw' \in Gpu
      <4>1. curve \in Point
        BY <1>1, <2>1 DEF TypeOK, Gpu
      <4>2. PICK lock \in BOOLEAN : lock = (hw.lock /\ curve # Stock)
        BY Zenon
      <4> QED
        BY <3>2, <4>1, <4>2 DEF Gpu
    <3> QED
      BY <1>7, <3>1, <3>2 DEF FallbackWrite
  <2>3. applied' = applied \/ applied' = NoProfile
    BY <1>7 DEF FallbackWrite
  <2>3a. hist' \in Observed
    <3>1. hist' = hist \/ hist' = [hist EXCEPT !.kept = NoProfile]
      BY <1>7 DEF FallbackWrite
    <3> QED
      BY <1>1, <3>1, ObservedType DEF TypeOK
  <2>4. Alive /\ UNCHANGED <<flag, record, clean, checkpoint, ledger, baseline, log,
                             pc, latch, job, timers, manual, prog, forge, used>>
    BY <1>7 DEF FallbackWrite
  <2> QED
    BY <1>1, <2>2, <2>3, <2>3a, <2>4, ServiceFrame DEF TypeOK, Service, ShapeOK, SafeModeIffThreshold
<1>8. CASE FallbackSave(l)
  <2>1. layer[l].to \in Pairs
    BY <1>1, <1>8 DEF FallbackSave, HoldsPoints, SentinelLayer, Point
  <2>2. applied' = [kind |-> "F2", pair |-> layer[l].to]
    BY <1>8 DEF FallbackSave
  <2>3. applied' \in AppliedProfile /\ applied'.pair # Stock
    BY <2>1, <2>2, PairsAssumption DEF AppliedProfile
  <2>4. hist' \in Observed /\ log' \in EventLog /\ timers' \in Nat
    <3>1. hist' = [hist EXCEPT !.kept = applied']
      BY <1>8 DEF FallbackSave
    <3>2. hist' \in Observed
      BY <1>1, <2>3, <3>1, ObservedType DEF TypeOK
    <3>3. log' \in EventLog
      BY <1>1, <1>8 DEF FallbackSave, TypeOK, EventLog
    <3>4. timers' \in Nat
      BY <1>1, <1>8 DEF FallbackSave, TypeOK
    <3> QED
      BY <3>2, <3>3, <3>4
  <2>5. Alive /\ UNCHANGED <<flag, record, clean, checkpoint, ledger, baseline, hw,
                             pc, latch, job, manual, prog, forge, used>>
    BY <1>8 DEF FallbackSave
  <2> QED
    BY <1>1, <2>3, <2>4, <2>5, ServiceFrame DEF TypeOK, Service, SafeModeIffThreshold
<1> QED
  BY <1>2, <1>3, <1>4, <1>5, <1>6, <1>7, <1>8 DEF Recover

(* The steps before the decision and around the cursor.                    *)
LEMMA WatchKeepsService ==
    ASSUME SentinelShape, Watch
    PROVE  Service'
<1>1. /\ Service /\ TypeOK /\ "watcher" \in Layers
      /\ layer["watcher"] \in SentinelLayer
  BY DEF SentinelShape, STypeOK, Service, Layers
<1>2. CASE WatcherHandles \/ CanaryStarts \/ CanaryVerdict
  <2>1. UNCHANGED vars
    BY <1>2 DEF WatcherHandles, CanaryStarts, CanaryVerdict
  <2> QED
    BY <1>1, <2>1 DEF Service, TypeOK, ShapeOK, SafeModeIffThreshold, vars, Starting, Armed
<1>3. CASE WatcherPoll \/ WatcherCommit \/ WatcherCooldown
  <2>1. latch' \in BOOLEAN /\ baseline' \in Nat \cup {NoBaseline}
    BY <1>1, <1>3 DEF WatcherPoll, WatcherCommit, WatcherCooldown, TypeOK, EventLog, SentinelLayer
  <2>2. Alive /\ UNCHANGED <<flag, record, clean, applied, checkpoint, ledger, log, hw,
                             pc, job, timers, manual, prog, forge, hist, used>>
    BY <1>3 DEF WatcherPoll, WatcherCommit, WatcherCooldown
  <2> QED
    BY <1>1, <2>1, <2>2, ServiceFrame DEF TypeOK, Service, ShapeOK, SafeModeIffThreshold
<1>4. CASE WatcherHandsOff
  <2>1. /\ forge' = [forge EXCEPT !.stop = "abort"]
        /\ ledger' = ledger \/ (forge.cand # Stock /\ ledger' = ledger \cup {Pair2(forge.cand)})
    BY <1>4 DEF WatcherHandsOff
  <2>2. forge' \in ForgeWorker /\ forge'.step = forge.step /\ forge'.cand = forge.cand
    BY <1>1, <2>1 DEF TypeOK, ForgeWorker
  <2>3. ledger' \subseteq Nat \X Nat
    <3>1. forge.cand # Stock => forge.cand \in Pairs
      BY <1>1 DEF TypeOK, ForgeWorker, Point
    <3> QED
      BY <1>1, <2>1, <3>1, IntentType DEF TypeOK
  <2>4. Alive /\ UNCHANGED <<flag, record, clean, applied, checkpoint, baseline, log, hw,
                             pc, latch, job, timers, manual, prog, hist, used>>
    BY <1>4 DEF WatcherHandsOff
  <2> QED
    BY <1>1, <2>2, <2>3, <2>4, ServiceFrame DEF TypeOK, Service, ShapeOK, SafeModeIffThreshold
<1>5. CASE WatcherHandoffRecord
  <2>1. PICK run \in Nat : run = IF checkpoint = NoCheckpoint THEN 0 ELSE checkpoint.run
    BY <1>1 DEF TypeOK, Progress
  <2>2. PICK candidate \in Point : candidate = layer["watcher"].pair
    BY <1>1 DEF SentinelLayer
  <2>3. PICK marked \in SafeLoopRecord :
            /\ marked = IF candidate = Stock THEN record ELSE Blacklist(record, F2Intent(candidate))
            /\ marked.consecutive_crashes = record.consecutive_crashes
            /\ marked.safe_mode = record.safe_mode
    <3>1. candidate # Stock => F2Intent(candidate) \in TuningPoint
      BY IntentType DEF Point
    <3> QED
      BY <1>1, <3>1, BlacklistType DEF TypeOK
  <2>4. PICK unnamed \in SafeLoopRecord :
            /\ unnamed = [marked EXCEPT !.incidents = @ \ {0}]
            /\ unnamed.consecutive_crashes = record.consecutive_crashes
            /\ unnamed.safe_mode = record.safe_mode
    <3>1. marked.incidents \ {0} \in SUBSET Nat
      BY <2>3 DEF SafeLoopRecord
    <3>2. PICK incidents \in SUBSET Nat : incidents = marked.incidents \ {0}
      BY <3>1
    <3>3. PICK r : r = [marked EXCEPT !.incidents = incidents]
      OBVIOUS
    <3>4. /\ r \in SafeLoopRecord
          /\ r.consecutive_crashes = marked.consecutive_crashes
          /\ r.safe_mode = marked.safe_mode
      BY <3>3 DEF SafeLoopRecord
    <3> QED
      BY <2>3, <3>2, <3>3, <3>4
  <2>5. PICK kind \in ForgeIncidentKind :
            kind = IF candidate = Stock THEN "RuntimeFailure" ELSE "CandidateCrash"
    BY DEF ForgeIncidentKind
  <2>6. record' = record \/ record' = RecordForgeIncident(unnamed, kind, run)
    BY <1>5, <2>1, <2>2, <2>3, <2>4, <2>5 DEF WatcherHandoffRecord
  <2>7. /\ record' \in SafeLoopRecord
        /\ record'.consecutive_crashes = record.consecutive_crashes
        /\ record'.safe_mode = record.safe_mode
    <3>1. CASE record' = record
      BY <1>1, <3>1 DEF TypeOK
    <3>2. CASE record' = RecordForgeIncident(unnamed, kind, run)
      BY <2>4, <3>2, IncidentType
    <3> QED
      BY <2>6, <3>1, <3>2
  <2>8. Alive /\ UNCHANGED <<flag, clean, applied, checkpoint, ledger, baseline, log, hw,
                             pc, latch, job, timers, manual, prog, forge, hist, used>>
    BY <1>5 DEF WatcherHandoffRecord
  <2> QED
    BY <1>1, <2>7, <2>8, ServiceFrame DEF TypeOK, Service, ShapeOK, SafeModeIffThreshold
<1> QED
  BY <1>2, <1>3, <1>4, <1>5 DEF Watch

(* The driver resets the GPU under the running service.                    *)
LEMMA ResetKeepsService ==
    ASSUME SentinelShape, DriverReset
    PROVE  Service'
<1>1. Service /\ TypeOK
  BY DEF SentinelShape, STypeOK, Service
<1>2. log' \in EventLog /\ hw' \in Gpu /\ used' \in [faults : Nat, ops : Nat, runs : Nat] /\ Alive
  <2>1. log' \in EventLog
    <3>1. PICK count \in Nat : count = log.tdr + 1
      BY <1>1 DEF TypeOK, EventLog
    <3>2. log \in EventLog /\ log' = [log EXCEPT !.tdr = count, !.thisBoot = TRUE]
      BY <1>1, <3>1 DEF DriverReset, TypeOK
    <3> QED
      BY <3>1, <3>2 DEF EventLog
  <2>2. used' \in [faults : Nat, ops : Nat, runs : Nat]
    BY <1>1 DEF DriverReset, Fault, TypeOK
  <2> QED
    BY <2>1, <2>2, ResetValuesType DEF DriverReset, Alive
<1>3. UNCHANGED <<flag, record, clean, applied, checkpoint, ledger, baseline,
                  pc, latch, job, timers, manual, prog, forge, hist>>
  BY DEF DriverReset
<1> QED
  BY <1>1, <1>2, <1>3, ServiceFrame DEF TypeOK, Service, ShapeOK, SafeModeIffThreshold

(* An event is the sentinel's to answer, or raced by the canary.           *)
OwedType == [event : Nat, raced : BOOLEAN, pair : Point]

(* What the observer notes.                                                *)
SeenType == [owed : SUBSET OwedType, writes : Nat]

(* The domains, part by part ...                                           *)
LEMMA ShapeParts ==
    SentinelShape <=>
        /\ Service
        /\ layer \in [Layers -> SentinelLayer] /\ \A l \in Layers : HoldsPoints(layer[l])
        /\ cursor \in Nat /\ bumps \in Nat /\ recent \in Layers \cup {"none"}
        /\ seen \in SeenType
  BY DEF SentinelShape, STypeOK, Service, SeenType, OwedType

(* ... and what shows them after a step.                                   *)
LEMMA ShapeAfter ==
    ASSUME Service',
           layer' \in [Layers -> SentinelLayer], \A l \in Layers : HoldsPoints(layer'[l]),
           cursor' \in Nat, bumps' \in Nat, recent' \in Layers \cup {"none"}, seen' \in SeenType
    PROVE  SentinelShape'
  BY DEF SentinelShape, STypeOK, Service, SeenType, OwedType

(* The canary's claim and the writes only rewrite what is noted.           *)
LEMMA SeenKept ==
    ASSUME seen \in SeenType
    PROVE  /\ [seen EXCEPT !.owed = {[o EXCEPT !.raced = TRUE] : o \in @}] \in SeenType
           /\ [seen EXCEPT !.writes = @ + 1] \in SeenType
<1>1. PICK raced : raced = {[o EXCEPT !.raced = TRUE] : o \in seen.owed}
  OBVIOUS
<1>2. raced \in SUBSET OwedType
  <2>1. seen.owed \in SUBSET OwedType
    BY DEF SeenType
  <2>2. \A o \in OwedType : [o EXCEPT !.raced = TRUE] \in OwedType
    BY DEF OwedType
  <2> QED
    BY <1>1, <2>1, <2>2
<1>3. [seen EXCEPT !.owed = raced] \in SeenType
  BY <1>2 DEF SeenType
<1>4. [seen EXCEPT !.writes = @ + 1] \in SeenType
  BY DEF SeenType
<1> QED
  BY <1>1, <1>3, <1>4

(* Before the first start.                                                 *)
LEMMA ShapeInit == SInit => SentinelShape
<1> SUFFICES ASSUME SInit PROVE SentinelShape
  OBVIOUS
<1>1. TypeOK /\ ShapeOK /\ SafeModeIffThreshold
  BY TypeInit, InvInit DEF SInit, IInv
<1>2. IdleLayer \in SentinelLayer /\ HoldsPoints(IdleLayer)
  BY DEF IdleLayer, SentinelLayer, Point, HoldsPoints, Deciding, RecoverySteps
<1>3. layer \in [Layers -> SentinelLayer] /\ \A l \in Layers : HoldsPoints(layer[l])
  BY <1>2 DEF SInit
<1>4. seen \in SeenType
  BY DEF SInit, Unowed, SeenType
<1> QED
  BY <1>1, <1>3, <1>4, ShapeParts DEF SInit, Service

(* The service's steps end the threads or leave them where they are.       *)
LEMMA ServiceKeepsShape ==
    ASSUME SentinelShape, ServiceStep
    PROVE  SentinelShape'
<1>1. /\ Service /\ TypeOK
      /\ layer \in [Layers -> SentinelLayer] /\ \A l \in Layers : HoldsPoints(layer[l])
      /\ cursor \in Nat /\ bumps \in Nat /\ recent \in Layers \cup {"none"}
      /\ seen \in SeenType
  BY ShapeParts DEF Service
<1>2. [Next]_vars
  BY DEF ServiceStep
<1>3. Service'
  BY <1>1, <1>2, TypeNext, ShapeNext, SafeModeNext DEF Service
<1>4. layer' \in [Layers -> SentinelLayer] /\ \A l \in Layers : HoldsPoints(layer'[l])
  <2>1. CASE pc' = "off"
    <3>1. IdleLayer \in SentinelLayer /\ HoldsPoints(IdleLayer)
      BY DEF IdleLayer, SentinelLayer, Point, HoldsPoints, Deciding, RecoverySteps
    <3>2. layer' = [l \in Layers |-> IdleLayer]
      BY <2>1 DEF ServiceStep, Threads
    <3> QED
      BY <3>1, <3>2
  <2>2. CASE pc' # "off"
    <3>1. layer' = layer
      BY <2>2 DEF ServiceStep, Threads
    <3> QED
      BY <1>1, <3>1
  <2> QED
    BY <2>1, <2>2
<1>5. cursor' \in Nat /\ bumps' \in Nat /\ recent' \in Layers \cup {"none"}
  <2>1. log.tdr \in Nat
    BY <1>1 DEF TypeOK, EventLog
  <2> QED
    BY <1>1, <2>1 DEF ServiceStep, Threads
<1>6. seen' \in SeenType
  <2>1. PICK owed, writes : /\ owed \in {{}, seen.owed} /\ writes \in {0, seen.writes}
                            /\ seen' = [owed |-> owed, writes |-> writes]
    BY DEF ServiceStep, Threads
  <2>2. seen.owed \in SUBSET OwedType /\ seen.writes \in Nat
    BY <1>1 DEF SeenType
  <2> QED
    BY <2>1, <2>2 DEF SeenType
<1> QED
  BY <1>3, <1>4, <1>5, <1>6, ShapeAfter

(* A driver reset only adds to the notes.                                  *)
LEMMA ResetKeepsShape ==
    ASSUME SentinelShape, DriverReset
    PROVE  SentinelShape'
<1>1. /\ Service /\ TypeOK
      /\ layer \in [Layers -> SentinelLayer] /\ \A l \in Layers : HoldsPoints(layer[l])
      /\ cursor \in Nat /\ bumps \in Nat /\ recent \in Layers \cup {"none"}
      /\ seen \in SeenType
  BY ShapeParts DEF Service
<1>2. layer' = layer /\ cursor' = cursor /\ bumps' = bumps /\ recent' = recent
  BY DEF DriverReset
<1>3. seen' \in SeenType
  <2>1. CASE Answerable
    <3>1. applied.pair \in Point /\ log.tdr + 1 \in Nat
      BY <1>1, <2>1, UndervoltPoint DEF Answerable, TypeOK, EventLog, Point, Service
    <3>2. PICK o \in OwedType : o = [event |-> log.tdr + 1, raced |-> FALSE, pair |-> applied.pair]
      BY <3>1 DEF OwedType
    <3>3. seen' = [seen EXCEPT !.owed = @ \cup {o}]
      BY <2>1, <3>2 DEF DriverReset
    <3> QED
      BY <1>1, <3>3 DEF SeenType
  <2>2. CASE ~ Answerable
    BY <1>1, <2>2 DEF DriverReset
  <2> QED
    BY <2>1, <2>2
<1> QED
  BY <1>1, <1>2, <1>3, ResetKeepsService, ShapeAfter

(* watch_loop and canary_loop up to handle_failure, and the cursor.        *)
LEMMA WatchKeepsShape ==
    ASSUME SentinelShape, Watch
    PROVE  SentinelShape'
<1>1. /\ layer \in [Layers -> SentinelLayer] /\ \A l \in Layers : HoldsPoints(layer[l])
      /\ cursor \in Nat /\ bumps \in Nat /\ recent \in Layers \cup {"none"}
      /\ seen \in SeenType /\ TypeOK
      /\ "watcher" \in Layers /\ "canary" \in Layers
  BY ShapeParts DEF Service, Layers
<1>2. /\ bumps' = bumps /\ recent' = recent /\ seen' = seen
      /\ Service'
  BY WatchKeepsService DEF Watch, WatcherPoll, WatcherHandles, WatcherHandsOff, WatcherHandoffRecord,
     WatcherCommit, WatcherCooldown, CanaryStarts, CanaryVerdict
<1>3. PICK w \in SentinelLayer : w = layer["watcher"]
  BY <1>1
<1>4. PICK tdr \in Nat : tdr = log.tdr
  BY <1>1 DEF TypeOK, EventLog
<1>5. cursor' \in Nat
  BY <1>1, <1>3, <1>4 DEF Watch, WatcherPoll, WatcherHandles, WatcherHandsOff, WatcherHandoffRecord,
     WatcherCommit, WatcherCooldown, CanaryStarts, CanaryVerdict, SentinelLayer
<1>6. layer' \in [Layers -> SentinelLayer] /\ \A l \in Layers : HoldsPoints(layer'[l])
  <2>1. ASSUME NEW l \in Layers, NEW r \in SentinelLayer, layer' = [layer EXCEPT ![l] = r],
               r.step \notin Deciding, r.to = Stock
        PROVE  layer' \in [Layers -> SentinelLayer] /\ \A k \in Layers : HoldsPoints(layer'[k])
    <3>1. HoldsPoints(r)
      BY <2>1 DEF HoldsPoints, Deciding, RecoverySteps
    <3> QED
      BY <1>1, <2>1, <3>1, LayerWritten
  <2>2. CASE WatcherPoll
    <3>1. w.step = "poll" /\ w.to = Stock
      BY <1>1, <1>3, <2>2 DEF WatcherPoll, HoldsPoints, Deciding, RecoverySteps
    <3>2. PICK r : r = [w EXCEPT !.step = "event", !.event = tdr]
      OBVIOUS
    <3>3. r \in SentinelLayer /\ r.step = "event" /\ r.to = Stock
      BY <3>1, <3>2 DEF SentinelLayer
    <3>4. layer' = [layer EXCEPT !["watcher"] = r]
      BY <1>3, <1>4, <2>2, <3>2 DEF WatcherPoll
    <3> QED
      BY <1>1, <2>1, <3>3, <3>4 DEF Deciding, RecoverySteps
  <2>3. CASE WatcherHandles
    <3>1. w.step = "event" /\ w.to = Stock
      BY <1>1, <1>3, <2>3 DEF WatcherHandles, HoldsPoints, Deciding, RecoverySteps
    <3>2. PICK r : r = [w EXCEPT !.step = "decide", !.n = bumps]
      OBVIOUS
    <3>3. r \in SentinelLayer /\ r.step = "decide" /\ r.to = Stock
      BY <1>1, <3>1, <3>2 DEF SentinelLayer
    <3>4. layer' = [layer EXCEPT !["watcher"] = r]
      BY <1>3, <2>3, <3>2 DEF WatcherHandles
    <3> QED
      BY <1>1, <2>1, <3>3, <3>4 DEF Deciding, RecoverySteps
  <2>4. CASE WatcherHandsOff
    <3>1. w.step = "event" /\ w.to = Stock
      BY <1>1, <1>3, <2>4 DEF WatcherHandsOff, HoldsPoints, Deciding, RecoverySteps
    <3>2. PICK candidate \in Point :
              candidate = IF Armed /\ flag.phase = SUPERVISED_F2_FORGE_PHASE
                          THEN forge.cand ELSE Stock
      BY <1>1 DEF TypeOK, ForgeWorker, Point
    <3>3. PICK r : r = [w EXCEPT !.step = "handoff", !.pair = candidate]
      OBVIOUS
    <3>4. r \in SentinelLayer /\ r.step = "handoff" /\ r.to = Stock
      BY <3>1, <3>3 DEF SentinelLayer
    <3>5. layer' = [layer EXCEPT !["watcher"] = r]
      BY <1>3, <2>4, <3>2, <3>3 DEF WatcherHandsOff
    <3> QED
      BY <1>1, <2>1, <3>4, <3>5 DEF Deciding, RecoverySteps
  <2>5. CASE WatcherHandoffRecord
    <3>1. w.step = "handoff" /\ w.to = Stock
      BY <1>1, <1>3, <2>5 DEF WatcherHandoffRecord, HoldsPoints, Deciding, RecoverySteps
    <3>2. PICK r : r = [w EXCEPT !.step = "handed", !.pair = Stock]
      OBVIOUS
    <3>3. r \in SentinelLayer /\ r.step = "handed" /\ r.to = Stock
      BY <3>1, <3>2 DEF SentinelLayer, Point
    <3>4. layer' = [layer EXCEPT !["watcher"] = r]
      BY <1>3, <2>5, <3>2 DEF WatcherHandoffRecord
    <3> QED
      BY <1>1, <2>1, <3>3, <3>4 DEF Deciding, RecoverySteps
  <2>6. CASE WatcherCommit \/ WatcherCooldown
    <3>1. PICK step \in {"cooldown", "poll"} :
              layer' = [layer EXCEPT !["watcher"] = [IdleLayer EXCEPT !.step = step]]
      BY <2>6 DEF WatcherCommit, WatcherCooldown, IdleLayer
    <3>2. PICK r : r = [step |-> step, event |-> 0, n |-> 0, pair |-> Stock, to |-> Stock]
      OBVIOUS
    <3>3. r \in SentinelLayer /\ r.step = step /\ r.to = Stock
      BY <3>2 DEF SentinelLayer, Point
    <3>4. layer' = [layer EXCEPT !["watcher"] = r]
      <4>1. [IdleLayer EXCEPT !.step = step] = r
        BY <3>2 DEF IdleLayer
      <4> QED
        BY <3>1, <4>1
    <3> QED
      BY <1>1, <2>1, <3>3, <3>4 DEF Deciding, RecoverySteps
  <2>7. CASE CanaryStarts
    BY <1>1, <2>7, Moved DEF CanaryStarts
  <2>8. CASE CanaryVerdict
    <3>1. CASE Go("canary", "poll")
      BY <1>1, <2>8, <3>1, Moved DEF CanaryVerdict
    <3>2. CASE layer' = [layer EXCEPT !["canary"] = [@ EXCEPT !.step = "decide", !.n = bumps]]
      <4>1. PICK c \in SentinelLayer : c = layer["canary"]
        BY <1>1
      <4>2. c.step = "check" /\ c.to = Stock
        BY <1>1, <2>8, <4>1 DEF CanaryVerdict, HoldsPoints, Deciding, RecoverySteps
      <4>3. PICK r : r = [c EXCEPT !.step = "decide", !.n = bumps]
        OBVIOUS
      <4>4. r \in SentinelLayer /\ r.step = "decide" /\ r.to = Stock
        BY <1>1, <4>2, <4>3 DEF SentinelLayer
      <4>5. layer' = [layer EXCEPT !["canary"] = r]
        BY <3>2, <4>1, <4>3
      <4> QED
        BY <1>1, <2>1, <4>4, <4>5 DEF Deciding, RecoverySteps
    <3> QED
      BY <2>8, <3>1, <3>2 DEF CanaryVerdict
  <2> QED
    BY <2>2, <2>3, <2>4, <2>5, <2>6, <2>7, <2>8 DEF Watch
<1> QED
  BY <1>1, <1>2, <1>5, <1>6, ShapeAfter

(* handle_failure.                                                         *)
LEMMA RecoverKeepsShape ==
    ASSUME SentinelShape, NEW l \in Layers, Recover(l)
    PROVE  SentinelShape'
<1>1. /\ layer \in [Layers -> SentinelLayer] /\ \A k \in Layers : HoldsPoints(layer[k])
      /\ cursor \in Nat /\ bumps \in Nat /\ recent \in Layers \cup {"none"}
      /\ seen \in SeenType /\ TypeOK /\ ShapeOK
  BY ShapeParts DEF Service
<1>2. cursor' \in Nat /\ bumps' \in Nat /\ recent' \in Layers \cup {"none"}
  BY <1>1 DEF Recover, Decide, Claim, PersistRecord, PersistLedger, ResetToStock, FallbackArm,
     FallbackWrite, FallbackSave
<1>3. seen' \in SeenType
  BY <1>1, SeenKept DEF Recover, Decide, Claim, PersistRecord, PersistLedger, ResetToStock,
     FallbackArm, FallbackWrite, FallbackSave
<1>4. layer' \in [Layers -> SentinelLayer] /\ \A k \in Layers : HoldsPoints(layer'[k])
  <2>1. CASE layer' = DoneLayer(l)
    BY <1>1, <2>1, Finished
  <2>2. CASE Decide(l) /\ layer' # DoneLayer(l)
    BY <1>1, <2>2, Decided DEF Decide
  <2>3. CASE Claim(l) /\ layer' # DoneLayer(l)
    BY <1>1, <2>3, Moved DEF Claim
  <2>4. CASE PersistRecord(l)
    BY <1>1, <2>4, Moved DEF PersistRecord
  <2>5. CASE PersistLedger(l)
    BY <1>1, <2>5, Moved DEF PersistLedger
  <2>6. CASE ResetToStock(l) /\ layer' # DoneLayer(l)
    BY <1>1, <2>6, Moved DEF ResetToStock, Go
  <2>7. CASE FallbackArm(l)
    BY <1>1, <2>7, Moved DEF FallbackArm
  <2>8. CASE FallbackWrite(l) /\ layer' # DoneLayer(l)
    BY <1>1, <2>8, Moved DEF FallbackWrite
  <2>9. CASE FallbackSave(l)
    BY <2>1, <2>9 DEF FallbackSave
  <2> QED
    BY <2>1, <2>2, <2>3, <2>4, <2>5, <2>6, <2>7, <2>8, <2>9 DEF Recover
<1> QED
  BY <1>2, <1>3, <1>4, RecoverKeepsService, ShapeAfter

(* Every variable of the service and of the sentinel stays in its domain.  *)
LEMMA ShapeNextS ==
    ASSUME SentinelShape, [SNext]_svars
    PROVE  SentinelShape'
<1>1. CASE EpisodeOver
  BY <1>1 DEF EpisodeOver, vars, SentinelShape, STypeOK, TypeOK, ShapeOK, SafeModeIffThreshold,
     Starting, Armed
<1>2. CASE UNCHANGED svars
  BY <1>2 DEF svars, sentinelVars, vars, SentinelShape, STypeOK, TypeOK, ShapeOK,
     SafeModeIffThreshold, Starting, Armed
<1> QED
  BY <1>1, <1>2, ServiceKeepsShape, ResetKeepsShape, WatchKeepsShape, RecoverKeepsShape DEF SNext

-----------------------------------------------------------------------------
(* The event cursor.                                                       *)

(* Neither the cursor nor the watcher is ahead of the event log.           *)
EventsOK ==
    /\ baseline # NoBaseline => baseline <= log.tdr
    /\ layer["watcher"].event <= log.tdr

(* Apply-on-boot writes what is on disk.                                   *)
BootJobOK ==
    job # NoJob /\ job.who = "boot" =>
        applied # NoProfile /\ job.kind = applied.kind /\ job.pair = applied.pair

(* The watcher has not decided about the event yet, or it recovers the     *)
(* point.                                                                  *)
WatcherOnIt(o) ==
    LET w == layer["watcher"]
    IN  \/ /\ recent = "none"
           /\ w.step \notin RecoverySteps \cup {"commit", "cooldown"}
           /\ w.step \in {"handoff", "handed"} => w.event < o.event
           /\ w.step = "claim" => w.pair = o.pair
        \/ /\ recent = "watcher"
           /\ w.step \in {"record", "ledger", "reset"}
           /\ w.pair = o.pair
           /\ w.step = "reset" => Pair2(o.pair) \in ledger

(* The event is ahead of the cursor and the point still applied; either    *)
(* the watcher is on it or the next start will be.                         *)
Waiting(o) ==
    /\ Undervolted /\ applied.pair = o.pair
    /\ baseline # NoBaseline /\ baseline < o.event
    /\ \/ pc = "ready" /\ ~ Armed /\ WatcherOnIt(o)
       \/ /\ pc \in (Starting \ {"tdr_baseline"}) \cup {"off"}
          /\ pc = "tdr_clear" => Pair2(o.pair) \in ledger
          /\ layer["watcher"].to = Stock

(* The point is condemned; what is applied, or about to be, is a higher    *)
(* bin.                                                                    *)
Settled(o) ==
    /\ Pair2(o.pair) \in ledger
    /\ Undervolted => Above(o.pair, applied.pair)
    /\ layer["watcher"].to = Stock \/ Above(o.pair, layer["watcher"].to)

(* While an answer is owed no apply of the operator and no Forge run is    *)
(* under way, and every event not raced by the canary waits or is settled. *)
OwedOK ==
    /\ seen.owed # {} => /\ pc # "stopping" /\ forge.step = "idle"
                         /\ job = NoJob \/ job.who = "boot"
    /\ recent = "canary" => \A o \in seen.owed : o.raced
    /\ \A o \in seen.owed : /\ o.pair # Stock /\ o.event <= log.tdr
                            /\ o.raced \/ Waiting(o) \/ Settled(o)

(* The inductive invariant, with SentinelShape and LadderInv.              *)
AnswerInv == EventsOK /\ BootJobOK /\ OwedOK

(* Only DriverReset and the crashes write to the event log, and no step of *)
(* the service moves the cursor beyond it.                                 *)
LEMMA ServiceReadsLog ==
    ASSUME TypeOK, Next
    PROVE  /\ log'.tdr >= log.tdr /\ log'.tdr \in Nat
           /\ baseline' = baseline \/ baseline' = NoBaseline \/ baseline' = log.tdr
<1>1. log \in EventLog /\ log.tdr \in Nat
  BY DEF TypeOK, EventLog
<1>2. CASE Startup
  BY <1>1, <1>2 DEF Startup, Start, ReconcileRecord, ReconcileCheckpoint, RecoverConsumeMarker,
     RecoverDisarm, RecoverCommit, InitializeRebootGuard, StartupReconcile, DemoteCondemn,
     DemoteClearApplied, PersistBaseline, SkipReapply, ReapplyArm
<1>3. CASE Applying
  <2>1. baseline' = baseline /\ (log' = log \/ log' = [log EXCEPT !.inSession = FALSE])
    BY <1>3 DEF Applying, ApplyWriteOk, ApplyWriteFails, ApplySave, ManualWriteOk, ManualWriteFails
  <2> QED
    BY <1>1, <2>1 DEF EventLog
<1>4. CASE Operator
  <2>1. CASE ApplyForgeProfile \/ ApplySweepProfile \/ ApplyMemPeak \/ ManualApply \/ ManualReset
    <3>1. log' = log /\ baseline' = baseline
      BY <2>1 DEF ApplyForgeProfile, ApplySweepProfile, ApplyMemPeak, BeginApply, ManualApply, ManualReset
    <3> QED
      BY <1>1, <3>1
  <2>2. CASE ResetGpuTuning \/ ResetGpuTuningFull
    <3>1. log' = log /\ (baseline' = baseline \/ baseline' = NoBaseline)
      BY <2>2 DEF ResetGpuTuning, ResetGpuTuningFull
    <3> QED
      BY <1>1, <3>1
  <2>3. CASE AcknowledgeIncident \/ ReportProfileUnstable \/ ForgeRequest \/ ForgeStop \/ StopReset
    <3>1. log' = log /\ baseline' = baseline
      BY <2>3 DEF AcknowledgeIncident, ReportProfileUnstable, ForgeRequest, ForgeStop, StopReset
    <3> QED
      BY <1>1, <3>1
  <2> QED
    BY <1>4, <2>1, <2>2, <2>3 DEF Operator
<1>5. CASE Forge
  <2>1. log' = log /\ baseline' = baseline
    <3>1. CASE ForgeStart \/ ForgePreflight \/ ForgePreheatFails \/ ForgeMarkRunning
      BY <3>1 DEF ForgeStart, ForgePreflight, ForgePreheatFails, ForgeMarkRunning
    <3>2. CASE \E p \in Candidates : ForgeArm(p)
      BY <3>2 DEF ForgeArm
    <3>3. CASE ForgeWrite \/ ForgeDwell \/ ForgeReset \/ ForgeBlacklist \/ ForgeClear \/ ForgeEnd
      BY <3>3 DEF ForgeWrite, ForgeDwell, ForgeReset, ForgeBlacklist, ForgeClear, ForgeEnd
    <3> QED
      BY <1>5, <3>1, <3>2, <3>3 DEF Forge
  <2> QED
    BY <1>1, <2>1
<1>6. CASE SurvivalTimer \/ ServiceKilled
  BY <1>1, <1>6 DEF SurvivalTimer, ServiceKilled
<1>7. CASE MachineCrash
  <2>1. baseline' = baseline /\ (log'.tdr = log.tdr \/ log'.tdr = log.tdr + 1)
    BY <1>1, <1>7 DEF MachineCrash
  <2> QED
    BY <1>1, <2>1
<1>8. CASE DriverResetWhileDown
  <2>1. baseline' = baseline /\ log'.tdr = log.tdr + 1
    BY <1>1, <1>8 DEF DriverResetWhileDown, EventLog
  <2> QED
    BY <1>1, <2>1
<1>9. CASE StopMark
  <2>1. baseline' = baseline /\ (log' = log \/ log' = [log EXCEPT !.thisBoot = FALSE])
    BY <1>9 DEF StopMark
  <2> QED
    BY <1>1, <2>1 DEF EventLog
<1> QED
  BY <1>2, <1>3, <1>4, <1>5, <1>6, <1>7, <1>8, <1>9 DEF Next, Environment

(* The watcher's event after a step of the service.                        *)
LEMMA EventsNext ==
    ASSUME SentinelShape, EventsOK, [SNext]_svars
    PROVE  EventsOK'
<1>1. /\ layer \in [Layers -> SentinelLayer] /\ \A l \in Layers : HoldsPoints(layer[l])
      /\ TypeOK /\ ShapeOK /\ "watcher" \in Layers
      /\ log.tdr \in Nat /\ (baseline # NoBaseline => baseline \in Nat)
      /\ layer["watcher"] \in SentinelLayer
  BY ShapeParts DEF Service, Layers, TypeOK, EventLog
<1>2. layer["watcher"].event \in Nat
  BY <1>1 DEF SentinelLayer
<1>3. CASE ServiceStep
  <2>1. /\ log'.tdr >= log.tdr /\ log'.tdr \in Nat
        /\ baseline' = baseline \/ baseline' = NoBaseline \/ baseline' = log.tdr
    BY <1>1, <1>3, ServiceReadsLog DEF ServiceStep
  <2>2. layer'["watcher"].event = layer["watcher"].event \/ layer'["watcher"].event = 0
    BY <1>1, <1>3 DEF ServiceStep, Threads, IdleLayer
  <2> QED
    BY <1>1, <1>2, <2>1, <2>2 DEF EventsOK
<1>4. CASE DriverReset
  <2>1. layer' = layer /\ baseline' = baseline /\ log'.tdr = log.tdr + 1
    BY <1>1, <1>4 DEF DriverReset, TypeOK, EventLog
  <2> QED
    BY <1>1, <1>2, <2>1 DEF EventsOK
<1>5. CASE EpisodeOver \/ UNCHANGED svars
  BY <1>5 DEF EpisodeOver, svars, vars, sentinelVars, EventsOK
<1>6. CASE Watch
  <2>1. log' = log
    BY <1>6 DEF Watch, WatcherPoll, WatcherHandles, WatcherHandsOff, WatcherHandoffRecord,
       WatcherCommit, WatcherCooldown, CanaryStarts, CanaryVerdict, vars
  <2>2. baseline' \in {baseline, layer["watcher"].event, log.tdr}
    BY <1>6 DEF Watch, WatcherPoll, WatcherHandles, WatcherHandsOff, WatcherHandoffRecord,
       WatcherCommit, WatcherCooldown, CanaryStarts, CanaryVerdict, vars
  <2>3. layer'["watcher"].event \in {layer["watcher"].event, log.tdr, 0}
    <3>1. PICK w \in SentinelLayer : w = layer["watcher"]
      BY <1>1
    <3>2. CASE WatcherPoll
      <4>1. layer'["watcher"] = [w EXCEPT !.step = "event", !.event = log.tdr]
        BY <1>1, <3>1, <3>2 DEF WatcherPoll
      <4> QED
        BY <4>1 DEF SentinelLayer
    <3>3. CASE WatcherHandles
      <4>1. layer'["watcher"] = [w EXCEPT !.step = "decide", !.n = bumps]
        BY <1>1, <3>1, <3>3 DEF WatcherHandles
      <4> QED
        BY <3>1, <4>1 DEF SentinelLayer
    <3>4. CASE WatcherHandsOff
      <4>1. \E candidate : layer'["watcher"] = [w EXCEPT !.step = "handoff", !.pair = candidate]
        BY <1>1, <3>1, <3>4 DEF WatcherHandsOff
      <4> QED
        BY <3>1, <4>1 DEF SentinelLayer
    <3>5. CASE WatcherHandoffRecord
      <4>1. layer'["watcher"] = [w EXCEPT !.step = "handed", !.pair = Stock]
        BY <1>1, <3>1, <3>5 DEF WatcherHandoffRecord
      <4> QED
        BY <3>1, <4>1 DEF SentinelLayer
    <3>6. CASE WatcherCommit \/ WatcherCooldown
      BY <1>1, <3>6 DEF WatcherCommit, WatcherCooldown, IdleLayer
    <3>7. CASE CanaryStarts \/ CanaryVerdict
      BY <1>1, <3>7 DEF CanaryStarts, CanaryVerdict, Go
    <3> QED
      BY <1>6, <3>2, <3>3, <3>4, <3>5, <3>6, <3>7 DEF Watch
  <2> QED
    BY <1>1, <1>2, <2>1, <2>2, <2>3 DEF EventsOK
<1>7. ASSUME NEW l \in Layers, Recover(l) PROVE EventsOK'
  <2>1. log'.tdr = log.tdr /\ baseline' = baseline
    BY <1>1, <1>7 DEF Recover, Decide, Claim, PersistRecord, PersistLedger, ResetToStock, FallbackArm,
       FallbackWrite, FallbackSave, vars, TypeOK, EventLog
  <2>2. layer'["watcher"].event = layer["watcher"].event
    <3>1. CASE layer' = DoneLayer(l)
      BY <1>1, <3>1, Finished
    <3>2. ASSUME NEW step, Go(l, step) PROVE layer'["watcher"].event = layer["watcher"].event
      BY <1>1, <3>2 DEF Go, SentinelLayer
    <3>3. CASE layer' = [layer EXCEPT ![l] = [@ EXCEPT !.step = "claim", !.pair = applied.pair,
                                                       !.to = FallbackPoint(l)]]
      <4>1. layer[l] \in SentinelLayer
        BY <1>1
      <4>2. layer'[l].event = layer[l].event /\ \A k \in Layers \ {l} : layer'[k] = layer[k]
        BY <1>1, <3>3, <4>1 DEF SentinelLayer
      <4> QED
        BY <1>1, <4>2
    <3> QED
      BY <1>7, <3>1, <3>2, <3>3 DEF Recover, Decide, Claim, PersistRecord, PersistLedger, ResetToStock,
         FallbackArm, FallbackWrite, FallbackSave, Go
  <2> QED
    BY <2>1, <2>2 DEF EventsOK
<1> QED
  BY <1>3, <1>4, <1>5, <1>6, <1>7 DEF SNext

(* Nothing changes the profile between the arming of the boot apply and    *)
(* its save.                                                               *)
LEMMA BootJobNext ==
    ASSUME SentinelShape, BootJobOK, [SNext]_svars
    PROVE  BootJobOK'
<1>1. TypeOK /\ ShapeOK
  BY ShapeParts DEF Service
<1>2. job # NoJob /\ job.who = "boot" => pc = "reapply"
  BY <1>1 DEF ShapeOK
<1>3. CASE ServiceStep
  <2> USE DEF BootJobOK
  <2>0. Next
    BY <1>3 DEF ServiceStep
  <2>1. CASE Startup
    BY <1>2, <2>1 DEF Startup, Start, ReconcileRecord, ReconcileCheckpoint, RecoverConsumeMarker,
       RecoverDisarm, RecoverCommit, InitializeRebootGuard, StartupReconcile, DemoteCondemn,
       DemoteClearApplied, PersistBaseline, SkipReapply, ReapplyArm, MayReapply
  <2>2. CASE Applying
    <3>1. CASE ApplyWriteOk
      BY <1>1, <3>1 DEF ApplyWriteOk, TypeOK, Job
    <3>2. CASE ApplyWriteFails \/ ApplySave \/ ManualWriteOk \/ ManualWriteFails
      BY <3>2 DEF ApplyWriteFails, ApplySave, ManualWriteOk, ManualWriteFails, ApplyReturns
    <3> QED
      BY <2>2, <3>1, <3>2 DEF Applying
  <2>3. CASE Operator
    <3>1. job' = NoJob \/ job'.who = "ipc"
      <4>1. CASE ApplyForgeProfile \/ ApplySweepProfile \/ ApplyMemPeak \/ ManualApply \/ ForgeRequest
        <5>1. ASSUME NEW kind, NEW p, NEW core, BeginApply(kind, p, core) PROVE job'.who = "ipc"
          BY <5>1 DEF BeginApply
        <5>2. CASE ManualApply \/ ForgeRequest
          BY <5>2 DEF ManualApply, ForgeRequest
        <5> QED
          BY <4>1, <5>1, <5>2 DEF ApplyForgeProfile, ApplySweepProfile, ApplyMemPeak
      <4>2. CASE ManualReset \/ ResetGpuTuning \/ ResetGpuTuningFull \/ AcknowledgeIncident
        BY <4>2 DEF ManualReset, ResetGpuTuning, ResetGpuTuningFull, AcknowledgeIncident, Request
      <4>3. CASE ReportProfileUnstable \/ ForgeStop \/ StopReset
        BY <4>3 DEF ReportProfileUnstable, ForgeStop, StopReset, Request
      <4> QED
        BY <2>3, <4>1, <4>2, <4>3 DEF Operator
    <3> QED
      BY <3>1
  <2>4. CASE Forge
    BY <2>4 DEF Forge, ForgeStart, ForgePreflight, ForgePreheatFails, ForgeMarkRunning, ForgeArm,
       ForgeWrite, ForgeDwell, ForgeReset, ForgeBlacklist, ForgeClear, ForgeEnd
  <2>5. CASE Environment
    BY <2>5 DEF Environment, SurvivalTimer, MachineCrash, ServiceKilled, DriverResetWhileDown,
       StopMark, ProcessGone
  <2> QED
    BY <2>0, <2>1, <2>2, <2>3, <2>4, <2>5 DEF Next
<1>4. CASE DriverReset \/ EpisodeOver \/ UNCHANGED svars
  BY <1>4 DEF DriverReset, EpisodeOver, svars, vars, BootJobOK
<1>5. CASE Watch \/ \E l \in Layers : Recover(l)
  <2>1. Alive /\ job' = job
    BY <1>5 DEF Watch, WatcherPoll, WatcherHandles, WatcherHandsOff, WatcherHandoffRecord,
       WatcherCommit, WatcherCooldown, CanaryStarts, CanaryVerdict, Recover, Decide, Claim,
       PersistRecord, PersistLedger, ResetToStock, FallbackArm, FallbackWrite, FallbackSave, vars
  <2> QED
    BY <1>2, <2>1 DEF Alive, BootJobOK
<1> QED
  BY <1>3, <1>4, <1>5 DEF SNext

(* What the steps of an event's answer rely on.                            *)
Answering == SentinelShape /\ ClaimOK /\ AnswerInv

(* The facts the proofs below take from it.                                *)
LEMMA AnsweringParts ==
    ASSUME Answering
    PROVE  /\ TypeOK /\ ShapeOK /\ ClaimOK /\ EventsOK /\ BootJobOK /\ OwedOK
           /\ layer \in [Layers -> SentinelLayer] /\ \A l \in Layers : HoldsPoints(layer[l])
           /\ "watcher" \in Layers /\ "canary" \in Layers
           /\ seen \in SeenType /\ recent \in Layers \cup {"none"}
           /\ log.tdr \in Nat /\ (baseline # NoBaseline => baseline \in Nat)
           /\ \A o \in seen.owed : /\ o \in OwedType /\ o.event \in Nat
                                   /\ o.pair \in Pairs
                                   /\ o.pair.mv \in Nat
           /\ \A p \in Pairs : p.mv \in Nat
<1>1. /\ TypeOK /\ ShapeOK /\ ClaimOK /\ EventsOK /\ BootJobOK /\ OwedOK
      /\ layer \in [Layers -> SentinelLayer] /\ \A l \in Layers : HoldsPoints(layer[l])
      /\ seen \in SeenType /\ recent \in Layers \cup {"none"}
  BY ShapeParts DEF Answering, AnswerInv, Service
<1>2. /\ log.tdr \in Nat /\ (baseline # NoBaseline => baseline \in Nat)
      /\ "watcher" \in Layers /\ "canary" \in Layers
  BY <1>1 DEF TypeOK, EventLog, Layers
<1>3. \A p \in Pairs : p.mv \in Nat
  BY PairsAssumption
<1>4. ASSUME NEW o \in seen.owed
      PROVE  o \in OwedType /\ o.event \in Nat /\ o.pair \in Pairs /\ o.pair.mv \in Nat
  <2>1. o \in OwedType /\ o.pair # Stock
    BY <1>1 DEF SeenType, OwedOK
  <2> QED
    BY <1>3, <2>1 DEF OwedType, Point
<1> QED
  BY <1>1, <1>2, <1>3, <1>4

(* A step that leaves the notes alone: what is left to show.               *)
LEMMA OwedKept ==
    ASSUME Answering, seen'.owed = seen.owed, log'.tdr >= log.tdr, log'.tdr \in Nat,
           seen.owed # {} => /\ pc' # "stopping" /\ forge'.step = "idle"
                             /\ job' = NoJob \/ job'.who = "boot"
                             /\ recent' = "canary" => recent = "canary",
           \A o \in seen.owed : o.raced \/ Waiting(o)' \/ Settled(o)'
    PROVE  OwedOK'
<1>1. OwedOK /\ log.tdr \in Nat /\ \A o \in seen.owed : o.event \in Nat
  BY AnsweringParts
<1>2. \A o \in seen'.owed : o.pair # Stock /\ o.event <= log'.tdr
  BY <1>1 DEF OwedOK
<1>3. recent' = "canary" => \A o \in seen'.owed : o.raced
  BY <1>1 DEF OwedOK
<1>4. \A o \in seen'.owed : o.raced \/ Waiting(o)' \/ Settled(o)'
  OBVIOUS
<1> QED
  BY <1>2, <1>3, <1>4 DEF OwedOK

(* Nothing that an event's answer depends on changes.                      *)
LEMMA FateFrame ==
    ASSUME NEW o, Waiting(o) \/ Settled(o),
           UNCHANGED <<applied, baseline, ledger, pc>>, recent' = recent,
           layer'["watcher"] = layer["watcher"], flag' = flag \/ flag' = NoFlag
    PROVE  Waiting(o)' \/ Settled(o)'
<1>1. CASE Waiting(o)
  BY <1>1 DEF Waiting, WatcherOnIt, Undervolted, Armed
<1>2. CASE Settled(o)
  BY <1>2 DEF Settled, Undervolted
<1> QED
  BY <1>1, <1>2

(* A condemned point stays condemned, and what is applied a higher bin.    *)
LEMMA SettledStays ==
    ASSUME NEW o, Settled(o), ledger \subseteq ledger',
           \/ applied' = applied
           \/ ~ Undervolted'
           \/ Undervolted /\ applied'.pair = applied.pair
           \/ Above(o.pair, applied'.pair),
           \/ layer'["watcher"].to = layer["watcher"].to
           \/ layer'["watcher"].to = Stock
           \/ Above(o.pair, layer'["watcher"].to)
    PROVE  Settled(o)'
<1>1. Pair2(o.pair) \in ledger'
  BY DEF Settled
<1>2. (Undervolted => Above(o.pair, applied.pair))' 
  BY DEF Settled, Undervolted, Above
<1>3. layer'["watcher"].to = Stock \/ Above(o.pair, layer'["watcher"].to)
  BY DEF Settled
<1> QED
  BY <1>1, <1>2, <1>3 DEF Settled, Above

-----------------------------------------------------------------------------
(* The service's steps.                                                    *)

(* The process ends, or has ended: the next start finds the event.         *)
LEMMA DownKeepsFate ==
    ASSUME NEW o, Waiting(o) \/ Settled(o),
           UNCHANGED <<applied, baseline, ledger>>, pc' = "off",
           layer' = [l \in Layers |-> IdleLayer]
    PROVE  Waiting(o)' \/ Settled(o)'
<1>1. layer'["watcher"].to = Stock
  BY DEF Layers, IdleLayer
<1>2. CASE Waiting(o)
  BY <1>1, <1>2 DEF Waiting, Undervolted, Starting, Undecided
<1>3. CASE Settled(o)
  BY <1>1, <1>3, SettledStays
<1> QED
  BY <1>2, <1>3

(* The start sequence takes an event it has not seen to the ledger before  *)
(* it moves the cursor.                                                    *)
LEMMA StartupKeepsFate ==
    ASSUME Answering, Startup, layer' = layer, NEW o \in seen.owed, Waiting(o) \/ Settled(o)
    PROVE  Waiting(o)' \/ Settled(o)'
<1>0. /\ log.tdr \in Nat /\ (baseline # NoBaseline => baseline \in Nat)
      /\ o.event \in Nat /\ o.event <= log.tdr
  BY AnsweringParts DEF OwedOK
<1>1. CASE Start \/ ReconcileRecord \/ ReconcileCheckpoint \/ RecoverConsumeMarker
           \/ RecoverDisarm \/ RecoverCommit \/ InitializeRebootGuard
  <2>1. UNCHANGED <<applied, baseline, ledger>>
    BY <1>1 DEF Start, ReconcileRecord, ReconcileCheckpoint, RecoverConsumeMarker, RecoverDisarm,
       RecoverCommit, InitializeRebootGuard
  <2>2. pc # "ready" /\ pc' \in {"reconcile", "reconcile_save", "recover", "disarm", "commit",
                                 "guard", "tdr"}
    BY <1>1 DEF Start, ReconcileRecord, ReconcileCheckpoint, RecoverConsumeMarker, RecoverDisarm,
       RecoverCommit, InitializeRebootGuard
  <2>3. CASE Waiting(o)
    BY <2>1, <2>2, <2>3 DEF Waiting, Undervolted, Starting, Undecided
  <2>4. CASE Settled(o)
    BY <2>1, <2>4, SettledStays
  <2> QED
    BY <2>3, <2>4
<1>2. CASE StartupReconcile
  <2>1. pc = "tdr" /\ UNCHANGED <<applied, baseline, ledger>>
    BY <1>2 DEF StartupReconcile
  <2>2. CASE Waiting(o)
    <3>1. Undervolted /\ NewTdr
      BY <1>0, <2>2 DEF Waiting, NewTdr
    <3>2. pc' = "tdr_condemn"
      BY <1>2, <3>1 DEF StartupReconcile, Undervolted
    <3> QED
      BY <2>1, <2>2, <3>2 DEF Waiting, Undervolted, Starting, Undecided
  <2>3. CASE Settled(o)
    BY <2>1, <2>3, SettledStays
  <2> QED
    BY <2>2, <2>3
<1>3. CASE DemoteCondemn
  <2>1. /\ pc = "tdr_condemn" /\ pc' = "tdr_clear" /\ UNCHANGED <<applied, baseline>>
        /\ ledger' = ledger \cup {Pair2(applied.pair)}
    BY <1>3 DEF DemoteCondemn
  <2>2. CASE Waiting(o)
    BY <2>1, <2>2 DEF Waiting, Undervolted, Starting, Undecided
  <2>3. CASE Settled(o)
    BY <2>1, <2>3, SettledStays
  <2> QED
    BY <2>2, <2>3
<1>4. CASE DemoteClearApplied
  <2>1. pc = "tdr_clear" /\ applied' = NoProfile /\ ledger' = ledger
    BY <1>4 DEF DemoteClearApplied
  <2>2. CASE Waiting(o)
    BY <2>1, <2>2 DEF Waiting, Settled, Undervolted
  <2>3. CASE Settled(o)
    BY <2>1, <2>3, SettledStays DEF Undervolted
  <2> QED
    BY <2>2, <2>3
<1>5. CASE PersistBaseline \/ SkipReapply \/ ReapplyArm
  <2>1. pc \in {"tdr_baseline", "reapply"} /\ UNCHANGED <<applied, ledger>>
    BY <1>5 DEF PersistBaseline, SkipReapply, ReapplyArm
  <2>2. ~ Waiting(o)
    BY <2>1 DEF Waiting, Starting, Undecided
  <2> QED
    BY <2>1, <2>2, SettledStays
<1> QED
  BY <1>1, <1>2, <1>3, <1>4, <1>5 DEF Startup

(* Apply-on-boot writes the profile on disk back.                          *)
LEMMA ApplyingKeepsFate ==
    ASSUME Answering, Applying, job.who = "boot", layer' = layer,
           NEW o \in seen.owed, Waiting(o) \/ Settled(o)
    PROVE  Waiting(o)' \/ Settled(o)'
<1>1. job # NoJob /\ ledger' = ledger
  BY DEF Applying, ApplyWriteOk, ApplyWriteFails, ApplySave, ManualWriteOk, ManualWriteFails
<1>2. pc = "reapply"
  BY <1>1, AnsweringParts DEF ShapeOK
<1>3. ~ Waiting(o)
  BY <1>2 DEF Waiting, Starting, Undecided
<1>4. \/ applied' = applied \/ applied' = NoProfile
      \/ applied' = [kind |-> job.kind, pair |-> job.pair]
  BY DEF Applying, ApplyWriteOk, ApplyWriteFails, ApplySave, ManualWriteOk, ManualWriteFails
<1>5. applied # NoProfile /\ job.kind = applied.kind /\ job.pair = applied.pair
  BY <1>1, AnsweringParts DEF BootJobOK
<1>6. applied' = applied \/ ~ Undervolted' \/ (Undervolted /\ applied'.pair = applied.pair)
  BY <1>4, <1>5 DEF Undervolted
<1> QED
  BY <1>1, <1>3, <1>6, SettledStays

(* What a service step may change while an answer is owed.                 *)
LEMMA ServiceKeepsOwed ==
    ASSUME Answering, "reset_full" \notin OperatorMenu, ServiceStep
    PROVE  OwedOK'
<1>1. /\ log'.tdr >= log.tdr /\ log'.tdr \in Nat
  BY AnsweringParts, ServiceReadsLog DEF ServiceStep
<1>2. recent' = recent \/ recent' = "none"
  BY DEF ServiceStep, Threads
<1>3. CASE seen'.owed = {}
  <2>1. recent' # "canary" \/ \A o \in seen'.owed : o.raced
    BY <1>3
  <2> QED
    BY <1>3 DEF OwedOK
<1>4. CASE seen'.owed # {}
  <2>1. seen'.owed = seen.owed /\ used'.ops = used.ops
    BY <1>4 DEF ServiceStep, Threads
  <2>2. /\ pc # "stopping" /\ forge.step = "idle" /\ (job = NoJob \/ job.who = "boot")
    BY <1>4, <2>1, AnsweringParts DEF OwedOK
  <2>3. ~ Operator
    <3>1. used \in [faults : Nat, ops : Nat, runs : Nat]
      BY AnsweringParts DEF TypeOK
    <3>2. ASSUME NEW op, Request(op) PROVE FALSE
      <4>1. used'.ops = used.ops + 1 /\ used.ops \in Nat
        BY <3>1, <3>2 DEF Request
      <4> QED
        BY <2>1, <4>1
    <3> QED
      BY <3>2 DEF Operator, ApplyForgeProfile, ApplySweepProfile, ApplyMemPeak, ManualApply, ManualReset,
         ResetGpuTuning, ResetGpuTuningFull, AcknowledgeIncident, ReportProfileUnstable, ForgeRequest,
         ForgeStop, StopReset
  <2>4. ~ Forge
    BY <2>2, AnsweringParts DEF ShapeOK, Forge, ForgeStart, ForgePreflight, ForgePreheatFails, ForgeMarkRunning,
       ForgeArm, ForgeWrite, ForgeDwell, ForgeReset, ForgeBlacklist, ForgeClear, ForgeEnd
  <2>5. ~ StopMark
    BY <2>2 DEF StopMark
  <2>6. ~ EpisodeForgotten
    BY DEF EpisodeForgotten, ResetGpuTuningFull, Request
  <2>7. \/ Startup \/ Applying
        \/ SurvivalTimer \/ MachineCrash \/ ServiceKilled \/ DriverResetWhileDown
    BY <2>3, <2>4, <2>5 DEF ServiceStep, Next, Environment
  <2>8. \A o \in seen.owed : o.raced \/ Waiting(o) \/ Settled(o)
    BY AnsweringParts DEF OwedOK
  <2>9. CASE Startup
    <3>1. pc' \in Starting \cup {"reapply", "ready"} /\ forge' = forge
          /\ (job' = job \/ job'.who = "boot")
      <4>1. CASE Start \/ ReconcileRecord \/ ReconcileCheckpoint \/ RecoverConsumeMarker
                 \/ RecoverDisarm \/ RecoverCommit \/ InitializeRebootGuard
        BY <4>1 DEF Start, ReconcileRecord, ReconcileCheckpoint, RecoverConsumeMarker,
           RecoverDisarm, RecoverCommit, InitializeRebootGuard, Starting, Undecided
      <4>2. CASE StartupReconcile \/ DemoteCondemn \/ DemoteClearApplied \/ PersistBaseline
        BY <4>2 DEF StartupReconcile, DemoteCondemn, DemoteClearApplied, PersistBaseline, Starting
      <4>3. CASE SkipReapply
        BY <4>3 DEF SkipReapply, OpenPipe
      <4>4. CASE ReapplyArm
        BY <4>4 DEF ReapplyArm
      <4> QED
        BY <2>9, <4>1, <4>2, <4>3, <4>4 DEF Startup
    <3>2. pc' \notin {"off", "stopping"}
      BY <3>1 DEF Starting, Undecided
    <3>3. layer' = layer
      BY <3>2 DEF ServiceStep, Threads
    <3>4. \A o \in seen.owed : o.raced \/ Waiting(o)' \/ Settled(o)'
      <4> SUFFICES ASSUME NEW o \in seen.owed, ~ o.raced PROVE Waiting(o)' \/ Settled(o)'
        OBVIOUS
      <4> QED
        BY <2>8, <2>9, <3>3, StartupKeepsFate
    <3> QED
      BY <1>1, <1>2, <2>1, <2>2, <3>1, <3>2, <3>4, OwedKept
  <2>10. CASE Applying
    <3>1. job # NoJob
      BY <2>10 DEF Applying, ApplyWriteOk, ApplyWriteFails, ApplySave, ManualWriteOk, ManualWriteFails
    <3>2. job.who = "boot" /\ pc = "reapply" /\ job \in Job
      BY <2>2, <3>1, AnsweringParts DEF ShapeOK, TypeOK
    <3>3. pc' \in {"reapply", "ready"} /\ forge' = forge
      BY <2>10, <3>2 DEF Applying, ApplyWriteOk, ApplyWriteFails, ApplySave, ManualWriteOk,
         ManualWriteFails, ApplyReturns, OpenPipe
    <3>4. job' = NoJob \/ job'.who = "boot"
      <4>1. CASE ApplyWriteOk
        BY <3>2, <4>1 DEF ApplyWriteOk, Job
      <4>2. CASE ApplyWriteFails \/ ApplySave \/ ManualWriteOk \/ ManualWriteFails
        BY <4>2 DEF ApplyWriteFails, ApplySave, ManualWriteOk, ManualWriteFails, ApplyReturns
      <4> QED
        BY <2>10, <4>1, <4>2 DEF Applying
    <3>5. layer' = layer
      BY <3>3 DEF ServiceStep, Threads
    <3>6. \A o \in seen.owed : o.raced \/ Waiting(o)' \/ Settled(o)'
      <4> SUFFICES ASSUME NEW o \in seen.owed, ~ o.raced PROVE Waiting(o)' \/ Settled(o)'
        OBVIOUS
      <4> QED
        BY <2>8, <2>10, <3>2, <3>5, ApplyingKeepsFate
    <3> QED
      BY <1>1, <1>2, <2>1, <2>2, <3>3, <3>4, <3>6, OwedKept
  <2>11. CASE SurvivalTimer
    <3>1. timers > 0 /\ flag' = NoFlag /\ UNCHANGED <<applied, baseline, ledger, pc, job, forge>>
      BY <2>11 DEF SurvivalTimer
    <3>2. pc' # "off"
      BY <3>1, AnsweringParts DEF ShapeOK
    <3>3. layer' = layer /\ recent' = recent
      BY <2>6, <3>2 DEF ServiceStep, Threads
    <3>4. \A o \in seen.owed : o.raced \/ Waiting(o)' \/ Settled(o)'
      <4> SUFFICES ASSUME NEW o \in seen.owed, ~ o.raced PROVE Waiting(o)' \/ Settled(o)'
        OBVIOUS
      <4> QED
        BY <2>8, <3>1, <3>3, FateFrame
    <3> QED
      BY <1>1, <2>1, <2>2, <3>1, <3>3, <3>4, OwedKept
  <2>12. CASE MachineCrash \/ ServiceKilled \/ DriverResetWhileDown
    <3>1. pc' = "off" /\ UNCHANGED <<applied, baseline, ledger>>
      BY <2>12 DEF MachineCrash, ServiceKilled, DriverResetWhileDown, ProcessGone
    <3>2. layer' = [l \in Layers |-> IdleLayer]
      BY <3>1 DEF ServiceStep, Threads
    <3>3. forge'.step = "idle" /\ (job' = NoJob \/ job'.who = "boot")
      <4>1. \/ forge' = IdleForge /\ job' = NoJob
            \/ forge' = forge /\ job' = job
        BY <2>12 DEF MachineCrash, ServiceKilled, DriverResetWhileDown, ProcessGone
      <4> QED
        BY <2>2, <4>1 DEF IdleForge
    <3>4. \A o \in seen.owed : o.raced \/ Waiting(o)' \/ Settled(o)'
      <4> SUFFICES ASSUME NEW o \in seen.owed, ~ o.raced PROVE Waiting(o)' \/ Settled(o)'
        OBVIOUS
      <4> QED
        BY <2>8, <3>1, <3>2, DownKeepsFate
    <3> QED
      BY <1>1, <1>2, <2>1, <3>1, <3>3, <3>4, OwedKept
  <2> QED
    BY <2>7, <2>9, <2>10, <2>11, <2>12
<1> QED
  BY <1>3, <1>4

-----------------------------------------------------------------------------
(* The environment.                                                        *)

(* A reset that has to be answered is ahead of the cursor, and the watcher *)
(* is on it.                                                               *)
LEMMA ResetIsNoted ==
    ASSUME Answering, DriverReset
    PROVE  OwedOK'
<1>1. /\ pc = "ready" /\ log'.tdr = log.tdr + 1
      /\ UNCHANGED <<flag, applied, ledger, baseline, pc, job, forge, layer, recent>>
  BY AnsweringParts DEF DriverReset, TypeOK, EventLog
<1>2. log.tdr \in Nat /\ log'.tdr >= log.tdr /\ log'.tdr \in Nat
  BY <1>1, AnsweringParts
<1>3. \A o \in seen.owed : o.raced \/ Waiting(o) \/ Settled(o)
  BY AnsweringParts DEF OwedOK
<1>4. \A o \in seen.owed : o.raced \/ Waiting(o)' \/ Settled(o)'
  <2> SUFFICES ASSUME NEW o \in seen.owed, ~ o.raced PROVE Waiting(o)' \/ Settled(o)'
    OBVIOUS
  <2> QED
    BY <1>1, <1>3, FateFrame
<1>5. CASE ~ Answerable
  <2>1. seen' = seen
    BY <1>5 DEF DriverReset
  <2>2. seen.owed # {} => forge'.step = "idle" /\ (job' = NoJob \/ job'.who = "boot")
    BY <1>1, AnsweringParts DEF OwedOK
  <2> QED
    BY <1>1, <1>2, <1>4, <2>1, <2>2, OwedKept
<1>6. CASE Answerable
  <2>1. PICK n : n = [event |-> log.tdr + 1, raced |-> FALSE, pair |-> applied.pair]
    OBVIOUS
  <2>2. n.event = log.tdr + 1 /\ n.raced = FALSE /\ n.pair = applied.pair
    BY <2>1
  <2>3. seen'.owed = seen.owed \cup {n}
    BY <1>6, <2>1, AnsweringParts DEF DriverReset, SeenType
  <2>4. /\ Undervolted /\ ~ Armed /\ job = NoJob /\ recent = "none"
        /\ baseline # NoBaseline /\ forge.step = "idle"
        /\ layer["watcher"].step \notin {"commit", "cooldown"}
        /\ layer["watcher"].step = "claim" => layer["watcher"].pair = applied.pair
    BY <1>6 DEF Answerable
  <2>5. layer["watcher"].step \notin RecoverySteps
    BY <2>4, AnsweringParts DEF ClaimOK
  <2>6. baseline < n.event /\ layer["watcher"].event < n.event
    <3>1. layer["watcher"].event \in Nat
      BY AnsweringParts DEF SentinelLayer
    <3> QED
      BY <1>2, <2>2, <2>4, <3>1, AnsweringParts DEF EventsOK
  <2>7. WatcherOnIt(n)
    BY <2>2, <2>4, <2>5, <2>6 DEF WatcherOnIt
  <2>8. Waiting(n)
    BY <1>1, <2>2, <2>4, <2>6, <2>7 DEF Waiting
  <2>9. Waiting(n)' \/ Settled(n)'
    BY <1>1, <2>8, FateFrame
  <2>10. n.pair # Stock /\ n.event <= log'.tdr
    BY <1>1, <1>2, <2>2, <2>4, AnsweringParts, UndervoltPoint, PairsAssumption
  <2>11. \A o \in seen.owed : o.pair # Stock /\ o.event <= log'.tdr
    BY <1>1, <1>2, AnsweringParts DEF OwedOK
  <2>12. \A o \in seen'.owed : o.raced \/ Waiting(o)' \/ Settled(o)'
    BY <1>4, <2>3, <2>9
  <2> QED
    BY <1>1, <2>3, <2>4, <2>10, <2>11, <2>12 DEF OwedOK
<1> QED
  BY <1>5, <1>6

(* The window does not close under a recovery.                             *)
LEMMA WindowKeepsOwed ==
    ASSUME Answering, EpisodeOver
    PROVE  OwedOK'
<1>1. /\ recent # "none" /\ recent' = "none"
      /\ \A l \in Layers : layer[l].step \notin RecoverySteps \cup {"decide", "claim"}
      /\ UNCHANGED <<flag, applied, ledger, baseline, pc, job, forge, log, layer, seen>>
  BY DEF EpisodeOver, vars
<1>2. ASSUME NEW o \in seen.owed, ~ o.raced PROVE Waiting(o)' \/ Settled(o)'
  <2>1. Waiting(o) \/ Settled(o)
    BY <1>2, AnsweringParts DEF OwedOK
  <2>2. CASE Waiting(o)
    <3>1. ~ WatcherOnIt(o)
      BY <1>1, AnsweringParts DEF WatcherOnIt, RecoverySteps
    <3>2. pc # "ready"
      BY <2>2, <3>1 DEF Waiting, Starting, Undecided
    <3> QED
      BY <1>1, <2>2, <3>2 DEF Waiting, Undervolted
  <2>3. CASE Settled(o)
    BY <1>1, <2>3, SettledStays
  <2> QED
    BY <2>1, <2>2, <2>3
<1>3. seen.owed # {} => pc' # "stopping" /\ forge'.step = "idle" /\ (job' = NoJob \/ job'.who = "boot")
  BY <1>1, AnsweringParts DEF OwedOK
<1>4. \A o \in seen.owed : o.raced \/ Waiting(o)' \/ Settled(o)'
  BY <1>2
<1>5. log'.tdr >= log.tdr /\ log'.tdr \in Nat
  BY <1>1, AnsweringParts
<1> QED
  BY <1>1, <1>3, <1>4, <1>5, OwedKept

-----------------------------------------------------------------------------
(* The threads.                                                            *)

(* A running service owes answers only outside Forge, with no apply under  *)
(* way.                                                                    *)
LEMMA ThreadsKeepOwed ==
    ASSUME Answering, Alive, UNCHANGED <<pc, job, log>>, forge' = forge, seen' = seen,
           recent' = recent \/ recent' = "watcher",
           \A o \in seen.owed : ~ o.raced => Waiting(o)' \/ Settled(o)'
    PROVE  OwedOK'
<1>1. seen.owed # {} => pc' # "stopping" /\ forge'.step = "idle" /\ (job' = NoJob \/ job'.who = "boot")
  BY AnsweringParts DEF OwedOK
<1>2. log'.tdr >= log.tdr /\ log'.tdr \in Nat
  BY AnsweringParts
<1>3. \A o \in seen.owed : o.raced \/ Waiting(o)' \/ Settled(o)'
  OBVIOUS
<1> QED
  BY <1>1, <1>2, <1>3, OwedKept

(* In a running service the watcher is on what waits.                      *)
LEMMA WaitingAlive ==
    ASSUME NEW o, Waiting(o), Alive
    PROVE  /\ pc = "ready" /\ ~ Armed /\ WatcherOnIt(o)
           /\ Undervolted /\ applied.pair = o.pair
           /\ baseline # NoBaseline /\ baseline < o.event
  BY DEF Waiting, Alive, Starting, Undecided

(* The watcher's record is rewritten.                                      *)
LEMMA WatcherWritten ==
    ASSUME Answering, NEW r, layer' = [layer EXCEPT !["watcher"] = r]
    PROVE  layer'["watcher"] = r
  BY AnsweringParts

(* The watcher moves the cursor only past what it has not to answer.       *)
LEMMA WatchKeepsOwed ==
    ASSUME Answering, Watch
    PROVE  OwedOK'
<1>0. Alive
  BY DEF Watch, WatcherPoll, WatcherHandles, WatcherHandsOff, WatcherHandoffRecord, WatcherCommit,
     WatcherCooldown, CanaryStarts, CanaryVerdict
<1>1. UNCHANGED <<flag, applied, log, pc, job>> /\ recent' = recent /\ seen' = seen
  BY DEF Watch, WatcherPoll, WatcherHandles, WatcherHandsOff, WatcherHandoffRecord, WatcherCommit,
     WatcherCooldown, CanaryStarts, CanaryVerdict, vars
<1>2. \A o \in seen.owed : o.raced \/ Waiting(o) \/ Settled(o)
  BY AnsweringParts DEF OwedOK
<1>3. PICK w \in SentinelLayer : w = layer["watcher"] /\ HoldsPoints(w)
  BY AnsweringParts
<1>4. CASE seen.owed = {}
  BY <1>1, <1>4 DEF OwedOK
<1>5. CASE WatcherPoll
  <2>1. UNCHANGED <<ledger, baseline, forge>> /\ w.step = "poll"
    BY <1>3, <1>5 DEF WatcherPoll
  <2>2. layer'["watcher"] = [w EXCEPT !.step = "event", !.event = log.tdr]
    BY <1>3, <1>5, WatcherWritten DEF WatcherPoll
  <2>3. layer'["watcher"].step = "event" /\ layer'["watcher"].to = w.to
    BY <2>2 DEF SentinelLayer
  <2>4. ASSUME NEW o \in seen.owed, ~ o.raced PROVE Waiting(o)' \/ Settled(o)'
    <3>1. CASE Waiting(o)
      BY <1>0, <1>1, <1>3, <2>1, <2>3, <3>1, WaitingAlive
         DEF Waiting, WatcherOnIt, Undervolted, Armed, RecoverySteps
    <3>2. CASE Settled(o)
      BY <1>1, <1>3, <2>1, <2>3, <3>2, SettledStays
    <3> QED
      BY <1>2, <2>4, <3>1, <3>2
  <2> QED
    BY <1>0, <1>1, <2>1, <2>4, ThreadsKeepOwed
<1>6. CASE WatcherHandles
  <2>1. UNCHANGED <<ledger, baseline, forge>> /\ w.step = "event"
    BY <1>3, <1>6 DEF WatcherHandles, vars
  <2>2. layer'["watcher"] = [w EXCEPT !.step = "decide", !.n = bumps]
    BY <1>3, <1>6, WatcherWritten DEF WatcherHandles
  <2>3. layer'["watcher"].step = "decide" /\ layer'["watcher"].to = w.to
    BY <2>2 DEF SentinelLayer
  <2>4. ASSUME NEW o \in seen.owed, ~ o.raced PROVE Waiting(o)' \/ Settled(o)'
    <3>1. CASE Waiting(o)
      BY <1>0, <1>1, <1>3, <2>1, <2>3, <3>1, WaitingAlive
         DEF Waiting, WatcherOnIt, Undervolted, Armed, RecoverySteps
    <3>2. CASE Settled(o)
      BY <1>1, <1>3, <2>1, <2>3, <3>2, SettledStays
    <3> QED
      BY <1>2, <2>4, <3>1, <3>2
  <2> QED
    BY <1>0, <1>1, <2>1, <2>4, ThreadsKeepOwed
<1>7. CASE WatcherHandsOff
  <2>1. seen.owed = {}
    BY <1>7, AnsweringParts DEF WatcherHandsOff, OwedOK
  <2> QED
    BY <1>4, <2>1
<1>8. CASE WatcherHandoffRecord
  <2>1. UNCHANGED <<ledger, baseline, forge>> /\ w.step = "handoff"
    BY <1>3, <1>8 DEF WatcherHandoffRecord
  <2>2. layer'["watcher"] = [w EXCEPT !.step = "handed", !.pair = Stock]
    BY <1>3, <1>8, WatcherWritten DEF WatcherHandoffRecord
  <2>3. layer'["watcher"].step = "handed" /\ layer'["watcher"].to = w.to
        /\ layer'["watcher"].event = w.event
    BY <2>2 DEF SentinelLayer
  <2>4. ASSUME NEW o \in seen.owed, ~ o.raced PROVE Waiting(o)' \/ Settled(o)'
    <3>1. CASE Waiting(o)
      BY <1>0, <1>1, <1>3, <2>1, <2>3, <3>1, WaitingAlive
         DEF Waiting, WatcherOnIt, Undervolted, Armed, RecoverySteps
    <3>2. CASE Settled(o)
      BY <1>1, <1>3, <2>1, <2>3, <3>2, SettledStays
    <3> QED
      BY <1>2, <2>4, <3>1, <3>2
  <2> QED
    BY <1>0, <1>1, <2>1, <2>4, ThreadsKeepOwed
<1>9. CASE WatcherCommit
  <2>1. UNCHANGED <<ledger, forge>> /\ w.step \in {"commit", "handed"} /\ baseline' = w.event
    BY <1>3, <1>9 DEF WatcherCommit
  <2>2. layer'["watcher"] = [IdleLayer EXCEPT !.step = IF w.step = "commit" THEN "cooldown" ELSE "poll"]
    BY <1>3, <1>9, WatcherWritten DEF WatcherCommit
  <2>3. layer'["watcher"].to = Stock /\ (w.step = "handed" => layer'["watcher"].step = "poll")
    BY <2>2 DEF IdleLayer
  <2>4. ASSUME NEW o \in seen.owed, ~ o.raced PROVE Waiting(o)' \/ Settled(o)'
    <3>1. CASE Waiting(o)
      <4>1. w.step = "handed" /\ w.event < o.event /\ recent = "none"
        BY <1>0, <1>3, <2>1, <3>1, WaitingAlive DEF WatcherOnIt
      <4>2. w.event # NoBaseline
        BY BaselineAssumption DEF SentinelLayer
      <4> QED
        BY <1>0, <1>1, <2>1, <2>3, <3>1, <4>1, <4>2, WaitingAlive
           DEF Waiting, WatcherOnIt, Undervolted, Armed, RecoverySteps
    <3>2. CASE Settled(o)
      BY <1>1, <2>1, <2>3, <3>2, SettledStays
    <3> QED
      BY <1>2, <2>4, <3>1, <3>2
  <2> QED
    BY <1>0, <1>1, <2>1, <2>4, ThreadsKeepOwed
<1>10. CASE WatcherCooldown
  <2>1. UNCHANGED <<ledger, forge>> /\ w.step = "cooldown"
    BY <1>3, <1>10 DEF WatcherCooldown
  <2>2. layer'["watcher"].to = Stock
    BY <1>10, WatcherWritten DEF WatcherCooldown, IdleLayer
  <2>3. ASSUME NEW o \in seen.owed, ~ o.raced PROVE Waiting(o)' \/ Settled(o)'
    <3>1. ~ Waiting(o)
      BY <1>0, <1>3, <2>1, WaitingAlive DEF WatcherOnIt
    <3> QED
      BY <1>1, <1>2, <2>1, <2>2, <2>3, <3>1, SettledStays
  <2> QED
    BY <1>0, <1>1, <2>1, <2>3, ThreadsKeepOwed
<1>11. CASE CanaryStarts \/ CanaryVerdict
  <2>1. UNCHANGED <<ledger, baseline, forge>>
    BY <1>11 DEF CanaryStarts, CanaryVerdict, vars
  <2>2. layer'["watcher"] = layer["watcher"]
    BY <1>11, AnsweringParts DEF CanaryStarts, CanaryVerdict, Go
  <2>3. ASSUME NEW o \in seen.owed, ~ o.raced PROVE Waiting(o)' \/ Settled(o)'
    BY <1>1, <1>2, <2>1, <2>2, <2>3, FateFrame
  <2> QED
    BY <1>0, <1>1, <2>1, <2>3, ThreadsKeepOwed
<1> QED
  BY <1>5, <1>6, <1>7, <1>8, <1>9, <1>10, <1>11 DEF Watch

(* handle_failure by the watcher: the recovery answers what waits.         *)
LEMMA WatcherAnswers ==
    ASSUME Answering, Recover("watcher"), NEW o \in seen.owed, Waiting(o) \/ Settled(o)
    PROVE  Waiting(o)' \/ Settled(o)'
<1>0. Alive
  BY DEF Recover, Decide, Claim, PersistRecord, PersistLedger, ResetToStock, FallbackArm,
     FallbackWrite, FallbackSave
<1>1. /\ layer \in [Layers -> SentinelLayer] /\ \A l \in Layers : HoldsPoints(layer[l])
      /\ "watcher" \in Layers /\ TypeOK /\ ShapeOK /\ ClaimOK
      /\ \A p \in Pairs : p.mv \in Nat
      /\ o.pair \in Pairs
  BY AnsweringParts
<1>2. PICK w \in SentinelLayer : w = layer["watcher"] /\ HoldsPoints(w)
  BY <1>1
<1>3. CASE Decide("watcher")
  <2>1. UNCHANGED <<applied, flag, ledger, baseline, pc, recent>> /\ w.step = "decide"
    BY <1>2, <1>3 DEF Decide, vars
  <2>2. CASE recent = "none" /\ Undervolted /\ ~ Armed
    <3>1. /\ layer'["watcher"].step = "claim" /\ layer'["watcher"].pair = applied.pair
          /\ layer'["watcher"].to \in Point
          /\ layer'["watcher"].to = Stock \/ Above(applied.pair, layer'["watcher"].to)
      <4>1. layer' = [layer EXCEPT !["watcher"] =
                        [@ EXCEPT !.step = "claim", !.pair = applied.pair,
                                  !.to = FallbackPoint("watcher")]]
        BY <1>3, <2>2 DEF Decide
      <4>2. /\ layer' \in [Layers -> SentinelLayer]
            /\ layer'["watcher"].step = "claim" /\ layer'["watcher"].pair = applied.pair
            /\ layer'["watcher"].to = Stock \/ Above(applied.pair, layer'["watcher"].to)
        BY <1>1, <1>2, <2>1, <2>2, <4>1, Decided
      <4>3. layer'["watcher"] \in SentinelLayer
        BY <1>1, <4>2
      <4> QED
        BY <4>2, <4>3 DEF SentinelLayer
    <3>2. CASE Waiting(o)
      BY <1>0, <2>1, <2>2, <3>1, <3>2, WaitingAlive
         DEF Waiting, WatcherOnIt, Undervolted, Armed, RecoverySteps
    <3>3. CASE Settled(o)
      <4>1. PICK to \in Point : to = layer'["watcher"].to
        BY <3>1
      <4>2. Above(o.pair, applied.pair) /\ applied.pair \in Pairs
        BY <1>1, <2>2, <3>3, UndervoltPoint DEF Settled
      <4>3. to = Stock \/ Above(o.pair, to)
        BY <1>1, <3>1, <4>1, <4>2 DEF Above, Point
      <4> QED
        BY <2>1, <3>3, <4>1, <4>3, SettledStays
    <3> QED
      BY <3>2, <3>3
  <2>3. CASE ~ (recent = "none" /\ Undervolted /\ ~ Armed)
    <3>1. layer' = DoneLayer("watcher")
      BY <1>3, <2>3 DEF Decide
    <3>2. layer'["watcher"].to = Stock
      BY <1>1, <3>1, Finished
    <3>3. ~ Waiting(o)
      BY <1>0, <1>2, <2>1, <2>3, WaitingAlive DEF WatcherOnIt
    <3> QED
      BY <2>1, <3>2, <3>3, SettledStays
  <2> QED
    BY <2>2, <2>3
<1>4. CASE Claim("watcher")
  <2>1. UNCHANGED <<applied, flag, ledger, baseline, pc>> /\ w.step = "claim"
    BY <1>2, <1>4 DEF Claim, vars
  <2>2. CASE recent = "none"
    <3>1. recent' = "watcher" /\ Go("watcher", "record")
      BY <1>4, <2>2 DEF Claim
    <3>2. /\ layer'["watcher"].step = "record" /\ layer'["watcher"].pair = w.pair
          /\ layer'["watcher"].to = w.to
      BY <1>1, <1>2, <2>1, <3>1, Moved
    <3>3. CASE Waiting(o)
      BY <1>0, <1>2, <2>1, <3>1, <3>2, <3>3, WaitingAlive
         DEF Waiting, WatcherOnIt, Undervolted, Armed, RecoverySteps
    <3>4. CASE Settled(o)
      BY <1>2, <2>1, <3>2, <3>4, SettledStays
    <3> QED
      BY <3>3, <3>4
  <2>3. CASE recent # "none"
    <3>1. layer' = DoneLayer("watcher")
      BY <1>4, <2>3 DEF Claim
    <3>2. layer'["watcher"].to = Stock
      BY <1>1, <3>1, Finished
    <3>3. ~ Waiting(o)
      BY <1>0, <1>2, <2>1, <2>3, WaitingAlive DEF WatcherOnIt
    <3> QED
      BY <2>1, <3>2, <3>3, SettledStays
  <2> QED
    BY <2>2, <2>3
<1>5. CASE PersistRecord("watcher")
  <2>1. UNCHANGED <<applied, flag, ledger, baseline, pc, recent>> /\ w.step = "record"
        /\ Go("watcher", "ledger")
    BY <1>2, <1>5 DEF PersistRecord
  <2>2. /\ layer'["watcher"].step = "ledger" /\ layer'["watcher"].pair = w.pair
        /\ layer'["watcher"].to = w.to
    BY <1>1, <1>2, <2>1, Moved
  <2>3. CASE Waiting(o)
    <3>1. recent = "watcher" /\ w.pair = o.pair
      BY <1>0, <1>2, <2>1, <2>3, WaitingAlive DEF WatcherOnIt, RecoverySteps
    <3> QED
      BY <1>0, <2>1, <2>2, <2>3, <3>1, WaitingAlive
         DEF Waiting, WatcherOnIt, Undervolted, Armed
  <2>4. CASE Settled(o)
    BY <1>2, <2>1, <2>2, <2>4, SettledStays
  <2> QED
    BY <2>3, <2>4
<1>6. CASE PersistLedger("watcher")
  <2>1. UNCHANGED <<applied, flag, baseline, pc, recent>> /\ w.step = "ledger"
        /\ Go("watcher", "reset") /\ ledger' = ledger \cup {Pair2(w.pair)}
    BY <1>2, <1>6 DEF PersistLedger
  <2>2. /\ layer'["watcher"].step = "reset" /\ layer'["watcher"].pair = w.pair
        /\ layer'["watcher"].to = w.to
    BY <1>1, <1>2, <2>1, Moved
  <2>3. CASE Waiting(o)
    <3>1. recent = "watcher" /\ w.pair = o.pair
      BY <1>0, <1>2, <2>1, <2>3, WaitingAlive DEF WatcherOnIt, RecoverySteps
    <3> QED
      BY <1>0, <2>1, <2>2, <2>3, <3>1, WaitingAlive
         DEF Waiting, WatcherOnIt, Undervolted, Armed
  <2>4. CASE Settled(o)
    BY <1>2, <2>1, <2>2, <2>4, SettledStays
  <2> QED
    BY <2>3, <2>4
<1>7. CASE ResetToStock("watcher")
  <2>1. /\ w.step = "reset" /\ applied' = NoProfile /\ ledger' = ledger
        /\ \/ layer' = DoneLayer("watcher")
           \/ w.to # Stock /\ Go("watcher", "arm")
    BY <1>2, <1>7 DEF ResetToStock, Go
  <2>2. ~ Undervolted'
    BY <2>1 DEF Undervolted
  <2>3. layer'["watcher"].to = Stock \/ layer'["watcher"].to = w.to
    BY <1>1, <1>2, <2>1, Finished, Moved
  <2>4. CASE Waiting(o)
    <3>1. w.pair = o.pair /\ Pair2(o.pair) \in ledger
      BY <1>0, <1>2, <2>1, <2>4, WaitingAlive DEF WatcherOnIt, RecoverySteps
    <3>2. w.to = Stock \/ Above(w.pair, w.to)
      BY <1>2, <2>1 DEF HoldsPoints, Deciding, RecoverySteps
    <3>3. layer'["watcher"].to = Stock \/ Above(o.pair, layer'["watcher"].to)
      BY <2>3, <3>1, <3>2
    <3> QED
      BY <2>1, <2>2, <3>1, <3>3 DEF Settled
  <2>5. CASE Settled(o)
    BY <1>2, <2>1, <2>2, <2>3, <2>5, SettledStays
  <2> QED
    BY <2>4, <2>5
<1>8. CASE FallbackArm("watcher") \/ FallbackWrite("watcher") \/ FallbackSave("watcher")
  <2>1. w.step \in {"arm", "write", "save"} /\ ledger' = ledger
    BY <1>2, <1>8 DEF FallbackArm, FallbackWrite, FallbackSave
  <2>2. ~ Waiting(o)
    BY <1>0, <1>2, <2>1, WaitingAlive DEF WatcherOnIt, RecoverySteps
  <2>3. layer'["watcher"].to = Stock \/ layer'["watcher"].to = w.to
    <3>1. CASE layer' = DoneLayer("watcher")
      BY <1>1, <3>1, Finished
    <3>2. CASE layer' # DoneLayer("watcher")
      <4>1. \/ w.step = "arm" /\ Go("watcher", "write")
            \/ w.step = "write" /\ Go("watcher", "save")
        BY <1>2, <1>8, <3>2 DEF FallbackArm, FallbackWrite, FallbackSave
      <4> QED
        BY <1>1, <1>2, <4>1, Moved
    <3> QED
      BY <3>1, <3>2
  <2>4. \/ applied' = applied \/ applied' = NoProfile
        \/ applied' = [kind |-> "F2", pair |-> w.to]
    BY <1>2, <1>8 DEF FallbackArm, FallbackWrite, FallbackSave
  <2>5. w.to # Stock
    BY <1>2, <2>1 DEF HoldsPoints
  <2>6. Above(o.pair, w.to)
    BY <1>1, <1>2, <2>2, <2>5 DEF Settled
  <2>7. applied' = applied \/ ~ Undervolted' \/ Above(o.pair, applied'.pair)
    BY <2>4, <2>6 DEF Undervolted
  <2> QED
    BY <1>2, <2>1, <2>2, <2>3, <2>7, SettledStays
<1> QED
  BY <1>3, <1>4, <1>5, <1>6, <1>7, <1>8 DEF Recover

(* Recovering, the canary has taken every answer upon itself; before that, *)
(* it touches nothing an answer depends on.                                *)
LEMMA CanaryKeepsOwed ==
    ASSUME Answering, Recover("canary")
    PROVE  OwedOK'
<1>0. Alive /\ UNCHANGED <<pc, job, forge, baseline>> /\ log'.tdr = log.tdr
  BY AnsweringParts DEF Recover, Decide, Claim, PersistRecord, PersistLedger, ResetToStock, FallbackArm,
     FallbackWrite, FallbackSave, vars, TypeOK, EventLog
<1>1. /\ layer \in [Layers -> SentinelLayer] /\ \A l \in Layers : HoldsPoints(layer[l])
      /\ "canary" \in Layers /\ "watcher" \in Layers /\ "watcher" # "canary"
  BY AnsweringParts
<1>2. \A o \in seen.owed : o.raced \/ Waiting(o) \/ Settled(o)
  BY AnsweringParts DEF OwedOK
<1>3. log'.tdr >= log.tdr /\ log'.tdr \in Nat
  BY <1>0, AnsweringParts
<1>4. seen.owed # {} => pc' # "stopping" /\ forge'.step = "idle" /\ (job' = NoJob \/ job'.who = "boot")
  BY <1>0, AnsweringParts DEF OwedOK
<1>5. CASE Decide("canary") \/ (Claim("canary") /\ recent # "none")
  <2>1. UNCHANGED <<applied, flag, ledger, recent, seen>>
    BY <1>5 DEF Decide, Claim, vars
  <2>2. layer'["watcher"] = layer["watcher"]
    BY <1>1, <1>5 DEF Decide, Claim, DoneLayer
  <2>3. \A o \in seen.owed : o.raced \/ Waiting(o)' \/ Settled(o)'
    <3> SUFFICES ASSUME NEW o \in seen.owed, ~ o.raced PROVE Waiting(o)' \/ Settled(o)'
      OBVIOUS
    <3> QED
      BY <1>0, <1>2, <2>1, <2>2, FateFrame
  <2> QED
    BY <1>3, <1>4, <2>1, <2>3, OwedKept
<1>6. CASE Claim("canary") /\ recent = "none"
  <2>1. seen' = [seen EXCEPT !.owed = {[o EXCEPT !.raced = TRUE] : o \in @}]
    BY <1>6 DEF Claim
  <2>2. seen'.owed = {[o EXCEPT !.raced = TRUE] : o \in seen.owed}
    BY <2>1, AnsweringParts DEF SeenType
  <2>3. ASSUME NEW n \in seen'.owed
        PROVE  n.raced /\ n.pair # Stock /\ n.event <= log'.tdr /\ seen.owed # {}
    <3>1. PICK o \in seen.owed : n = [o EXCEPT !.raced = TRUE]
      BY <2>2
    <3>2. n.raced /\ n.pair = o.pair /\ n.event = o.event
      BY <3>1, AnsweringParts DEF OwedType
    <3>3. o.pair # Stock /\ o.event <= log.tdr
      BY AnsweringParts DEF OwedOK
    <3> QED
      BY <1>0, <3>2, <3>3
  <2> QED
    BY <1>4, <2>3 DEF OwedOK
<1>7. CASE ~ Decide("canary") /\ ~ Claim("canary")
  <2>1. layer["canary"].step \in RecoverySteps
    BY <1>7 DEF Recover, PersistRecord, PersistLedger, ResetToStock, FallbackArm, FallbackWrite,
       FallbackSave, RecoverySteps
  <2>2. recent = "canary"
    BY <2>1, AnsweringParts DEF ClaimOK
  <2>3. \A o \in seen.owed : o.raced
    BY <2>2, AnsweringParts DEF OwedOK
  <2>4. seen'.owed = seen.owed
    BY <1>7, AnsweringParts DEF Recover, PersistRecord, PersistLedger, ResetToStock, FallbackArm, FallbackWrite,
       FallbackSave, SeenType
  <2> QED
    BY <1>3, <1>4, <2>2, <2>3, <2>4, OwedKept
<1> QED
  BY <1>5, <1>6, <1>7

(* handle_failure by the watcher, the notes together.                      *)
LEMMA WatcherKeepsOwed ==
    ASSUME Answering, Recover("watcher")
    PROVE  OwedOK'
<1>1. UNCHANGED <<pc, job, forge, baseline>> /\ log'.tdr = log.tdr
  BY AnsweringParts DEF Recover, Decide, Claim, PersistRecord, PersistLedger, ResetToStock, FallbackArm,
     FallbackWrite, FallbackSave, vars, TypeOK, EventLog
<1>2. seen'.owed = seen.owed /\ (recent' = recent \/ recent' = "watcher")
  BY AnsweringParts DEF Recover, Decide, Claim, PersistRecord, PersistLedger, ResetToStock, FallbackArm,
     FallbackWrite, FallbackSave, SeenType
<1>3. log'.tdr >= log.tdr /\ log'.tdr \in Nat
  BY <1>1, AnsweringParts
<1>4. seen.owed # {} => pc' # "stopping" /\ forge'.step = "idle" /\ (job' = NoJob \/ job'.who = "boot")
  BY <1>1, AnsweringParts DEF OwedOK
<1>5. \A o \in seen.owed : o.raced \/ Waiting(o)' \/ Settled(o)'
  <2> SUFFICES ASSUME NEW o \in seen.owed, ~ o.raced PROVE Waiting(o)' \/ Settled(o)'
    OBVIOUS
  <2>1. Waiting(o) \/ Settled(o)
    BY AnsweringParts DEF OwedOK
  <2> QED
    BY <2>1, WatcherAnswers
<1> QED
  BY <1>2, <1>3, <1>4, <1>5, OwedKept

-----------------------------------------------------------------------------
(* The theorems.                                                           *)

(* Every step keeps the account of the events.                             *)
LEMMA OwedNext ==
    ASSUME Answering, "reset_full" \notin OperatorMenu, [SNext]_svars
    PROVE  OwedOK'
<1>1. CASE ServiceStep
  BY <1>1, ServiceKeepsOwed
<1>2. CASE DriverReset
  BY <1>2, ResetIsNoted
<1>3. CASE EpisodeOver
  BY <1>3, WindowKeepsOwed
<1>4. CASE Watch
  BY <1>4, WatchKeepsOwed
<1>5. CASE \E l \in Layers : Recover(l)
  BY <1>5, WatcherKeepsOwed, CanaryKeepsOwed DEF Layers
<1>6. CASE UNCHANGED svars
  <2>1. UNCHANGED <<flag, applied, ledger, baseline, pc, job, forge, log, layer, seen, recent>>
    BY <1>6 DEF svars, vars, sentinelVars
  <2> QED
    BY <2>1, AnsweringParts DEF OwedOK, Waiting, Settled, WatcherOnIt, Undervolted, Armed
<1> QED
  BY <1>1, <1>2, <1>3, <1>4, <1>5, <1>6 DEF SNext

(* While it waits, an event is ahead of the cursor; settled, it is         *)
(* answered.                                                               *)
LEMMA OwedIsAnswered ==
    ASSUME Answering
    PROVE  CursorPassesOnlyCondemned
<1> SUFFICES ASSUME NEW o \in seen.owed, Passed(o), ~ o.raced PROVE Answered(o)
  BY DEF CursorPassesOnlyCondemned
<1>1. /\ Waiting(o) \/ Settled(o)
      /\ o.event \in Nat /\ baseline \in Nat /\ o.pair \in Pairs /\ o.pair.mv \in Nat
      /\ ledger \subseteq Nat \X Nat
  BY AnsweringParts DEF OwedOK, Passed, TypeOK
<1>2. ~ Waiting(o)
  BY <1>1 DEF Waiting, Passed
<1>3. Pair2(o.pair) \in ledger /\ (Undervolted => applied.pair.mv > o.pair.mv)
  BY <1>1, <1>2 DEF Settled, Above
<1> QED
  BY <1>1, <1>3 DEF Answered

(* Every variable of the service and of the threads stays in its domain,   *)
(* whatever the threads do between the service's steps.                    *)
THEOREM SentinelTypeCorrect == SSpec => []STypeOK
<1>1. SInit => SentinelShape
  BY ShapeInit
<1>2. SentinelShape /\ [SNext]_svars => SentinelShape'
  BY ShapeNextS
<1>3. SentinelShape => STypeOK
  BY DEF SentinelShape
<1> QED
  BY <1>1, <1>2, <1>3, PTL DEF SSpec

(* The cursor does not move past a driver reset that hit a settled         *)
(* undervolt until the undervolt is condemned and no longer applied,       *)
(* wherever the recovery or the next start is cut short.  Without the full *)
(* reset, which releases the claim under a running recovery.               *)
THEOREM CondemnedBehindCursor ==
    ASSUME "reset_full" \notin OperatorMenu
    PROVE  SSpec => []CursorPassesOnlyCondemned
<1>1. SInit => SentinelShape /\ AnswerInv
  <2> SUFFICES ASSUME SInit PROVE SentinelShape /\ AnswerInv
    OBVIOUS
  <2>1. SentinelShape
    BY ShapeInit
  <2>2. seen.owed = {} /\ job = NoJob /\ baseline = NoBaseline /\ log.tdr = OldTdr /\ recent = "none"
        /\ layer["watcher"].event = 0
    BY DEF SInit, Init, Unowed, IdleLayer, Layers
  <2>3. AnswerInv
    BY <2>2, BoundsAssumption DEF AnswerInv, EventsOK, BootJobOK, OwedOK
  <2> QED
    BY <2>1, <2>3
<1>2. SentinelShape /\ AnswerInv /\ LadderInv /\ [SNext]_svars => (SentinelShape /\ AnswerInv)'
  <2> SUFFICES ASSUME SentinelShape, AnswerInv, LadderInv, [SNext]_svars
               PROVE  (SentinelShape /\ AnswerInv)'
    OBVIOUS
  <2>1. Answering
    BY DEF Answering, LadderInv
  <2>2. EventsOK /\ BootJobOK
    BY DEF AnswerInv
  <2> QED
    BY <2>1, <2>2, ShapeNextS, EventsNext, BootJobNext, OwedNext DEF AnswerInv
<1>3. SentinelShape /\ AnswerInv /\ LadderInv => CursorPassesOnlyCondemned
  BY OwedIsAnswered DEF Answering, LadderInv
<1>4. SSpec => []LadderInv
  BY LadderInvariance
<1> QED
  BY <1>1, <1>2, <1>3, <1>4, PTL DEF SSpec
-----------------------------------------------------------------------------
(* Closed until Windows reboots.  The latch is local to a process: the     *)
(* watcher sets it, a new process reads it off the event log, and in       *)
(* between there is a start sequence, and a watcher that has not polled.   *)

Running == {"ready", "stopping"}

BeforeGuard == {"off", "disarm", "commit", "guard"} \cup Undecided

(* A watcher with an event in hand has closed the GPU; a driver reset of   *)
(* this boot has done so, unless the start has not come to its guard or    *)
(* the watcher has not seen it.                                            *)
ClosedInv ==
    /\ pc \notin Running => layer["watcher"].step = "poll"
    /\ layer["watcher"].step # "poll" => latch
    /\ cursor <= log.tdr
    /\ log.thisBoot => \/ latch
                       \/ pc \in BeforeGuard
                       \/ pc \in Running /\ cursor # log.tdr

(* Only the guard of a start sets the latch anew, nothing passes it by,    *)
(* and the event log is the driver's.                                      *)
LEMMA ServiceKeepsLatch ==
    ASSUME TypeOK, ShapeOK, Next, pc' # "off"
    PROVE  /\ log'.tdr = log.tdr /\ log'.thisBoot = log.thisBoot
           /\ \/ pc = "guard" /\ pc' = "tdr" /\ latch' = log.thisBoot
              \/ /\ latch' = latch
                 /\ pc \in BeforeGuard => pc' \in BeforeGuard
                 /\ pc \in Running => pc' \in Running /\ (pc = "ready" \/ pc' # "ready")
<1>1. log \in EventLog
  BY DEF TypeOK
<1> USE DEF Running, BeforeGuard, Undecided
<1>2. CASE Startup
  BY <1>2 DEF Startup, Start, ReconcileRecord, ReconcileCheckpoint, RecoverConsumeMarker,
     RecoverDisarm, RecoverCommit, InitializeRebootGuard, StartupReconcile, DemoteCondemn,
     DemoteClearApplied, PersistBaseline, SkipReapply, ReapplyArm, OpenPipe
<1>3. CASE Applying
  <2>1. latch' = latch /\ (log' = log \/ log' = [log EXCEPT !.inSession = FALSE])
    BY <1>3 DEF Applying, ApplyWriteOk, ApplyWriteFails, ApplySave, ManualWriteOk, ManualWriteFails
  <2>2. pc' = pc \/ (pc = "reapply" /\ pc' = "ready")
    BY <1>3 DEF Applying, ApplyWriteOk, ApplyWriteFails, ApplySave, ManualWriteOk, ManualWriteFails,
       ApplyReturns, OpenPipe, ShapeOK
  <2> QED
    BY <1>1, <2>1, <2>2 DEF EventLog
<1>4. CASE Operator
  BY <1>4 DEF Operator, ApplyForgeProfile, ApplySweepProfile, ApplyMemPeak, BeginApply,
     ManualApply, ManualReset, ResetGpuTuning, ResetGpuTuningFull,
     AcknowledgeIncident, ReportProfileUnstable, ForgeRequest, ForgeStop, StopReset, Request
<1>5. CASE Forge
  BY <1>5 DEF Forge, ForgeStart, ForgePreflight, ForgePreheatFails, ForgeMarkRunning, ForgeArm,
     ForgeWrite, ForgeDwell, ForgeReset, ForgeBlacklist, ForgeClear, ForgeEnd
<1>6. CASE Environment
  BY <1>6 DEF Environment, SurvivalTimer, MachineCrash, ServiceKilled, DriverResetWhileDown,
     StopMark, ProcessGone
<1> QED
  BY <1>2, <1>3, <1>4, <1>5, <1>6 DEF Next

(* So the service keeps the GPU closed; the threads are spawned with what  *)
(* the log shows as handled.                                               *)
LEMMA ServiceKeepsClosed ==
    ASSUME SentinelShape, ClosedInv, ServiceStep
    PROVE  ClosedInv'
<1>1. TypeOK /\ ShapeOK /\ Next /\ "watcher" \in Layers /\ log.tdr \in Nat /\ cursor \in Nat
  BY ShapeParts DEF ServiceStep, Service, Layers, TypeOK, EventLog
<1>2. CASE pc' = "off"
  <2>1. layer'["watcher"].step = "poll" /\ cursor' = 0
    BY <1>1, <1>2 DEF ServiceStep, Threads, IdleLayer
  <2>2. log'.tdr \in Nat
    BY <1>1, ServiceReadsLog
  <2> QED
    BY <1>2, <2>1, <2>2 DEF ClosedInv, BeforeGuard
<1>3. CASE pc' # "off"
  <2>1. /\ log'.tdr = log.tdr /\ log'.thisBoot = log.thisBoot
        /\ \/ pc = "guard" /\ pc' = "tdr" /\ latch' = log.thisBoot
           \/ /\ latch' = latch
              /\ pc \in BeforeGuard => pc' \in BeforeGuard
              /\ pc \in Running => pc' \in Running /\ (pc = "ready" \/ pc' # "ready")
    BY <1>1, <1>3, ServiceKeepsLatch
  <2>2. layer' = layer /\ cursor' = IF Spawned THEN log.tdr ELSE cursor
    BY <1>3 DEF ServiceStep, Threads
  <2>3. cursor' <= log'.tdr
    BY <1>1, <2>1, <2>2 DEF ClosedInv
  <2>4. CASE pc = "guard"
    BY <2>1, <2>2, <2>3, <2>4 DEF ClosedInv, Running, BeforeGuard
  <2>5. CASE pc \in BeforeGuard \ {"guard"}
    BY <2>1, <2>2, <2>3, <2>5 DEF ClosedInv, Running, BeforeGuard, Undecided
  <2>6. CASE pc \in Running
    <3>1. ~ Spawned
      BY <2>1, <2>6 DEF Spawned, Running, BeforeGuard
    <3> QED
      BY <2>1, <2>2, <2>3, <2>6, <3>1 DEF ClosedInv, Running, BeforeGuard
  <2>7. CASE pc \notin BeforeGuard \cup Running
    BY <2>1, <2>2, <2>3, <2>7 DEF ClosedInv, BeforeGuard
  <2> QED
    BY <2>4, <2>5, <2>6, <2>7
<1> QED
  BY <1>2, <1>3

(* A driver reset the watcher has not seen is ahead of its cursor.         *)
LEMMA ResetKeepsClosed ==
    ASSUME SentinelShape, ClosedInv, DriverReset
    PROVE  ClosedInv'
<1>1. log \in EventLog /\ log.tdr \in Nat /\ cursor \in Nat
  BY ShapeParts DEF Service, TypeOK, EventLog
<1>2. pc = "ready" /\ log'.tdr = log.tdr + 1 /\ UNCHANGED <<pc, latch, layer, cursor>>
  BY <1>1 DEF DriverReset, EventLog
<1> QED
  BY <1>1, <1>2 DEF ClosedInv, Running

(* The watcher closes the GPU before anything else.                        *)
LEMMA WatchKeepsClosed ==
    ASSUME SentinelShape, EventsOK, ClosedInv, Watch
    PROVE  ClosedInv'
<1>1. /\ pc \in Running /\ pc' = pc /\ log' = log
      /\ log.tdr \in Nat /\ cursor \in Nat /\ layer["watcher"].event \in Nat
      /\ layer \in [Layers -> SentinelLayer] /\ "watcher" \in Layers /\ "canary" \in Layers
  <2>1. layer \in [Layers -> SentinelLayer] /\ log.tdr \in Nat /\ cursor \in Nat
    BY ShapeParts DEF Service, TypeOK, EventLog
  <2>2. layer["watcher"].event \in Nat
    BY <2>1 DEF Layers, SentinelLayer
  <2> QED
    BY <2>1, <2>2 DEF Watch, WatcherPoll, WatcherHandles, WatcherHandsOff, WatcherHandoffRecord,
       WatcherCommit, WatcherCooldown, CanaryStarts, CanaryVerdict, vars, Alive, Running, Layers
<1>2. cursor' \in {cursor, layer["watcher"].event, log.tdr}
  BY DEF Watch, WatcherPoll, WatcherHandles, WatcherHandsOff, WatcherHandoffRecord,
     WatcherCommit, WatcherCooldown, CanaryStarts, CanaryVerdict
<1>3. cursor' <= log'.tdr
  BY <1>1, <1>2 DEF ClosedInv, EventsOK
<1>4. CASE CanaryStarts \/ CanaryVerdict
  <2>1. layer'["watcher"] = layer["watcher"] /\ UNCHANGED <<cursor, latch>>
    BY <1>1, <1>4 DEF CanaryStarts, CanaryVerdict, Go, vars
  <2> QED
    BY <1>1, <1>3, <2>1 DEF ClosedInv
<1>5. CASE ~ (CanaryStarts \/ CanaryVerdict)
  <2>1. latch'
    BY <1>5 DEF Watch, WatcherPoll, WatcherHandles, WatcherHandsOff, WatcherHandoffRecord,
       WatcherCommit, WatcherCooldown, vars, ClosedInv
  <2> QED
    BY <1>1, <1>3, <2>1 DEF ClosedInv
<1> QED
  BY <1>4, <1>5

(* A recovery releases neither the latch nor the event.                    *)
LEMMA RecoverKeepsClosed ==
    ASSUME SentinelShape, ClosedInv, NEW l \in Layers, Recover(l)
    PROVE  ClosedInv'
<1>1. layer \in [Layers -> SentinelLayer] /\ log \in EventLog
  BY ShapeParts DEF Service, TypeOK
<1>2. /\ pc \in Running /\ layer[l].step # "poll"
      /\ UNCHANGED <<pc, latch, cursor>>
  BY DEF Recover, Decide, Claim, PersistRecord, PersistLedger, ResetToStock, FallbackArm,
     FallbackWrite, FallbackSave, vars, Alive, Running
<1>3. log'.tdr = log.tdr /\ log'.thisBoot = log.thisBoot
  <2>1. log' = log \/ log' = [log EXCEPT !.inSession = FALSE]
    BY DEF Recover, Decide, Claim, PersistRecord, PersistLedger, ResetToStock, FallbackArm,
       FallbackWrite, FallbackSave, vars
  <2> QED
    BY <1>1, <2>1 DEF EventLog
<1>4. CASE l = "watcher"
  <2>1. latch
    BY <1>2, <1>4 DEF ClosedInv
  <2> QED
    BY <1>2, <1>3, <2>1 DEF ClosedInv
<1>5. CASE l # "watcher"
  <2>1. layer'["watcher"] = layer["watcher"]
    BY <1>1, <1>5 DEF Recover, Decide, Claim, PersistRecord, PersistLedger, ResetToStock,
       FallbackArm, FallbackWrite, FallbackSave, Go, DoneLayer, Layers
  <2> QED
    BY <1>2, <1>3, <2>1 DEF ClosedInv
<1> QED
  BY <1>4, <1>5

LEMMA ClosedNext ==
    ASSUME SentinelShape, EventsOK, ClosedInv, [SNext]_svars
    PROVE  ClosedInv'
<1>1. CASE EpisodeOver \/ UNCHANGED svars
  BY <1>1 DEF EpisodeOver, svars, vars, sentinelVars, ClosedInv
<1> QED
  BY <1>1, ServiceKeepsClosed, ResetKeepsClosed, WatchKeepsClosed, RecoverKeepsClosed DEF SNext

(* What takes the GPU for the operator or for the boot has looked at the   *)
(* latch.                                                                  *)
LEMMA TakenWithOpenLatch ==
    ASSUME SNext, job = NoJob, job' # NoJob
    PROVE  ~ latch /\ pc \in {"reapply", "ready"}
<1>1. ServiceStep
  BY DEF SNext, DriverReset, EpisodeOver, Watch, WatcherPoll, WatcherHandles, WatcherHandsOff,
     WatcherHandoffRecord, WatcherCommit, WatcherCooldown, CanaryStarts, CanaryVerdict, Recover,
     Decide, Claim, PersistRecord, PersistLedger, ResetToStock, FallbackArm, FallbackWrite,
     FallbackSave, vars
<1>2. CASE Startup
  BY <1>2 DEF Startup, Start, ReconcileRecord, ReconcileCheckpoint, RecoverConsumeMarker,
     RecoverDisarm, RecoverCommit, InitializeRebootGuard, StartupReconcile, DemoteCondemn,
     DemoteClearApplied, PersistBaseline, SkipReapply, ReapplyArm, MayReapply
<1>3. CASE Applying
  BY <1>3 DEF Applying, ApplyWriteOk, ApplyWriteFails, ApplySave, ManualWriteOk, ManualWriteFails
<1>4. CASE Operator
  BY <1>4 DEF Operator, ApplyForgeProfile, ApplySweepProfile, ApplyMemPeak, BeginApply,
     ManualApply, ManualReset, ResetGpuTuning, ResetGpuTuningFull,
     AcknowledgeIncident, ReportProfileUnstable, ForgeRequest, ForgeStop, StopReset, Request
<1>5. CASE Forge
  BY <1>5 DEF Forge, ForgeStart, ForgePreflight, ForgePreheatFails, ForgeMarkRunning, ForgeArm,
     ForgeWrite, ForgeDwell, ForgeReset, ForgeBlacklist, ForgeClear, ForgeEnd
<1>6. CASE Environment
  BY <1>6 DEF Environment, SurvivalTimer, MachineCrash, ServiceKilled, DriverResetWhileDown,
     StopMark, ProcessGone
<1> QED
  BY <1>1, <1>2, <1>3, <1>4, <1>5, <1>6 DEF ServiceStep, Next

(* Until Windows reboots, nothing new may write to the GPU after a driver  *)
(* reset the service knows of, through kills, stops and starts of its      *)
(* process ("Keep every GPU-mutating path closed until Windows reboots").  *)
THEOREM ClosedAfterReset == SSpec => ClosedUntilReboot
<1> DEFINE Inv == SentinelShape /\ EventsOK /\ ClosedInv
<1>1. SInit => Inv
  <2> SUFFICES ASSUME SInit PROVE Inv
    OBVIOUS
  <2>1. /\ baseline = NoBaseline /\ log.tdr = OldTdr /\ ~ log.thisBoot
        /\ layer["watcher"] = IdleLayer /\ cursor = 0 /\ pc = "off"
    BY DEF SInit, Init, Layers
  <2>2. EventsOK
    BY <2>1, BoundsAssumption DEF EventsOK, IdleLayer
  <2>3. ClosedInv
    BY <2>1, BoundsAssumption DEF ClosedInv, IdleLayer
  <2> QED
    BY <2>2, <2>3, ShapeInit
<1>2. Inv /\ [SNext]_svars => Inv'
  BY ShapeNextS, EventsNext, ClosedNext
<1>3. Inv /\ [SNext]_svars => [job = NoJob /\ job' # NoJob => ~ KnownReset]_svars
  <2> SUFFICES ASSUME Inv, SNext, job = NoJob, job' # NoJob, KnownReset
               PROVE  FALSE
    OBVIOUS
  <2>1. ~ latch /\ pc \in {"reapply", "ready"}
    BY TakenWithOpenLatch
  <2>2. log.thisBoot /\ (pc = "ready" => cursor = log.tdr \/ layer["watcher"].step # "poll")
    BY DEF KnownReset
  <2> QED
    BY <2>1, <2>2 DEF ClosedInv, Running, BeforeGuard, Undecided
<1> QED
  BY <1>1, <1>2, <1>3, PTL DEF SSpec, ClosedUntilReboot
=============================================================================
