-------------------------- MODULE CandidateMotorProofs --------------------------
(***************************************************************************)
(* Lemmas about the candidate motor, for the two modules that drive it:    *)
(* whatever a step of it does to the flag and to the GPU is a step of      *)
(* GuardedWrite, and what a caller may do around it keeps that so.         *)
(***************************************************************************)
EXTENDS CandidateMotor, WellFoundedInduction, TLAPS

-----------------------------------------------------------------------------
(* The least and the greatest of a set of indexes or voltages.             *)

LEMMA MinMember ==
    ASSUME NEW S \in SUBSET Nat, S # {}
    PROVE  Min(S) \in S /\ \A y \in S : Min(S) <= y
<1>1. \E x \in S : \A y \in S : ~ (<<y, x>> \in OpToRel(<, Nat))
  BY NatLessThanWellFounded, WFMin
<1>2. \A x, y \in Nat : <<y, x>> \in OpToRel(<, Nat) <=> y < x
  BY DEF OpToRel
<1>3. \E x \in S : \A y \in S : ~ (y < x)
  BY <1>1, <1>2, Zenon
<1>4. \E x \in S : \A y \in S : x <= y
  BY <1>3
<1> QED
  BY <1>4 DEF Min

LEMMA MaxMember ==
    ASSUME NEW N \in Nat, NEW S \in SUBSET (0 .. N), S # {}
    PROVE  Max(S) \in S /\ \A y \in S : Max(S) >= y
<1> DEFINE T == {N - x : x \in S}
<1>1. \A x \in S : N - x \in Nat
  OBVIOUS
<1>2. T \in SUBSET Nat /\ T # {}
  BY <1>1
<1>3. Min(T) \in T /\ \A y \in T : Min(T) <= y
  BY <1>2, MinMember
<1>4. PICK x \in S : Min(T) = N - x
  BY <1>3
<1>5. \A y \in S : N - x <= N - y
  BY <1>3, <1>4
<1>6. \A y \in S : x >= y
  BY <1>5
<1> QED
  BY <1>6 DEF Max

-----------------------------------------------------------------------------

(* The steps at which the armed intent is the motor's candidate.           *)
UnderWay == {"write", "verify", "active", "reset", "blacklist", "clear"}

MotorShape ==
    motor = [pc |-> motor.pc, mode |-> motor.mode, mv |-> motor.mv, reports |-> motor.reports,
             resetOk |-> motor.resetOk, saved |-> motor.saved, clean |-> motor.clean,
             retain |-> motor.retain]

(* A candidate is armed from stock and written under its own flag; a reset *)
(* that was confirmed left stock behind.                                   *)
MotorGuarded ==
    /\ MotorShape
    /\ hw # None => flag # None
    /\ motor.pc = "arm" => flag = None
    /\ motor.pc = "write" => hw = None
    /\ motor.pc \in UnderWay => flag = motor.mv
    /\ motor.pc \in {"blacklist", "clear"} /\ motor.resetOk => hw = None

(* A step of the guarded write, seen through the flag and the GPU.         *)
GuardStep == [Guard!GuardNext]_<<hw # None, flag # None>>

LEMMA MotorInitGuarded == MotorInit => MotorGuarded /\ Guard!GuardInit
  BY DEF MotorInit, MotorGuarded, MotorShape, IdleMotor, UnderWay, Guard!GuardInit

-----------------------------------------------------------------------------
(* The motor's own steps.                                                  *)

LEMMA ArmGuarded ==
    ASSUME MotorGuarded, ArmBootFlag
    PROVE  MotorGuarded' /\ GuardStep
<1>1. MotorGuarded'
  BY DEF MotorGuarded, MotorShape, ArmBootFlag, UnderWay, Fault, NoFault
<1>2. GuardStep
  BY DEF MotorGuarded, ArmBootFlag, GuardStep, Guard!GuardNext, Guard!Arm
<1> QED
  BY <1>1, <1>2

LEMMA ApplyGuarded ==
    ASSUME MotorGuarded, ApplyPositiveOffset
    PROVE  MotorGuarded' /\ GuardStep
<1>1. MotorGuarded'
  BY DEF MotorGuarded, MotorShape, ApplyPositiveOffset, UnderWay, Fault, NoFault
<1>2. GuardStep
  BY DEF MotorGuarded, ApplyPositiveOffset, UnderWay, GuardStep, Guard!GuardNext, Guard!Write
<1> QED
  BY <1>1, <1>2

LEMMA VerifyGuarded ==
    ASSUME MotorGuarded, VerifyOffset
    PROVE  MotorGuarded' /\ GuardStep
  BY DEF MotorGuarded, MotorShape, VerifyOffset, UnderWay, Fault, NoFault, GuardStep

LEMMA ResetGuarded ==
    ASSUME MotorGuarded, ResetToStock
    PROVE  MotorGuarded' /\ GuardStep
<1>1. MotorGuarded'
  BY DEF MotorGuarded, MotorShape, ResetToStock, UnderWay, Fault, NoFault
<1>2. GuardStep
  BY DEF MotorGuarded, ResetToStock, GuardStep, Guard!GuardNext, Guard!ToStock
<1> QED
  BY <1>1, <1>2

LEMMA BlacklistGuarded ==
    ASSUME MotorGuarded, BlacklistPoint
    PROVE  MotorGuarded' /\ GuardStep
  BY DEF MotorGuarded, MotorShape, BlacklistPoint, UnderWay, Fault, NoFault, GuardStep

LEMMA RetainGuarded ==
    ASSUME MotorGuarded, RetainBootFlag
    PROVE  MotorGuarded' /\ GuardStep
  BY DEF MotorGuarded, MotorShape, RetainBootFlag, Dirty, UnderWay, GuardStep

LEMMA ClearGuarded ==
    ASSUME MotorGuarded, ClearBootFlag
    PROVE  MotorGuarded' /\ GuardStep
<1>1. hw = None
  BY DEF MotorGuarded, ClearBootFlag, KeepsFlag
<1>2. MotorGuarded'
  BY <1>1 DEF MotorGuarded, MotorShape, ClearBootFlag, Dirty, UnderWay, Fault, NoFault
<1>3. GuardStep
  BY <1>1 DEF ClearBootFlag, Dirty, GuardStep, Guard!GuardNext, Guard!Disarm
<1> QED
  BY <1>2, <1>3

LEMMA MotorStepGuarded ==
    ASSUME MotorGuarded, MotorStep
    PROVE  MotorGuarded' /\ GuardStep
  BY ArmGuarded, ApplyGuarded, VerifyGuarded, ResetGuarded, BlacklistGuarded, RetainGuarded,
     ClearGuarded DEF MotorStep

-----------------------------------------------------------------------------
(* What the callers do around it.                                          *)

(* A candidate is begun with no flag armed.                                *)
LEMMA BeginGuarded ==
    ASSUME MotorGuarded, flag = None, NEW mode, NEW mv, Begin(mode, mv), UNCHANGED <<flag, hw>>
    PROVE  MotorGuarded' /\ GuardStep
  BY DEF MotorGuarded, MotorShape, Begin, IdleMotor, UnderWay, GuardStep

(* The motor is put aside when its work is over, or by a panic.            *)
LEMMA IdleGuarded ==
    ASSUME MotorGuarded, motor' = IdleMotor, UNCHANGED <<flag, hw>>
    PROVE  MotorGuarded' /\ GuardStep
  BY DEF MotorGuarded, MotorShape, IdleMotor, UnderWay, GuardStep

(* A load leaves the motor active, or sends it to its reset.               *)
LEMMA LoadGuarded ==
    ASSUME MotorGuarded, motor.pc = "active", UNCHANGED <<flag, hw>>,
           NEW reports,
           \/ motor' = [motor EXCEPT !.reports = reports]
           \/ motor' = [[motor EXCEPT !.reports = reports] EXCEPT !.pc = "reset"]
           \/ motor' = [motor EXCEPT !.pc = "reset"]
    PROVE  MotorGuarded' /\ GuardStep
  BY DEF MotorGuarded, MotorShape, UnderWay, GuardStep

(* Reports are marked after the fact.                                      *)
LEMMA MarkGuarded ==
    ASSUME MotorGuarded, UNCHANGED <<flag, hw>>, NEW reports, motor' = [motor EXCEPT !.reports = reports]
    PROVE  MotorGuarded' /\ GuardStep
  BY DEF MotorGuarded, MotorShape, UnderWay, GuardStep

LEMMA StillGuarded ==
    ASSUME MotorGuarded, UNCHANGED <<flag, hw, motor>>
    PROVE  MotorGuarded' /\ GuardStep
  BY DEF MotorGuarded, MotorShape, UnderWay, GuardStep

(* The GPU goes back to stock, or stays, with the motor idle.              *)
LEMMA RestoreGuarded ==
    ASSUME MotorGuarded, motor'.pc = "idle", MotorShape', hw' \in {hw, None}, UNCHANGED flag
    PROVE  MotorGuarded' /\ GuardStep
  BY DEF MotorGuarded, UnderWay, GuardStep, Guard!GuardNext, Guard!ToStock

(* Stock and flag in one step, as a service start finds them.              *)
LEMMA RebootGuarded ==
    ASSUME MotorGuarded, motor'.pc = "idle", MotorShape', hw' = None, flag' \in {flag, None}
    PROVE  MotorGuarded' /\ GuardStep
  BY DEF MotorGuarded, UnderWay, GuardStep, Guard!GuardNext, Guard!ToStock, Guard!Reboot

-----------------------------------------------------------------------------
(* What the motor remembers of a failure, if at most one access fails.     *)

ReportType ==
    [kind : EvidenceKinds, outcome : Outcomes, p99 : Int, p5 : Int, capped : BOOLEAN, thermal : BOOLEAN,
     clean : BOOLEAN, confirmed : BOOLEAN, retryable : BOOLEAN]

CondemningOutcomes == {"DeviceLost", "SilentError", "Unstable"}

Condemning(rs) == \E n \in DOMAIN rs : rs[n].outcome \in CondemningOutcomes

MotorTypes ==
    /\ motor.reports \in Seq(ReportType)
    /\ motor.mv \in Int
    /\ flag \in Int
    /\ blacklist \subseteq Int
    /\ faults \in 0 .. MaxFaults
    /\ motor.pc \in {"arm", "write", "verify"} => motor.reports = <<>>
    /\ motor.pc \in {"arm", "write", "verify", "active", "reset", "blacklist"} => motor.saved = FALSE

(* The flag stays with the candidate.                                      *)
Retained == flag = motor.mv /\ motor.retain = TRUE /\ motor.clean = FALSE

MotorMemory ==
    /\ MotorTypes
    /\ motor.pc = "clear" /\ Condemns =>
           Blacklisted(motor.mv) \/ (motor.saved = FALSE /\ faults = MaxFaults)
    /\ motor.pc = "done" /\ Condemns =>
           \/ Blacklisted(motor.mv)
           \/ faults = MaxFaults /\ (motor.mode = "transaction" => Retained)
    /\ motor.pc = "done" /\ LostDevice => Retained

LEMMA CondemnsIsCondemning == Condemns <=> Condemning(motor.reports)
  BY DEF Condemns, LostDevice, Condemning, CondemningOutcomes, Reports

LEMMA ReportTypes ==
    ASSUME NEW kind \in EvidenceKinds, NEW outcome \in Outcomes
    PROVE  /\ Report(kind, outcome) \in ReportType
           /\ Report(kind, outcome).kind = kind /\ Report(kind, outcome).outcome = outcome
<1>1. EmptyReport \in ReportType
  BY DEF EmptyReport, ReportType, None, EvidenceKinds, Outcomes, DwellOutcomes
<1> QED
  BY <1>1 DEF Report, ReportType

LEMMA MotorInitMemory == MotorInit => MotorMemory
  BY MotorAssumption DEF MotorInit, MotorMemory, MotorTypes, IdleMotor, Condemns, LostDevice, Reports, None

(* A blacklisted voltage stays refused.                                    *)
LEMMA BlacklistGrows ==
    ASSUME NEW v, Blacklisted(v), blacklist \subseteq blacklist'
    PROVE  Blacklisted(v)'
  BY DEF Blacklisted

LEMMA MotorStepGrows == MotorStep => blacklist \subseteq blacklist'
  BY DEF MotorStep, ArmBootFlag, ApplyPositiveOffset, VerifyOffset, ResetToStock, BlacklistPoint,
         RetainBootFlag, ClearBootFlag

(* The last report is rewritten, the others are kept.                      *)
LEMMA MarkedReports ==
    ASSUME motor.reports \in Seq(ReportType), NEW outcome \in Outcomes
    PROVE  /\ MarkLast(outcome) \in Seq(ReportType)
           /\ outcome \notin CondemningOutcomes /\ Condemning(MarkLast(outcome)) => Condemns
           /\ outcome # "DeviceLost" /\ ~ LostDevice =>
                 \A n \in DOMAIN MarkLast(outcome) : MarkLast(outcome)[n].outcome # "DeviceLost"
<1>1. MarkLast(outcome) \in Seq(ReportType)
  <2>1. \A r \in ReportType : [r EXCEPT !.outcome = outcome] \in ReportType
    BY DEF ReportType
  <2>2. \A n \in DOMAIN motor.reports : MarkLast(outcome)[n] \in ReportType
    BY <2>1 DEF MarkLast
  <2>3. MarkLast(outcome) = [n \in 1 .. Len(motor.reports) |-> MarkLast(outcome)[n]]
    BY DEF MarkLast
  <2> QED
    BY <2>2, <2>3
<1>2. \A n \in DOMAIN MarkLast(outcome) :
         /\ n \in DOMAIN motor.reports
         /\ MarkLast(outcome)[n].outcome \in {outcome, motor.reports[n].outcome}
  BY DEF MarkLast, ReportType
<1>3. outcome \notin CondemningOutcomes /\ Condemning(MarkLast(outcome)) => Condemns
  BY <1>2, CondemnsIsCondemning DEF Condemning
<1>4. outcome # "DeviceLost" /\ ~ LostDevice =>
         \A n \in DOMAIN MarkLast(outcome) : MarkLast(outcome)[n].outcome # "DeviceLost"
  BY <1>2 DEF LostDevice, Reports
<1> QED
  BY <1>1, <1>3, <1>4

(* A failure before the load leaves one report, which condemns nothing.    *)
LEMMA FailedStart ==
    ASSUME motor.reports = <<>>, NEW outcome \in {"ArmFailed", "ApplyFailed", "VerifyFailed"}
    PROVE  /\ Fails("Discovery", outcome) \in Seq(ReportType)
           /\ ~ Condemning(Fails("Discovery", outcome))
<1>1. Report("Discovery", outcome) \in ReportType /\ Report("Discovery", outcome).outcome = outcome
  BY ReportTypes DEF EvidenceKinds, Outcomes, HardFailures
<1>2. \A r \in ReportType : /\ Append(<<>>, r) \in Seq(ReportType)
                            /\ \A n \in DOMAIN Append(<<>>, r) : Append(<<>>, r)[n] = r
  OBVIOUS
<1> QED
  BY <1>1, <1>2 DEF Fails, Condemning, CondemningOutcomes

LEMMA FaultRange ==
    ASSUME faults \in 0 .. MaxFaults, Fault \/ NoFault
    PROVE  faults' \in 0 .. MaxFaults /\ faults' >= faults
  BY MotorAssumption DEF Fault, NoFault

LEMMA StartMemory ==
    ASSUME MotorGuarded, MotorMemory, ArmBootFlag \/ ApplyPositiveOffset \/ VerifyOffset
    PROVE  MotorMemory'
<1>1. motor.pc \in {"arm", "write", "verify"} /\ motor.reports = <<>> /\ motor.saved = FALSE
  BY DEF MotorMemory, MotorTypes, ArmBootFlag, ApplyPositiveOffset, VerifyOffset
<1>2. faults' \in 0 .. MaxFaults /\ blacklist' = blacklist
  BY FaultRange DEF MotorMemory, MotorTypes, ArmBootFlag, ApplyPositiveOffset, VerifyOffset
<1>3. \/ \E pc \in {"write", "verify", "active"} : motor' = [motor EXCEPT !.pc = pc]
      \/ \E pc \in {"reset", "done"}, outcome \in {"ArmFailed", "ApplyFailed", "VerifyFailed"} :
            motor' = [motor EXCEPT !.pc = pc, !.reports = Fails("Discovery", outcome)]
  BY DEF ArmBootFlag, ApplyPositiveOffset, VerifyOffset
<1>4. /\ motor'.mv = motor.mv /\ motor'.saved = motor.saved
      /\ motor'.pc \in {"write", "verify", "active", "reset", "done"}
      /\ motor'.pc \in {"write", "verify", "active"} => motor'.reports = <<>>
      /\ motor'.reports \in Seq(ReportType) /\ ~ Condemning(motor'.reports)
  <2>1. CASE \E pc \in {"write", "verify", "active"} : motor' = [motor EXCEPT !.pc = pc]
    <3>1. ~ Condemning(<<>>)
      BY DEF Condemning
    <3> QED
      BY <1>1, <2>1, <3>1 DEF MotorGuarded, MotorShape, MotorMemory, MotorTypes
  <2>2. CASE \E pc \in {"reset", "done"}, outcome \in {"ArmFailed", "ApplyFailed", "VerifyFailed"} :
            motor' = [motor EXCEPT !.pc = pc, !.reports = Fails("Discovery", outcome)]
    <3>1. PICK pc \in {"reset", "done"}, outcome \in {"ArmFailed", "ApplyFailed", "VerifyFailed"} :
               motor' = [motor EXCEPT !.pc = pc, !.reports = Fails("Discovery", outcome)]
      BY <2>2
    <3> QED
      BY <1>1, <3>1, FailedStart DEF MotorGuarded, MotorShape
  <2> QED
    BY <1>3, <2>1, <2>2
<1>5. flag' \in Int
  BY DEF MotorMemory, MotorTypes, ArmBootFlag, ApplyPositiveOffset, VerifyOffset
<1>6. MotorTypes'
  BY <1>1, <1>2, <1>4, <1>5 DEF MotorTypes, MotorMemory
<1>7. ~ Condemns' /\ ~ LostDevice'
  BY <1>4 DEF Condemns, LostDevice, Condemning, CondemningOutcomes, Reports
<1> QED
  BY <1>6, <1>7 DEF MotorMemory

LEMMA ResetMemory ==
    ASSUME MotorGuarded, MotorMemory, ResetToStock
    PROVE  MotorMemory'
<1>1. /\ motor'.pc = "blacklist" /\ motor'.reports = motor.reports /\ motor'.mv = motor.mv
      /\ motor'.saved = motor.saved /\ faults' \in 0 .. MaxFaults /\ UNCHANGED <<flag, blacklist>>
  BY FaultRange DEF ResetToStock, MotorGuarded, MotorShape, MotorMemory, MotorTypes
<1> QED
  BY <1>1 DEF ResetToStock, MotorMemory, MotorTypes

LEMMA BlacklistMemory ==
    ASSUME MaxFaults <= 1, MotorGuarded, MotorMemory, BlacklistPoint
    PROVE  MotorMemory'
<1>1. /\ motor'.pc = "clear" /\ motor'.reports = motor.reports /\ motor'.mv = motor.mv
      /\ blacklist' \subseteq Int /\ flag' = flag
      /\ faults' \in 0 .. MaxFaults
  BY FaultRange DEF BlacklistPoint, MotorGuarded, MotorShape, MotorMemory, MotorTypes
<1>2. Condemns' = Condemns
  BY <1>1 DEF Condemns, LostDevice, Reports
<1>3. CASE blacklist' = blacklist \cup {motor.mv}
  BY <1>1, <1>3 DEF MotorMemory, MotorTypes, Blacklisted
<1>4. CASE ~ Condemns
  BY <1>1, <1>2, <1>4 DEF MotorMemory, MotorTypes
<1>5. CASE Condemns /\ Fault /\ motor' = [motor EXCEPT !.pc = "clear"]
  <2>1. faults' = MaxFaults
    BY <1>5, MotorAssumption DEF Fault, MotorMemory, MotorTypes
  <2>2. motor'.saved = FALSE
    BY <1>5 DEF BlacklistPoint, MotorGuarded, MotorShape, MotorMemory, MotorTypes
  <2> QED
    BY <1>1, <2>1, <2>2 DEF MotorMemory, MotorTypes
<1> QED
  BY <1>3, <1>4, <1>5 DEF BlacklistPoint

(* A retained flag is the candidate's.                                     *)
LEMMA RetainMemory ==
    ASSUME MotorGuarded, MotorMemory, RetainBootFlag
    PROVE  MotorMemory'
<1>1. /\ motor'.pc = "done" /\ motor'.mv = motor.mv /\ Retained'
      /\ UNCHANGED <<faults, flag, blacklist>>
  BY DEF RetainBootFlag, Dirty, MotorGuarded, MotorShape, UnderWay, Retained
<1>2. motor'.reports \in Seq(ReportType) /\ (Condemning(motor'.reports) => Condemns)
  <2>1. CASE LostDevice
    BY <2>1, CondemnsIsCondemning
       DEF RetainBootFlag, Dirty, MotorGuarded, MotorShape, MotorMemory, MotorTypes
  <2>2. CASE ~ LostDevice
    <3>1. "ResetFailed" \in Outcomes /\ "ResetFailed" \notin CondemningOutcomes
      BY DEF Outcomes, HardFailures, CondemningOutcomes
    <3>2. motor'.reports = MarkLast("ResetFailed")
      BY <2>2 DEF RetainBootFlag, Dirty, MotorGuarded, MotorShape
    <3> QED
      BY <3>1, <3>2, MarkedReports DEF MotorMemory, MotorTypes
  <2> QED
    BY <2>1, <2>2
<1>3. Condemns' => Condemns
  BY <1>2, CondemnsIsCondemning DEF Condemns, LostDevice, Condemning, CondemningOutcomes, Reports
<1>4. Blacklisted(motor.mv)' = Blacklisted(motor.mv)
  BY <1>1 DEF Blacklisted
<1> QED
  BY <1>1, <1>2, <1>3, <1>4 DEF MotorMemory, MotorTypes, RetainBootFlag, Blacklisted

LEMMA ClearMemory ==
    ASSUME MotorGuarded, MotorMemory, ClearBootFlag
    PROVE  MotorMemory'
<1>1. /\ motor'.pc = "done" /\ motor'.mv = motor.mv /\ motor'.mode = motor.mode
      /\ blacklist' = blacklist /\ flag' \in {flag, None}
      /\ faults' \in 0 .. MaxFaults /\ faults' >= faults
  BY FaultRange DEF ClearBootFlag, Dirty, MotorGuarded, MotorShape, MotorMemory, MotorTypes
<1>2. ~ LostDevice
  BY DEF ClearBootFlag, KeepsFlag
<1>3. Condemns => Blacklisted(motor.mv) \/ (motor.mode # "transaction" /\ faults = MaxFaults)
  BY DEF ClearBootFlag, KeepsFlag, MotorMemory
<1>4. /\ motor'.reports \in Seq(ReportType)
      /\ Condemning(motor'.reports) => Condemns
      /\ \A n \in DOMAIN motor'.reports : motor'.reports[n].outcome # "DeviceLost"
  <2>1. CASE motor' = [motor EXCEPT !.pc = "done", !.clean = TRUE, !.retain = FALSE,
                                   !.reports = [n \in DOMAIN @ |-> [@[n] EXCEPT !.clean = TRUE]]]
    <3> DEFINE cleaned == [n \in DOMAIN motor.reports |-> [motor.reports[n] EXCEPT !.clean = TRUE]]
    <3>1. motor'.reports = cleaned
      BY <2>1 DEF MotorGuarded, MotorShape
    <3>2. \A r \in ReportType : [r EXCEPT !.clean = TRUE] \in ReportType
                               /\ [r EXCEPT !.clean = TRUE].outcome = r.outcome
      BY DEF ReportType
    <3>3. \A n \in DOMAIN motor.reports :
             cleaned[n] \in ReportType /\ cleaned[n].outcome = motor.reports[n].outcome
      BY <3>2 DEF MotorMemory, MotorTypes
    <3>4. /\ DOMAIN motor.reports = 1 .. Len(motor.reports) /\ Len(motor.reports) \in Nat
          /\ cleaned = [n \in 1 .. Len(motor.reports) |-> cleaned[n]]
      BY DEF MotorMemory, MotorTypes
    <3>5. cleaned \in Seq(ReportType)
      <4> HIDE DEF cleaned
      <4> QED
        BY <3>3, <3>4
    <3> QED
      BY <1>2, <3>1, <3>3, <3>5, CondemnsIsCondemning DEF Condemning, LostDevice, Reports
  <2>2. CASE Dirty(MarkLast("ResetFailed"))
    <3>1. "ResetFailed" \in Outcomes /\ "ResetFailed" \notin CondemningOutcomes
      BY DEF Outcomes, HardFailures, CondemningOutcomes
    <3>2. motor'.reports = MarkLast("ResetFailed")
      BY <2>2 DEF Dirty, MotorGuarded, MotorShape
    <3> QED
      BY <1>2, <3>1, <3>2, MarkedReports DEF MotorMemory, MotorTypes
  <2> QED
    BY <2>1, <2>2 DEF ClearBootFlag
<1>5. (Condemns' => Condemns) /\ ~ LostDevice'
  BY <1>4, CondemnsIsCondemning DEF Condemns, LostDevice, Condemning, CondemningOutcomes, Reports
<1>6. MotorTypes'
  BY <1>1, <1>4 DEF MotorMemory, MotorTypes, None
<1>7. faults = MaxFaults => faults' = MaxFaults
  BY <1>1 DEF MotorMemory, MotorTypes
<1>8. Blacklisted(motor.mv) => Blacklisted(motor.mv)'
  BY <1>1 DEF Blacklisted
<1> QED
  BY <1>1, <1>3, <1>5, <1>6, <1>7, <1>8 DEF MotorMemory, Blacklisted

LEMMA MotorStepMemory ==
    ASSUME MaxFaults <= 1, MotorGuarded, MotorMemory, MotorStep
    PROVE  MotorMemory'
  BY StartMemory, ResetMemory, BlacklistMemory, RetainMemory, ClearMemory DEF MotorStep

-----------------------------------------------------------------------------
(* What the callers do to that memory.                                     *)

LEMMA IdleMemory ==
    ASSUME MotorMemory, motor' = IdleMotor,
           flag' \in Int, blacklist' \subseteq Int, faults' \in 0 .. MaxFaults
    PROVE  MotorMemory'
  BY DEF MotorMemory, MotorTypes, IdleMotor, None

LEMMA BeginMemory ==
    ASSUME MotorMemory, NEW mode, NEW mv \in Int, Begin(mode, mv), UNCHANGED <<flag, blacklist, faults>>
    PROVE  MotorMemory'
<1>1. /\ motor'.pc = "arm" /\ motor'.mv = mv /\ motor'.mode = mode
      /\ motor'.reports = <<>> /\ motor'.saved = FALSE
  BY DEF Begin, IdleMotor
<1> QED
  BY <1>1 DEF MotorMemory, MotorTypes

(* The steps at which reports may change: none of them is a clear.         *)
LEMMA ReportsMemory ==
    ASSUME MotorMemory, NEW reports \in Seq(ReportType),
           motor'.reports = reports, motor'.mv = motor.mv, motor'.saved = motor.saved,
           motor.pc = "active", motor'.pc \in {"active", "reset"},
           UNCHANGED <<flag, blacklist, faults>>
    PROVE  MotorMemory'
  BY DEF MotorMemory, MotorTypes

(* Beside a motor at rest the flag may go and the blacklist may grow.      *)
LEMMA RestMemory ==
    ASSUME MotorMemory, motor.pc = "idle", UNCHANGED motor,
           flag' \in Int, blacklist' \subseteq Int, faults' \in 0 .. MaxFaults
    PROVE  MotorMemory'
  BY DEF MotorMemory, MotorTypes

(* Marking the reports after the fact condemns nobody.                     *)
LEMMA MarkMemory ==
    ASSUME MotorMemory, MotorShape, NEW reports \in Seq(ReportType),
           motor' = [motor EXCEPT !.reports = reports],
           Condemning(reports) => Condemns,
           (\E n \in DOMAIN reports : reports[n].outcome = "DeviceLost") => LostDevice,
           motor.pc \in {"active", "done", "idle"},
           UNCHANGED <<flag, blacklist, faults>>
    PROVE  MotorMemory'
<1>1. /\ motor'.pc = motor.pc /\ motor'.mv = motor.mv /\ motor'.mode = motor.mode
      /\ motor'.reports = reports /\ motor'.saved = motor.saved
      /\ motor'.retain = motor.retain /\ motor'.clean = motor.clean
  BY DEF MotorShape
<1>2. (Condemns' => Condemns) /\ (LostDevice' => LostDevice)
  BY <1>1 DEF Condemns, LostDevice, Condemning, CondemningOutcomes, Reports
<1> QED
  BY <1>1, <1>2 DEF MotorMemory, MotorTypes, Blacklisted, Retained

LEMMA StillMemory == MotorMemory /\ UNCHANGED mvars => MotorMemory'
  BY DEF MotorMemory, MotorTypes, mvars, Condemns, LostDevice, Reports, Blacklisted, Retained
==============================================================================
