----------------------------- MODULE StepJobsProofs -----------------------------
(***************************************************************************)
(* Theorems about StepJobs, for every plan, every measurement and every    *)
(* bound: the jobs of one-phase steps keep the guarded write, a qualified  *)
(* pair has paid for its inconclusive dwells, a lost device leaves a       *)
(* trace.                                                                  *)
(***************************************************************************)
EXTENDS StepJobs, CandidateMotorProofs

LEMMA JobFields ==
    /\ {"pc", "kind", "mv", "reports", "previous", "rechecked", "pattern", "retries", "passes", "i",
        "extra", "lastGood", "queue", "outcome", "aborted", "retain"} \subseteq DOMAIN IdleJob
    /\ {"pc", "run", "aborted", "retain"} \subseteq DOMAIN IdleSession
  BY DEF IdleJob, IdleSession

(* A step has one report, from the moment its load or its start is over.   *)
OneReport == Taken \in ReportType /\ motor.reports = <<Taken>>

(* The motor works for the step of a job, and a step that did not fail     *)
(* hard took its flag down.                                                *)
StepShape ==
    /\ DOMAIN job = DOMAIN IdleJob /\ DOMAIN session = DOMAIN IdleSession
    /\ motor.pc # "idle" => job.pc = "step"
    /\ motor.pc \in {"arm", "write", "verify", "active"} => motor.reports = <<>>
    /\ motor.pc \in {"reset", "blacklist", "clear", "done"} => OneReport
    /\ motor.pc = "done" /\ Taken.outcome \notin HardFailures => flag = None
    /\ job.kind = "calibration" =>
           /\ job.pc \notin {"judge", "record"}
           /\ job.pc = "select" => flag = None
           /\ job.reports \in Seq(ReportType)
           /\ job.reports = <<>> => job.rechecked = FALSE

StepInv == MotorGuarded /\ StepShape

-----------------------------------------------------------------------------
(* The motor of a step.                                                    *)

LEMMA OneMark ==
    ASSUME OneReport, NEW outcome \in Outcomes
    PROVE  LET marked == MarkLast(outcome)
           IN marked[1] \in ReportType /\ marked = <<marked[1]>> /\ marked[1].outcome = outcome
<1>1. Taken \in ReportType /\ Len(motor.reports) = 1 /\ DOMAIN motor.reports = {1}
  BY DEF OneReport
<1>2. MarkLast(outcome) = [n \in {1} |-> [Taken EXCEPT !.outcome = outcome]]
  BY <1>1 DEF MarkLast, Taken
<1>3. [Taken EXCEPT !.outcome = outcome] \in ReportType /\ [Taken EXCEPT !.outcome = outcome].outcome = outcome
  BY <1>1 DEF ReportType
<1>4. \A x : LET f == [n \in {1} |-> x] IN f[1] = x /\ f = <<f[1]>>
  OBVIOUS
<1> QED
  BY <1>2, <1>3, <1>4

LEMMA MotorStepShape ==
    ASSUME StepInv, MotorRuns
    PROVE  StepInv' /\ GuardStep
<1>1. MotorGuarded' /\ GuardStep
  BY MotorStepGuarded DEF StepInv, MotorRuns
<1>2. job.pc = "step" /\ UNCHANGED <<job, session>> /\ MotorShape
  BY DEF StepInv, StepShape, MotorRuns, MotorStep, ArmBootFlag, ApplyPositiveOffset, VerifyOffset,
         ResetToStock, BlacklistPoint, RetainBootFlag, ClearBootFlag, MotorGuarded
<1> DEFINE Fresh == motor'.pc \in {"write", "verify", "active"} /\ motor'.reports = <<>>
           Loaded == motor'.pc \in {"reset", "blacklist", "clear", "done"} /\ OneReport'
           Ends == motor'.pc = "done" => flag' = None \/ Taken'.outcome \in HardFailures
<1>3. \A outcome \in Outcomes : motor.reports = <<>> /\ motor'.reports = Fails("Discovery", outcome)
                                => OneReport' /\ Taken'.outcome = outcome
  <2> SUFFICES ASSUME NEW outcome \in Outcomes, motor.reports = <<>>,
                      motor'.reports = Fails("Discovery", outcome)
               PROVE  OneReport' /\ Taken'.outcome = outcome
    OBVIOUS
  <2>1. Report("Discovery", outcome) \in ReportType /\ Report("Discovery", outcome).outcome = outcome
    BY ReportTypes DEF EvidenceKinds
  <2>2. motor'.reports = <<Report("Discovery", outcome)>>
    BY DEF Fails
  <2>3. Taken' = motor'.reports[1]
    BY DEF Taken
  <2>4. \A x : <<x>>[1] = x
    OBVIOUS
  <2>5. Taken' = Report("Discovery", outcome)
    BY <2>2, <2>3, <2>4, Zenon
  <2> QED
    BY <2>1, <2>2, <2>5, Zenon DEF OneReport
<1>4. {"ArmFailed", "ApplyFailed", "VerifyFailed", "ResetFailed", "DeviceLost"} \subseteq Outcomes \cap HardFailures
  BY DEF Outcomes, HardFailures
<1>5. CASE ArmBootFlag \/ ApplyPositiveOffset \/ VerifyOffset
  <2>1. motor.reports = <<>>
    BY <1>5 DEF StepInv, StepShape, ArmBootFlag, ApplyPositiveOffset, VerifyOffset
  <2>2. \/ motor'.pc \in {"write", "verify", "active"} /\ motor'.reports = motor.reports
        \/ \E outcome \in {"ArmFailed", "ApplyFailed", "VerifyFailed"} :
              motor'.pc \in {"reset", "done"} /\ motor'.reports = Fails("Discovery", outcome)
    BY <1>2, <1>5 DEF ArmBootFlag, ApplyPositiveOffset, VerifyOffset, MotorShape
  <2>3. Fresh \/ (Loaded /\ Ends)
    BY <1>3, <1>4, <2>1, <2>2
  <2> QED
    BY <1>1, <1>2, <2>3 DEF StepInv, StepShape
<1>6. CASE ResetToStock \/ BlacklistPoint
  <2>1. motor'.pc \in {"blacklist", "clear"} /\ motor'.reports = motor.reports /\ OneReport
    BY <1>2, <1>6 DEF ResetToStock, BlacklistPoint, StepInv, StepShape, MotorShape
  <2>2. OneReport'
    BY <2>1 DEF OneReport, Taken
  <2> QED
    BY <1>1, <1>2, <2>1, <2>2 DEF StepInv, StepShape
<1>7. CASE RetainBootFlag \/ ClearBootFlag
  <2>1. OneReport /\ Taken \in ReportType /\ motor.reports = <<Taken>>
    BY <1>7 DEF RetainBootFlag, ClearBootFlag, StepInv, StepShape, OneReport
  <2>2. CASE \/ RetainBootFlag /\ ~ LostDevice
             \/ ClearBootFlag /\ Dirty(MarkLast("ResetFailed"))
    <3>1. motor'.pc = "done" /\ motor'.reports = MarkLast("ResetFailed")
      BY <1>2, <2>2 DEF RetainBootFlag, Dirty, MotorShape
    <3>2. OneReport' /\ Taken'.outcome = "ResetFailed"
      BY <1>4, <2>1, <3>1, OneMark DEF OneReport, Taken
    <3> QED
      BY <1>1, <1>2, <1>4, <3>1, <3>2 DEF StepInv, StepShape
  <2>3. CASE RetainBootFlag /\ LostDevice
    <3>1. motor'.pc = "done" /\ motor'.reports = motor.reports
      BY <1>2, <2>3 DEF RetainBootFlag, Dirty, MotorShape
    <3>2. Taken.outcome = "DeviceLost"
      BY <2>1, <2>3 DEF LostDevice, Reports
    <3>3. OneReport' /\ Taken'.outcome = "DeviceLost"
      BY <2>1, <3>1, <3>2 DEF OneReport, Taken
    <3> QED
      BY <1>1, <1>2, <1>4, <3>1, <3>3 DEF StepInv, StepShape
  <2>4. CASE /\ flag' = None
             /\ motor' = [motor EXCEPT !.pc = "done", !.clean = TRUE, !.retain = FALSE,
                                       !.reports = [n \in DOMAIN @ |-> [@[n] EXCEPT !.clean = TRUE]]]
    <3>1. motor'.pc = "done" /\ motor'.reports = [n \in DOMAIN motor.reports |-> [motor.reports[n] EXCEPT !.clean = TRUE]]
      BY <1>2, <2>4 DEF MotorShape
    <3>2. motor'.reports = <<[Taken EXCEPT !.clean = TRUE]>>
      <4>1. DOMAIN motor.reports = {1} /\ motor.reports[1] = Taken
        BY <2>1 DEF Taken
      <4>2. motor'.reports = [n \in {1} |-> [Taken EXCEPT !.clean = TRUE]]
        BY <3>1, <4>1
      <4>3. \A x : [n \in {1} |-> x] = <<x>>
        OBVIOUS
      <4> QED
        BY <4>2, <4>3, Zenon
    <3>3. [Taken EXCEPT !.clean = TRUE] \in ReportType
      BY <2>1 DEF ReportType
    <3>4. OneReport'
      BY <3>2, <3>3 DEF OneReport, Taken
    <3> QED
      BY <1>1, <1>2, <2>4, <3>1, <3>4 DEF StepInv, StepShape
  <2> QED
    BY <1>7, <2>2, <2>3, <2>4 DEF RetainBootFlag, ClearBootFlag
<1> QED
  BY <1>5, <1>6, <1>7 DEF MotorRuns, MotorStep

LEMMA LoadShape ==
    ASSUME StepInv, motor.pc = "active", NEW r \in ReportType, motor' = Finish(RunPhase(r)),
           UNCHANGED <<flag, hw, job, session>>
    PROVE  StepInv' /\ GuardStep
<1>1. MotorGuarded' /\ GuardStep
  BY LoadGuarded DEF StepInv, Finish, RunPhase
<1>2. motor'.pc = "reset" /\ motor'.reports = <<r>>
  <2>1. motor'.pc = "reset" /\ motor'.reports = Append(motor.reports, r)
    BY DEF StepInv, MotorGuarded, MotorShape, Finish, RunPhase
  <2>2. motor.reports = <<>> /\ Append(<<>>, r) = <<r>>
    BY DEF StepInv, StepShape
  <2> QED
    BY <2>1, <2>2, Zenon
<1>3. OneReport'
  BY <1>2 DEF OneReport, Taken
<1> QED
  BY <1>1, <1>2, <1>3 DEF StepInv, StepShape

LEMMA LoadGuardedStep ==
    ASSUME StepInv, DiscoveryLoad \/ GateLoad
    PROVE  StepInv' /\ GuardStep
<1>1. CASE DiscoveryLoad
  <2>1. PICK d \in Dwells :
           motor' = Finish(RunPhase([Report("Discovery", d.outcome) EXCEPT !.p99 = d.p99, !.p5 = d.p5]))
    BY <1>1 DEF DiscoveryLoad
  <2>2. Report("Discovery", d.outcome) \in ReportType /\ d.p99 \in Int /\ d.p5 \in Int
    BY ReportTypes, StepDwellsAssumption DEF EvidenceKinds, Outcomes
  <2>3. [Report("Discovery", d.outcome) EXCEPT !.p99 = d.p99, !.p5 = d.p5] \in ReportType
    BY <2>2 DEF ReportType
  <2> QED
    BY <1>1, <2>1, <2>3, LoadShape DEF DiscoveryLoad
<1>2. CASE GateLoad
  <2>1. PICK d \in GateDwells :
           motor' = Finish(RunPhase([Report("ApplyQualification", d.outcome) EXCEPT
                                        !.p99 = d.p99, !.p5 = d.p5, !.retryable = d.retryable]))
    BY <1>2 DEF GateLoad
  <2>2. /\ Report("ApplyQualification", d.outcome) \in ReportType
        /\ d.p99 \in Int /\ d.p5 \in Int /\ d.retryable \in BOOLEAN
    BY ReportTypes, StepDwellsAssumption DEF EvidenceKinds, Outcomes
  <2>3. [Report("ApplyQualification", d.outcome) EXCEPT
           !.p99 = d.p99, !.p5 = d.p5, !.retryable = d.retryable] \in ReportType
    BY <2>2 DEF ReportType
  <2> QED
    BY <1>2, <2>1, <2>3, LoadShape DEF GateLoad
<1> QED
  BY <1>1, <1>2

-----------------------------------------------------------------------------
(* The jobs around it.                                                     *)

LEMMA BeginStep ==
    ASSUME StepInv, Begin("step", job.mv), flag = None, UNCHANGED <<flag, hw, session>>,
           DOMAIN job' = DOMAIN IdleJob, job'.pc = "step", job'.kind = job.kind,
           job.kind = "calibration" =>
               /\ job'.reports \in Seq(ReportType)
               /\ job'.reports = <<>> => job'.rechecked = FALSE
    PROVE  StepInv' /\ GuardStep
<1>1. MotorGuarded' /\ GuardStep
  BY BeginGuarded DEF StepInv
<1>2. motor'.pc = "arm" /\ motor'.reports = <<>>
  BY DEF Begin, IdleMotor
<1> QED
  BY <1>1, <1>2 DEF StepInv, StepShape

(* The motor is idle before and after, or put aside.                       *)
LEMMA AsideStep ==
    ASSUME StepInv, UNCHANGED <<flag, hw>>, motor' = IdleMotor \/ (motor.pc = "idle" /\ UNCHANGED motor),
           DOMAIN job' = DOMAIN IdleJob, DOMAIN session' = DOMAIN IdleSession,
           job'.kind = "calibration" =>
               /\ job'.pc \notin {"judge", "record"}
               /\ job'.pc = "select" => flag = None
               /\ job'.reports \in Seq(ReportType)
               /\ job'.reports = <<>> => job'.rechecked = FALSE
    PROVE  StepInv' /\ GuardStep
<1>1. MotorGuarded' /\ GuardStep
  BY IdleGuarded, StillGuarded DEF StepInv
<1>2. motor'.pc = "idle"
  BY DEF IdleMotor
<1> QED
  BY <1>1, <1>2 DEF StepInv, StepShape

LEMMA SelectGuarded ==
    ASSUME StepInv, SelectCalibration \/ SelectGate \/ SelectSweep
    PROVE  StepInv' /\ GuardStep
<1> USE DEF StepInv, StepShape
<1>1. CASE SelectCalibration
  <2>1. /\ flag = None /\ Begin("step", job.mv) /\ UNCHANGED <<flag, hw, session>>
        /\ \E previous : job' = [job EXCEPT !.pc = "step", !.previous = previous]
    <3>1. \/ job' = [job EXCEPT !.pc = "step"]
          \/ \E previous : job' = [job EXCEPT !.pc = "step", !.previous = previous]
      BY <1>1 DEF SelectCalibration
    <3>2. [job EXCEPT !.pc = "step"] = [job EXCEPT !.pc = "step", !.previous = job.previous]
      BY JobFields
    <3> QED
      BY <1>1, <3>1, <3>2 DEF SelectCalibration
  <2>2. /\ DOMAIN job' = DOMAIN IdleJob /\ job'.pc = "step" /\ job'.kind = job.kind
        /\ job'.reports = job.reports /\ job'.rechecked = job.rechecked
    BY <2>1, JobFields
  <2> QED
    BY <2>1, <2>2, BeginStep
<1>2. CASE (SelectGate \/ SelectSweep) /\ job' = [job EXCEPT !.pc = "step"] /\ Begin("step", job.mv) /\ flag = None
  <2>1. /\ DOMAIN job' = DOMAIN IdleJob /\ job'.pc = "step" /\ job'.kind = job.kind
        /\ job'.reports = job.reports /\ job'.rechecked = job.rechecked
    BY <1>2, JobFields
  <2>2. UNCHANGED <<flag, hw, session>>
    BY <1>2 DEF SelectGate, SelectSweep
  <2> QED
    BY <1>2, <2>1, <2>2, BeginStep
<1>3. CASE (SelectGate \/ SelectSweep) /\ UNCHANGED motor
  <2>1. /\ job.kind # "calibration" /\ motor.pc = "idle" /\ UNCHANGED <<flag, hw, session>>
    BY <1>3 DEF SelectGate, SelectSweep, Descending
  <2>2. DOMAIN job' = DOMAIN IdleJob /\ job'.kind = job.kind
    BY <1>3, JobFields DEF SelectGate, SelectSweep, Outcome, Aborts, Recorded, Begin, IdleMotor
  <2> QED
    BY <1>3, <2>1, <2>2, AsideStep
<1> QED
  BY <1>1, <1>2, <1>3 DEF SelectGate, SelectSweep, Selectable

(* A calibration repeats only what did not fail hard: the flag is down.    *)
LEMMA CalibrationDoneGuarded ==
    ASSUME StepInv, CalibrationStepDone
    PROVE  StepInv' /\ GuardStep
<1> USE DEF StepInv, StepShape
<1> DEFINE rs == Append(job.reports, Taken)
           rechecked == job.rechecked \/ (Len(rs) = 1 /\ Usable(Taken) /\ RequiresRecheck(job.previous, Taken))
<1>1. /\ job.kind = "calibration" /\ motor.pc = "done" /\ UNCHANGED <<flag, hw, session>>
      /\ job.reports \in Seq(ReportType) /\ Taken \in ReportType
  BY DEF CalibrationStepDone, OneReport
<1>2. rs \in Seq(ReportType) /\ Len(rs) = Len(job.reports) + 1 /\ Last(rs) = Taken /\ rs # <<>>
  BY <1>1 DEF Last
<1>3. Repeats(rs, rechecked) => flag = None
  <2>1. Usable(Taken) => Taken.outcome \notin HardFailures
    BY DEF Usable, ContentUsable, HardFailures
  <2>2. Len(rs) = 1 /\ rechecked => Usable(Taken)
    <3>1. Len(rs) = 1 => job.reports = <<>>
      BY <1>1, <1>2
    <3>2. Len(rs) = 1 => job.rechecked = FALSE
      BY <1>1, <3>1
    <3> QED
      BY <3>2, Zenon
  <2>3. Repeats(rs, rechecked) => rechecked /\ (Len(rs) = 1 \/ Last(rs).outcome \notin HardFailures)
    BY Zenon DEF Repeats
  <2>4. Repeats(rs, rechecked) => Taken.outcome \notin HardFailures
    <3> HIDE DEF rs, rechecked
    <3> QED
      BY <1>2, <2>1, <2>2, <2>3
  <2> QED
    BY <1>1, <2>4
<1> HIDE DEF rs
<1>4. CASE /\ job' = [job EXCEPT !.reports = rs, !.rechecked = rechecked] /\ Begin("step", job.mv)
           /\ Repeats(rs, rechecked)
  <2> HIDE DEF rechecked
  <2>1. /\ DOMAIN job' = DOMAIN IdleJob /\ job'.pc = job.pc /\ job'.kind = job.kind /\ job'.reports = rs
    BY <1>4, JobFields
  <2>2. job.pc = "step"
    BY DEF CalibrationStepDone
  <2> QED
    BY <1>1, <1>2, <1>3, <1>4, <2>1, <2>2, BeginStep
<1>5. CASE /\ job' = [job EXCEPT !.reports = rs, !.rechecked = rechecked, !.pc = "analyse"]
           /\ motor' = IdleMotor
  <2> HIDE DEF rechecked
  <2>1. /\ DOMAIN job' = DOMAIN IdleJob /\ job'.pc = "analyse" /\ job'.kind = job.kind /\ job'.reports = rs
    BY <1>5, JobFields
  <2> QED
    BY <1>1, <1>2, <1>5, <2>1, AsideStep
<1> QED
  BY <1>4, <1>5, Zenon DEF CalibrationStepDone, rs

LEMMA StepDoneGuarded ==
    ASSUME StepInv, GateStepDone \/ SweepStepDone
    PROVE  StepInv' /\ GuardStep
<1> USE DEF StepInv, StepShape
<1>1. /\ motor' = IdleMotor /\ UNCHANGED <<flag, hw, session>> /\ job.kind # "calibration"
  BY DEF GateStepDone, SweepStepDone, Descending
<1>2. DOMAIN job' = DOMAIN IdleJob /\ job'.kind = job.kind
  BY JobFields DEF GateStepDone, SweepStepDone, Recorded
<1> QED
  BY <1>1, <1>2, AsideStep

LEMMA JobGuarded ==
    ASSUME StepInv,
           AnalyseCalibration \/ PersistCalibration \/ PersistGate \/ JudgeTexture \/ JudgeEndurance
           \/ RecordSweep \/ SweepRecorded
    PROVE  StepInv' /\ GuardStep
<1> USE DEF StepInv, StepShape
<1>1. UNCHANGED <<flag, hw, motor, session>> /\ motor.pc = "idle"
  BY DEF AnalyseCalibration, PersistCalibration, PersistGate, JudgeTexture, JudgeEndurance,
         RecordSweep, SweepRecorded, mvars
<1>2. CASE AnalyseCalibration
  <2>1. /\ DOMAIN job' = DOMAIN IdleJob /\ job'.pc = "persist" /\ job'.kind = job.kind
        /\ job'.reports = job.reports /\ job'.rechecked = job.rechecked
    BY <1>2, JobFields DEF AnalyseCalibration
  <2> QED
    BY <1>1, <2>1, AsideStep
<1>3. CASE PersistCalibration
  <2>1. /\ DOMAIN job' = DOMAIN IdleJob /\ job'.pc \in {"persist", "ended"} /\ job'.kind = job.kind
        /\ job'.reports = job.reports /\ job'.rechecked = job.rechecked
    BY <1>3, JobFields DEF PersistCalibration, Aborts, Outcome
  <2> QED
    BY <1>1, <2>1, AsideStep
<1>4. CASE PersistGate \/ JudgeTexture \/ JudgeEndurance \/ RecordSweep \/ SweepRecorded
  <2>1. job.kind # "calibration"
    BY <1>4 DEF PersistGate, JudgeTexture, JudgeEndurance, RecordSweep, SweepRecorded
  <2>2. DOMAIN job' = DOMAIN IdleJob /\ job'.kind = job.kind
    BY <1>4, JobFields DEF PersistGate, JudgeTexture, JudgeEndurance, RecordSweep, SweepRecorded,
       Aborts, Outcome
  <2> QED
    BY <1>1, <2>1, <2>2, AsideStep
<1> QED
  BY <1>2, <1>3, <1>4

LEMMA StartGuarded ==
    ASSUME StepInv, StartCalibration \/ StartGate \/ StartSweep \/ StartSteps
    PROVE  StepInv' /\ GuardStep
<1> USE DEF StepInv, StepShape
<1>1. CASE \E kind, mv : StartPairJob(kind, mv)
  <2>1. PICK kind, mv : StartPairJob(kind, mv)
    BY <1>1
  <2>2. UNCHANGED <<flag, hw, motor, session>> /\ motor.pc = "idle"
    BY <2>1 DEF StartPairJob, mvars
  <2>3. /\ DOMAIN job' = DOMAIN IdleJob /\ job'.reports = <<>> /\ job'.rechecked = FALSE
        /\ job'.pc \in {"ended", "select"} /\ (job'.pc = "select" => Selectable(mv))
    BY <2>1 DEF StartPairJob, IdleJob
  <2>4. /\ job'.pc \notin {"judge", "record"} /\ (job'.pc = "select" => flag = None)
        /\ job'.reports \in Seq(ReportType)
    BY <2>3 DEF Selectable
  <2>5. DOMAIN session' = DOMAIN IdleSession
    BY <2>2
  <2> QED
    BY <2>2, <2>3, <2>4, <2>5, AsideStep
<1>2. CASE \E kind \in {"sweep", "steps"} : StartDescent(kind)
  <2>1. PICK kind \in {"sweep", "steps"} : StartDescent(kind)
    BY <1>2
  <2>2. UNCHANGED <<flag, hw, motor>> /\ motor.pc = "idle" /\ DOMAIN session' = DOMAIN IdleSession
    BY <2>1 DEF StartDescent, mvars
  <2>3. DOMAIN job' = DOMAIN IdleJob /\ job'.kind = kind
    BY <2>1 DEF StartDescent, IdleJob
  <2> QED
    BY <2>2, <2>3, AsideStep
<1> QED
  BY <1>1, <1>2 DEF StartCalibration, StartGate, StartSweep, StartSteps

LEMMA SessionGuarded ==
    ASSUME StepInv, JobEnds \/ OpenSession \/ CloseSession \/ StopPressed
    PROVE  StepInv' /\ GuardStep
<1> USE DEF StepInv, StepShape
<1>1. CASE JobEnds
  <2>1. UNCHANGED <<flag, hw, motor>> /\ motor.pc = "idle" /\ job' = IdleJob
    BY <1>1 DEF JobEnds, mvars
  <2>2. DOMAIN job' = DOMAIN IdleJob /\ job'.kind = "none" /\ DOMAIN session' = DOMAIN IdleSession
    BY <1>1, <2>1 DEF JobEnds, IdleJob
  <2> QED
    BY <2>1, <2>2, AsideStep
<1>2. CASE OpenSession \/ CloseSession
  <2>1. /\ UNCHANGED <<motor, job>> /\ motor'.pc = "idle" /\ job.pc = "idle"
        /\ DOMAIN session' = DOMAIN IdleSession
        /\ \/ hw' = None /\ flag' \in {flag, None}
           \/ hw' \in {hw, None} /\ UNCHANGED flag
    BY <1>2, JobFields DEF OpenSession, CloseSession
  <2>2. MotorShape'
    BY <2>1 DEF MotorGuarded, MotorShape
  <2>3. MotorGuarded' /\ GuardStep
    BY <2>1, <2>2, RestoreGuarded, RebootGuarded
  <2> QED
    BY <2>1, <2>3
<1>3. CASE StopPressed
  <2>1. MotorGuarded' /\ GuardStep
    BY <1>3, StillGuarded DEF StopPressed, mvars
  <2>2. UNCHANGED <<flag, motor, job, session>>
    BY <1>3 DEF StopPressed, mvars
  <2>3. OneReport => OneReport'
    BY <2>2 DEF OneReport, Taken
  <2>4. Taken' = Taken
    BY <2>2 DEF Taken
  <2> QED
    BY <2>1, <2>2, <2>3, <2>4
<1> QED
  BY <1>1, <1>2, <1>3

LEMMA InterruptionGuarded ==
    ASSUME StepInv, StepPanics \/ Reboot
    PROVE  StepInv' /\ GuardStep
<1> USE DEF StepInv, StepShape
<1>1. /\ motor' = IdleMotor /\ job' = IdleJob /\ DOMAIN session' = DOMAIN IdleSession
      /\ \/ UNCHANGED <<flag, hw>>
         \/ hw' = None /\ flag' = None
  BY DEF StepPanics, Reboot, RebootAndRecover
<1>2. motor'.pc = "idle" /\ MotorShape'
  BY <1>1 DEF IdleMotor, MotorShape
<1>3. MotorGuarded' /\ GuardStep
  BY <1>1, <1>2, RestoreGuarded, RebootGuarded
<1>4. DOMAIN job' = DOMAIN IdleJob /\ job'.kind = "none"
  BY <1>1 DEF IdleJob
<1> QED
  BY <1>1, <1>2, <1>3, <1>4

LEMMA StepNext ==
    ASSUME StepInv, [Next]_svars
    PROVE  StepInv' /\ GuardStep
<1>1. CASE UNCHANGED svars
  <2>1. MotorGuarded' /\ GuardStep
    BY <1>1, StillGuarded DEF StepInv, svars
  <2>2. Taken' = Taken /\ (OneReport => OneReport')
    BY <1>1 DEF svars, Taken, OneReport
  <2> QED
    BY <1>1, <2>1, <2>2 DEF StepInv, StepShape, svars
<1>2. CASE Work
  BY <1>2, MotorStepShape, LoadGuardedStep, SelectGuarded, CalibrationDoneGuarded, StepDoneGuarded,
     JobGuarded, StartGuarded, SessionGuarded DEF Work, Calibration, Gate, Sweep
<1>3. CASE OpenSession \/ CloseSession \/ StopPressed \/ StepPanics \/ Reboot
  BY <1>3, SessionGuarded, InterruptionGuarded
<1> QED
  BY <1>1, <1>2, <1>3 DEF Next

LEMMA StepInit == Init => StepInv /\ Guard!GuardInit
  BY MotorInitGuarded, JobFields DEF Init, StepInv, StepShape, MotorInit, IdleMotor, IdleJob, IdleSession

(* Calibrations, gates and descents, through every failing access, panic   *)
(* and reboot, are behaviours of GuardedWrite (run_confirmed_f2_step,      *)
(* finish_after_write).                                                    *)
THEOREM EveryStepIsGuarded == Spec => StepsAreGuarded
<1>1. Init => StepInv /\ Guard!GuardInit
  BY StepInit
<1>2. StepInv /\ [Next]_svars => StepInv'
  BY StepNext
<1>3. StepInv /\ [Next]_svars => [Guard!GuardNext]_Guard!gvars
  BY StepNext DEF GuardStep, Guard!gvars
<1> QED
  BY <1>1, <1>2, <1>3, PTL DEF Spec, StepsAreGuarded, Guard!GuardSpec

-----------------------------------------------------------------------------
(* What a qualified pair has paid.                                         *)

(* Before the soak: nothing failed, the last Texture passed, and the one   *)
(* before it if there was an inconclusive dwell.                           *)
TexturePaid ==
    /\ ~ seen.gate.bad /\ seen.gate.texture = "Validated"
    /\ seen.gate.debt => seen.gate.before = "Validated"

(* The counters of the gate remember what its dwells were: a retry for an  *)
(* inconclusive dwell, a pass for a Texture that came after one.           *)
GateInv ==
    /\ DOMAIN job = DOMAIN IdleJob /\ DOMAIN seen = DOMAIN NothingSeen /\ DOMAIN seen.gate = DOMAIN NoGate
    /\ job.retries \in Nat /\ job.passes \in Nat
    /\ job.kind # "gate" => seen.gate = NoGate
    /\ job.outcome = "Qualified" => job.pc = "ended"
    /\ job.pc = "judge" => job.kind = "gate"
    /\ job.kind = "gate" =>
        /\ job.pc \in {"select", "step", "persist", "judge", "ended"}
        /\ job.pattern \in {"Texture", "Endurance"}
        /\ job.pattern = "Texture" /\ job.pc \in {"select", "step"} =>
            /\ ~ seen.gate.bad /\ (seen.gate.debt => job.retries # 0)
            /\ job.passes # 0 => seen.gate.texture = "Validated"
        /\ job.pattern = "Texture" /\ job.pc \in {"persist", "judge"} =>
            LET r == Head(job.queue)
            IN /\ seen.gate.texture = r.outcome
               /\ seen.gate.debt => job.retries # 0 \/ r.outcome = "Inconclusive"
               /\ r.outcome = "Inconclusive" \/ (r.outcome = "Validated" /\ ~ AboveCeiling(r)) => ~ seen.gate.bad
               /\ job.passes # 0 => seen.gate.before = "Validated"
        /\ job.pattern = "Endurance" /\ job.pc # "ended" => TexturePaid
        /\ job.pattern = "Endurance" /\ job.pc \in {"persist", "judge"} =>
            (Head(job.queue).outcome = "Validated" => seen.gate.soaked)
        /\ job.outcome = "Qualified" => TexturePaid /\ seen.gate.soaked

LEMMA SeenFields ==
    /\ {"gate", "lost", "qualified", "deepest"} \subseteq DOMAIN NothingSeen
    /\ {"texture", "before", "debt", "bad", "soaked"} \subseteq DOMAIN NoGate
  BY DEF NothingSeen, NoGate

(* A job that is no gate, or a gate that starts over.                      *)
LEMMA NoGateYet ==
    ASSUME GateInv, DOMAIN job' = DOMAIN IdleJob, DOMAIN seen' = DOMAIN NothingSeen, seen'.gate = NoGate,
           job'.retries \in Nat, job'.passes \in Nat,
           job'.outcome = "Qualified" => job'.pc = "ended", job'.pc = "judge" => job'.kind = "gate",
           job'.kind = "gate" => /\ job'.pc \in {"select", "ended"} /\ job'.pattern = "Texture"
                                 /\ job'.outcome # "Qualified"
                                 /\ job'.retries = 0 /\ job'.passes = 0
    PROVE  GateInv'
  BY DEF GateInv, NoGate, TexturePaid

LEMMA GateLoadPaid ==
    ASSUME GateInv, UNCHANGED <<job>>, DOMAIN seen' = DOMAIN seen, seen'.gate = seen.gate
    PROVE  GateInv'
  BY DEF GateInv, TexturePaid, AboveCeiling

(* A dwell of the gate, as it is seen.                                     *)
LEMMA GateStepPaid ==
    ASSUME GateInv, GateStepDone
    PROVE  GateInv'
<1> USE DEF GateInv
<1>1. /\ job.kind = "gate" /\ job.pc = "step" /\ DOMAIN seen' = DOMAIN seen
      /\ seen'.gate = Watched(seen.gate, Taken)
  BY SeenFields DEF GateStepDone
<1>2. /\ DOMAIN job' = DOMAIN job /\ job'.pc = "persist" /\ job'.kind = "gate" /\ job'.pattern = job.pattern
      /\ job'.retries = job.retries /\ job'.passes = job.passes /\ job'.outcome = job.outcome
      /\ job'.queue = <<Taken>> /\ Head(job'.queue) = Taken
  BY <1>1, JobFields DEF GateStepDone
<1>3. CASE job.pattern = "Texture"
  <2>1. Watched(seen.gate, Taken) =
           [texture |-> Taken.outcome, before |-> seen.gate.texture, soaked |-> FALSE,
            debt |-> seen.gate.debt \/ Taken.outcome = "Inconclusive",
            bad |-> \/ seen.gate.bad
                    \/ Taken.outcome \notin {"Validated", "Inconclusive"}
                    \/ Taken.outcome = "Validated" /\ Ceiling > 0 /\ Taken.p99 > Ceiling]
    BY <1>3, Zenon DEF Watched
  <2>2. /\ DOMAIN seen'.gate = DOMAIN NoGate
        /\ seen'.gate.texture = Taken.outcome /\ seen'.gate.before = seen.gate.texture
        /\ seen'.gate.debt = (seen.gate.debt \/ Taken.outcome = "Inconclusive")
        /\ seen'.gate.bad = (\/ seen.gate.bad
                             \/ Taken.outcome \notin {"Validated", "Inconclusive"}
                             \/ Taken.outcome = "Validated" /\ Ceiling > 0 /\ Taken.p99 > Ceiling)
    BY <1>1, <2>1 DEF NoGate
  <2>3. seen'.gate.debt => seen.gate.debt \/ Taken.outcome = "Inconclusive"
    BY <2>2, Zenon
  <2>4. ~ seen.gate.bad
    BY <1>1, <1>3
  <2>5. Ceiling > 0 /\ Taken.p99 > Ceiling => Ceiling > 0 /\ Taken.p99 # None /\ Taken.p99 > Ceiling
    BY StepDwellsAssumption DEF None
  <2>6. Taken.outcome = "Inconclusive" \/ (Taken.outcome = "Validated" /\ ~ AboveCeiling(Taken)) => ~ seen'.gate.bad
    BY <2>2, <2>4, <2>5, Zenon DEF AboveCeiling
  <2>7. AboveCeiling(Head(job'.queue)) <=> AboveCeiling(Head(job.queue))'
    BY DEF AboveCeiling
  <2> QED
    BY <1>1, <1>2, <1>3, <2>2, <2>3, <2>6, <2>7 DEF AboveCeiling
<1>4. CASE job.pattern = "Endurance"
  <2>1. seen'.gate = [seen.gate EXCEPT !.soaked = Taken.outcome = "Validated"]
    BY <1>1, <1>4, Zenon DEF Watched
  <2>2. /\ DOMAIN seen'.gate = DOMAIN NoGate /\ seen'.gate.soaked = (Taken.outcome = "Validated")
        /\ seen'.gate.texture = seen.gate.texture /\ seen'.gate.before = seen.gate.before
        /\ seen'.gate.debt = seen.gate.debt /\ seen'.gate.bad = seen.gate.bad
    BY <2>1, SeenFields
  <2>3. TexturePaid
    BY <1>1, <1>4
  <2>4. TexturePaid'
    BY <2>2, <2>3, Zenon DEF TexturePaid
  <2>5. Taken.outcome = "Validated" => seen'.gate.soaked
    BY <2>2, Zenon
  <2> QED
    BY <1>1, <1>2, <1>4, <2>2, <2>4, <2>5
<1> QED
  BY <1>1, <1>3, <1>4

LEMMA GateMovesPaid ==
    ASSUME GateInv, SelectGate \/ PersistGate
    PROVE  GateInv'
<1> USE DEF GateInv
<1>1. /\ job.kind = "gate" /\ UNCHANGED seen /\ job.outcome # "Qualified"
      /\ job.pc \in {"select", "persist"}
  BY DEF SelectGate, PersistGate
<1>2. TexturePaid' <=> TexturePaid
  BY <1>1 DEF TexturePaid
<1>3. /\ DOMAIN job' = DOMAIN job /\ job'.kind = "gate" /\ job'.pattern = job.pattern
      /\ job'.retries = job.retries /\ job'.passes = job.passes /\ job'.queue = job.queue
      /\ job'.outcome # "Qualified"
      /\ \/ job'.pc = "ended"
         \/ job.pc = "select" /\ job'.pc = "step"
         \/ job.pc = "persist" /\ job'.pc = "judge"
  BY <1>1, JobFields DEF SelectGate, PersistGate, Aborts, Outcome
<1>4. AboveCeiling(Head(job.queue))' <=> AboveCeiling(Head(job.queue))
  BY <1>3 DEF AboveCeiling
<1>5. CASE job'.pc = "ended"
  BY <1>1, <1>3, <1>5
<1>6. CASE job.pc = "select" /\ job'.pc = "step"
  BY <1>1, <1>2, <1>3, <1>6
<1>7. CASE job.pc = "persist" /\ job'.pc = "judge"
  BY <1>1, <1>2, <1>3, <1>4, <1>7
<1> QED
  BY <1>3, <1>5, <1>6, <1>7

(* The verdicts of the judge of a Texture.                                 *)
LEMMA JudgeTextureCases ==
    ASSUME DOMAIN job = DOMAIN IdleJob, JudgeTexture, job.kind = "gate"
    PROVE  LET r      == Head(job.queue)
               passes == IF job.retries > 0 THEN job.passes + 1 ELSE job.passes
           IN \/ /\ job'.pc = "ended" /\ job'.outcome # "Qualified"
                 /\ DOMAIN job' = DOMAIN job /\ job'.kind = "gate" /\ job'.pattern = job.pattern
                 /\ job'.retries = job.retries /\ job'.passes = job.passes /\ job'.mv = job.mv
              \/ /\ r.outcome = "Validated" /\ ~ AboveCeiling(r) /\ PatternComplete(job.retries, passes)
                 /\ job' = [job EXCEPT !.pc = "select", !.pattern = "Endurance", !.passes = passes]
              \/ /\ r.outcome = "Validated" /\ ~ AboveCeiling(r) /\ ~ PatternComplete(job.retries, passes)
                 /\ job' = [job EXCEPT !.pc = "select", !.passes = passes]
              \/ /\ r.outcome = "Inconclusive"
                 /\ job' = [job EXCEPT !.pc = "select", !.retries = @ + 1, !.passes = 0]
<1> DEFINE r == Head(job.queue)
           passes == IF job.retries > 0 THEN job.passes + 1 ELSE job.passes
<1> DEFINE gone(j) == /\ j.pc = "ended" /\ j.outcome # "Qualified"
                      /\ DOMAIN j = DOMAIN job /\ j.kind = "gate" /\ j.pattern = job.pattern
                      /\ j.retries = job.retries /\ j.passes = job.passes /\ j.mv = job.mv
<1>1. \A name, retain : name # "Qualified" => gone(Outcome(name)) /\ gone(Aborts(name, retain))
  BY JobFields DEF Outcome, Aborts
<1>2. r.outcome \in AbortOutcomes => r.outcome # "Qualified"
  BY DEF AbortOutcomes, RetainingOutcomes
<1> HIDE DEF gone, r, passes
<1> DEFINE over == \E name, retain : name # "Qualified" /\ job' \in {Outcome(name), Aborts(name, retain)}
<1> HIDE DEF over
<1>3. over => gone(job')
  BY <1>1 DEF over
<1>4. "Validated" \notin AbortOutcomes /\ "Inconclusive" \notin AbortOutcomes
  BY DEF AbortOutcomes, RetainingOutcomes
<1>5. CASE r.outcome = "Validated" /\ AboveCeiling(r)
  <2>1. job' = Outcome("PowerCeilingExceeded")
    BY <1>4, <1>5 DEF JudgeTexture, r
  <2> QED
    BY <2>1, <1>3 DEF over, gone, r, passes
<1>6. CASE r.outcome = "Validated" /\ ~ AboveCeiling(r)
  <2>1. job' = IF PatternComplete(job.retries, passes)
               THEN [job EXCEPT !.pc = "select", !.pattern = "Endurance", !.passes = passes]
               ELSE [job EXCEPT !.pc = "select", !.passes = passes]
    BY <1>4, <1>6 DEF JudgeTexture, r, passes
  <2> QED
    BY <2>1, <1>6 DEF r, passes
<1>7. CASE r.outcome \in AbortOutcomes
  <2>1. job' = Aborts(r.outcome, Retains(r.outcome))
    BY <1>4, <1>7 DEF JudgeTexture, r
  <2> QED
    BY <2>1, <1>2, <1>3, <1>7 DEF over, gone, r, passes
<1>8. CASE r.outcome = "Inconclusive"
  <2>1. \/ job' = [job EXCEPT !.pc = "select", !.retries = @ + 1, !.passes = 0]
        \/ job' = Outcome("Inconclusive")
    BY <1>4, <1>8 DEF JudgeTexture, r
  <2> QED
    BY <2>1, <1>3, <1>8 DEF over, gone, r, passes
<1>9. CASE r.outcome \notin AbortOutcomes \cup {"Validated", "Inconclusive"}
  <2>1. job' = Outcome("Rejected")
    BY <1>9 DEF JudgeTexture, r
  <2> QED
    BY <2>1, <1>3 DEF over, gone, r, passes
<1> QED
  BY <1>5, <1>6, <1>7, <1>8, <1>9 DEF gone, r, passes

(* Two passes in a row are due if a retry was needed.                      *)
LEMMA JudgeTexturePaid ==
    ASSUME GateInv, JudgeTexture, job.kind = "gate"
    PROVE  GateInv'
<1> USE DEF GateInv
<1> DEFINE r == Head(job.queue)
           passes == IF job.retries > 0 THEN job.passes + 1 ELSE job.passes
<1>1. /\ job.pc = "judge" /\ job.pattern = "Texture" /\ UNCHANGED seen /\ job.outcome # "Qualified"
      /\ seen.gate.texture = r.outcome
      /\ seen.gate.debt => job.retries # 0 \/ r.outcome = "Inconclusive"
      /\ r.outcome = "Inconclusive" \/ (r.outcome = "Validated" /\ ~ AboveCeiling(r)) => ~ seen.gate.bad
      /\ job.passes # 0 => seen.gate.before = "Validated"
  BY DEF JudgeTexture
<1>2. passes \in Nat /\ (passes >= 2 => job.passes # 0) /\ (job.retries # 0 => passes # 0)
  OBVIOUS
<1>3. \/ job'.pc = "ended" /\ job'.outcome # "Qualified"
         /\ DOMAIN job' = DOMAIN job /\ job'.kind = "gate" /\ job'.pattern = job.pattern
         /\ job'.retries = job.retries /\ job'.passes = job.passes
      \/ /\ r.outcome = "Validated" /\ ~ AboveCeiling(r) /\ PatternComplete(job.retries, passes)
         /\ job' = [job EXCEPT !.pc = "select", !.pattern = "Endurance", !.passes = passes]
      \/ /\ r.outcome = "Validated" /\ ~ AboveCeiling(r) /\ ~ PatternComplete(job.retries, passes)
         /\ job' = [job EXCEPT !.pc = "select", !.passes = passes]
      \/ /\ r.outcome = "Inconclusive"
         /\ job' = [job EXCEPT !.pc = "select", !.retries = @ + 1, !.passes = 0]
  BY JudgeTextureCases
<1> HIDE DEF r, passes
<1>4. CASE job'.pc = "ended" /\ job'.outcome # "Qualified"
           /\ DOMAIN job' = DOMAIN job /\ job'.kind = "gate" /\ job'.pattern = job.pattern
           /\ job'.retries = job.retries /\ job'.passes = job.passes
  BY <1>1, <1>4
<1>5. CASE /\ r.outcome = "Validated" /\ ~ AboveCeiling(r) /\ PatternComplete(job.retries, passes)
           /\ job' = [job EXCEPT !.pc = "select", !.pattern = "Endurance", !.passes = passes]
  <2>1. /\ DOMAIN job' = DOMAIN job /\ job'.pc = "select" /\ job'.pattern = "Endurance"
        /\ job'.kind = "gate" /\ job'.retries = job.retries /\ job'.passes = passes
        /\ job'.outcome = job.outcome
    BY <1>5, JobFields
  <2>2. TexturePaid
    BY <1>1, <1>2, <1>5 DEF TexturePaid, PatternComplete
  <2>3. TexturePaid'
    BY <1>1, <2>2 DEF TexturePaid
  <2> QED
    BY <1>1, <1>2, <2>1, <2>3
<1>6. CASE /\ r.outcome = "Validated" /\ ~ AboveCeiling(r) /\ ~ PatternComplete(job.retries, passes)
           /\ job' = [job EXCEPT !.pc = "select", !.passes = passes]
  <2>1. /\ DOMAIN job' = DOMAIN job /\ job'.pc = "select" /\ job'.pattern = "Texture"
        /\ job'.kind = "gate" /\ job'.retries = job.retries /\ job'.passes = passes
        /\ job'.outcome = job.outcome
    BY <1>1, <1>6, JobFields
  <2> QED
    BY <1>1, <1>2, <1>6, <2>1
<1>7. CASE /\ r.outcome = "Inconclusive"
           /\ job' = [job EXCEPT !.pc = "select", !.retries = @ + 1, !.passes = 0]
  <2>1. /\ DOMAIN job' = DOMAIN job /\ job'.pc = "select" /\ job'.pattern = "Texture"
        /\ job'.kind = "gate" /\ job'.retries = job.retries + 1 /\ job'.passes = 0
        /\ job'.outcome = job.outcome
    BY <1>1, <1>7, JobFields
  <2> QED
    BY <1>1, <1>7, <2>1
<1> QED
  BY <1>3, <1>4, <1>5, <1>6, <1>7

LEMMA JudgeEndurancePaid ==
    ASSUME GateInv, JudgeEndurance, job.kind = "gate"
    PROVE  GateInv'
<1> USE DEF GateInv
<1>1. /\ job.pc = "judge" /\ job.pattern = "Endurance" /\ UNCHANGED seen /\ TexturePaid
      /\ Head(job.queue).outcome = "Validated" => seen.gate.soaked
  BY DEF JudgeEndurance
<1>2. /\ DOMAIN job' = DOMAIN job /\ job'.kind = "gate" /\ job'.pattern = "Endurance" /\ job'.pc = "ended"
      /\ job'.retries = job.retries /\ job'.passes = job.passes
      /\ job'.outcome = "Qualified" => Head(job.queue).outcome = "Validated"
  BY <1>1, JobFields DEF JudgeEndurance, Outcome, Aborts, AbortOutcomes, RetainingOutcomes
<1>3. TexturePaid'
  BY <1>1 DEF TexturePaid
<1>4. job'.outcome = "Qualified" => seen'.gate.soaked
  BY <1>1, <1>2
<1> QED
  BY <1>1, <1>2, <1>3, <1>4

(* The other jobs leave the observer of the gate alone.                    *)
LEMMA OtherJobsPaid ==
    ASSUME GateInv, job.kind # "gate",
           SelectCalibration \/ CalibrationStepDone \/ AnalyseCalibration \/ PersistCalibration
           \/ SelectSweep \/ SweepStepDone \/ RecordSweep \/ SweepRecorded
    PROVE  GateInv'
<1> USE DEF GateInv
<1>1. DOMAIN seen' = DOMAIN NothingSeen /\ seen'.gate = NoGate
  BY SeenFields DEF SelectCalibration, CalibrationStepDone, AnalyseCalibration, PersistCalibration,
     SelectSweep, SweepStepDone, RecordSweep, SweepRecorded
<1>2. job.outcome # "Qualified"
  BY DEF SelectCalibration, CalibrationStepDone, AnalyseCalibration, PersistCalibration,
     SelectSweep, SweepStepDone, RecordSweep, SweepRecorded
<1> DEFINE Same == /\ DOMAIN job' = DOMAIN IdleJob /\ job'.kind = job.kind
                   /\ job'.retries \in Nat /\ job'.passes \in Nat
                   /\ job'.outcome = "Qualified" => job'.pc = "ended"
                   /\ job'.pc # "judge"
<1>3. CASE SelectCalibration \/ SelectSweep
  <2>1. Same
    BY <1>2, <1>3, JobFields DEF SelectCalibration, SelectSweep, Recorded
  <2> QED
    BY <1>1, <2>1, NoGateYet
<1>4. CASE CalibrationStepDone \/ AnalyseCalibration
  <2>1. Same
    BY <1>2, <1>4, JobFields DEF CalibrationStepDone, AnalyseCalibration
  <2> QED
    BY <1>1, <2>1, NoGateYet
<1>5. CASE PersistCalibration
  <2>1. Same
    BY <1>2, <1>5, JobFields DEF PersistCalibration, Aborts, Outcome
  <2> QED
    BY <1>1, <2>1, NoGateYet
<1>6. CASE SweepStepDone \/ RecordSweep \/ SweepRecorded
  <2>1. Same
    BY <1>2, <1>6, JobFields DEF SweepStepDone, RecordSweep, SweepRecorded, Recorded, Outcome
  <2> QED
    BY <1>1, <2>1, NoGateYet
<1> QED
  BY <1>3, <1>4, <1>5, <1>6

(* A job starts, ends or is cut off.                                       *)
LEMMA OtherStepsPaid ==
    ASSUME GateInv,
           \/ StartCalibration \/ StartGate \/ StartSweep \/ StartSteps \/ JobEnds
           \/ StepPanics \/ Reboot
    PROVE  GateInv'
<1> USE DEF GateInv
<1>1. /\ DOMAIN IdleJob = DOMAIN job' /\ IdleJob.retries = 0 /\ IdleJob.passes = 0
      /\ IdleJob.pattern = "Texture" /\ IdleJob.kind = "none" /\ IdleJob.outcome = "none" /\ IdleJob.pc = "idle"
  BY JobFields DEF IdleJob, StartCalibration, StartGate, StartSweep, StartSteps, StartPairJob,
     StartDescent, JobEnds, StepPanics, Reboot
<1>2. CASE StartCalibration \/ StartGate
  <2>1. PICK kind \in {"calibration", "gate"}, mv \in Pairs : StartPairJob(kind, mv)
    BY <1>2 DEF StartCalibration, StartGate
  <2>2. /\ job'.kind = kind /\ job'.retries = 0 /\ job'.passes = 0 /\ job'.pattern = "Texture"
        /\ job'.pc \in {"ended", "select"} /\ job'.outcome # "Qualified" /\ seen' = seen
    BY <2>1 DEF StartPairJob, IdleJob
  <2>3. job.kind # "gate"
    BY <2>1 DEF StartPairJob
  <2> QED
    BY <1>1, <2>2, <2>3, NoGateYet
<1>3. CASE StartSweep \/ StartSteps
  <2>1. PICK kind \in {"sweep", "steps"} : StartDescent(kind)
    BY <1>3 DEF StartSweep, StartSteps
  <2>2. /\ job'.kind = kind /\ job'.retries = 0 /\ job'.passes = 0
        /\ job'.pc = "select" /\ job'.outcome # "Qualified" /\ seen' = seen
    BY <2>1 DEF StartDescent, IdleJob
  <2>3. job.kind # "gate"
    BY <2>1 DEF StartDescent
  <2> QED
    BY <1>1, <2>2, <2>3, NoGateYet
<1>4. CASE JobEnds \/ StepPanics \/ Reboot
  <2>1. job' = IdleJob /\ DOMAIN seen' = DOMAIN NothingSeen /\ seen'.gate = NoGate
    BY <1>4, SeenFields DEF JobEnds, StepPanics, Reboot
  <2> QED
    BY <1>1, <2>1, NoGateYet
<1> QED
  BY <1>2, <1>3, <1>4

LEMMA GateNext ==
    ASSUME GateInv, [Next]_svars
    PROVE  GateInv'
<1>1. CASE MotorRuns \/ DiscoveryLoad \/ GateLoad \/ OpenSession \/ CloseSession \/ StopPressed
           \/ UNCHANGED svars
  <2>1. UNCHANGED job /\ DOMAIN seen' = DOMAIN seen /\ seen'.gate = seen.gate
    BY <1>1, SeenFields DEF MotorRuns, DiscoveryLoad, GateLoad, OpenSession, CloseSession, StopPressed,
       svars, GateInv
  <2> QED
    BY <2>1, GateLoadPaid
<1>2. CASE GateStepDone \/ SelectGate \/ PersistGate
  BY <1>2, GateStepPaid, GateMovesPaid
<1>3. CASE JudgeTexture \/ JudgeEndurance
  <2>1. job.kind = "gate"
    BY <1>3 DEF GateInv, JudgeTexture, JudgeEndurance
  <2> QED
    BY <1>3, <2>1, JudgeTexturePaid, JudgeEndurancePaid
<1>4. CASE \/ SelectCalibration \/ CalibrationStepDone \/ AnalyseCalibration \/ PersistCalibration
           \/ SelectSweep \/ SweepStepDone \/ RecordSweep \/ SweepRecorded
  <2>1. job.kind # "gate"
    BY <1>4 DEF GateInv, SelectCalibration, CalibrationStepDone, AnalyseCalibration, PersistCalibration,
       SelectSweep, SweepStepDone, RecordSweep, SweepRecorded, Descending
  <2> QED
    BY <1>4, <2>1, OtherJobsPaid
<1>5. CASE \/ StartCalibration \/ StartGate \/ StartSweep \/ StartSteps \/ JobEnds
           \/ StepPanics \/ Reboot
  BY <1>5, OtherStepsPaid
<1> QED
  BY <1>1, <1>2, <1>3, <1>4, <1>5 DEF Next, Work, Calibration, Gate, Sweep

(* A pair is qualified only when its last two Textures passed if one of    *)
(* its dwells was inconclusive, none failed or drew more than the ceiling, *)
(* and the soak came last (gate_anchored_candidate_fsgl3).                 *)
THEOREM GatePaysItsDebt == Spec => []QualifiedPaidItsDebt
<1>1. Init => GateInv
  BY DEF Init, GateInv, IdleJob, NothingSeen, NoGate
<1>2. GateInv /\ [Next]_svars => GateInv'
  BY GateNext
<1>3. GateInv => QualifiedPaidItsDebt
  BY DEF GateInv, TexturePaid, QualifiedPaidItsDebt
<1> QED
  BY <1>1, <1>2, <1>3, PTL DEF Spec

-----------------------------------------------------------------------------
(* The trace of a lost device.                                             *)

LostIn(rs) == \E n \in DOMAIN rs : rs[n].outcome = "DeviceLost"

(* On disk for good.                                                       *)
Traced(mv) == Blacklisted(mv) \/ \E o \in obs : o.anchor = mv /\ o.lost

(* The step's own cleanup has yet to deal with it.                         *)
Awaiting(mv) == motor.pc \in {"reset", "blacklist", "clear", "done"} /\ motor.mv = mv /\ LostDevice

(* The blacklist could not be written: the flag stands for it, until a     *)
(* restart when no session is open, else until its line is written.        *)
Carried(mv) ==
    /\ motor.pc = "idle" /\ flag = mv /\ faults = MaxFaults
    /\ \/ session.pc = "closed"
       \/ job.pc = "analyse" /\ job.mv = mv /\ LostIn(job.reports)
       \/ job.pc = "persist" /\ job.mv = mv /\ LostIn(job.queue)

LossTypes ==
    /\ log.torn = FALSE
    /\ seen.lost \subseteq Nat /\ DOMAIN seen = DOMAIN NothingSeen
    /\ job.pc # "idle" => job.mv \in Nat
    /\ motor.pc # "idle" => motor.mv = job.mv
    /\ job.pc # "idle" /\ Descending =>
           session.pc = "closed" /\ job.i \in DOMAIN Plan /\ job.lastGood \in 0 .. Len(Plan)
    /\ job.pc = "persist" => job.queue \in Seq(ReportType) /\ (job.kind = "gate" => Len(job.queue) = 1)
    /\ job.pc = "record" => Descending
    /\ job.pc = "analyse" => job.kind = "calibration"

LossKept == \A mv \in seen.lost : Traced(mv) \/ Awaiting(mv) \/ Carried(mv)

LossInv == StepInv /\ MotorMemory /\ LossTypes /\ LossKept

(* The motor begins, is put aside, or rests.                               *)
LEMMA LossMemory ==
    ASSUME MaxFaults <= 1, LossInv, [Next]_svars
    PROVE  MotorMemory'
<1> USE DEF LossInv
<1>1. StepInv' /\ MotorGuarded /\ MotorMemory /\ flag \in Int /\ blacklist \subseteq Int /\ faults \in 0 .. MaxFaults
  BY StepNext DEF StepInv, MotorMemory, MotorTypes
<1>2. CASE MotorRuns
  BY <1>1, <1>2, MotorStepMemory DEF MotorRuns
<1>3. CASE DiscoveryLoad \/ GateLoad
  <2>1. \E r : motor' = Finish(RunPhase(r))
    BY <1>3 DEF DiscoveryLoad, GateLoad
  <2>2. /\ motor'.pc = "reset" /\ motor'.mv = motor.mv /\ motor'.saved = motor.saved
        /\ motor.pc = "active" /\ UNCHANGED <<flag, blacklist, faults>>
    BY <1>1, <1>3, <2>1 DEF DiscoveryLoad, GateLoad, Finish, RunPhase, MotorGuarded, MotorShape
  <2>3. motor'.reports \in Seq(ReportType)
    <3>1. Taken' \in ReportType /\ motor'.reports = <<Taken'>>
      BY <1>1, <2>2 DEF StepInv, StepShape, OneReport
    <3>2. \A x \in ReportType : <<x>> \in Seq(ReportType)
      OBVIOUS
    <3> QED
      BY <3>1, <3>2, Zenon
  <2> QED
    BY <1>1, <2>2, <2>3, ReportsMemory
<1>4. CASE Begin("step", job.mv) /\ job.pc # "idle" /\ UNCHANGED <<flag, blacklist, faults>>
  BY <1>1, <1>4, BeginMemory DEF LossTypes
<1>5. CASE motor' = IdleMotor /\ flag' \in Int /\ blacklist' \subseteq Int /\ faults' \in 0 .. MaxFaults
  BY <1>1, <1>5, IdleMemory
<1>6. CASE motor.pc = "idle" /\ UNCHANGED motor /\ flag' \in Int /\ blacklist' \subseteq Int /\ faults' \in 0 .. MaxFaults
  BY <1>1, <1>6, RestMemory
<1>7. CASE UNCHANGED mvars
  BY <1>1, <1>7 DEF MotorMemory, MotorTypes, Condemns, LostDevice, Reports, Blacklisted, Retained, mvars
<1>8. CASE SelectCalibration \/ SelectGate \/ SelectSweep \/ CalibrationStepDone
  <2>1. /\ job.pc # "idle" /\ UNCHANGED <<flag, hw, blacklist, faults>>
        /\ Begin("step", job.mv) \/ motor' = IdleMotor \/ UNCHANGED motor
    BY <1>8 DEF SelectCalibration, SelectGate, SelectSweep, CalibrationStepDone
  <2> QED
    BY <1>1, <1>4, <1>5, <1>7, <2>1 DEF mvars
<1>9. CASE GateStepDone \/ SweepStepDone
  BY <1>1, <1>5, <1>9 DEF GateStepDone, SweepStepDone
<1>10. CASE AnalyseCalibration \/ JudgeTexture \/ JudgeEndurance \/ SweepRecorded \/ JobEnds \/ StopPressed
            \/ StartCalibration \/ StartGate \/ StartSweep \/ StartSteps
  BY <1>7, <1>10 DEF AnalyseCalibration, JudgeTexture, JudgeEndurance, SweepRecorded, JobEnds, StopPressed,
     StartCalibration, StartGate, StartSweep, StartSteps, StartPairJob, StartDescent
<1>11. CASE PersistCalibration \/ PersistGate \/ RecordSweep
  <2>1. motor.pc = "idle" /\ UNCHANGED <<motor, flag, blacklist>> /\ (Fault \/ NoFault)
    BY <1>1, <1>11 DEF PersistCalibration, PersistGate, RecordSweep, StepInv, StepShape
  <2> QED
    BY <1>1, <1>6, <2>1, FaultRange
<1>12. CASE OpenSession \/ CloseSession
  <2>1. motor.pc = "idle" /\ UNCHANGED <<motor, blacklist>> /\ (UNCHANGED faults \/ Fault \/ NoFault)
        /\ flag' \in {flag, None}
    BY <1>1, <1>12 DEF OpenSession, CloseSession, StepInv, StepShape
  <2>2. faults' \in 0 .. MaxFaults /\ flag' \in Int
    BY <1>1, <2>1, FaultRange DEF NoFault, None
  <2> QED
    BY <1>1, <1>6, <2>1, <2>2
<1>13. CASE StepPanics \/ Reboot
  <2>1. motor' = IdleMotor /\ (UNCHANGED faults \/ Fault) /\ flag' \in {flag, None}
        /\ blacklist' \subseteq blacklist \cup {flag}
    BY <1>13 DEF StepPanics, Reboot, RebootAndRecover
  <2>2. faults' \in 0 .. MaxFaults /\ flag' \in Int /\ blacklist' \subseteq Int
    BY <1>1, <2>1, FaultRange DEF NoFault, None
  <2> QED
    BY <1>5, <2>1, <2>2
<1> QED
  BY <1>2, <1>3, <1>7, <1>8, <1>9, <1>10, <1>11, <1>12, <1>13
     DEF Next, Work, Calibration, Gate, Sweep, svars, mvars

LEMMA AppendKeeps ==
    ASSUME log.torn = FALSE, NEW o
    PROVE  AppendObservation(log, o).torn = FALSE /\ AppendObservation(log, o).obs = log.obs \cup {o}
  BY DEF AppendObservation

(* What is on disk stays there.                                            *)
LEMMA DiskGrows ==
    ASSUME LossTypes, [Next]_svars
    PROVE  blacklist \subseteq blacklist' /\ log.obs \subseteq log'.obs /\ log'.torn = FALSE
<1>1. log.torn = FALSE
  BY DEF LossTypes
<1>2. \/ UNCHANGED log
      \/ \E o : log' = AppendObservation(log, o)
  BY DEF Next, Work, Calibration, Gate, Sweep, MotorRuns, DiscoveryLoad, GateLoad, SelectCalibration,
     SelectGate, SelectSweep, CalibrationStepDone, GateStepDone, SweepStepDone, AnalyseCalibration,
     JudgeTexture, JudgeEndurance, SweepRecorded, JobEnds, StopPressed, StartCalibration, StartGate,
     StartSweep, StartSteps, StartPairJob, StartDescent, PersistCalibration, PersistGate, RecordSweep,
     OpenSession, CloseSession, StepPanics, Reboot, svars
<1>3. blacklist \subseteq blacklist'
  BY MotorStepGrows DEF Next, Work, Calibration, Gate, Sweep, MotorRuns, DiscoveryLoad, GateLoad, SelectCalibration,
     SelectGate, SelectSweep, CalibrationStepDone, GateStepDone, SweepStepDone, AnalyseCalibration,
     JudgeTexture, JudgeEndurance, SweepRecorded, JobEnds, StopPressed, StartCalibration, StartGate,
     StartSweep, StartSteps, StartPairJob, StartDescent, PersistCalibration, PersistGate, RecordSweep,
     OpenSession, CloseSession, StepPanics, Reboot, RebootAndRecover, svars, mvars
<1> QED
  BY <1>1, <1>2, <1>3, AppendKeeps

LEMMA TracedStays ==
    ASSUME NEW mv, Traced(mv), blacklist \subseteq blacklist', log.obs \subseteq log'.obs
    PROVE  Traced(mv)'
  BY BlacklistGrows DEF Traced, obs

(* With the flag down and no cleanup under way all losses are on disk.     *)
LEMMA UnarmedTraced ==
    ASSUME LossInv, NEW mv \in seen.lost,
           motor.pc \notin {"reset", "blacklist", "clear", "done"},
           \/ flag = None \/ motor.pc = "active"
           \/ session.pc = "open" /\ job.pc \notin {"analyse", "persist"}
    PROVE  Traced(mv)
  BY DEF LossInv, LossTypes, LossKept, Awaiting, Carried, None

(* The candidates of a descent come from the plan, those of a pair job     *)
(* from the pairs.                                                         *)
LEMMA LossTypesInit == Init => LossTypes
  BY DEF Init, LossTypes, EmptyLog, NothingSeen, IdleJob, MotorInit, IdleMotor

LEMMA PlanTypes ==
    /\ Len(Plan) \in Nat /\ DOMAIN Plan = 1 .. Len(Plan)
    /\ \A n \in DOMAIN Plan : Plan[n] \in Nat
  BY StepPlanDescends

(* The lines of a calibration: one per attempt, a lost device stays one.   *)
LEMMA CalibratedLines ==
    ASSUME job.reports \in Seq(ReportType)
    PROVE  /\ Calibrated.lines \in Seq(ReportType)
           /\ LostIn(job.reports) => LostIn(Calibrated.lines)
<1> DEFINE rs == job.reports
           tries == ConfirmAttempts(rs, job.rechecked)
<1>1. PICK near : Calibrated.lines =
                    [n \in DOMAIN tries |->
                       IF tries[n].confirmed THEN [tries[n] EXCEPT !.outcome = PowerBound(@, near)] ELSE tries[n]]
  BY Zenon DEF Calibrated
<1>2. DOMAIN tries = 1 .. Len(rs) /\ Len(rs) \in Nat /\ \A n \in 1 .. Len(rs) : rs[n] \in ReportType
  BY DEF ConfirmAttempts
<1>3. ASSUME NEW n \in 1 .. Len(rs)
      PROVE  tries[n] \in ReportType /\ (rs[n].outcome = "DeviceLost" => tries[n].outcome = "DeviceLost")
  <2>1. tries[n] = IF n \notin UsableIn(rs) THEN rs[n]
                   ELSE IF Consensus(rs, job.rechecked) THEN [rs[n] EXCEPT !.confirmed = TRUE]
                   ELSE [rs[n] EXCEPT !.outcome = "Inconclusive", !.confirmed = FALSE]
    BY <1>2 DEF ConfirmAttempts
  <2>2. rs[n].outcome = "DeviceLost" => n \notin UsableIn(rs)
    BY DEF UsableIn, Usable, ContentUsable
  <2>3. rs[n] \in ReportType /\ "Inconclusive" \in Outcomes
    BY <1>2 DEF Outcomes, DwellOutcomes
  <2>4. /\ [rs[n] EXCEPT !.confirmed = TRUE] \in ReportType
        /\ [rs[n] EXCEPT !.outcome = "Inconclusive", !.confirmed = FALSE] \in ReportType
    BY <2>3 DEF ReportType
  <2> QED
    BY <2>1, <2>2, <2>3, <2>4
<1>4. \A r \in ReportType :
         /\ [r EXCEPT !.outcome = PowerBound(@, near)] \in ReportType
         /\ r.outcome = "DeviceLost" => [r EXCEPT !.outcome = PowerBound(@, near)].outcome = "DeviceLost"
  BY DEF ReportType, PowerBound, Outcomes
<1> HIDE DEF tries
<1>5. \A n \in 1 .. Len(rs) : /\ Calibrated.lines[n] \in ReportType
                              /\ rs[n].outcome = "DeviceLost" => Calibrated.lines[n].outcome = "DeviceLost"
  BY <1>1, <1>2, <1>3, <1>4
<1>6. DOMAIN Calibrated.lines = 1 .. Len(rs) /\ Calibrated.lines = [n \in 1 .. Len(rs) |-> Calibrated.lines[n]]
  BY <1>1, <1>2
<1>7. Calibrated.lines \in Seq(ReportType)
  BY <1>2, <1>5, <1>6
<1>8. DOMAIN rs = 1 .. Len(rs)
  BY <1>2
<1> QED
  BY <1>5, <1>6, <1>7, <1>8 DEF LostIn

(* What a step adds to the losses is the candidate of a job.               *)
LEMMA LossesTyped ==
    ASSUME LossInv, [Next]_svars
    PROVE  seen'.lost \subseteq Nat /\ DOMAIN seen' = DOMAIN NothingSeen
<1> USE DEF LossInv, LossTypes
<1>1. motor.pc = "active" => motor.mv \in Nat
  BY DEF StepInv, StepShape
<1>2. CASE DiscoveryLoad \/ GateLoad
  BY <1>1, <1>2, SeenFields DEF DiscoveryLoad, GateLoad
<1>3. CASE ~ (DiscoveryLoad \/ GateLoad)
  <2>1. DOMAIN seen' = DOMAIN seen /\ seen'.lost = seen.lost
    BY <1>3, SeenFields
       DEF Next, Work, Calibration, Gate, Sweep, MotorRuns, SelectCalibration,
         SelectGate, SelectSweep, CalibrationStepDone, GateStepDone, SweepStepDone, AnalyseCalibration,
         JudgeTexture, JudgeEndurance, SweepRecorded, JobEnds, StopPressed, StartCalibration, StartGate,
         StartSweep, StartSteps, StartPairJob, StartDescent, PersistCalibration, PersistGate, RecordSweep,
         OpenSession, CloseSession, StepPanics, Reboot, svars
  <2> QED
    BY <2>1
<1> QED
  BY <1>2, <1>3

(* The motor works at the job's candidate.                                 *)
LEMMA MotorsCandidate ==
    ASSUME LossInv, [Next]_svars
    PROVE  motor'.pc # "idle" => motor'.mv = job'.mv
<1> USE DEF LossInv, LossTypes
<1>1. MotorShape /\ DOMAIN job = DOMAIN IdleJob
  BY DEF StepInv, StepShape, MotorGuarded
<1>2. CASE MotorRuns \/ DiscoveryLoad \/ GateLoad
  <2>1. motor.pc # "idle" /\ motor'.mv = motor.mv /\ UNCHANGED job
    BY <1>1, <1>2 DEF MotorRuns, DiscoveryLoad, GateLoad, Finish, RunPhase, MotorStep, ArmBootFlag,
       ApplyPositiveOffset, VerifyOffset, ResetToStock, BlacklistPoint, RetainBootFlag, ClearBootFlag,
       Dirty, MotorShape
  <2> QED
    BY <2>1
<1>3. CASE SelectCalibration \/ SelectGate \/ SelectSweep \/ CalibrationStepDone
  <2>1. CASE Begin("step", job.mv) /\ job'.mv = job.mv
    BY <2>1 DEF Begin, IdleMotor
  <2>2. CASE motor' = IdleMotor
    BY <2>2 DEF IdleMotor
  <2>3. CASE UNCHANGED motor /\ motor.pc = "idle"
    BY <2>3
  <2>4. \/ Begin("step", job.mv) /\ job'.mv = job.mv
        \/ motor' = IdleMotor
        \/ UNCHANGED motor /\ motor.pc = "idle"
    BY <1>1, <1>3, JobFields DEF SelectCalibration, SelectGate, SelectSweep, CalibrationStepDone, StepInv, StepShape
  <2> QED
    BY <2>1, <2>2, <2>3, <2>4
<1>4. CASE GateStepDone \/ SweepStepDone \/ StepPanics \/ Reboot
  BY <1>4 DEF GateStepDone, SweepStepDone, StepPanics, Reboot, RebootAndRecover, IdleMotor
<1>5. CASE \/ AnalyseCalibration \/ JudgeTexture \/ JudgeEndurance \/ SweepRecorded \/ JobEnds
           \/ StartCalibration \/ StartGate \/ StartSweep \/ StartSteps \/ PersistCalibration \/ PersistGate
           \/ RecordSweep \/ OpenSession \/ CloseSession
  <2>1. UNCHANGED motor /\ motor.pc = "idle"
    BY <1>5 DEF AnalyseCalibration, JudgeTexture, JudgeEndurance, SweepRecorded, JobEnds, StartCalibration,
       StartGate, StartSweep, StartSteps, StartPairJob, StartDescent, PersistCalibration, PersistGate,
       RecordSweep, OpenSession, CloseSession, StepInv, StepShape, mvars
  <2> QED
    BY <2>1
<1>6. CASE StopPressed \/ UNCHANGED svars
  BY <1>6 DEF StopPressed, svars, mvars
<1> QED
  BY <1>2, <1>3, <1>4, <1>5, <1>6 DEF Next, Work, Calibration, Gate, Sweep

JobTypes ==
    /\ job.pc # "idle" => job.mv \in Nat
    /\ job.pc # "idle" /\ Descending =>
           session.pc = "closed" /\ job.i \in DOMAIN Plan /\ job.lastGood \in 0 .. Len(Plan)
    /\ job.pc = "persist" => job.queue \in Seq(ReportType) /\ (job.kind = "gate" => Len(job.queue) = 1)
    /\ job.pc = "record" => Descending
    /\ job.pc = "analyse" => job.kind = "calibration"

LEMMA JobTypesStart ==
    ASSUME LossInv, StartCalibration \/ StartGate \/ StartSweep \/ StartSteps
    PROVE  JobTypes'
<1>1. CASE StartCalibration \/ StartGate
  <2>1. PICK kind \in {"calibration", "gate"}, mv \in Pairs : StartPairJob(kind, mv)
    BY <1>1 DEF StartCalibration, StartGate
  <2>2. job'.mv = mv /\ job'.kind = kind /\ job'.pc \in {"ended", "select"} /\ mv \in Nat
    BY <2>1, StepDwellsAssumption DEF StartPairJob, IdleJob
  <2> QED
    BY <2>2 DEF JobTypes, Descending
<1>2. CASE StartSweep \/ StartSteps
  <2>1. PICK kind \in {"sweep", "steps"} : StartDescent(kind)
    BY <1>2 DEF StartSweep, StartSteps
  <2>2. Plan # <<>> /\ session.pc = "closed" /\ DOMAIN session = DOMAIN IdleSession
    BY <2>1 DEF StartDescent, DescentRefused, LossInv, StepInv, StepShape
  <2>3. 1 \in DOMAIN Plan
    BY <2>2, PlanTypes, StepPlanDescends
  <2>4. job'.mv = Plan[1] /\ job'.pc = "select" /\ job'.i = 1 /\ job'.lastGood = 0
    BY <2>1 DEF StartDescent, IdleJob
  <2>5. session' = [session EXCEPT !.run = @ + 1]
    BY <2>1 DEF StartDescent
  <2>6. session'.pc = "closed"
    BY <2>2, <2>5, JobFields
  <2> QED
    BY <2>3, <2>4, <2>6, PlanTypes DEF JobTypes
<1> QED
  BY <1>1, <1>2

LEMMA JobTypesPairs ==
    ASSUME LossInv,
           \/ SelectCalibration \/ CalibrationStepDone \/ AnalyseCalibration \/ PersistCalibration
           \/ SelectGate \/ GateStepDone \/ PersistGate \/ JudgeTexture \/ JudgeEndurance
    PROVE  JobTypes'
<1> USE DEF LossInv
<1>1. DOMAIN job = DOMAIN IdleJob /\ job.pc # "idle" /\ job.mv \in Nat
  BY DEF LossTypes, StepInv, StepShape, SelectCalibration, CalibrationStepDone, AnalyseCalibration,
     PersistCalibration, SelectGate, GateStepDone, PersistGate, JudgeTexture, JudgeEndurance
<1>2. CASE SelectCalibration \/ CalibrationStepDone
  <2>1. job.kind = "calibration" /\ job'.kind = job.kind /\ job'.mv = job.mv /\ job'.pc \notin {"persist", "record"}
    BY <1>1, <1>2, JobFields DEF SelectCalibration, CalibrationStepDone
  <2> QED
    BY <1>1, <2>1 DEF JobTypes, Descending
<1>3. CASE AnalyseCalibration
  <2>1. job.kind = "calibration" /\ job'.kind = job.kind /\ job'.mv = job.mv /\ job'.queue = Calibrated.lines
        /\ job'.pc = "persist"
    BY <1>1, <1>3, JobFields DEF AnalyseCalibration, LossTypes
  <2> QED
    BY <1>1, <2>1, CalibratedLines DEF JobTypes, Descending, StepInv, StepShape
<1>4. CASE PersistCalibration
  <2>1. /\ job.kind = "calibration" /\ job'.kind = job.kind /\ job'.mv = job.mv
        /\ job'.pc = "persist" => Len(job.queue) > 1 /\ job'.queue = Tail(job.queue)
        /\ job'.pc \in {"persist", "ended"}
    BY <1>1, <1>4, JobFields DEF PersistCalibration, Aborts, Outcome
  <2>2. job.queue \in Seq(ReportType)
    BY <1>4 DEF PersistCalibration, LossTypes
  <2>3. Len(job.queue) > 1 => Tail(job.queue) \in Seq(ReportType)
    BY <2>2
  <2> QED
    BY <1>1, <2>1, <2>3 DEF JobTypes, Descending
<1>5. CASE GateStepDone
  <2>1. job.kind = "gate" /\ job'.kind = job.kind /\ job'.mv = job.mv /\ job'.queue = <<Taken>>
        /\ job'.pc = "persist"
    BY <1>1, <1>5, JobFields DEF GateStepDone
  <2>2. Taken \in ReportType
    BY <1>5 DEF GateStepDone, StepInv, StepShape, OneReport
  <2>3. <<Taken>> \in Seq(ReportType) /\ Len(<<Taken>>) = 1
    BY <2>2
  <2> QED
    BY <1>1, <2>1, <2>3 DEF JobTypes, Descending
<1>6. CASE SelectGate \/ PersistGate
  <2>1. job.kind = "gate" /\ job'.kind = job.kind /\ job'.mv = job.mv /\ job'.pc \in {"step", "judge", "ended"}
    BY <1>1, <1>6, JobFields DEF SelectGate, PersistGate, Aborts, Outcome
  <2> QED
    BY <1>1, <2>1 DEF JobTypes, Descending
<1>7. CASE JudgeTexture \/ JudgeEndurance
  <2>1. job'.kind = job.kind /\ job'.mv = job.mv /\ job'.pc \in {"select", "ended"}
        /\ job'.i = job.i /\ job'.lastGood = job.lastGood /\ UNCHANGED session
    BY <1>1, <1>7, JobFields DEF JudgeTexture, JudgeEndurance, Aborts, Outcome
  <2> QED
    BY <1>1, <2>1 DEF JobTypes, Descending, LossTypes
<1> QED
  BY <1>2, <1>3, <1>4, <1>5, <1>6, <1>7

LEMMA JobTypesSweep ==
    ASSUME LossInv, SelectSweep \/ SweepStepDone \/ RecordSweep \/ SweepRecorded
    PROVE  JobTypes'
<1> USE DEF LossInv
<1>1. /\ DOMAIN job = DOMAIN IdleJob /\ job.pc # "idle" /\ job.mv \in Nat /\ UNCHANGED session
      /\ Descending
  BY DEF LossTypes, StepInv, StepShape, SelectSweep, SweepStepDone, RecordSweep, SweepRecorded, Descending
<1>2. CASE SelectSweep \/ RecordSweep
  <2>1. job'.kind = job.kind /\ job'.mv = job.mv /\ job'.pc \in {"step", "record", "ended"}
        /\ job'.i = job.i /\ job'.lastGood = job.lastGood
    BY <1>1, <1>2, JobFields DEF SelectSweep, RecordSweep, Recorded
  <2> QED
    BY <1>1, <2>1 DEF JobTypes, Descending, LossTypes
<1>3. CASE SweepStepDone
  <2> DEFINE good == Taken.outcome = "Validated"
             took == [job EXCEPT !.reports = Append(@, Taken),
                                 !.lastGood = IF good /\ job.extra = 0 THEN job.i ELSE @]
  <2>1. session.pc = "closed" /\ job.i \in DOMAIN Plan /\ job.lastGood \in 0 .. Len(Plan) /\ Descending
    BY <1>1, <1>3 DEF SweepStepDone, LossTypes
  <2>2. /\ took.kind = job.kind /\ took.mv = job.mv /\ took.i = job.i /\ took.lastGood \in {job.i, job.lastGood}
        /\ DOMAIN took = DOMAIN IdleJob
    BY <1>1, JobFields
  <2> HIDE DEF took, good
  <2>3. \/ job' = [took EXCEPT !.pc = "select", !.i = @ + 1, !.mv = Plan[job.i + 1]] /\ job.i < Len(Plan)
        \/ job' = [took EXCEPT !.pc = "select", !.extra = @ + 1]
        \/ job' = Recorded(took)
    BY <1>3, Zenon DEF SweepStepDone, took, good
  <2>4. CASE job' = [took EXCEPT !.pc = "select", !.i = @ + 1, !.mv = Plan[job.i + 1]] /\ job.i < Len(Plan)
    <3>1. job'.pc = "select" /\ job'.i = job.i + 1 /\ job'.mv = Plan[job.i + 1] /\ job'.lastGood = took.lastGood
      BY <2>2, <2>4, JobFields
    <3>2. job.i + 1 \in DOMAIN Plan /\ job.i \in 0 .. Len(Plan)
      BY <2>1, <2>4, PlanTypes
    <3> QED
      BY <1>1, <2>1, <2>2, <3>1, <3>2, PlanTypes DEF JobTypes
  <2>5. CASE job' = [took EXCEPT !.pc = "select", !.extra = @ + 1] \/ job' = Recorded(took)
    <3>1. job'.pc \in {"select", "record", "ended"} /\ job'.i = job.i /\ job'.mv = job.mv
          /\ job'.lastGood = took.lastGood /\ job'.kind = job.kind
      BY <2>2, <2>5, JobFields DEF Recorded
    <3>2. job.i \in 0 .. Len(Plan)
      BY <2>1, PlanTypes
    <3> QED
      BY <1>1, <2>1, <2>2, <3>1, <3>2 DEF JobTypes, Descending
  <2> QED
    BY <2>3, <2>4, <2>5
<1>4. CASE SweepRecorded
  <2>1. \/ /\ job' = [job EXCEPT !.pc = "select", !.extra = 1, !.mv = Plan[job.lastGood], !.reports = <<>>]
           /\ job.lastGood # 0
        \/ job' = Outcome("Swept")
    BY <1>4 DEF SweepRecorded
  <2>2. CASE job' = Outcome("Swept")
    <3>1. job'.kind = job.kind /\ job'.mv = job.mv /\ job'.pc = "ended"
          /\ job'.i = job.i /\ job'.lastGood = job.lastGood
      BY <1>1, <2>2, JobFields DEF Outcome
    <3> QED
      BY <1>1, <3>1 DEF JobTypes, Descending, LossTypes
  <2>3. CASE /\ job' = [job EXCEPT !.pc = "select", !.extra = 1, !.mv = Plan[job.lastGood], !.reports = <<>>]
             /\ job.lastGood # 0
    <3>1. job'.kind = job.kind /\ job'.mv = Plan[job.lastGood] /\ job'.pc = "select"
          /\ job'.i = job.i /\ job'.lastGood = job.lastGood
      BY <1>1, <2>3, JobFields
    <3>2. job.kind \in {"sweep", "steps"}
      BY <1>4 DEF SweepRecorded, LossTypes, Descending
    <3>3. job.lastGood \in DOMAIN Plan
      BY <1>1, <2>3, PlanTypes DEF LossTypes
    <3> QED
      BY <1>1, <3>1, <3>2, <3>3, PlanTypes DEF JobTypes, Descending, LossTypes
  <2> QED
    BY <2>1, <2>2, <2>3
<1> QED
  BY <1>2, <1>3, <1>4

LEMMA LossTypesNext ==
    ASSUME LossInv, [Next]_svars
    PROVE  LossTypes'
<1>1. log'.torn = FALSE /\ seen'.lost \subseteq Nat /\ DOMAIN seen' = DOMAIN NothingSeen
      /\ (motor'.pc # "idle" => motor'.mv = job'.mv)
  BY DiskGrows, LossesTyped, MotorsCandidate DEF LossInv
<1>2. JobTypes
  BY DEF LossInv, LossTypes, JobTypes
<1>3. JobTypes'
  <2>1. CASE UNCHANGED job /\ (UNCHANGED session \/ job.pc = "idle")
    BY <1>2, <2>1 DEF JobTypes, Descending
  <2>2. CASE job' = IdleJob
    BY <2>2 DEF JobTypes, IdleJob
  <2>3. CASE (Calibration \/ Gate \/ Sweep) /\ ~ GateLoad
    BY <2>3, JobTypesStart, JobTypesPairs, JobTypesSweep DEF Calibration, Gate, Sweep, LossInv
  <2>4. UNCHANGED <<job, session>> \/ (UNCHANGED job /\ job.pc = "idle") \/ job' = IdleJob
        \/ ((Calibration \/ Gate \/ Sweep) /\ ~ GateLoad)
    BY DEF Next, Work, Gate, MotorRuns, DiscoveryLoad, GateLoad, JobEnds, OpenSession, CloseSession,
           StopPressed, StepPanics, Reboot, svars
  <2> QED
    BY <2>1, <2>2, <2>3, <2>4
<1> QED
  BY <1>1, <1>3 DEF LossTypes, JobTypes, Descending

-----------------------------------------------------------------------------
(* Every step keeps the trace.                                             *)

(* Where no loss is waiting for the motor or carried by the flag, nothing  *)
(* can be lost.                                                            *)
LEMMA AllTraced ==
    ASSUME LossInv, [Next]_svars, \A mv \in seen.lost : Traced(mv), seen'.lost = seen.lost
    PROVE  LossKept'
  BY TracedStays, DiskGrows DEF LossKept, LossInv

(* The cleanup of a step deals with its own loss.                          *)
LEMMA CleanupKeeps ==
    ASSUME LossInv, [Next]_svars, MotorRuns
    PROVE  LossKept'
<1> USE DEF LossInv
<1>1. UNCHANGED seen /\ motor.pc # "idle" /\ MotorShape
  BY DEF MotorRuns, MotorStep, ArmBootFlag, ApplyPositiveOffset, VerifyOffset,
         ResetToStock, BlacklistPoint, RetainBootFlag, ClearBootFlag, StepInv, MotorGuarded
<1>2. ASSUME NEW mv \in seen.lost PROVE Traced(mv)' \/ Awaiting(mv)'
  <2>1. Traced(mv) \/ Awaiting(mv)
    BY <1>1 DEF LossKept, Carried
  <2>2. CASE Traced(mv)
    BY <2>2, TracedStays, DiskGrows
  <2>3. CASE Awaiting(mv)
    <3>1. LostDevice /\ motor.mv = mv /\ motor.pc \in {"reset", "blacklist", "clear", "done"}
      BY <2>3 DEF Awaiting
    <3>2. /\ motor'.pc \in {"blacklist", "clear", "done"} /\ motor'.mv = motor.mv
          /\ motor'.reports = motor.reports
      BY <1>1, <3>1 DEF MotorRuns, MotorStep, ArmBootFlag, ApplyPositiveOffset, VerifyOffset,
         ResetToStock, BlacklistPoint, RetainBootFlag, ClearBootFlag, Dirty, KeepsFlag, MotorShape
    <3>3. LostDevice'
      BY <3>1, <3>2 DEF LostDevice, Reports
    <3> QED
      BY <3>1, <3>2, <3>3 DEF Awaiting
  <2> QED
    BY <2>1, <2>2, <2>3
<1> QED
  BY <1>1, <1>2 DEF LossKept

(* A device lost under load is its step's to clean up.                     *)
LEMMA LoadKeeps ==
    ASSUME LossInv, [Next]_svars, DiscoveryLoad \/ GateLoad
    PROVE  LossKept'
<1> USE DEF LossInv
<1>1. PICK r : /\ motor' = Finish(RunPhase(r))
               /\ seen' = IF r.outcome = "DeviceLost" THEN [seen EXCEPT !.lost = @ \cup {motor.mv}] ELSE seen
  <2>1. CASE DiscoveryLoad
    <3>1. PICK d \in Dwells :
            /\ motor' = Finish(RunPhase([Report("Discovery", d.outcome) EXCEPT !.p99 = d.p99, !.p5 = d.p5]))
            /\ seen' = IF d.outcome = "DeviceLost" THEN [seen EXCEPT !.lost = @ \cup {motor.mv}] ELSE seen
      BY <2>1 DEF DiscoveryLoad
    <3>2. [Report("Discovery", d.outcome) EXCEPT !.p99 = d.p99, !.p5 = d.p5].outcome = d.outcome
      BY DEF Report, EmptyReport
    <3> QED
      BY <3>1, <3>2
  <2>2. CASE GateLoad
    <3>1. PICK d \in GateDwells :
            /\ motor' = Finish(RunPhase([Report("ApplyQualification", d.outcome) EXCEPT
                                            !.p99 = d.p99, !.p5 = d.p5, !.retryable = d.retryable]))
            /\ seen' = IF d.outcome = "DeviceLost" THEN [seen EXCEPT !.lost = @ \cup {motor.mv}] ELSE seen
      BY <2>2 DEF GateLoad
    <3>2. [Report("ApplyQualification", d.outcome) EXCEPT
             !.p99 = d.p99, !.p5 = d.p5, !.retryable = d.retryable].outcome = d.outcome
      BY DEF Report, EmptyReport
    <3> QED
      BY <3>1, <3>2
  <2> QED
    BY <2>1, <2>2
<1>2. motor.pc = "active" /\ MotorShape
  BY DEF DiscoveryLoad, GateLoad, StepInv, MotorGuarded
<1>3. \A mv \in seen.lost : Traced(mv)'
  BY <1>2, UnarmedTraced, TracedStays, DiskGrows
<1>4. motor'.pc = "reset" /\ motor'.mv = motor.mv /\ motor'.reports = Append(motor.reports, r)
  BY <1>1, <1>2 DEF Finish, RunPhase, MotorShape
<1>5. r.outcome = "DeviceLost" => \A mv : mv = motor.mv => Awaiting(mv)'
  <2>1. motor.reports = <<>> /\ Append(<<>>, r) = <<r>>
    BY <1>2 DEF StepInv, StepShape
  <2>2. motor'.reports = <<r>>
    BY <1>4, <2>1, Zenon
  <2>3. 1 \in DOMAIN <<r>> /\ <<r>>[1] = r
    OBVIOUS
  <2>4. r \in {motor'.reports[n] : n \in DOMAIN motor'.reports}
    BY <2>2, <2>3, Zenon
  <2> QED
    BY <1>4, <2>4 DEF Awaiting, LostDevice, Reports
<1>6. seen'.lost \subseteq seen.lost \cup (IF r.outcome = "DeviceLost" THEN {motor.mv} ELSE {})
  BY <1>1, SeenFields DEF LossTypes
<1> QED
  BY <1>3, <1>5, <1>6 DEF LossKept

(* A step that begins found the flag down; whatever was lost before it is  *)
(* on disk.                                                                *)
LEMMA BeginKeeps ==
    ASSUME LossInv, [Next]_svars, Begin("step", job.mv), UNCHANGED <<flag, seen>>,
           motor.pc \in {"idle", "done"}
    PROVE  LossKept'
<1>1. motor'.pc = "arm"
  BY DEF Begin, IdleMotor
<1>2. flag = None
  BY <1>1, StepNext DEF LossInv, StepInv, MotorGuarded
<1>3. motor.pc = "done" => ~ LostDevice \/ motor.mv \notin seen.lost
  BY <1>2 DEF LossInv, LossTypes, MotorMemory, Retained, None
<1>4. \A mv \in seen.lost : Traced(mv)
  BY <1>2, <1>3 DEF LossInv, LossTypes, LossKept, Awaiting, Carried, None
<1> QED
  BY <1>4, AllTraced

(* A lost device at the end of its step: on disk, or the flag stands.      *)
LEMMA DoneStands ==
    ASSUME LossInv, motor.pc = "done", NEW mv \in seen.lost, ~ Traced(mv)
    PROVE  flag = mv /\ motor.mv = mv /\ faults = MaxFaults /\ LostIn(<<Taken>>) /\ Taken.outcome = "DeviceLost"
<1> USE DEF LossInv
<1>1. Awaiting(mv)
  BY DEF LossKept, Carried
<1>2. Condemns /\ Retained
  BY <1>1 DEF Awaiting, MotorMemory, Condemns
<1>3. ~ Blacklisted(motor.mv)
  BY <1>1 DEF Awaiting, Traced
<1>4. flag = mv /\ motor.mv = mv /\ faults = MaxFaults
  BY <1>1, <1>2, <1>3 DEF Awaiting, MotorMemory, Retained
<1>5. Taken.outcome = "DeviceLost"
  <2>1. motor.reports = <<Taken>>
    BY DEF StepInv, StepShape, OneReport
  <2>2. \A x : DOMAIN <<x>> = {1} /\ <<x>>[1] = x
    OBVIOUS
  <2>3. \A r \in Reports(motor.reports) : r = Taken
    BY <2>1, <2>2 DEF Reports
  <2> QED
    BY <1>1, <2>3 DEF Awaiting, LostDevice
<1>6. 1 \in DOMAIN <<Taken>> /\ <<Taken>>[1] = Taken
  OBVIOUS
<1> QED
  BY <1>4, <1>5, <1>6 DEF LostIn

LEMMA StepDoneKeeps ==
    ASSUME LossInv, [Next]_svars, CalibrationStepDone \/ GateStepDone \/ SweepStepDone
    PROVE  LossKept'
<1> USE DEF LossInv
<1>1. motor.pc = "done" /\ job.pc = "step" /\ motor.mv = job.mv /\ DOMAIN job = DOMAIN IdleJob
      /\ UNCHANGED <<flag, faults, session>>
  BY DEF CalibrationStepDone, GateStepDone, SweepStepDone, LossTypes, StepInv, StepShape
<1>2. CASE CalibrationStepDone
  <2>1. UNCHANGED seen
    BY <1>2 DEF CalibrationStepDone
  <2>2. CASE Begin("step", job.mv)
    BY <1>1, <2>1, <2>2, BeginKeeps
  <2>3. CASE motor' = IdleMotor /\ \E x : job' = [job EXCEPT !.reports = Append(job.reports, Taken), !.rechecked = x, !.pc = "analyse"]
    <3>1. job'.pc = "analyse" /\ job'.mv = job.mv /\ job'.reports = Append(job.reports, Taken) /\ motor'.pc = "idle"
      BY <1>1, <2>3, JobFields DEF IdleMotor
    <3>2. job.reports \in Seq(ReportType) /\ Taken \in ReportType
      BY <1>1, <1>2 DEF CalibrationStepDone, StepInv, StepShape, OneReport
    <3>3. Len(job.reports) + 1 \in DOMAIN Append(job.reports, Taken)
          /\ Append(job.reports, Taken)[Len(job.reports) + 1] = Taken
      BY <3>2
    <3>4. Taken.outcome = "DeviceLost" => LostIn(job'.reports)
      BY <3>1, <3>3 DEF LostIn
    <3>5. LostIn(job'.reports) <=> LostIn(job.reports)'
      BY DEF LostIn
    <3>6. ASSUME NEW mv \in seen.lost PROVE Traced(mv)' \/ Carried(mv)'
      <4>1. CASE Traced(mv)
        BY <4>1, TracedStays, DiskGrows
      <4>2. CASE ~ Traced(mv)
        BY <1>1, <3>1, <3>4, <3>5, <4>2, DoneStands DEF Carried
      <4> QED
        BY <4>1, <4>2
    <3> QED
      BY <2>1, <3>6 DEF LossKept
  <2>4. \/ Begin("step", job.mv)
        \/ motor' = IdleMotor /\ \E x : job' = [job EXCEPT !.reports = Append(job.reports, Taken), !.rechecked = x, !.pc = "analyse"]
    <3> DEFINE rs == Append(job.reports, Taken)
               rechecked == job.rechecked \/ (Len(rs) = 1 /\ Usable(Taken) /\ RequiresRecheck(job.previous, Taken))
    <3>1. \/ Begin("step", job.mv)
          \/ motor' = IdleMotor /\ job' = [job EXCEPT !.reports = rs, !.rechecked = rechecked, !.pc = "analyse"]
      BY <1>2, Zenon DEF CalibrationStepDone
    <3> QED
      BY <3>1
  <2> QED
    BY <2>2, <2>3, <2>4
<1>3. CASE GateStepDone
  <2>1. job'.pc = "persist" /\ job'.mv = job.mv /\ job'.queue = <<Taken>> /\ motor'.pc = "idle"
        /\ seen'.lost = seen.lost
    BY <1>1, <1>3, JobFields, SeenFields DEF GateStepDone, IdleMotor, LossTypes
  <2>2. LostIn(job'.queue) <=> LostIn(job.queue)'
    BY DEF LostIn
  <2>3. ASSUME NEW mv \in seen.lost PROVE Traced(mv)' \/ Carried(mv)'
    <3>1. CASE Traced(mv)
      BY <3>1, TracedStays, DiskGrows
    <3>2. CASE ~ Traced(mv)
      BY <1>1, <2>1, <2>2, <3>2, DoneStands DEF Carried
    <3> QED
      BY <3>1, <3>2
  <2> QED
    BY <2>1, <2>3 DEF LossKept
<1>4. CASE SweepStepDone
  <2>1. session.pc = "closed" /\ motor'.pc = "idle" /\ UNCHANGED seen
    BY <1>1, <1>4 DEF SweepStepDone, IdleMotor, LossTypes
  <2>2. ASSUME NEW mv \in seen.lost PROVE Traced(mv)' \/ Carried(mv)'
    <3>1. CASE Traced(mv)
      BY <3>1, TracedStays, DiskGrows
    <3>2. CASE ~ Traced(mv)
      BY <1>1, <2>1, <3>2, DoneStands DEF Carried
    <3> QED
      BY <3>1, <3>2
  <2> QED
    BY <2>1, <2>2 DEF LossKept
<1> QED
  BY <1>2, <1>3, <1>4

(* A job between its steps: what the flag still stands for outside a       *)
(* session goes on doing so.                                               *)
LEMMA JobKeeps ==
    ASSUME LossInv, [Next]_svars, motor.pc = "idle", UNCHANGED <<flag, motor>>, seen'.lost = seen.lost,
           UNCHANGED faults \/ Fault, job.pc \notin {"analyse", "persist"}, session'.pc = session.pc
    PROVE  LossKept'
<1>1. ASSUME NEW mv \in seen.lost PROVE Traced(mv)' \/ Carried(mv)'
  <2>1. CASE Traced(mv)
    BY <2>1, TracedStays, DiskGrows DEF LossInv
  <2>2. CASE ~ Traced(mv)
    <3>1. flag = mv /\ faults = MaxFaults /\ session.pc = "closed"
      BY <2>2 DEF LossInv, LossKept, Awaiting, Carried
    <3>2. ~ Fault
      BY <3>1, MotorAssumption DEF Fault
    <3> QED
      BY <3>1, <3>2 DEF Carried
  <2> QED
    BY <2>1, <2>2
<1> QED
  BY <1>1 DEF LossKept

LEMMA SelectKeeps ==
    ASSUME LossInv, [Next]_svars, SelectCalibration \/ SelectGate \/ SelectSweep
    PROVE  LossKept'
<1>1. /\ job.pc = "select" /\ motor.pc = "idle" /\ UNCHANGED <<flag, seen, faults, session>>
      /\ Begin("step", job.mv) \/ UNCHANGED motor
  BY DEF SelectCalibration, SelectGate, SelectSweep, LossInv, StepInv, StepShape
<1> QED
  BY <1>1, BeginKeeps, JobKeeps

(* The lines of a pair job: the one with the lost device is on disk, or    *)
(* yet to be written, since no access fails any more.                      *)
LEMMA LinesKeep ==
    ASSUME LossInv, [Next]_svars, AnalyseCalibration \/ PersistCalibration \/ PersistGate
    PROVE  LossKept'
<1> USE DEF LossInv
<1>1. motor.pc = "idle" /\ UNCHANGED <<flag, motor, seen, session>> /\ DOMAIN job = DOMAIN IdleJob
  BY DEF AnalyseCalibration, PersistCalibration, PersistGate, StepInv, StepShape, mvars
<1>2. SUFFICES ASSUME NEW mv \in seen.lost, ~ Traced(mv) PROVE Traced(mv)' \/ Carried(mv)'
  BY <1>1, TracedStays, DiskGrows DEF LossKept
<1>3. Carried(mv) /\ flag = mv /\ faults = MaxFaults
  BY <1>1, <1>2 DEF LossKept, Awaiting, Carried
<1>4. ~ Fault
  BY <1>3, MotorAssumption DEF Fault
<1>5. faults' = faults
  BY <1>4 DEF AnalyseCalibration, PersistCalibration, PersistGate, NoFault, mvars
<1>6. CASE session.pc = "closed"
  BY <1>1, <1>3, <1>5, <1>6 DEF Carried
<1>7. CASE session.pc # "closed" /\ AnalyseCalibration
  <2>1. job.pc = "analyse" /\ job.kind = "calibration" /\ job.mv = mv /\ LostIn(job.reports)
    BY <1>3, <1>7 DEF Carried, AnalyseCalibration, LossTypes
  <2>2. job.reports \in Seq(ReportType)
    BY <2>1 DEF StepInv, StepShape
  <2>3. job'.pc = "persist" /\ job'.mv = mv /\ job'.queue = Calibrated.lines
    BY <1>1, <1>7, <2>1, JobFields DEF AnalyseCalibration
  <2>4. LostIn(job'.queue) <=> LostIn(job.queue)'
    BY DEF LostIn
  <2> QED
    BY <1>1, <1>3, <1>5, <2>1, <2>2, <2>3, <2>4, CalibratedLines DEF Carried
<1>8. CASE session.pc # "closed" /\ (PersistCalibration \/ PersistGate)
  <2>1. /\ job.pc = "persist" /\ job.mv = mv /\ LostIn(job.queue) /\ job.queue \in Seq(ReportType)
        /\ job.kind = "gate" => Len(job.queue) = 1
    BY <1>3, <1>8 DEF Carried, PersistCalibration, PersistGate, LossTypes
  <2>2. PICK n \in 1 .. Len(job.queue) : job.queue[n].outcome = "DeviceLost"
    BY <2>1 DEF LostIn
  <2>3. log' = AppendObservation(log, Observation(Head(job.queue), job.mv))
    BY <1>4, <1>8 DEF PersistCalibration, PersistGate
  <2>4. CASE n = 1
    <3>1. Head(job.queue).outcome = "DeviceLost"
      BY <2>1, <2>2, <2>4
    <3>2. Observation(Head(job.queue), job.mv).anchor = mv
          /\ Observation(Head(job.queue), job.mv).lost
      <4>1. Observation(Head(job.queue), job.mv).anchor = job.mv
            /\ Observation(Head(job.queue), job.mv).lost = (Head(job.queue).outcome = "DeviceLost")
        BY DEF Observation
      <4> QED
        BY <2>1, <3>1, <4>1, Zenon
    <3>3. Observation(Head(job.queue), job.mv) \in log'.obs
      BY <2>3, AppendKeeps DEF LossTypes
    <3>4. \E o \in log'.obs : o.anchor = mv /\ o.lost
      BY <3>2, <3>3, Zenon
    <3> QED
      BY <3>4 DEF Traced, obs
  <2>5. CASE n # 1
    <3>1. Len(job.queue) > 1 /\ job.kind # "gate"
      BY <2>1, <2>2, <2>5
    <3>2. job' = [job EXCEPT !.queue = Tail(@)]
      BY <1>4, <1>8, <3>1 DEF PersistCalibration, PersistGate
    <3>3. job'.pc = "persist" /\ job'.mv = mv /\ job'.queue = Tail(job.queue)
      BY <1>1, <2>1, <3>2, JobFields
    <3>4. n - 1 \in DOMAIN Tail(job.queue) /\ Tail(job.queue)[n - 1] = job.queue[n]
      BY <2>1, <2>2, <2>5
    <3>5. LostIn(Tail(job.queue))
      BY <2>2, <3>4 DEF LostIn
    <3>6. LostIn(job'.queue) <=> LostIn(job.queue)'
      BY DEF LostIn
    <3>7. LostIn(job.queue)'
      BY <3>3, <3>5, <3>6
    <3> QED
      BY <1>1, <1>3, <1>5, <3>3, <3>7 DEF Carried
  <2> QED
    BY <2>4, <2>5
<1> QED
  BY <1>6, <1>7, <1>8

LEMMA SessionKeeps ==
    ASSUME LossInv, [Next]_svars, OpenSession \/ CloseSession \/ StopPressed \/ UNCHANGED svars
    PROVE  LossKept'
<1> USE DEF LossInv
<1>1. CASE OpenSession \/ CloseSession
  <2>1. /\ job.pc = "idle" /\ motor.pc = "idle" /\ UNCHANGED seen
        /\ flag = None \/ session.pc = "open"
    BY <1>1 DEF OpenSession, CloseSession, StepInv, StepShape
  <2>2. \A mv \in seen.lost : Traced(mv)
    BY <2>1, UnarmedTraced
  <2> QED
    BY <2>1, <2>2, AllTraced
<1>2. CASE StopPressed \/ UNCHANGED svars
  BY <1>2 DEF StopPressed, svars, mvars, LossKept, Traced, Awaiting, Carried, Blacklisted, LostDevice, Reports,
     LostIn, obs
<1> QED
  BY <1>1, <1>2

LEMMA StartKeeps ==
    ASSUME LossInv, [Next]_svars, StartCalibration \/ StartGate \/ StartSweep \/ StartSteps
    PROVE  LossKept'
<1>1. /\ job.pc = "idle" /\ UNCHANGED seen
      /\ flag = None \/ session.pc = "open"
  BY DEF StartCalibration, StartGate, StartSweep, StartSteps, StartPairJob, StartDescent, DescentRefused
<1>2. motor.pc = "idle"
  BY <1>1 DEF LossInv, StepInv, StepShape
<1>3. \A mv \in seen.lost : Traced(mv)
  BY <1>1, <1>2, UnarmedTraced
<1> QED
  BY <1>1, <1>3, AllTraced

(* A restart blacklists what the flag stood for.                           *)
LEMMA InterruptionKeeps ==
    ASSUME LossInv, [Next]_svars, StepPanics \/ Reboot
    PROVE  LossKept'
<1> USE DEF LossInv
<1>1. seen'.lost = seen.lost
  BY SeenFields DEF StepPanics, Reboot, LossTypes
<1>2. CASE StepPanics
  <2>1. motor.pc = "active"
    BY <1>2 DEF StepPanics
  <2>2. \A mv \in seen.lost : Traced(mv)
    BY <2>1, UnarmedTraced
  <2> QED
    BY <1>1, <2>2, AllTraced
<1>3. CASE Reboot
  <2>1. ASSUME NEW mv \in seen.lost PROVE Traced(mv)'
    <3>1. CASE Traced(mv)
      BY <3>1, TracedStays, DiskGrows
    <3>2. CASE ~ Traced(mv)
      <4>1. Awaiting(mv) \/ Carried(mv)
        BY <3>2 DEF LossKept
      <4>2. flag = mv
        BY <4>1 DEF Awaiting, Carried, StepInv, MotorGuarded, UnderWay, MotorMemory, Retained
      <4>3. mv \in Nat /\ mv # None
        BY DEF LossTypes, None
      <4>4. mv \in blacklist'
        BY <1>3, <4>2, <4>3 DEF Reboot, RebootAndRecover
      <4> QED
        BY <4>3, <4>4 DEF Traced, Blacklisted
    <3> QED
      BY <3>1, <3>2
  <2> QED
    BY <1>1, <2>1 DEF LossKept
<1> QED
  BY <1>2, <1>3

LEMMA LossNext ==
    ASSUME MaxFaults <= 1, LossInv, [Next]_svars
    PROVE  LossInv'
<1>1. StepInv' /\ MotorMemory' /\ LossTypes'
  BY StepNext, LossMemory, LossTypesNext DEF LossInv
<1>2. CASE JudgeTexture \/ JudgeEndurance \/ RecordSweep \/ SweepRecorded \/ JobEnds
  <2>1. /\ motor.pc = "idle" /\ UNCHANGED <<flag, motor>> /\ (UNCHANGED faults \/ Fault)
        /\ job.pc \notin {"analyse", "persist"} /\ session'.pc = session.pc
    BY <1>2, JobFields DEF JudgeTexture, JudgeEndurance, RecordSweep, SweepRecorded, JobEnds, NoFault, mvars,
       LossInv, StepInv, StepShape
  <2>2. seen'.lost = seen.lost
    BY <1>2, SeenFields DEF JudgeTexture, JudgeEndurance, RecordSweep, SweepRecorded, JobEnds, LossInv, LossTypes
  <2>3. LossKept'
    BY <2>1, <2>2, JobKeeps
  <2> QED
    BY <1>1, <2>3 DEF LossInv
<1>3. CASE ~ (JudgeTexture \/ JudgeEndurance \/ RecordSweep \/ SweepRecorded \/ JobEnds)
  <2>1. LossKept'
    BY <1>3, CleanupKeeps, LoadKeeps, StepDoneKeeps, SelectKeeps, LinesKeep, SessionKeeps, StartKeeps,
       InterruptionKeeps DEF Next, Work, Calibration, Gate, Sweep
  <2> QED
    BY <1>1, <2>1 DEF LossInv
<1> QED
  BY <1>2, <1>3

(* A lost device is on the blacklist, in a line of the log, or stands      *)
(* under the armed flag until one of them is true, whichever single access *)
(* to the driver or the disk fails, through stops, panics, the last reset  *)
(* and reboots (run_confirmed_f2_step, gate_anchored_candidate_fsgl3,      *)
(* finish_after_write).                                                    *)
THEOREM LossSurvivesOneFault ==
    ASSUME MaxFaults <= 1
    PROVE  Spec => []LossLeavesATrace
<1>1. Init => LossInv
  BY StepInit, MotorInitMemory, LossTypesInit DEF Init, LossInv, LossKept, NothingSeen
<1>2. LossInv /\ [Next]_svars => LossInv'
  BY LossNext
<1>3. LossInv => LossLeavesATrace
  BY DEF LossInv, LossKept, Traced, Awaiting, Carried, LossLeavesATrace
<1> QED
  BY <1>1, <1>2, <1>3, PTL DEF Spec

-----------------------------------------------------------------------------
(* What a qualified pair left on record.                                   *)

(* A dwell counts as a pass only with samples, and a sample has a clock    *)
(* and a power (load_and_measure_for, qualification_coverage_from_run):    *)
(* the readings of a pass are positive.                                    *)
PassesAreMeasured == \A d \in GateDwells : d.outcome = "Validated" => d.p99 > 0 /\ d.p5 > 0

Measured(r) == r \in ReportType /\ (r.outcome = "Validated" => r.p99 > 0 /\ r.p5 > 0 /\ ~ r.thermal)

(* A pass of a pattern is in the log.                                      *)
PassLine(o, run, mv, pattern) ==
    /\ o.run = run /\ o.target = Target /\ o.anchor = mv /\ o.gpu = 0 /\ o.pattern = pattern
    /\ IsCurrentApplyEvidence(o)

OnRecord(run, mv, pattern) == \E o \in obs : PassLine(o, run, mv, pattern)

(* The readings of the passes are positive, and bounded.                   *)
Readings(o, B) == o.p99 \in 1 .. B /\ o.peak \in 1 .. B /\ o.p95 \in 1 .. B /\ ~ o.thermal

LinesOK ==
    /\ log.torn = FALSE
    /\ \E B \in Nat : \A o \in obs : IsCurrentApplyEvidence(o) => Readings(o, B)

(* What a step of the gate has measured.                                   *)
StepMeasured ==
    /\ job.kind = "gate" /\ motor.pc \in {"reset", "blacklist", "clear", "done"} => Measured(Taken)
    /\ motor.pc = "done" /\ Taken.outcome = "Validated" => Taken.clean

(* A gate goes on from a pass only when the line of the pass is written.   *)
GateLines ==
    /\ job.outcome = "Qualified" => job.kind = "gate"
    /\ job.kind = "gate" =>
        /\ job.pc \in {"persist", "judge"} =>
               LET r == Head(job.queue) IN Measured(r) /\ (r.outcome = "Validated" => r.clean)
        /\ job.pc = "judge" /\ Head(job.queue).outcome = "Validated" => OnRecord(session.run, job.mv, job.pattern)
        /\ job.pattern = "Endurance" => OnRecord(session.run, job.mv, "Texture")
        /\ job.outcome = "Qualified" => job.pattern = "Endurance" /\ OnRecord(session.run, job.mv, "Endurance")

QualifiedLines ==
    \A q \in seen.qualified : OnRecord(q[1], q[2], "Texture") /\ OnRecord(q[1], q[2], "Endurance")

RecordInv == StepInv /\ GateInv /\ LinesOK /\ StepMeasured /\ GateLines /\ QualifiedLines

(* The power of a run over a set of patterns it has readings of.           *)
LEMMA RunPowerOf ==
    ASSUME NEW B \in Nat, NEW R, \A o \in R : o.p99 \in 1 .. B,
           NEW run, NEW patterns, patterns # {},
           \A p \in patterns : \E o \in R : o.run = run /\ o.pattern = p
    PROVE  /\ \E o \in R : o.run = run /\ o.pattern \in patterns /\ RunPower(R, run, patterns) = o.p99
           /\ \A o \in R : o.run = run /\ o.pattern \in patterns => RunPower(R, run, patterns) >= o.p99
<1> DEFINE mine == {o \in R : o.run = run /\ o.pattern \in patterns /\ o.p99 > 0}
           S == {o.p99 : o \in mine}
<1>1. mine = {o \in R : o.run = run /\ o.pattern \in patterns}
  OBVIOUS
<1>2. \A p \in patterns : \E o \in mine : o.pattern = p
  BY <1>1
<1>3. S \in SUBSET (0 .. B) /\ S # {}
  BY <1>2
<1>4. RunPower(R, run, patterns) = Max(S)
  BY <1>2, <1>3 DEF RunPower, MaxOrNone
<1>5. Max(S) \in S /\ \A y \in S : Max(S) >= y
  BY <1>3, MaxMember
<1> QED
  BY <1>1, <1>4, <1>5

(* The lines of a qualified pair give its power and its clock.             *)
LEMMA LinesPublish ==
    ASSUME LinesOK, NEW run, NEW mv, OnRecord(run, mv, "Texture"), OnRecord(run, mv, "Endurance")
    PROVE  LET power == CompleteGatePower(obs, run, Target, mv, 0)
           IN /\ power # None
              /\ CurrentApplyClock(obs, run, Target, mv, 0) # None
              /\ power >= CurrentApplyPower(obs, run, Target, mv, 0)
              /\ WorstApplyPower(obs, run, Target, mv, 0) >= power
<1>1. PICK B \in Nat : \A o \in obs : IsCurrentApplyEvidence(o) => Readings(o, B)
  BY DEF LinesOK
<1> DEFINE R == TrustedApply(obs, Target, mv, 0)
           power == CompleteGatePower(obs, run, Target, mv, 0)
<1>2. R = AtApplyPair(obs, Target, mv, 0) /\ \A o \in R : o \in obs /\ Readings(o, B)
  BY <1>1 DEF TrustedApply, AtApplyPair, ReadingTrustworthy, Readings
<1>3. /\ \E o \in R : o.run = run /\ o.pattern = "Texture"
      /\ \E o \in R : o.run = run /\ o.pattern = "Endurance"
  BY <1>2 DEF OnRecord, PassLine, AtApplyPair
<1> HIDE DEF R
<1>4. /\ \A o \in R : o.p99 \in 1 .. B
      /\ RequiredPatterns = {"Texture"} /\ GatePatterns = {"Texture", "Endurance"}
  BY <1>2 DEF Readings, RequiredPatterns, GatePatterns
<1>5. /\ \A p \in GatePatterns : \E o \in R : o.run = run /\ o.pattern = p
      /\ \A p \in RequiredPatterns : \E o \in R : o.run = run /\ o.pattern = p
      /\ GatePatterns # {} /\ RequiredPatterns # {}
  BY <1>3, <1>4
<1>6. /\ \E o \in R : o.run = run /\ o.pattern \in GatePatterns /\ RunPower(R, run, GatePatterns) = o.p99
      /\ \A o \in R : o.run = run /\ o.pattern \in GatePatterns => RunPower(R, run, GatePatterns) >= o.p99
  <2>1. /\ \A o \in R : o.p99 \in 1 .. B
        /\ GatePatterns # {}
        /\ \A p \in GatePatterns : \E o \in R : o.run = run /\ o.pattern = p
    BY <1>4, <1>5
  <2> HIDE DEF power
  <2> QED
    BY <2>1, RunPowerOf
<1>7. /\ \E o \in R : o.run = run /\ o.pattern \in RequiredPatterns /\ RunPower(R, run, RequiredPatterns) = o.p99
      /\ \A o \in R : o.run = run /\ o.pattern \in RequiredPatterns => RunPower(R, run, RequiredPatterns) >= o.p99
  <2>1. /\ \A o \in R : o.p99 \in 1 .. B
        /\ RequiredPatterns # {}
        /\ \A p \in RequiredPatterns : \E o \in R : o.run = run /\ o.pattern = p
    BY <1>4, <1>5
  <2> HIDE DEF power
  <2> QED
    BY <2>1, RunPowerOf
<1>8. /\ power = RunPower(R, run, GatePatterns)
      /\ CurrentApplyPower(obs, run, Target, mv, 0) = RunPower(R, run, RequiredPatterns)
  BY DEF CompleteGatePower, CurrentApplyPower, R
<1>9. power \in 1 .. B
  BY <1>4, <1>6, <1>8
<1>10. power >= CurrentApplyPower(obs, run, Target, mv, 0)
  BY <1>4, <1>6, <1>7, <1>8
<1>11. CurrentApplyClock(obs, run, Target, mv, 0) # None
  <2> DEFINE mine == {o \in R : o.run = run /\ o.pattern \in RequiredPatterns}
             S == {o.p95 : o \in mine}
  <2>1. \A o \in mine : o.p95 \in 1 .. B
    BY <1>2 DEF Readings
  <2>2. \A p \in RequiredPatterns : \E o \in mine : o.pattern = p
    BY <1>5
  <2>3. S \in SUBSET (0 .. B) /\ S # {}
    BY <1>5, <2>1, <2>2
  <2>4. Max(S) \in S
    BY <2>3, MaxMember
  <2>5. CurrentApplyClock(obs, run, Target, mv, 0) =
           IF (\A o \in mine : o.p95 > 0) /\ (\A p \in RequiredPatterns : \E o \in mine : o.pattern = p)
           THEN MaxOrNone(S) ELSE None
    BY Zenon DEF CurrentApplyClock, R
  <2>6. (\A o \in mine : o.p95 > 0) /\ MaxOrNone(S) = Max(S)
    BY <2>1, <2>3 DEF MaxOrNone
  <2>7. CurrentApplyClock(obs, run, Target, mv, 0) = Max(S)
    BY <2>2, <2>5, <2>6, Zenon
  <2> QED
    BY <2>1, <2>4, <2>7 DEF None
<1>12. WorstApplyPower(obs, run, Target, mv, 0) >= power
  <2> DEFINE mine == {o \in AtApplyPair(obs, Target, mv, 0) : o.run = run}
             S == {x \in {o.p99 : o \in mine} \cup {o.peak : o \in mine} : x > 0}
  <2>1. \A o \in mine : o.p99 \in 1 .. B /\ o.peak \in 1 .. B
    BY <1>2 DEF Readings
  <2>2. S \in SUBSET (0 .. B)
    BY <2>1
  <2>3. power \in S
    BY <1>2, <1>4, <1>6, <1>8, <1>9
  <2>4. \A y \in S : Max(S) >= y
    BY <2>2, <2>3, MaxMember
  <2>5. WorstApplyPower(obs, run, Target, mv, 0) = Max(S)
    BY <2>3 DEF WorstApplyPower, MaxOrNone
  <2> QED
    BY <2>3, <2>4, <2>5
<1> QED
  BY <1>8, <1>9, <1>10, <1>11, <1>12 DEF None

LEMMA RecordGrows ==
    ASSUME NEW run, NEW mv, NEW pattern, OnRecord(run, mv, pattern), log.obs \subseteq log'.obs
    PROVE  OnRecord(run, mv, pattern)'
  BY DEF OnRecord, PassLine, IsCurrentApplyEvidence, IsValidated, obs

(* A line of another kind is no pass; one of the gate has its readings.    *)
LEMMA LineKeeps ==
    ASSUME LinesOK, NEW mv, log' = AppendObservation(log, Observation(Head(job.queue), mv)),
           job.kind = "gate" => Measured(Head(job.queue))
    PROVE  LinesOK' /\ log.obs \subseteq log'.obs /\ Observation(Head(job.queue), mv) \in log'.obs
<1> DEFINE r == Head(job.queue)
           o == Observation(r, mv)
<1>1. log'.torn = FALSE /\ log'.obs = log.obs \cup {o} /\ log.torn = FALSE
  BY AppendKeeps DEF LinesOK
<1>2. PICK B \in Nat : \A x \in log.obs : IsCurrentApplyEvidence(x) => Readings(x, B)
  BY DEF LinesOK, obs
<1>3. \E C \in Nat : C >= B /\ (IsCurrentApplyEvidence(o) => Readings(o, C))
  <2>1. CASE ~ IsCurrentApplyEvidence(o)
    BY <2>1
  <2>2. CASE IsCurrentApplyEvidence(o)
    <3>1. job.kind = "gate" /\ r.outcome = "Validated"
      BY <2>2 DEF Observation, IsCurrentApplyEvidence, EvidenceKind
    <3>2. r.p99 \in Nat /\ r.p5 \in Nat /\ r.p99 > 0 /\ r.p5 > 0 /\ ~ r.thermal
      BY <3>1 DEF Measured, ReportType
    <3>3. o.p99 = r.p99 /\ o.peak = r.p99 /\ o.p95 = r.p5 /\ o.thermal = r.thermal
      BY DEF Observation
    <3> HIDE DEF o, r
    <3>4. Readings(o, B + r.p99 + r.p5)
      BY <3>2, <3>3 DEF Readings
    <3> QED
      BY <3>2, <3>4
  <2> QED
    BY <2>1, <2>2
<1>4. PICK C \in Nat : C >= B /\ (IsCurrentApplyEvidence(o) => Readings(o, C))
  BY <1>3
<1> HIDE DEF o
<1>5. \A x \in log'.obs : IsCurrentApplyEvidence(x) => Readings(x, C)
  BY <1>1, <1>2, <1>4 DEF Readings
<1> QED
  BY <1>1, <1>5 DEF LinesOK, obs, o, IsCurrentApplyEvidence, IsValidated, Readings

(* What the motor makes of the dwell of a gate: a mark of a failure, or    *)
(* the report of the load, clean once the flag is down.                    *)
LEMMA MotorMeasured ==
    ASSUME StepInv, StepMeasured, MotorRuns
    PROVE  StepMeasured'
<1>1. StepInv' /\ UNCHANGED job /\ MotorShape
  BY MotorStepShape DEF MotorRuns, StepInv, MotorGuarded
<1>2. motor'.pc \in {"reset", "blacklist", "clear", "done"} => Taken' \in ReportType
  BY <1>1 DEF StepInv, StepShape, OneReport
<1>3. CASE ArmBootFlag \/ ApplyPositiveOffset \/ VerifyOffset
  <2>1. motor.reports = <<>>
    BY <1>3 DEF StepInv, StepShape, ArmBootFlag, ApplyPositiveOffset, VerifyOffset
  <2>2. \/ motor'.pc \in {"write", "verify", "active"}
        \/ \E outcome \in {"ArmFailed", "ApplyFailed", "VerifyFailed"} : motor'.reports = Fails("Discovery", outcome)
    BY <1>1, <1>3 DEF ArmBootFlag, ApplyPositiveOffset, VerifyOffset, MotorShape
  <2>3. CASE motor'.pc \in {"write", "verify", "active"}
    BY <2>3 DEF StepMeasured
  <2>4. ASSUME NEW outcome \in {"ArmFailed", "ApplyFailed", "VerifyFailed"}, motor'.reports = Fails("Discovery", outcome)
        PROVE  Taken'.outcome # "Validated"
    <3>1. motor'.reports = Append(<<>>, Report("Discovery", outcome))
      BY <2>1, <2>4 DEF Fails
    <3>2. \A x : Append(<<>>, x)[1] = x
      OBVIOUS
    <3>3. Taken' = Report("Discovery", outcome)
      BY <3>1, <3>2, Zenon DEF Taken
    <3>4. Report("Discovery", outcome).outcome = outcome
      BY DEF Report, EmptyReport
    <3> QED
      BY <3>3, <3>4
  <2> QED
    BY <1>2, <2>2, <2>3, <2>4 DEF StepMeasured, Measured
<1>4. CASE ResetToStock \/ BlacklistPoint
  <2>1. motor.pc \in {"reset", "blacklist"} /\ motor'.pc \in {"blacklist", "clear"} /\ motor'.reports = motor.reports
    BY <1>1, <1>4 DEF ResetToStock, BlacklistPoint, MotorShape
  <2>2. Taken' = Taken
    BY <2>1 DEF Taken
  <2> QED
    BY <1>1, <2>1, <2>2 DEF StepMeasured, Measured
<1>5. CASE RetainBootFlag \/ ClearBootFlag
  <2>1. OneReport /\ motor.pc = "clear" /\ Taken \in ReportType /\ motor.reports = <<Taken>>
    BY <1>5 DEF RetainBootFlag, ClearBootFlag, StepInv, StepShape, OneReport
  <2>2. CASE \/ RetainBootFlag /\ ~ LostDevice
             \/ ClearBootFlag /\ Dirty(MarkLast("ResetFailed"))
    <3>1. motor'.reports = MarkLast("ResetFailed") /\ "ResetFailed" \in Outcomes
      BY <1>1, <2>2 DEF RetainBootFlag, Dirty, MotorShape, Outcomes, HardFailures
    <3>2. Taken'.outcome = "ResetFailed"
      BY <2>1, <3>1, OneMark DEF Taken
    <3> QED
      BY <1>2, <3>2 DEF StepMeasured, Measured
  <2>3. CASE RetainBootFlag /\ LostDevice
    <3>1. motor'.reports = motor.reports
      BY <1>1, <2>3 DEF RetainBootFlag, Dirty, MotorShape
    <3>2. Taken.outcome = "DeviceLost"
      BY <2>1, <2>3 DEF LostDevice, Reports
    <3>3. Taken'.outcome = "DeviceLost"
      BY <3>1, <3>2 DEF Taken
    <3> QED
      BY <1>2, <3>3 DEF StepMeasured, Measured
  <2>4. CASE /\ flag' = None
             /\ motor' = [motor EXCEPT !.pc = "done", !.clean = TRUE, !.retain = FALSE,
                                       !.reports = [n \in DOMAIN @ |-> [@[n] EXCEPT !.clean = TRUE]]]
    <3>1. motor'.reports = [n \in DOMAIN motor.reports |-> [motor.reports[n] EXCEPT !.clean = TRUE]]
      BY <1>1, <2>4 DEF MotorShape
    <3>2. DOMAIN motor.reports = {1} /\ motor.reports[1] = Taken
      BY <2>1 DEF Taken
    <3>3. Taken' = [Taken EXCEPT !.clean = TRUE]
      BY <3>1, <3>2 DEF Taken
    <3>4. Taken'.outcome = Taken.outcome /\ Taken'.p99 = Taken.p99 /\ Taken'.p5 = Taken.p5
          /\ Taken'.thermal = Taken.thermal /\ Taken'.clean = TRUE
      BY <2>1, <3>3 DEF ReportType
    <3>5. job.kind = "gate" => Measured(Taken)
      BY <2>1 DEF StepMeasured
    <3>6. motor'.pc = "done"
      BY <1>1, <2>4 DEF MotorShape
    <3> QED
      BY <1>1, <1>2, <3>4, <3>5, <3>6 DEF StepMeasured, Measured
  <2> QED
    BY <1>5, <2>2, <2>3, <2>4 DEF RetainBootFlag, ClearBootFlag
<1> QED
  BY <1>3, <1>4, <1>5 DEF MotorRuns, MotorStep

LEMMA LoadMeasured ==
    ASSUME PassesAreMeasured, StepInv, StepMeasured, DiscoveryLoad \/ GateLoad
    PROVE  StepMeasured'
<1>1. StepInv' /\ MotorShape /\ UNCHANGED job
  BY LoadGuardedStep DEF StepInv, MotorGuarded, DiscoveryLoad, GateLoad
<1>2. CASE DiscoveryLoad
  BY <1>1, <1>2 DEF DiscoveryLoad, StepMeasured, Finish, RunPhase, MotorShape
<1>3. CASE GateLoad
  <2>1. PICK d \in GateDwells :
           motor' = Finish(RunPhase([Report("ApplyQualification", d.outcome) EXCEPT
                                        !.p99 = d.p99, !.p5 = d.p5, !.retryable = d.retryable]))
    BY <1>3 DEF GateLoad
  <2> DEFINE r == [Report("ApplyQualification", d.outcome) EXCEPT
                      !.p99 = d.p99, !.p5 = d.p5, !.retryable = d.retryable]
  <2>2. r.outcome = d.outcome /\ r.p99 = d.p99 /\ r.p5 = d.p5 /\ ~ r.thermal
    BY DEF Report, EmptyReport
  <2> HIDE DEF r
  <2>3. motor'.pc = "reset" /\ motor'.reports = Append(motor.reports, r)
    BY <1>1, <2>1 DEF Finish, RunPhase, MotorShape, r
  <2>4. motor.reports = <<>> /\ \A x : Append(<<>>, x)[1] = x
    <3>1. motor.reports = <<>>
      BY <1>3 DEF GateLoad, StepInv, StepShape
    <3>2. \A x : Append(<<>>, x)[1] = x
      OBVIOUS
    <3> QED
      BY <3>1, <3>2
  <2>5. Taken' = r
    BY <2>3, <2>4, Zenon DEF Taken
  <2>6. Taken' \in ReportType
    BY <1>1, <2>3 DEF StepInv, StepShape, OneReport
  <2> QED
    BY <2>2, <2>3, <2>5, <2>6 DEF StepMeasured, Measured, PassesAreMeasured
<1> QED
  BY <1>2, <1>3

LEMMA MeasuredNext ==
    ASSUME PassesAreMeasured, StepInv, StepMeasured, [Next]_svars
    PROVE  StepMeasured'
<1>1. CASE MotorRuns \/ DiscoveryLoad \/ GateLoad
  BY <1>1, MotorMeasured, LoadMeasured
<1>2. CASE motor'.pc \in {"idle", "arm"}
  BY <1>2 DEF StepMeasured
<1>3. CASE SelectCalibration \/ SelectGate \/ SelectSweep \/ CalibrationStepDone \/ GateStepDone
           \/ SweepStepDone \/ StepPanics \/ Reboot
  <2>1. motor' = IdleMotor \/ Begin("step", job.mv) \/ (UNCHANGED motor /\ motor.pc = "idle")
    BY <1>3 DEF SelectCalibration, SelectGate, SelectSweep, CalibrationStepDone, GateStepDone, SweepStepDone,
       StepPanics, Reboot, RebootAndRecover, StepInv, StepShape
  <2>2. CASE motor' = IdleMotor
    BY <1>2, <2>2 DEF IdleMotor
  <2>3. CASE Begin("step", job.mv)
    BY <1>2, <2>3 DEF Begin, IdleMotor
  <2>4. CASE UNCHANGED motor /\ motor.pc = "idle"
    BY <1>2, <2>4
  <2> QED
    BY <2>1, <2>2, <2>3, <2>4
<1>4. CASE \/ AnalyseCalibration \/ JudgeTexture \/ JudgeEndurance \/ SweepRecorded \/ JobEnds
           \/ StartCalibration \/ StartGate \/ StartSweep \/ StartSteps \/ PersistCalibration \/ PersistGate
           \/ RecordSweep \/ OpenSession \/ CloseSession
  <2>1. UNCHANGED motor /\ motor.pc = "idle"
    BY <1>4 DEF AnalyseCalibration, JudgeTexture, JudgeEndurance, SweepRecorded, JobEnds, StartCalibration,
       StartGate, StartSweep, StartSteps, StartPairJob, StartDescent, PersistCalibration, PersistGate,
       RecordSweep, OpenSession, CloseSession, StepInv, StepShape, mvars
  <2> QED
    BY <1>2, <2>1
<1>5. CASE StopPressed \/ UNCHANGED svars
  <2>1. UNCHANGED <<job, motor>>
    BY <1>5 DEF StopPressed, svars, mvars
  <2>2. Taken' = Taken
    BY <2>1 DEF Taken
  <2> QED
    BY <2>1, <2>2 DEF StepMeasured, Measured
<1> QED
  BY <1>1, <1>3, <1>4, <1>5 DEF Next, Work, Calibration, Gate, Sweep

-----------------------------------------------------------------------------
(* The lines.                                                              *)

LEMMA LinesNext ==
    ASSUME RecordInv, [Next]_svars
    PROVE  LinesOK' /\ log.obs \subseteq log'.obs
<1>1. CASE PersistCalibration \/ PersistGate \/ RecordSweep
  <2>1. job.kind = "gate" => Measured(Head(job.queue))
    BY <1>1 DEF RecordInv, GateLines, GateInv, PersistCalibration, PersistGate, RecordSweep
  <2>2. UNCHANGED log \/ \E mv : log' = AppendObservation(log, Observation(Head(job.queue), mv))
    BY <1>1 DEF PersistCalibration, PersistGate, RecordSweep
  <2>3. CASE UNCHANGED log
    BY <2>3 DEF RecordInv, LinesOK, Readings, IsCurrentApplyEvidence, IsValidated, obs
  <2> QED
    BY <2>1, <2>2, <2>3, LineKeeps DEF RecordInv
<1>2. CASE UNCHANGED log
  BY <1>2 DEF RecordInv, LinesOK, Readings, IsCurrentApplyEvidence, IsValidated, obs
<1>3. UNCHANGED log \/ PersistCalibration \/ PersistGate \/ RecordSweep
  BY DEF Next, Work, Calibration, Gate, Sweep, MotorRuns, DiscoveryLoad, GateLoad, SelectCalibration,
     SelectGate, SelectSweep, CalibrationStepDone, GateStepDone, SweepStepDone, AnalyseCalibration,
     JudgeTexture, JudgeEndurance, SweepRecorded, JobEnds, StopPressed, StartCalibration, StartGate,
     StartSweep, StartSteps, StartPairJob, StartDescent,
     OpenSession, CloseSession, StepPanics, Reboot, svars
<1> QED
  BY <1>1, <1>2, <1>3

LEMMA QualifiedNext ==
    ASSUME RecordInv, [Next]_svars
    PROVE  QualifiedLines'
<1>1. \A q \in seen.qualified : OnRecord(q[1], q[2], "Texture")' /\ OnRecord(q[1], q[2], "Endurance")'
  BY LinesNext, RecordGrows DEF RecordInv, QualifiedLines
<1>2. CASE JobEnds
  <2>1. seen'.qualified = IF job.outcome = "Qualified" THEN seen.qualified \cup {<<session.run, job.mv>>}
                          ELSE seen.qualified
    BY <1>2, SeenFields DEF JobEnds, RecordInv, GateInv
  <2>2. ASSUME NEW run, NEW mv, run = session.run, mv = job.mv, job.outcome = "Qualified"
        PROVE  OnRecord(run, mv, "Texture")' /\ OnRecord(run, mv, "Endurance")'
    <3>1. OnRecord(run, mv, "Texture") /\ OnRecord(run, mv, "Endurance")
      BY <2>2 DEF RecordInv, GateLines
    <3> QED
      BY <3>1, LinesNext, RecordGrows
  <2> QED
    BY <1>1, <2>1, <2>2 DEF QualifiedLines
<1>3. CASE UNCHANGED seen \/ DiscoveryLoad \/ GateLoad \/ GateStepDone \/ RecordSweep \/ StepPanics \/ Reboot
  <2>1. seen'.qualified = seen.qualified
    BY <1>3, SeenFields DEF DiscoveryLoad, GateLoad, GateStepDone, RecordSweep, StepPanics, Reboot, RecordInv, GateInv
  <2> QED
    BY <1>1, <2>1 DEF QualifiedLines
<1> QED
  BY <1>2, <1>3 DEF Next, Work, Calibration, Gate, Sweep, MotorRuns, SelectCalibration,
     SelectGate, SelectSweep, CalibrationStepDone, SweepStepDone, AnalyseCalibration,
     JudgeTexture, JudgeEndurance, SweepRecorded, StopPressed, StartCalibration, StartGate,
     StartSweep, StartSteps, StartPairJob, StartDescent, PersistCalibration, PersistGate,
     OpenSession, CloseSession, svars

(* A job that is no gate has no lines to answer for.                       *)
LEMMA NoGateLines ==
    ASSUME job'.kind # "gate", job'.outcome # "Qualified"
    PROVE  GateLines'
  BY DEF GateLines

(* What the gate had on record of the Texture stays.                       *)
LEMMA GateStays ==
    ASSUME RecordInv, [Next]_svars, job.kind = "gate", session'.run = session.run, job'.mv = job.mv,
           job.pattern = "Endurance"
    PROVE  OnRecord(session.run, job.mv, "Texture")'
<1>1. ASSUME NEW run, NEW mv, run = session.run, mv = job.mv, OnRecord(run, mv, "Texture")
      PROVE  OnRecord(session.run, job.mv, "Texture")'
  <2>1. OnRecord(run, mv, "Texture")'
    BY <1>1, LinesNext, RecordGrows
  <2>2. run = session'.run /\ mv = job'.mv
    BY <1>1
  <2> QED
    BY <2>1, <2>2
<1> QED
  BY <1>1 DEF RecordInv, GateLines

(* A failed calibration ends with the verdict of its group.                *)
LEMMA CalibrationVerdict ==
    ASSUME job.reports \in Seq(ReportType)
    PROVE  Calibrated.outcome # "Qualified"
<1> DEFINE rs == job.reports
           tries == ConfirmAttempts(rs, job.rechecked)
           p99 == ConservativeP99(rs, job.rechecked)
           near == p99 # None /\ CapState(p99, PowerLimit, Aggregate(tries, p99).capped, "none") = "NearCap"
           S(t) == {n \in DOMAIN t : t[n].outcome \in HardFailures}
<1>1. Calibrated.outcome = PowerBound(Aggregate(tries, p99).outcome, near)
  BY DEF Calibrated
<1>2. DOMAIN tries = 1 .. Len(rs) /\ Len(rs) \in Nat
  BY DEF ConfirmAttempts
<1> HIDE DEF tries, p99, near
<1>3. HasHardFailure(tries) => tries[Min(S(tries))].outcome \in HardFailures
  <2> SUFFICES ASSUME HasHardFailure(tries) PROVE tries[Min(S(tries))].outcome \in HardFailures
    OBVIOUS
  <2>1. S(tries) \in SUBSET Nat /\ S(tries) # {}
    BY <1>2 DEF HasHardFailure, Reports
  <2> QED
    BY <2>1, MinMember
<1>4. Aggregate(tries, p99).outcome = IF HasHardFailure(tries) THEN tries[Min(S(tries))].outcome
                                      ELSE IF p99 = None THEN "Inconclusive"
                                      ELSE IF \E r \in Reports(tries) : r.outcome = "ClockDrop" THEN "ClockDrop"
                                      ELSE "Validated"
  BY DEF Aggregate
<1> HIDE DEF S
<1>5. Aggregate(tries, p99).outcome # "Qualified"
  BY <1>3, <1>4 DEF HardFailures
<1> QED
  BY <1>1, <1>5 DEF PowerBound

LEMMA OtherGateLines ==
    ASSUME RecordInv, [Next]_svars,
           \/ StartCalibration \/ StartSweep \/ StartSteps \/ SelectCalibration \/ CalibrationStepDone
           \/ AnalyseCalibration \/ PersistCalibration \/ SelectSweep \/ SweepStepDone \/ RecordSweep
           \/ SweepRecorded \/ JobEnds \/ StepPanics \/ Reboot
    PROVE  GateLines'
<1>1. DOMAIN job = DOMAIN IdleJob /\ (job.outcome = "Qualified" => job.kind = "gate")
  BY DEF RecordInv, GateInv, GateLines
<1>2. CASE StartCalibration \/ StartSweep \/ StartSteps
  <2>1. job'.kind # "gate" /\ job'.outcome # "Qualified"
    BY <1>2 DEF StartCalibration, StartSweep, StartSteps, StartPairJob, StartDescent, IdleJob
  <2> QED
    BY <2>1, NoGateLines
<1>3. CASE JobEnds \/ StepPanics \/ Reboot
  BY <1>3, NoGateLines DEF JobEnds, StepPanics, Reboot, IdleJob
<1>4. CASE SelectCalibration \/ CalibrationStepDone \/ AnalyseCalibration
  <2>1. job.kind # "gate"
    BY <1>4 DEF SelectCalibration, CalibrationStepDone, AnalyseCalibration, RecordInv, GateInv, StepInv, StepShape
  <2>2. job'.kind = job.kind /\ job'.outcome = job.outcome
    BY <1>1, <1>4, JobFields DEF SelectCalibration, CalibrationStepDone, AnalyseCalibration
  <2> QED
    BY <1>1, <2>1, <2>2, NoGateLines
<1>5. CASE PersistCalibration
  <2>1. job.kind = "calibration" /\ job.reports \in Seq(ReportType)
    BY <1>5 DEF PersistCalibration, RecordInv, StepInv, StepShape
  <2>2. job'.kind = job.kind
        /\ job'.outcome \in {job.outcome, "Confirmed", Calibrated.outcome, "ObservationPersistFailed"}
    BY <1>1, <1>5, JobFields DEF PersistCalibration, Aborts, Outcome
  <2> QED
    BY <1>1, <2>1, <2>2, CalibrationVerdict, NoGateLines
<1>6. CASE SelectSweep \/ SweepStepDone \/ RecordSweep \/ SweepRecorded
  <2>1. job.kind # "gate"
    BY <1>6 DEF SelectSweep, SweepStepDone, RecordSweep, SweepRecorded, Descending, RecordInv, GateInv
  <2>2. job'.kind = job.kind /\ job'.outcome \in {job.outcome, "Stepped", "Swept"}
    BY <1>1, <1>6, JobFields DEF SelectSweep, SweepStepDone, RecordSweep, SweepRecorded, Recorded, Outcome
  <2> QED
    BY <1>1, <2>1, <2>2, NoGateLines
<1> QED
  BY <1>2, <1>3, <1>4, <1>5, <1>6

LEMMA StartGateLines ==
    ASSUME StartGate
    PROVE  GateLines'
<1>1. PICK mv \in Pairs : StartPairJob("gate", mv)
  BY DEF StartGate
<1>2. /\ job'.kind = "gate" /\ job'.pattern = "Texture" /\ job'.pc \in {"ended", "select"}
      /\ job'.outcome # "Qualified"
  BY <1>1 DEF StartPairJob, IdleJob
<1> QED
  BY <1>2 DEF GateLines

LEMMA GateMoveLines ==
    ASSUME RecordInv, [Next]_svars, SelectGate \/ GateStepDone
    PROVE  GateLines'
<1>1. /\ DOMAIN job = DOMAIN IdleJob /\ job.kind = "gate" /\ UNCHANGED session /\ job.outcome # "Qualified"
  BY DEF RecordInv, GateInv, SelectGate, GateStepDone
<1>2. /\ job'.kind = "gate" /\ job'.pattern = job.pattern /\ job'.mv = job.mv /\ job'.outcome # "Qualified"
      /\ job'.pc \in {"step", "ended", "persist"}
  BY <1>1, JobFields DEF SelectGate, GateStepDone, Aborts, Outcome
<1>3. job'.pattern = "Endurance" => OnRecord(session.run, job.mv, "Texture")'
  BY <1>1, <1>2, GateStays
<1>4. CASE SelectGate
  <2>1. job'.pc # "persist"
    BY <1>1, <1>4, JobFields DEF SelectGate, Aborts, Outcome
  <2> QED
    BY <1>2, <1>3, <2>1 DEF GateLines
<1>5. CASE GateStepDone
  <2>1. job'.queue = <<Taken>> /\ job'.pc = "persist" /\ motor.pc = "done"
    BY <1>1, <1>5, JobFields DEF GateStepDone
  <2>2. Head(<<Taken>>) = Taken
    OBVIOUS
  <2>3. Measured(Taken) /\ (Taken.outcome = "Validated" => Taken.clean)
    BY <1>1, <2>1 DEF RecordInv, StepMeasured
  <2>4. Measured(Head(job'.queue)) /\ (Head(job'.queue).outcome = "Validated" => Head(job'.queue).clean)
    BY <2>1, <2>2, <2>3, Zenon
  <2> QED
    BY <1>2, <1>3, <2>1, <2>4 DEF GateLines, Measured
<1> QED
  BY <1>4, <1>5

(* The line of a pass is a pass.                                           *)
LEMMA PersistGateLines ==
    ASSUME RecordInv, [Next]_svars, PersistGate
    PROVE  GateLines'
<1> DEFINE r == Head(job.queue)
           o == Observation(r, job.mv)
<1>1. /\ DOMAIN job = DOMAIN IdleJob /\ job.kind = "gate" /\ UNCHANGED session /\ job.outcome # "Qualified"
      /\ job.pc = "persist" /\ job.pattern \in {"Texture", "Endurance"}
      /\ Measured(r) /\ (r.outcome = "Validated" => r.clean)
  BY DEF RecordInv, GateInv, GateLines, PersistGate
<1>2. /\ job'.kind = "gate" /\ job'.pattern = job.pattern /\ job'.mv = job.mv /\ job'.outcome # "Qualified"
      /\ job'.pc \in {"judge", "ended"} /\ job'.queue = job.queue
  BY <1>1, JobFields DEF PersistGate, Aborts, Outcome
<1>3. job'.pattern = "Endurance" => OnRecord(session.run, job.mv, "Texture")'
  BY <1>1, <1>2, GateStays
<1>4. CASE job'.pc = "ended"
  BY <1>2, <1>3, <1>4 DEF GateLines
<1>5. CASE job'.pc = "judge"
  <2>1. log' = AppendObservation(log, o)
    BY <1>1, <1>5, JobFields DEF PersistGate, Aborts, Outcome
  <2>2. o \in log'.obs
    BY <1>1, <2>1, LineKeeps DEF RecordInv
  <2>3. ASSUME r.outcome = "Validated" PROVE PassLine(o, session.run, job.mv, job.pattern)
    <3>1. /\ o.run = session.run /\ o.target = Target /\ o.anchor = job.mv /\ o.gpu = 0
          /\ o.pattern = job.pattern /\ o.kind = "ApplyQualification" /\ o.current /\ o.clean = r.clean
          /\ o.outcome = MapOutcome(r.outcome, EvidenceKind) /\ o.pass = (r.outcome = "Validated")
      BY <1>1 DEF Observation, EvidenceKind
    <3>2. MapOutcome("Validated", EvidenceKind) = "Validated"
      BY DEF MapOutcome
    <3> HIDE DEF o, r
    <3> QED
      BY <1>1, <2>3, <3>1, <3>2 DEF PassLine, IsCurrentApplyEvidence, IsValidated
  <2>4. ASSUME NEW run, NEW mv, NEW pattern, run = session.run, mv = job.mv, pattern = job.pattern,
               r.outcome = "Validated"
        PROVE  OnRecord(run, mv, pattern)'
    BY <2>2, <2>3, <2>4 DEF OnRecord, PassLine, obs, IsCurrentApplyEvidence, IsValidated
  <2>5. r.outcome = "Validated" => OnRecord(session.run, job.mv, job.pattern)'
    BY <1>1, <1>2, <2>4
  <2> QED
    BY <1>1, <1>2, <1>3, <1>5, <2>5 DEF GateLines, Measured
<1> QED
  BY <1>2, <1>4, <1>5

LEMMA JudgeLines ==
    ASSUME RecordInv, [Next]_svars, JudgeTexture \/ JudgeEndurance
    PROVE  GateLines'
<1>1. /\ DOMAIN job = DOMAIN IdleJob /\ job.kind = "gate" /\ UNCHANGED <<session, log>> /\ job.outcome # "Qualified"
      /\ job.pc = "judge"
  BY DEF RecordInv, GateInv, JudgeTexture, JudgeEndurance
<1> DEFINE Kept == job.pattern = "Endurance" => OnRecord(session.run, job.mv, "Texture")
           Passed == Head(job.queue).outcome = "Validated" => OnRecord(session.run, job.mv, job.pattern)
<1>2. Kept /\ Passed
  BY <1>1 DEF RecordInv, GateLines
<1>3. ASSUME NEW pattern PROVE OnRecord(session.run, job.mv, pattern) /\ job'.mv = job.mv
                               => OnRecord(session.run, job.mv, pattern)'
  BY <1>1 DEF OnRecord, PassLine, obs, IsCurrentApplyEvidence, IsValidated
<1>4. CASE JudgeTexture
  <2>1. job.pattern = "Texture"
    BY <1>4 DEF JudgeTexture
  <2>2. \/ job'.pc = "ended" /\ job'.outcome # "Qualified" /\ job'.mv = job.mv /\ job'.pattern = job.pattern
           /\ job'.kind = "gate"
        \/ /\ job'.pc = "select" /\ job'.outcome # "Qualified" /\ job'.mv = job.mv /\ job'.pattern = "Endurance"
           /\ job'.kind = "gate" /\ Head(job.queue).outcome = "Validated" /\ job.pattern = "Texture"
        \/ job'.pc = "select" /\ job'.outcome # "Qualified" /\ job'.mv = job.mv /\ job'.pattern = job.pattern
           /\ job'.kind = "gate"
    BY <1>1, <1>4, <2>1, JudgeTextureCases, JobFields
  <2> QED
    BY <1>2, <1>3, <2>2 DEF GateLines
<1>5. CASE JudgeEndurance
  <2>1. /\ job'.kind = "gate" /\ job'.pattern = job.pattern /\ job'.pc = "ended" /\ job'.mv = job.mv
        /\ job.pattern = "Endurance"
        /\ job'.outcome = "Qualified" => Head(job.queue).outcome = "Validated"
    BY <1>1, <1>5, JobFields DEF JudgeEndurance, Outcome, Aborts, AbortOutcomes, RetainingOutcomes
  <2> QED
    BY <1>2, <1>3, <2>1 DEF GateLines
<1> QED
  BY <1>4, <1>5

LEMMA GateLinesNext ==
    ASSUME RecordInv, [Next]_svars
    PROVE  GateLines'
<1>1. CASE \/ StartCalibration \/ StartSweep \/ StartSteps \/ SelectCalibration \/ CalibrationStepDone
           \/ AnalyseCalibration \/ PersistCalibration \/ SelectSweep \/ SweepStepDone \/ RecordSweep
           \/ SweepRecorded \/ JobEnds \/ StepPanics \/ Reboot
  BY <1>1, OtherGateLines
<1>2. CASE StartGate \/ SelectGate \/ GateStepDone \/ PersistGate \/ JudgeTexture \/ JudgeEndurance
  BY <1>2, StartGateLines, GateMoveLines, PersistGateLines, JudgeLines
<1>3. CASE OpenSession \/ CloseSession
  <2>1. job.pc = "idle" /\ UNCHANGED job
    BY <1>3 DEF OpenSession, CloseSession
  <2>2. job.kind # "gate"
    BY <2>1 DEF RecordInv, GateInv
  <2> QED
    BY <2>1, <2>2, NoGateLines DEF RecordInv, GateLines
<1>4. CASE MotorRuns \/ DiscoveryLoad \/ GateLoad \/ StopPressed \/ UNCHANGED svars
  <2>1. UNCHANGED <<job, session, log>>
    BY <1>4 DEF MotorRuns, DiscoveryLoad, GateLoad, StopPressed, svars
  <2> QED
    BY <2>1 DEF RecordInv, GateLines, Measured, OnRecord, PassLine, obs, IsCurrentApplyEvidence, IsValidated
<1> QED
  BY <1>1, <1>2, <1>3, <1>4 DEF Next, Work, Calibration, Gate, Sweep

(* A pair that was qualified has its complete power and its clock on disk, *)
(* for the publication to read (current_complete_apply_gate_p99_at_anchor),*)
(* if a dwell that passes has its readings.                                *)
THEOREM QualifiedIsPublishable ==
    ASSUME PassesAreMeasured
    PROVE  Spec => []QualifiedIsOnRecord
<1>1. Init => RecordInv
  <2> SUFFICES ASSUME Init PROVE RecordInv
    OBVIOUS
  <2>1. StepInv
    BY StepInit
  <2>2. GateInv
    BY DEF Init, GateInv, IdleJob, NothingSeen, NoGate
  <2>3. LinesOK
    BY DEF Init, LinesOK, EmptyLog, obs
  <2>4. StepMeasured /\ GateLines /\ QualifiedLines
    BY DEF Init, MotorInit, IdleMotor, IdleJob, NothingSeen, StepMeasured, GateLines, QualifiedLines
  <2> QED
    BY <2>1, <2>2, <2>3, <2>4 DEF RecordInv
<1>2. RecordInv /\ [Next]_svars => RecordInv'
  <2> SUFFICES ASSUME RecordInv, [Next]_svars PROVE RecordInv'
    OBVIOUS
  <2>1. StepInv' /\ GateInv'
    BY StepNext, GateNext DEF RecordInv
  <2>2. StepMeasured'
    BY MeasuredNext DEF RecordInv
  <2>3. LinesOK' /\ GateLines' /\ QualifiedLines'
    BY LinesNext, GateLinesNext, QualifiedNext
  <2> QED
    BY <2>1, <2>2, <2>3 DEF RecordInv
<1>3. RecordInv => QualifiedIsOnRecord
  <2> SUFFICES ASSUME RecordInv, NEW q \in seen.qualified
               PROVE  LET power == CompleteGatePower(obs, q[1], Target, q[2], 0)
                      IN /\ power # None
                         /\ CurrentApplyClock(obs, q[1], Target, q[2], 0) # None
                         /\ power >= CurrentApplyPower(obs, q[1], Target, q[2], 0)
                         /\ WorstApplyPower(obs, q[1], Target, q[2], 0) >= power
    BY Zenon DEF QualifiedIsOnRecord
  <2>1. LinesOK /\ OnRecord(q[1], q[2], "Texture") /\ OnRecord(q[1], q[2], "Endurance")
    BY DEF RecordInv, QualifiedLines
  <2> QED
    BY <2>1, LinesPublish
<1> QED
  BY <1>1, <1>2, <1>3, PTL DEF Spec
=============================================================================
