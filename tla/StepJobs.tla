------------------------------- MODULE StepJobs -------------------------------
(***************************************************************************)
(* The jobs made of one-phase steps (crates/service/src/gpu_undervolt.rs), *)
(* each step a write of its own:                                           *)
(*   calibration  the p99 power of an Apply pair                           *)
(*   gate         the exact-Apply qualification: Texture, then Endurance   *)
(*   sweep        the descent of the command line, with its repeats        *)
(*   steps        the same of a given length, which leaves no line behind  *)
(* A Forge session runs calibrations and gates and ends with a last reset; *)
(* a descent of the command line is a process of its own.                  *)
(***************************************************************************)
EXTENDS CandidateMotor

CONSTANTS
    Plan,        \* the voltages a sweep descends, from high to low
    Pairs,       \* the voltages of the Apply pairs at the target clock
    Dwells,      \* what a discovery dwell can measure
    GateDwells,  \* what a dwell of the gate can measure
    PowerLimit,  \* W
    Ceiling,     \* publication power ceiling, W
    ExtraPasses, \* repeats asked of a sweep
    MaxRuns, MaxJobs, MaxStops, MaxReboots  \* bounds

ASSUME StepPlanDescends ==
    Plan \in Seq(Nat) /\ \A m, n \in DOMAIN Plan : m < n => Plan[m] > Plan[n]

ASSUME StepDwellsAssumption ==
    /\ Pairs \subseteq Nat /\ Ceiling \in Nat
    /\ Dwells \subseteq [outcome : DwellOutcomes, p99 : Int, p5 : Int]
    /\ GateDwells \subseteq [outcome : DwellOutcomes, p99 : Int, p5 : Int, retryable : BOOLEAN]

VARIABLES
    log,      \* f2_observations.jsonl
    job,      \* the job under way
    session,  \* the Forge session around it
    stop,     \* the stop flag
    seen,     \* observer: no action reads it
    spent     \* consumption of the bounds

svars == <<flag, hw, blacklist, motor, faults, log, job, session, stop, seen, spent>>

obs == log.obs

IdleJob ==
    [pc |-> "idle", kind |-> "none", mv |-> None,
     reports |-> <<>>,    \* the steps so far
     previous |-> <<>>, rechecked |-> FALSE,                            \* calibration
     pattern |-> "Texture", retries |-> 0, passes |-> 0,                \* gate
     i |-> 1, extra |-> 0, lastGood |-> 0,                              \* sweep
     queue |-> <<>>, outcome |-> "none",
     aborted |-> FALSE, retain |-> FALSE]

IdleSession == [pc |-> "closed", run |-> 0, aborted |-> FALSE, retain |-> FALSE]

NoGate == [texture |-> "none", before |-> "none", debt |-> FALSE, bad |-> FALSE, soaked |-> FALSE]

NothingSeen == [gate |-> NoGate, lost |-> {}, qualified |-> {}, deepest |-> None]

Init ==
    /\ MotorInit
    /\ log = EmptyLog
    /\ job = IdleJob
    /\ session = IdleSession
    /\ stop = FALSE
    /\ seen = NothingSeen
    /\ spent = [jobs |-> 0, stops |-> 0, reboots |-> 0]

RetainingOutcomes == {"DeviceLost", "ResetFailed"}
AbortOutcomes == RetainingOutcomes \cup {"ArmFailed", "ApplyFailed", "VerifyFailed"}

Outcome(name) == [job EXCEPT !.pc = "ended", !.outcome = name]
Aborts(name, retain) == [Outcome(name) EXCEPT !.aborted = TRUE, !.retain = retain]

Taken == motor.reports[1]

-----------------------------------------------------------------------------
(* Starting a job.                                                         *)

(* The last restore of a session, and the preflight of the next one.       *)
OpenSession ==
    /\ session.pc = "closed" /\ job.pc = "idle" /\ session.run < MaxRuns
    /\ flag = None
    /\ hw' = None
    /\ session' = [IdleSession EXCEPT !.pc = "open", !.run = session.run + 1]
    /\ stop' = FALSE
    /\ UNCHANGED <<flag, blacklist, motor, faults, log, job, seen, spent>>

(* A stop and a refusal come before any write; a refusal aborts.           *)
StartPairJob(kind, mv) ==
    /\ session.pc = "open" /\ job.pc = "idle" /\ ~ session.aborted
    /\ spent.jobs < MaxJobs
    /\ spent' = [spent EXCEPT !.jobs = @ + 1]
    /\ LET fresh == [IdleJob EXCEPT !.kind = kind, !.mv = mv]
       IN job' = IF stop THEN [fresh EXCEPT !.pc = "ended", !.outcome = "Cancelled"]
                 ELSE IF ~ Selectable(mv)
                 THEN [fresh EXCEPT !.pc = "ended", !.outcome = "Refused", !.aborted = TRUE]
                 ELSE [fresh EXCEPT !.pc = "select"]
    /\ UNCHANGED <<mvars, log, session, stop, seen>>

StartCalibration == \E mv \in Pairs : StartPairJob("calibration", mv)
StartGate == \E mv \in Pairs : StartPairJob("gate", mv)

(* confirmed_f2_multi_refusal                                              *)
DescentRefused == flag # None \/ Plan = <<>>

StartDescent(kind) ==
    /\ session.pc = "closed" /\ job.pc = "idle"
    /\ session.run < MaxRuns /\ spent.jobs < MaxJobs
    /\ ~ DescentRefused
    /\ spent' = [spent EXCEPT !.jobs = @ + 1]
    /\ stop' = FALSE
    /\ job' = [IdleJob EXCEPT !.pc = "select", !.kind = kind, !.mv = Plan[1]]
    /\ session' = [session EXCEPT !.run = @ + 1]
    /\ UNCHANGED <<mvars, log, seen>>

(* The confirmed descents of the command line.                             *)
StartSweep == StartDescent("sweep")
StartSteps == StartDescent("steps")

-----------------------------------------------------------------------------
(* Calibration.                                                            *)

ConfirmedPowers(evidence) ==
    {o \in evidence :
        /\ o.target = Target /\ IsCurrentDiscoveryEvidence(o) /\ ~ o.thermal
        /\ o.outcome \in {"Validated", "PowerBoundClockDrop"} /\ o.p99 # None /\ o.p5 # None}

(* The reference: the confirmed power of the nearest voltage.              *)
SelectCalibration ==
    /\ job.pc = "select" /\ job.kind = "calibration"
    /\ LET known   == ConfirmedPowers(obs)
           nearest == Min({Abs(o.anchor - job.mv) : o \in known})
       IN IF known = {} THEN job' = [job EXCEPT !.pc = "step"]
          ELSE \E o \in known : Abs(o.anchor - job.mv) = nearest
                                /\ job' = [job EXCEPT !.pc = "step", !.previous = <<o.p99, o.p5>>]
    /\ Begin("step", job.mv)
    /\ UNCHANGED <<flag, hw, blacklist, faults, log, session, stop, seen, spent>>

(* A dwell of a calibration or a sweep.                                    *)
DiscoveryLoad ==
    /\ job.pc = "step" /\ motor.pc = "active" /\ job.kind # "gate"
    /\ \E d \in Dwells :
          /\ motor' = Finish(RunPhase([Report("Discovery", d.outcome) EXCEPT !.p99 = d.p99, !.p5 = d.p5]))
          /\ seen' = IF d.outcome = "DeviceLost" THEN [seen EXCEPT !.lost = @ \cup {motor.mv}] ELSE seen
    /\ UNCHANGED <<flag, hw, blacklist, faults, log, job, session, stop, spent>>

(* Variant: a repeated dwell that failed hard is repeated as well.         *)
Repeats_PastFailure(rs, rechecked) ==
    /\ rechecked /\ Len(rs) < 3 /\ ~ stop
    /\ Len(rs) = 1 \/ ~ RecheckResolved(rs, PowerLimit, "none")

(* Whether the same pair is measured again.                                *)
Repeats(rs, rechecked) ==
    /\ rechecked /\ Len(rs) < 3 /\ ~ stop
    /\ Len(rs) = 1 \/ (Last(rs).outcome \notin HardFailures /\ ~ RecheckResolved(rs, PowerLimit, "none"))

CalibrationStepDone ==
    /\ job.pc = "step" /\ motor.pc = "done" /\ job.kind = "calibration"
    /\ LET rs        == Append(job.reports, Taken)
           rechecked == job.rechecked \/ (Len(rs) = 1 /\ Usable(Taken) /\ RequiresRecheck(job.previous, Taken))
       IN IF Repeats(rs, rechecked)
          THEN job' = [job EXCEPT !.reports = rs, !.rechecked = rechecked] /\ Begin("step", job.mv)
          ELSE /\ job' = [job EXCEPT !.reports = rs, !.rechecked = rechecked, !.pc = "analyse"]
               /\ motor' = IdleMotor
    /\ UNCHANGED <<flag, hw, blacklist, faults, log, session, stop, seen, spent>>

Calibrated ==
    LET p99   == ConservativeP99(job.reports, job.rechecked)
        tries == ConfirmAttempts(job.reports, job.rechecked)
        group == Aggregate(tries, p99)
        near  == p99 # None /\ CapState(p99, PowerLimit, group.capped, "none") = "NearCap"
    IN [p99     |-> p99,
        outcome |-> PowerBound(group.outcome, near),
        lines   |-> [n \in DOMAIN tries |->
                        IF tries[n].confirmed THEN [tries[n] EXCEPT !.outcome = PowerBound(@, near)] ELSE tries[n]]]

AnalyseCalibration ==
    /\ job.pc = "analyse"
    /\ job' = [job EXCEPT !.pc = "persist", !.queue = Calibrated.lines]
    /\ UNCHANGED <<mvars, log, session, stop, seen, spent>>

-----------------------------------------------------------------------------
(* What a step leaves in the log.                                          *)

(* Variant: the gate records what the descent records.                     *)
EvidenceKind_Shared == IF job.kind = "gate" THEN "Qualification" ELSE "Discovery"

EvidenceKind == IF job.kind = "gate" THEN "ApplyQualification" ELSE "Discovery"

Observation(r, mv) ==
    [run |-> session.run, gpu |-> 0, target |-> Target, anchor |-> mv, kind |-> EvidenceKind, current |-> TRUE,
     outcome |-> MapOutcome(r.outcome, EvidenceKind), lost |-> r.outcome = "DeviceLost",
     clean |-> r.clean, confirmed |-> r.confirmed, p99 |-> r.p99, peak |-> r.p99, p5 |-> r.p5, p95 |-> r.p5,
     thermal |-> r.thermal, pattern |-> IF job.kind = "gate" THEN job.pattern ELSE "none",
     pass |-> job.kind = "gate" /\ r.outcome = "Validated"]

Retains(outcome) == outcome \in RetainingOutcomes

(* Each attempt is recorded; the flag follows the aggregate even if a line *)
(* cannot be written.                                                      *)
PersistCalibration ==
    /\ job.pc = "persist" /\ job.kind = "calibration"
    /\ LET verdict == Calibrated.outcome
           done    == [job EXCEPT !.pc = "ended",
                          !.outcome = IF Calibrated.p99 # None /\ verdict \in {"Validated", "PowerBoundClockDrop"}
                                      THEN "Confirmed" ELSE verdict,
                          !.aborted = verdict \in AbortOutcomes,
                          !.retain = Retains(verdict)]
       IN \/ /\ log' = AppendObservation(log, Observation(Head(job.queue), job.mv))
             /\ job' = IF Len(job.queue) > 1 THEN [job EXCEPT !.queue = Tail(@)] ELSE done
             /\ NoFault
          \/ /\ Fault
             /\ job' = Aborts("ObservationPersistFailed", Retains(verdict))
             /\ UNCHANGED log
    /\ UNCHANGED <<flag, hw, blacklist, motor, session, stop, seen, spent>>

-----------------------------------------------------------------------------
(* The exact-Apply gate.                                                   *)

SelectGate ==
    /\ job.pc = "select" /\ job.kind = "gate"
    /\ IF stop \/ ~ Selectable(job.mv)
       THEN /\ job' = IF stop THEN Outcome("Cancelled") ELSE Aborts("PrecheckFailed", FALSE)
            /\ UNCHANGED motor
       ELSE job' = [job EXCEPT !.pc = "step"] /\ Begin("step", job.mv)
    /\ UNCHANGED <<flag, hw, blacklist, faults, log, session, stop, seen, spent>>

GateLoad ==
    /\ job.pc = "step" /\ motor.pc = "active" /\ job.kind = "gate"
    /\ \E d \in GateDwells :
          /\ motor' = Finish(RunPhase([Report("ApplyQualification", d.outcome) EXCEPT
                                          !.p99 = d.p99, !.p5 = d.p5, !.retryable = d.retryable]))
          /\ seen' = IF d.outcome = "DeviceLost" THEN [seen EXCEPT !.lost = @ \cup {motor.mv}] ELSE seen
    /\ UNCHANGED <<flag, hw, blacklist, faults, log, job, session, stop, spent>>

(* The last two Textures, a debt, anything that is not a pass, the soak.   *)
Watched(g, r) ==
    IF job.pattern = "Endurance" THEN [g EXCEPT !.soaked = r.outcome = "Validated"]
    ELSE [texture |-> r.outcome, before |-> g.texture, soaked |-> FALSE,
          debt |-> g.debt \/ r.outcome = "Inconclusive",
          bad |-> \/ g.bad
                  \/ r.outcome \notin {"Validated", "Inconclusive"}
                  \/ r.outcome = "Validated" /\ Ceiling > 0 /\ r.p99 > Ceiling]

GateStepDone ==
    /\ job.pc = "step" /\ motor.pc = "done" /\ job.kind = "gate"
    /\ job' = [job EXCEPT !.pc = "persist", !.queue = <<Taken>>]
    /\ motor' = IdleMotor
    /\ seen' = [seen EXCEPT !.gate = Watched(@, Taken)]
    /\ UNCHANGED <<flag, hw, blacklist, faults, log, session, stop, spent>>

(* A lost line aborts the gate, and its abort does not ask for the flag.   *)
PersistGate ==
    /\ job.pc = "persist" /\ job.kind = "gate"
    /\ \/ /\ log' = AppendObservation(log, Observation(Head(job.queue), job.mv))
          /\ job' = [job EXCEPT !.pc = "judge"]
          /\ NoFault
       \/ Fault /\ job' = Aborts("ObservationPersistFailed", FALSE) /\ UNCHANGED log
    /\ UNCHANGED <<flag, hw, blacklist, motor, session, stop, seen, spent>>

(* Variant: one clean pass pays for an inconclusive dwell.                 *)
PatternComplete_One(retries, passes) == retries = 0 \/ passes >= 1

(* Once a dwell was inconclusive, two clean passes in a row are due.       *)
PatternComplete(retries, passes) == retries = 0 \/ passes >= 2

AboveCeiling(r) == Ceiling > 0 /\ r.p99 # None /\ r.p99 > Ceiling

(* Variant: a clean pass wins one retry back.                              *)
JudgeTexture_Forgives ==
    /\ job.pc = "judge" /\ job.pattern = "Texture"
    /\ LET r      == Head(job.queue)
           passes == IF job.retries > 0 THEN job.passes + 1 ELSE job.passes
       IN job' =
            CASE r.outcome = "Validated" /\ AboveCeiling(r) -> Outcome("PowerCeilingExceeded")
              [] r.outcome = "Validated" /\ ~ AboveCeiling(r) ->
                    IF PatternComplete(job.retries, passes)
                    THEN [job EXCEPT !.pc = "select", !.pattern = "Endurance", !.passes = passes]
                    ELSE [job EXCEPT !.pc = "select", !.passes = passes, !.retries = 1]
              [] r.outcome \in AbortOutcomes -> Aborts(r.outcome, Retains(r.outcome))
              [] r.outcome = "Inconclusive" ->
                    IF r.retryable /\ job.retries < RetryBudget
                    THEN [job EXCEPT !.pc = "select", !.retries = @ + 1, !.passes = 0]
                    ELSE Outcome("Inconclusive")
              [] OTHER -> Outcome("Rejected")
    /\ UNCHANGED <<mvars, log, session, stop, seen, spent>>

JudgeTexture ==
    /\ job.pc = "judge" /\ job.pattern = "Texture"
    /\ LET r      == Head(job.queue)
           passes == IF job.retries > 0 THEN job.passes + 1 ELSE job.passes
       IN job' =
            CASE r.outcome = "Validated" /\ AboveCeiling(r) -> Outcome("PowerCeilingExceeded")
              [] r.outcome = "Validated" /\ ~ AboveCeiling(r) ->
                    IF PatternComplete(job.retries, passes)
                    THEN [job EXCEPT !.pc = "select", !.pattern = "Endurance", !.passes = passes]
                    ELSE [job EXCEPT !.pc = "select", !.passes = passes]
              [] r.outcome \in AbortOutcomes -> Aborts(r.outcome, Retains(r.outcome))
              [] r.outcome = "Inconclusive" ->
                    IF r.retryable /\ job.retries < RetryBudget
                    THEN [job EXCEPT !.pc = "select", !.retries = @ + 1, !.passes = 0]
                    ELSE Outcome("Inconclusive")
              [] OTHER -> Outcome("Rejected")
    /\ UNCHANGED <<mvars, log, session, stop, seen, spent>>

(* No retry of the soak; a stop beats its pass.                            *)
JudgeEndurance ==
    /\ job.pc = "judge" /\ job.pattern = "Endurance"
    /\ LET r == Head(job.queue)
       IN job' = IF stop THEN Outcome("Cancelled")
                 ELSE IF r.outcome = "Validated" THEN Outcome("Qualified")
                 ELSE IF r.outcome \in AbortOutcomes THEN Aborts(r.outcome, Retains(r.outcome))
                 ELSE IF r.outcome = "Inconclusive" THEN Outcome("Inconclusive")
                 ELSE Outcome("Rejected")
    /\ UNCHANGED <<mvars, log, session, stop, seen, spent>>

-----------------------------------------------------------------------------
(* The sweep.                                                              *)

Descending == job.kind \in {"sweep", "steps"}

(* A sweep goes on to its record, the other descent is over.               *)
Recorded(j) == IF j.kind = "sweep" THEN [j EXCEPT !.pc = "record", !.queue = j.reports]
               ELSE [j EXCEPT !.pc = "ended", !.outcome = "Stepped"]

(* The next candidate, or a repeat of the deepest good one.  The stop flag *)
(* is the Forge's; nothing stops a descent but an outcome.                 *)
SelectSweep ==
    /\ job.pc = "select" /\ Descending
    /\ IF Selectable(job.mv) THEN job' = [job EXCEPT !.pc = "step"] /\ Begin("step", job.mv)
       ELSE job' = Recorded(job) /\ UNCHANGED motor
    /\ UNCHANGED <<flag, hw, blacklist, faults, log, session, stop, seen, spent>>

(* Only a validated step leads to a deeper one, or to another repeat.      *)
Continues(r) == r.outcome = "Validated"

SweepStepDone ==
    /\ job.pc = "step" /\ motor.pc = "done" /\ Descending
    /\ LET good  == Taken.outcome = "Validated"
           took  == [job EXCEPT !.reports = Append(@, Taken),
                                !.lastGood = IF good /\ job.extra = 0 THEN job.i ELSE @]
           more  == IF job.extra = 0 THEN job.i < Len(Plan) ELSE job.extra < ExtraPasses
       IN IF Continues(Taken) /\ more
          THEN job' = IF job.extra = 0 THEN [took EXCEPT !.pc = "select", !.i = @ + 1, !.mv = Plan[job.i + 1]]
                      ELSE [took EXCEPT !.pc = "select", !.extra = @ + 1]
          ELSE job' = Recorded(took)
    /\ motor' = IdleMotor
    /\ UNCHANGED <<flag, hw, blacklist, faults, log, session, stop, seen, spent>>

(* The voltage of the line at the head of the queue.                       *)
LineVoltage ==
    IF job.extra > 0 THEN job.mv ELSE Plan[Len(job.reports) - Len(job.queue) + 1]

(* The lines are written once the descent is over; a failing one is        *)
(* skipped.                                                                *)
RecordSweep ==
    /\ job.pc = "record" /\ job.queue # <<>>
    /\ \/ log' = AppendObservation(log, Observation(Head(job.queue), LineVoltage)) /\ NoFault
       \/ Fault /\ UNCHANGED log
    /\ job' = [job EXCEPT !.queue = Tail(@)]
    /\ seen' = IF Head(job.queue).outcome = "Validated" /\ log' # log
               THEN [seen EXCEPT !.deepest = LineVoltage] ELSE seen
    /\ UNCHANGED <<flag, hw, blacklist, motor, session, stop, spent>>

(* The descent is on record: repeat its deepest good candidate, or end.    *)
SweepRecorded ==
    /\ job.pc = "record" /\ job.queue = <<>>
    /\ job' = IF job.extra = 0 /\ ExtraPasses > 0 /\ job.lastGood # 0
              THEN [job EXCEPT !.pc = "select", !.extra = 1, !.mv = Plan[job.lastGood], !.reports = <<>>]
              ELSE Outcome("Swept")
    /\ UNCHANGED <<mvars, log, session, stop, seen, spent>>

-----------------------------------------------------------------------------
(* The end of a job and of a session.                                      *)

JobEnds ==
    /\ job.pc = "ended"
    /\ job' = IdleJob
    /\ session' = IF Descending THEN session
                  ELSE [session EXCEPT !.retain = @ \/ job.retain, !.aborted = @ \/ job.aborted]
    /\ seen' = [seen EXCEPT !.gate = NoGate, !.deepest = None,
                            !.qualified = IF job.outcome = "Qualified" THEN @ \cup {<<session.run, job.mv>>} ELSE @]
    /\ UNCHANGED <<mvars, log, stop, spent>>

(* The flag goes with a confirmed reset, unless a job asked to keep it.    *)
CloseSession ==
    /\ session.pc = "open" /\ job.pc = "idle"
    /\ \/ hw' = None /\ flag' = (IF session.retain THEN flag ELSE None) /\ NoFault
       \/ hw' = None /\ ~ session.retain /\ UNCHANGED flag /\ Fault
       \/ hw' \in {hw, None} /\ UNCHANGED flag /\ Fault
    /\ session' = [session EXCEPT !.pc = "closed"]
    /\ UNCHANGED <<blacklist, motor, log, job, stop, seen, spent>>

-----------------------------------------------------------------------------
(* The environment.  A stop between two jobs is one at the end of the      *)
(* first; a reboot matters while something is under way or left over.      *)

StopPressed ==
    /\ session.pc = "open" /\ job.pc # "idle" /\ ~ stop /\ spent.stops < MaxStops
    /\ stop' = TRUE
    /\ spent' = [spent EXCEPT !.stops = @ + 1]
    /\ UNCHANGED <<mvars, log, job, session, seen>>

(* A panic under load: nothing resets a step, the flag is left for the     *)
(* next start.                                                             *)
StepPanics ==
    /\ motor.pc = "active" /\ Fault
    /\ motor' = IdleMotor
    /\ job' = IdleJob
    /\ session' = [session EXCEPT !.pc = "closed", !.aborted = TRUE]
    /\ seen' = [seen EXCEPT !.gate = NoGate, !.deepest = None]
    /\ UNCHANGED <<flag, hw, blacklist, log, stop, spent>>

Reboot ==
    /\ spent.reboots < MaxReboots
    /\ job.pc # "idle" \/ flag # None \/ hw # None
    /\ spent' = [spent EXCEPT !.reboots = @ + 1]
    /\ RebootAndRecover
    /\ job' = IdleJob
    /\ session' = [session EXCEPT !.pc = "closed", !.aborted = FALSE, !.retain = FALSE]
    /\ seen' = [seen EXCEPT !.gate = NoGate, !.deepest = None]
    /\ UNCHANGED <<log, stop>>

Calibration == StartCalibration \/ SelectCalibration \/ CalibrationStepDone
               \/ AnalyseCalibration \/ PersistCalibration
Gate == StartGate \/ SelectGate \/ GateLoad \/ GateStepDone \/ PersistGate \/ JudgeTexture \/ JudgeEndurance
Sweep == StartSweep \/ StartSteps \/ SelectSweep \/ SweepStepDone \/ RecordSweep \/ SweepRecorded

MotorRuns == MotorStep /\ UNCHANGED <<log, job, session, stop, seen, spent>>

Work == Calibration \/ Gate \/ Sweep \/ DiscoveryLoad \/ JobEnds \/ MotorRuns

Next == Work \/ OpenSession \/ CloseSession \/ StopPressed \/ StepPanics \/ Reboot

(* The job's thread keeps running; every dwell is of bounded length.       *)
Spec == Init /\ [][Next]_svars /\ WF_svars(Work)

-----------------------------------------------------------------------------
(* Properties.                                                             *)

StepTypeOK ==
    /\ MotorTypeOK
    /\ \A o \in obs : o.kind \in EvidenceKinds /\ o.outcome \in ObsOutcomes
    /\ job.pc \in {"idle", "select", "step", "analyse", "persist", "judge", "record", "ended"}
    /\ job.kind \in {"none", "calibration", "gate", "sweep", "steps"}
    /\ job.retries \in 0 .. RetryBudget /\ Len(job.reports) <= Max({3, Len(Plan), ExtraPasses})
    /\ session.pc \in {"closed", "open"}

(* Every one-phase step, whatever fails in it, changes the GPU only under  *)
(* the armed flag and drops the flag only at stock (run_confirmed_f2_step, *)
(* finish_after_write).                                                    *)
StepsAreGuarded == Guard!GuardSpec

(* A qualified pair has paid: every dwell of its gate passed or was        *)
(* inconclusive, after an inconclusive Texture the last two Textures       *)
(* passed in a row, none of them drew more than the ceiling, and the soak  *)
(* came last (gate_anchored_candidate_fsgl3).                              *)
QualifiedPaidItsDebt ==
    job.kind = "gate" /\ job.outcome = "Qualified" =>
        /\ seen.gate.soaked /\ ~ seen.gate.bad
        /\ seen.gate.texture = "Validated"
        /\ seen.gate.debt => seen.gate.before = "Validated"

(* What was qualified can be published: its run has the complete measured  *)
(* power and clock of the pair on disk, not below any single reading       *)
(* (current_complete_apply_gate_p99_at_anchor).                            *)
QualifiedIsOnRecord ==
    \A q \in seen.qualified :
        LET power == CompleteGatePower(obs, q[1], Target, q[2], 0)
        IN /\ power # None
           /\ CurrentApplyClock(obs, q[1], Target, q[2], 0) # None
           /\ power >= CurrentApplyPower(obs, q[1], Target, q[2], 0)
           /\ WorstApplyPower(obs, q[1], Target, q[2], 0) >= power

(* A lost device leaves a durable trace of its point: the flag, the        *)
(* blacklist or a line of the log, through a failing disk, a failing       *)
(* driver, a stop, the last reset and a reboot (run_confirmed_f2_step,     *)
(* gate_anchored_candidate_fsgl3).                                         *)
LossLeavesATrace ==
    \A mv \in seen.lost :
        Blacklisted(mv) \/ flag = mv \/ motor.mv = mv \/ \E o \in obs : o.anchor = mv /\ o.lost

(* "A crash/device-loss or unconfirmed reset must survive the outer        *)
(* belt-and-suspenders reset so startup recovery can still account for the *)
(* interrupted hardware run" (gpu_undervolt.rs, retain_boot_flag).         *)
LossSurvivesFinalReset ==
    seen.lost # {} /\ session.pc = "closed" /\ spent.reboots = 0 => flag # None

(* No load runs again in a job that already saw a hard failure             *)
(* (run_confirmed_f2_multi_step, the recheck loop of the calibration).     *)
NoLoadAfterFailure ==
    [][motor'.pc = "active" /\ motor.pc # "active" =>
        \A n \in DOMAIN job.reports : job.reports[n].outcome \notin HardFailures]_svars

(* Passes between inconclusive dwells, repeats and rechecks never keep a   *)
(* job going for ever.                                                     *)
JobsEnd == (job.pc # "idle") ~> (job.pc = "idle")

(* "so `validations_at_best` accumulates and raises the frontier           *)
(* confidence" (gpu_undervolt.rs, confidence re-validation): a point a     *)
(* sweep validated and recorded is on the frontier.                        *)
SweepReachesFrontier ==
    job.kind = "sweep" /\ job.outcome = "Swept" /\ seen.deepest # None
    /\ AboveFailures(obs, Target, seen.deepest)
        => FrontierAnchor(obs, Target) # None
==============================================================================
