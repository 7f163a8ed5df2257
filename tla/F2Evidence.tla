------------------------------ MODULE F2Evidence ------------------------------
(***************************************************************************)
(* The F2 observation log and every question the search asks of it         *)
(* (crates/core/src/f2_observation.rs).                                    *)
(*                                                                         *)
(* Every question depends only on which observations the log holds, so the *)
(* log is a set of them; `None' stands for a missing number.  An           *)
(* observation keeps the fields the questions read:                        *)
(*   run, gpu, target, anchor    who measured what (anchor: voltage)       *)
(*   kind                        Discovery, Qualification or               *)
(*                               ApplyQualification                        *)
(*   current                     contract version and provenance are the   *)
(*                               current ones                              *)
(*   outcome, lost               the outcome, the device_lost flag         *)
(*   clean                       reset to stock and boot flag cleared      *)
(*   confirmed, p99, peak        power: p99 confirmed, its value, the peak *)
(*   p5, p95, thermal            sustained clocks, thermal slowdown seen   *)
(*   pattern, pass               qualification pattern, full-strength pass *)
(***************************************************************************)
EXTENDS Integers, FiniteSets, FiniteSetsExt

None == -1

MinOrNone(S) == IF S = {} THEN None ELSE Min(S)
MaxOrNone(S) == IF S = {} THEN None ELSE Max(S)

EvidenceKinds == {"Discovery", "Qualification", "ApplyQualification"}

(* F2ObsOutcome::is_bad                                                    *)
BadOutcomes == {"VerifierFailed", "SilentError", "Unstable", "DeviceLost",
                "ClockDrop", "ResetFailed", "Blacklisted", "CrashOrRecovery"}

OtherOutcomes == {"Validated", "PowerBoundClockDrop", "QualificationInconclusive",
                  "PowerTelemetryInconclusive", "AbortedBySafetyGate"}

ObsOutcomes == BadOutcomes \cup OtherOutcomes

(* REQUIRED_QUALIFICATION_PATTERNS and the candidate-only gate.            *)
RequiredPatterns == {"Texture"}
GatePatterns == RequiredPatterns \cup {"Endurance"}

(* The crash-proximity margin: two physical bins of 6 mV.                  *)
CrashProximity == 12

IsBad(o) == o.outcome \in BadOutcomes
IsValidated(o) == o.outcome = "Validated"

-----------------------------------------------------------------------------
(* The log file.                                                           *)

(* A crash in the middle of a write leaves a torn tail without a newline:  *)
(* the next line is glued to it, and reading skips both.                   *)
EmptyLog == [obs |-> {}, torn |-> FALSE]

AppendObservation(log, o) ==
    [obs |-> IF log.torn THEN log.obs ELSE log.obs \cup {o}, torn |-> FALSE]

TearLine(log) == [log EXCEPT !.torn = TRUE]

ForGpu(obs, gpu) == {o \in obs : o.gpu = gpu}

ForTarget(obs, target) == {o \in obs : o.target = target}

-----------------------------------------------------------------------------
(* Which evidence counts.                                                  *)

IsCurrentDiscoveryEvidence(o) ==
    o.kind = "Discovery" /\ o.current /\ o.confirmed /\ o.clean

IsCurrentQualificationPass(o) ==
    /\ o.kind = "Qualification" /\ o.current /\ IsValidated(o) /\ o.clean
    /\ o.pass /\ o.pattern \in RequiredPatterns

IsCurrentApplyEvidence(o) ==
    o.kind = "ApplyQualification" /\ o.current /\ IsValidated(o) /\ o.clean /\ o.pass /\ o.pattern # "none"

IsCurrentApplyPass(o) == IsCurrentApplyEvidence(o) /\ o.pattern \in RequiredPatterns

-----------------------------------------------------------------------------
(* Boundaries of a target.                                                 *)

BadAnchors(obs, target) ==
    {o.anchor : o \in {x \in obs : x.target = target /\ x.kind # "ApplyQualification" /\ IsBad(x)}}

(* The highest voltage that failed.                                        *)
FirstBad(obs, target) == MaxOrNone(BadAnchors(obs, target))

AboveFailures(obs, target, mv) == FirstBad(obs, target) = None \/ mv > FirstBad(obs, target)

LastGood(obs, target) ==
    MinOrNone({o.anchor : o \in {x \in obs :
        x.target = target /\ IsValidated(x) /\ AboveFailures(obs, target, x.anchor)}})

LastDiscoveryGood(obs, target) ==
    MinOrNone({o.anchor : o \in {x \in obs :
        /\ x.target = target /\ IsValidated(x) /\ IsCurrentDiscoveryEvidence(x)
        /\ AboveFailures(obs, target, x.anchor)}})

(* Both ends of a consistent bracket: <<first bad, last good>>, or None.   *)
Bracket(obs, target) ==
    LET good == LastGood(obs, target)
        bad  == FirstBad(obs, target)
    IN IF good # None /\ bad # None /\ good > bad THEN <<bad, good>> ELSE <<None, None>>

IsKnownBad(obs, target, mv) == \E bad \in BadAnchors(obs, target) : bad >= mv

(* The writer's resume point: the deepest clean positive, whatever failed. *)
ValidatedBaseline(obs, target, gpu) ==
    MinOrNone({o.anchor : o \in {x \in obs :
        x.target = target /\ IsValidated(x) /\ x.clean /\ ~ x.lost /\ x.gpu = gpu}})

CrashFloor(obs, target) ==
    MaxOrNone({o.anchor : o \in {x \in obs :
        x.target = target /\ (x.lost \/ x.outcome = "DeviceLost")}})

-----------------------------------------------------------------------------
(* The frontier: one boundary per target.                                  *)

FrontierCandidates(obs, target) ==
    {o \in obs :
        /\ o.target = target /\ IsValidated(o) /\ IsCurrentDiscoveryEvidence(o)
        /\ AboveFailures(obs, target, o.anchor)
        /\ CrashFloor(obs, target) = None \/ o.anchor >= CrashFloor(obs, target) + CrashProximity}

FullyQualified(obs, target, mv) ==
    \A pattern \in RequiredPatterns : \E o \in obs :
        o.target = target /\ o.anchor = mv /\ IsCurrentQualificationPass(o) /\ o.pattern = pattern

FrontierAnchor(obs, target) ==
    MinOrNone({o.anchor : o \in FrontierCandidates(obs, target)})

QualifiedFrontierAnchor(obs, target) ==
    MinOrNone({o.anchor : o \in {x \in FrontierCandidates(obs, target) :
                                    FullyQualified(obs, target, x.anchor)}})

(* The entry the profile classifiers read, from the deepest observation.   *)
FrontierEntry(obs, target, best) ==
    [target |-> target, anchor |-> best.anchor, p99 |-> best.p99, p5 |-> best.p5,
     firstBad |-> FirstBad(obs, target), bracket |-> Bracket(obs, target),
     validations |-> {p \in RequiredPatterns : \E o \in obs :
                         o.target = target /\ o.anchor = best.anchor
                         /\ IsCurrentQualificationPass(o) /\ o.pattern = p}]

Targets(obs) == {o.target : o \in obs}

LearnedFrontier(obs, gpu) ==
    LET scoped == ForGpu(obs, gpu)
    IN {t \in Targets(scoped) : FrontierAnchor(scoped, t) # None}

QualifiedFrontier(obs, gpu) ==
    LET scoped == ForGpu(obs, gpu)
    IN {t \in Targets(scoped) : QualifiedFrontierAnchor(scoped, t) # None}

-----------------------------------------------------------------------------
(* Power at one Apply pair.                                                *)

(* The highest confirmed discovery p99 at a pair.                          *)
DiscoveryPowerAt(obs, target, mv, gpu) ==
    MaxOrNone({o.p99 : o \in {x \in obs :
        /\ x.target = target /\ x.anchor = mv /\ x.gpu = gpu
        /\ x.outcome \in {"Validated", "PowerBoundClockDrop"}
        /\ IsCurrentDiscoveryEvidence(x) /\ ~ x.thermal /\ x.p99 > 0}})

(* A slowdown flag disqualifies a reading only if the clock sagged.        *)
ReadingTrustworthy(o, target) == ~ o.thermal \/ o.p5 >= target

AtApplyPair(obs, target, mv, gpu) ==
    {o \in obs : o.target = target /\ o.anchor = mv /\ o.gpu = gpu /\ IsCurrentApplyEvidence(o)}

TrustedApply(obs, target, mv, gpu) ==
    {o \in AtApplyPair(obs, target, mv, gpu) : ReadingTrustworthy(o, target)}

(* One run's readings of a set of patterns, if it has them all.            *)
RunPower(readings, run, patterns) ==
    LET mine == {o \in readings : o.run = run /\ o.pattern \in patterns /\ o.p99 > 0}
    IN IF \A p \in patterns : \E o \in mine : o.pattern = p
       THEN MaxOrNone({o.p99 : o \in mine}) ELSE None

CurrentApplyPower(obs, run, target, mv, gpu) ==
    RunPower(TrustedApply(obs, target, mv, gpu), run, RequiredPatterns)

CompleteGatePower(obs, run, target, mv, gpu) ==
    RunPower(TrustedApply(obs, target, mv, gpu), run, GatePatterns)

HighestApplyPower(obs, target, mv, gpu) ==
    MaxOrNone({CurrentApplyPower(obs, o.run, target, mv, gpu) : o \in obs})

HighestGatePower(obs, target, mv, gpu) ==
    MaxOrNone({CompleteGatePower(obs, o.run, target, mv, gpu) : o \in obs})

(* The highest p95 clock of the required set; a missing one refuses all.   *)
CurrentApplyClock(obs, run, target, mv, gpu) ==
    LET mine == {o \in TrustedApply(obs, target, mv, gpu) : o.run = run /\ o.pattern \in RequiredPatterns}
    IN IF (\A o \in mine : o.p95 > 0) /\ (\A p \in RequiredPatterns : \E o \in mine : o.pattern = p)
       THEN MaxOrNone({o.p95 : o \in mine}) ELSE None

HasEndurance(obs, run, target, mv, gpu) ==
    \E o \in AtApplyPair(obs, target, mv, gpu) : o.run = run /\ o.pattern = "Endurance"

(* The worst power of this run's passes at the pair: p99 or peak.          *)
WorstApplyPower(obs, run, target, mv, gpu) ==
    LET mine == {o \in AtApplyPair(obs, target, mv, gpu) : o.run = run}
    IN MaxOrNone({x \in {o.p99 : o \in mine} \cup {o.peak : o \in mine} : x > 0})
==============================================================================
