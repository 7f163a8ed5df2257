----------------------------- MODULE PowerEvidence -----------------------------
(***************************************************************************)
(* What the search concludes from the dwells of one candidate              *)
(* (crates/service/src/gpu_undervolt.rs): the verdict of a dwell, the      *)
(* consensus on its p99 power, the power cap, the next step.               *)
(*                                                                         *)
(* A report has outcome, p99, p5, capped (power-cap flag in half of the    *)
(* samples), thermal, clean (reset and boot flag cleared) and confirmed.   *)
(* Power in watts, clocks in MHz; None is a value that is not available.   *)
(***************************************************************************)
EXTENDS F2Evidence, Sequences, SequencesExt

HardFailures == {"DeviceLost", "ResetFailed", "ArmFailed", "ApplyFailed", "VerifyFailed",
                 "SilentError", "Unstable"}

(* What a dwell can end with, and what a candidate can.                    *)
DwellOutcomes == {"Validated", "SilentError", "Unstable", "DeviceLost", "ClockDrop", "Inconclusive"}

Outcomes == HardFailures \cup DwellOutcomes \cup {"PowerBoundClockDrop"}

Reports(rs) == {rs[n] : n \in DOMAIN rs}

-----------------------------------------------------------------------------
(* The verdict of a dwell.                                                 *)

ClockCeilingTolerance == 15
VoltageSamples == 3

(* Conditions in the order they are asked; the first that holds decides.   *)
ClassifyDwell(s, target, purpose) ==
    LET qualifies == purpose # "PowerDiscovery"
        sagged    == s.p5 < target
    IN CASE s.cancelled -> "Inconclusive"
         [] ~ s.cancelled /\ s.crashed -> "DeviceLost"
         [] ~ s.cancelled /\ ~ s.crashed /\ s.silentError -> "SilentError"
         [] ~ s.cancelled /\ ~ s.crashed /\ ~ s.silentError /\ ~ s.stable -> "Unstable"
         [] OTHER ->
              IF \/ s.p95 > target + ClockCeilingTolerance
                 \/ ~ qualifies /\ s.thermal
                 \/ purpose = "Apply" /\ s.pattern # "TransitionShock" /\ s.thermal /\ sagged
                 \/ ~ qualifies /\ s.p99 = None
                 \/ qualifies /\ s.coverage # "Pass"
              THEN "Inconclusive"
              ELSE IF qualifies /\ s.stalled THEN "Unstable"
              ELSE IF ~ qualifies /\ sagged THEN "ClockDrop"
              ELSE "Stable"

(* A stable dwell counts only if the rail stayed at or below the anchor.   *)
EnforceVoltageAuthority(verdict, samples, maxMv, anchor) ==
    IF verdict = "Stable" /\ (samples < VoltageSamples \/ maxMv = None \/ maxMv > anchor)
    THEN "Inconclusive" ELSE verdict

-----------------------------------------------------------------------------
(* The power cap.                                                          *)

(* At 99 % of the limit or more: near; at 98 % or less: off; between the   *)
(* two the previous state stays, near if there is none.                    *)
CapState(p99, limit, capped, previous) ==
    IF p99 <= 0 THEN "Ambiguous"
    ELSE IF limit > 0
         THEN IF 100 * p99 >= 99 * limit THEN "NearCap"
              ELSE IF 100 * p99 <= 98 * limit THEN "OffCap"
              ELSE IF previous \in {"NearCap", "OffCap"} THEN previous ELSE "NearCap"
         ELSE IF capped THEN "NearCap" ELSE "OffCap"

-----------------------------------------------------------------------------
(* Consensus on p99.                                                       *)

ContentUsable(r) == r.outcome \in {"Validated", "ClockDrop"} /\ ~ r.thermal /\ r.p99 > 0
Usable(r) == ContentUsable(r) /\ r.clean

Abs(x) == IF x < 0 THEN -x ELSE x

(* Within 8 W or 5 %, whichever is more.                                   *)
PairConsistent(a, b) == Abs(a - b) <= 8 \/ 20 * Abs(a - b) <= Max({a, b})

(* An equal clock at a power that does not fit the previous bin's.         *)
RequiresRecheck(previous, r) ==
    /\ ContentUsable(r)
    /\ previous # <<>>
    /\ Abs(previous[2] - r.p5) <= 15
    /\ ~ PairConsistent(previous[1], r.p99)

UsableIn(rs) == {n \in DOMAIN rs : Usable(rs[n])}

HasConsistentPair(rs) ==
    \E m, n \in UsableIn(rs) : m < n /\ PairConsistent(rs[m].p99, rs[n].p99)

RecheckResolved(rs, limit, previous) ==
    LET power  == MaxOrNone({rs[n].p99 : n \in UsableIn(rs)})
        capped == \E n \in UsableIn(rs) : rs[n].capped
    IN HasConsistentPair(rs) /\ CapState(power, limit, capped, previous) # "Ambiguous"

HasHardFailure(rs) == \E r \in Reports(rs) : r.outcome \in HardFailures

Consensus(rs, rechecked) ==
    /\ ~ HasHardFailure(rs)
    /\ IF rechecked THEN HasConsistentPair(rs) ELSE \E n \in DOMAIN rs : UsableIn(rs) = {n}

(* The highest p99 of the group, or None; the reports, marked.             *)
ConservativeP99(rs, rechecked) ==
    IF Consensus(rs, rechecked) THEN MaxOrNone({rs[n].p99 : n \in UsableIn(rs)}) ELSE None

ConfirmAttempts(rs, rechecked) ==
    [n \in DOMAIN rs |->
        IF n \notin UsableIn(rs) THEN rs[n]
        ELSE IF Consensus(rs, rechecked) THEN [rs[n] EXCEPT !.confirmed = TRUE]
        ELSE [rs[n] EXCEPT !.outcome = "Inconclusive", !.confirmed = FALSE]]

(* One report for the group: the first hard failure, else no consensus,    *)
(* else any clock drop, else stable; the worst value of each measure.      *)
Aggregate(rs, p99) ==
    [outcome   |-> IF HasHardFailure(rs)
                   THEN rs[Min({n \in DOMAIN rs : rs[n].outcome \in HardFailures})].outcome
                   ELSE IF p99 = None THEN "Inconclusive"
                   ELSE IF \E r \in Reports(rs) : r.outcome = "ClockDrop" THEN "ClockDrop"
                   ELSE "Validated",
     p99       |-> p99,
     p5        |-> MinOrNone({r.p5 : r \in Reports(rs)} \ {None}),
     capped    |-> \E r \in Reports(rs) : r.capped,
     thermal   |-> \E r \in Reports(rs) : r.thermal,
     clean     |-> rs[1].clean,
     confirmed |-> p99 # None]

PowerBound(outcome, nearCap) ==
    IF outcome = "ClockDrop" /\ nearCap THEN "PowerBoundClockDrop" ELSE outcome

-----------------------------------------------------------------------------
(* What to do next.                                                        *)

Decision(outcome, hadSustainable, nearCap) ==
    CASE outcome = "Validated" -> IF hadSustainable THEN "ContinueVoltage" ELSE "MarkSustainable"
      [] outcome = "PowerBoundClockDrop" \/ (outcome = "ClockDrop" /\ nearCap) -> "ContinueVoltage"
      [] outcome = "ClockDrop" /\ ~ nearCap ->
            IF hadSustainable THEN "BoundaryFound" ELSE "NextClockUnsustainable"
      [] outcome \in {"SilentError", "Unstable"} ->
            IF hadSustainable THEN "BoundaryFound" ELSE "NextClockAfterFailure"
      [] outcome = "Inconclusive" -> "NextClockAfterFailure"
      [] outcome \in HardFailures \ {"SilentError", "Unstable"} -> "AbortForge"

ShouldQualify(outcome, nearCap, passes) == outcome = "Validated" /\ ~ nearCap /\ passes > 0

CleanFailure(decision, clean) ==
    clean /\ decision \in {"NextClockUnsustainable", "BoundaryFound", "NextClockAfterFailure"}

(* Near the cap the search may jump, up to 4 bins and 25 mV.  (The offset  *)
(* step the code also asks for equals the absolute cap in a Forge: every   *)
(* planned candidate is within it.)  Candidates are indexed from 1.        *)
NextIndex(anchors, i, target, p5) ==
    LET deficit == IF p5 = None \/ p5 >= target THEN 0 ELSE target - p5
        stride  == IF deficit >= 90 THEN 4 ELSE IF deficit >= 45 THEN 2 ELSE 1
        legal   == {n \in DOMAIN anchors \cap ((i + 1) .. (i + stride)) : anchors[i] - anchors[n] <= 25}
    IN IF legal = {} THEN i + 1 ELSE Max(legal)

(* Variant: off by one, the safe bin itself is a midpoint.                 *)
Midpoint_Same(safe, failed) == IF failed - safe > 0 THEN safe + (failed - safe) \div 2 ELSE None

(* Half way between a safe and a failed bin, if there is a bin between.    *)
Midpoint(safe, failed) == IF failed - safe > 1 THEN safe + (failed - safe) \div 2 ELSE None

ConservativeStart(powerBound, validated) ==
    IF powerBound # {} THEN Min(powerBound) ELSE MaxOrNone(validated)

(* The next clock starts one planned bin above this clock's best.          *)
OptimizedStart(planned, lastGood, conservative) ==
    IF lastGood = None THEN conservative
    ELSE LET above == {mv \in planned : mv > lastGood}
         IN IF above # {} THEN Min(above) ELSE lastGood

-----------------------------------------------------------------------------
(* Qualification.                                                          *)

RetryBudget == 2
DeterministicReasons == {"boost_edge_power_bound", "phase_contrast_low", "field_secondary"}

RetryInconclusive(reason, retries) == reason \notin DeterministicReasons /\ retries < RetryBudget

Median(history) ==
    LET s == SortSeq(history, <)
        m == Len(s) \div 2
    IN IF Len(s) % 2 = 0 THEN (s[m] + s[m + 1]) \div 2 ELSE s[m + 1]

MarginCollapsed(p5, history, target) ==
    p5 < target \/ (Len(history) >= 2 /\ p5 + 30 < Median(history))

(* Anchors this run left inconclusive, never passed.                       *)
Qualifications(obs, run) == {o \in obs : o.run = run /\ o.kind = "Qualification"}

InconclusiveOnly(obs, run) ==
    {o.anchor : o \in {x \in Qualifications(obs, run) : x.outcome = "QualificationInconclusive"}}
        \ {o.anchor : o \in {x \in Qualifications(obs, run) : IsCurrentQualificationPass(x)}}

PairExhausted(obs, run, mv) == mv \in InconclusiveOnly(obs, run)

(* Variant: a missing arm of the match.                                    *)
MapOutcome_Raw(outcome, kind) ==
    CASE outcome = "Inconclusive" ->
            outcome
      [] outcome \in {"ArmFailed", "ApplyFailed"} -> "AbortedBySafetyGate"
      [] outcome = "VerifyFailed" -> "VerifierFailed"
      [] OTHER -> outcome

(* How a report of either kind is recorded (gpu_f2_sweep.rs).              *)
MapOutcome(outcome, kind) ==
    CASE outcome = "Inconclusive" ->
            IF kind = "Discovery" THEN "PowerTelemetryInconclusive" ELSE "QualificationInconclusive"
      [] outcome \in {"ArmFailed", "ApplyFailed"} -> "AbortedBySafetyGate"
      [] outcome = "VerifyFailed" -> "VerifierFailed"
      [] OTHER -> outcome
==============================================================================
