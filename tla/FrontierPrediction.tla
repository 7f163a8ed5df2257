-------------------------- MODULE FrontierPrediction --------------------------
(***************************************************************************)
(* Where the search of a clock starts: a guess from the boundary on record *)
(* and the boundaries of the clocks before it (f2_predict_frontier_start   *)
(* and f2_isotonic_trend_prediction in gpu_power_sweep.rs).  The guess     *)
(* orients the descent; it is never evidence.                              *)
(*                                                                         *)
(* A boundary is <<clock, voltage>>, in the order of the search.  Means of *)
(* up to four voltages are kept exact by a scale of 12, slopes as          *)
(* fractions <<numerator, denominator>>.                                   *)
(***************************************************************************)
EXTENDS PowerEvidence

(* F2_FRONTIER_PREDICTION_CONTRADICTION_MV                                 *)
ContradictionMv == 25

TrendWindow == 4
Scale == 12

Recent(boundaries) ==
    SubSeq(boundaries, Max({1, Len(boundaries) - TrendWindow + 1}), Len(boundaries))

ScaledMean(s, a, b) == (Scale * SumFunctionOnSet(s, a .. b)) \div (b - a + 1)

(* The closest sequence that never rises: what pooling adjacent violators  *)
(* computes, written as its min-max formula.                               *)
Projected(s) ==
    [i \in DOMAIN s |-> Min({Max({ScaledMean(s, a, b) : b \in i .. Len(s)}) : a \in 1 .. i})]

(* Fractions with positive denominators.                                   *)
Flatter(p, q) == p[1] * q[2] < q[1] * p[2]

(* The fall of the projection per MHz from one clock to the next; the same *)
(* clock twice has no slope.                                               *)
Slopes(recent, projected) ==
    LET falls == {i \in 2 .. Len(recent) : recent[i - 1][1] > recent[i][1]}
    IN [n \in 1 .. Cardinality(falls) |->
           LET i == SetToSortSeq(falls, <)[n]
           IN <<projected[i - 1] - projected[i], recent[i - 1][1] - recent[i][1]>>]

(* The last projected boundary, lowered by the middle slope, rounded.      *)
TrendPrediction(boundaries, target) ==
    LET recent    == Recent(boundaries)
        projected == Projected([i \in DOMAIN recent |-> recent[i][2]])
        slopes    == SortSeq(Slopes(recent, projected), Flatter)
        slope     == slopes[Len(slopes) \div 2 + 1]
        drop      == Max({0, Last(recent)[1] - target})
        below     == Max({0, Last(projected) * slope[2] - slope[1] * drop})
    IN IF Len(recent) < 2 \/ slopes = <<>> THEN None
       ELSE (2 * below + Scale * slope[2]) \div (2 * Scale * slope[2])

(* Suggestions that contradict each other suggest nothing.  Without one on *)
(* record the trend decides, and without a trend the last boundary is the  *)
(* only suggestion.                                                        *)
PredictedBoundary(historical, boundaries, target) ==
    LET trend       == TrendPrediction(boundaries, target)
        previous    == IF boundaries = <<>> THEN None ELSE Last(boundaries)[2]
        suggestions == {historical, previous, trend} \ {None}
    IN IF suggestions = {} \/ Max(suggestions) - Min(suggestions) > ContradictionMv THEN None
       ELSE IF historical # None THEN historical
       ELSE IF trend # None THEN trend ELSE previous

(* One planned bin above the predicted boundary, else where the clock      *)
(* before it left off.                                                     *)
PredictedStart(planned, boundary, inherited) ==
    LET above == {mv \in planned : mv > boundary}
    IN IF boundary = None \/ above = {} THEN inherited ELSE Min(above)
==============================================================================
