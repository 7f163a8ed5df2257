------------------------------ MODULE VfTable -------------------------------
(***************************************************************************)
(* The pure half of V/F control: what is read off a voltage/frequency      *)
(* table, which offsets are planned for it, and how a written table is     *)
(* judged (gpu-nvapi lib.rs, gpu_undervolt.rs 325-690, gpu_verify.rs,      *)
(* gpu_power_sweep.rs 5866-6030).  A table is a function from the voltage  *)
(* of a bin (mV) to its clock (MHz); the index of a bin orders as its      *)
(* voltage does.                                                           *)
(***************************************************************************)
EXTENDS Integers, FiniteSets, FiniteSetsExt

CONSTANTS SaneBins,     \* is_f2_sane_point, is_sane_core_point: voltages of the graphics core
          ClusterGap,   \* CORE_CLUSTER_GAP_MV
          ClusterMin,   \* MIN_CORE_CLUSTER_POINTS
          None          \* no value: a refused plan, a failed reading

PosOffsetMax  == 30     \* POS_OFFSET_MAX_MHZ
PosOffsetStep == 15     \* POS_OFFSET_STEP_MAX_MHZ
PriorMax      == 250    \* F2_MANUAL_PRIOR_MAX_POSITIVE_OFFSET_MHZ
VerifyTol     == 15     \* F2_VERIFY_TOL_MHZ
MatchTol      == 5      \* APPLIED_MATCH_TOL_MHZ
LoadTol       == 30     \* LOAD_CLOCK_TOL_MHZ
VoltSane      == 500 .. 1250  \* VOLT_SANE_MIN_MV, VOLT_SANE_MAX_MV

-----------------------------------------------------------------------------
(* Reading a table.                                                        *)

Sane(table) == [b \in DOMAIN table \cap SaneBins |-> table[b]]

(* Two bins belong to one run when no gap between neighbours is too wide.  *)
SameRun(bins, a, b) ==
    \A x \in bins : Min({a, b}) <= x /\ x < Max({a, b})
                      => \E y \in bins : x < y /\ y <= x + ClusterGap

(* select_core_cluster: the largest run, the lowest of equally large ones; *)
(* none if it is too small.                                                *)
CoreCluster(table) ==
    LET bins    == DOMAIN Sane(table)
        runs    == {{b \in bins : SameRun(bins, a, b)} : a \in bins}
        largest == {r \in runs : \A q \in runs : Cardinality(q) <= Cardinality(r)}
        chosen  == CHOOSE r \in largest : \A q \in largest : Min(r) <= Min(q)
    IN IF bins # {} /\ Cardinality(chosen) >= ClusterMin THEN chosen ELSE {}

(* derive_core_seed: top clock, top voltage and bins of the core cluster.  *)
SeedFrom(table) ==
    LET bins == CoreCluster(table)
    IN IF bins = {} THEN None
       ELSE [boost |-> Max({table[b] : b \in bins}), start |-> Max(bins), bins |-> bins]

(* nearest_vf_bin_at_or_above                                              *)
NearestBin(bins, mv) ==
    LET above == {b \in bins : b >= mv}
    IN IF bins = {} THEN None ELSE IF above # {} THEN Min(above) ELSE Max(bins)

-----------------------------------------------------------------------------
(* Planning positive offsets.  A plan is an offset for every bin of the    *)
(* table; a refused plan is None.                                          *)

Conservative(ceiling) == [most |-> PosOffsetMax, step |-> PosOffsetStep, ceiling |-> ceiling]
ManualPrior(ceiling)  == [most |-> PriorMax, step |-> PriorMax, ceiling |-> ceiling]

HardwareFrontier(table, ceiling) ==
    LET delta == Max({1, ceiling - Min({table[b] : b \in DOMAIN table})})
    IN [most |-> delta, step |-> delta, ceiling |-> ceiling]

Raise(table, bin, target) == target - table[bin]

(* plan_bounded_positive_offset; the floor is the lowest sane bin.         *)
RaiseAllowed(table, bin, target, prev, limits) ==
    /\ bin \in DOMAIN table
    /\ Raise(table, bin, target) \in 1 .. limits.most
    /\ Raise(table, bin, target) - prev <= limits.step
    /\ target <= limits.ceiling

SimplePlan(table, bin, target, prev, limits) ==
    IF RaiseAllowed(table, bin, target, prev, limits)
    THEN [b \in {bin} |-> Raise(table, bin, target)] ELSE None

(* plan_bounded_anchored_positive_offset: raise the anchor, cap what is    *)
(* above it, leave what is below it.                                       *)
AnchoredPlan(table, bin, target, prev, limits) ==
    IF /\ RaiseAllowed(table, bin, target, prev, limits)
       /\ \A b \in DOMAIN table : b < bin => table[b] <= target
    THEN [b \in DOMAIN table |->
             IF b = bin THEN Raise(table, b, target)
             ELSE IF b > bin THEN Min({0, Raise(table, b, target)}) ELSE 0]
    ELSE None

Plan(anchored, table, bin, target, prev, limits) ==
    IF anchored THEN AnchoredPlan(table, bin, target, prev, limits)
    ELSE SimplePlan(table, bin, target, prev, limits)

(* plan_undervolt_probe and plan_anchored_undervolt_descent: bins that     *)
(* need a raise, from the top down, until one is refused or the budget of  *)
(* steps is used; a step is counted from the bin tried before.             *)
Descent(anchored, table, target, start, limits, budget) ==
    LET below   == {b \in DOMAIN table : b <= start /\ table[b] < target}
        Tried(b) == {c \in below : c >= b}
        Prev(b)  == IF Tried(b) = {b} THEN 0 ELSE Raise(table, Min(Tried(b) \ {b}), target)
        Fits(b)  == Plan(anchored, table, b, target, Prev(b), limits) # None
    IN {b \in below : Cardinality(Tried(b)) <= budget /\ \A c \in Tried(b) : Fits(c)}

(* plan_undervolt_probe: one bin at a time, nothing capped.                *)
SimpleDescent(table, target, start, limits, budget) == Descent(FALSE, table, target, start, limits, budget)

(* chained_prev_offset                                                     *)
ChainedPrev(table, target, candidates, bin, baseline) ==
    LET before == {c \in candidates : c > bin}
    IN IF before = {} THEN baseline ELSE Raise(table, Min(before), target)

(* select_anchor_bin: the highest bin the raise is smallest at.            *)
AnchorBin(table, target, start) ==
    LET below == {b \in DOMAIN table : b <= start /\ table[b] < target}
    IN IF below = {} THEN None ELSE Max(below)

(* plan_anchored_undervolt: the one step from a start; None if refused.    *)
StepPlan(table, target, start, limits) ==
    LET a == AnchorBin(table, target, start)
    IN IF a = None THEN None ELSE AnchoredPlan(table, a, target, 0, limits)

(* plan_manual_prior_undervolt: the same, within the wider limits.         *)
PriorPlan(table, target, start, boost) == StepPlan(table, target, start, ManualPrior(boost))

(* select_exact_apply_anchor_bin                                           *)
ExactAnchor(table, target, anchor) ==
    IF anchor \in DOMAIN table /\ table[anchor] < target THEN anchor ELSE None

(* resolve_manual_diagnostic_anchor: the nearest bin, within 8 mV.         *)
ManualAnchor(table, target, requested) ==
    LET below   == {b \in DOMAIN table : table[b] < target}
        Away(b) == Max({b - requested, requested - b})
        nearest == CHOOSE b \in below : \A c \in below : Away(b) < Away(c) \/ (Away(b) = Away(c) /\ b <= c)
    IN IF below # {} /\ Away(nearest) <= 8 THEN nearest ELSE None

-----------------------------------------------------------------------------
(* Planning ceilings.                                                      *)

(* plan_vf_ceiling: offsets from the curve as it reads now.                *)
CeilingPlan(live, ceiling, target) ==
    [b \in DOMAIN live |-> IF b >= ceiling THEN target - live[b] ELSE 0]

(* plan_vf_ceiling_monotone: offsets from the static table, never upwards. *)
MonotonePlan(table, ceiling, target) ==
    [b \in DOMAIN table |-> IF b >= ceiling THEN Min({0, target - table[b]}) ELSE 0]

-----------------------------------------------------------------------------
(* Judging what was written.  A reading that failed is None.               *)

(* verify_positive_offset without a live clock                             *)
RaiseVerdict(intended, observed) ==
    IF observed = None THEN "Unverifiable"
    ELSE IF observed - intended > VerifyTol THEN "OverRaise"
    ELSE IF intended - observed > VerifyTol THEN "RaiseIncomplete"
    ELSE "RaiseVerified"

(* Variant: only the anchor is read back.                                  *)
AnchoredVerdict_anchor(table, bin, target, observed) == RaiseVerdict(Raise(table, bin, target), observed[bin])

(* verify_anchored_positive_offset, and the narrower verdict it is mapped  *)
(* to by RealF2Ops::verify.                                                *)
AnchoredVerdict(table, bin, target, observed) ==
    LET others == DOMAIN table \ {bin}
        anchor == RaiseVerdict(Raise(table, bin, target), observed[bin])
    IN IF anchor # "RaiseVerified" THEN anchor
       ELSE IF \E b \in others : observed[b] = None THEN "Unverifiable"
       ELSE IF \E b \in others : observed[b] > VerifyTol \/ table[b] + observed[b] - target > VerifyTol
            THEN "OverRaise"
       ELSE "RaiseVerified"

(* At least nine tenths, as classify_curve and eval_ceiling_evidence ask.  *)
NineTenths(some, all) == 10 * some >= 9 * all

(* classify_curve: offsets are present, whatever their value.              *)
CurveVerdict(expected, observed) ==
    LET present == {b \in expected : observed[b] \notin {None, 0}}
    IN IF \A b \in expected : observed[b] = None THEN "VerificationFailed"
       ELSE IF present # {} /\ NineTenths(Cardinality(present), Cardinality(expected))
            THEN "VerifiedCurve" ELSE "LiveMismatch"

(* is_stock_equivalent_ceiling                                             *)
StockEquivalent(live, expected, observed, target, top) ==
    /\ top # None /\ target <= top /\ top - target <= VerifyTol /\ expected # {}
    /\ \A b \in expected :
          /\ observed[b] # None
          /\ live[b] <= target /\ target - live[b] <= VerifyTol
          /\ (observed[b] = 0 => live[b] = target)

(* eval_no_down_cap and its use in eval_ceiling_evidence                   *)
NoDownCapNeeded(table, live, expected, observed, target) ==
    LET fine == {b \in expected : observed[b] \notin {None, 0} \/ (observed[b] = 0 /\ table[b] <= target)}
    IN /\ expected \subseteq DOMAIN table
       /\ \A b \in expected : live[b] <= target
       /\ NineTenths(Cardinality(fine), Cardinality(expected))

(* The verdict of a probe (real_probe_step, validate_pick_at_ceiling).     *)
CeilingVerified(table, live, ceiling, target, observed, top) ==
    LET expected == {b \in DOMAIN live : b >= ceiling}
        curve    == CurveVerdict(expected, observed)
    IN \/ curve = "VerifiedCurve"
       \/ /\ curve = "LiveMismatch"
          /\ \/ StockEquivalent(live, expected, observed, target, top)
             \/ NoDownCapNeeded(table, live, expected, observed, target)

-----------------------------------------------------------------------------
(* What a status request says of the profile on record.                    *)

(* find_applied_point: the point of the named slot, else the only one near *)
(* the clock; two of them are none, and so is a missing result.            *)
AppliedPoint(result, target) ==
    LET Near(p) == p.clock \in target - MatchTol .. target + MatchTol
        near    == {n \in DOMAIN result.points : Near(result.points[n])}
    IN IF result = None THEN None
       ELSE IF result.slot # None /\ Near(result.slot) THEN result.slot
       ELSE IF Cardinality(near) = 1 THEN result.points[Min(near)] ELSE None

(* Power and voltage readings that can be meant.                           *)
PowerPlausible(p) == p.power > 0 /\ p.peak >= p.power
TelemetrySuffices(p) ==
    p.quality \in {"High", "Medium"} /\ p.maxVoltage \in VoltSane \cup {None} /\ p.p5 # None

(* classify_load: what the dwell of the point says of a verified curve.    *)
LoadVerdict(curve, point, target) ==
    IF curve # "VerifiedCurve" \/ point = None THEN "NotEvaluated"
    ELSE IF ~ point.stable THEN "LoadMismatch"
    ELSE IF ~ PowerPlausible(point) THEN "LoadVerificationFailed"
    ELSE IF ~ TelemetrySuffices(point) THEN "TelemetryInsufficient"
    ELSE IF point.p5 + LoadTol < target THEN "LoadMismatch" ELSE "VerifiedUnderLoad"

(* effective_status: the load can raise the verdict and never lowers it.   *)
EffectiveStatus(curve, load) ==
    IF curve = "VerifiedCurve" /\ load = "VerifiedUnderLoad" THEN "VerifiedUnderLoad" ELSE curve
=============================================================================
