---------------------------- MODULE FrontierScan ----------------------------
(***************************************************************************)
(* The supervised frontier run of the command line, `build-frontier'       *)
(* (gpu_power_sweep.rs 3700-3880, 4150-4270, 4575-5860, 6178-6640).  Clock *)
(* after clock, from the hardest down, it lowers a voltage ceiling bin by  *)
(* bin and loads the card at each; an easier clock may start from the      *)
(* bracket of the one before it, and when every point turns out to be      *)
(* bound by the power cap, a second phase takes one clock deeper.          *)
(*                                                                         *)
(* A bin is its voltage.  How a ceiling is written and judged is module    *)
(* VfControl; here a probe may fail to verify, may be unstable and may     *)
(* lose the device.                                                        *)
(***************************************************************************)
EXTENDS Integers, Sequences, FiniteSets, FiniteSetsExt

CONSTANTS Clocks,      \* candidate clocks, hardest first
          CoreBins,    \* bins of the core cluster
          Margin,      \* FRONTIER_WARM_START_MARGIN_STEPS * FRONTIER_VOLT_STEP_MV
          Options,     \* FrontierLimits an operator may give
          UsefulPoints, TailBins,   \* PHASE_B_MIN_USEFUL_POINTS, PHASE_B_POST_KNEE_TAIL_BINS
          MaxKills,    \* reboots and killed processes
          Unset

ASSUME FrontierAssumption ==
    /\ Clocks \in Seq(Nat)
    /\ \A m, n \in DOMAIN Clocks : m < n => Clocks[m] > Clocks[n]
    /\ CoreBins \subseteq Nat /\ IsFiniteSet(CoreBins) /\ CoreBins # {}
    /\ Margin \in Nat /\ MaxKills \in Nat
    /\ Unset \notin Int
    /\ Options \subseteq
          [targets : Nat \cup {Unset}, probes : Nat \cup {Unset}, perTarget : Nat \cup {Unset},
           cap : Nat \cup {Unset}, warm : BOOLEAN, bind : BOOLEAN, knee : Nat \cup {Unset}]

VARIABLES limits,      \* the options of this run
          scan,        \* where the run is
          cur,         \* the descent under way
          prev,        \* the bracket of the clock before
          points,      \* frontier points, in the order they were kept
          used,        \* probes spent of the budget
          abort,       \* a dwell has lost the device
          flag,        \* pair the boot flag is armed for
          ceiling,     \* ceiling on the card
          runs,        \* every load: clock, bin, how it ended
          kills
fvars == <<limits, scan, cur, prev, points, used, abort, flag, ceiling, runs, kills>>

(* Share of a dwell spent at the power cap: at POWER_BOUND_FRAC or above,  *)
(* between the two thresholds, at BIND_CAP_FRAC or below.                  *)
CapShares == {"bound", "near", "free"}

-----------------------------------------------------------------------------
(* What is planned from the limits.                                        *)

Floor == Min(CoreBins)

(* validate_limits *)
LimitsValid(l) ==
    /\ 0 \notin {l.targets, l.probes, l.perTarget, l.knee}
    /\ l.cap # Unset => l.cap > Floor

(* apply_frontier_limits, candidate_clocks, derive_descent *)
Targets(l) == IF l.targets = Unset THEN Clocks ELSE SubSeq(Clocks, 1, Min({l.targets, Len(Clocks)}))
Descent(l) == {b \in CoreBins : l.cap = Unset \/ b <= l.cap}
CapBin     == Max(Descent(limits))

-----------------------------------------------------------------------------
(* Brackets.                                                               *)

HardFailed(b) == b.stop \in {"HardFailure", "Aborted"}

(* warm_start_mv *)
WarmStart ==
    IF limits.warm /\ prev # Unset /\ ~ HardFailed(prev) /\ prev.lowest # Unset
    THEN Min({prev.lowest + Margin, CapBin}) ELSE CapBin

(* The start is snapped up to a real bin.                                  *)
Snap(mv) == LET above == {b \in Descent(limits) : b >= mv}
            IN IF above # {} THEN Min(above) ELSE CapBin

NewDescent(clock, start) ==
    [clock |-> clock, at |-> Snap(start), first |-> Snap(start), warm |-> start < CapBin,
     lowest |-> Unset, share |-> Unset, stop |-> Unset, probes |-> 0, useful |-> 0, tail |-> 0]

IsUseful(p) == p.share # "bound"

(* frontier_power_bound_collapse *)
Useful(ps)   == {i \in DOMAIN ps : IsUseful(ps[i])}
Collapsed(ps) == Len(ps) > Cardinality(Useful(ps)) /\ Cardinality(Useful(ps)) < 2

(* detect_plateau_clock: there are two bound points at least; the median   *)
(* of their measured clocks is some clock.  select_phase_b_target: the     *)
(* lowest candidate at or above it, or else the nearest.                   *)
HasPlateau(ps) == Len(ps) - Cardinality(Useful(ps)) >= 2
FocusTargets   == {Targets(limits)[i] : i \in DOMAIN Targets(limits)}

(* Variant: the deepest bin of any clock.                                  *)
Deepest_any(clock) == IF points = <<>> THEN Unset ELSE Min({points[i].bin : i \in DOMAIN points})

(* phase_a_deepest_bin, phase_b_start_below *)
Deepest(clock) ==
    LET kept == {points[i].bin : i \in {j \in DOMAIN points : points[j].clock = clock}}
    IN IF kept = {} THEN Unset ELSE Min(kept)

StartBelow(bin) ==
    LET below == {b \in Descent(limits) : b < bin}
    IN IF below = {} THEN Unset ELSE Max(below)

-----------------------------------------------------------------------------
Init ==
    /\ limits \in {l \in Options : LimitsValid(l)}
    /\ scan = [phase |-> "A", step |-> "next", i |-> 0]
    /\ cur = Unset /\ prev = Unset
    /\ points = <<>> /\ used = 0 /\ abort = FALSE
    /\ flag = Unset /\ ceiling = Unset
    /\ runs = {} /\ kills = 0

At(step)  == scan.step = step
Go(step)  == scan' = [scan EXCEPT !.step = step]
Stops(why) == cur' = [cur EXCEPT !.stop = why] /\ Go("stopped")

Untouched == UNCHANGED <<limits, prev, points, kills>>
NoHardware == UNCHANGED <<abort, flag, ceiling, runs>>

(* run_target_descents: the next clock, from the cap or from the bracket   *)
BeginClock ==
    /\ At("next") /\ scan.i < Len(Targets(limits))
    /\ scan' = [scan EXCEPT !.step = "probe", !.i = @ + 1]
    /\ cur' = NewDescent(Targets(limits)[scan.i + 1], WarmStart)
    /\ UNCHANGED used /\ Untouched /\ NoHardware

DepthOf      == IF scan.phase = "A" THEN limits.perTarget ELSE limits.knee
DepthReached == DepthOf # Unset /\ cur.probes >= DepthOf

(* The head of the loop: the floor, the depth bound, the budget, the abort *)
(* and only then the hardware.  Every call of the probe spends budget.     *)
Bounded ==
    /\ At("probe")
    /\ \/ /\ cur.at = Unset
          /\ Stops("CleanFloor") /\ UNCHANGED used
       \/ /\ cur.at # Unset /\ DepthReached
          /\ Stops("PerTargetCap") /\ UNCHANGED used
    /\ Untouched /\ NoHardware

MayProbe == At("probe") /\ cur.at # Unset /\ ~ DepthReached

(* Variant: the budget is one probe too many.                              *)
Drained_late == limits.probes # Unset /\ used > limits.probes

Drained == limits.probes # Unset /\ used >= limits.probes

Spend == used' = IF limits.probes = Unset THEN used ELSE used + 1

DrainedProbe ==
    /\ MayProbe /\ Drained
    /\ Spend /\ Stops("BudgetExhausted")
    /\ Untouched /\ NoHardware

AbortedProbe ==
    /\ MayProbe /\ ~ Drained /\ abort
    /\ Spend /\ Stops("Aborted")
    /\ Untouched /\ NoHardware

Pair == [clock |-> cur.clock, bin |-> cur.at]

(* Variant: the abort of another clock is not looked at.                   *)
Probe_abort ==
    /\ MayProbe /\ ~ Drained
    /\ Spend
    /\ flag' = Pair
    /\ cur' = [cur EXCEPT !.probes = @ + 1]
    /\ Go("write")
    /\ Untouched /\ UNCHANGED <<abort, ceiling, runs>>

Probe ==
    /\ MayProbe /\ ~ Drained /\ ~ abort
    /\ Spend
    /\ flag' = Pair
    /\ cur' = [cur EXCEPT !.probes = @ + 1]
    /\ Go("write")
    /\ Untouched /\ UNCHANGED <<abort, ceiling, runs>>

(* The write is refused, or what reads back is not the ceiling.            *)
NotVerified ==
    /\ At("write")
    /\ ceiling' = Unset /\ flag' = Unset
    /\ Stops("SoftUnverified")
    /\ Untouched /\ UNCHANGED <<used, abort, runs>>

Verified ==
    /\ At("write")
    /\ ceiling' = Pair
    /\ Go("dwell")
    /\ Untouched /\ UNCHANGED <<used, cur, abort, flag, runs>>

Ran(how) == runs' = runs \cup {[clock |-> cur.clock, bin |-> cur.at, how |-> how]}

DwellUnstable ==
    /\ At("dwell")
    /\ flag' = Unset /\ Ran("unstable")
    /\ Stops("SoftUnstable")
    /\ Untouched /\ UNCHANGED <<used, abort, ceiling>>

(* The device is lost and comes back: stock, and nothing more is probed.   *)
DwellLosesDevice ==
    /\ At("dwell")
    /\ flag' = Unset /\ ceiling' = Unset /\ abort' = TRUE /\ Ran("lost")
    /\ Stops("HardFailure")
    /\ Untouched /\ UNCHANGED used

(* A stable dwell keeps its point: phase A the deepest of a clock, phase B *)
(* all of them.  Bind-seeking stops past the start bin at the first point  *)
(* that has left the power cap; phase B stops after a short tail.          *)
TailAfter(share) == IF cur.useful + (IF share # "bound" THEN 1 ELSE 0) > 0 THEN cur.tail + 1 ELSE 0

Kept(share) ==
    [cur EXCEPT !.lowest = cur.at, !.share = share, !.at = StartBelow(cur.at),
                !.useful = IF share # "bound" THEN @ + 1 ELSE @, !.tail = TailAfter(share)]

DwellStable ==
    /\ At("dwell")
    /\ flag' = Unset /\ Ran("stable")
    /\ \E share \in CapShares :
          LET kept  == Kept(share)
              binds == scan.phase = "A" /\ limits.bind /\ cur.at # cur.first /\ share = "free"
              tail  == scan.phase = "B" /\ (kept.useful >= UsefulPoints \/ kept.tail >= TailBins)
          IN /\ cur' = [kept EXCEPT !.stop = IF binds THEN "LeftPowerRegime"
                                             ELSE IF tail THEN "KneeTailComplete" ELSE Unset]
             /\ Go(IF binds \/ tail THEN "stopped" ELSE "probe")
             /\ points' = IF scan.phase = "B"
                          THEN Append(points, [clock |-> cur.clock, bin |-> cur.at, share |-> share])
                          ELSE points
    /\ UNCHANGED <<limits, prev, kills, used, abort, ceiling>>

(* Variant: a descent from the cap falls back to the cap as well.          *)
FallsBack_again == scan.phase = "A" /\ cur.lowest = Unset /\ cur.stop = "SoftUnverified"

(* A warm-started clock that did not even verify begins again at the cap,  *)
(* once.                                                                   *)
FallsBack == scan.phase = "A" /\ cur.warm /\ cur.lowest = Unset /\ cur.stop = "SoftUnverified"

FallBack ==
    /\ At("stopped") /\ FallsBack
    /\ cur' = NewDescent(cur.clock, CapBin)
    /\ Go("probe")
    /\ UNCHANGED used /\ Untouched /\ NoHardware

EndClock ==
    /\ At("stopped") /\ scan.phase = "A" /\ ~ FallsBack
    /\ points' = IF cur.lowest = Unset THEN points
                 ELSE Append(points, [clock |-> cur.clock, bin |-> cur.lowest, share |-> cur.share])
    /\ prev' = [lowest |-> cur.lowest, stop |-> cur.stop]
    /\ cur' = Unset
    /\ Go("next")
    /\ UNCHANGED <<limits, used, kills>> /\ NoHardware

(* build_frontier_two_phase: what the second phase starts from             *)
PhaseBStart(clock) == IF Deepest(clock) = Unset THEN CapBin ELSE StartBelow(Deepest(clock))

SeeksKnee ==
    /\ limits.knee # Unset /\ Collapsed(points) /\ HasPlateau(points)

BeginPhaseB ==
    /\ At("next") /\ scan.phase = "A" /\ scan.i = Len(Targets(limits))
    /\ SeeksKnee
    /\ \E focus \in FocusTargets :
          /\ PhaseBStart(focus) # Unset
          /\ cur' = NewDescent(focus, PhaseBStart(focus))
    /\ scan' = [scan EXCEPT !.phase = "B", !.step = "probe"]
    /\ UNCHANGED used /\ Untouched /\ NoHardware

NoPhaseB ==
    /\ At("next") /\ scan.i = Len(Targets(limits))
    /\ ~ SeeksKnee \/ \E focus \in FocusTargets : PhaseBStart(focus) = Unset
    /\ Go("finish")
    /\ UNCHANGED <<used, cur>> /\ Untouched /\ NoHardware

EndPhaseB ==
    /\ At("stopped") /\ scan.phase = "B"
    /\ cur' = Unset
    /\ Go("finish")
    /\ UNCHANGED used /\ Untouched /\ NoHardware

(* Stock and no flag, however the run went; a reset that fails goes        *)
(* unnoticed.                                                              *)
Finish ==
    /\ At("finish")
    /\ \/ ceiling' = Unset
       \/ UNCHANGED ceiling
    /\ flag' = Unset
    /\ Go("done")
    /\ Untouched /\ UNCHANGED <<used, cur, abort, runs>>

(* The machine goes down under a load, or the process is ended: the flag   *)
(* stays, and so does the ceiling unless it was a reboot; the rest was in  *)
(* memory.                                                                 *)
Killed ==
    /\ ~ At("done") /\ ~ At("dead") /\ kills < MaxKills
    /\ kills' = kills + 1
    /\ \/ ceiling' = Unset
       \/ UNCHANGED ceiling
    /\ scan' = [phase |-> "A", step |-> "dead", i |-> 0]
    /\ cur' = Unset /\ prev' = Unset /\ points' = <<>>
    /\ used' = 0 /\ abort' = FALSE /\ runs' = {}
    /\ UNCHANGED <<limits, flag>>

Descends == \/ Bounded \/ DrainedProbe \/ AbortedProbe \/ Probe
            \/ NotVerified \/ Verified \/ DwellUnstable \/ DwellLosesDevice \/ DwellStable
Schedules == BeginClock \/ FallBack \/ EndClock \/ BeginPhaseB \/ NoPhaseB \/ EndPhaseB \/ Finish

Next == Descends \/ Schedules \/ Killed

(* The run is one thread, and every dwell has a deadline.                  *)
Spec == Init /\ [][Next]_fvars /\ WF_fvars(Descends \/ Schedules)

-----------------------------------------------------------------------------
(* Properties.                                                             *)

Ok(clock, bin) == [clock |-> clock, bin |-> bin, how |-> "stable"] \in runs
Rank(clock)    == CHOOSE i \in DOMAIN Clocks : Clocks[i] = clock

(* No load is a leap: the bin is the top of the descent, or the one above  *)
(* it has carried this clock, or this bin or one below it has carried a    *)
(* harder clock, stably and in this run (the B1 rule of warm_start_mv; the *)
(* second phase and the fallback included).                                *)
LoadsAreSupported ==
    At("dwell") =>
        \/ cur.at = CapBin
        \/ \E b \in Descent(limits) : Ok(cur.clock, b) /\ StartBelow(b) = cur.at
        \/ \E r \in runs : r.how = "stable" /\ Rank(r.clock) < Rank(cur.clock) /\ r.bin <= cur.at

(* Once a dwell has lost the device, no other clock and no second phase    *)
(* touches the card again: no flag is armed, no ceiling written, nothing   *)
(* loaded (real_probe_step: "abort the whole run on a hard crash").        *)
LossEndsAllProbing ==
    [][abort => flag' \in {flag, Unset} /\ ceiling' \in {ceiling, Unset} /\ runs' \subseteq runs]_fvars

(* However the limits are set, the card is loaded no more often than they  *)
(* allow: in all, and at one clock - which may fall back once after a      *)
(* ceiling that did not verify, and be taken deeper once.                  *)
Loads(clock) == Cardinality({r \in runs : r.clock = clock})
BudgetHolds ==
    /\ limits.probes # Unset => Cardinality(runs) <= limits.probes
    /\ limits.perTarget # Unset =>
          \A c \in FocusTargets :
              Loads(c) <= limits.perTarget + (IF scan.phase = "B" THEN limits.knee ELSE 0)

(* A clock is not loaded again at a bin it has just failed at.  The code   *)
(* says so of its second phase ("every Phase-A probe was stable, so this   *)
(* is the deepest bin Phase A actually probed", gpu_power_sweep.rs 4245);  *)
(* it does not hold (see the README).                                      *)
FailedBinRests ==
    At("dwell") => [clock |-> cur.clock, bin |-> cur.at, how |-> "unstable"] \notin runs

(* A finished run has left the card at stock; this does not hold when the  *)
(* last reset fails (see the README).                                      *)
FinishedAtStock == At("done") => ceiling = Unset
=============================================================================
