--------------------------- MODULE ProfileSynthesis ---------------------------
(***************************************************************************)
(* How three profiles are picked from the measured frontier, and how a     *)
(* refused point is repaired (crates/service/src/gpu_power_sweep.rs).      *)
(*                                                                         *)
(* A point of the frontier is a record:                                    *)
(*   target, boundary, apply   the clock, the learned boundary voltage and *)
(*                             the voltage to apply                        *)
(*   base                      the apply voltage before any repair         *)
(*   p5, p95                   sustained clocks                            *)
(*   p99, peak                 power, W                                    *)
(*   trust                     confidence, in percent                      *)
(*   sure                      confirmed often enough, and trusted         *)
(*   bound                     pinned at the power cap while measured      *)
(*   approved                  passed the exact-Apply gate                 *)
(* The code keeps points in a vector and takes the last of equals.         *)
(***************************************************************************)
EXTENDS F2Evidence, Condemnation, Sequences

CONSTANTS
    Curve,       \* the sane base curve: a set of <<mv, clock>>
    PowerLimit   \* W; 0 when unknown

\* APPLY_MARGIN_MV, and ForgePolicy::balanced, in percent
ApplyMargin == 12
BrokkrsFloor == 95
DeepCalmFloor == 90
TrustThreshold == 85

Bins == {point[1] : point \in Curve}
Elements(points) == {points[n] : n \in DOMAIN points}
Key(p) == <<p.target, p.apply>>

(* Iterator::max_by: of equal points, the last.                            *)
MaxBy(points, Below(_, _)) ==
    points[CHOOSE n \in DOMAIN points :
              \A m \in DOMAIN points :
                  ~ Below(points[n], points[m]) /\ (m > n => Below(points[m], points[n]))]

-----------------------------------------------------------------------------
(* Voltages of the real curve.                                             *)

NextBinAbove(mv) == MinOrNone({b \in Bins : b > mv})
PreviousBin(mv) == MaxOrNone({b \in Bins : b < mv})

(* Variant: the voltage requested is not snapped upward.                   *)
ApplyAnchor_Nearest(target, boundary) ==
    LET valid == {p[1] : p \in {q \in Curve : q[1] >= boundary /\ q[2] < target}}
        below == {mv \in valid : mv <= boundary + ApplyMargin}
    IN IF valid = {} THEN boundary ELSE IF below # {} THEN Max(below) ELSE Max(valid)

(* A margin above the boundary, snapped upward to a bin that still needs a *)
(* positive offset for the target.                                         *)
ApplyAnchor(target, boundary) ==
    LET valid == {p[1] : p \in {q \in Curve : q[1] >= boundary /\ q[2] < target}}
        above == {mv \in valid : mv >= boundary + ApplyMargin}
    IN IF valid = {} THEN boundary ELSE IF above # {} THEN Min(above) ELSE Max(valid)

-----------------------------------------------------------------------------
(* Off-cap power.                                                          *)

(* 94 % of the limit.                                                      *)
OffCapCeiling == (94 * PowerLimit) \div 100

UnderCeiling(watts) == PowerLimit <= 0 \/ watts <= OffCapCeiling

(* Variant: a peak power is not looked at.                                 *)
OffCapSafe_P99(p) == PowerLimit <= 0 \/ (p.p99 > 0 /\ p.p99 <= OffCapCeiling)

(* A point without any measured power is refused once the cap is known.    *)
OffCapSafe(p) ==
    PowerLimit <= 0 \/ LET watts == Max({p.peak, p.p99}) IN watts > 0 /\ watts <= OffCapCeiling

-----------------------------------------------------------------------------
(* Synthesis.                                                              *)

Power(p) == IF p.p99 = None THEN 0 ELSE p.p99

(* The points that tell clocks apart: the ones pinned at the cap count     *)
(* only if too few others are left.                                        *)
Working(points) ==
    LET useful == SelectSeq(points, LAMBDA p : ~ p.bound)
    IN IF Len(useful) < 2 THEN points ELSE useful

Trusted(points) ==
    LET trusted == SelectSeq(points, LAMBDA p : p.trust >= TrustThreshold)
    IN IF trusted = <<>> THEN points ELSE trusted

Pool(points) == SelectSeq(Trusted(Working(points)), OffCapSafe)

LessClock(p, q) == p.p5 < q.p5 \/ (p.p5 = q.p5 /\ Power(p) > Power(q))

(* Clock per watt; without power a point is the worst.                     *)
LessEfficient(p, q) ==
    IF Power(p) = 0 THEN Power(q) > 0 ELSE Power(q) > 0 /\ p.p5 * Power(q) < q.p5 * Power(p)

StrongestOf(pool) == MaxBy(pool, LessClock)

(* Variant: the floor of the efficient profile is not applied.             *)
EfficientOf_NoFloor(pool, strongest) == MaxBy(pool, LessEfficient)

EfficientOf(pool, strongest) ==
    MaxBy(SelectSeq(pool, LAMBDA p : 100 * p.p5 >= DeepCalmFloor * strongest.p5), LessEfficient)

(* The most power saved per clock lost.                                    *)
LessTrade(strongest, p, q) ==
    (Power(strongest) - Power(p)) * (strongest.p5 - q.p5)
        < (Power(strongest) - Power(q)) * (strongest.p5 - p.p5)

(* Variant: a trade need not save power.                                   *)
BalancedOf_AnyPower(pool, strongest) ==
    LET trades == SelectSeq(pool, LAMBDA p : 100 * p.p5 >= BrokkrsFloor * strongest.p5 /\ p.p5 < strongest.p5)
    IN IF trades = <<>> THEN strongest
       ELSE MaxBy(trades, LAMBDA p, q : LessTrade(strongest, p, q))

BalancedOf(pool, strongest) ==
    LET trades == SelectSeq(pool, LAMBDA p :
                      /\ 100 * p.p5 >= BrokkrsFloor * strongest.p5
                      /\ p.p5 < strongest.p5 /\ Power(p) < Power(strongest))
    IN IF trades = <<>> THEN strongest
       ELSE MaxBy(trades, LAMBDA p, q : LessTrade(strongest, p, q))

Profiles(godforge, brokkrs, deepCalm) ==
    [godforge |-> godforge, brokkrs |-> brokkrs, deepCalm |-> deepCalm]

(* No point, or nothing safe below the cap: no profile at all.             *)
Synthesize(points) ==
    LET pool == Pool(points)
    IN IF pool = <<>> THEN <<>>
       ELSE LET strongest == StrongestOf(pool)
            IN Profiles(strongest, BalancedOf(pool, strongest), EfficientOf(pool, strongest))

ProfileSet(profiles) == {profiles[role] : role \in DOMAIN profiles}

(* A repaired or carried Godforge takes the place of the synthesized one.  *)
WithOverride(profiles, eligible, preferred) ==
    LET wanted == SelectSeq(eligible, LAMBDA p : Key(p) = preferred /\ OffCapSafe(p))
    IN IF profiles = <<>> \/ wanted = <<>> THEN profiles
       ELSE [profiles EXCEPT !.godforge = wanted[1]]

-----------------------------------------------------------------------------
(* The regime a point really runs in.                                      *)

(* The nearest measured target at or above the sustained p95.              *)
SupportTarget(p, points) ==
    IF p.p95 > p.target
    THEN MinOrNone({q.target : q \in {x \in Elements(points) : x.target >= p.p95}})
    ELSE p.target

RequiredApply(p, points) ==
    Max({q.base : q \in {x \in Elements(points) : p.target <= x.target /\ x.target <= SupportTarget(p, points)}})

HasRegime(p, points) == p.p95 > 0 /\ SupportTarget(p, points) # None

RegimeRefused(p, points) ==
    \/ ~ p.sure
    \/ ~ HasRegime(p, points)
    \/ LET support == SelectSeq(points, LAMBDA q : q.target = SupportTarget(p, points))
       IN ~ support[1].sure \/ p.apply < RequiredApply(p, points)

(* The points that draw on the regime of a failed pair.                    *)
Dependents(failed, points) ==
    {Key(p) : p \in {q \in Elements(points) :
        /\ Key(q) # failed /\ HasRegime(q, points)
        /\ SupportTarget(q, points) = failed[1] /\ q.apply <= failed[2]}}

(* An approved point at least as fast for at most the power.               *)
Dominated(p, points) ==
    /\ Power(p) > 0
    /\ \E q \in Elements(points) :
          /\ q.approved /\ Key(q) # Key(p)
          /\ q.p5 >= p.p5 /\ 0 < Power(q) /\ Power(q) <= Power(p)

-----------------------------------------------------------------------------
(* Repairs.                                                                *)

RoleOf(profiles, key) ==
    IF Key(profiles.godforge) = key THEN "godforge"
    ELSE IF Key(profiles.brokkrs) = key THEN "brokkrs" ELSE "deepCalm"

(* Each profile stays at least one bin below the distinct stronger ones.   *)
RepairCeiling(role, profiles, key) ==
    LET stronger == CASE role = "godforge" -> {}
                      [] role = "brokkrs"  -> {Key(profiles.godforge)}
                      [] role = "deepCalm" -> {Key(profiles.godforge), Key(profiles.brokkrs)}
        upper == {k[2] : k \in stronger \ {key}}
    IN IF upper = {} THEN Max(Bins)
       ELSE IF PreviousBin(Min(upper)) = None THEN 0 ELSE PreviousBin(Min(upper))

(* The worst power on record at a pair; `measured' holds <<key, watts>>.   *)
MeasuredPower(measured, key) == MaxOrNone({m[2] : m \in {x \in measured : x[1] = key}})

(* Variant: the climb does not skip condemned bins.                        *)
RepairBin_Blind(key, refused) == NextBinAbove(key[2])

(* The next bin up that neither the ledger nor the field guard refuses.    *)
RepairBin(key, refused) ==
    MinOrNone({mv \in Bins : mv > key[2] /\ <<key[1], mv>> \notin refused})

(* Whether the same clock may be tried at that bin.                        *)
Repairable(key, refused, ceiling, measured) ==
    LET next == RepairBin(key, refused)
    IN /\ next # None /\ next <= ceiling
       /\ UnderCeiling(Max({0, MeasuredPower(measured, <<key[1], next>>), MeasuredPower(measured, key)}))

(* The next lower clock, at the voltage where this one ran out.            *)
FastDrop(points, excluded, key) ==
    LET lower  == {p.target : p \in {q \in Elements(points) : q.target < key[1]}}
        next   == Max(lower)
    IN IF lower = {} \/ <<next, key[2]>> \in excluded THEN <<>>
       ELSE [MaxBy(SelectSeq(points, LAMBDA p : p.target = next), LAMBDA p, q : p.trust < q.trust)
                EXCEPT !.apply = key[2], !.approved = FALSE]

(* A candidate replaces the point at its pair, and with it its approval.   *)
Upsert(points, p) ==
    IF \E n \in DOMAIN points : Key(points[n]) = Key(p)
    THEN LET at == CHOOSE n \in DOMAIN points :
                       Key(points[n]) = Key(p) /\ \A m \in DOMAIN points : m < n => Key(points[m]) # Key(p)
         IN [points EXCEPT ![at] = [p EXCEPT !.trust = Max({@, points[at].trust})]]
    ELSE Append(points, p)
=============================================================================
