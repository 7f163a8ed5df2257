-------------------------- MODULE F2CommandLineProofs --------------------------
(***************************************************************************)
(* What holds of build-frontier and of the ladder for every card, whatever *)
(* options are given and whatever the loads find.                          *)
(***************************************************************************)
EXTENDS F2CommandLine, TLAPS, WellFoundedInduction, FiniteSetTheorems

-----------------------------------------------------------------------------
(* Lowest and highest.                                                     *)

(* A set of numbers that is not empty has a lowest element.                *)
LEMMA Lowest ==
    ASSUME NEW S, S \subseteq Nat, S # {}
    PROVE  \E x \in S : \A y \in S : x <= y
<1>1. \E x \in S : \A y \in S : ~ (<<y, x>> \in OpToRel(<, Nat))
  BY NatLessThanWellFounded, WFMin
<1>2. \A x, y \in Nat : <<y, x>> \in OpToRel(<, Nat) <=> y < x
  BY DEF OpToRel
<1>3. \E x \in S : \A y \in S : ~ (y < x)
  BY <1>1, <1>2, Zenon
<1> QED
  BY <1>3

LEMMA MinIsLowest ==
    ASSUME NEW S, S \subseteq Nat, S # {}
    PROVE  Min(S) \in S /\ \A y \in S : Min(S) <= y
  BY Lowest DEF Min

(* A finite set of numbers has a highest one: the smallest set that had    *)
(* none would lose an element and still have none.                         *)
LEMMA MaxIsHighest ==
    ASSUME NEW S, S \subseteq Nat, S # {}, IsFiniteSet(S)
    PROVE  Max(S) \in S /\ \A y \in S : y <= Max(S)
<1> DEFINE Open(T) == T \subseteq Nat /\ T # {} /\ IsFiniteSet(T) /\ ~ \E x \in T : \A y \in T : y <= x
           Sizes   == {n \in Nat : \E T : Open(T) /\ Cardinality(T) = n}
<1>1. ~ Open(S)
  <2> SUFFICES ASSUME Open(S) PROVE FALSE
    OBVIOUS
  <2>1. Sizes # {} /\ Sizes \subseteq Nat
    BY FS_CardinalityType
  <2>3. PICK n \in Sizes : \A m \in Sizes : n <= m
    BY <2>1, Lowest
  <2>4. PICK T : Open(T) /\ Cardinality(T) = n
    BY <2>3
  <2>5. PICK x \in T : TRUE
    BY <2>4
  <2>6. IsFiniteSet(T \ {x}) /\ Cardinality(T \ {x}) = n - 1
    BY <2>4, <2>5, FS_RemoveElement
  <2>7. n \in Nat /\ n - 1 \in Nat
    BY <2>1, <2>6, FS_CardinalityType
  <2>8. PICK y \in T : ~ y <= x
    BY <2>4, <2>5
  <2>9. Open(T \ {x})
    <3>1. T \ {x} # {} /\ T \ {x} \subseteq Nat
      BY <2>4, <2>5, <2>8
    <3>2. ASSUME NEW z \in T \ {x}, \A v \in T \ {x} : v <= z PROVE FALSE
      <4>1. y <= z /\ x < y
        BY <2>4, <2>5, <2>8, <3>2
      <4>2. \A v \in T : v <= z
        BY <2>4, <2>5, <3>2, <4>1
      <4> QED
        BY <2>4, <4>2
    <3> QED
      BY <2>6, <3>1, <3>2
  <2>10. n - 1 \in Sizes
    BY <2>6, <2>7, <2>9
  <2> QED
    BY <2>3, <2>7, <2>10
<1> QED
  BY <1>1 DEF Max

-----------------------------------------------------------------------------
(* The bins and clocks a run is limited to.                                *)

LimitsOK == limits \in Options /\ LimitsValid(limits)

LEMMA BinFacts ==
    ASSUME LimitsOK
    PROVE  /\ Descent(limits) \subseteq CoreBins /\ Descent(limits) \subseteq Nat
           /\ IsFiniteSet(Descent(limits))
           /\ CapBin \in Descent(limits) /\ \A b \in Descent(limits) : b <= CapBin
<1>1. Descent(limits) \subseteq CoreBins /\ Descent(limits) \subseteq Nat
  BY FrontierAssumption DEF Descent
<1>2. IsFiniteSet(Descent(limits))
  BY <1>1, FrontierAssumption, FS_Subset
<1>3. Floor \in CoreBins
  BY FrontierAssumption, MinIsLowest DEF Floor
<1>4. limits.cap \in Nat \cup {Unset}
  BY FrontierAssumption DEF LimitsOK
<1>5. Floor \in Descent(limits)
  BY <1>3, <1>4, FrontierAssumption DEF LimitsOK, LimitsValid, Descent
<1> QED
  BY <1>1, <1>2, <1>5, MaxIsHighest DEF CapBin

LEMMA SnapFacts ==
    ASSUME LimitsOK, NEW mv \in Nat, mv <= CapBin
    PROVE  /\ Snap(mv) \in Descent(limits) /\ mv <= Snap(mv)
           /\ mv \in Descent(limits) => Snap(mv) = mv
<1> DEFINE above == {b \in Descent(limits) : b >= mv}
<1>1. CapBin \in above /\ above \subseteq Nat
  BY BinFacts
<1>2. Min(above) \in above /\ \A b \in above : Min(above) <= b
  BY <1>1, MinIsLowest
<1>3. Snap(mv) = Min(above)
  BY <1>1 DEF Snap
<1>4. mv \in Descent(limits) => mv \in above
  BY BinFacts
<1> QED
  BY <1>1, <1>2, <1>3, <1>4

LEMMA BelowFacts ==
    ASSUME LimitsOK, NEW bin
    PROVE  StartBelow(bin) = Unset \/ StartBelow(bin) \in Descent(limits)
<1> DEFINE below == {b \in Descent(limits) : b < bin}
<1>1. CASE below = {}
  BY <1>1 DEF StartBelow
<1>2. CASE below # {}
  <2>1. below \subseteq Nat /\ IsFiniteSet(below)
    BY BinFacts, FS_Subset
  <2> QED
    BY <1>2, <2>1, MaxIsHighest DEF StartBelow
<1> QED
  BY <1>1, <1>2

(* The clocks of a run are the first of the candidates.                    *)
LEMMA TargetFacts ==
    ASSUME LimitsOK
    PROVE  /\ Len(Targets(limits)) \in Nat /\ DOMAIN Targets(limits) = 1 .. Len(Targets(limits))
           /\ Len(Targets(limits)) <= Len(Clocks)
           /\ \A i \in DOMAIN Targets(limits) : Targets(limits)[i] = Clocks[i]
<1>1. limits.targets \in Nat \cup {Unset}
  BY FrontierAssumption DEF LimitsOK
<1>2. CASE limits.targets = Unset
  <2>1. Targets(limits) = Clocks
    BY <1>2 DEF Targets
  <2>2. Len(Clocks) \in Nat /\ DOMAIN Clocks = 1 .. Len(Clocks)
    BY FrontierAssumption
  <2> QED
    BY <2>1, <2>2
<1>3. CASE limits.targets # Unset
  <2>1. PICK m \in Nat : m = limits.targets
    BY <1>1, <1>3
  <2>2. Len(Clocks) \in Nat
    BY FrontierAssumption
  <2>3. Min({m, Len(Clocks)}) \in {m, Len(Clocks)} /\ \A y \in {m, Len(Clocks)} : Min({m, Len(Clocks)}) <= y
    BY <2>2, MinIsLowest
  <2>4. PICK k \in Nat : k = Min({m, Len(Clocks)}) /\ k <= Len(Clocks)
    BY <2>2, <2>3
  <2>5. Targets(limits) = SubSeq(Clocks, 1, k)
    BY <1>3, <2>1, <2>4 DEF Targets
  <2>6. Len(Targets(limits)) = k /\ DOMAIN Targets(limits) = 1 .. k
    BY <2>2, <2>4, <2>5, FrontierAssumption
  <2>7. \A i \in 1 .. k : Targets(limits)[i] = Clocks[i]
    BY <2>2, <2>4, <2>5, FrontierAssumption
  <2> QED
    BY <2>4, <2>6, <2>7
<1> QED
  BY <1>2, <1>3

LEMMA RankIsPlace ==
    ASSUME NEW i \in DOMAIN Clocks
    PROVE  Rank(Clocks[i]) = i
<1>1. \A j \in DOMAIN Clocks : Clocks[j] = Clocks[i] => j = i
  BY FrontierAssumption
<1> QED
  BY <1>1 DEF Rank

-----------------------------------------------------------------------------
(* The frontier run.                                                       *)

(* What may be loaded next: the top, the bin below one that has carried    *)
(* this clock, or a bin at or above one that has carried a harder clock.   *)
Carried(ran, clock, bin) == [clock |-> clock, bin |-> bin, how |-> "stable"] \in ran

NextBelow(bins, b) == Max({x \in bins : x < b})

Backed(ran, bins, clock, bin) ==
    \/ bin = Max(bins)
    \/ \E b \in bins : Carried(ran, clock, b) /\ {x \in bins : x < b} # {} /\ NextBelow(bins, b) = bin
    \/ \E r \in ran : r.how = "stable" /\ Rank(r.clock) < Rank(clock) /\ r.bin <= bin

IsDescent(c) ==
    c = [clock |-> c.clock, at |-> c.at, first |-> c.first, warm |-> c.warm, lowest |-> c.lowest,
         share |-> c.share, stop |-> c.stop, probes |-> c.probes, useful |-> c.useful, tail |-> c.tail]

ScanShape ==
    /\ scan = [phase |-> scan.phase, step |-> scan.step, i |-> scan.i]
    /\ scan.phase \in {"A", "B"} /\ scan.i \in 0 .. Len(Targets(limits))

(* A descent knows what has carried its clock and may only go from there.  *)
DescentOK ==
    scan.step \in {"probe", "write", "dwell", "stopped"} =>
        /\ IsDescent(cur) /\ cur.clock \in FocusTargets
        /\ scan.phase = "A" => scan.i >= 1 /\ cur.clock = Targets(limits)[scan.i]
        /\ cur.lowest # Unset =>
              cur.lowest \in Descent(limits) /\ cur.share \in CapShares /\ Carried(runs, cur.clock, cur.lowest)
        /\ scan.step # "stopped" =>
              cur.at = Unset \/ (cur.at \in Descent(limits) /\ Backed(runs, Descent(limits), cur.clock, cur.at))
        /\ scan.step \in {"write", "dwell"} => cur.at # Unset

(* Between two clocks the bracket is that of the clock just done.          *)
PrevOK ==
    scan.step = "next" /\ prev # Unset /\ prev.lowest # Unset =>
        /\ scan.i >= 1 /\ prev.lowest \in Descent(limits)
        /\ Carried(runs, Targets(limits)[scan.i], prev.lowest)

PointsOK ==
    /\ points \in Seq([clock : FocusTargets, bin : Descent(limits), share : CapShares])
    /\ \A k \in DOMAIN points : Carried(runs, points[k].clock, points[k].bin)

(* A lost device stops the descent, and nothing is under way after it.     *)
LossOK == abort => scan.step \notin {"write", "dwell"}

ScanInv ==
    \/ scan.step \in {"done", "dead"}
    \/ LimitsOK /\ ScanShape /\ DescentOK /\ PrevOK /\ PointsOK /\ LossOK

Running == ScanInv /\ scan.step \notin {"done", "dead"}

LEMMA LimitsStay ==
    ASSUME limits' = limits
    PROVE  /\ CapBin' = CapBin /\ Targets(limits)' = Targets(limits)
           /\ Descent(limits)' = Descent(limits) /\ FocusTargets' = FocusTargets
           /\ LimitsOK => LimitsOK'
           /\ \A b : StartBelow(b)' = StartBelow(b)
  BY DEF CapBin, Targets, Descent, FocusTargets, StartBelow, LimitsOK, LimitsValid

LEMMA BackedGrows ==
    ASSUME NEW ran, NEW more, ran \subseteq more, NEW bins, NEW clock, NEW bin
    PROVE  /\ Backed(ran, bins, clock, bin) => Backed(more, bins, clock, bin)
           /\ Carried(ran, clock, bin) => Carried(more, clock, bin)
  BY DEF Backed, Carried

(* The run goes on with the same limits and what it ran: what is left.     *)
LEMMA RunningStep ==
    ASSUME Running, limits' = limits, ScanShape', DescentOK', PrevOK', PointsOK', LossOK'
    PROVE  ScanInv'
  BY LimitsStay DEF Running, ScanInv

LEMMA PointsStay ==
    ASSUME Running, limits' = limits, runs \subseteq runs', points' = points
    PROVE  PointsOK'
<1>1. PointsOK
  BY DEF Running, ScanInv
<1>2. points' \in Seq([clock : FocusTargets', bin : Descent(limits)', share : CapShares])
  BY <1>1, LimitsStay DEF PointsOK
<1>3. \A k \in DOMAIN points' : Carried(runs', points'[k].clock, points'[k].bin)
  BY <1>1 DEF PointsOK, Carried
<1> QED
  BY <1>2, <1>3 DEF PointsOK, CapShares

(* A clock begins at the cap, or from the bracket of the harder one.       *)
LEMMA BeginClockKeeps == Running /\ BeginClock => ScanInv'
<1> SUFFICES ASSUME Running, BeginClock PROVE ScanInv'
  OBVIOUS
<1>1. /\ At("next") /\ limits' = limits /\ prev' = prev /\ points' = points
      /\ runs' = runs /\ abort' = abort
      /\ LimitsOK /\ ScanShape /\ PrevOK
  BY DEF BeginClock, Untouched, NoHardware, Running, ScanInv, At
<1>2. PICK i : i = scan.i + 1 /\ i \in DOMAIN Targets(limits) /\ i \in DOMAIN Clocks
  BY <1>1, TargetFacts, FrontierAssumption DEF BeginClock, ScanShape
<1>3. PICK clock : clock = Targets(limits)[i] /\ clock = Clocks[i] /\ clock \in FocusTargets
  BY <1>1, <1>2, TargetFacts DEF FocusTargets
<1>4. PICK start : start = WarmStart
  OBVIOUS
<1>5. start \in Nat /\ start <= CapBin /\ Backed(runs, Descent(limits), clock, Snap(start))
  <2>1. CapBin \in Descent(limits) /\ CapBin \in Nat
    BY <1>1, BinFacts
  <2>2. CASE start = CapBin
    BY <1>1, <2>1, <2>2, SnapFacts DEF Backed, CapBin
  <2>3. CASE start # CapBin
    <3>1. prev # Unset /\ prev.lowest # Unset /\ start = Min({prev.lowest + Margin, CapBin})
      BY <1>4, <2>3 DEF WarmStart
    <3>2. /\ scan.i >= 1 /\ prev.lowest \in Descent(limits)
          /\ Carried(runs, Targets(limits)[scan.i], prev.lowest)
      BY <1>1, <3>1 DEF PrevOK, At
    <3>3. PICK low \in Nat : low = prev.lowest /\ low <= CapBin
      BY <1>1, <3>2, BinFacts
    <3>4. PICK sum \in Nat : sum = low + Margin /\ low <= sum
      BY FrontierAssumption
    <3>5. start \in {sum, CapBin} /\ start <= CapBin /\ low <= start
      BY <2>1, <3>1, <3>3, <3>4, MinIsLowest
    <3>6. Snap(start) \in Nat /\ low <= Snap(start)
      BY <1>1, <2>1, <3>3, <3>4, <3>5, SnapFacts, BinFacts
    <3>7. PICK j : j = scan.i /\ j \in DOMAIN Clocks /\ j \in Nat /\ j < i
                   /\ Targets(limits)[j] = Clocks[j]
      BY <1>1, <1>2, <3>2, TargetFacts, FrontierAssumption DEF ScanShape
    <3>8. Rank(Clocks[j]) < Rank(clock)
      BY <1>2, <1>3, <3>7, RankIsPlace
    <3> QED
      BY <2>1, <3>2, <3>3, <3>4, <3>5, <3>6, <3>7, <3>8 DEF Backed, Carried
  <2> QED
    BY <2>1, <2>2, <2>3
<1>6. cur' = NewDescent(clock, start) /\ scan' = [scan EXCEPT !.step = "probe", !.i = i]
  BY <1>1, <1>2, <1>3, <1>4, TargetFacts DEF BeginClock, ScanShape
<1>7. scan' = [phase |-> scan.phase, step |-> "probe", i |-> i]
  BY <1>1, <1>6 DEF ScanShape
<1>8. ScanShape'
  BY <1>1, <1>2, <1>7, LimitsStay, TargetFacts DEF ScanShape
<1>9. DescentOK'
  <2>1. /\ IsDescent(cur') /\ cur'.clock = clock /\ cur'.at = Snap(start) /\ cur'.lowest = Unset
    BY <1>6 DEF NewDescent, IsDescent
  <2>2. Snap(start) \in Descent(limits)
    BY <1>1, <1>5, SnapFacts
  <2>3. Backed(runs', Descent(limits)', cur'.clock, cur'.at)
    BY <1>1, <1>5, <2>1, LimitsStay
  <2> QED
    BY <1>1, <1>2, <1>3, <1>7, <2>1, <2>2, <2>3, LimitsStay, TargetFacts DEF DescentOK
<1>10. PointsOK'
  BY <1>1, PointsStay
<1>11. PrevOK' /\ LossOK'
  BY <1>7 DEF PrevOK, LossOK
<1> QED
  BY <1>1, <1>8, <1>9, <1>10, <1>11, RunningStep

(* A descent stops where it is, for whatever reason.                       *)
LEMMA StopKeeps ==
    ASSUME Running, scan.step \in {"probe", "write", "dwell"}, NEW why, Stops(why),
           UNCHANGED <<limits, prev, points>>, runs \subseteq runs'
    PROVE  ScanInv'
<1>1. LimitsOK /\ ScanShape /\ DescentOK /\ PrevOK
  BY DEF Running, ScanInv
<1>2. scan' = [phase |-> scan.phase, step |-> "stopped", i |-> scan.i]
  BY <1>1 DEF Stops, Go, ScanShape
<1>3. /\ IsDescent(cur') /\ cur'.clock = cur.clock /\ cur'.lowest = cur.lowest /\ cur'.share = cur.share
  BY <1>1 DEF Stops, DescentOK, IsDescent
<1>4. ScanShape'
  BY <1>1, <1>2, LimitsStay DEF ScanShape
<1>5. DescentOK'
  BY <1>1, <1>2, <1>3, LimitsStay DEF DescentOK, Carried, CapShares
<1>6. PrevOK' /\ LossOK'
  BY <1>2 DEF PrevOK, LossOK
<1> QED
  BY <1>4, <1>5, <1>6, PointsStay, RunningStep

LEMMA StopsKeep ==
    Running /\ (Bounded \/ DrainedProbe \/ AbortedProbe \/ NotVerified \/ DwellUnstable \/ DwellLosesDevice)
    => ScanInv'
<1> SUFFICES ASSUME Running,
                    Bounded \/ DrainedProbe \/ AbortedProbe \/ NotVerified \/ DwellUnstable \/ DwellLosesDevice
             PROVE  ScanInv'
  OBVIOUS
<1>1. scan.step \in {"probe", "write", "dwell"} /\ UNCHANGED <<limits, prev, points>> /\ runs \subseteq runs'
  BY DEF Bounded, DrainedProbe, AbortedProbe, NotVerified, DwellUnstable, DwellLosesDevice, MayProbe,
         At, Untouched, NoHardware, Ran
<1>2. PICK why : Stops(why)
  BY DEF Bounded, DrainedProbe, AbortedProbe, NotVerified, DwellUnstable, DwellLosesDevice
<1> QED
  BY <1>1, <1>2, StopKeeps

(* The flag is armed and the ceiling written, unless a device was lost.    *)
LEMMA ProbeKeeps == Running /\ (Probe \/ Verified) => ScanInv'
<1> SUFFICES ASSUME Running, Probe \/ Verified PROVE ScanInv'
  OBVIOUS
<1>1. LimitsOK /\ ScanShape /\ DescentOK /\ LossOK
  BY DEF Running, ScanInv
<1>2. /\ UNCHANGED <<limits, prev, points, runs>> /\ scan.step \in {"probe", "write"}
      /\ cur.at # Unset /\ ~ abort' /\ (cur' = cur \/ cur' = [cur EXCEPT !.probes = @ + 1])
  BY <1>1 DEF Probe, Verified, MayProbe, Untouched, At, LossOK, DescentOK
<1>3. PICK step : step \in {"write", "dwell"} /\ scan' = [phase |-> scan.phase, step |-> step, i |-> scan.i]
  BY <1>1 DEF Probe, Verified, Go, ScanShape
<1>4. /\ IsDescent(cur') /\ cur'.clock = cur.clock /\ cur'.lowest = cur.lowest
      /\ cur'.share = cur.share /\ cur'.at = cur.at
  BY <1>1, <1>2 DEF DescentOK, IsDescent
<1>5. ScanShape'
  BY <1>1, <1>2, <1>3, LimitsStay DEF ScanShape
<1>6. DescentOK'
  BY <1>1, <1>2, <1>3, <1>4, LimitsStay DEF DescentOK, CapShares
<1>7. PrevOK' /\ LossOK'
  BY <1>2, <1>3 DEF PrevOK, LossOK
<1> QED
  BY <1>2, <1>5, <1>6, <1>7, PointsStay, RunningStep

(* A stable load backs the bin below it.                                   *)
LEMMA DwellStableKeeps == Running /\ DwellStable => ScanInv'
<1> SUFFICES ASSUME Running, DwellStable PROVE ScanInv'
  OBVIOUS
<1>1. LimitsOK /\ ScanShape /\ DescentOK /\ LossOK /\ PointsOK
  BY DEF Running, ScanInv
<1>2. /\ UNCHANGED <<limits, prev, abort>> /\ At("dwell")
      /\ runs' = runs \cup {[clock |-> cur.clock, bin |-> cur.at, how |-> "stable"]}
  BY DEF DwellStable, Ran
<1>3. /\ IsDescent(cur) /\ cur.clock \in FocusTargets /\ cur.at \in Descent(limits)
      /\ scan.phase = "A" => scan.i >= 1 /\ cur.clock = Targets(limits)[scan.i]
  BY <1>1, <1>2 DEF DescentOK, At
<1>4. PICK clock, at, below : clock = cur.clock /\ at = cur.at /\ below = StartBelow(at)
  OBVIOUS
<1>5. PICK share, step, stop :
        /\ share \in CapShares /\ step \in {"stopped", "probe"}
        /\ cur' = [Kept(share) EXCEPT !.stop = stop]
        /\ scan' = [scan EXCEPT !.step = step]
        /\ points' = IF scan.phase = "B" THEN Append(points, [clock |-> clock, bin |-> at, share |-> share])
                     ELSE points
  <2> DEFINE Binds(share) == scan.phase = "A" /\ limits.bind /\ cur.at # cur.first /\ share = "free"
             Tails(share) == scan.phase = "B" /\ (Kept(share).useful >= UsefulPoints \/ Kept(share).tail >= TailBins)
  <2>1. PICK share \in CapShares :
           /\ cur' = [Kept(share) EXCEPT !.stop = IF Binds(share) THEN "LeftPowerRegime"
                                                  ELSE IF Tails(share) THEN "KneeTailComplete" ELSE Unset]
           /\ scan' = [scan EXCEPT !.step = IF Binds(share) \/ Tails(share) THEN "stopped" ELSE "probe"]
           /\ points' = IF scan.phase = "B"
                        THEN Append(points, [clock |-> cur.clock, bin |-> cur.at, share |-> share]) ELSE points
    BY DEF DwellStable, Go
  <2>2. PICK step : step = IF Binds(share) \/ Tails(share) THEN "stopped" ELSE "probe"
    OBVIOUS
  <2>3. PICK stop : stop = IF Binds(share) THEN "LeftPowerRegime"
                           ELSE IF Tails(share) THEN "KneeTailComplete" ELSE Unset
    OBVIOUS
  <2> HIDE DEF Binds, Tails
  <2> QED
    BY <1>4, <2>1, <2>2, <2>3
<1>6. /\ IsDescent(cur') /\ cur'.clock = clock /\ cur'.lowest = at /\ cur'.share = share /\ cur'.at = below
  BY <1>3, <1>4, <1>5 DEF Kept, IsDescent
<1>7. scan' = [phase |-> scan.phase, step |-> step, i |-> scan.i]
  BY <1>1, <1>5 DEF ScanShape
<1>8. ScanShape'
  BY <1>1, <1>2, <1>5, <1>7, LimitsStay DEF ScanShape
<1>9. Carried(runs', clock, at)
  BY <1>2, <1>4 DEF Carried
<1>10. below = Unset \/ (below \in Descent(limits) /\ Backed(runs', Descent(limits), clock, below))
  <2>1. CASE {b \in Descent(limits) : b < at} = {}
    BY <1>4, <2>1 DEF StartBelow
  <2>2. CASE {b \in Descent(limits) : b < at} # {}
    <3>1. below = NextBelow(Descent(limits), at)
      BY <1>4, <2>2 DEF StartBelow, NextBelow
    <3>2. below = Unset \/ below \in Descent(limits)
      BY <1>1, <1>4, BelowFacts
    <3> QED
      BY <1>3, <1>4, <1>9, <2>2, <3>1, <3>2 DEF Backed
  <2> QED
    BY <2>1, <2>2
<1>11. DescentOK'
  BY <1>2, <1>3, <1>4, <1>5, <1>6, <1>7, <1>9, <1>10, LimitsStay DEF DescentOK, CapShares
<1>12. PointsOK'
  <2>1. PICK point : /\ point = [clock |-> clock, bin |-> at, share |-> share]
                     /\ point \in [clock : FocusTargets, bin : Descent(limits), share : CapShares]
    BY <1>3, <1>4, <1>5
  <2>2. CASE scan.phase = "B"
    <3>1. points' = Append(points, point)
      BY <1>5, <2>1, <2>2
    <3>2. points' \in Seq([clock : FocusTargets, bin : Descent(limits), share : CapShares])
      BY <1>1, <2>1, <3>1 DEF PointsOK
    <3>3. \A k \in DOMAIN points' : Carried(runs', points'[k].clock, points'[k].bin)
      <4>1. ASSUME NEW k \in DOMAIN points' PROVE points'[k] = point \/ (k \in DOMAIN points /\ points'[k] = points[k])
        BY <1>1, <2>1, <3>1 DEF PointsOK
      <4> QED
        BY <1>1, <1>2, <1>9, <2>1, <4>1 DEF PointsOK, Carried
    <3> QED
      BY <1>2, <3>2, <3>3, LimitsStay DEF PointsOK, CapShares
  <2>3. CASE scan.phase # "B"
    BY <1>2, <1>5, <2>3, PointsStay
  <2> QED
    BY <2>2, <2>3
<1>13. PrevOK' /\ LossOK'
  BY <1>5, <1>7 DEF PrevOK, LossOK
<1> QED
  BY <1>2, <1>8, <1>11, <1>12, <1>13, RunningStep

(* A fallback begins at the cap again.                                     *)
LEMMA FallBackKeeps == Running /\ FallBack => ScanInv'
<1> SUFFICES ASSUME Running, FallBack PROVE ScanInv'
  OBVIOUS
<1>1. LimitsOK /\ ScanShape /\ DescentOK
  BY DEF Running, ScanInv
<1>2. /\ UNCHANGED <<limits, prev, points, runs, abort>> /\ At("stopped") /\ scan.phase = "A"
      /\ cur' = NewDescent(cur.clock, CapBin)
      /\ scan' = [phase |-> scan.phase, step |-> "probe", i |-> scan.i]
  BY <1>1 DEF FallBack, FallsBack, Untouched, NoHardware, Go, ScanShape
<1>3. cur.clock \in FocusTargets /\ scan.i >= 1 /\ cur.clock = Targets(limits)[scan.i]
  BY <1>1, <1>2 DEF DescentOK, At
<1>4. CapBin \in Descent(limits) /\ Snap(CapBin) = CapBin
  <2>1. CapBin \in Descent(limits) /\ CapBin \in Nat
    BY <1>1, BinFacts
  <2> QED
    BY <1>1, <2>1, SnapFacts
<1>5. /\ IsDescent(cur') /\ cur'.clock = cur.clock /\ cur'.lowest = Unset /\ cur'.at = CapBin
  BY <1>2, <1>4 DEF IsDescent, NewDescent
<1>6. Backed(runs', Descent(limits)', cur'.clock, cur'.at)
  BY <1>2, <1>5, LimitsStay DEF Backed, CapBin
<1>7. ScanShape'
  BY <1>1, <1>2, LimitsStay DEF ScanShape
<1>8. DescentOK'
  BY <1>2, <1>3, <1>4, <1>5, <1>6, LimitsStay DEF DescentOK
<1>9. PrevOK' /\ LossOK'
  BY <1>2 DEF PrevOK, LossOK
<1> QED
  BY <1>2, <1>7, <1>8, <1>9, PointsStay, RunningStep

(* The clock is done: its point is kept and its bracket carried over.      *)
LEMMA EndClockKeeps == Running /\ EndClock => ScanInv'
<1> SUFFICES ASSUME Running, EndClock PROVE ScanInv'
  OBVIOUS
<1>1. LimitsOK /\ ScanShape /\ DescentOK /\ PointsOK
  BY DEF Running, ScanInv
<1>2. /\ UNCHANGED <<limits, runs, abort>> /\ At("stopped") /\ scan.phase = "A"
      /\ prev' = [lowest |-> cur.lowest, stop |-> cur.stop]
      /\ scan' = [phase |-> scan.phase, step |-> "next", i |-> scan.i]
  BY <1>1 DEF EndClock, NoHardware, Go, ScanShape
<1>3. /\ cur.clock \in FocusTargets /\ scan.i >= 1 /\ cur.clock = Targets(limits)[scan.i]
      /\ cur.lowest # Unset =>
            cur.lowest \in Descent(limits) /\ cur.share \in CapShares /\ Carried(runs, cur.clock, cur.lowest)
  BY <1>1, <1>2 DEF DescentOK, At
<1>4. ScanShape' /\ DescentOK' /\ LossOK'
  BY <1>1, <1>2, LimitsStay DEF ScanShape, DescentOK, LossOK
<1>5. PrevOK'
  BY <1>2, <1>3, LimitsStay DEF PrevOK
<1>6. PointsOK'
  <2>1. CASE cur.lowest = Unset
    <3>1. points' = points
      BY <2>1 DEF EndClock
    <3> QED
      BY <1>2, <3>1, PointsStay
  <2>2. CASE cur.lowest # Unset
    <3>1. PICK point : /\ point = [clock |-> cur.clock, bin |-> cur.lowest, share |-> cur.share]
                       /\ point \in [clock : FocusTargets, bin : Descent(limits), share : CapShares]
                       /\ Carried(runs, point.clock, point.bin)
      <4>1. PICK c, b, share : c = cur.clock /\ b = cur.lowest /\ share = cur.share
        OBVIOUS
      <4>2. c \in FocusTargets /\ b \in Descent(limits) /\ share \in CapShares /\ Carried(runs, c, b)
        BY <1>3, <2>2, <4>1
      <4>3. PICK point : point = [clock |-> c, bin |-> b, share |-> share]
        OBVIOUS
      <4> QED
        BY <4>1, <4>2, <4>3
    <3>2. points' = Append(points, point)
      BY <2>2, <3>1 DEF EndClock
    <3>3. points' \in Seq([clock : FocusTargets, bin : Descent(limits), share : CapShares])
      BY <1>1, <3>1, <3>2 DEF PointsOK
    <3>4. \A k \in DOMAIN points' : Carried(runs', points'[k].clock, points'[k].bin)
      <4>1. ASSUME NEW k \in DOMAIN points' PROVE points'[k] = point \/ (k \in DOMAIN points /\ points'[k] = points[k])
        BY <1>1, <3>1, <3>2 DEF PointsOK
      <4> QED
        BY <1>1, <1>2, <3>1, <4>1 DEF PointsOK
    <3> QED
      BY <1>2, <3>3, <3>4, LimitsStay DEF PointsOK, CapShares
  <2> QED
    BY <2>1, <2>2
<1> QED
  BY <1>2, <1>4, <1>5, <1>6, RunningStep

(* The second phase begins at the cap, or below the deepest bin at which   *)
(* the first has kept a point of that very clock.                          *)
LEMMA BeginPhaseBKeeps == Running /\ BeginPhaseB => ScanInv'
<1> SUFFICES ASSUME Running, BeginPhaseB PROVE ScanInv'
  OBVIOUS
<1>1. LimitsOK /\ ScanShape /\ PointsOK
  BY DEF Running, ScanInv
<1>2. /\ UNCHANGED <<limits, prev, points, runs, abort>>
      /\ scan' = [phase |-> "B", step |-> "probe", i |-> scan.i]
  BY <1>1 DEF BeginPhaseB, Untouched, NoHardware, ScanShape
<1>3. PICK focus : /\ focus \in FocusTargets /\ PhaseBStart(focus) # Unset
                   /\ cur' = NewDescent(focus, PhaseBStart(focus))
  BY DEF BeginPhaseB
<1>4. PICK start : start = PhaseBStart(focus)
  OBVIOUS
<1>5. start \in Descent(limits) /\ Backed(runs, Descent(limits), focus, start)
  <2>1. CASE Deepest(focus) = Unset
    BY <1>1, <1>4, <2>1, BinFacts DEF PhaseBStart, Backed, CapBin
  <2>2. CASE Deepest(focus) # Unset
    <3> DEFINE kept == {points[i].bin : i \in {j \in DOMAIN points : points[j].clock = focus}}
    <3>1. \A b \in kept : b \in Descent(limits) /\ Carried(runs, focus, b)
      <4>1. ASSUME NEW i \in DOMAIN points, points[i].clock = focus
            PROVE  points[i].bin \in Descent(limits) /\ Carried(runs, focus, points[i].bin)
        <5>1. points[i] \in [clock : FocusTargets, bin : Descent(limits), share : CapShares]
          <6>1. PICK kind : kind = [clock : FocusTargets, bin : Descent(limits), share : CapShares]
            OBVIOUS
          <6>2. points \in Seq(kind)
            BY <1>1, <6>1 DEF PointsOK
          <6>3. points[i] \in kind
            BY <6>2
          <6> QED
            BY <6>1, <6>3
        <5>2. Carried(runs, points[i].clock, points[i].bin)
          BY <1>1 DEF PointsOK
        <5> QED
          BY <4>1, <5>1, <5>2
      <4> QED
        BY <4>1
    <3>2. kept # {} /\ Deepest(focus) = Min(kept)
      BY <2>2 DEF Deepest
    <3>3. kept \subseteq Nat
      BY <1>1, <3>1, BinFacts
    <3>4. PICK low : low = Deepest(focus) /\ low \in kept
      BY <3>2, <3>3, MinIsLowest
    <3>5. low \in Descent(limits) /\ Carried(runs, focus, low)
      BY <3>1, <3>4
    <3>6. start = StartBelow(low) /\ start # Unset
      BY <1>3, <1>4, <2>2, <3>4 DEF PhaseBStart
    <3>7. start \in Descent(limits)
      BY <1>1, <3>6, BelowFacts
    <3>8. {b \in Descent(limits) : b < low} # {} /\ start = NextBelow(Descent(limits), low)
      BY <3>6 DEF StartBelow, NextBelow
    <3> HIDE DEF kept
    <3> QED
      BY <3>5, <3>7, <3>8 DEF Backed
  <2> QED
    BY <2>1, <2>2
<1>6. Snap(start) = start
  <2>1. start \in Nat /\ start <= CapBin
    BY <1>1, <1>5, BinFacts
  <2> QED
    BY <1>1, <1>5, <2>1, SnapFacts
<1>7. /\ IsDescent(cur') /\ cur'.clock = focus /\ cur'.lowest = Unset /\ cur'.at = start
  BY <1>3, <1>4, <1>6 DEF IsDescent, NewDescent
<1>8. ScanShape'
  BY <1>1, <1>2, LimitsStay DEF ScanShape
<1>9. DescentOK'
  BY <1>2, <1>3, <1>5, <1>7, LimitsStay DEF DescentOK
<1>10. PrevOK' /\ LossOK'
  BY <1>2 DEF PrevOK, LossOK
<1> QED
  BY <1>2, <1>8, <1>9, <1>10, PointsStay, RunningStep

LEMMA EndsKeep == Running /\ (NoPhaseB \/ EndPhaseB \/ Finish \/ Killed) => ScanInv'
<1> SUFFICES ASSUME Running, NoPhaseB \/ EndPhaseB \/ Finish \/ Killed PROVE ScanInv'
  OBVIOUS
<1>1. LimitsOK /\ ScanShape
  BY DEF Running, ScanInv
<1>2. CASE NoPhaseB \/ EndPhaseB
  <2>1. /\ UNCHANGED <<limits, prev, points, runs, abort>>
        /\ scan' = [phase |-> scan.phase, step |-> "finish", i |-> scan.i]
    BY <1>1, <1>2 DEF NoPhaseB, EndPhaseB, Untouched, NoHardware, Go, ScanShape
  <2>2. ScanShape'
    BY <1>1, <2>1, LimitsStay DEF ScanShape
  <2>3. DescentOK' /\ PrevOK' /\ LossOK'
    BY <2>1 DEF DescentOK, PrevOK, LossOK
  <2> QED
    BY <2>1, <2>2, <2>3, PointsStay, RunningStep
<1>3. CASE Finish \/ Killed
  <2>1. scan'.step \in {"done", "dead"}
    BY <1>1, <1>3 DEF Finish, Killed, Go, ScanShape
  <2> QED
    BY <2>1 DEF ScanInv
<1> QED
  BY <1>2, <1>3

LEMMA ScanKeeps == ScanInv /\ [CommandNext]_cvars => ScanInv'
<1> SUFFICES ASSUME ScanInv, [CommandNext]_cvars PROVE ScanInv'
  OBVIOUS
<1>1. CASE Next /\ scan.step \in {"done", "dead"}
  BY <1>1 DEF Next, Descends, Schedules, Bounded, DrainedProbe, AbortedProbe, Probe, NotVerified, Verified,
     DwellUnstable, DwellLosesDevice, DwellStable, BeginClock, FallBack, EndClock, BeginPhaseB, NoPhaseB,
     EndPhaseB, Finish, Killed, MayProbe, At
<1>2. CASE Next /\ scan.step \notin {"done", "dead"}
  <2>1. Running
    BY <1>2 DEF Running
  <2> QED
    BY <1>2, <2>1, BeginClockKeeps, StopsKeep, ProbeKeeps, DwellStableKeeps, FallBackKeeps, EndClockKeeps,
       BeginPhaseBKeeps, EndsKeep DEF Next, Descends, Schedules
<1>3. CASE UNCHANGED fvars
  BY <1>3 DEF fvars, ScanInv, LimitsOK, LimitsValid, ScanShape, DescentOK, PrevOK, PointsOK, LossOK,
     Targets, Descent, FocusTargets
<1> QED
  BY <1>1, <1>2, <1>3 DEF CommandNext, cvars

LEMMA ScanInit == CommandInit => ScanInv
<1> SUFFICES ASSUME CommandInit PROVE ScanInv
  OBVIOUS
<1>1. CASE RunsLadder
  BY <1>1 DEF RunsLadder, ScanInv
<1>2. CASE RunsFrontier
  <2>1. LimitsOK
    BY <1>2 DEF RunsFrontier, Init, LimitsOK
  <2>2. ScanShape
    BY <1>2, <2>1, TargetFacts DEF RunsFrontier, Init, ScanShape
  <2> QED
    BY <1>2, <2>1, <2>2 DEF RunsFrontier, Init, ScanInv, DescentOK, PrevOK, PointsOK, LossOK
<1> QED
  BY <1>1, <1>2 DEF CommandInit

THEOREM ScanIsKnown == CommandSpec => []ScanInv
  BY ScanInit, ScanKeeps, PTL DEF CommandSpec

(* No load of build-frontier is a leap, in either phase: the bin is the    *)
(* top, or the one below a bin that carried this clock, or carried a       *)
(* harder one (warm_start_mv, phase_b_start_below).                        *)
THEOREM NoLoadIsALeap == CommandSpec => []LoadsAreSupported
<1>1. ScanInv => LoadsAreSupported
  <2> SUFFICES ASSUME ScanInv, At("dwell") PROVE LoadsAreSupported
    BY DEF LoadsAreSupported
  <2>1. Backed(runs, Descent(limits), cur.clock, cur.at)
    BY DEF ScanInv, At, DescentOK
  <2> QED
    BY <2>1 DEF Backed, Carried, NextBelow, LoadsAreSupported, CapBin, StartBelow, Ok
<1> QED
  BY <1>1, ScanIsKnown, PTL

(* Once a dwell has lost the device, the rest of the run arms nothing,     *)
(* writes nothing and loads nothing (real_probe_step).                     *)
THEOREM LossIsTheEnd == CommandSpec => LossEndsAllProbing
<1> DEFINE Quiet == abort => flag' \in {flag, Unset} /\ ceiling' \in {ceiling, Unset} /\ runs' \subseteq runs
<1>1. ScanInv /\ [CommandNext]_cvars => [Quiet]_fvars
  <2> SUFFICES ASSUME ScanInv, [CommandNext]_cvars, abort PROVE Quiet \/ UNCHANGED fvars
    OBVIOUS
  <2>1. CASE Next
    <3>1. scan.step \notin {"write", "dwell"} \/ scan.step \in {"done", "dead"}
      BY DEF ScanInv, LossOK
    <3> QED
      BY <2>1, <3>1 DEF Next, Descends, Schedules, Bounded, DrainedProbe, AbortedProbe, Probe, NotVerified,
         Verified, DwellUnstable, DwellLosesDevice, DwellStable, BeginClock, FallBack, EndClock, BeginPhaseB,
         NoPhaseB, EndPhaseB, Finish, Killed, NoHardware, At
  <2> QED
    BY <2>1 DEF CommandNext, cvars
<1>2. [][Quiet]_fvars => LossEndsAllProbing
  BY DEF LossEndsAllProbing
<1> QED
  BY <1>1, <1>2, ScanIsKnown, PTL DEF CommandSpec

-----------------------------------------------------------------------------
(* The ladder: what the log says of a clock.                               *)

LogOK(log) == IsFiniteSet(log) /\ \A o \in log : o.anchor \in Nat

(* The last good voltage is that of a validated line, above every voltage  *)
(* the log has seen that clock fail at.                                    *)
LEMMA LastGoodFacts ==
    ASSUME NEW log, LogOK(log), NEW target, Lad!LastGood(log, target) # Lad!None
    PROVE  /\ \E o \in log : Lad!IsValidated(o) /\ o.target = target /\ o.anchor = Lad!LastGood(log, target)
           /\ \A o \in log : o.target = target /\ o.kind # "ApplyQualification" /\ Lad!IsBad(o)
                            => o.anchor < Lad!LastGood(log, target)
<1> DEFINE goods == {o.anchor : o \in {x \in log :
                       x.target = target /\ Lad!IsValidated(x) /\ Lad!AboveFailures(log, target, x.anchor)}}
           bads  == Lad!BadAnchors(log, target)
<1>1. goods # {} /\ Lad!LastGood(log, target) = Min(goods)
  BY DEF Lad!LastGood, Lad!MinOrNone, Lad!Min, Min
<1>2. goods \subseteq Nat
  BY DEF LogOK
<1>3. PICK good \in Nat : good = Lad!LastGood(log, target) /\ good \in goods
  BY <1>1, <1>2, MinIsLowest
<1>4. PICK o \in log : /\ o.target = target /\ Lad!IsValidated(o) /\ o.anchor = good
                       /\ Lad!AboveFailures(log, target, good)
  BY <1>3
<1>5. IsFiniteSet(bads) /\ bads \subseteq Nat
  <2> DEFINE anchors == {x.anchor : x \in log}
             f == [x \in log |-> x.anchor]
  <2>1. f \in Surjection(log, anchors)
    BY DEF Surjection
  <2>2. IsFiniteSet(anchors)
    BY <2>1, FS_Surjection DEF LogOK
  <2>3. bads \subseteq anchors
    BY DEF Lad!BadAnchors
  <2> QED
    BY <2>2, <2>3, FS_Subset DEF LogOK
<1>6. ASSUME NEW x \in log, x.target = target, x.kind # "ApplyQualification", Lad!IsBad(x)
      PROVE  x.anchor < good
  <2>1. x.anchor \in bads
    BY <1>6 DEF Lad!BadAnchors
  <2>2. Max(bads) \in Nat /\ x.anchor <= Max(bads)
    BY <1>5, <2>1, MaxIsHighest
  <2>3. Lad!FirstBad(log, target) = Max(bads)
    BY <2>1 DEF Lad!FirstBad, Lad!MaxOrNone, Lad!Max, Max
  <2>4. good > Max(bads)
    BY <1>4, <2>2, <2>3 DEF Lad!AboveFailures, Lad!None
  <2> QED
    BY <1>5, <2>1, <2>2, <2>4
<1> QED
  BY <1>3, <1>4, <1>6

-----------------------------------------------------------------------------
(* The ladder's steps.                                                     *)

LadderShape ==
    /\ ladder \in Ladders
    /\ rung = [pc |-> rung.pc, i |-> rung.i, start |-> rung.start, todo |-> rung.todo,
               reports |-> rung.reports, prevGood |-> rung.prevGood]
    /\ rung.pc \in {"target", "step", "record", "unsafe"}
    /\ rung.i \in 0 .. Len(ladder) /\ (rung.pc # "target" => rung.i >= 1)
    /\ LogOK(obs) /\ losses \in Nat

Report == [bin : Nat, outcome : Lad!StepOutcomes]

(* What a clock has loaded is in its reports until it is on record.        *)
Reported(reports, l) == \E k \in DOMAIN reports : reports[k].bin = l.bin /\ reports[k].outcome = l.outcome

Logged(log, target, l) ==
    \E o \in log : o.target = target /\ o.anchor = l.bin /\ o.outcome = l.outcome /\ o.kind = "Discovery"

LoadsOnRecord ==
    /\ rung.reports \in Seq(Report)
    /\ \A l \in loads : l.i <= rung.i /\ l.i \in Nat
    /\ losses = 0 => \A l \in loads :
          l.i = rung.i => Reported(rung.reports, l) \/ Logged(obs, ladder[rung.i], l)

TodoOK == rung.pc = "step" => rung.todo # {} /\ rung.todo \subseteq Nat /\ IsFiniteSet(rung.todo)

(* Between two clocks the ladder knows what the log says of the one before.*)
BetweenClocks ==
    rung.pc = "target" =>
        /\ rung.reports = <<>>
        /\ rung.i = 0 => rung.prevGood = Lad!None /\ loads = {}
        /\ rung.i > 0 => rung.prevGood = Lad!LastGood(obs, ladder[rung.i])

LadderInv ==
    \/ rung.pc \in {"done", "dead"}
    \/ LadderShape /\ LoadsOnRecord /\ TodoOK /\ BetweenClocks /\ LadderStartIsKnown

Climbing == LadderInv /\ rung.pc \notin {"done", "dead"}

LEMMA LadderFacts ==
    ASSUME LadderShape
    PROVE  /\ Len(ladder) \in Nat /\ DOMAIN ladder = 1 .. Len(ladder)
           /\ \A n \in DOMAIN ladder : ladder[n] \in Nat /\ Raised[ladder[n]] \subseteq Nat
                                      /\ IsFiniteSet(Raised[ladder[n]])
<1>1. ladder \in Seq(Nat) /\ \A n \in DOMAIN ladder : ladder[n] \in DOMAIN Raised
  BY LadderAssumption DEF LadderShape
<1> QED
  BY <1>1, LadderAssumption

(* A clock begins: its start is the last good voltage of the clock before, *)
(* and all that clock failed at lies below it.                             *)
LEMMA BeginTargetKeeps == Climbing /\ Lad!BeginTarget => LadderInv'
<1> SUFFICES ASSUME Climbing, Lad!BeginTarget PROVE LadderInv'
  OBVIOUS
<1>1. /\ LadderShape /\ LoadsOnRecord /\ BetweenClocks
      /\ rung.pc = "target" /\ rung.i < Len(ladder) /\ UNCHANGED <<ladder, obs, held, losses>>
  BY DEF Climbing, LadderInv, Lad!BeginTarget
<1>2. PICK i : i = rung.i /\ i \in Nat /\ i < Len(ladder) /\ i + 1 \in DOMAIN ladder
  BY <1>1, LadderFacts DEF LadderShape
<1>3. PICK target, prior : target = ladder[i + 1] /\ prior = Lad!Prior
  OBVIOUS
<1>4. PICK bounds : bounds = Lad!Bounds(prior, target)
  OBVIOUS
<1>5. PICK bins : bins = Lad!Candidates(target, bounds)
  OBVIOUS
<1>6. \/ rung' = [rung EXCEPT !.pc = "done"]
      \/ /\ bins # {}
         /\ rung' = [rung EXCEPT !.pc = "step", !.i = i + 1, !.start = bounds.start,
                                 !.todo = bins, !.reports = <<>>]
  BY <1>1, <1>2, <1>3, <1>4, <1>5 DEF Lad!BeginTarget, Lad!Target, LadderShape
<1>7. CASE rung' = [rung EXCEPT !.pc = "done"]
  <2>1. rung'.pc = "done"
    BY <1>1, <1>7 DEF LadderShape
  <2> QED
    BY <2>1 DEF LadderInv
<1>8. CASE /\ bins # {}
           /\ rung' = [rung EXCEPT !.pc = "step", !.i = i + 1, !.start = bounds.start,
                                   !.todo = bins, !.reports = <<>>]
  <2>1. rung' = [pc |-> "step", i |-> i + 1, start |-> bounds.start, todo |-> bins,
                 reports |-> <<>>, prevGood |-> rung.prevGood]
    BY <1>1, <1>8 DEF LadderShape
  <2>2. loads' = {l \in loads : l.i = i}
    BY <1>2 DEF Lad!BeginTarget
  <2>3. LadderShape'
    BY <1>1, <1>2, <2>1 DEF LadderShape, LogOK
  <2>4. LoadsOnRecord'
    BY <1>1, <1>2, <2>1, <2>2 DEF LoadsOnRecord
  <2>5. TodoOK'
    <3>1. bins \subseteq Raised[target]
      BY <1>5 DEF Lad!Candidates
    <3>2. Raised[target] \subseteq Nat /\ IsFiniteSet(Raised[target])
      BY <1>1, <1>2, <1>3, LadderFacts
    <3> QED
      BY <1>8, <2>1, <3>1, <3>2, FS_Subset DEF TodoOK
  <2>6. BetweenClocks'
    BY <2>1 DEF BetweenClocks
  <2>7. LadderStartIsKnown'
    <3> SUFFICES ASSUME bounds.start # Lad!None PROVE LadderStartIsKnown'
      BY <2>1 DEF LadderStartIsKnown, Lad!None
    <3>1. i > 0 /\ target < ladder[i] /\ bounds.start = prior
      BY <1>2, <1>4 DEF Lad!Bounds, Lad!Target
    <3>2. prior = Lad!LastGood(obs, ladder[i])
      BY <1>1, <1>2, <1>3, <3>1 DEF Lad!Prior, Lad!Target, BetweenClocks
    <3>3. PICK clock : clock = ladder[i] /\ target < clock
      BY <3>1
    <3>4. prior # Lad!None /\ prior = Lad!LastGood(obs, clock)
      BY <3>1, <3>2, <3>3
    <3>5. LogOK(obs)
      BY <1>1 DEF LadderShape
    <3>6. /\ \E o \in obs : Lad!IsValidated(o) /\ o.target = clock /\ o.anchor = prior
          /\ \A o \in obs : o.target = clock /\ o.kind # "ApplyQualification" /\ Lad!IsBad(o)
                           => o.anchor < prior
      BY <3>4, <3>5, LastGoodFacts
    <3>7. losses = 0 => \A l \in loads : l.i = i /\ l.outcome = "Unstable" => l.bin < prior
      <4> SUFFICES ASSUME losses = 0, NEW l \in loads, l.i = i, l.outcome = "Unstable" PROVE l.bin < prior
        OBVIOUS
      <4>1. ~ Reported(<<>>, l)
        BY DEF Reported
      <4>2. Logged(obs, clock, l)
        BY <1>1, <1>2, <3>3, <4>1 DEF LoadsOnRecord, BetweenClocks
      <4> QED
        BY <3>6, <4>2 DEF Logged, Lad!IsBad, Lad!BadOutcomes
    <3>8. rung'.i > 1 /\ rung'.i - 1 = i /\ rung'.start = prior /\ rung'.i = i + 1
      BY <1>2, <2>1, <3>1
    <3> QED
      BY <1>1, <1>2, <1>3, <2>2, <3>3, <3>6, <3>7, <3>8 DEF LadderStartIsKnown, Lad!IsValidated
  <2> QED
    BY <2>3, <2>4, <2>5, <2>6, <2>7 DEF LadderInv
<1> QED
  BY <1>6, <1>7, <1>8

(* A candidate is tried: its load is reported.                             *)
LEMMA CandidateKeeps == Climbing /\ Lad!Candidate => LadderInv'
<1> SUFFICES ASSUME Climbing, Lad!Candidate PROVE LadderInv'
  OBVIOUS
<1>1. /\ LadderShape /\ LoadsOnRecord /\ TodoOK /\ LadderStartIsKnown
      /\ rung.pc = "step" /\ UNCHANGED <<ladder, obs, losses>>
  BY DEF Climbing, LadderInv, Lad!Candidate
<1>2. PICK i, bin : i = rung.i /\ i \in Nat /\ bin = Lad!Bin
  BY <1>1, LadderFacts DEF LadderShape
<1>3. bin \in Nat /\ bin \in rung.todo
  <2>1. bin = Max(rung.todo)
    BY <1>2 DEF Lad!Bin, Lad!Max, Max
  <2> QED
    BY <1>1, <2>1, MaxIsHighest DEF TodoOK
<1>4. PICK outcome, pc :
        /\ outcome \in Lad!StepOutcomes /\ pc \in {"step", "record"}
        /\ pc = "step" => rung.todo # {bin}
        /\ loads' = loads \cup {[i |-> i, bin |-> bin, outcome |-> outcome]}
        /\ rung' = [rung EXCEPT !.pc = pc, !.todo = @ \ {bin},
                                !.reports = Append(@, [bin |-> bin, outcome |-> outcome])]
  <2>1. PICK outcome \in Lad!StepOutcomes :
           /\ loads' = loads \cup {[i |-> rung.i, bin |-> Lad!Bin, outcome |-> outcome]}
           /\ LET on == outcome = "Validated" /\ rung.todo # {Lad!Bin}
              IN rung' = [rung EXCEPT !.pc = IF on THEN "step" ELSE "record", !.todo = @ \ {Lad!Bin},
                                      !.reports = Append(@, [bin |-> Lad!Bin, outcome |-> outcome])]
    BY DEF Lad!Candidate
  <2>2. PICK pc : pc = IF outcome = "Validated" /\ rung.todo # {bin} THEN "step" ELSE "record"
    OBVIOUS
  <2> QED
    BY <1>2, <2>1, <2>2
<1>5. PICK report, load : /\ report = [bin |-> bin, outcome |-> outcome]
                          /\ load = [i |-> i, bin |-> bin, outcome |-> outcome]
  OBVIOUS
<1>6. rung' = [pc |-> pc, i |-> i, start |-> rung.start, todo |-> rung.todo \ {bin},
               reports |-> Append(rung.reports, report), prevGood |-> rung.prevGood]
  BY <1>1, <1>2, <1>4, <1>5 DEF LadderShape
<1>7. LadderShape'
  BY <1>1, <1>2, <1>4, <1>6 DEF LadderShape, LogOK
<1>8. LoadsOnRecord'
  <2>1. report \in Report
    BY <1>3, <1>4, <1>5 DEF Report
  <2>2. PICK reports \in Seq(Report) : reports = rung.reports
    BY <1>1 DEF LoadsOnRecord
  <2>3. /\ rung'.reports = Append(reports, report) /\ Append(reports, report) \in Seq(Report)
        /\ Len(reports) \in Nat /\ DOMAIN reports = 1 .. Len(reports)
        /\ DOMAIN Append(reports, report) = 1 .. Len(reports) + 1
        /\ Append(reports, report)[Len(reports) + 1] = report
        /\ \A k \in DOMAIN reports : Append(reports, report)[k] = reports[k]
    BY <1>6, <2>1, <2>2
  <2>4. \A l : Reported(reports, l) => Reported(rung'.reports, l)
    BY <2>3 DEF Reported
  <2>5. Reported(rung'.reports, load)
    BY <1>5, <2>3 DEF Reported
  <2>6. rung'.reports \in Seq(Report)'
    BY <2>3 DEF Report, Lad!StepOutcomes
  <2>7. \A l \in loads' : l.i <= rung'.i /\ l.i \in Nat
    BY <1>1, <1>2, <1>4, <1>6 DEF LoadsOnRecord
  <2>8. ASSUME losses' = 0, NEW l \in loads', l.i = rung'.i
        PROVE  Reported(rung'.reports, l) \/ Logged(obs', ladder'[rung'.i], l)
    <3>1. CASE l = load
      BY <2>5, <3>1
    <3>2. CASE l \in loads
      <4>1. Reported(reports, l) \/ Logged(obs, ladder[i], l)
        BY <1>1, <1>2, <1>6, <2>2, <2>8, <3>2 DEF LoadsOnRecord
      <4> QED
        BY <1>1, <1>6, <2>4, <4>1
    <3> QED
      BY <1>4, <1>5, <2>8, <3>1, <3>2
  <2> QED
    BY <2>6, <2>7, <2>8 DEF LoadsOnRecord
<1>9. TodoOK'
  <2>1. IsFiniteSet(rung.todo \ {bin})
    BY <1>1, FS_RemoveElement DEF TodoOK
  <2> QED
    BY <1>1, <1>3, <1>4, <1>6, <2>1 DEF TodoOK
<1>10. BetweenClocks'
  BY <1>4, <1>6 DEF BetweenClocks
<1>11. LadderStartIsKnown'
  BY <1>1, <1>2, <1>4, <1>6 DEF LadderStartIsKnown, Lad!IsValidated, Lad!None
<1> QED
  BY <1>7, <1>8, <1>9, <1>10, <1>11 DEF LadderInv

(* A report is written to the log, or its line is lost.                    *)
LEMMA RecordLineKeeps == Climbing /\ Lad!RecordLine => LadderInv'
<1> SUFFICES ASSUME Climbing, Lad!RecordLine PROVE LadderInv'
  OBVIOUS
<1>1. /\ LadderShape /\ LoadsOnRecord /\ rung.pc = "record" /\ rung.reports # <<>>
      /\ UNCHANGED <<ladder, loads>>
  BY DEF Climbing, LadderInv, Lad!RecordLine
<1>2. PICK i, reports : /\ i = rung.i /\ i \in Nat /\ i >= 1
                        /\ reports = rung.reports /\ reports \in Seq(Report) /\ reports # <<>>
  BY <1>1, LadderFacts DEF LadderShape, LoadsOnRecord
<1>3. PICK report, line : /\ report = Head(reports) /\ report \in Report
                          /\ line = Lad!Line(report)
  BY <1>2
<1>4. /\ line.target = ladder[i] /\ line.anchor = report.bin /\ line.outcome = report.outcome
      /\ line.kind = "Discovery" /\ line.anchor \in Nat
  BY <1>2, <1>3 DEF Lad!Line, Lad!Target, Report
<1>5. PICK pc : /\ pc \in {"record", "unsafe"}
                /\ rung' = [pc |-> pc, i |-> i, start |-> rung.start, todo |-> rung.todo,
                            reports |-> Tail(reports), prevGood |-> rung.prevGood]
  <2>1. PICK pc : pc = IF Head(rung.reports).outcome \in Lad!SafetyFailures THEN "unsafe" ELSE rung.pc
    OBVIOUS
  <2>2. rung' = [rung EXCEPT !.reports = Tail(reports), !.pc = pc]
    BY <1>2, <2>1 DEF Lad!RecordLine
  <2> QED
    BY <1>1, <1>2, <2>1, <2>2 DEF LadderShape
<1>6. \/ obs' = obs \cup {line} /\ losses' = losses
      \/ obs' = obs /\ losses' = losses + 1
  BY <1>2, <1>3 DEF Lad!RecordLine
<1>7. LogOK(obs')
  BY <1>1, <1>4, <1>6, FS_AddElement DEF LadderShape, LogOK
<1>8. LadderShape'
  BY <1>1, <1>2, <1>5, <1>6, <1>7 DEF LadderShape
<1>9. LoadsOnRecord'
  <2>1. /\ Tail(reports) \in Seq(Report) /\ Len(reports) \in Nat /\ Len(reports) >= 1
        /\ DOMAIN reports = 1 .. Len(reports) /\ DOMAIN Tail(reports) = 1 .. Len(reports) - 1
        /\ \A k \in 1 .. Len(reports) - 1 : Tail(reports)[k] = reports[k + 1]
        /\ reports[1] = report
    BY <1>2, <1>3
  <2>2. ASSUME losses' = 0, NEW l \in loads, l.i = i
        PROVE  Reported(Tail(reports), l) \/ Logged(obs', ladder[i], l)
    <3>1. losses = 0 /\ obs' = obs \cup {line}
      BY <1>1, <1>6, <2>2 DEF LadderShape
    <3>2. Reported(reports, l) \/ Logged(obs, ladder[i], l)
      BY <1>1, <1>2, <2>2, <3>1 DEF LoadsOnRecord
    <3>3. CASE Logged(obs, ladder[i], l)
      BY <3>1, <3>3 DEF Logged
    <3>4. CASE Reported(reports, l)
      <4>1. PICK k \in 1 .. Len(reports) : reports[k].bin = l.bin /\ reports[k].outcome = l.outcome
        BY <2>1, <3>4 DEF Reported
      <4>2. CASE k = 1
        BY <1>4, <2>1, <3>1, <4>1, <4>2 DEF Logged
      <4>3. CASE k # 1
        <5>1. k - 1 \in 1 .. Len(reports) - 1 /\ Tail(reports)[k - 1] = reports[k]
          BY <2>1, <4>1, <4>3
        <5> QED
          BY <2>1, <4>1, <5>1 DEF Reported
      <4> QED
        BY <4>2, <4>3
    <3> QED
      BY <3>2, <3>3, <3>4
  <2>3. Tail(reports) \in Seq(Report)'
    BY <2>1 DEF Report, Lad!StepOutcomes
  <2> QED
    BY <1>1, <1>2, <1>5, <2>2, <2>3 DEF LoadsOnRecord
<1>10. TodoOK' /\ BetweenClocks' /\ LadderStartIsKnown'
  BY <1>5 DEF TodoOK, BetweenClocks, LadderStartIsKnown
<1> QED
  BY <1>8, <1>9, <1>10 DEF LadderInv

LEMMA RestOfLadderKeeps ==
    Climbing /\ (Lad!LadderDone \/ Lad!CandidateRefused \/ Lad!TargetRecorded \/ Lad!Dies) => LadderInv'
<1> SUFFICES ASSUME Climbing,
                    Lad!LadderDone \/ Lad!CandidateRefused \/ Lad!TargetRecorded \/ Lad!Dies
             PROVE  LadderInv'
  OBVIOUS
<1>1. LadderShape /\ LoadsOnRecord /\ UNCHANGED <<ladder, obs, loads, losses>>
  BY DEF Climbing, LadderInv, Lad!LadderDone, Lad!CandidateRefused, Lad!TargetRecorded, Lad!Dies
<1>2. CASE Lad!LadderDone \/ Lad!Dies \/ (Lad!TargetRecorded /\ rung.pc = "unsafe")
  <2>1. rung'.pc \in {"done", "dead"}
    BY <1>1, <1>2 DEF LadderShape, Lad!LadderDone, Lad!Dies, Lad!TargetRecorded
  <2> QED
    BY <2>1 DEF LadderInv
<1>3. CASE Lad!CandidateRefused
  <2>1. /\ rung.pc = "step"
        /\ rung' = [pc |-> "record", i |-> rung.i, start |-> rung.start, todo |-> rung.todo,
                    reports |-> rung.reports, prevGood |-> rung.prevGood]
    BY <1>1, <1>3 DEF LadderShape, Lad!CandidateRefused
  <2>2. LadderShape'
    BY <1>1, <2>1 DEF LadderShape, LogOK
  <2>3. LoadsOnRecord'
    BY <1>1, <2>1 DEF LoadsOnRecord, Report, Reported, Logged, Lad!StepOutcomes
  <2>4. TodoOK' /\ BetweenClocks' /\ LadderStartIsKnown'
    BY <2>1 DEF TodoOK, BetweenClocks, LadderStartIsKnown
  <2> QED
    BY <2>2, <2>3, <2>4 DEF LadderInv
<1>4. CASE Lad!TargetRecorded /\ rung.pc # "unsafe"
  <2>1. rung.pc = "record" /\ rung.reports = <<>> /\ rung.i >= 1
    BY <1>1, <1>4 DEF Lad!TargetRecorded, LadderShape
  <2>2. PICK good : good = Lad!LastGood(obs, ladder[rung.i])
    OBVIOUS
  <2>3. rung' = [pc |-> "target", i |-> rung.i, start |-> rung.start, todo |-> {},
                 reports |-> <<>>, prevGood |-> good]
    BY <1>1, <1>4, <2>1, <2>2 DEF Lad!TargetRecorded, Lad!Target, LadderShape
  <2>4. LadderShape'
    BY <1>1, <2>3 DEF LadderShape, LogOK
  <2>5. LoadsOnRecord'
    BY <1>1, <2>1, <2>3 DEF LoadsOnRecord, Report, Reported, Logged, Lad!StepOutcomes
  <2>6. good' = Lad!LastGood(obs', ladder'[rung'.i])
    BY <1>1, <2>2, <2>3
  <2>7. BetweenClocks'
    BY <1>1, <2>1, <2>3, <2>6, LadderFacts DEF BetweenClocks, LadderShape
  <2>8. TodoOK' /\ LadderStartIsKnown'
    BY <2>3 DEF TodoOK, LadderStartIsKnown
  <2> QED
    BY <2>4, <2>5, <2>7, <2>8 DEF LadderInv
<1> QED
  BY <1>2, <1>3, <1>4

LEMMA LadderKeeps == LadderInv /\ [CommandNext]_cvars => LadderInv'
<1> SUFFICES ASSUME LadderInv, [CommandNext]_cvars PROVE LadderInv'
  OBVIOUS
<1>1. CASE Lad!Next /\ rung.pc \in {"done", "dead"}
  BY <1>1 DEF Lad!Next, Lad!Climbs, Lad!BeginTarget, Lad!LadderDone, Lad!CandidateRefused, Lad!Candidate,
     Lad!RecordLine, Lad!TargetRecorded, Lad!Dies
<1>2. CASE Lad!Next /\ rung.pc \notin {"done", "dead"}
  <2>1. Climbing
    BY <1>2 DEF Climbing
  <2> QED
    BY <1>2, <2>1, BeginTargetKeeps, CandidateKeeps, RecordLineKeeps, RestOfLadderKeeps
       DEF Lad!Next, Lad!Climbs
<1>3. CASE UNCHANGED ladvars
  <2>1. UNCHANGED <<ladder, rung, obs, loads, losses>>
    BY <1>3 DEF ladvars
  <2>2. LadderShape => LadderShape'
    BY <2>1 DEF LadderShape, LogOK
  <2>3. LoadsOnRecord => LoadsOnRecord'
    BY <2>1 DEF LoadsOnRecord, Report, Reported, Logged, Lad!StepOutcomes
  <2>4. (TodoOK => TodoOK') /\ (LadderStartIsKnown => LadderStartIsKnown')
    BY <2>1 DEF TodoOK, LadderStartIsKnown, Lad!IsValidated, Lad!None
  <2>5. BetweenClocks => BetweenClocks'
    <3>1. PICK good : good = Lad!LastGood(obs, ladder[rung.i])
      OBVIOUS
    <3>2. good' = Lad!LastGood(obs', ladder'[rung'.i])
      BY <2>1, <3>1
    <3> QED
      BY <2>1, <3>1, <3>2 DEF BetweenClocks, Lad!None
  <2> QED
    BY <2>1, <2>2, <2>3, <2>4, <2>5 DEF LadderInv
<1> QED
  BY <1>1, <1>2, <1>3 DEF CommandNext, cvars

LEMMA LadderInit == CommandInit => LadderInv
<1> SUFFICES ASSUME CommandInit PROVE LadderInv
  OBVIOUS
<1>1. CASE RunsFrontier
  BY <1>1 DEF RunsFrontier, LadderInv, Lad!IdleRung
<1>2. CASE RunsLadder
  <2>1. /\ ladder \in Ladders /\ rung = Lad!IdleRung /\ obs \in Histories /\ loads = {} /\ losses = 0
    BY <1>2 DEF RunsLadder, Lad!Init
  <2>2. ladder \in Seq(Nat) /\ Len(ladder) \in Nat
    BY <2>1, LadderAssumption
  <2>3. LadderShape
    BY <2>1, <2>2, LadderAssumption DEF LadderShape, Lad!IdleRung, LogOK
  <2> QED
    BY <2>1, <2>3 DEF LadderInv, LoadsOnRecord, TodoOK, BetweenClocks, LadderStartIsKnown, Lad!IdleRung
<1> QED
  BY <1>1, <1>2 DEF CommandInit

(* Wherever the ladder starts a clock below the top, the clock before it,  *)
(* a higher one, has held there by the log; and it has not failed there or *)
(* above in this run, unless a line of the log was lost                    *)
(* (ladder_target_descent_bounds, record_target_sweep).                    *)
THEOREM LadderStartsWhereItHeld == CommandSpec => []LadderStartIsKnown
<1>1. LadderInv => LadderStartIsKnown
  BY DEF LadderInv, LadderStartIsKnown
<1> QED
  BY <1>1, LadderInit, LadderKeeps, PTL DEF CommandSpec
==============================================================================
