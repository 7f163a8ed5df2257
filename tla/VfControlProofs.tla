-------------------------- MODULE VfControlProofs ---------------------------
(***************************************************************************)
(* What module VfControl promises of the card, for every table, every      *)
(* target and every number of jobs and faults: no Apply and no search      *)
(* overclocks a bin on its way, an Apply that succeeds is the one asked    *)
(* for, a confirmed reset is a reset, and a probe's ceiling holds.         *)
(***************************************************************************)
EXTENDS VfControl, FiniteSetTheorems, WellFoundedInduction, TLAPS

Kinds == Anchored \cup {"simple", "core"} \cup F1Probes

(* What the planners promise of a plan.                                    *)
IsPlan(plan) == /\ plan \in [DOMAIN plan -> Int]
                /\ DOMAIN plan \subseteq Bins
                /\ DOMAIN plan # {}

(* No bin of the undervolt is raised beyond the target.                    *)
Modest(offset, clock, target) == offset <= 0 \/ clock + offset <= target

-----------------------------------------------------------------------------
(* The inductive invariant.                                                *)

TypeOK ==
    /\ base \in Tables
    /\ gpu \in [off : [Bins -> Int], lock : Bins \cup {None}, cap : Targets \cup {None}, core : Int]
    /\ spent \in [jobs : Nat, faults : Nat]

(* Which job is where, and what it then knows: its bin and its plan once   *)
(* it has planned, and something left to write while it writes.            *)
JobOK ==
    /\ job = [kind |-> job.kind, pc |-> job.pc, target |-> job.target,
              bin |-> job.bin, plan |-> job.plan, todo |-> job.todo]
    /\ job.pc = "idle" => job = NoJob
    /\ job.pc # "idle" => job.kind \in Kinds /\ job.target \in Targets /\ last = NoEnd
    /\ job.pc = "prereset" => job.kind = "apply"
    /\ job.kind = "core" => job.pc = "write"
    /\ job.kind \in F1Probes => job.pc \in {"write", "verify", "dwell", "undo"}
    /\ job.pc \notin {"idle", "prereset"} =>
          /\ job.bin \in Bins
          /\ job.kind \in Anchored => job.bin \in SaneBins
          /\ job.plan # None => IsPlan(job.plan)
    /\ job.pc = "write" => job.plan # None /\ job.todo \subseteq DOMAIN job.plan /\ job.todo # {}

(* An Apply or a candidate of a search writes a card that was stock, with  *)
(* a plan that raises no bin beyond the target and leaves the bins of      *)
(* other rails alone.                                                      *)
CardOK ==
    job.kind \in {"apply", "candidate"} /\ job.pc # "prereset" =>
        /\ gpu.core = 0
        /\ \A b \in Bins : Modest(gpu.off[b], base[b], job.target)
        /\ \A b \in Bins \ SaneBins : gpu.off[b] = 0
        /\ job.plan # None =>
              /\ DOMAIN job.plan \subseteq SaneBins
              /\ \A b \in DOMAIN job.plan : Modest(job.plan[b], base[b], job.target)

(* The rail is locked before the first bin is written, and the clock is    *)
(* capped only after the table has been read back.                         *)
ApplyOK ==
    job.kind = "apply" =>
        /\ job.pc \in {"write", "verify", "cap"} => gpu.lock = job.bin
        /\ job.pc = "cap" =>
              /\ base[job.bin] + gpu.off[job.bin] \in job.target - VerifyTol .. job.target + VerifyTol
              /\ \A b \in (SaneBins \cap Bins) \ {job.bin} :
                    gpu.off[b] <= VerifyTol /\ base[b] + gpu.off[b] <= job.target + VerifyTol

(* A probe that no driver call has failed has on the card what its plan    *)
(* says of the bins it is done with, and nothing else lifts a bin.         *)
ProbeOK ==
    spent.faults = 0 =>
        /\ gpu.core = 0
        /\ job.kind \in F1Probes =>
              /\ job.plan = MonotonePlan(base, job.bin, job.target)
              /\ job.pc = "write" => \A b \in Bins \ job.todo : gpu.off[b] = job.plan[b]
              /\ job.pc \in {"verify", "dwell"} => \A b \in Bins : gpu.off[b] = job.plan[b]

LastOK == AppliedIsThePlan /\ ConfirmedErrorIsStock

VfOK == TypeOK /\ JobOK /\ CardOK /\ ApplyOK /\ ProbeOK /\ LastOK

-----------------------------------------------------------------------------
(* Minima and maxima.                                                      *)

(* The smaller and the larger of two numbers.                              *)
LEMMA MinTwo ==
    ASSUME NEW x \in Int, NEW y \in Int
    PROVE  Min({x, y}) \in {x, y} /\ Min({x, y}) <= x /\ Min({x, y}) <= y
  BY DEF Min

LEMMA MaxTwo ==
    ASSUME NEW x \in Int, NEW y \in Int
    PROVE  Max({x, y}) \in {x, y} /\ Max({x, y}) >= x /\ Max({x, y}) >= y
  BY DEF Max

(* A set of voltages that is not empty has a lowest one.                   *)
LEMMA MinMember ==
    ASSUME NEW S \in SUBSET Nat, S # {}
    PROVE  Min(S) \in S /\ \A y \in S : Min(S) <= y
<1>1. \E x \in S : \A y \in S : ~ (<<y, x>> \in OpToRel(<, Nat))
  BY NatLessThanWellFounded, WFMin
<1>2. \A x, y \in Nat : <<y, x>> \in OpToRel(<, Nat) <=> y < x
  BY DEF OpToRel
<1>3. \E x \in S : \A y \in S : ~ (y < x)
  BY <1>1, <1>2, Zenon
<1>4. \E x \in S : \A y \in S : x <= y
  BY <1>3
<1> QED
  BY <1>4 DEF Min

-----------------------------------------------------------------------------
(* What the planners return (module VfTable).                              *)

(* An anchored plan covers the core bins of the table, its anchor is one   *)
(* of them, and it lifts none beyond the target.                           *)
LEMMA AnchoredPlanIsModest ==
    ASSUME NEW t, t \in [DOMAIN t -> Nat], DOMAIN t \subseteq Nat,
           NEW bin, NEW target \in Nat, NEW prev, NEW limits,
           NEW plan, plan = AnchoredPlan(Sane(t), bin, target, prev, limits), plan # None
    PROVE  /\ bin \in DOMAIN t \cap SaneBins
           /\ plan \in [DOMAIN t \cap SaneBins -> Int]
           /\ \A b \in DOMAIN plan : Modest(plan[b], t[b], target)
<1> DEFINE s == Sane(t)
           R(b) == Raise(s, b, target)
           p == [b \in DOMAIN s |-> IF b = bin THEN R(b) ELSE IF b > bin THEN Min({0, R(b)}) ELSE 0]
<1>1. DOMAIN s = DOMAIN t \cap SaneBins /\ \A b \in DOMAIN s : s[b] = t[b] /\ s[b] \in Nat /\ b \in Nat
  BY DEF Sane
<1>2. bin \in DOMAIN s /\ plan = p
  BY DEF AnchoredPlan, RaiseAllowed
<1>3. \A b \in DOMAIN s : R(b) = target - t[b] /\ R(b) \in Int
  BY <1>1 DEF Raise
<1>4. \A b \in DOMAIN s : Min({0, R(b)}) \in Int /\ Min({0, R(b)}) <= 0
  <2> SUFFICES ASSUME NEW b \in DOMAIN s PROVE Min({0, R(b)}) \in Int /\ Min({0, R(b)}) <= 0
    OBVIOUS
  <2>1. R(b) \in Int
    BY <1>3
  <2> HIDE DEF R
  <2> QED
    BY <2>1, MinTwo
<1> HIDE DEF R, s
<1>5. \A b \in DOMAIN s : p[b] \in Int /\ Modest(p[b], t[b], target)
  BY <1>1, <1>3, <1>4 DEF Modest
<1>6. p \in [DOMAIN s -> Int]
  BY <1>5
<1> QED
  BY <1>1, <1>2, <1>5, <1>6

(* A ceiling from the static table covers every bin, and holds it down to  *)
(* the target from the ceiling on.                                         *)
LEMMA MonotonePlanCaps ==
    ASSUME NEW t, t \in [DOMAIN t -> Nat], NEW ceiling, NEW target \in Nat
    PROVE  /\ MonotonePlan(t, ceiling, target) \in [DOMAIN t -> Int]
           /\ \A b \in DOMAIN t :
                 b >= ceiling => t[b] + MonotonePlan(t, ceiling, target)[b] <= target
<1> DEFINE M(b) == Min({0, target - t[b]})
<1>1. \A b \in DOMAIN t : M(b) \in Int /\ M(b) <= 0 /\ M(b) <= target - t[b]
  <2> SUFFICES ASSUME NEW b \in DOMAIN t
               PROVE M(b) \in Int /\ M(b) <= 0 /\ M(b) <= target - t[b]
    OBVIOUS
  <2>1. target - t[b] \in Int
    OBVIOUS
  <2> QED
    BY <2>1, MinTwo
<1>2. MonotonePlan(t, ceiling, target) = [b \in DOMAIN t |-> IF b >= ceiling THEN M(b) ELSE 0]
  BY DEF MonotonePlan
<1> HIDE DEF M
<1> QED
  BY <1>1, <1>2

(* The bin a voltage falls on is a bin of the table.                       *)
LEMMA NearestBinIsABin ==
    ASSUME NEW bins \in SUBSET Nat, NEW v \in bins
    PROVE  NearestBin(bins, v) \in bins
<1> DEFINE above == {b \in bins : b >= v}
<1>1. above \in SUBSET Nat /\ v \in above
  <2>1. v \in Nat /\ v >= v
    OBVIOUS
  <2> QED
    BY <2>1
<1>2. Min(above) \in above
  BY <1>1, MinMember
<1> QED
  BY <1>1, <1>2 DEF NearestBin

(* The steps of a descent are bins of the table.                           *)
LEMMA DescentStays ==
    ASSUME NEW anchored, NEW table, NEW target, NEW start, NEW limits, NEW budget
    PROVE  Descent(anchored, table, target, start, limits, budget) \subseteq DOMAIN table
  BY DEF Descent

-----------------------------------------------------------------------------
(* What the invariant says at a glance.                                    *)

(* The card's table is one of those the assumption is about, and what a    *)
(* bin runs at is a number.                                                *)
LEMMA CardFacts ==
    ASSUME TypeOK
    PROVE  /\ Bins \in SUBSET Nat /\ Bins # {}
           /\ base \in [Bins -> Nat]
           /\ None \notin [Bins -> Int]
           /\ \A b \in Bins : Effective(b) \in Int
<1>1. /\ DOMAIN base # {} /\ DOMAIN base \subseteq Nat /\ base \in [DOMAIN base -> Nat]
      /\ None \notin [DOMAIN base -> Int]
  BY TablesAssumption DEF TypeOK
<1>2. \A b \in Bins : base[b] \in Nat
  BY <1>1 DEF Bins
<1>3. gpu.core \in Int /\ \A b \in Bins : gpu.off[b] \in Int
  BY DEF TypeOK
<1>4. \A b \in Bins : Effective(b) \in Int
  BY <1>2, <1>3 DEF Effective
<1>5. Bins \in SUBSET Nat /\ Bins # {}
  BY <1>1, Zenon DEF Bins
<1>6. base \in [Bins -> Nat] /\ None \notin [Bins -> Int]
  BY <1>1, Zenon DEF Bins
<1> QED
  BY <1>4, <1>5, <1>6

(* A job of any kind begins: what it is asked for and what it has planned  *)
(* is all the invariant needs to know.                                     *)
LEMMA BeginKeeps ==
    ASSUME VfOK, MayBegin,
           NEW kind \in Kinds, NEW pc, NEW target \in Targets, NEW bin, NEW plan,
           Begins(kind, pc, target, bin, plan),
           \/ kind = "apply" /\ pc = "prereset"
           \/ /\ pc \in {"lock", "write"}
              /\ kind # "apply" /\ bin \in Bins
              /\ pc = "write" => plan # None
              /\ kind = "core" \/ kind \in F1Probes => pc = "write"
              /\ kind \in Anchored => bin \in SaneBins
              /\ plan # None => IsPlan(plan)
              /\ kind \in F1Probes => plan = MonotonePlan(base, bin, target) /\ DOMAIN plan = Bins,
           kind = "candidate" =>
              /\ gpu = Stock
              /\ plan # None => /\ DOMAIN plan \subseteq SaneBins
                                /\ \A b \in DOMAIN plan : Modest(plan[b], base[b], target)
    PROVE  VfOK'
<1> USE DEF Begins
<1>1. TypeOK'
  BY DEF VfOK, TypeOK, Bins
<1>2. JobOK'
  BY DEF VfOK, JobOK, IsPlan, Bins, Kinds, Anchored, F1Probes
<1>3. CardOK'
  <2>1. CASE kind = "candidate"
    BY <2>1, CardFacts DEF VfOK, CardOK, Bins, Stock, Modest
  <2>2. CASE kind # "candidate"
    BY <2>2 DEF CardOK
  <2> QED
    BY <2>1, <2>2
<1>4. ApplyOK'
  BY DEF ApplyOK, F1Probes
<1>5. ProbeOK'
  <2>1. spent'.faults = spent.faults
    BY DEF VfOK, TypeOK
  <2> QED
    BY <2>1 DEF VfOK, ProbeOK, F1Probes, Bins
<1>6. LastOK'
  BY TablesAssumption DEF LastOK, AppliedIsThePlan, ConfirmedErrorIsStock, NoEnd
<1> QED
  BY <1>1, <1>2, <1>3, <1>4, <1>5, <1>6 DEF VfOK

-----------------------------------------------------------------------------
(* Every way to begin a job.                                               *)

LEMMA SaneBase ==
    ASSUME TypeOK
    PROVE  /\ DOMAIN Sane(base) = Bins \cap SaneBins
           /\ DOMAIN base = Bins /\ Bins \subseteq Nat /\ base \in [DOMAIN base -> Nat]
  BY CardFacts DEF Sane, Bins

(* An undervolt that plans on the static table and starts at its anchor.   *)
LEMMA BeginAnchoredKeeps ==
    ASSUME VfOK, MayBegin,
           NEW kind \in {"candidate", "step", "prior"}, NEW target \in Targets,
           NEW bin \in Bins \cap SaneBins, NEW prev, NEW limits, NEW plan,
           plan = AnchoredPlan(Sane(base), bin, target, prev, limits),
           kind = "candidate" => gpu = Stock,
           Begins(kind, "lock", target, bin, plan)
    PROVE  VfOK'
<1>1. target \in Nat
  BY TablesAssumption
<1>2. plan # None => /\ plan \in [Bins \cap SaneBins -> Int]
                     /\ \A b \in DOMAIN plan : Modest(plan[b], base[b], target)
  BY <1>1, SaneBase, AnchoredPlanIsModest, Zenon DEF VfOK
<1>3. plan # None => IsPlan(plan) /\ DOMAIN plan \subseteq SaneBins
  BY <1>2 DEF IsPlan
<1>4. kind \in Kinds
  BY DEF Kinds, Anchored
<1> QED
  BY <1>2, <1>3, <1>4, BeginKeeps DEF F1Probes

LEMMA BeginApplyKeeps == VfOK /\ BeginApply => VfOK'
<1> SUFFICES ASSUME VfOK, BeginApply PROVE VfOK'
  OBVIOUS
<1>1. PICK t \in Targets : \E a : Begins("apply", "prereset", t, a, None)
  BY DEF BeginApply
<1>2. PICK a : Begins("apply", "prereset", t, a, None)
  BY <1>1
<1>3. "apply" \in Kinds /\ MayBegin
  BY DEF Kinds, Anchored, BeginApply
<1> QED
  BY <1>2, <1>3, BeginKeeps

LEMMA BeginCandidateKeeps == VfOK /\ BeginCandidate => VfOK'
<1> SUFFICES ASSUME VfOK, BeginCandidate PROVE VfOK'
  OBVIOUS
<1>1. PICK t \in Targets, dip \in Dips, discovery \in BOOLEAN :
         LET table  == Sane(base)
             seed   == SeedFrom(Live(dip))
             limits == IF discovery THEN HardwareFrontier(table, seed.boost) ELSE Conservative(seed.boost)
             chain  == Descent(TRUE, table, t, Max(Bins), limits, Cardinality(Bins))
         IN /\ seed # None
            /\ \E bin \in chain :
                  Begins("candidate", "lock", t, bin,
                         AnchoredPlan(table, bin, t, ChainedPrev(table, t, chain, bin, 0), limits))
  BY DEF BeginCandidate
<1> DEFINE table  == Sane(base)
           seed   == SeedFrom(Live(dip))
           limits == IF discovery THEN HardwareFrontier(table, seed.boost) ELSE Conservative(seed.boost)
           chain  == Descent(TRUE, table, t, Max(Bins), limits, Cardinality(Bins))
<1>2. PICK bin \in chain : Begins("candidate", "lock", t, bin,
                                  AnchoredPlan(table, bin, t, ChainedPrev(table, t, chain, bin, 0), limits))
  BY <1>1
<1>3. chain \subseteq DOMAIN table
  BY DescentStays
<1>4. bin \in Bins \cap SaneBins
  BY <1>3, SaneBase DEF VfOK
<1>5. MayBegin /\ gpu = Stock
  BY DEF BeginCandidate
<1> HIDE DEF table, limits, chain
<1> DEFINE prev == ChainedPrev(table, t, chain, bin, 0)
<1> HIDE DEF prev
<1>6. Begins("candidate", "lock", t, bin, AnchoredPlan(table, bin, t, prev, limits))
  BY <1>2 DEF prev
<1> QED
  BY <1>4, <1>5, <1>6, BeginAnchoredKeeps DEF table

(* A refused step plans nothing and begins nothing.                        *)
LEMMA StepPlanIsAnchored ==
    ASSUME NEW table, NEW target, NEW start, NEW limits,
           StepPlan(table, target, start, limits) # None
    PROVE  /\ StepPlan(table, target, start, limits)
                = AnchoredPlan(table, AnchorBin(table, target, start), target, 0, limits)
           /\ AnchorBin(table, target, start) \in DOMAIN table
  BY DEF StepPlan, AnchoredPlan, RaiseAllowed

LEMMA BeginStepKeeps == VfOK /\ BeginStep => VfOK'
<1> SUFFICES ASSUME VfOK, BeginStep PROVE VfOK'
  OBVIOUS
<1> DEFINE table == Sane(base)
<1>1. PICK t \in Targets, seed \in StockCeilings, start \in Bins :
         \E limits \in {Conservative(seed.boost), HardwareFrontier(table, seed.boost)} :
            LET plan == StepPlan(table, t, start, limits)
            IN plan # None /\ Begins("step", "lock", t, AnchorBin(table, t, start), plan)
  BY DEF BeginStep
<1>2. PICK limits :
         LET plan == StepPlan(table, t, start, limits)
         IN plan # None /\ Begins("step", "lock", t, AnchorBin(table, t, start), plan)
  BY <1>1
<1> DEFINE bin == AnchorBin(table, t, start)
           plan == StepPlan(table, t, start, limits)
<1>3. plan = AnchoredPlan(table, bin, t, 0, limits) /\ bin \in DOMAIN table
  BY <1>2, StepPlanIsAnchored
<1>4. bin \in Bins \cap SaneBins
  BY <1>3, SaneBase DEF VfOK
<1>5. MayBegin /\ Begins("step", "lock", t, bin, plan)
  BY <1>2 DEF BeginStep
<1> HIDE DEF bin, plan
<1> QED
  BY <1>3, <1>4, <1>5, BeginAnchoredKeeps

LEMMA BeginManualPriorKeeps == VfOK /\ BeginManualPrior => VfOK'
<1> SUFFICES ASSUME VfOK, BeginManualPrior PROVE VfOK'
  OBVIOUS
<1> DEFINE table == Sane(base)
<1>1. PICK t \in Targets, seed \in StockCeilings, start \in Bins :
         LET plan == PriorPlan(Sane(base), t, start, seed.boost)
         IN plan # None /\ Begins("prior", "lock", t, AnchorBin(Sane(base), t, start), plan)
  BY DEF BeginManualPrior
<1> DEFINE bin == AnchorBin(table, t, start)
           limits == ManualPrior(seed.boost)
           plan == StepPlan(table, t, start, limits)
<1>2. plan # None /\ Begins("prior", "lock", t, bin, plan)
  BY <1>1 DEF PriorPlan
<1>3. plan = AnchoredPlan(table, bin, t, 0, limits) /\ bin \in DOMAIN table
  BY <1>2, StepPlanIsAnchored
<1>4. bin \in Bins \cap SaneBins
  BY <1>3, SaneBase DEF VfOK
<1>5. MayBegin
  BY DEF BeginManualPrior
<1> HIDE DEF bin, plan, limits
<1> QED
  BY <1>2, <1>3, <1>4, <1>5, BeginAnchoredKeeps

LEMMA BeginSimpleKeeps == VfOK /\ BeginSimple => VfOK'
<1> SUFFICES ASSUME VfOK, BeginSimple PROVE VfOK'
  OBVIOUS
<1> DEFINE table == Sane(base)
<1>1. PICK t \in Targets, seed \in StockCeilings, start \in Bins :
         LET limits == Conservative(seed.boost)
         IN \E bin \in SimpleDescent(table, t, start, limits, 1) :
               Begins("simple", "lock", t, bin, SimplePlan(table, bin, t, 0, limits))
  BY DEF BeginSimple
<1> DEFINE limits == Conservative(seed.boost)
<1>2. PICK bin \in SimpleDescent(table, t, start, limits, 1) :
         Begins("simple", "lock", t, bin, SimplePlan(table, bin, t, 0, limits))
  BY <1>1
<1> DEFINE plan == SimplePlan(table, bin, t, 0, limits)
<1>3. bin \in DOMAIN table /\ t \in Nat
  BY DescentStays, TablesAssumption DEF SimpleDescent
<1>4. bin \in Bins /\ table[bin] \in Nat
  BY <1>3, SaneBase DEF VfOK, Sane
<1>5. plan # None => IsPlan(plan)
  BY <1>3, <1>4 DEF SimplePlan, Raise, IsPlan
<1>6. MayBegin /\ "simple" \in Kinds
  BY DEF BeginSimple, Kinds
<1> HIDE DEF plan, limits, table
<1>7. Begins("simple", "lock", t, bin, plan)
  BY <1>2 DEF plan
<1> QED
  BY <1>4, <1>5, <1>6, <1>7, BeginKeeps DEF F1Probes, Anchored

LEMMA BeginCoreKeeps == VfOK /\ BeginCore => VfOK'
<1> SUFFICES ASSUME VfOK, BeginCore PROVE VfOK'
  OBVIOUS
<1>1. PICK t \in Targets, v \in Bins, dip \in Dips :
         Begins("core", "write", t, NearestBin(Bins, v), CeilingPlan(Live(dip), NearestBin(Bins, v), t))
  BY DEF BeginCore
<1> DEFINE bin == NearestBin(Bins, v)
           plan == CeilingPlan(Live(dip), bin, t)
<1>2. bin \in Bins
  BY CardFacts, NearestBinIsABin DEF VfOK
<1>3. t \in Nat /\ dip \in Nat
  BY TablesAssumption
<1>4. DOMAIN Live(dip) = Bins /\ \A b \in Bins : Live(dip)[b] \in Int
  BY <1>3, CardFacts DEF VfOK, Live
<1>5. plan \in [Bins -> Int]
  BY <1>3, <1>4 DEF CeilingPlan
<1>6. plan # None /\ IsPlan(plan)
  BY <1>5, CardFacts DEF VfOK, IsPlan
<1>7. MayBegin /\ "core" \in Kinds
  BY DEF BeginCore, Kinds
<1> HIDE DEF bin, plan
<1>8. Begins("core", "write", t, bin, plan)
  BY <1>1 DEF bin, plan
<1> QED
  BY <1>2, <1>6, <1>7, <1>8, BeginKeeps DEF F1Probes, Anchored

(* A probe and a soak of the frontier alike.                               *)
LEMMA BeginCeilingKeeps ==
    ASSUME VfOK, NEW kind \in F1Probes, BeginCeiling(kind)
    PROVE  VfOK'
<1>1. PICK t \in Targets, v \in Bins :
         Begins(kind, "write", t, NearestBin(Bins, v), MonotonePlan(base, NearestBin(Bins, v), t))
  BY DEF BeginCeiling
<1> DEFINE bin == NearestBin(Bins, v)
           plan == MonotonePlan(base, bin, t)
<1>2. bin \in Bins
  BY CardFacts, NearestBinIsABin DEF VfOK
<1>3. t \in Nat /\ base \in [DOMAIN base -> Nat]
  BY TablesAssumption, SaneBase DEF VfOK
<1>4. plan \in [Bins -> Int]
  BY <1>3, MonotonePlanCaps DEF Bins
<1>5. plan # None /\ IsPlan(plan) /\ DOMAIN plan = Bins
  BY <1>4, CardFacts DEF VfOK, IsPlan
<1>6. MayBegin /\ kind \in Kinds /\ kind \notin Anchored \cup {"apply", "candidate", "core"}
  BY DEF BeginCeiling, Kinds, F1Probes, Anchored
<1> HIDE DEF bin
<1>7. Begins(kind, "write", t, bin, plan)
  BY <1>1 DEF bin
<1> QED
  BY <1>2, <1>5, <1>6, <1>7, BeginKeeps

LEMMA BeginProbeKeeps == VfOK /\ (BeginProbe \/ BeginSoak) => VfOK'
  BY BeginCeilingKeeps, Zenon DEF BeginProbe, BeginSoak, F1Probes

-----------------------------------------------------------------------------
(* Steps that end a job, and steps that give it up.                        *)

(* A reset that stops half way leaves a card all the same.                 *)
LEMMA ResetFailsType ==
    ASSUME TypeOK, NEW g \in ResetAllFails
    PROVE  g \in [off : [Bins -> Int], lock : Bins \cup {None}, cap : Targets \cup {None}, core : Int]
<1>1. /\ gpu \in [off : [Bins -> Int], lock : Bins \cup {None}, cap : Targets \cup {None}, core : Int]
      /\ gpu.off \in [Bins -> Int]
  BY DEF TypeOK
<1>2. \A k : ClearedBelow(k) \in [Bins -> Int]
  BY <1>1 DEF ClearedBelow
<1>3. \/ g = gpu
      \/ g = [off |-> gpu.off, lock |-> None, cap |-> gpu.cap, core |-> gpu.core]
      \/ \E k \in Bins : g = [off |-> ClearedBelow(k), lock |-> None, cap |-> gpu.cap, core |-> 0]
  <2> HIDE DEF ClearedBelow
  <2> QED
    BY <1>1 DEF ResetAllFails, Unlocked
<1> QED
  BY <1>1, <1>2, <1>3

(* Without a job, the invariant is about the card alone.                   *)
LEMMA RestKeeps ==
    ASSUME VfOK, TypeOK', base' = base, job' = NoJob, LastOK',
           spent'.faults = 0 => gpu'.core = 0
    PROVE  VfOK'
<1>1. JobOK' /\ CardOK' /\ ApplyOK' /\ ProbeOK'
  BY TablesAssumption DEF JobOK, CardOK, ApplyOK, ProbeOK, NoJob, F1Probes
<1> QED
  BY <1>1 DEF VfOK

(* A job that has not claimed anything yet has nothing to answer for.      *)
LEMMA NothingClaimed ==
    ASSUME last' = NoEnd \/ last'.end \notin {"applied", "clean"} \/ (last'.kind # "apply" /\ last'.end # "clean")
    PROVE  LastOK'
  BY TablesAssumption DEF LastOK, AppliedIsThePlan, ConfirmedErrorIsStock, NoEnd

(* A job that gives up takes what it has written to the reset.             *)
LEMMA GiveUpKeeps ==
    ASSUME VfOK, TypeOK', base' = base, Goes("undo"),
           job.pc \in {"lock", "write", "cap", "verify", "dwell"}, job.kind # "core",
           gpu'.off = gpu.off, gpu'.core = gpu.core,
           spent'.faults = 0 => spent.faults = 0
    PROVE  VfOK'
<1>1. job' = [kind |-> job.kind, pc |-> "undo", target |-> job.target,
              bin |-> job.bin, plan |-> job.plan, todo |-> job.todo]
  BY DEF Goes, VfOK, JobOK
<1>2. last' = NoEnd
  BY DEF Goes, VfOK, JobOK
<1>3. JobOK'
  <2>1. job.plan # None => IsPlan(job.plan)
    BY DEF VfOK, JobOK
  <2>2. IsPlan(job.plan)' <=> IsPlan(job.plan)
    BY <1>1 DEF IsPlan, Bins
  <2>3. /\ job.bin \in Bins /\ job.kind \in Kinds /\ job.target \in Targets
        /\ job.kind \in Anchored => job.bin \in SaneBins
    BY DEF VfOK, JobOK
  <2> QED
    BY <1>1, <1>2, <2>1, <2>2, <2>3 DEF JobOK, NoEnd, Bins
<1>4. CardOK'
  BY <1>1 DEF VfOK, CardOK, Bins
<1>5. ApplyOK' /\ ProbeOK'
  BY <1>1 DEF VfOK, ApplyOK, ProbeOK
<1>6. LastOK'
  BY <1>2, NothingClaimed
<1> QED
  BY <1>3, <1>4, <1>5, <1>6 DEF VfOK

-----------------------------------------------------------------------------
(* The reset before an Apply, and the lock.                                *)

LEMMA PreResetKeeps == VfOK /\ PreReset => VfOK'
<1> SUFFICES ASSUME VfOK, PreReset PROVE VfOK'
  OBVIOUS
<1> DEFINE plan(limits) == AnchoredPlan(Sane(base), job.bin, job.target, 0, limits)
<1>1. /\ job.pc = "prereset" /\ job.kind = "apply" /\ job.target \in Targets
      /\ job.target \in Nat /\ last = NoEnd
  BY TablesAssumption DEF PreReset, VfOK, JobOK
<1>2. /\ gpu' = [off |-> Cleared, lock |-> None, cap |-> gpu.cap, core |-> 0]
      /\ UNCHANGED <<base, spent>>
  BY DEF PreReset, ResetAllOk, VfOK, TypeOK, NoFault
<1>3. \/ \E limits : /\ ExactAnchor(Sane(base), job.target, job.bin) # None
                     /\ job' = [job EXCEPT !.pc = "lock", !.plan = plan(limits)]
                     /\ UNCHANGED last
      \/ Ends("refused")
  BY DEF PreReset
<1>4. CASE \E limits : /\ ExactAnchor(Sane(base), job.target, job.bin) # None
                      /\ job' = [job EXCEPT !.pc = "lock", !.plan = plan(limits)]
                      /\ UNCHANGED last
  <2>1. PICK limits : /\ ExactAnchor(Sane(base), job.target, job.bin) # None
                      /\ job' = [job EXCEPT !.pc = "lock", !.plan = plan(limits)]
                      /\ UNCHANGED last
    BY <1>4
  <2>0. PICK p : p = plan(limits)
    OBVIOUS
  <2>2. job.bin \in Bins /\ job.bin \in SaneBins
    BY <2>1, SaneBase DEF ExactAnchor, VfOK
  <2>3. p # None => /\ p \in [Bins \cap SaneBins -> Int]
                    /\ \A b \in DOMAIN p : Modest(p[b], base[b], job.target)
    BY <1>1, <2>0, SaneBase, AnchoredPlanIsModest, Zenon DEF VfOK
  <2>4. p # None => IsPlan(p) /\ DOMAIN p \subseteq SaneBins
    BY <2>2, <2>3 DEF IsPlan
  <2>5. job' = [kind |-> "apply", pc |-> "lock", target |-> job.target, bin |-> job.bin,
                plan |-> p, todo |-> job.todo]
    BY <1>1, <2>0, <2>1 DEF VfOK, JobOK
  <2>6. TypeOK'
    BY <1>2 DEF VfOK, TypeOK, Cleared, Bins
  <2>7. JobOK'
    <3>1. /\ job'.kind = "apply" /\ job'.pc = "lock" /\ job'.target = job.target
          /\ job'.bin = job.bin /\ job'.plan = p /\ last' = NoEnd /\ base' = base
      <4>1. last' = NoEnd
        BY <1>1, <2>1
      <4>2. base' = base
        BY <1>2
      <4> QED
        BY <2>5, <4>1, <4>2
    <3>2. job' = [kind |-> job'.kind, pc |-> job'.pc, target |-> job'.target,
                  bin |-> job'.bin, plan |-> job'.plan, todo |-> job'.todo]
      BY <2>5
    <3>3. "apply" \in Kinds /\ "apply" \in Anchored
      BY DEF Kinds, Anchored
    <3>4. p # None => IsPlan(p)'
      BY <2>4, <3>1 DEF IsPlan, Bins
    <3> QED
      BY <1>1, <2>2, <3>1, <3>2, <3>3, <3>4 DEF JobOK, NoEnd, Bins, F1Probes
  <2>8. CardOK'
    BY <1>2, <2>3, <2>4, <2>5 DEF CardOK, Cleared, Bins, Modest
  <2>9. ApplyOK' /\ ProbeOK'
    BY <1>2, <2>5 DEF VfOK, ApplyOK, ProbeOK, F1Probes
  <2>10. LastOK'
    BY <1>1, <2>1, NothingClaimed
  <2> QED
    BY <2>6, <2>7, <2>8, <2>9, <2>10 DEF VfOK
<1>5. CASE Ends("refused")
  <2>1. job' = NoJob /\ last'.end = "refused"
    BY <1>5 DEF Ends
  <2>2. TypeOK'
    BY <1>2 DEF VfOK, TypeOK, Cleared, Bins
  <2> QED
    BY <1>2, <2>1, <2>2, RestKeeps, NothingClaimed
<1> QED
  BY <1>3, <1>4, <1>5

LEMMA PreResetFailsKeeps == VfOK /\ PreResetFails => VfOK'
<1> SUFFICES ASSUME VfOK, PreResetFails PROVE VfOK'
  OBVIOUS
<1>1. base' = base /\ gpu' \in ResetAllFails /\ job' = NoJob /\ last'.end = "failed"
  BY DEF PreResetFails, Ends
<1>2. spent' \in [jobs : Nat, faults : Nat] /\ spent'.faults = spent.faults + 1
  BY DEF PreResetFails, Faults, VfOK, TypeOK
<1>3. gpu' \in [off : [Bins -> Int], lock : Bins \cup {None}, cap : Targets \cup {None}, core : Int]
  BY <1>1, ResetFailsType DEF VfOK
<1>4. TypeOK'
  BY <1>1, <1>2, <1>3 DEF VfOK, TypeOK, Bins
<1> QED
  BY <1>1, <1>2, <1>4, RestKeeps, NothingClaimed DEF VfOK, TypeOK

LEMMA LockKeeps == VfOK /\ Lock => VfOK'
<1> SUFFICES ASSUME VfOK, Lock PROVE VfOK'
  OBVIOUS
<1>1. /\ job.pc = "lock" /\ job.kind # "core" /\ job.kind \notin F1Probes /\ last = NoEnd
      /\ job.bin \in Bins /\ job.kind \in Kinds /\ job.target \in Targets
      /\ job.kind \in Anchored => job.bin \in SaneBins
      /\ job.plan # None => IsPlan(job.plan)
  BY DEF Lock, VfOK, JobOK, F1Probes
<1>2. /\ gpu' = [off |-> gpu.off, lock |-> job.bin, cap |-> gpu.cap, core |-> gpu.core]
      /\ UNCHANGED <<base, spent>>
  BY DEF Lock, VfOK, TypeOK, NoFault
<1>3. TypeOK'
  BY <1>1, <1>2 DEF VfOK, TypeOK, Bins
<1>4. CASE job.plan = None
  <2>1. Goes("undo")
    BY <1>4 DEF Lock
  <2> QED
    BY <1>1, <1>2, <1>3, <2>1, GiveUpKeeps
<1>5. CASE job.plan # None
  <2>1. /\ job' = [kind |-> job.kind, pc |-> "write", target |-> job.target,
                   bin |-> job.bin, plan |-> job.plan, todo |-> DOMAIN job.plan]
        /\ last' = NoEnd
    BY <1>1, <1>5 DEF Lock, VfOK, JobOK
  <2>2. IsPlan(job.plan)' <=> IsPlan(job.plan)
    BY <1>2, <2>1 DEF IsPlan, Bins
  <2>3. DOMAIN job.plan # {}
    BY <1>1, <1>5 DEF IsPlan
  <2>4. JobOK'
    BY <1>1, <1>2, <1>5, <2>1, <2>2, <2>3 DEF JobOK, NoEnd, Bins
  <2>5. CardOK'
    BY <1>1, <1>2, <2>1 DEF VfOK, CardOK, Bins
  <2>6. ApplyOK' /\ ProbeOK'
    BY <1>1, <1>2, <2>1 DEF VfOK, ApplyOK, ProbeOK
  <2> QED
    BY <1>3, <2>1, <2>4, <2>5, <2>6, NothingClaimed DEF VfOK
<1> QED
  BY <1>4, <1>5

LEMMA LockFailsKeeps == VfOK /\ LockFails => VfOK'
<1> SUFFICES ASSUME VfOK, LockFails PROVE VfOK'
  OBVIOUS
<1>1. job.pc = "lock" /\ job.kind # "core" /\ Goes("undo") /\ base' = base
  BY DEF LockFails, VfOK, JobOK
<1>2. PICK rail \in Bins \cup {None} :
         gpu' = [off |-> gpu.off, lock |-> rail, cap |-> gpu.cap, core |-> gpu.core]
  BY DEF LockFails, VfOK, TypeOK
<1>3. spent' \in [jobs : Nat, faults : Nat] /\ spent'.faults = spent.faults + 1 /\ spent.faults \in Nat
  BY DEF LockFails, Faults, VfOK, TypeOK
<1>4. TypeOK'
  BY <1>1, <1>2, <1>3 DEF VfOK, TypeOK, Bins
<1> QED
  BY <1>1, <1>2, <1>3, <1>4, GiveUpKeeps

-----------------------------------------------------------------------------
(* Writing the curve, bin by bin.                                          *)

(* One bin is written with an offset that is no worse than the plan's; the *)
(* plan's own offset, unless a fault has been spent.                       *)
LEMMA WriteKeeps ==
    ASSUME VfOK, NEW off, Write(off),
           spent' \in [jobs : Nat, faults : Nat],
           \A b \in job.todo : off[b] \in Int,
           job.kind \in {"apply", "candidate"} =>
              \A b \in job.todo : Modest(off[b], base[b], job.target),
           spent'.faults = 0 => spent.faults = 0 /\ off = job.plan
    PROVE  VfOK'
<1> DEFINE b == Min(job.todo)
           after == IF job.kind \in Steps THEN "cap" ELSE "verify"
<1>1. /\ job.pc = "write" /\ last = NoEnd
      /\ job.bin \in Bins /\ job.kind \in Kinds /\ job.target \in Targets
      /\ job.kind \in Anchored => job.bin \in SaneBins
      /\ job.plan # None /\ IsPlan(job.plan)
      /\ job.todo \subseteq DOMAIN job.plan /\ job.todo # {}
  BY DEF Write, VfOK, JobOK
<1>2. b \in job.todo /\ b \in Bins /\ b \in DOMAIN job.plan
  <2>1. job.todo \in SUBSET Nat
    BY <1>1, CardFacts DEF IsPlan, VfOK
  <2> QED
    BY <1>1, <2>1, MinMember DEF IsPlan
<1>3. PICK v \in Int : v = off[b]
  BY <1>2
<1>4. PICK m \in Bins : m = b /\ m \in job.todo /\ m \in DOMAIN job.plan
  BY <1>2
<1>5. /\ gpu' = [off |-> [gpu.off EXCEPT ![m] = v], lock |-> gpu.lock,
                 cap |-> gpu.cap, core |-> gpu.core]
      /\ base' = base
  BY <1>3, <1>4 DEF Write, VfOK, TypeOK
<1>6. gpu'.off \in [Bins -> Int] /\ \A c \in Bins : gpu'.off[c] = IF c = m THEN v ELSE gpu.off[c]
  BY <1>5 DEF VfOK, TypeOK
<1>7. TypeOK'
  BY <1>5, <1>6 DEF VfOK, TypeOK, Bins
<1>8. CASE job.kind = "core" /\ job.todo = {b}
  <2>1. job' = NoJob /\ last'.kind = "core" /\ last'.end = "applied"
    BY <1>8 DEF Write, Ends
  <2>2. LastOK'
    BY <2>1, NothingClaimed
  <2>3. spent'.faults = 0 => gpu'.core = 0
    BY <1>5 DEF VfOK, ProbeOK
  <2> QED
    BY <1>5, <1>7, <2>1, <2>2, <2>3, RestKeeps
<1>9. CASE ~ (job.kind = "core" /\ job.todo = {b})
  <2>1. PICK rest : rest = job.todo \ {m}
    OBVIOUS
  <2>2. PICK pc : pc = IF rest # {} THEN "write" ELSE after
    OBVIOUS
  <2>3. /\ job' = [kind |-> job.kind, pc |-> pc, target |-> job.target,
                   bin |-> job.bin, plan |-> job.plan, todo |-> rest]
        /\ last' = NoEnd
    <3>1. CASE job.todo # {b}
      <4>1. job' = [job EXCEPT !.todo = @ \ {b}] /\ UNCHANGED last
        BY <3>1 DEF Write
      <4>2. rest # {} /\ rest = job.todo \ {b} /\ pc = "write"
        BY <1>4, <2>1, <2>2, <3>1
      <4> HIDE DEF b
      <4> QED
        BY <1>1, <4>1, <4>2 DEF VfOK, JobOK
    <3>2. CASE job.todo = {b}
      <4>1. job' = [job EXCEPT !.todo = {}, !.pc = after] /\ UNCHANGED last
        BY <1>9, <3>2 DEF Write
      <4>2. rest = {} /\ pc = after
        BY <1>4, <2>1, <2>2, <3>2
      <4> HIDE DEF b, after
      <4> QED
        BY <1>1, <4>1, <4>2 DEF VfOK, JobOK
    <3> QED
      BY <3>1, <3>2
  <2>4. /\ pc \in {"write", "cap", "verify"}
        /\ pc = "write" => rest # {}
        /\ pc # "write" => rest = {}
        /\ job.kind = "apply" \/ job.kind \in F1Probes => pc # "cap"
        /\ job.kind = "core" => pc = "write"
    BY <1>4, <1>9, <2>1, <2>2 DEF Steps, F1Probes
  <2>5. IsPlan(job.plan)' <=> IsPlan(job.plan)
    BY <1>5, <2>3 DEF IsPlan, Bins
  <2>6. JobOK'
    BY <1>1, <1>5, <2>1, <2>3, <2>4, <2>5 DEF JobOK, NoEnd, Bins, F1Probes
  <2>7. CardOK'
    <3>1. CASE job.kind \in {"apply", "candidate"}
      <4>1. m \in SaneBins /\ Modest(v, base[m], job.target)
        BY <1>1, <1>3, <1>4, <3>1 DEF VfOK, CardOK
      <4> QED
        BY <1>1, <1>5, <1>6, <2>3, <3>1, <4>1 DEF VfOK, CardOK, Bins, Modest
    <3>2. CASE job.kind \notin {"apply", "candidate"}
      BY <2>3, <3>2 DEF CardOK
    <3> QED
      BY <3>1, <3>2
  <2>8. ApplyOK'
    BY <1>1, <1>5, <2>3, <2>4 DEF VfOK, ApplyOK
  <2>9. ProbeOK'
    <3>1. SUFFICES ASSUME spent'.faults = 0 PROVE ProbeOK'
      BY DEF ProbeOK
    <3>2. gpu'.core = 0 /\ v = job.plan[m] /\ spent.faults = 0
      BY <1>3, <1>4, <1>5, <3>1 DEF VfOK, ProbeOK
    <3>3. CASE job.kind \in F1Probes
      <4>1. /\ job.plan = MonotonePlan(base, job.bin, job.target)
            /\ \A c \in Bins \ job.todo : gpu.off[c] = job.plan[c]
        BY <1>1, <3>2, <3>3 DEF VfOK, ProbeOK
      <4>2. \A c \in Bins \ rest : gpu'.off[c] = job.plan[c]
        BY <1>4, <1>6, <2>1, <3>2, <4>1
      <4>3. job'.plan = MonotonePlan(base', job'.bin, job'.target)
        BY <1>5, <2>3, <4>1
      <4>4. pc # "write" => \A c \in Bins : gpu'.off[c] = job.plan[c]
        BY <2>4, <4>2
      <4> QED
        BY <1>5, <2>3, <3>2, <4>2, <4>3, <4>4 DEF ProbeOK, Bins
    <3>4. CASE job.kind \notin F1Probes
      BY <2>3, <3>2, <3>4 DEF ProbeOK, F1Probes
    <3> QED
      BY <3>3, <3>4
  <2> QED
    BY <1>7, <2>3, <2>6, <2>7, <2>8, <2>9, NothingClaimed DEF VfOK
<1> QED
  BY <1>8, <1>9

LEMMA WritePointKeeps == VfOK /\ WritePoint => VfOK'
<1> SUFFICES ASSUME VfOK, WritePoint PROVE VfOK'
  OBVIOUS
<1>1. Write(job.plan) /\ UNCHANGED spent
  BY DEF WritePoint, NoFault
<1>2. job.pc = "write" /\ IsPlan(job.plan) /\ job.todo \subseteq DOMAIN job.plan
  BY <1>1 DEF Write, VfOK, JobOK
<1>3. \A b \in job.todo : job.plan[b] \in Int
  BY <1>2 DEF IsPlan
<1>4. job.kind \in {"apply", "candidate"} =>
         \A b \in job.todo : Modest(job.plan[b], base[b], job.target)
  BY <1>2 DEF VfOK, CardOK, JobOK
<1>5. spent' \in [jobs : Nat, faults : Nat] /\ spent'.faults = spent.faults
  BY <1>1 DEF VfOK, TypeOK
<1> QED
  BY <1>1, <1>3, <1>4, <1>5, WriteKeeps

LEMMA WriteDoesNotTakeKeeps == VfOK /\ WriteDoesNotTake => VfOK'
<1> SUFFICES ASSUME VfOK, WriteDoesNotTake PROVE VfOK'
  OBVIOUS
<1> DEFINE half == [b \in DOMAIN job.plan |-> job.plan[b] \div 2]
<1>1. spent' \in [jobs : Nat, faults : Nat] /\ spent'.faults # 0
  BY DEF WriteDoesNotTake, Faults, VfOK, TypeOK
<1>2. job.pc = "write" /\ IsPlan(job.plan) /\ job.todo \subseteq DOMAIN job.plan
  BY DEF WriteDoesNotTake, Write, VfOK, JobOK
<1>3. \A b \in job.todo : b \in Bins /\ base[b] \in Nat /\ gpu.off[b] \in Int /\ job.plan[b] \in Int
  BY <1>2, CardFacts DEF VfOK, TypeOK, IsPlan
<1>4. CASE Write(gpu.off)
  <2>1. job.kind \in {"apply", "candidate"} =>
           \A b \in job.todo : Modest(gpu.off[b], base[b], job.target)
    BY <1>2, <1>3 DEF VfOK, CardOK
  <2> QED
    BY <1>1, <1>3, <1>4, <2>1, WriteKeeps
<1>5. CASE Write(half)
  <2>1. \A b \in job.todo : half[b] \in Int /\ half[b] = job.plan[b] \div 2
    BY <1>2, <1>3
  <2>2. job.kind \in {"apply", "candidate"} =>
           job.target \in Int /\ \A b \in job.todo : Modest(job.plan[b], base[b], job.target)
    BY <1>2, TablesAssumption DEF VfOK, CardOK, JobOK
  <2> HIDE DEF half
  <2>3. job.kind \in {"apply", "candidate"} =>
           \A b \in job.todo : Modest(half[b], base[b], job.target)
    BY <1>3, <2>1, <2>2 DEF Modest
  <2> QED
    BY <1>1, <1>5, <2>1, <2>3, WriteKeeps
<1> QED
  BY <1>4, <1>5 DEF WriteDoesNotTake

(* A fault that leaves the card as it is.                                  *)
LEMMA FaultOnly ==
    ASSUME VfOK, Faults(1), UNCHANGED <<base, gpu>>
    PROVE  TypeOK' /\ spent'.faults # 0
<1>1. spent' \in [jobs : Nat, faults : Nat] /\ spent'.faults # 0
  BY DEF Faults, VfOK, TypeOK
<1> QED
  BY <1>1 DEF VfOK, TypeOK, Bins

LEMMA WriteRefusedKeeps == VfOK /\ WriteRefused => VfOK'
  BY FaultOnly, GiveUpKeeps DEF WriteRefused

LEMMA CapFailsKeeps == VfOK /\ CapFails => VfOK'
<1> SUFFICES ASSUME VfOK, CapFails PROVE VfOK'
  OBVIOUS
<1>1. job.kind # "core" /\ job.pc = "cap"
  BY DEF CapFails, VfOK, JobOK
<1> QED
  BY <1>1, FaultOnly, GiveUpKeeps DEF CapFails

LEMMA CoreFallsBackKeeps == VfOK /\ CoreFallsBack => VfOK'
<1> SUFFICES ASSUME VfOK, CoreFallsBack PROVE VfOK'
  OBVIOUS
<1>1. PICK dip \in Dips, capped \in BOOLEAN :
         gpu' = [gpu EXCEPT !.core = Max({-300, Min({400, job.target - Live(dip)[job.bin]})}),
                            !.cap = IF capped THEN job.target ELSE @]
  BY DEF CoreFallsBack
<1>2. job.bin \in Bins /\ job.target \in Targets /\ job.target \in Nat /\ dip \in Nat
  BY TablesAssumption DEF CoreFallsBack, VfOK, JobOK
<1>3. Live(dip)[job.bin] \in Int
  BY <1>2, CardFacts DEF VfOK, Live
<1> DEFINE short == job.target - Live(dip)[job.bin]
<1>4. short \in Int
  BY <1>2, <1>3
<1> HIDE DEF short
<1>5. Min({400, short}) \in Int
  <2>1. 400 \in Int
    OBVIOUS
  <2>2. Min({400, short}) \in {400, short}
    BY <1>4, <2>1, MinTwo, Zenon
  <2> QED
    BY <1>4, <2>2
<1>6. Max({-300, Min({400, short})}) \in Int
  <2>1. PICK low \in Int : low = -300
    OBVIOUS
  <2>2. PICK m \in Int : m = Min({400, short})
    BY <1>5
  <2>3. Max({low, m}) \in Int
    BY MaxTwo
  <2> QED
    BY <2>1, <2>2, <2>3
<1>7. PICK core \in Int : gpu' = [gpu EXCEPT !.core = core, !.cap = IF capped THEN job.target ELSE @]
  BY <1>1, <1>6 DEF short
<1>8. gpu' \in [off : [Bins -> Int], lock : Bins \cup {None}, cap : Targets \cup {None}, core : Int]
  BY <1>2, <1>7 DEF VfOK, TypeOK
<1>9. spent' \in [jobs : Nat, faults : Nat] /\ spent'.faults # 0
  BY DEF CoreFallsBack, Faults, VfOK, TypeOK
<1>10. /\ base' = base /\ job' = NoJob
       /\ last'.kind = "core" /\ last'.end = "fallback"
  BY DEF CoreFallsBack, Ends
<1>11. TypeOK'
  BY <1>8, <1>9, <1>10 DEF VfOK, TypeOK, Bins
<1> QED
  BY <1>9, <1>10, <1>11, RestKeeps, NothingClaimed

-----------------------------------------------------------------------------
(* The verdict, the cap and the dwell.                                     *)

(* A job that goes on to the verdict, the cap or the dwell.                *)
LEMMA GoesKeeps ==
    ASSUME VfOK, TypeOK', base' = base, NEW pc \in {"verify", "cap", "dwell"}, Goes(pc),
           job.pc \in {"cap", "verify"}, job.kind # "core",
           gpu'.off = gpu.off, gpu'.core = gpu.core, gpu'.lock = gpu.lock,
           spent'.faults = 0 => spent.faults = 0,
           job.kind = "apply" => pc = "cap" /\ ApplyOK',
           job.kind \in F1Probes => pc = "dwell"
    PROVE  VfOK'
<1>1. /\ job' = [kind |-> job.kind, pc |-> pc, target |-> job.target,
                 bin |-> job.bin, plan |-> job.plan, todo |-> job.todo]
      /\ last' = NoEnd
  BY DEF Goes, VfOK, JobOK
<1>2. /\ job.bin \in Bins /\ job.kind \in Kinds /\ job.target \in Targets
      /\ job.kind \in Anchored => job.bin \in SaneBins
      /\ job.plan # None => IsPlan(job.plan)
  BY DEF VfOK, JobOK
<1>3. IsPlan(job.plan)' <=> IsPlan(job.plan)
  BY <1>1 DEF IsPlan, Bins
<1>4. JobOK'
  BY <1>1, <1>2, <1>3 DEF JobOK, NoEnd, Bins
<1>5. CardOK'
  BY <1>1 DEF VfOK, CardOK, Bins
<1>6. ApplyOK'
  BY <1>1 DEF ApplyOK
<1>7. ProbeOK'
  BY <1>1 DEF VfOK, JobOK, ProbeOK, F1Probes, Bins
<1> QED
  BY <1>1, <1>4, <1>5, <1>6, <1>7, NothingClaimed DEF VfOK

LEMMA CapKeeps == VfOK /\ Cap => VfOK'
<1> SUFFICES ASSUME VfOK, Cap PROVE VfOK'
  OBVIOUS
<1>1. /\ job.pc = "cap" /\ job.kind # "core" /\ job.kind \notin F1Probes
      /\ job.target \in Targets /\ last = NoEnd
  BY DEF Cap, VfOK, JobOK, F1Probes
<1>2. /\ gpu' = [off |-> gpu.off, lock |-> gpu.lock, cap |-> job.target, core |-> gpu.core]
      /\ UNCHANGED <<base, spent>>
  BY DEF Cap, VfOK, TypeOK, NoFault
<1>3. TypeOK'
  BY <1>1, <1>2 DEF VfOK, TypeOK, Bins
<1>4. CASE job.kind = "apply"
  <2>1. /\ job' = NoJob
        /\ last' = [kind |-> "apply", end |-> "applied", target |-> job.target, bin |-> job.bin]
    BY <1>4 DEF Cap, Ends
  <2>2. /\ gpu.lock = job.bin /\ gpu.core = 0
        /\ base[job.bin] + gpu.off[job.bin] \in job.target - VerifyTol .. job.target + VerifyTol
        /\ \A b \in (SaneBins \cap Bins) \ {job.bin} :
              gpu.off[b] <= VerifyTol /\ base[b] + gpu.off[b] <= job.target + VerifyTol
    BY <1>1, <1>4 DEF VfOK, ApplyOK, CardOK
  <2>3. \A b \in Bins : base[b] + gpu.off[b] + gpu.core = base[b] + gpu.off[b]
    BY <2>2, CardFacts DEF VfOK, TypeOK
  <2>4. job.bin \in Bins
    BY <1>1 DEF VfOK, JobOK
  <2>5. AppliedIsThePlan'
    BY <1>2, <2>1, <2>2, <2>3, <2>4 DEF AppliedIsThePlan, Effective, Bins
  <2>6. ConfirmedErrorIsStock'
    BY <2>1 DEF ConfirmedErrorIsStock
  <2>7. spent'.faults = 0 => gpu'.core = 0
    BY <1>2, <2>2
  <2> QED
    BY <1>2, <1>3, <2>1, <2>5, <2>6, <2>7, RestKeeps DEF LastOK
<1>5. CASE job.kind # "apply"
  <2>1. Goes("verify")
    BY <1>5 DEF Cap
  <2> QED
    BY <1>1, <1>2, <1>3, <1>5, <2>1, GoesKeeps
<1> QED
  BY <1>4, <1>5

(* What a verdict on an anchored undervolt vouches for.                    *)
LEMMA VerdictVouches ==
    ASSUME TypeOK, NEW bin \in Bins \cap SaneBins, NEW target \in Nat, NEW blind,
           AnchoredVerdict(Sane(base), bin, target, Observed(blind)) = "RaiseVerified"
    PROVE  /\ base[bin] + gpu.off[bin] \in target - VerifyTol .. target + VerifyTol
           /\ \A b \in (SaneBins \cap Bins) \ {bin} :
                 gpu.off[b] <= VerifyTol /\ base[b] + gpu.off[b] <= target + VerifyTol
<1> DEFINE seen == Observed(blind)
<1>1. \A b \in Bins : /\ base[b] \in Nat /\ gpu.off[b] \in Int
                      /\ seen[b] # None => seen[b] = gpu.off[b]
  BY CardFacts DEF TypeOK, Observed
<1>2. DOMAIN Sane(base) = Bins \cap SaneBins /\ \A b \in Bins \cap SaneBins : Sane(base)[b] = base[b]
  BY DEF Sane, Bins
<1> HIDE DEF seen
<1>3. RaiseVerdict(Raise(Sane(base), bin, target), seen[bin]) = "RaiseVerified"
  BY DEF AnchoredVerdict, seen
<1>4. /\ seen[bin] # None
      /\ ~ (seen[bin] - (target - base[bin]) > VerifyTol)
      /\ ~ ((target - base[bin]) - seen[bin] > VerifyTol)
  BY <1>2, <1>3 DEF RaiseVerdict, Raise
<1>5. \A b \in (Bins \cap SaneBins) \ {bin} :
         seen[b] # None /\ ~ (seen[b] > VerifyTol) /\ ~ (base[b] + seen[b] - target > VerifyTol)
  BY <1>2 DEF AnchoredVerdict, seen
<1>6. base[bin] + gpu.off[bin] \in target - VerifyTol .. target + VerifyTol
  BY <1>1, <1>4 DEF VerifyTol
<1>7. \A b \in (SaneBins \cap Bins) \ {bin} :
         gpu.off[b] <= VerifyTol /\ base[b] + gpu.off[b] <= target + VerifyTol
  BY <1>1, <1>5 DEF VerifyTol
<1> QED
  BY <1>6, <1>7

LEMMA VerifyKeeps == VfOK /\ Verify => VfOK'
<1> SUFFICES ASSUME VfOK, Verify PROVE VfOK'
  OBVIOUS
<1>1. PICK blind \in {{}} \cup {{b} : b \in Bins}, dip \in Dips :
         /\ Faults(Cardinality(blind))
         /\ Goes(IF Verdict(Observed(blind), dip)
                 THEN IF job.kind = "apply" THEN "cap" ELSE "dwell"
                 ELSE "undo")
  BY DEF Verify
<1>2. Cardinality(blind) \in Nat
  <2>1. IsFiniteSet(blind)
    BY FS_EmptySet, FS_Singleton
  <2> QED
    BY <2>1, FS_CardinalityType
<1>3. /\ spent' \in [jobs : Nat, faults : Nat]
      /\ spent'.faults = 0 => spent.faults = 0
  BY <1>1, <1>2 DEF Faults, VfOK, TypeOK
<1>4. job.pc = "verify" /\ job.kind # "core" /\ UNCHANGED <<base, gpu>>
  BY DEF Verify, VfOK, JobOK
<1>5. TypeOK'
  BY <1>3, <1>4 DEF VfOK, TypeOK, Bins
<1>6. CASE ~ Verdict(Observed(blind), dip)
  <2>1. Goes("undo")
    BY <1>1, <1>6
  <2> QED
    BY <1>3, <1>4, <1>5, <2>1, GiveUpKeeps
<1>7. CASE Verdict(Observed(blind), dip) /\ job.kind # "apply"
  <2>1. Goes("dwell")
    BY <1>1, <1>7
  <2> QED
    BY <1>3, <1>4, <1>5, <1>7, <2>1, GoesKeeps
<1>8. CASE Verdict(Observed(blind), dip) /\ job.kind = "apply"
  <2>1. Goes("cap")
    BY <1>1, <1>8
  <2>2. AnchoredVerdict(Sane(base), job.bin, job.target, Observed(blind)) = "RaiseVerified"
    BY <1>8 DEF Verdict, Anchored
  <2>3. job.bin \in Bins \cap SaneBins /\ job.target \in Nat
    BY <1>4, <1>8, TablesAssumption DEF VfOK, JobOK, Anchored
  <2>4. /\ base[job.bin] + gpu.off[job.bin] \in job.target - VerifyTol .. job.target + VerifyTol
        /\ \A b \in (SaneBins \cap Bins) \ {job.bin} :
              gpu.off[b] <= VerifyTol /\ base[b] + gpu.off[b] <= job.target + VerifyTol
    BY <2>2, <2>3, VerdictVouches DEF VfOK
  <2>5. /\ job' = [kind |-> "apply", pc |-> "cap", target |-> job.target,
                   bin |-> job.bin, plan |-> job.plan, todo |-> job.todo]
    BY <1>8, <2>1 DEF Goes, VfOK, JobOK
  <2>6. gpu.lock = job.bin
    BY <1>4, <1>8 DEF VfOK, ApplyOK
  <2>7. ApplyOK'
    BY <1>4, <2>4, <2>5, <2>6 DEF ApplyOK, Bins
  <2> QED
    BY <1>3, <1>4, <1>5, <1>8, <2>1, <2>7, GoesKeeps DEF F1Probes
<1> QED
  BY <1>6, <1>7, <1>8

LEMMA DwellKeeps == VfOK /\ Dwell => VfOK'
<1> SUFFICES ASSUME VfOK, Dwell PROVE VfOK'
  OBVIOUS
<1>1. job.pc = "dwell" /\ job.kind # "core" /\ UNCHANGED <<base, gpu, spent>>
  BY DEF Dwell, NoFault, VfOK, JobOK
<1>2. TypeOK'
  BY <1>1 DEF VfOK, TypeOK, Bins
<1>3. CASE Goes("undo")
  BY <1>1, <1>2, <1>3, GiveUpKeeps
<1>4. CASE job.kind = "probe" /\ Ends("resident")
  <2>1. job' = NoJob /\ last'.end = "resident"
    BY <1>4 DEF Ends
  <2>2. spent'.faults = 0 => gpu'.core = 0
    BY <1>1 DEF VfOK, ProbeOK
  <2> QED
    BY <1>1, <1>2, <2>1, <2>2, RestKeeps, NothingClaimed
<1> QED
  BY <1>3, <1>4 DEF Dwell

(* However many calls a reset misses, it gives no fault back.              *)
LEMMA FaultsCounted ==
    ASSUME VfOK, NEW missed \in SUBSET {"lock", "core", "curve", "cap"},
           NEW blind \in {{}} \cup {{b} : b \in Bins},
           Faults(Cardinality(missed) + Cardinality(blind))
    PROVE  /\ spent' \in [jobs : Nat, faults : Nat]
           /\ spent'.faults = 0 => spent.faults = 0
<1>1. IsFiniteSet({"lock", "core", "curve", "cap"})
  <2>1. IsFiniteSet({"lock"})
    BY FS_Singleton
  <2>2. IsFiniteSet({"lock"} \cup {"core"})
    BY <2>1, FS_AddElement
  <2>3. IsFiniteSet(({"lock"} \cup {"core"}) \cup {"curve"})
    BY <2>2, FS_AddElement
  <2>4. IsFiniteSet((({"lock"} \cup {"core"}) \cup {"curve"}) \cup {"cap"})
    BY <2>3, FS_AddElement
  <2>5. (({"lock"} \cup {"core"}) \cup {"curve"}) \cup {"cap"} = {"lock", "core", "curve", "cap"}
    OBVIOUS
  <2> QED
    BY <2>4, <2>5
<1>2. IsFiniteSet(missed) /\ IsFiniteSet(blind)
  BY <1>1, FS_Subset, FS_EmptySet, FS_Singleton
<1>3. Cardinality(missed) \in Nat /\ Cardinality(blind) \in Nat
  BY <1>2, FS_CardinalityType
<1> QED
  BY <1>3 DEF Faults, VfOK, TypeOK

LEMMA UndoKeeps == VfOK /\ Undo => VfOK'
<1> SUFFICES ASSUME VfOK, Undo PROVE VfOK'
  OBVIOUS
<1>1. PICK missed \in SUBSET {"lock", "core", "curve", "cap"}, blind \in {{}} \cup {{b} : b \in Bins} :
         /\ Faults(Cardinality(missed) + Cardinality(blind))
         /\ gpu' \in ResetToStock(missed)
         /\ Ends(IF job.kind \in F1Probes THEN "dropped"
                 ELSE IF Confirmed(gpu', blind) THEN "clean" ELSE "unconfirmed")
  BY DEF Undo
<1>2. /\ job.pc = "undo" /\ job.kind # "core" /\ job.kind \in Kinds /\ base' = base
      /\ job.bin \in Bins /\ (job.kind \in Anchored => job.bin \in SaneBins)
  BY DEF Undo, VfOK, JobOK
<1>3. spent' \in [jobs : Nat, faults : Nat] /\ (spent'.faults = 0 => spent.faults = 0)
  BY <1>1, FaultsCounted
<1>4. PICK off : /\ off \in {Cleared} \cup {ClearedBelow(k) : k \in Bins}
                 /\ gpu' = [off  |-> off,
                            lock |-> IF "lock" \in missed THEN gpu.lock ELSE None,
                            cap  |-> IF "cap" \in missed THEN gpu.cap ELSE None,
                            core |-> IF "core" \in missed THEN gpu.core ELSE 0]
  <2> HIDE DEF Cleared, ClearedBelow
  <2> QED
    BY <1>1 DEF ResetToStock
<1>5. off \in [Bins -> Int] /\ \A b \in Bins : off[b] \in {0, gpu.off[b]}
  BY <1>4 DEF Cleared, ClearedBelow, VfOK, TypeOK
<1>6. gpu' \in [off : [Bins -> Int], lock : Bins \cup {None}, cap : Targets \cup {None}, core : Int]
  BY <1>4, <1>5 DEF VfOK, TypeOK
<1>7. TypeOK'
  BY <1>2, <1>3, <1>6 DEF VfOK, TypeOK, Bins
<1>8. spent'.faults = 0 => gpu'.core = 0
  BY <1>3, <1>4 DEF VfOK, ProbeOK
<1>9. job' = NoJob
  BY <1>1 DEF Ends
<1>10. CASE job.kind \in F1Probes \/ ~ Confirmed(gpu', blind)
  <2>1. last'.end \in {"dropped", "unconfirmed"}
    BY <1>1, <1>10 DEF Ends
  <2> QED
    BY <1>2, <1>7, <1>8, <1>9, <2>1, RestKeeps, NothingClaimed
<1>11. CASE job.kind \notin F1Probes /\ Confirmed(gpu', blind)
  <2>1. last' = [kind |-> job.kind, end |-> "clean", target |-> job.target, bin |-> job.bin]
    BY <1>1, <1>11 DEF Ends
  <2>2. gpu'.lock = None /\ \A b \in Touched : gpu'.off[b] = 0
    BY <1>11 DEF Confirmed
  <2>3. job.bin \in Touched
    BY <1>2, <1>11, SaneBase DEF VfOK, Touched, Kinds
  <2>4. CASE job.kind \in {"apply", "candidate"}
    <3>1. Touched = Bins \cap SaneBins
      BY <2>4, SaneBase DEF VfOK, Touched
    <3>2. \A b \in Bins \ SaneBins : gpu.off[b] = 0
      BY <1>2, <2>4 DEF VfOK, CardOK
    <3>3. gpu'.off = off
      BY <1>4
    <3>4. \A b \in Bins : off[b] = 0
      BY <1>5, <2>2, <3>1, <3>2, <3>3
    <3>5. off = [b \in Bins |-> 0]
      BY <1>5, <3>4
    <3>6. gpu'.off = Cleared'
      BY <1>2, <3>3, <3>5 DEF Cleared, Bins
    <3> QED
      BY <1>2, <1>7, <1>8, <1>9, <2>1, <2>2, <2>3, <3>6, RestKeeps
         DEF LastOK, ConfirmedErrorIsStock, AppliedIsThePlan
  <2>5. CASE job.kind \notin {"apply", "candidate"}
    BY <1>2, <1>7, <1>8, <1>9, <2>1, <2>2, <2>3, <2>5, RestKeeps
       DEF LastOK, ConfirmedErrorIsStock, AppliedIsThePlan
  <2> QED
    BY <2>4, <2>5
<1> QED
  BY <1>10, <1>11

-----------------------------------------------------------------------------
(* Between jobs.                                                           *)

LEMMA ResetKeeps == VfOK /\ Reset => VfOK'
<1> SUFFICES ASSUME VfOK, Reset PROVE VfOK'
  OBVIOUS
<1>1. UNCHANGED <<base, job>> /\ job = NoJob /\ last' = NoEnd
  BY DEF Reset, VfOK, JobOK
<1>2. PICK g \in ResetAllFails \cup {ResetAllOk} :
         /\ gpu' = g \/ gpu' = [g EXCEPT !.cap = None]
         /\ \/ UNCHANGED spent /\ g = ResetAllOk
            \/ Faults(1)
  BY DEF Reset, NoFault
<1>3. Cleared \in [Bins -> Int] /\ gpu \in [off : [Bins -> Int], lock : Bins \cup {None}, cap : Targets \cup {None}, core : Int]
  BY DEF Cleared, VfOK, TypeOK
<1>4. /\ ResetAllOk \in [off : [Bins -> Int], lock : Bins \cup {None}, cap : Targets \cup {None}, core : Int]
      /\ ResetAllOk.core = 0
  <2>1. PICK c \in [Bins -> Int] : c = Cleared
    BY <1>3
  <2>2. PICK g1 : g1 = [gpu EXCEPT !.lock = None]
    OBVIOUS
  <2>3. PICK g2 : g2 = [g1 EXCEPT !.core = 0]
    OBVIOUS
  <2>4. ResetAllOk = [g2 EXCEPT !.off = c]
    BY <2>1, <2>2, <2>3, Zenon DEF ResetAllOk
  <2>5. g1 \in [off : [Bins -> Int], lock : Bins \cup {None}, cap : Targets \cup {None}, core : Int]
    BY <1>3, <2>2
  <2>6. g2 \in [off : [Bins -> Int], lock : Bins \cup {None}, cap : Targets \cup {None}, core : Int]
        /\ g2.core = 0
    BY <2>3, <2>5
  <2> QED
    BY <2>4, <2>6
<1>5. g \in [off : [Bins -> Int], lock : Bins \cup {None}, cap : Targets \cup {None}, core : Int]
  BY <1>4, ResetFailsType DEF VfOK
<1>6. gpu' \in [off : [Bins -> Int], lock : Bins \cup {None}, cap : Targets \cup {None}, core : Int]
  BY <1>2, <1>5
<1>7. /\ spent' \in [jobs : Nat, faults : Nat]
      /\ spent'.faults = 0 => g = ResetAllOk
  BY <1>2 DEF Faults, VfOK, TypeOK
<1>8. TypeOK'
  BY <1>1, <1>6, <1>7 DEF VfOK, TypeOK, Bins
<1>9. spent'.faults = 0 => gpu'.core = 0
  BY <1>2, <1>4, <1>5, <1>7
<1> QED
  BY <1>1, <1>8, <1>9, RestKeeps, NothingClaimed DEF NoJob

LEMMA RestartKeeps == VfOK /\ Restart => VfOK'
<1> SUFFICES ASSUME VfOK, Restart PROVE VfOK'
  OBVIOUS
<1>1. /\ base' = base /\ job' = NoJob /\ last' = NoEnd
      /\ gpu' = [off |-> gpu.off, lock |-> None, cap |-> None, core |-> gpu.core]
  BY DEF Restart, VfOK, TypeOK
<1>2. spent' \in [jobs : Nat, faults : Nat] /\ spent'.faults # 0
  BY DEF Restart, Faults, VfOK, TypeOK
<1>3. TypeOK'
  BY <1>1, <1>2 DEF VfOK, TypeOK, Bins
<1> QED
  BY <1>1, <1>2, <1>3, RestKeeps, NothingClaimed

(* A status request writes nothing, and no answer claims an Apply or a     *)
(* reset.                                                                  *)
LEMMA VerifyAppliedKeeps == VfOK /\ VerifyAppliedCurve => VfOK'
<1> SUFFICES ASSUME VfOK, VerifyAppliedCurve PROVE VfOK'
  OBVIOUS
<1>1. UNCHANGED <<base, gpu, job>> /\ job = NoJob
  BY DEF VerifyAppliedCurve, VfOK, JobOK
<1>2. PICK n \in {0, 1} : Faults(n)
  <2>1. \A b \in Bins : Cardinality({b}) = 1
    BY FS_Singleton
  <2>2. Cardinality({}) = 0
    BY FS_EmptySet
  <2> QED
    BY <2>1, <2>2 DEF VerifyAppliedCurve
<1>3. last'.kind = "status" /\ last'.end # "clean"
  <2>1. \A expected, observed : CurveVerdict(expected, observed) # "clean"
    BY DEF CurveVerdict
  <2>2. \A curve, load : curve # "clean" => EffectiveStatus(curve, load) # "clean"
    BY DEF EffectiveStatus
  <2>3. \A live, observed, result : LegacyStatus(live, observed, result) # "clean"
    BY <2>1, <2>2, Zenon DEF LegacyStatus
  <2> HIDE DEF LegacyStatus
  <2>4. PICK live, observed, result :
           last' = [kind |-> "status", target |-> profile.target, bin |-> profile.bin,
                    end |-> IF profile.kind = "core" THEN LegacyStatus(live, observed, result)
                            ELSE IF profile.kind = "undervolt" THEN "MetadataOnly" ELSE "NotApplicable"]
    BY Zenon DEF VerifyAppliedCurve
  <2> QED
    BY <2>3, <2>4
<1>4. spent' \in [jobs : Nat, faults : Nat] /\ (spent'.faults = 0 => spent.faults = 0)
  BY <1>2 DEF Faults, VfOK, TypeOK
<1>5. TypeOK'
  BY <1>1, <1>4 DEF VfOK, TypeOK, Bins
<1>6. spent'.faults = 0 => gpu'.core = 0
  BY <1>1, <1>4 DEF VfOK, ProbeOK
<1> QED
  BY <1>1, <1>3, <1>5, <1>6, RestKeeps, NothingClaimed DEF NoJob

-----------------------------------------------------------------------------
(* The theorems.                                                           *)

LEMMA VfStart == Init => VfOK
<1> SUFFICES ASSUME Init PROVE VfOK
  OBVIOUS
<1>1. TypeOK
  BY DEF Init, TypeOK, Stock, Bins
<1>2. JobOK /\ CardOK /\ ApplyOK /\ ProbeOK
  BY TablesAssumption DEF Init, NoJob, Stock, JobOK, CardOK, ApplyOK, ProbeOK, F1Probes
<1>3. LastOK
  BY TablesAssumption DEF Init, NoEnd, LastOK, AppliedIsThePlan, ConfirmedErrorIsStock
<1> QED
  BY <1>1, <1>2, <1>3 DEF VfOK

LEMMA VfStep == VfOK /\ [Next]_vars => VfOK'
<1> SUFFICES ASSUME VfOK, [Next]_vars PROVE VfOK'
  OBVIOUS
<1>1. CASE UNCHANGED vars
  BY <1>1 DEF vars, VfOK, TypeOK, JobOK, CardOK, ApplyOK, ProbeOK, LastOK, AppliedIsThePlan,
              ConfirmedErrorIsStock, Bins, Effective, Cleared, IsPlan, NoEnd
<1>2. CASE Next
  BY <1>2, BeginApplyKeeps, BeginCandidateKeeps, BeginStepKeeps, BeginManualPriorKeeps,
     BeginSimpleKeeps, BeginCoreKeeps, BeginProbeKeeps, PreResetKeeps, PreResetFailsKeeps,
     LockKeeps, LockFailsKeeps, WritePointKeeps, WriteDoesNotTakeKeeps, WriteRefusedKeeps,
     CoreFallsBackKeeps, CapKeeps, CapFailsKeeps, VerifyKeeps, DwellKeeps, UndoKeeps,
     ResetKeeps, RestartKeeps, VerifyAppliedKeeps, Zenon DEF Next
<1> QED
  BY <1>1, <1>2

THEOREM CardIsKept == Spec => []VfOK
<1>1. Init => VfOK
  BY VfStart
<1>2. VfOK /\ [Next]_vars => VfOK'
  BY VfStep
<1> QED
  BY <1>1, <1>2, PTL DEF Spec

(* Whatever was on the card and whichever write did not take, an Apply     *)
(* that reports success has left its plan there (gpu_undervolt.rs          *)
(* 4272-4280).                                                             *)
THEOREM SuccessIsThePlan == Spec => []AppliedIsThePlan
<1>1. VfOK => AppliedIsThePlan
  BY DEF VfOK, LastOK
<1> QED
  BY <1>1, CardIsKept, PTL

(* A confirmed reset has left no offset and no lock, however far the write *)
(* had come and whatever the reset missed (gpu_undervolt.rs 3166-3195).    *)
THEOREM ConfirmedIsStock == Spec => []ConfirmedErrorIsStock
<1>1. VfOK => ConfirmedErrorIsStock
  BY DEF VfOK, LastOK
<1> QED
  BY <1>1, CardIsKept, PTL

(* At no moment of an Apply or of a search, half written or half undone,   *)
(* does a bin run faster than both its stock clock and the target          *)
(* (gpu_undervolt.rs 3362-3364).                                           *)
THEOREM NoOverclock == Spec => []NeverOverclocks
<1>1. VfOK => NeverOverclocks
  <2> SUFFICES ASSUME VfOK, job.kind \in {"apply", "candidate"}, job.pc # "prereset", NEW b \in Bins
               PROVE  Effective(b) <= Max({base[b], job.target})
    BY DEF NeverOverclocks
  <2>1. base[b] \in Nat /\ gpu.off[b] \in Int
    BY CardFacts DEF VfOK, TypeOK
  <2>2. job.pc # "idle"
    BY TablesAssumption DEF VfOK, JobOK, NoJob
  <2>3. job.target \in Nat
    BY <2>2, TablesAssumption DEF VfOK, JobOK
  <2>4. Effective(b) = base[b] + gpu.off[b] /\ Modest(gpu.off[b], base[b], job.target)
    BY <2>1 DEF VfOK, CardOK, Effective
  <2>5. PICK x \in Int, y \in Int : x = base[b] /\ y = job.target
    BY <2>1, <2>3
  <2>6. Max({x, y}) \in {x, y} /\ Max({x, y}) >= x /\ Max({x, y}) >= y
    BY MaxTwo
  <2>7. \A most \in Int : most >= x /\ most >= y => Effective(b) <= most
    BY <2>1, <2>4, <2>5 DEF Modest
  <2>8. Max({x, y}) \in Int
    BY <2>6
  <2> QED
    BY <2>5, <2>6, <2>7, <2>8
<1> QED
  BY <1>1, CardIsKept, PTL

(* The ceiling a frontier probe is about to load holds, whatever profile   *)
(* was on the card before it (gpu-nvapi lib.rs 813-822).                   *)
THEOREM CeilingHolds == Spec => []VerifiedCeilingHolds
<1>1. VfOK => VerifiedCeilingHolds
  <2> SUFFICES ASSUME VfOK, job.kind \in F1Probes, job.pc = "dwell", spent.faults = 0,
                      NEW b \in Bins, b >= job.bin
               PROVE  Effective(b) <= job.target
    BY DEF VerifiedCeilingHolds
  <2>1. job.target \in Nat /\ base \in [DOMAIN base -> Nat] /\ gpu.off[b] \in Int
    BY TablesAssumption, SaneBase DEF VfOK, JobOK, TypeOK
  <2>2. gpu.core = 0 /\ gpu.off[b] = MonotonePlan(base, job.bin, job.target)[b]
    BY DEF VfOK, ProbeOK
  <2>3. base[b] + MonotonePlan(base, job.bin, job.target)[b] <= job.target
    BY <2>1, MonotonePlanCaps DEF Bins
  <2>4. base[b] \in Nat
    BY <2>1 DEF Bins
  <2> QED
    BY <2>1, <2>2, <2>3, <2>4 DEF Effective
<1> QED
  BY <1>1, CardIsKept, PTL
==============================================================================
