----------------------------- MODULE VfControl ------------------------------
(***************************************************************************)
(* How the service writes the graphics card: the anchored undervolt of an  *)
(* Apply, of a manual point and of a search candidate (F2), the elastic    *)
(* ceiling of a legacy Apply and of a frontier probe (F1), and the resets. *)
(* A write goes bin by bin; any driver call may be refused, and a write    *)
(* may be accepted and yet not take.  What the card holds outlives the     *)
(* job, the service and the next job's plan.  One job at a time: the lease *)
(* is module GpuWorkers, the boot flag modules SafeLoop and CandidateMotor.*)
(***************************************************************************)
EXTENDS VfTable

CONSTANTS Tables,      \* static tables a card may have
          Targets,     \* clocks asked for
          Dips,        \* by how much an idle card under-reports its clocks
          Results,     \* what forge_state.json may hold: a named slot and points
          MaxJobs,     \* jobs begun
          MaxFaults    \* driver calls that fail or do not take, and restarts

(* A table has a clock for every bin it lists, and an idle card reports    *)
(* clocks that are too low, never too high.  None is no bin, no clock, no   *)
(* plan, and no name of a job or of an end.                                *)
ASSUME TablesAssumption ==
    /\ \A t \in Tables : DOMAIN t # {} /\ DOMAIN t \subseteq Nat /\ t \in [DOMAIN t -> Nat]
    /\ Targets \subseteq Nat /\ Dips \subseteq Nat
    /\ MaxJobs \in Nat /\ MaxFaults \in Nat
    /\ None \notin Nat \cup {"apply", "candidate", "core", "probe", "soak", "clean"}
    /\ \A t \in Tables : None \notin [DOMAIN t -> Int]

VARIABLES base,        \* the static table (read_vf_base_curve_modern)
          gpu,         \* offset per bin, voltage lock, clock cap, global offset
          job,         \* the job under way
          last,        \* how the last one ended
          profile,     \* gpu_applied.json, or that a manual point took its place
          spent
vars == <<base, gpu, job, last, profile, spent>>

Bins  == DOMAIN base
Stock == [off |-> [b \in Bins |-> 0], lock |-> None, cap |-> None, core |-> 0]
NoJob == [kind |-> None, pc |-> "idle", target |-> 0, bin |-> 0, plan |-> None, todo |-> {}]
NoEnd == [kind |-> None, end |-> None, target |-> 0, bin |-> 0]
NoProfile == [kind |-> "none", target |-> 0, bin |-> 0]

(* What a bin runs at, and what GetStatus reports of it.                   *)
Effective(b) == base[b] + gpu.off[b] + gpu.core
Live(dip)    == [b \in Bins |-> Effective(b) - dip]

Anchored == {"apply", "candidate", "step", "prior"}
Steps    == {"candidate", "step", "prior", "simple"}
F1Probes == {"probe", "soak"}

Init ==
    /\ base \in Tables
    /\ gpu = Stock
    /\ job = NoJob
    /\ last = NoEnd
    /\ profile = NoProfile
    /\ spent = [jobs |-> 0, faults |-> 0]

Faults(n) == spent.faults + n <= MaxFaults /\ spent' = [spent EXCEPT !.faults = @ + n]
NoFault   == UNCHANGED spent

MayBegin == job.pc = "idle" /\ spent.jobs < MaxJobs

Begins(kind, pc, target, bin, plan) ==
    /\ job' = [kind |-> kind, pc |-> pc, target |-> target, bin |-> bin, plan |-> plan,
               todo |-> IF plan = None THEN {} ELSE DOMAIN plan]
    /\ last' = NoEnd
    /\ spent' = [spent EXCEPT !.jobs = @ + 1]
    /\ UNCHANGED <<base, gpu>>

Goes(pc) == job' = [job EXCEPT !.pc = pc] /\ UNCHANGED <<last, profile>>

(* apply_and_persist and apply_and_persist_undervolt record what they have *)
(* applied; a manual point is not recorded.                                *)
Recorded(end) ==
    IF end \in {"applied", "fallback"} /\ profile.kind # "manual"
    THEN [kind |-> IF job.kind = "core" THEN "core" ELSE "undervolt", target |-> job.target, bin |-> job.bin]
    ELSE profile

Ends(end) ==
    /\ job' = NoJob
    /\ profile' = Recorded(end)
    /\ last' = [kind |-> job.kind, end |-> end, target |-> job.target, bin |-> job.bin]

-----------------------------------------------------------------------------
(* The driver's resets.                                                    *)

(* reset_vf_curve_checked stops at the first bin it cannot clear.          *)
ClearedBelow(k) == [b \in Bins |-> IF b < k THEN 0 ELSE gpu.off[b]]
Cleared         == [b \in Bins |-> 0]

(* reset_all: rail, global offset, curve, in this order, and nothing after *)
(* the call that fails.  The clock cap is not part of it.                  *)
Unlocked(g)   == [g EXCEPT !.lock = None]
ResetAllOk    == [gpu EXCEPT !.lock = None, !.core = 0, !.off = Cleared]
ResetAllFails ==
    {gpu, Unlocked(gpu)} \cup {[Unlocked(gpu) EXCEPT !.core = 0, !.off = ClearedBelow(k)] : k \in Bins}

(* reset_to_stock makes all four calls and looks at no result; `missed'    *)
(* are those that failed.                                                  *)
ResetToStock(missed) ==
    {[off  |-> off,
      lock |-> IF "lock" \in missed THEN gpu.lock ELSE None,
      cap  |-> IF "cap" \in missed THEN gpu.cap ELSE None,
      core |-> IF "core" \in missed THEN gpu.core ELSE 0] :
        off \in IF "curve" \in missed THEN {ClearedBelow(k) : k \in Bins} ELSE {Cleared}}

-----------------------------------------------------------------------------
(* Beginning a job.                                                        *)

ManualPoint == [NoProfile EXCEPT !.kind = "manual"]
Unmarked    == IF profile = ManualPoint THEN NoProfile ELSE profile

(* apply_anchored_undervolt, at the anchor of a profile or at the one found *)
(* for a manual point, which removes the record of the profile.            *)
BeginApply ==
    /\ MayBegin
    /\ \E t \in Targets, requested \in Bins :
          \/ Begins("apply", "prereset", t, requested, None) /\ profile' = Unmarked
          \/ LET a == ManualAnchor(Sane(base), t, requested)
             IN a # None /\ Begins("apply", "prereset", t, a, None) /\ profile' = ManualPoint

(* A candidate of a search: the session or the candidate before it has     *)
(* reset the card, and its step is counted from the candidate before it.   *)
BeginCandidate ==
    /\ MayBegin /\ gpu = Stock
    /\ UNCHANGED profile
    /\ \E t \in Targets, dip \in Dips, discovery \in BOOLEAN :
          LET table  == Sane(base)
              seed   == SeedFrom(Live(dip))
              limits == IF discovery THEN HardwareFrontier(table, seed.boost) ELSE Conservative(seed.boost)
              chain  == Descent(TRUE, table, t, Max(Bins), limits, Cardinality(Bins))
          IN /\ seed # None
             /\ \E bin \in chain :
                   Begins("candidate", "lock", t, bin,
                          AnchoredPlan(table, bin, t, ChainedPrev(table, t, chain, bin, 0), limits))

(* What the command line plans from: the stock clock, read on the card as  *)
(* it is; nothing is planned without it.                                   *)
StockCeilings == {SeedFrom(Live(dip)) : dip \in Dips} \ {None}

(* A single step of the command line from a start the operator names, or   *)
(* the first candidate of its sweep: it begins on the card as it is.       *)
BeginStep ==
    /\ MayBegin
    /\ UNCHANGED profile
    /\ \E t \in Targets, seed \in StockCeilings, start \in Bins :
          LET table == Sane(base)
          IN \E limits \in {Conservative(seed.boost), HardwareFrontier(table, seed.boost)} :
                LET plan == StepPlan(table, t, start, limits)
                IN plan # None /\ Begins("step", "lock", t, AnchorBin(table, t, start), plan)

BeginManualPrior ==
    /\ MayBegin
    /\ UNCHANGED profile
    /\ \E t \in Targets, seed \in StockCeilings, start \in Bins :
          LET plan == PriorPlan(Sane(base), t, start, seed.boost)
          IN plan # None /\ Begins("prior", "lock", t, AnchorBin(Sane(base), t, start), plan)

BeginSimple ==
    /\ MayBegin
    /\ UNCHANGED profile
    /\ \E t \in Targets, seed \in StockCeilings, start \in Bins :
          LET table  == Sane(base)
              limits == Conservative(seed.boost)
          IN \E bin \in SimpleDescent(table, t, start, limits, 1) :
                Begins("simple", "lock", t, bin, SimplePlan(table, bin, t, 0, limits))

(* apply_core: no reset, and offsets counted from the live curve           *)
BeginCore ==
    /\ MayBegin
    /\ profile' = Unmarked
    /\ \E t \in Targets, v \in Bins, dip \in Dips :
          Begins("core", "write", t, NearestBin(Bins, v), CeilingPlan(Live(dip), NearestBin(Bins, v), t))

(* Variant: a probe plans from the live curve, as an Apply does.           *)
BeginCeiling_live(kind) ==
    /\ MayBegin
    /\ UNCHANGED profile
    /\ \E t \in Targets, v \in Bins, dip \in Dips :
          Begins(kind, "write", t, NearestBin(Bins, v), CeilingPlan(Live(dip), NearestBin(Bins, v), t))

(* A ceiling under load: no reset either, but the static table.            *)
BeginCeiling(kind) ==
    /\ MayBegin
    /\ UNCHANGED profile
    /\ \E t \in Targets, v \in Bins :
          Begins(kind, "write", t, NearestBin(Bins, v), MonotonePlan(base, NearestBin(Bins, v), t))

(* real_probe_step                                                         *)
BeginProbe == BeginCeiling("probe")

(* A pass of the arduous validation of a pick.                             *)
BeginSoak == BeginCeiling("soak")

-----------------------------------------------------------------------------
(* The steps of a job.                                                     *)

(* Variant: the Apply stacks on what the card holds.                       *)
PreReset_kept ==
    /\ job.pc = "prereset"
    /\ gpu' = gpu /\ NoFault
    /\ \E dip \in Dips :
          LET table == Sane(base)
              seed  == SeedFrom([b \in Bins |-> base[b] - dip])
              ready == seed # None /\ ExactAnchor(table, job.target, job.bin) # None
          IN IF ready
             THEN /\ job' = [job EXCEPT !.pc = "lock",
                                        !.plan = AnchoredPlan(table, job.bin, job.target, 0,
                                                              HardwareFrontier(table, seed.boost))]
                  /\ UNCHANGED <<last, profile>>
             ELSE Ends("refused")
    /\ UNCHANGED base

(* The stock reset before an Apply, and what is read and planned after it. *)
PreReset ==
    /\ job.pc = "prereset"
    /\ gpu' = ResetAllOk /\ NoFault
    /\ \E dip \in Dips :
          LET table == Sane(base)
              seed  == SeedFrom([b \in Bins |-> base[b] - dip])
              ready == seed # None /\ ExactAnchor(table, job.target, job.bin) # None
          IN IF ready
             THEN /\ job' = [job EXCEPT !.pc = "lock",
                                        !.plan = AnchoredPlan(table, job.bin, job.target, 0,
                                                              HardwareFrontier(table, seed.boost))]
                  /\ UNCHANGED <<last, profile>>
             ELSE Ends("refused")
    /\ UNCHANGED base

PreResetFails ==
    /\ job.pc = "prereset"
    /\ gpu' \in ResetAllFails /\ Faults(1)
    /\ Ends("failed")
    /\ UNCHANGED base

(* The rail is locked and read back before the curve is touched; a plan    *)
(* that is refused is found out after it.                                  *)
Lock ==
    /\ job.pc = "lock"
    /\ gpu' = [gpu EXCEPT !.lock = job.bin] /\ NoFault
    /\ IF job.plan = None THEN Goes("undo")
       ELSE /\ job' = [job EXCEPT !.pc = "write", !.todo = DOMAIN job.plan]
            /\ UNCHANGED <<last, profile>>
    /\ UNCHANGED base

LockFails ==
    /\ job.pc = "lock"
    /\ \E rail \in Bins \cup {None} : gpu' = [gpu EXCEPT !.lock = rail]
    /\ Faults(1)
    /\ Goes("undo")
    /\ UNCHANGED base

Write(off) ==
    LET b     == Min(job.todo)
        after == IF job.kind \in Steps THEN "cap" ELSE "verify"
    IN /\ job.pc = "write"
       /\ gpu' = [gpu EXCEPT !.off[b] = off[b]]
       /\ IF job.todo # {b} THEN job' = [job EXCEPT !.todo = @ \ {b}] /\ UNCHANGED <<last, profile>>
          ELSE IF job.kind = "core" THEN Ends("applied")
          ELSE job' = [job EXCEPT !.todo = {}, !.pc = after] /\ UNCHANGED <<last, profile>>
       /\ UNCHANGED base

WritePoint == Write(job.plan) /\ NoFault

(* Accepted, but without effect or only in part.                           *)
WriteDoesNotTake ==
    /\ \/ Write(gpu.off)
       \/ Write([b \in DOMAIN job.plan |-> job.plan[b] \div 2])
    /\ Faults(1)

WriteRefused ==
    /\ job.pc = "write" /\ job.kind # "core"
    /\ Faults(1)
    /\ Goes("undo")
    /\ UNCHANGED <<base, gpu>>

(* apply_core then falls back to a global offset and a clock cap, over     *)
(* what has been written so far.                                           *)
CoreFallsBack ==
    /\ job.pc = "write" /\ job.kind = "core"
    /\ Faults(1)
    /\ \E dip \in Dips, capped \in BOOLEAN :
          gpu' = [gpu EXCEPT !.core = Max({-300, Min({400, job.target - Live(dip)[job.bin]})}),
                             !.cap = IF capped THEN job.target ELSE @]
    /\ Ends("fallback")
    /\ UNCHANGED base

(* The clock cap comes after the verdict in an Apply, before it in a       *)
(* candidate.                                                              *)
Cap ==
    /\ job.pc = "cap"
    /\ gpu' = [gpu EXCEPT !.cap = job.target] /\ NoFault
    /\ IF job.kind = "apply" THEN Ends("applied") ELSE Goes("verify")
    /\ UNCHANGED base

CapFails ==
    /\ job.pc = "cap"
    /\ Faults(1)
    /\ Goes("undo")
    /\ UNCHANGED <<base, gpu>>

(* Every offset as it reads back; one may be unreadable.                   *)
Observed(blind) == [b \in Bins |-> IF b \in blind THEN None ELSE gpu.off[b]]

Verdict(observed, dip) ==
    CASE job.kind \in Anchored -> AnchoredVerdict(Sane(base), job.bin, job.target, observed) = "RaiseVerified"
      [] job.kind = "simple"   -> RaiseVerdict(Raise(base, job.bin, job.target), observed[job.bin]) = "RaiseVerified"
      [] job.kind = "probe"    -> CeilingVerified(base, Live(dip), job.bin, job.target, observed, SeedFrom(base).boost)
      [] job.kind = "soak"     -> CeilingVerified(base, Live(dip), job.bin, job.target, observed, None)

Verify ==
    /\ job.pc = "verify"
    /\ \E blind \in {{}} \cup {{b} : b \in Bins}, dip \in Dips :
          /\ Faults(Cardinality(blind))
          /\ Goes(IF Verdict(Observed(blind), dip)
                  THEN IF job.kind = "apply" THEN "cap" ELSE "dwell"
                  ELSE "undo")
    /\ UNCHANGED <<base, gpu>>

(* A probe that does not crash leaves its ceiling on the card.             *)
Dwell ==
    /\ job.pc = "dwell"
    /\ \/ Goes("undo")
       \/ job.kind = "probe" /\ Ends("resident")
    /\ NoFault
    /\ UNCHANGED <<base, gpu>>

(* Which bins the confirmation reads.                                      *)
Touched == IF job.kind = "simple" THEN {job.bin} ELSE DOMAIN Sane(base)

(* Variant: the readback looks at the anchor alone.                        *)
Confirmed_anchor(g, blind) == blind = {} /\ g.lock = None /\ g.off[job.bin] = 0

(* reset_and_confirm and RealF2Ops::reset_to_stock read back what they     *)
(* reset, the clock cap and the global offset excepted; the frontier's     *)
(* probes do not read.                                                     *)
Confirmed(g, blind) == blind = {} /\ g.lock = None /\ \A b \in Touched : g.off[b] = 0

Undo ==
    /\ job.pc = "undo"
    /\ \E missed \in SUBSET {"lock", "core", "curve", "cap"}, blind \in {{}} \cup {{b} : b \in Bins} :
          /\ Faults(Cardinality(missed) + Cardinality(blind))
          /\ gpu' \in ResetToStock(missed)
          /\ Ends(IF job.kind \in F1Probes THEN "dropped"
                  ELSE IF Confirmed(gpu', blind) THEN "clean" ELSE "unconfirmed")
    /\ UNCHANGED base

-----------------------------------------------------------------------------
(* gpu_apply::reset, with its two calls                                    *)
Reset ==
    /\ job.pc = "idle" /\ gpu # Stock
    /\ \/ gpu' = [ResetAllOk EXCEPT !.cap = None] /\ profile' = NoProfile /\ NoFault
       \/ \E g \in ResetAllFails : gpu' = [g EXCEPT !.cap = None] /\ UNCHANGED profile /\ Faults(1)
       \/ gpu' = ResetAllOk /\ UNCHANGED profile /\ Faults(1)
    /\ last' = NoEnd
    /\ UNCHANGED <<base, job>>

(* The service dies and comes back: reapply_on_boot releases the cap and   *)
(* the rail, and leaves the curve.                                         *)
Restart ==
    /\ Faults(1)
    /\ gpu' = [gpu EXCEPT !.lock = None, !.cap = None]
    /\ job' = NoJob
    /\ last' = NoEnd
    /\ UNCHANGED <<base, profile>>

(* What verify_applied_curve finds of a legacy profile: no curve at all,   *)
(* or its offsets, and the dwell its point was measured with.              *)
LegacyStatus(live, observed, result) ==
    LET ceiling == NearestBin(DOMAIN live, profile.bin)
        curve   == CurveVerdict({b \in DOMAIN live : b >= ceiling}, observed)
        point   == AppliedPoint(result, profile.target)
    IN IF live = <<>> THEN "VerificationFailed"
       ELSE EffectiveStatus(curve, LoadVerdict(curve, point, profile.target))

(* A status request reads the record and the card and writes nothing; an   *)
(* undervolt was verified when it was applied and is not read again.       *)
VerifyAppliedCurve ==
    /\ job.pc = "idle"
    /\ \E blind \in {{}} \cup {{b} : b \in Bins}, live \in {<<>>} \cup {Live(dip) : dip \in Dips},
         result \in Results \cup {None} :
          /\ Faults(Cardinality(blind))
          /\ last' = [kind |-> "status", target |-> profile.target, bin |-> profile.bin,
                      end |-> IF profile.kind = "core" THEN LegacyStatus(live, Observed(blind), result)
                              ELSE IF profile.kind = "undervolt" THEN "MetadataOnly" ELSE "NotApplicable"]
    /\ UNCHANGED <<base, gpu, job, profile>>

Next ==
    \/ BeginApply \/ BeginCandidate \/ BeginStep \/ BeginManualPrior \/ BeginSimple \/ BeginCore
    \/ BeginProbe \/ BeginSoak
    \/ PreReset \/ PreResetFails \/ Lock \/ LockFails
    \/ WritePoint \/ WriteDoesNotTake \/ WriteRefused \/ CoreFallsBack
    \/ Cap \/ CapFails \/ Verify \/ Dwell \/ Undo
    \/ Reset \/ Restart \/ VerifyAppliedCurve

Spec == Init /\ [][Next]_vars

-----------------------------------------------------------------------------
(* Properties.                                                             *)

(* An Apply that reports success has left the plan on the card, whatever   *)
(* was on it before and whichever write did not take: the anchor at the    *)
(* target, no other bin raised, nothing above the target, rail and clock   *)
(* held (apply_anchored_undervolt, gpu_undervolt.rs 4272-4280).            *)
AppliedIsThePlan ==
    last.kind = "apply" /\ last.end = "applied" =>
        /\ gpu.lock = last.bin /\ gpu.cap = last.target
        /\ Effective(last.bin) \in last.target - VerifyTol .. last.target + VerifyTol
        /\ \A b \in (SaneBins \cap Bins) \ {last.bin} :
              gpu.off[b] <= VerifyTol /\ Effective(b) <= last.target + VerifyTol

(* A failed Apply or a finished candidate of a search that claims a        *)
(* confirmed reset has left no offset on any bin, whatever was there       *)
(* before, and no rail locked, however far the write had come and whatever *)
(* the reset missed; a step of the command line, which starts on the card  *)
(* as it is, at least none on its own bin (gpu_undervolt.rs 3166-3195,     *)
(* 4326-4355).                                                             *)
ConfirmedErrorIsStock ==
    last.end = "clean" =>
        /\ gpu.lock = None /\ gpu.off[last.bin] = 0
        /\ last.kind \in {"apply", "candidate"} => gpu.off = Cleared

(* At no moment of an Apply or of a search - half written, undone, broken  *)
(* off - does a bin run faster than both its stock clock and the target:   *)
(* F2 holds an existing clock and never overclocks (gpu_undervolt.rs       *)
(* 3362-3364).                                                             *)
NeverOverclocks ==
    job.kind \in {"apply", "candidate"} /\ job.pc # "prereset" =>
        \A b \in Bins : Effective(b) <= Max({base[b], job.target})

(* The ceiling a frontier probe is about to load holds whatever profile    *)
(* was on the card before it, as long as the driver does what it is told:  *)
(* its offsets come from the static table (gpu-nvapi lib.rs 813-822).      *)
VerifiedCeilingHolds ==
    job.kind \in F1Probes /\ job.pc = "dwell" /\ spent.faults = 0 =>
        \A b \in Bins : b >= job.bin => Effective(b) <= job.target

(* The same of a legacy Apply, whose offsets come from the live curve:     *)
(* this does not hold (see the README).                                    *)
AppliedCeilingHolds ==
    last.kind = "core" /\ last.end = "applied" /\ spent.faults = 0 =>
        \A b \in Bins : b >= last.bin => Effective(b) <= last.target
=============================================================================
