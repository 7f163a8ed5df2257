----------------------------- MODULE ClockDescent -----------------------------
(***************************************************************************)
(* The search at one clock: the Forge walks the voltage down, candidate by *)
(* candidate (run_confirmed_f2_clock_discovery in gpu_undervolt.rs), and   *)
(* retries a bad start from higher up (the per-target part of              *)
(* measure_multiclock_undervolt_forge in gpu_power_sweep.rs).              *)
(*                                                                         *)
(* `Plan' is the planned descent, voltages from high to low; every stored  *)
(* observation still matches it.  Indexes run from 1, 0 is "no index".     *)
(***************************************************************************)
EXTENDS CandidateMotor, FrontierPrediction

CONSTANTS
    Plan,        \* the planned voltages, descending
    Bins,        \* every bin of the curve: those of Plan and some above
    Dwells,      \* what a discovery dwell can measure
    Quals,       \* what a qualification dwell can measure
    Befores,     \* what the clocks before can have left: their boundaries, the
                 \* next start they propose and their conservative start
    PowerLimit,  \* W
    MaxSessions, MaxStops, MaxReboots,  \* bounds
    TornWrites   \* whether a crash can cut a line in two

ASSUME PlanDescends ==
    Plan \in Seq(Bins) /\ Bins \subseteq Nat /\ \A m, n \in DOMAIN Plan : m < n => Plan[m] > Plan[n]

(* A discovery dwell is a clock drop only if its power was measured: p99   *)
(* is of the samples that drew any (classify_f2_stress_dwell,              *)
(* sustained_power_percentile).                                            *)
ASSUME DwellsAssumption ==
    /\ Dwells \subseteq [outcome : DwellOutcomes, p99 : Int, p5 : Int]
    /\ Quals \subseteq [outcome : DwellOutcomes, p5 : Int, retryable : BOOLEAN]
    /\ \A d \in Dwells : d.outcome = "ClockDrop" => d.p99 > 0

VARIABLES
    log,    \* f2_observations.jsonl
    call,   \* the descent under way
    forge,  \* the session that makes the calls
    stop,   \* the stop flag
    seen,   \* observer: what happened, no action reads it
    spent   \* consumption of the bounds

vars == <<flag, hw, blacklist, motor, faults, log, call, forge, stop, seen, spent>>

obs == log.obs

(* F2_DESCENT_DETECTOR_PASSES, in both modes.                              *)
QualificationPasses == 1

NoAnalysis == [outcome |-> "none", p99 |-> None, p5 |-> None, cap |-> "none", confirmed |-> FALSE]

IdleCall ==
    [pc |-> "off", start |-> None, cands |-> <<>>, exhausted |-> {}, refresh |-> FALSE, priorGood |-> None,
     i |-> 1, reports |-> <<>>, rechecked |-> FALSE, clean |-> FALSE, retainNow |-> FALSE, broken |-> FALSE,
     found |-> NoAnalysis, verdict |-> "none", retries |-> 0, history |-> <<>>, queue |-> <<>>,
     had |-> FALSE, power |-> <<>>, cap |-> "none",
     jumped |-> 0, bracket |-> <<>>, failed |-> 0, local |-> FALSE, qualified |-> 0,
     completed |-> FALSE, aborted |-> FALSE, retain |-> FALSE, reason |-> "PhysicalFloorReached",
     executed |-> FALSE, sustainable |-> FALSE, nextStart |-> None, rejected |-> FALSE]

IdleForge == [pc |-> "idle", run |-> 0, resume |-> FALSE, conservative |-> None, climbs |-> 0, fellBack |-> FALSE,
              paused |-> FALSE, aborted |-> FALSE]

NothingSeen == [optimistic |-> {}, condemned |-> {}, lost |-> FALSE, hammered |-> [mv \in Bins |-> 0]]

Init ==
    /\ MotorInit
    /\ log = EmptyLog
    /\ call = IdleCall
    /\ forge = IdleForge
    /\ stop = FALSE
    /\ seen = NothingSeen
    /\ spent = [sessions |-> 0, stops |-> 0, reboots |-> 0]

Candidate == call.cands[call.i]
AllReports == call.reports \o motor.reports
NearCap == call.found.cap = "NearCap"

StopAt(c, completed, reason) == [c EXCEPT !.pc = "summary", !.completed = completed, !.reason = reason]
AbortWith(c, reason) == [c EXCEPT !.pc = "summary", !.aborted = TRUE, !.reason = reason]

-----------------------------------------------------------------------------
(* What a call starts from.                                                *)

(* The elements of s that are in S: a bound on the voltage cuts a descent, *)
(* and the dwells of one kind follow each other, so they are one piece.    *)
Piece(s, S) ==
    LET mine == {n \in DOMAIN s : s[n] \in S}
    IN IF mine = {} THEN <<>> ELSE SubSeq(s, Min(mine), Max(mine))

PowerBoundAnchors(evidence) ==
    {o.anchor : o \in {x \in ForTarget(evidence, Target) :
        IsCurrentDiscoveryEvidence(x) /\ x.outcome = "PowerBoundClockDrop"}}

ValidatedAnchors(evidence) ==
    {o.anchor : o \in {x \in ForTarget(evidence, Target) : IsCurrentDiscoveryEvidence(x) /\ IsValidated(x)}}

ResumeEligible(run, resume) == {o \in obs : ~ resume \/ o.run = run}

(* Both modes qualify during the descent, so a fresh run discovers anew.   *)
RefreshDiscovery(resume) == QualificationPasses > 0 /\ ~ resume

(* Variant: the known failure is left out of the bounds.                   *)
ResumeCandidates_Blind(planned, good, bad, powerBound) ==
    LET below == MinOrNone({good, powerBound} \ {None})
    IN IF FALSE
       THEN IF good # None THEN <<>> ELSE Piece(planned, {v \in Bins : v > bad})
       ELSE Piece(planned, {v \in Bins : below = None \/ v < below})

(* A failure is never approached again; without one, go on below the best. *)
ResumeCandidates(planned, good, bad, powerBound) ==
    LET below == MinOrNone({good, powerBound} \ {None})
    IN IF bad # None
       THEN IF good # None THEN <<>> ELSE Piece(planned, {v \in Bins : v > bad})
       ELSE Piece(planned, {v \in Bins : below = None \/ v < below})

NewCall(run, resume, start) ==
    LET prior   == ResumeEligible(run, resume)
        good    == LastDiscoveryGood(prior, Target)
        bad     == FirstBad(prior, Target)
        refresh == RefreshDiscovery(resume)
        reuse   == IF refresh THEN None ELSE good
        bound   == IF refresh THEN None ELSE MinOrNone(PowerBoundAnchors(prior))
        planned == Piece(Plan, {v \in Bins : start = None \/ v <= start})
        cands   == ResumeCandidates(planned, reuse, bad, bound)
        nothing == cands = <<>> /\ reuse = None /\ bad = None /\ bound = None
        c       == [IdleCall EXCEPT
                       !.pc = "next", !.start = start, !.cands = cands, !.refresh = refresh,
                       !.priorGood = good, !.had = reuse # None,
                       !.exhausted = InconclusiveOnly(ForTarget(obs, Target), run),
                       !.completed = ~ refresh /\ (bad # None \/ (cands = <<>> /\ ~ nothing)),
                       !.reason = IF bad # None THEN "KnownBoundaryResumed" ELSE @]
    IN IF cands # <<>> /\ flag # None
       THEN [AbortWith(c, "SafetyGateRefused") EXCEPT !.pc = "ended", !.completed = FALSE]
       ELSE IF refresh /\ cands = <<>> /\ good # None
       THEN [c EXCEPT !.completed = FALSE, !.reason = "FreshDiscoveryNoPhysicalCandidates",
                      !.aborted = nothing /\ start = None]
       ELSE IF nothing /\ start # None
       THEN [c EXCEPT !.completed = TRUE, !.reason = "WarmStartNoPhysicalCandidates"]
       ELSE IF nothing THEN AbortWith(c, "NoPhysicalCandidates")
       ELSE c

-----------------------------------------------------------------------------
(* The loop: one candidate after the other.                                *)

FreshCandidate(c) ==
    [c EXCEPT !.pc = "dwell", !.reports = <<>>, !.rechecked = FALSE, !.clean = FALSE, !.retainNow = FALSE,
              !.broken = FALSE, !.found = NoAnalysis, !.verdict = "none", !.retries = 0, !.queue = <<>>]

(* The conditions before a candidate, in the code's order.                 *)
NextCandidate ==
    /\ call.pc = "next"
    /\ LET ends == IF call.i > Len(call.cands) THEN StopAt(call, call.completed, call.reason)
                   ELSE IF call.failed = call.i THEN StopAt(call, TRUE, "AdaptiveKnownFailureBoundary")
                   ELSE IF stop THEN StopAt(call, call.completed, "Cancelled")
                   ELSE IF Blacklisted(Candidate) THEN StopAt(call, TRUE, "BlacklistedBoundary")
                   ELSE IF ~ Selectable(Candidate) THEN AbortWith(call, "SafetyPrecheckFailed")
                   ELSE call
       IN IF ends # call THEN call' = ends /\ UNCHANGED motor
          ELSE call' = FreshCandidate(call) /\ Begin("transaction", Candidate)
    /\ UNCHANGED <<flag, hw, blacklist, faults, log, forge, stop, seen, spent>>

(* The last attempt counts as clean until cleanup says otherwise.          *)
Provisional(reports) ==
    [n \in DOMAIN reports |->
        IF n = Len(reports) THEN [reports[n] EXCEPT !.clean = TRUE] ELSE reports[n]]

(* A discovery dwell.  A p99 that does not fit the previous bin's is       *)
(* measured again, each time in a transaction of its own.                  *)
DiscoveryDwell ==
    /\ call.pc = "dwell" /\ motor.pc = "active"
    /\ \E d \in Dwells :
          LET r     == [Report("Discovery", d.outcome) EXCEPT !.p99 = d.p99, !.p5 = d.p5]
              ran   == RunPhase(r)
              tries == Provisional(call.reports \o ran.reports)
              again == IF call.reports = <<>>
                       THEN RequiresRecheck(call.power, r)
                       ELSE r.outcome \notin HardFailures /\ ~ RecheckResolved(tries, PowerLimit, call.cap)
          IN /\ motor' = IF again THEN Finish(ran) ELSE ran
             /\ call' = [call EXCEPT !.pc = IF again THEN "recheck" ELSE "analyse",
                                     !.rechecked = @ \/ again]
             /\ seen' = [seen EXCEPT !.lost = @ \/ d.outcome = "DeviceLost"]
    /\ UNCHANGED <<flag, hw, blacklist, faults, log, forge, stop, spent>>

(* The write did not come about.                                           *)
TransactionStartFailed ==
    /\ call.pc = "dwell" /\ motor.pc = "done"
    /\ call' = [call EXCEPT !.pc = "analyse", !.broken = TRUE]
    /\ UNCHANGED <<mvars, log, forge, stop, seen, spent>>

CollectedMotor(c) ==
    [c EXCEPT !.reports = AllReports, !.clean = motor.clean, !.retainNow = motor.retain]

(* Up to three attempts, the safety check before each.                     *)
RecheckPower ==
    /\ call.pc = "recheck" /\ motor.pc = "done"
    /\ LET c == CollectedMotor(call)
       IN IF motor.clean /\ Len(c.reports) < 3 /\ Selectable(Candidate)
          THEN call' = [c EXCEPT !.pc = "dwell"] /\ Begin("transaction", Candidate)
          ELSE /\ call' = [c EXCEPT !.pc = "analyse",
                                    !.broken = ~ motor.clean \/ Len(c.reports) < 3]
               /\ motor' = IdleMotor
    /\ UNCHANGED <<flag, hw, blacklist, faults, log, forge, stop, seen, spent>>

-----------------------------------------------------------------------------
(* What the dwells of the candidate add up to.                             *)

(* The reports take the verdict and the confirmation of the attempts.      *)
Marked(reports, tries, near) ==
    [n \in DOMAIN reports |->
        [reports[n] EXCEPT
            !.outcome = IF tries[n].confirmed THEN PowerBound(tries[n].outcome, near) ELSE tries[n].outcome,
            !.confirmed = tries[n].confirmed]]

(* Consensus on p99, the cap state, the outcome; all reports are           *)
(* discovery dwells here.                                                  *)
Analyse ==
    /\ call.pc = "analyse"
    /\ LET active  == motor.pc = "active"
           raw     == IF active THEN Provisional(AllReports) ELSE AllReports
           p99     == ConservativeP99(raw, call.rechecked)
           tries   == ConfirmAttempts(raw, call.rechecked)
           group   == Aggregate(tries, p99)
           cap     == CapState(p99, PowerLimit, group.capped, call.cap)
           near    == cap = "NearCap"
           outcome == PowerBound(group.outcome, near)
           marked  == Marked(AllReports, tries, near)
           earlier == Len(call.reports)
           wants   == ~ call.broken /\ ShouldQualify(outcome, near, QualificationPasses)
           c       == [call EXCEPT
                          !.reports = SubSeq(marked, 1, earlier),
                          !.found = [outcome |-> outcome, p99 |-> p99, p5 |-> group.p5, cap |-> cap,
                                     confirmed |-> group.confirmed]]
           m       == [motor EXCEPT !.reports = SubSeq(marked, earlier + 1, Len(marked))]
           tested  == wants /\ Candidate \notin call.exhausted /\ active
       IN /\ call' = [c EXCEPT !.pc = IF tested THEN "qualify" ELSE "cleanup",
                               !.verdict = IF wants /\ Candidate \in call.exhausted THEN "Inconclusive"
                                           ELSE "none"]
          /\ motor' = IF active /\ ~ tested THEN Finish(m) ELSE m
    /\ UNCHANGED <<flag, hw, blacklist, faults, log, forge, stop, seen, spent>>

-----------------------------------------------------------------------------
(* Qualification: the heavy load, under the same write.                    *)

QualificationCancelled ==
    /\ call.pc = "qualify" /\ stop
    /\ call' = [call EXCEPT !.pc = "cleanup", !.verdict = "Cancelled"]
    /\ motor' = Finish(motor)
    /\ UNCHANGED <<flag, hw, blacklist, faults, log, forge, stop, seen, spent>>

(* A clock that keeps sinking from bin to bin is a drop, not a pass.       *)
Judged(q) ==
    IF q.outcome = "Validated" /\ MarginCollapsed(q.p5, call.history, Target) THEN "ClockDrop" ELSE q.outcome

Verdict(outcome) ==
    CASE outcome = "Validated" -> "Qualified"
      [] outcome = "DeviceLost" -> "Aborted"
      [] outcome = "Inconclusive" -> "Inconclusive"
      [] OTHER -> "Rejected"

(* Variant: the retry budget is off by one.                                *)
QualificationDwell_OneMore ==
    /\ call.pc = "qualify" /\ ~ stop
    /\ \E q \in Quals :
          LET outcome == Judged(q)
              r       == [Report("Qualification", outcome) EXCEPT !.p5 = q.p5, !.retryable = q.retryable]
              again   == outcome = "Inconclusive" /\ q.retryable /\ call.retries <= RetryBudget
          IN /\ motor' = IF again THEN RunPhase(r) ELSE Finish(RunPhase(r))
             /\ call' = [call EXCEPT
                            !.pc      = IF again THEN @ ELSE "cleanup",
                            !.verdict = IF again THEN @ ELSE Verdict(outcome),
                            !.retries = IF again THEN @ + 1 ELSE @,
                            !.history = IF outcome = "Validated" THEN Append(@, q.p5) ELSE @]
             /\ seen' = [seen EXCEPT !.lost = @ \/ outcome = "DeviceLost",
                                     !.hammered[Candidate] = IF outcome = "Validated" THEN 0 ELSE @ + 1]
    /\ UNCHANGED <<flag, hw, blacklist, faults, log, forge, stop, spent>>

(* The one required pattern: a pass, a failure, or an inconclusive dwell,  *)
(* repeated while that can help.                                           *)
QualificationDwell ==
    /\ call.pc = "qualify" /\ ~ stop
    /\ \E q \in Quals :
          LET outcome == Judged(q)
              r       == [Report("Qualification", outcome) EXCEPT !.p5 = q.p5, !.retryable = q.retryable]
              again   == outcome = "Inconclusive" /\ q.retryable /\ call.retries < RetryBudget
          IN /\ motor' = IF again THEN RunPhase(r) ELSE Finish(RunPhase(r))
             /\ call' = [call EXCEPT
                            !.pc      = IF again THEN @ ELSE "cleanup",
                            !.verdict = IF again THEN @ ELSE Verdict(outcome),
                            !.retries = IF again THEN @ + 1 ELSE @,
                            !.history = IF outcome = "Validated" THEN Append(@, q.p5) ELSE @]
             /\ seen' = [seen EXCEPT !.lost = @ \/ outcome = "DeviceLost",
                                     !.hammered[Candidate] = IF outcome = "Validated" THEN 0 ELSE @ + 1]
    /\ UNCHANGED <<flag, hw, blacklist, faults, log, forge, stop, spent>>

-----------------------------------------------------------------------------
(* Cleanup is over: record what was learned.                               *)

(* Variant: the lines are written in the order of the dwells.              *)
PersistOrder_AsMeasured(reports, clean) == reports

OfKind(reports, kind) == Piece(reports, {r \in Reports(reports) : r.kind = kind})

(* Qualification first, so that a crash between two lines cannot keep the  *)
(* optimistic one alone; after a failed cleanup only the last report.      *)
PersistOrder(reports, clean) ==
    IF ~ clean THEN <<Last(reports)>>
    ELSE OfKind(reports, "Qualification") \o OfKind(reports, "Discovery")

CandidateCleanup ==
    /\ call.pc = "cleanup" /\ motor.pc \in {"done", "idle"}
    /\ LET c     == IF motor.pc = "done" THEN CollectedMotor(call) ELSE call
           lost  == \E r \in Reports(c.reports) : r.outcome = "DeviceLost"
           hard  == \E r \in Reports(c.reports) : r.outcome \in {"DeviceLost", "SilentError", "Unstable"}
       IN /\ call' = [c EXCEPT !.pc = "persist",
                               !.queue = PersistOrder(c.reports, c.clean),
                               !.broken = @ \/ ~ c.clean,
                               !.found.outcome = IF c.clean THEN @ ELSE IF lost THEN "DeviceLost" ELSE "ResetFailed",
                               !.verdict = IF c.clean \/ @ = "none" THEN @ ELSE "Aborted"]
          /\ seen' = [seen EXCEPT !.condemned = IF hard THEN @ \cup {Candidate} ELSE @]
    /\ motor' = IdleMotor
    /\ UNCHANGED <<flag, hw, blacklist, faults, log, forge, stop, spent>>

Observation(r) ==
    [run |-> forge.run, gpu |-> 0, target |-> Target, anchor |-> Candidate, kind |-> r.kind, current |-> TRUE,
     outcome |-> MapOutcome(r.outcome, r.kind), lost |-> r.outcome = "DeviceLost",
     clean |-> r.clean, confirmed |-> r.confirmed, p99 |-> r.p99, p5 |-> r.p5, thermal |-> r.thermal,
     pattern |-> IF r.kind = "Qualification" THEN "Texture" ELSE "none",
     pass |-> r.kind = "Qualification" /\ r.outcome = "Validated"]

RejectedInQualification ==
    \E r \in Reports(call.reports) : r.kind = "Qualification" /\ r.outcome \in BadOutcomes

(* A failing append ends the call, without a word about the flag.          *)
PersistReport ==
    /\ call.pc = "persist"
    /\ \/ /\ log' = AppendObservation(log, Observation(Head(call.queue)))
          /\ call' = IF Len(call.queue) > 1 THEN [call EXCEPT !.queue = Tail(@)]
                     ELSE [call EXCEPT !.queue = <<>>, !.pc = "judge", !.executed = TRUE]
          /\ seen' = IF RejectedInQualification /\ Head(call.queue).kind = "Discovery"
                     THEN [seen EXCEPT !.optimistic = @ \cup {<<forge.run, Candidate>>}] ELSE seen
          /\ NoFault
       \/ /\ Fault
          /\ call' = AbortWith(call, "ObservationPersistFailed")
          /\ UNCHANGED <<log, seen>>
    /\ UNCHANGED <<flag, hw, blacklist, motor, forge, stop, spent>>

-----------------------------------------------------------------------------
(* The next step.  Each action is one way out of a recorded candidate.     *)

Transition(c) == call' = c /\ UNCHANGED <<mvars, log, forge, stop, seen, spent>>

Settled == call.pc = "judge" /\ ~ call.broken

NextDecision == Decision(call.found.outcome, call.had, NearCap)

FailsCleanly == CleanFailure(NextDecision, call.clean)

(* What a clean candidate teaches before the decision is acted upon.       *)
Learned ==
    [call EXCEPT
        !.power = IF call.found.confirmed /\ call.found.p5 # None THEN <<call.found.p99, call.found.p5>> ELSE @,
        !.cap   = IF call.found.confirmed /\ call.found.cap # "Ambiguous" THEN call.found.cap ELSE @,
        !.had   = @ \/ NextDecision = "MarkSustainable",
        !.jumped = IF FailsCleanly THEN @ ELSE 0]

(* The bin that was safe before a jump, if there is one in between.        *)
SafeIndex ==
    LET safe == IF call.bracket # <<>> THEN call.bracket[1] ELSE call.jumped
    IN IF safe # 0 /\ call.i > safe + 1 THEN safe ELSE 0

Bisect(c, safe, failed) ==
    [c EXCEPT !.pc = "next", !.bracket = <<safe, failed>>, !.jumped = 0, !.i = Midpoint(safe, failed)]

(* Variant: a failed cleanup ends the call like a boundary.                *)
JudgeAborted_NotAborted ==
    /\ call.pc = "judge" /\ call.broken
    /\ Transition([StopAt(call, TRUE, "TransactionFailed") EXCEPT !.retain = @ \/ call.retainNow])

JudgeAborted ==
    /\ call.pc = "judge" /\ call.broken
    /\ Transition([AbortWith(call, "TransactionFailed") EXCEPT !.retain = @ \/ call.retainNow])

(* A failure after a jump: go back up, half way.                           *)
RecoverUpwards ==
    /\ Settled
    /\ SafeIndex # 0
    /\ FailsCleanly \/ call.verdict \in {"Rejected", "Inconclusive"}
    /\ Transition(Bisect(Learned, SafeIndex, call.i))

BoundaryReached ==
    /\ Settled /\ FailsCleanly /\ SafeIndex = 0
    /\ Transition(StopAt(Learned, TRUE,
           IF NextDecision = "BoundaryFound" THEN "BoundaryFound"
           ELSE IF NextDecision = "NextClockUnsustainable" THEN "OffCapClockDropBeforeSustain"
           ELSE IF call.found.outcome = "Inconclusive" THEN "InconclusiveBeforeSustain"
           ELSE "FailureBeforeSustain"))

QualificationStops ==
    /\ Settled /\ ~ FailsCleanly
    /\ \/ /\ call.verdict = "Rejected" /\ SafeIndex = 0
          /\ Transition(StopAt(Learned, TRUE,
                 IF call.qualified # 0 THEN "QualifiedBoundary" ELSE "QualificationRejected"))
       \/ /\ call.verdict = "Inconclusive" /\ SafeIndex = 0
          /\ Transition(StopAt(Learned, TRUE,
                 IF call.qualified # 0 THEN "QualifiedBoundaryInconclusiveDeeper"
                 ELSE "QualificationInconclusiveSkippedClock"))
       \/ /\ call.verdict = "Cancelled"
          /\ Transition(StopAt(Learned, FALSE, "CancelledDuringQualification"))

(* One bin further down, or a jump while the power limit binds.            *)
Descend(c) ==
    LET i   == call.i
        nxt == IF c.local \/ ~ NearCap THEN i + 1 ELSE NextIndex(call.cands, i, Target, call.found.p5)
    IN [c EXCEPT !.pc = "next", !.i = nxt, !.jumped = IF nxt > i + 1 THEN i ELSE 0,
                 !.completed = @ \/ nxt = Len(call.cands) + 1]

(* From the first qualified bin on: bin by bin, down to the known failure. *)
GoLocal(c) ==
    [c EXCEPT !.local = TRUE, !.bracket = <<>>,
              !.failed = IF call.bracket # <<>> THEN call.bracket[2] ELSE @]

(* Variant: the first qualified bin ends the call.                         *)
Qualified_Stops ==
    /\ Settled /\ call.verdict = "Qualified"
    /\ Transition([StopAt(Learned, TRUE, "Qualified") EXCEPT !.qualified = call.i])

Qualified ==
    /\ Settled /\ call.verdict = "Qualified"
    /\ Transition(Descend([GoLocal(Learned) EXCEPT
                             !.qualified = call.i, !.completed = TRUE, !.reason = "Qualified"]))

(* At the power limit, sustained or not: no qualification yet.             *)
Unqualified == Settled /\ ~ FailsCleanly /\ call.verdict = "none" /\ NearCap

NearCapDescends ==
    /\ Unqualified
    /\ call.bracket = <<>> \/ call.local
    /\ Transition(Descend(Learned))

NarrowBracket ==
    /\ Unqualified /\ call.bracket # <<>> /\ ~ call.local
    /\ LET failed == call.bracket[2]
       IN Transition(IF Midpoint(call.i, failed) # None THEN Bisect(Learned, call.i, failed)
                     ELSE StopAt([Learned EXCEPT !.bracket = <<call.i, failed>>], TRUE,
                                 "AdaptiveRecoveryNoSustainablePoint"))

-----------------------------------------------------------------------------
(* The summary of a call.                                                  *)

Seedable == {o \in ForTarget(obs, Target) : o.anchor \notin InconclusiveOnly(ForTarget(obs, Target), forge.run)}

OwnObservations == {o \in ForTarget(obs, Target) : o.run = forge.run}

QualifiedAnchors == {v \in Bins : FullyQualified(OwnObservations, Target, v)}

InconclusiveReasons ==
    {"InconclusiveBeforeSustain", "QualificationInconclusiveSkippedClock", "QualifiedBoundaryInconclusiveDeeper"}

Summarize ==
    /\ call.pc = "summary"
    /\ LET lastGood     == LastDiscoveryGood(Seedable, Target)
           conservative == ConservativeStart(PowerBoundAnchors(obs), ValidatedAnchors(obs))
       IN Transition([call EXCEPT
              !.pc = "ended",
              !.sustainable = lastGood # None /\ QualifiedAnchors # {},
              !.nextStart = OptimizedStart({Plan[n] : n \in DOMAIN Plan}, lastGood, conservative),
              !.rejected = /\ call.start # None
                           /\ call.refresh \/ call.priorGood = None
                           /\ QualifiedAnchors = {}
                           /\ call.executed \/ call.reason = "WarmStartNoPhysicalCandidates"
                           /\ ~ call.aborted
                           /\ call.reason \notin InconclusiveReasons])

-----------------------------------------------------------------------------
(* The session: the calls at this clock, then stock.                       *)

Call(f, start) == call' = NewCall(f.run, f.resume, start) /\ forge' = f

NewSession(run, resume, before) ==
    [IdleForge EXCEPT !.pc = "searching", !.run = run, !.resume = resume, !.conservative = before.conservative]

(* The prediction asks the whole log, also in a fresh run.                 *)
StartOf(before) ==
    PredictedStart({Plan[n] : n \in DOMAIN Plan},
                   PredictedBoundary(LastDiscoveryGood(obs, Target), before.boundaries, Target),
                   before.next)

(* A new run, or an explicit Resume of a cleanly paused one, from stock;   *)
(* refused while a flag still awaits recovery.                             *)
StartSession ==
    /\ forge.pc = "idle" /\ spent.sessions < MaxSessions
    /\ flag = None
    /\ hw' = None
    /\ spent' = [spent EXCEPT !.sessions = @ + 1]
    /\ stop' = FALSE
    /\ \E before \in Befores :
          \/ /\ Call(NewSession(forge.run + 1, FALSE, before), StartOf(before))
             /\ seen' = [seen EXCEPT !.hammered = NothingSeen.hammered]
          \/ /\ forge.paused
             /\ Call(NewSession(forge.run, TRUE, before), StartOf(before))
             /\ UNCHANGED seen
    /\ UNCHANGED <<flag, blacklist, motor, faults, log>>

CallEnded == forge.pc = "searching" /\ call.pc = "ended"

(* A rejected prediction: once more from the conservative start.           *)
FallsBack ==
    /\ call.rejected /\ ~ forge.fellBack /\ forge.climbs = 0
    /\ forge.conservative = None \/ forge.conservative > call.start

FallBack ==
    /\ CallEnded /\ FallsBack
    /\ Call([forge EXCEPT !.fellBack = TRUE], forge.conservative)
    /\ UNCHANGED <<mvars, log, stop, seen, spent>>

MaxClimbs == 4

BinsAbove(v) == {b \in Bins : b > v}

Climbs ==
    /\ call.rejected /\ ~ call.aborted /\ ~ stop /\ ~ FallsBack
    /\ call.reason = "QualificationRejected"
    /\ forge.climbs < MaxClimbs
    /\ BinsAbove(call.start) # {}

(* A rejection right at the start: one bin higher, a few times.            *)
ClimbStart ==
    /\ CallEnded /\ Climbs
    /\ Call([forge EXCEPT !.climbs = @ + 1], Min(BinsAbove(call.start)))
    /\ UNCHANGED <<mvars, log, stop, seen, spent>>

(* The last restore of a session.  The flag goes unless the calls asked to *)
(* keep it; a Stop with everything confirmed leaves a paused run.          *)
FinalReset ==
    /\ CallEnded /\ ~ FallsBack /\ ~ Climbs
    /\ \/ hw' = None /\ flag' = (IF call.retain THEN flag ELSE None) /\ NoFault
       \/ hw' = None /\ ~ call.retain /\ UNCHANGED flag /\ Fault
       \/ hw' \in {hw, None} /\ UNCHANGED flag /\ Fault
    /\ forge' = [forge EXCEPT !.pc = "idle", !.aborted = call.aborted,
                              !.paused = stop /\ ~ call.aborted /\ ~ call.retain /\ faults' = faults]
    /\ call' = IdleCall
    /\ UNCHANGED <<blacklist, motor, log, stop, seen, spent>>

-----------------------------------------------------------------------------
(* The environment.                                                        *)

StopPressed ==
    /\ forge.pc = "searching" /\ ~ stop /\ spent.stops < MaxStops
    /\ stop' = TRUE
    /\ spent' = [spent EXCEPT !.stops = @ + 1]
    /\ UNCHANGED <<mvars, log, call, forge, seen>>

LeaveSession == [forge EXCEPT !.pc = "idle", !.aborted = TRUE, !.paused = FALSE]

WorkerPanics ==
    /\ PanicReset
    /\ call' = IdleCall
    /\ forge' = LeaveSession
    /\ UNCHANGED <<log, stop, seen, spent>>

(* A crash while a line is written can leave half of it.                   *)
MachineCrash ==
    /\ spent.reboots < MaxReboots
    /\ spent' = [spent EXCEPT !.reboots = @ + 1]
    /\ RebootAndRecover
    /\ log' \in {log} \cup (IF TornWrites /\ call.pc = "persist" THEN {TearLine(log)} ELSE {})
    /\ call' = IdleCall
    /\ forge' = LeaveSession
    /\ seen' = [seen EXCEPT !.lost = FALSE]
    /\ UNCHANGED stop

MotorRuns == MotorStep /\ UNCHANGED <<log, call, forge, stop, seen, spent>>

Judge ==
    \/ JudgeAborted \/ RecoverUpwards \/ BoundaryReached \/ QualificationStops
    \/ Qualified \/ NearCapDescends \/ NarrowBracket

(* The worker thread of the search.                                        *)
Search ==
    \/ NextCandidate \/ MotorRuns \/ DiscoveryDwell \/ TransactionStartFailed \/ RecheckPower
    \/ Analyse \/ QualificationCancelled \/ QualificationDwell \/ CandidateCleanup \/ PersistReport
    \/ Judge \/ Summarize \/ FallBack \/ ClimbStart \/ FinalReset

Environment == StartSession \/ StopPressed \/ WorkerPanics \/ MachineCrash

Next == Search \/ Environment

(* The operating system runs the worker, and every load is bounded.        *)
Spec == Init /\ [][Next]_vars /\ WF_vars(Search)

-----------------------------------------------------------------------------
(* Properties.                                                             *)

(* Indexes and verdicts stay in range, and the motor works only on the     *)
(* candidate of the call (run_confirmed_f2_clock_discovery's locals).      *)
SearchTypeOK ==
    /\ MotorTypeOK
    /\ call.pc \in {"off", "next", "dwell", "recheck", "analyse", "qualify", "cleanup", "persist",
                    "judge", "summary", "ended"}
    /\ call.i \in 1 .. Len(call.cands) + 1
    /\ call.bracket # <<>> => call.bracket[1] < call.bracket[2]
    /\ motor.pc # "idle" => forge.pc = "searching" /\ motor.mv = Candidate
    /\ \A o \in obs : o.outcome \in ObsOutcomes /\ o.anchor \in Bins

(* Through every transaction, failure, panic and crash of a search, the    *)
(* GPU leaves stock only under the armed flag and the flag goes only at    *)
(* stock (begin_f2_candidate_transaction, finish_f2_transaction_reports).  *)
WritesAreGuarded == Guard!GuardSpec

(* No candidate is written at or below a voltage that already failed in    *)
(* the evidence the call may use: jumps, recovery, climbs and resumes all  *)
(* stay above (resume_f2_candidates, f2_recovery_midpoint).                *)
NeverBelowFailure ==
    [][hw' # hw /\ hw' # None =>
        \A o \in ResumeEligible(forge.run, forge.resume) : IsBad(o) => hw' > o.anchor]_vars

(* A crash or a failing append between two lines of one candidate never    *)
(* leaves the discovery line of a rejected candidate without its rejection *)
(* (f2_candidate_persist_order).                                           *)
RejectionOutlivesOptimism ==
    \A r \in seen.optimistic : \E o \in obs : o.run = r[1] /\ o.anchor = r[2] /\ IsBad(o)

(* A candidate that failed hard stays refused or stays under the flag,     *)
(* whatever single access to disk or driver fails meanwhile.               *)
FailureIsRemembered ==
    \A v \in seen.condemned : Blacklisted(v) \/ flag = v

(* No pair is qualified over and over without a pass: three dwells per run *)
(* and reboot (f2_pair_qualification_exhausted, INCONCLUSIVE_RETRY_BUDGET).*)
NoRehammering ==
    \A v \in Bins : seen.hammered[v] <= (RetryBudget + 1) * (1 + spent.reboots)

(* A clock reported sustainable has a pair this run qualified and nothing  *)
(* this run saw fail at or above it.                                       *)
SustainableStandsAboveFailures ==
    call.pc = "ended" /\ call.sustainable =>
        \E v \in QualifiedAnchors : AboveFailures(OwnObservations, Target, v)

(* A finished call has tried the bin right below its deepest qualified one *)
(* and has not sustained it: the jumps at the power limit leave no hole at *)
(* the boundary (the local descent and f2_recovery_midpoint).              *)
BoundaryIsTight ==
    (call.pc = "ended" /\ call.completed /\ ~ call.aborted /\ QualifiedAnchors # {}) =>
        LET deepest == Min(QualifiedAnchors)
            below   == {n \in DOMAIN Plan : Plan[n] < deepest}
        IN below # {} => \E o \in OwnObservations : o.anchor = Plan[Min(below)] /\ ~ IsCurrentQualificationPass(o)

(* A session that reports no abort leaves stock and no flag behind.        *)
CleanEndIsStock ==
    forge.pc = "idle" /\ ~ forge.aborted => hw = None /\ flag = None

(* Jumps, bisection, retries and climbs end: a search is over in the end.  *)
SearchEnds == (forge.pc = "searching") ~> (forge.pc = "idle")

(* "A crash/device-loss or unconfirmed reset must survive the outer        *)
(* belt-and-suspenders reset so startup recovery can still account for the *)
(* interrupted hardware run" (gpu_undervolt.rs, retain_boot_flag).         *)
DeviceLossSurvivesFinalReset ==
    seen.lost /\ forge.pc = "idle" => flag # None

(* An anchor left inconclusive "must not seed the next clock's warm start  *)
(* as if it were a good frontier point" (f2_inconclusive_only_anchors).    *)
InconclusiveDoesNotSeed ==
    call.pc = "ended" => call.nextStart \notin InconclusiveOnly(OwnObservations, forge.run)
==============================================================================
