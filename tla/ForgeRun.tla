-------------------------------- MODULE ForgeRun --------------------------------
(***************************************************************************)
(* One Forge session after another (crates/service/src/gpu_power_sweep.rs):*)
(* descend every clock, synthesize three profiles, take each through the   *)
(* exact-Apply gate, repair what fails, publish, restore stock; and what a *)
(* stop, a TDR, a panic or a restart does to the result and its file.      *)
(*                                                                         *)
(* A descent, a calibration and a gate are one step that arms and writes   *)
(* and one that ends them; ClockDescent and StepJobs open them up.         *)
(***************************************************************************)
EXTENDS ProfileSynthesis

CONSTANTS
    ClockTargets, \* the clocks to descend, from high to low
    Boundaries,   \* clock -> what its descent can find: a set of [mv, trust, failed],
                  \* failed being the bin below that was blacklisted, or None
    Draw,         \* pair -> watts under the discovery load
    GateReadings, \* what a gate can measure: [rise, p95]; rise over Draw, p95 over the clock
    Suspects,     \* the pairs an older gate may have quarantined
    LearningModes, \* the ways a session may be started
    MaxSessions, MaxStops, MaxFailures, MaxFaults, MaxRestarts, MaxTroubles  \* bounds

ASSUME ClocksDescend == \A m, n \in DOMAIN ClockTargets : m < n => ClockTargets[m] > ClockTargets[n]

VARIABLES
    prog,  \* the shared progress
    saved, \* forge_state.json
    w,     \* the worker
    ctl,   \* the stop and manual_stop flags
    disk,  \* boot flag, blacklist, ledger, incident, evidence
    tuned, \* the GPU is off stock
    seen,  \* observer: no action reads it
    spent  \* consumption of the bounds

fvars == <<prog, saved, w, ctl, disk, tuned, seen, spent>>

NoFile == <<>>
NoPoint == <<>>
NoPair == <<>>

IdleProgress ==
    [phase |-> "idle", running |-> FALSE, qualified |-> FALSE, complete |-> FALSE,
     profiles |-> <<>>, run |-> 0, learning |-> "Persistent"]

IdleWorker ==
    [pc |-> "idle", run |-> 0, learning |-> "Persistent", i |-> 1, cmax |-> None, complete |-> FALSE,
     aborted |-> FALSE, retain |-> FALSE, points |-> <<>>, missing |-> <<>>, excluded |-> {},
     preferred |-> <<>>, choice |-> <<>>, queue |-> <<>>, changed |-> FALSE, pass |-> 1,
     job |-> "none", candidate |-> NoPoint, final |-> FALSE]

NoEvidence == [frontier |-> [t \in Elements(ClockTargets) |-> NoPoint], power |-> {}, peaks |-> {}, gates |-> {}]

Init ==
    /\ prog = IdleProgress /\ saved = NoFile /\ w = IdleWorker
    /\ ctl = [stop |-> FALSE, manual |-> FALSE]
    /\ \E suspects \in SUBSET Suspects :
          disk = [armed |-> NoPair, black |-> {}, rigid |-> {},
                  quarantine |-> {[pair |-> key, run |-> 0] : key \in suspects},
                  incident |-> FALSE, log |-> NoEvidence]
    /\ tuned = FALSE
    /\ seen = [passes |-> {}, failed |-> {}, broken |-> FALSE]
    /\ spent = [sessions |-> 0, stops |-> 0, failures |-> 0, faults |-> 0, restarts |-> 0]

(* Each kind of trouble has its bound, and so has their sum.               *)
MayTrouble == spent.stops + spent.failures + spent.faults + spent.restarts < MaxTroubles
MayFault == MayTrouble /\ spent.faults < MaxFaults

Fault == MayFault /\ spent' = [spent EXCEPT !.faults = @ + 1]
Failure == MayTrouble /\ spent.failures < MaxFailures /\ spent' = [spent EXCEPT !.failures = @ + 1]
NoLimit == UNCHANGED spent

-----------------------------------------------------------------------------
(* What the ledger and the field guard refuse.                             *)

(* A clean run reads only its own condemnations.                           *)
InScope(events) ==
    {e.pair : e \in {x \in events : w.learning = "Clean" => x.run = w.run}}

Refused(key) ==
    \/ AtOrBelowFloor(disk.black, key[1], key[2])
    \/ Refuses(InScope(disk.rigid), InScope(disk.quarantine), key[1], key[2])

RefusedBins(target) == {<<target, mv>> : mv \in {b \in Bins : Refused(<<target, b>>)}}

(* Variant: one pass is enough, whatever the ledger says.                  *)
RequiredPasses_One(key) == 1

(* A quarantined pair has to pass the whole gate twice.                    *)
RequiredPasses(key) == IF key \in InScope(disk.quarantine) THEN 2 ELSE 1

-----------------------------------------------------------------------------
(* Evidence.                                                               *)

WithReading(log, key, watts) == [log EXCEPT !.power = @ \cup {<<key, watts>>}]

(* The readings of one run's gates at a pair, once one of them is whole.   *)
GateEvidence(log, run, key) ==
    LET mine == {g \in log.gates : g.run = run /\ g.pair = key}
    IN IF \E g \in mine : g.whole THEN mine ELSE {}

GateP99(log, run, key) == MaxOrNone({g.p99 : g \in GateEvidence(log, run, key)})

HighestGateP99(log, key) == MaxOrNone({GateP99(log, g.run, key) : g \in log.gates})

Measured == disk.log.power \cup disk.log.peaks

-----------------------------------------------------------------------------
(* Starting.                                                               *)

(* A clean run archives the evidence and the result, and strips the        *)
(* blacklist; never the ledger.                                            *)
ArchivePreCleanRun == [disk EXCEPT !.log = NoEvidence, !.black = {}]

(* Both kinds of start: what the worker does before it touches the GPU.    *)
Begins(run, learning, kept) ==
    /\ w' = [IdleWorker EXCEPT !.pc = "preflight", !.run = run, !.learning = learning]
    /\ prog' = [IdleProgress EXCEPT !.phase = "power", !.running = TRUE, !.run = run,
                                    !.learning = learning, !.profiles = kept]
    /\ ctl' = [stop |-> FALSE, manual |-> FALSE]
    /\ seen' = [seen EXCEPT !.passes = {}, !.failed = {}]
    /\ spent.sessions < MaxSessions
    /\ spent' = [spent EXCEPT !.sessions = @ + 1]
    /\ UNCHANGED tuned

StartSession ==
    /\ w.pc = "idle" /\ ~ disk.incident
    /\ \E learning \in LearningModes :
          IF learning = "Clean"
          THEN Begins(spent.sessions + 1, learning, <<>>) /\ disk' = ArchivePreCleanRun /\ saved' = NoFile
          ELSE Begins(spent.sessions + 1, learning, prog.profiles) /\ UNCHANGED <<disk, saved>>

(* Only a pause may be resumed; it was made by this build on this card.    *)
Resumable == prog.phase = "paused" /\ ~ prog.running /\ prog.run # 0

(* The same run goes on after a cooperative stop.                          *)
ResumeSession ==
    /\ w.pc = "idle" /\ ~ disk.incident /\ Resumable
    /\ Begins(prog.run, prog.learning, prog.profiles)
    /\ UNCHANGED <<disk, saved>>

Leaves(phase) ==
    /\ prog' = [prog EXCEPT !.phase = phase, !.running = FALSE]
    /\ w' = IdleWorker

(* An armed flag, an unconfirmed stock curve, an unusable environment.     *)
Preflight ==
    /\ w.pc = "preflight"
    /\ \/ disk.armed # NoPair /\ Leaves("interrupted") /\ UNCHANGED tuned /\ NoLimit
       \/ disk.armed = NoPair /\ Fault /\ Leaves("incomplete") /\ UNCHANGED tuned
       \/ disk.armed = NoPair /\ tuned' = FALSE /\ w' = [w EXCEPT !.pc = "preheat"] /\ NoLimit /\ UNCHANGED prog
    /\ UNCHANGED <<saved, ctl, disk, seen>>

ManualStop == ctl.manual /\ ctl.stop

(* The stock preheat ends by converging, by a stop, or by giving up.       *)
Preheat ==
    /\ w.pc = "preheat"
    /\ \/ /\ ~ ctl.stop /\ NoLimit
          /\ w' = [w EXCEPT !.pc = "discover"]
          /\ saved' = prog
          /\ UNCHANGED prog
       \/ /\ ctl.stop \/ MayFault
          /\ IF ctl.stop THEN NoLimit ELSE Fault
          /\ IF ManualStop THEN Leaves("paused") /\ saved' = prog'
             ELSE Leaves("incomplete") /\ UNCHANGED saved
    /\ UNCHANGED <<ctl, disk, tuned, seen>>

-----------------------------------------------------------------------------
(* A supervised job: under way with the flag armed, or over.               *)

Live(key) ==
    /\ disk' = [disk EXCEPT !.armed = key]
    /\ tuned' = TRUE

(* A clean end: stock, then the flag.                                      *)
Restores(extra) ==
    /\ tuned' = FALSE
    /\ disk' = [extra EXCEPT !.armed = NoPair]

(* The device is lost: the flag stays, and the reset may have failed.      *)
Loses(key) ==
    /\ Failure
    /\ tuned' \in {TRUE, FALSE}
    /\ disk' = [disk EXCEPT !.black = @ \cup {key}]

ToReset == [w EXCEPT !.pc = "reset", !.job = "none"]
Aborted(retain) == [ToReset EXCEPT !.aborted = TRUE, !.retain = @ \/ retain]

-----------------------------------------------------------------------------
(* Discovery.                                                              *)

WithinFloor(target, cmax) == 100 * target >= DeepCalmFloor * cmax

Discover ==
    /\ w.pc = "discover"
    /\ IF w.cmax # None /\ ~ WithinFloor(ClockTargets[w.i], w.cmax)
       THEN w' = [w EXCEPT !.pc = "points", !.complete = TRUE] /\ UNCHANGED <<disk, tuned>>
       ELSE IF ctl.stop THEN w' = [w EXCEPT !.pc = "points"] /\ UNCHANGED <<disk, tuned>>
       ELSE /\ w' = [w EXCEPT !.job = "descent", !.pc = "descent"]
            /\ \E b \in Boundaries[ClockTargets[w.i]] : Live(<<ClockTargets[w.i], b.mv>>)
    /\ UNCHANGED <<prog, saved, ctl, seen, spent>>

NextClock(found) ==
    LET max  == IF w.cmax = None /\ found THEN ClockTargets[w.i] ELSE w.cmax
        last == w.i = Len(ClockTargets)
    IN [w EXCEPT !.cmax = max, !.job = "none", !.i = @ + 1,
                 !.pc = IF last THEN "points" ELSE "discover",
                 !.complete = last /\ max # None]

(* A boundary found, with the power of its pair and what failed below it.  *)
Found(target, b) ==
    [disk EXCEPT
        !.log.frontier[target] = [mv |-> b.mv, trust |-> b.trust],
        !.log.power = @ \cup {<<<<target, b.mv>>, Draw[<<target, b.mv>>]>>},
        !.black = IF b.failed = None THEN @ ELSE @ \cup {<<target, b.failed>>}]

(* The clock is sustained down to a boundary, or not at all; a descent     *)
(* that is not completed (a stop, mostly) breaks the session off, and so   *)
(* does one that aborts, with the flag retained or not.                    *)
DescentEnds ==
    /\ w.pc = "descent"
    /\ LET target    == ClockTargets[w.i]
           reachable == {b \in Boundaries[target] : ~ Refused(<<target, b.mv>>)}
           measured  == {Found(target, b) : b \in reachable}
       IN \/ \E d \in measured : Restores(d) /\ w' = NextClock(TRUE) /\ NoLimit
          \/ /\ IF reachable = {} THEN NoLimit ELSE Failure
             /\ Restores(disk)
             /\ w' = NextClock(FALSE)
          \/ /\ IF ctl.stop THEN NoLimit ELSE Failure
             /\ \E d \in measured \cup {disk} : Restores(d)
             /\ w' = [w EXCEPT !.pc = "points", !.job = "none"]
          \/ Failure /\ Restores(disk) /\ w' = [Aborted(FALSE) EXCEPT !.pc = "points"]
          \/ Loses(disk.armed) /\ w' = [Aborted(TRUE) EXCEPT !.pc = "points"]
    /\ UNCHANGED <<prog, saved, ctl, seen>>

-----------------------------------------------------------------------------
(* Points of the frontier, and the power of their Apply pairs.             *)

Point(target, entry) ==
    LET mv == ApplyAnchor(target, entry.mv)
    IN [target |-> target, boundary |-> entry.mv, apply |-> mv, base |-> mv, p5 |-> target, p95 |-> target,
        p99 |-> MeasuredPower(disk.log.power, <<target, mv>>), peak |-> MeasuredPower(disk.log.power, <<target, mv>>),
        trust |-> entry.trust, sure |-> entry.trust >= TrustThreshold, bound |-> FALSE, approved |-> FALSE]

FrontierPoints ==
    LET published == SelectSeq(ClockTargets, LAMBDA t :
                        disk.log.frontier[t] # NoPoint /\ t <= w.cmax /\ WithinFloor(t, w.cmax))
        n         == Len(published)
    IN [k \in 1 .. n |-> LET t == published[n + 1 - k] IN Point(t, disk.log.frontier[t])]

(* The pairs whose own power has not been measured.                        *)
MissingPower(points) == SelectSeq(points, LAMBDA p : p.p99 = None)

BuildPoints ==
    /\ w.pc = "points"
    /\ IF w.complete /\ ~ w.aborted
       THEN w' = [w EXCEPT !.pc = "backfill", !.points = FrontierPoints,
                           !.missing = MissingPower(FrontierPoints)]
       ELSE w' = ToReset
    /\ UNCHANGED <<prog, saved, ctl, disk, tuned, seen, spent>>

(* Every Apply pair needs its own power; without it the session has no     *)
(* profiles, not even the former ones.                                     *)
Unpowered == prog' = [prog EXCEPT !.profiles = <<>>, !.qualified = FALSE]

(* The pairs that a deeper one among the points speaks against.            *)
RegimeExclusions(points) == {Key(p) : p \in {q \in Elements(points) : RegimeRefused(q, points)}}

Backfill ==
    /\ w.pc = "backfill"
    /\ IF w.missing = <<>>
       THEN /\ w' = [w EXCEPT !.pc = "synthesize", !.points = FrontierPoints,
                              !.excluded = RegimeExclusions(FrontierPoints)]
            /\ seen' = [seen EXCEPT !.broken = FALSE]
            /\ UNCHANGED <<prog, disk, tuned>>
       ELSE /\ IF ctl.stop THEN w' = ToReset /\ Unpowered /\ UNCHANGED <<disk, tuned>>
               ELSE IF Refused(Key(w.missing[1]))
               THEN w' = Aborted(FALSE) /\ Unpowered /\ UNCHANGED <<disk, tuned>>
               ELSE /\ w' = [w EXCEPT !.pc = "calibrate", !.job = "backfill"]
                    /\ Live(Key(w.missing[1]))
                    /\ UNCHANGED prog
            /\ UNCHANGED seen
    /\ UNCHANGED <<saved, ctl, spent>>

BackfillEnds ==
    /\ w.pc = "calibrate" /\ w.job = "backfill"
    /\ LET key == Key(w.missing[1])
       IN \/ /\ Restores([disk EXCEPT !.log = WithReading(@, key, Draw[key])])
             /\ w' = [w EXCEPT !.pc = "backfill", !.job = "none", !.missing = Tail(@)]
             /\ NoLimit /\ UNCHANGED prog
          \/ Failure /\ Restores(disk) /\ w' = ToReset /\ Unpowered
          \/ Loses(key) /\ w' = Aborted(TRUE) /\ Unpowered
    /\ UNCHANGED <<saved, ctl, seen>>

-----------------------------------------------------------------------------
(* Synthesis and the gate.                                                 *)

Eligible == SelectSeq(w.points, LAMBDA p : Key(p) \notin w.excluded)

Selected(profiles) ==
    LET order == <<profiles.godforge, profiles.brokkrs, profiles.deepCalm>>
    IN SelectSeq(<<1, 2, 3>>, LAMBDA n : \A m \in 1 .. n - 1 : Key(order[m]) # Key(order[n]))

Meets(profiles) ==
    profiles # <<>> /\ \A p \in ProfileSet(profiles) : p.sure /\ p.approved

(* The session decides on whatever profiles the progress holds.            *)
Decides(profiles) ==
    prog' = [prog EXCEPT !.profiles = profiles, !.qualified = Meets(profiles)]

Queue(choice) ==
    LET order == <<choice.godforge, choice.brokkrs, choice.deepCalm>>
    IN [n \in DOMAIN Selected(choice) |-> order[Selected(choice)[n]]]

(* Variant: a round does not forget that the one before changed something. *)
NewRound_Changed(choice) == [w EXCEPT !.pc = "select", !.choice = choice, !.queue = Queue(choice)]

NewRound(choice) ==
    [w EXCEPT !.pc = "select", !.choice = choice, !.queue = Queue(choice), !.changed = FALSE]

SynthesizeProfiles ==
    /\ w.pc = "synthesize"
    /\ LET choice == WithOverride(Synthesize(Eligible), Eligible, w.preferred)
       IN IF choice = <<>>
          THEN Decides(prog.profiles) /\ w' = ToReset
          ELSE w' = NewRound(choice) /\ UNCHANGED prog
    /\ UNCHANGED <<saved, ctl, disk, tuned, seen, spent>>

Approved(key) == \E p \in Elements(w.points) : Key(p) = key /\ p.approved

Excludes(keys) == [w EXCEPT !.pc = "synthesize", !.job = "none", !.excluded = @ \cup keys]

(* The failed head of the queue is taken to repair.                        *)
Fails(keys) == [w EXCEPT !.pc = "repair", !.job = "none", !.excluded = @ \cup keys]

(* A gate begins; a stop or a refusal comes before any write.              *)
BeginGate(key, pass) ==
    IF ctl.stop
    THEN w' = ToReset /\ Decides(prog.profiles) /\ UNCHANGED <<disk, tuned>>
    ELSE IF Refused(key) THEN w' = Fails({key}) /\ UNCHANGED <<prog, disk, tuned>>
    ELSE w' = [w EXCEPT !.pc = "gate", !.job = "gate", !.pass = pass] /\ Live(key) /\ UNCHANGED prog

SelectCandidate ==
    /\ w.pc = "select"
    /\ IF w.queue = <<>>
       THEN w' = [w EXCEPT !.pc = IF w.changed THEN "synthesize" ELSE "publish"] /\ UNCHANGED <<prog, disk, tuned>>
       ELSE LET p == w.queue[1]
            IN IF Approved(Key(p)) THEN w' = [w EXCEPT !.queue = Tail(@)] /\ UNCHANGED <<prog, disk, tuned>>
               ELSE IF Dominated(p, w.points) THEN w' = Excludes({Key(p)}) /\ UNCHANGED <<prog, disk, tuned>>
               ELSE BeginGate(Key(p), 1)
    /\ UNCHANGED <<saved, ctl, seen, spent>>

GateKey == Key(w.queue[1])

GateLog(reading, whole) ==
    LET watts == Draw[GateKey] + reading.rise
    IN [disk EXCEPT !.log.gates = @ \cup {[run |-> w.run, pair |-> GateKey, p99 |-> watts, whole |-> whole]},
                    !.log.peaks = @ \cup {<<GateKey, watts>>}]

(* Variant: the gate's power raises the cap check only, not the selection. *)
Raised_PeakOnly(p, reading, p99) ==
    [p EXCEPT !.p95 = Max({@, p.target + reading.p95}), !.peak = Max({@, p99}), !.approved = TRUE]

(* The gate's power raises the cap check and the selection.                *)
Raised(p, reading, p99) ==
    [p EXCEPT !.p95 = Max({@, p.target + reading.p95}), !.peak = Max({@, p99}), !.p99 = Max({@, p99}),
              !.approved = TRUE]

(* Every pass passed: the point is approved, unless its regime is not.     *)
Approves(reading, p99) ==
    LET points  == [n \in DOMAIN w.points |->
                       IF Key(w.points[n]) = GateKey THEN Raised(w.points[n], reading, p99) ELSE w.points[n]]
        at      == CHOOSE n \in DOMAIN points : Key(points[n]) = GateKey
        refused == RegimeRefused(points[at], points)
    IN IF refused
       THEN [Excludes({GateKey} \cup Dependents(GateKey, points)) EXCEPT !.points = points]
       ELSE [w EXCEPT !.pc = "select", !.job = "none", !.points = points, !.changed = TRUE, !.queue = Tail(@)]

GatePasses ==
    /\ w.pc = "gate" /\ ~ ctl.stop
    /\ \E reading \in GateReadings :
          /\ Restores(GateLog(reading, TRUE))
          /\ w' = IF w.pass < RequiredPasses(GateKey) THEN [w EXCEPT !.pc = "again", !.job = "none"]
                  ELSE Approves(reading, GateP99(disk'.log, w.run, GateKey))
    /\ seen' = [seen EXCEPT !.passes = @ \cup {<<GateKey, w.pass>>}]
    /\ UNCHANGED <<prog, saved, ctl, spent>>

GateAgain ==
    /\ w.pc = "again"
    /\ BeginGate(GateKey, w.pass + 1)
    /\ UNCHANGED <<saved, ctl, seen, spent>>

GateCancelled ==
    /\ w.pc = "gate" /\ ctl.stop
    /\ Restores(disk) /\ w' = ToReset /\ Decides(prog.profiles)
    /\ UNCHANGED <<saved, ctl, seen, spent>>

Quarantined(d) == [d EXCEPT !.quarantine = @ \cup {[pair |-> GateKey, run |-> w.run]}]
Blacklisted(d) == [d EXCEPT !.black = @ \cup {GateKey}]

(* A texture reading over the publication ceiling; no condemnation.        *)
GateOverPower ==
    /\ w.pc = "gate"
    /\ \E reading \in GateReadings :
          /\ ~ UnderCeiling(Draw[GateKey] + reading.rise)
          /\ Restores(GateLog(reading, FALSE))
    /\ w' = Fails({GateKey})
    /\ UNCHANGED <<prog, saved, ctl, seen, spent>>

(* A silent error: blacklisted and quarantined, with its dependents out.   *)
GateSilent ==
    /\ w.pc = "gate" /\ Failure
    /\ Restores(Quarantined(Blacklisted(disk)))
    /\ w' = Fails({GateKey} \cup Dependents(GateKey, w.points))
    /\ seen' = [seen EXCEPT !.failed = @ \cup {GateKey}]
    /\ UNCHANGED <<prog, saved, ctl>>

(* A clock drop; or instability, which blacklists.                         *)
GateUnstable ==
    /\ w.pc = "gate" /\ Failure
    /\ Restores(disk) \/ Restores(Blacklisted(disk))
    /\ w' = Fails({GateKey})
    /\ seen' = [seen EXCEPT !.failed = @ \cup {GateKey}]
    /\ UNCHANGED <<prog, saved, ctl>>

GateInconclusive ==
    /\ w.pc = "gate" /\ Failure
    /\ Restores(disk) /\ w' = ToReset /\ Decides(prog.profiles)
    /\ UNCHANGED <<saved, ctl, seen>>

GateLost ==
    /\ w.pc = "gate"
    /\ Loses(GateKey) /\ w' = Aborted(TRUE) /\ Decides(prog.profiles)
    /\ seen' = [seen EXCEPT !.failed = @ \cup {GateKey}]
    /\ UNCHANGED <<saved, ctl>>

-----------------------------------------------------------------------------
(* Repair.                                                                 *)

Role == RoleOf(w.choice, GateKey)

(* The candidate takes the place of the failed pair.                       *)
Admits(p, watts, prefer) ==
    [w EXCEPT !.pc = "synthesize", !.job = "none", !.candidate = NoPoint,
              !.points = Upsert(@, [p EXCEPT !.p99 = watts, !.peak = Max({@, watts}), !.approved = FALSE]),
              !.preferred = IF prefer THEN Key(p) ELSE @]

Drop == [w EXCEPT !.pc = "synthesize", !.job = "none", !.candidate = NoPoint]

(* The admission of a measured candidate.                                  *)
Weighs(p, watts, prefer) == IF UnderCeiling(watts) THEN Admits(p, watts, prefer) ELSE Drop

(* A calibration that is stopped or refused never starts; a refused repair *)
(* ends the session, a refused fast drop does not.                         *)
BeginRepair(job, p) ==
    IF ctl.stop THEN w' = Drop /\ UNCHANGED <<prog, disk, tuned>>
    ELSE IF Refused(Key(p))
    THEN /\ IF job = "repair" THEN w' = Aborted(FALSE) /\ Decides(prog.profiles)
            ELSE w' = Drop /\ UNCHANGED prog
         /\ UNCHANGED <<disk, tuned>>
    ELSE /\ w' = [w EXCEPT !.pc = "calibrate", !.job = job, !.candidate = p]
         /\ Live(Key(p)) /\ UNCHANGED prog

(* The same clock climbs; a Godforge that cannot falls to the next clock.  *)
Repair ==
    /\ w.pc = "repair"
    /\ LET p        == w.queue[1]
           refused  == RefusedBins(p.target)
           next     == RepairBin(GateKey, refused)
           repaired == [p EXCEPT !.apply = next]
           known    == MeasuredPower(Measured, <<p.target, next>>)
           carried  == FastDrop(w.points, w.excluded, GateKey)
       IN IF Repairable(GateKey, refused, RepairCeiling(Role, w.choice, GateKey), Measured)
          THEN IF known # None
               THEN w' = Weighs(repaired, known, Role = "godforge") /\ UNCHANGED <<prog, disk, tuned>>
               ELSE BeginRepair("repair", repaired)
          ELSE IF Role = "godforge" /\ carried # NoPoint THEN BeginRepair("fastdrop", carried)
          ELSE w' = Drop /\ UNCHANGED <<prog, disk, tuned>>
    /\ UNCHANGED <<saved, ctl, seen, spent>>

RepairEnds ==
    /\ w.pc = "calibrate" /\ w.job \in {"repair", "fastdrop"}
    /\ LET key == Key(w.candidate)
       IN \/ /\ Restores([disk EXCEPT !.log = WithReading(@, key, Draw[key])])
             /\ w' = Weighs(w.candidate, MeasuredPower(Measured', key), w.job = "fastdrop" \/ Role = "godforge")
             /\ NoLimit /\ UNCHANGED prog
          \/ Failure /\ Restores(disk) /\ w' = Drop /\ UNCHANGED prog
          \/ Loses(key) /\ w' = Aborted(TRUE) /\ Decides(prog.profiles)
    /\ UNCHANGED <<saved, ctl, seen>>

-----------------------------------------------------------------------------
(* The end of a session.                                                   *)

(* The published power is the highest of the gate and the selection.       *)
PublishedPower(p) == Max({p.p99, GateP99(disk.log, w.run, Key(p))})

Publish ==
    /\ w.pc = "publish"
    /\ Decides([role \in DOMAIN w.choice |->
                   [w.choice[role] EXCEPT !.p99 = PublishedPower(w.choice[role])]])
    /\ w' = [ToReset EXCEPT !.final = TRUE]
    /\ UNCHANGED <<saved, ctl, disk, tuned, seen, spent>>

(* f2_terminal_phase                                                       *)
TerminalPhase(paused, complete, qualified, published) ==
    IF paused THEN "paused"
    ELSE IF w.retain THEN "interrupted"
    ELSE IF complete /\ ~ w.aborted /\ published THEN (IF qualified THEN "finished" ELSE "provisional")
    ELSE "incomplete"

(* Variant: a stop makes a pause whatever went wrong before it.            *)
Paused_AnyEnd(restored) == ManualStop /\ restored

Paused(restored) == ManualStop /\ ~ w.aborted /\ restored /\ ~ w.retain

Ends(restored) ==
    LET kept     == IF restored THEN prog.profiles ELSE <<>>
        ok       == restored /\ prog.qualified
        complete == restored /\ w.complete
    IN prog' = [prog EXCEPT !.running = FALSE, !.profiles = kept, !.qualified = ok,
                            !.complete = complete /\ kept # <<>>,
                            !.phase = TerminalPhase(Paused(restored), complete, ok, kept # <<>>)]

(* Stock again, then the flag unless it is to be retained; and the result  *)
(* is saved.                                                               *)
FinalReset ==
    /\ w.pc = "reset"
    /\ \/ /\ tuned' = FALSE
          /\ disk' = [disk EXCEPT !.armed = IF w.retain THEN @ ELSE NoPair]
          /\ Ends(TRUE) /\ NoLimit
       \/ Fault /\ Ends(FALSE) /\ tuned' \in {tuned, FALSE} /\ UNCHANGED disk
    /\ saved' = prog'
    /\ w' = IdleWorker
    /\ UNCHANGED <<ctl, seen>>

-----------------------------------------------------------------------------
(* What comes from outside the worker.                                     *)

(* stop()                                                                  *)
StopSession ==
    /\ w.pc # "idle" /\ MayTrouble /\ spent.stops < MaxStops
    /\ ctl' = [stop |-> TRUE, manual |-> TRUE]
    /\ spent' = [spent EXCEPT !.stops = @ + 1]
    /\ UNCHANGED <<prog, saved, w, disk, tuned, seen>>

Condemned(d, run) ==
    IF d.armed = NoPair THEN d
    ELSE [d EXCEPT !.black = @ \cup {d.armed}, !.rigid = @ \cup {[pair |-> d.armed, run |-> run]}]

(* The watcher hands a TDR over: the worker is asked to stop.              *)
RecordActiveForgeTdr ==
    /\ w.pc # "idle" /\ ~ disk.incident
    /\ Fault
    /\ ctl' = [stop |-> TRUE, manual |-> FALSE]
    /\ disk' = [Condemned(disk, prog.run) EXCEPT !.incident = TRUE]
    /\ UNCHANGED <<prog, saved, w, tuned, seen>>

(* Variant: the broken progress is not written to the file.                *)
Interrupted_Unsaved ==
    /\ prog' = [prog EXCEPT !.running = FALSE, !.phase = "interrupted", !.qualified = FALSE]
    /\ UNCHANGED saved

Interrupted ==
    /\ prog' = [prog EXCEPT !.running = FALSE, !.phase = "interrupted", !.qualified = FALSE]
    /\ saved' = prog'

(* The worker panics: a descent resets as it unwinds, nothing else does.   *)
WorkerPanics ==
    /\ w.pc # "idle"
    /\ Fault
    /\ Interrupted
    /\ tuned' \in IF w.pc = "descent" THEN {TRUE, FALSE} ELSE {tuned}
    /\ disk' = [disk EXCEPT !.incident = TRUE]
    /\ w' = IdleWorker
    /\ seen' = [seen EXCEPT !.broken = TRUE]
    /\ UNCHANGED ctl

(* decode_forge_state and load_forge_state: the approvals, the field guard *)
(* and the whole ledger, the incident, the highest gate.                   *)
Loaded(file, d) ==
    LET approved == file.qualified /\ \A p \in ProfileSet(file.profiles) : p.approved
        refused  == \E p \in ProfileSet(file.profiles) :
                       \/ AtOrBelowFloor(d.black, p.target, p.apply)
                       \/ Refuses({e.pair : e \in d.rigid}, {e.pair : e \in d.quarantine}, p.target, p.apply)
        valid    == approved /\ ~ refused /\ ~ d.incident
        known    == \A p \in ProfileSet(file.profiles) : HighestGateP99(d.log, Key(p)) # None
    IN [file EXCEPT
          !.qualified = valid,
          !.phase = IF d.incident THEN "needs_attention" ELSE IF approved /\ refused THEN "field_rejected" ELSE @,
          !.profiles = IF valid /\ known
                       THEN [role \in DOMAIN @ |-> [@[role] EXCEPT !.p99 = Max({@, HighestGateP99(d.log, Key(file.profiles[role]))})]]
                       ELSE @]

(* The service or the machine restarts: an unfinished run becomes an       *)
(* incident before startup recovery consumes the flag.                     *)
Restart ==
    /\ MayTrouble /\ spent.restarts < MaxRestarts
    /\ spent' = [spent EXCEPT !.restarts = @ + 1]
    /\ w' = IdleWorker
    /\ ctl' = [stop |-> FALSE, manual |-> FALSE]
    /\ tuned' = FALSE
    /\ LET cut     == saved # NoFile /\ saved.running
           file    == IF cut THEN [saved EXCEPT !.running = FALSE, !.phase = "needs_attention", !.qualified = FALSE]
                      ELSE saved
           started == [Condemned(disk, 0) EXCEPT !.armed = NoPair, !.incident = @ \/ cut]
           loaded  == IF file = NoFile THEN IdleProgress ELSE Loaded(file, started)
       IN /\ disk' = started
          /\ prog' = loaded
          /\ saved' = IF file # NoFile /\ loaded.qualified THEN loaded ELSE file
          /\ seen' = [seen EXCEPT !.broken = @ \/ cut]

AcknowledgeIncident ==
    /\ disk.incident
    /\ disk' = [disk EXCEPT !.incident = FALSE]
    /\ UNCHANGED <<prog, saved, w, ctl, tuned, seen, spent>>

(* The operator reports a profile unstable in real use.                    *)
ReportUnstable ==
    /\ ~ prog.running /\ prog.profiles # <<>>
    /\ Failure
    /\ \E p \in ProfileSet(prog.profiles) :
          disk' = [disk EXCEPT !.black = @ \cup {Key(p)},
                               !.rigid = @ \cup {[pair |-> Key(p), run |-> prog.run]}]
    /\ prog' = [prog EXCEPT !.qualified = FALSE, !.phase = "field_rejected"]
    /\ saved' = prog'
    /\ UNCHANGED <<w, ctl, tuned, seen>>

-----------------------------------------------------------------------------
WorkerStep ==
    \/ Preflight \/ Preheat \/ Discover \/ DescentEnds
    \/ BuildPoints \/ Backfill \/ BackfillEnds
    \/ SynthesizeProfiles \/ SelectCandidate
    \/ GatePasses \/ GateAgain \/ GateCancelled \/ GateOverPower
    \/ GateSilent \/ GateUnstable \/ GateInconclusive \/ GateLost
    \/ Repair \/ RepairEnds \/ Publish \/ FinalReset

Environment ==
    \/ StartSession \/ ResumeSession \/ StopSession \/ RecordActiveForgeTdr
    \/ WorkerPanics \/ Restart \/ AcknowledgeIncident \/ ReportUnstable

Next == WorkerStep \/ Environment

(* The worker is an ordinary thread, and every dwell of it is bounded.     *)
(* This is WF_fvars(WorkerStep), whose ENABLED is w.pc # "idle".           *)
WorkerRuns == []<>(w.pc = "idle") \/ []<><<WorkerStep>>_fvars

Spec == Init /\ [][Next]_fvars /\ WorkerRuns

-----------------------------------------------------------------------------
(* Properties.                                                             *)

Publishes == w.pc = "publish" /\ w'.pc = "reset"

(* Whatever a session publishes passed its gate in this very session,      *)
(* twice if the ledger holds it suspect, failed nothing, and draws less    *)
(* than the ceiling however it was measured: no repair, fast drop, carried *)
(* approval or resumed run slips past (gpu_power_sweep.rs 8555-9236).      *)
PublishedIsProven ==
    [][Publishes =>
        \A p \in ProfileSet(prog'.profiles) :
            /\ <<Key(p), 1>> \in seen.passes
            /\ Key(p) \in InScope(disk.quarantine) => <<Key(p), 2>> \in seen.passes
            /\ Key(p) \notin seen.failed
            /\ \A m \in Measured : m[1] = Key(p) /\ m[2] > p.p99 => m \notin disk.log.power
            /\ UnderCeiling(p.p99)]_fvars

(* A published profile never draws more than a published one at least as   *)
(* fast, so the efficient profiles draw no more than the strongest: what   *)
(* selection scores is what publication prints (the regression told at     *)
(* gpu_power_sweep.rs 8882).  Only a Godforge that fell to a lower clock   *)
(* may be beaten, for it is kept whatever else was approved.               *)
EfficientDrawsLess ==
    [][Publishes =>
        LET set == prog'.profiles
        IN /\ set.deepCalm.p5 <= set.brokkrs.p5 => set.deepCalm.p99 <= set.brokkrs.p99
           /\ set.brokkrs.p5 <= set.godforge.p5 => set.brokkrs.p99 <= set.godforge.p99
           /\ set.deepCalm.p5 <= set.godforge.p5 => set.deepCalm.p99 <= set.godforge.p99]_fvars

(* A run that offers to be resumed left the GPU at stock, with no boot     *)
(* flag behind, and was not broken off (resume, 9333-9460).                *)
PausedIsAtStock ==
    prog.phase = "paused" => ~ tuned /\ disk.armed = NoPair /\ ~ prog.running

(* After a panic, or a restart over an unfinished run, no profile is       *)
(* offered for Apply - not by acknowledging, restarting, resuming or an    *)
(* aborted new session - until a frontier has been measured and powered.   *)
InterruptedStaysLocked == seen.broken => ~ prog.qualified

(* Every session ends: climbs, fast drops and re-proofs do not go round    *)
(* for ever, and a stop is always obeyed.                                  *)
SessionEnds == w.pc # "idle" ~> w.pc = "idle"

(* "fail closed until this run finishes a complete qualification"          *)
(* (gpu_power_sweep.rs 7555-7558): only a session that published may leave *)
(* qualified profiles.                                                     *)
QualifiedOnlyByThisRun ==
    [][w.pc = "reset" /\ w'.pc = "idle" /\ prog'.qualified => w.final]_fvars
=============================================================================
