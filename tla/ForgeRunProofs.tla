----------------------------- MODULE ForgeRunProofs -----------------------------
(***************************************************************************)
(* What holds of every Forge session, for every card, every frontier and   *)
(* every outcome of its gates.                                             *)
(***************************************************************************)
EXTENDS ForgeRun, TLAPS

(* A run that was broken off does not get past the power of its points: as *)
(* long as it has not, nothing is qualified, neither in memory nor in the  *)
(* file.                                                                   *)
BeforePower == {"idle", "preflight", "preheat", "discover", "descent", "points", "backfill",
                "calibrate", "reset"}

Fields ==
    /\ {"pc", "job"} \subseteq DOMAIN w
    /\ {"qualified", "running", "phase", "profiles"} \subseteq DOMAIN prog
    /\ saved # NoFile => {"qualified", "running", "phase", "profiles"} \subseteq DOMAIN saved
    /\ {"broken", "passes", "failed"} \subseteq DOMAIN seen

Locked ==
    seen.broken =>
        /\ ~ prog.qualified
        /\ saved # NoFile => ~ saved.qualified
        /\ w.pc \in BeforePower
        /\ w.pc = "calibrate" => w.job = "backfill"

LockInv == Fields /\ Locked

(* What is left to show of a step before the lock is released.             *)
LEMMA StaysLocked ==
    ASSUME LockInv, seen' = seen,
           "pc" \in DOMAIN w' /\ "job" \in DOMAIN w',
           DOMAIN prog' = DOMAIN prog, prog'.qualified = prog.qualified \/ prog'.qualified = FALSE,
           saved' \in {saved, prog'},
           w'.pc \in BeforePower, w'.pc = "calibrate" => w'.job = "backfill"
    PROVE  LockInv'
  BY DEF LockInv, Fields, Locked, BeforePower

(* A session that begins is not qualified.                                 *)
LEMMA BeginsLocked ==
    ASSUME LockInv, StartSession \/ ResumeSession
    PROVE  LockInv'
<1>1. PICK run, learning, kept : Begins(run, learning, kept)
  BY DEF StartSession, ResumeSession
<1>2. /\ w'.pc = "preflight" /\ prog'.qualified = FALSE /\ seen'.broken = seen.broken /\ Fields'
      /\ saved' = saved \/ saved' = NoFile
  BY <1>1 DEF StartSession, ResumeSession, Begins, IdleWorker, IdleProgress, LockInv, Fields
<1> QED
  BY <1>2 DEF LockInv, Locked, BeforePower

(* The ways a worker goes on.                                              *)
LEMMA LeavesTo ==
    ASSUME LockInv, NEW phase, Leaves(phase)
    PROVE  /\ w'.pc = "idle" /\ "pc" \in DOMAIN w' /\ "job" \in DOMAIN w'
           /\ DOMAIN prog' = DOMAIN prog /\ prog'.qualified = prog.qualified
  BY DEF LockInv, Fields, Leaves, IdleWorker

LEMMA GoesTo ==
    ASSUME LockInv
    PROVE  /\ ToReset.pc = "reset" /\ "pc" \in DOMAIN ToReset /\ "job" \in DOMAIN ToReset
           /\ \A retain : /\ Aborted(retain).pc = "reset" /\ "pc" \in DOMAIN Aborted(retain)
                          /\ "job" \in DOMAIN Aborted(retain)
  BY DEF LockInv, Fields, ToReset, Aborted

LEMMA UnpoweredProgress ==
    ASSUME LockInv, Unpowered
    PROVE  DOMAIN prog' = DOMAIN prog /\ prog'.qualified = FALSE
  BY DEF LockInv, Fields, Unpowered

(* The steps of a session up to the power of its points.                   *)
LEMMA EarlyLocked ==
    ASSUME LockInv,
           Preflight \/ Preheat \/ Discover \/ DescentEnds \/ BuildPoints \/ BackfillEnds
    PROVE  LockInv'
<1> USE DEF BeforePower
<1>a. "pc" \in DOMAIN w /\ "job" \in DOMAIN w
  BY DEF LockInv, Fields
<1>1. CASE Preflight
  <2>1. CASE \E phase : Leaves(phase)
    BY <1>1, <2>1, LeavesTo, StaysLocked DEF Preflight
  <2>2. CASE w' = [w EXCEPT !.pc = "preheat"] /\ prog' = prog
    <3>1. w'.pc = "preheat" /\ "pc" \in DOMAIN w' /\ "job" \in DOMAIN w'
      BY <1>a, <2>2
    <3> QED
      BY <1>1, <2>2, <3>1, StaysLocked DEF Preflight
  <2> QED
    BY <1>1, <2>1, <2>2 DEF Preflight
<1>2. CASE Preheat
  <2>1. CASE \E phase : Leaves(phase)
    BY <1>2, <2>1, LeavesTo, StaysLocked DEF Preheat
  <2>2. CASE w' = [w EXCEPT !.pc = "discover"] /\ prog' = prog
    <3>1. w'.pc = "discover" /\ "pc" \in DOMAIN w' /\ "job" \in DOMAIN w'
      BY <1>a, <2>2
    <3>2. saved' \in {saved, prog'} /\ seen' = seen
      BY <1>2, <2>2 DEF Preheat
    <3> QED
      BY <2>2, <3>1, <3>2, StaysLocked
  <2> QED
    BY <1>2, <2>1, <2>2 DEF Preheat
<1>3. CASE Discover
  <2>1. /\ "pc" \in DOMAIN w' /\ "job" \in DOMAIN w' /\ w'.pc \in {"points", "descent"}
        /\ UNCHANGED <<prog, saved, seen>>
    BY <1>3, <1>a DEF Discover
  <2> QED
    BY <2>1, StaysLocked
<1>4. CASE DescentEnds
  <2>1. UNCHANGED <<prog, saved, seen>>
    BY <1>4 DEF DescentEnds
  <2>2. "pc" \in DOMAIN w' /\ "job" \in DOMAIN w' /\ w'.pc \in {"points", "discover"}
    <3>1. CASE \E found : w' = NextClock(found)
      BY <1>a, <3>1 DEF NextClock
    <3>2. CASE \E retain \in BOOLEAN : w' = [Aborted(retain) EXCEPT !.pc = "points"]
      BY <3>2, GoesTo
    <3>3. CASE w' = [w EXCEPT !.pc = "points", !.job = "none"]
      BY <1>a, <3>3
    <3> QED
      BY <1>4, <3>1, <3>2, <3>3 DEF DescentEnds
  <2> QED
    BY <2>1, <2>2, StaysLocked
<1>5. CASE BuildPoints
  <2>1. UNCHANGED <<prog, saved, seen>>
    BY <1>5 DEF BuildPoints
  <2>2. "pc" \in DOMAIN w' /\ "job" \in DOMAIN w' /\ w'.pc \in {"backfill", "reset"}
    BY <1>5, <1>a, GoesTo DEF BuildPoints
  <2> QED
    BY <2>1, <2>2, StaysLocked
<1>6. CASE BackfillEnds
  <2>1. UNCHANGED <<saved, seen>>
    BY <1>6 DEF BackfillEnds
  <2>2. CASE Unpowered /\ (w' = ToReset \/ w' = Aborted(TRUE))
    BY <2>1, <2>2, GoesTo, UnpoweredProgress, StaysLocked
  <2>3. CASE /\ w' = [w EXCEPT !.pc = "backfill", !.job = "none", !.missing = Tail(@)]
             /\ prog' = prog
    <3>1. w'.pc = "backfill" /\ "pc" \in DOMAIN w' /\ "job" \in DOMAIN w'
      BY <1>a, <2>3
    <3> QED
      BY <2>1, <2>3, <3>1, StaysLocked
  <2> QED
    BY <1>6, <2>2, <2>3 DEF BackfillEnds
<1> QED
  BY <1>1, <1>2, <1>3, <1>4, <1>5, <1>6

(* The lock is released with the last missing power.                       *)
LEMMA BackfillLocked ==
    ASSUME LockInv, Backfill
    PROVE  LockInv'
<1>a. "pc" \in DOMAIN w /\ "job" \in DOMAIN w /\ w.pc \in BeforePower /\ UNCHANGED saved
  BY DEF LockInv, Fields, Backfill, BeforePower
<1>1. CASE w.missing = <<>>
  <2>1. /\ w' = [w EXCEPT !.pc = "synthesize", !.points = FrontierPoints,
                          !.excluded = RegimeExclusions(FrontierPoints)]
        /\ seen' = [seen EXCEPT !.broken = FALSE] /\ UNCHANGED <<prog, saved>>
    BY <1>1 DEF Backfill
  <2>2. "pc" \in DOMAIN w' /\ "job" \in DOMAIN w'
    BY <1>a, <2>1
  <2>3. seen'.broken = FALSE /\ DOMAIN seen' = DOMAIN seen
    BY <2>1 DEF LockInv, Fields
  <2> QED
    BY <2>1, <2>2, <2>3 DEF LockInv, Fields, Locked
<1>2. CASE w.missing # <<>>
  <2>1. seen' = seen
    BY <1>2 DEF Backfill
  <2>2. CASE Unpowered /\ (w' = ToReset \/ w' = Aborted(FALSE))
    BY <1>a, <2>1, <2>2, GoesTo, UnpoweredProgress, StaysLocked DEF BeforePower
  <2>3. CASE w' = [w EXCEPT !.pc = "calibrate", !.job = "backfill"] /\ prog' = prog
    <3>1. w'.pc = "calibrate" /\ w'.job = "backfill" /\ "pc" \in DOMAIN w' /\ "job" \in DOMAIN w'
      BY <1>a, <2>3
    <3> QED
      BY <1>a, <2>1, <2>3, <3>1, StaysLocked DEF BeforePower
  <2> QED
    BY <1>2, <2>2, <2>3 DEF Backfill
<1> QED
  BY <1>1, <1>2

-----------------------------------------------------------------------------
(* Behind the lock.                                                        *)

IsWorker(v) == "pc" \in DOMAIN v /\ "job" \in DOMAIN v

LEMMA DecidesFields ==
    ASSUME LockInv, NEW profiles, Decides(profiles)
    PROVE  DOMAIN prog' = DOMAIN prog
  BY DEF Decides

(* The ways of a worker that has its points.                               *)
LEMMA WorkerForms ==
    ASSUME IsWorker(w)
    PROVE  /\ IsWorker(ToReset) /\ (\A retain : IsWorker(Aborted(retain))) /\ IsWorker(Drop)
           /\ IsWorker([ToReset EXCEPT !.final = TRUE])
           /\ \A keys : IsWorker(Excludes(keys)) /\ IsWorker(Fails(keys))
           /\ \A choice : IsWorker(NewRound(choice))
           /\ \A p, watts, prefer : IsWorker(Admits(p, watts, prefer)) /\ IsWorker(Weighs(p, watts, prefer))
<1> USE DEF IsWorker
<1>1. IsWorker(ToReset)
  BY DEF ToReset
<1>2. ASSUME NEW retain PROVE IsWorker(Aborted(retain))
  BY <1>1 DEF Aborted
<1>3. IsWorker(Drop)
  BY DEF Drop
<1>4. IsWorker([ToReset EXCEPT !.final = TRUE])
  BY <1>1
<1>5. ASSUME NEW keys PROVE IsWorker(Excludes(keys)) /\ IsWorker(Fails(keys))
  BY DEF Excludes, Fails
<1>6. ASSUME NEW choice PROVE IsWorker(NewRound(choice))
  BY DEF NewRound
<1>7. ASSUME NEW p, NEW watts, NEW prefer
      PROVE  IsWorker(Admits(p, watts, prefer)) /\ IsWorker(Weighs(p, watts, prefer))
  BY <1>3 DEF Admits, Weighs
<1> QED
  BY <1>1, <1>2, <1>3, <1>4, <1>5, <1>6, <1>7

LEMMA ApprovesForm ==
    ASSUME IsWorker(w), NEW reading, NEW p99
    PROVE  IsWorker(Approves(reading, p99))
<1>1. PICK points : points = [n \in DOMAIN w.points |->
                       IF Key(w.points[n]) = GateKey THEN Raised(w.points[n], reading, p99) ELSE w.points[n]]
  OBVIOUS
<1>2. PICK keys : keys = {GateKey} \cup Dependents(GateKey, points)
  OBVIOUS
<1>3. \/ Approves(reading, p99) = [Excludes(keys) EXCEPT !.points = points]
      \/ Approves(reading, p99) = [w EXCEPT !.pc = "select", !.job = "none", !.points = points,
                                          !.changed = TRUE, !.queue = Tail(@)]
  BY <1>1, <1>2 DEF Approves
<1>4. IsWorker(Excludes(keys))
  BY WorkerForms
<1>5. CASE Approves(reading, p99) = [Excludes(keys) EXCEPT !.points = points]
  BY <1>4, <1>5 DEF IsWorker
<1>6. CASE Approves(reading, p99) = [w EXCEPT !.pc = "select", !.job = "none", !.points = points,
                                            !.changed = TRUE, !.queue = Tail(@)]
  BY <1>6 DEF IsWorker
<1> QED
  BY <1>3, <1>5, <1>6

(* A gate that begins, is stopped, or is refused.                          *)
LEMMA BeginGateForm ==
    ASSUME LockInv, NEW key, NEW pass, BeginGate(key, pass)
    PROVE  IsWorker(w') /\ DOMAIN prog' = DOMAIN prog
<1>1. IsWorker(w)
  BY DEF LockInv, Fields, IsWorker
<1>2. CASE ctl.stop
  BY <1>1, <1>2, WorkerForms, DecidesFields DEF BeginGate
<1>3. CASE ~ ctl.stop /\ Refused(key)
  BY <1>1, <1>3, WorkerForms DEF BeginGate
<1>4. CASE ~ ctl.stop /\ ~ Refused(key)
  <2>1. w' = [w EXCEPT !.pc = "gate", !.job = "gate", !.pass = pass] /\ prog' = prog
    BY <1>4 DEF BeginGate
  <2> QED
    BY <1>1, <2>1 DEF IsWorker
<1> QED
  BY <1>2, <1>3, <1>4

LEMMA BeginRepairForm ==
    ASSUME LockInv, NEW job, NEW p, BeginRepair(job, p)
    PROVE  IsWorker(w') /\ DOMAIN prog' = DOMAIN prog
<1>1. IsWorker(w)
  BY DEF LockInv, Fields, IsWorker
<1>2. CASE ctl.stop
  BY <1>1, <1>2, WorkerForms DEF BeginRepair
<1>3. CASE ~ ctl.stop /\ Refused(Key(p))
  BY <1>1, <1>3, WorkerForms, DecidesFields DEF BeginRepair
<1>4. CASE ~ ctl.stop /\ ~ Refused(Key(p))
  <2>1. w' = [w EXCEPT !.pc = "calibrate", !.job = job, !.candidate = p] /\ prog' = prog
    BY <1>4 DEF BeginRepair
  <2> QED
    BY <1>1, <2>1 DEF IsWorker
<1> QED
  BY <1>2, <1>3, <1>4

(* A step of a session that has its points: it was not locked.             *)
LEMMA LateLocked ==
    ASSUME LockInv, w.pc \notin BeforePower \/ (w.pc = "calibrate" /\ w.job # "backfill"),
           seen' = seen \/ (\E passes : seen' = [seen EXCEPT !.passes = passes])
                        \/ (\E failed : seen' = [seen EXCEPT !.failed = failed]),
           IsWorker(w'), DOMAIN prog' = DOMAIN prog, saved' = saved
    PROVE  LockInv'
<1>1. seen.broken = FALSE \/ ~ seen.broken
  BY DEF LockInv, Locked
<1>2. ~ seen.broken
  BY DEF LockInv, Locked
<1>3. seen'.broken = seen.broken /\ DOMAIN seen' = DOMAIN seen
  BY DEF LockInv, Fields
<1> QED
  BY <1>2, <1>3 DEF LockInv, Fields, Locked, IsWorker

LEMMA SelectionLocked ==
    ASSUME LockInv, SynthesizeProfiles \/ SelectCandidate \/ Publish
    PROVE  LockInv'
<1>1. IsWorker(w)
  BY DEF LockInv, Fields, IsWorker
<1>2. UNCHANGED <<saved, seen>> /\ w.pc \in {"synthesize", "select", "publish"}
  BY DEF SynthesizeProfiles, SelectCandidate, Publish
<1>3. IsWorker(w') /\ DOMAIN prog' = DOMAIN prog
  <2>1. CASE SynthesizeProfiles
    BY <1>1, <2>1, WorkerForms, DecidesFields DEF SynthesizeProfiles
  <2>2. CASE SelectCandidate
    <3>1. CASE \E key, pass : BeginGate(key, pass)
      BY <3>1, BeginGateForm
    <3>2. CASE (\E keys : w' = Excludes(keys)) /\ prog' = prog
      BY <1>1, <3>2, WorkerForms
    <3>3. CASE /\ \/ w' = [w EXCEPT !.pc = IF w.changed THEN "synthesize" ELSE "publish"]
                  \/ w' = [w EXCEPT !.queue = Tail(@)]
               /\ prog' = prog
      BY <1>1, <3>3 DEF IsWorker
    <3> QED
      BY <2>2, <3>1, <3>2, <3>3 DEF SelectCandidate
  <2>3. CASE Publish
    BY <1>1, <2>3, WorkerForms, DecidesFields DEF Publish
  <2> QED
    BY <2>1, <2>2, <2>3
<1> QED
  BY <1>2, <1>3, LateLocked DEF BeforePower

LEMMA GateLocked ==
    ASSUME LockInv,
           GatePasses \/ GateAgain \/ GateCancelled \/ GateOverPower \/ GateSilent \/ GateUnstable
             \/ GateInconclusive \/ GateLost
    PROVE  LockInv'
<1>1. IsWorker(w)
  BY DEF LockInv, Fields, IsWorker
<1>2. saved' = saved /\ w.pc \in {"gate", "again"}
  BY DEF GatePasses, GateAgain, GateCancelled, GateOverPower, GateSilent, GateUnstable, GateInconclusive,
         GateLost
<1>3. \/ seen' = seen
      \/ \E passes : seen' = [seen EXCEPT !.passes = passes]
      \/ \E failed : seen' = [seen EXCEPT !.failed = failed]
  BY DEF GatePasses, GateAgain, GateCancelled, GateOverPower, GateSilent, GateUnstable, GateInconclusive,
         GateLost
<1>4. IsWorker(w') /\ DOMAIN prog' = DOMAIN prog
  <2>1. CASE GatePasses
    <3>1. CASE w' = [w EXCEPT !.pc = "again", !.job = "none"]
      BY <1>1, <2>1, <3>1 DEF GatePasses, IsWorker
    <3>2. CASE \E reading, p99 : w' = Approves(reading, p99)
      BY <1>1, <2>1, <3>2, ApprovesForm DEF GatePasses
    <3> QED
      BY <2>1, <3>1, <3>2 DEF GatePasses
  <2>2. CASE GateAgain
    BY <2>2, BeginGateForm DEF GateAgain
  <2>3. CASE GateCancelled \/ GateInconclusive \/ GateLost
    BY <1>1, <2>3, WorkerForms, DecidesFields DEF GateCancelled, GateInconclusive, GateLost
  <2>4. CASE GateOverPower \/ GateSilent \/ GateUnstable
    BY <1>1, <2>4, WorkerForms DEF GateOverPower, GateSilent, GateUnstable
  <2> QED
    BY <2>1, <2>2, <2>3, <2>4
<1> QED
  BY <1>2, <1>3, <1>4, LateLocked DEF BeforePower

LEMMA RepairLocked ==
    ASSUME LockInv, Repair \/ RepairEnds
    PROVE  LockInv'
<1>1. IsWorker(w)
  BY DEF LockInv, Fields, IsWorker
<1>2. UNCHANGED <<saved, seen>> /\ (w.pc \notin BeforePower \/ (w.pc = "calibrate" /\ w.job # "backfill"))
  BY DEF Repair, RepairEnds, BeforePower
<1>3. IsWorker(w') /\ DOMAIN prog' = DOMAIN prog
  <2>1. CASE Repair
    <3>1. CASE \E job, p : BeginRepair(job, p)
      BY <3>1, BeginRepairForm
    <3>2. CASE (w' = Drop \/ \E p, watts, prefer : w' = Weighs(p, watts, prefer)) /\ prog' = prog
      BY <1>1, <3>2, WorkerForms
    <3> QED
      BY <2>1, <3>1, <3>2 DEF Repair
  <2>2. CASE RepairEnds
    <3>1. CASE (\E p, watts, prefer : w' = Weighs(p, watts, prefer)) /\ prog' = prog
      BY <1>1, <3>1, WorkerForms
    <3>2. CASE w' = Drop /\ prog' = prog
      BY <1>1, <3>2, WorkerForms
    <3>3. CASE w' = Aborted(TRUE) /\ Decides(prog.profiles)
      BY <1>1, <3>3, WorkerForms, DecidesFields
    <3> QED
      BY <2>2, <3>1, <3>2, <3>3 DEF RepairEnds
  <2> QED
    BY <2>1, <2>2
<1> QED
  BY <1>2, <1>3, LateLocked

-----------------------------------------------------------------------------
(* The end of a session, and what comes from outside.                      *)

LEMMA FinalResetLocked ==
    ASSUME LockInv, FinalReset
    PROVE  LockInv'
<1>1. PICK restored \in BOOLEAN : Ends(restored)
  BY DEF FinalReset
<1>2. saved' = prog' /\ w' = IdleWorker /\ seen' = seen
  BY DEF FinalReset
<1>3. DOMAIN prog' = DOMAIN prog /\ prog'.qualified = (restored /\ prog.qualified)
  BY <1>1 DEF Ends, LockInv, Fields
<1> QED
  BY <1>2, <1>3 DEF LockInv, Fields, Locked, IdleWorker, BeforePower

LEMMA OutsideLocked ==
    ASSUME LockInv,
           StopSession \/ RecordActiveForgeTdr \/ WorkerPanics \/ AcknowledgeIncident \/ ReportUnstable
    PROVE  LockInv'
<1>1. CASE StopSession \/ RecordActiveForgeTdr \/ AcknowledgeIncident
  <2>1. UNCHANGED <<prog, saved, w, seen>>
    BY <1>1 DEF StopSession, RecordActiveForgeTdr, AcknowledgeIncident
  <2> QED
    BY <2>1 DEF LockInv, Fields, Locked
<1>2. CASE WorkerPanics
  <2>1. prog'.qualified = FALSE /\ DOMAIN prog' = DOMAIN prog /\ saved' = prog'
    BY <1>2 DEF WorkerPanics, Interrupted, LockInv, Fields
  <2>2. w' = IdleWorker /\ DOMAIN seen' = DOMAIN seen
    BY <1>2 DEF WorkerPanics
  <2> QED
    BY <2>1, <2>2 DEF LockInv, Fields, Locked, IdleWorker, BeforePower
<1>3. CASE ReportUnstable
  <2>1. prog'.qualified = FALSE /\ DOMAIN prog' = DOMAIN prog /\ saved' = prog' /\ UNCHANGED <<w, seen>>
    BY <1>3 DEF ReportUnstable, LockInv, Fields
  <2> QED
    BY <2>1 DEF LockInv, Fields, Locked
<1> QED
  BY <1>1, <1>2, <1>3

(* Loading never qualifies what the file does not.                         *)
LEMMA LoadedFields ==
    ASSUME NEW file, {"qualified", "running", "phase", "profiles"} \subseteq DOMAIN file, NEW d
    PROVE  /\ DOMAIN Loaded(file, d) = DOMAIN file
           /\ ~ file.qualified => ~ Loaded(file, d).qualified
<1>1. PICK approved : approved = (file.qualified /\ \A p \in ProfileSet(file.profiles) : p.approved)
  OBVIOUS
<1>2. PICK refused : refused = (\E p \in ProfileSet(file.profiles) :
                       \/ AtOrBelowFloor(d.black, p.target, p.apply)
                       \/ Refuses({e.pair : e \in d.rigid}, {e.pair : e \in d.quarantine}, p.target, p.apply))
  OBVIOUS
<1>3. PICK valid : valid = (approved /\ ~ refused /\ ~ d.incident)
  OBVIOUS
<1>4. PICK phase, profiles : Loaded(file, d) = [file EXCEPT !.qualified = valid, !.phase = phase, !.profiles = profiles]
  BY <1>1, <1>2, <1>3, Zenon DEF Loaded
<1>5. DOMAIN Loaded(file, d) = DOMAIN file /\ Loaded(file, d).qualified = valid
  BY <1>4
<1>6. ~ file.qualified => ~ valid
  BY <1>1, <1>3
<1> QED
  BY <1>5, <1>6

LEMMA RestartLocked ==
    ASSUME LockInv, Restart
    PROVE  LockInv'
<1> DEFINE cut == saved # NoFile /\ saved.running
<1>1. PICK file : file = IF cut THEN [saved EXCEPT !.running = FALSE, !.phase = "needs_attention", !.qualified = FALSE]
                         ELSE saved
  OBVIOUS
<1>2. PICK started : started = [Condemned(disk, 0) EXCEPT !.armed = NoPair, !.incident = @ \/ cut]
  OBVIOUS
<1>3. PICK loaded : loaded = IF file = NoFile THEN IdleProgress ELSE Loaded(file, started)
  OBVIOUS
<1>4. /\ w' = IdleWorker /\ prog' = loaded
      /\ saved' = (IF file # NoFile /\ loaded.qualified THEN loaded ELSE file)
      /\ seen' = [seen EXCEPT !.broken = @ \/ cut]
  BY <1>1, <1>2, <1>3, Zenon DEF Restart
<1>5. file # NoFile => {"qualified", "running", "phase", "profiles"} \subseteq DOMAIN file
  BY <1>1 DEF LockInv, Fields
<1>6. seen'.broken <=> seen.broken \/ cut
  BY <1>4 DEF LockInv, Fields
<1>7. seen.broken \/ cut => file = NoFile \/ ~ file.qualified
  BY <1>1 DEF LockInv, Fields, Locked
<1>8. {"qualified", "running", "phase", "profiles"} \subseteq DOMAIN loaded
  BY <1>3, <1>5, LoadedFields DEF IdleProgress
<1>9. seen.broken \/ cut => ~ loaded.qualified
  <2>1. CASE file = NoFile
    BY <1>3, <2>1 DEF IdleProgress
  <2>2. CASE file # NoFile
    BY <1>3, <1>5, <1>7, <2>2, LoadedFields
  <2> QED
    BY <2>1, <2>2
<1>10. Fields'
  <2>1. saved' # NoFile => {"qualified", "running", "phase", "profiles"} \subseteq DOMAIN saved'
    BY <1>4, <1>5, <1>8
  <2>2. DOMAIN seen' = DOMAIN seen
    BY <1>4
  <2> QED
    BY <1>4, <1>8, <2>1, <2>2 DEF LockInv, Fields, IdleWorker
<1>11. Locked'
  <2> SUFFICES ASSUME seen'.broken PROVE Locked'
    BY DEF Locked
  <2>1. ~ prog'.qualified /\ (saved' # NoFile => ~ saved'.qualified)
    BY <1>4, <1>6, <1>7, <1>9
  <2> QED
    BY <1>4, <2>1 DEF Locked, IdleWorker, BeforePower
<1> QED
  BY <1>10, <1>11 DEF LockInv

-----------------------------------------------------------------------------
LEMMA LockNext == LockInv /\ [Next]_fvars => LockInv'
<1> SUFFICES ASSUME LockInv, [Next]_fvars PROVE LockInv'
  OBVIOUS
<1>1. CASE WorkerStep
  BY <1>1, EarlyLocked, BackfillLocked, SelectionLocked, GateLocked, RepairLocked, FinalResetLocked
     DEF WorkerStep
<1>2. CASE Environment
  BY <1>2, BeginsLocked, OutsideLocked, RestartLocked DEF Environment
<1>3. CASE UNCHANGED fvars
  BY <1>3 DEF fvars, LockInv, Fields, Locked
<1> QED
  BY <1>1, <1>2, <1>3 DEF Next

LEMMA LockInit == Init => LockInv
  BY DEF Init, LockInv, Fields, Locked, IdleProgress, IdleWorker

THEOREM LockHolds == Spec => []LockInv
  BY LockInit, LockNext, PTL DEF Spec

(* After a panic, or a restart over an unfinished run, no profile is       *)
(* offered for Apply before another session has measured the frontier and  *)
(* the power of every point of it, whatever the operator does meanwhile    *)
(* (reconcile_startup, load_forge_state, resume).                          *)
THEOREM BrokenRunIsLocked == Spec => []InterruptedStaysLocked
<1>1. LockInv => InterruptedStaysLocked
  BY DEF LockInv, Locked, InterruptedStaysLocked
<1> QED
  BY <1>1, LockHolds, PTL
================================================================================
