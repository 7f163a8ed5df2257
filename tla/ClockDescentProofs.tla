--------------------------- MODULE ClockDescentProofs ---------------------------
(***************************************************************************)
(* Theorems about ClockDescent, for every plan, every measurement and      *)
(* every bound.  The motor's own steps are CandidateMotorProofs; here are  *)
(* the caller's, and which of the two may move when.                       *)
(***************************************************************************)
EXTENDS ClockDescent, CandidateMotorProofs

(* The steps of a call during which the motor has a candidate.             *)
Engaged == {"dwell", "recheck", "analyse", "qualify", "cleanup"}

(* The motor works only while the call waits for it, under load it is the  *)
(* call's turn, and no call outlives its session.                          *)
SyncOK ==
    /\ DOMAIN call = DOMAIN IdleCall
    /\ DOMAIN forge = DOMAIN IdleForge
    /\ motor.pc # "idle" => call.pc \in Engaged
    /\ call.pc = "qualify" => motor.pc = "active"
    /\ forge.pc = "idle" => call.pc = "off"

GuardInv == SyncOK /\ MotorGuarded

LEMMA CallFields ==
    /\ {"pc", "reports", "rechecked", "clean", "retainNow", "broken", "found", "verdict", "retries",
        "history", "queue", "i", "completed", "aborted", "retain", "reason", "executed", "rejected",
        "failed", "local", "bracket", "jumped", "had", "qualified", "power", "cap", "sustainable",
        "nextStart", "cands", "start", "exhausted", "refresh", "priorGood"} \subseteq DOMAIN IdleCall
    /\ {"pc", "run", "aborted", "paused", "fellBack", "climbs"} \subseteq DOMAIN IdleForge
  BY DEF IdleCall, IdleForge

(* A call starts at its first candidate, or with its summary.              *)
LEMMA NewCallSync ==
    ASSUME NEW run, NEW resume, NEW start
    PROVE  /\ DOMAIN NewCall(run, resume, start) = DOMAIN IdleCall
           /\ NewCall(run, resume, start).pc \in {"next", "ended", "summary"}
  BY DEF NewCall, AbortWith, IdleCall

-----------------------------------------------------------------------------
(* One lemma per action that moves the motor or the call.                  *)

LEMMA NextCandidateGuarded ==
    ASSUME GuardInv, NextCandidate
    PROVE  GuardInv' /\ GuardStep
<1> DEFINE moved(c) == c.pc = "summary" /\ DOMAIN c = DOMAIN IdleCall
<1>1. motor.pc = "idle"
  BY DEF GuardInv, SyncOK, NextCandidate, Engaged
<1>2. CASE UNCHANGED motor /\ moved(call')
  BY <1>1, <1>2, StillGuarded DEF GuardInv, SyncOK, NextCandidate, Engaged
<1>3. CASE call' = FreshCandidate(call) /\ Begin("transaction", Candidate) /\ Selectable(Candidate)
  <2>1. MotorGuarded' /\ GuardStep
    BY <1>3, BeginGuarded DEF GuardInv, NextCandidate, Selectable
  <2>2. SyncOK'
    BY <1>3, CallFields DEF GuardInv, SyncOK, NextCandidate, FreshCandidate, Engaged
  <2> QED
    BY <2>1, <2>2 DEF GuardInv
<1>4. \A completed, reason : /\ moved(StopAt(call, completed, reason))
                            /\ StopAt(call, completed, reason) # call
                            /\ moved(AbortWith(call, reason))
                            /\ AbortWith(call, reason) # call
  BY CallFields DEF GuardInv, SyncOK, NextCandidate, StopAt, AbortWith
<1>5. \/ UNCHANGED motor /\ moved(call')
      \/ call' = FreshCandidate(call) /\ Begin("transaction", Candidate) /\ Selectable(Candidate)
  <2> HIDE DEF moved
  <2> QED
    BY <1>4, Zenon DEF NextCandidate
<1> QED
  BY <1>2, <1>3, <1>5

LEMMA MotorRunsGuarded ==
    ASSUME GuardInv, MotorRuns
    PROVE  GuardInv' /\ GuardStep
<1>1. MotorGuarded' /\ GuardStep
  BY MotorStepGuarded DEF GuardInv, MotorRuns
<1>2. motor.pc # "idle" /\ motor.pc # "active"
  BY DEF MotorRuns, MotorStep, ArmBootFlag, ApplyPositiveOffset, VerifyOffset, ResetToStock,
         BlacklistPoint, RetainBootFlag, ClearBootFlag
<1>3. SyncOK'
  BY <1>2 DEF GuardInv, SyncOK, MotorRuns
<1> QED
  BY <1>1, <1>3 DEF GuardInv

LEMMA DiscoveryDwellGuarded ==
    ASSUME GuardInv, DiscoveryDwell
    PROVE  GuardInv' /\ GuardStep
<1>1. \E reports : \/ motor' = [motor EXCEPT !.reports = reports]
                   \/ motor' = [[motor EXCEPT !.reports = reports] EXCEPT !.pc = "reset"]
  BY DEF DiscoveryDwell, RunPhase, Finish
<1>2. MotorGuarded' /\ GuardStep
  BY <1>1, LoadGuarded DEF GuardInv, DiscoveryDwell
<1>3. \E again : call' = [call EXCEPT !.pc = IF again THEN "recheck" ELSE "analyse",
                                      !.rechecked = @ \/ again]
  BY DEF DiscoveryDwell
<1>4. SyncOK'
  BY <1>3, CallFields DEF GuardInv, SyncOK, DiscoveryDwell, Engaged
<1> QED
  BY <1>2, <1>4 DEF GuardInv

LEMMA RecheckGuarded ==
    ASSUME GuardInv, RecheckPower
    PROVE  GuardInv' /\ GuardStep
<1>1. \/ /\ Begin("transaction", Candidate) /\ flag = None
         /\ call' = [CollectedMotor(call) EXCEPT !.pc = "dwell"]
      \/ /\ motor' = IdleMotor
         /\ \E broken : call' = [CollectedMotor(call) EXCEPT !.pc = "analyse", !.broken = broken]
  BY DEF RecheckPower, Selectable
<1>2. MotorGuarded' /\ GuardStep
  BY <1>1, BeginGuarded, IdleGuarded DEF GuardInv, RecheckPower
<1>3. SyncOK'
  BY <1>1, CallFields DEF GuardInv, SyncOK, RecheckPower, CollectedMotor, Engaged
<1> QED
  BY <1>2, <1>3 DEF GuardInv

LEMMA AnalyseGuarded ==
    ASSUME GuardInv, Analyse
    PROVE  GuardInv' /\ GuardStep
<1>1. /\ DOMAIN call' = DOMAIN call
      /\ call'.pc = "cleanup" \/ (call'.pc = "qualify" /\ motor.pc = "active")
  BY CallFields DEF GuardInv, SyncOK, Analyse
<1>2. \E marked : \/ motor' = [motor EXCEPT !.reports = marked]
                  \/ /\ motor.pc = "active" /\ call'.pc # "qualify"
                     /\ motor' = [[motor EXCEPT !.reports = marked] EXCEPT !.pc = "reset"]
  BY CallFields DEF GuardInv, SyncOK, Analyse, Finish
<1>3. MotorGuarded' /\ GuardStep
  BY <1>2, LoadGuarded, MarkGuarded DEF GuardInv, Analyse
<1>4. SyncOK'
  BY <1>1, <1>2, CallFields DEF GuardInv, SyncOK, Analyse, Engaged, MotorGuarded, MotorShape
<1> QED
  BY <1>3, <1>4 DEF GuardInv

LEMMA QualificationCancelledGuarded ==
    ASSUME GuardInv, QualificationCancelled
    PROVE  GuardInv' /\ GuardStep
<1>1. MotorGuarded' /\ GuardStep
  BY LoadGuarded DEF GuardInv, SyncOK, QualificationCancelled, Finish
<1>2. SyncOK'
  BY CallFields DEF GuardInv, SyncOK, QualificationCancelled, Engaged
<1> QED
  BY <1>1, <1>2 DEF GuardInv

LEMMA QualificationDwellGuarded ==
    ASSUME GuardInv, QualificationDwell
    PROVE  GuardInv' /\ GuardStep
<1>1. /\ DOMAIN call' = DOMAIN call
      /\ call'.pc = "cleanup" \/ (call'.pc = "qualify" /\ motor'.pc = "active")
  BY CallFields DEF GuardInv, SyncOK, QualificationDwell, RunPhase, MotorGuarded, MotorShape
<1>2. \E reports : \/ motor' = [motor EXCEPT !.reports = reports]
                   \/ motor' = [[motor EXCEPT !.reports = reports] EXCEPT !.pc = "reset"]
  BY DEF QualificationDwell, RunPhase, Finish
<1>3. MotorGuarded' /\ GuardStep
  BY <1>2, LoadGuarded DEF GuardInv, SyncOK, QualificationDwell
<1>4. SyncOK'
  BY <1>1, CallFields DEF GuardInv, SyncOK, QualificationDwell, Engaged
<1> QED
  BY <1>3, <1>4 DEF GuardInv

(* Steps of the call, or of its session, beside an idle motor.             *)
LEMMA BesideGuarded ==
    ASSUME GuardInv, UNCHANGED <<flag, hw, motor>>, motor.pc = "idle",
           DOMAIN call' = DOMAIN IdleCall, DOMAIN forge' = DOMAIN IdleForge,
           call'.pc # "qualify", forge'.pc # "idle"
    PROVE  GuardInv' /\ GuardStep
  BY StillGuarded DEF GuardInv, SyncOK

LEMMA StartFailedGuarded ==
    ASSUME GuardInv, TransactionStartFailed
    PROVE  GuardInv' /\ GuardStep
<1>1. MotorGuarded' /\ GuardStep
  BY StillGuarded DEF GuardInv, TransactionStartFailed, mvars
<1>2. SyncOK'
  BY CallFields DEF GuardInv, SyncOK, TransactionStartFailed, mvars, Engaged
<1> QED
  BY <1>1, <1>2 DEF GuardInv

LEMMA CleanupGuarded ==
    ASSUME GuardInv, CandidateCleanup
    PROVE  GuardInv' /\ GuardStep
<1>1. MotorGuarded' /\ GuardStep
  BY IdleGuarded DEF GuardInv, CandidateCleanup
<1>2. DOMAIN call' = DOMAIN IdleCall /\ call'.pc = "persist"
  BY CallFields DEF GuardInv, SyncOK, CandidateCleanup, CollectedMotor
<1>3. SyncOK'
  BY <1>2 DEF GuardInv, SyncOK, CandidateCleanup, IdleMotor
<1> QED
  BY <1>1, <1>3 DEF GuardInv

LEMMA PersistGuarded ==
    ASSUME GuardInv, PersistReport
    PROVE  GuardInv' /\ GuardStep
<1>1. DOMAIN call' = DOMAIN IdleCall /\ call'.pc \in {"persist", "judge", "summary"}
  BY CallFields DEF GuardInv, SyncOK, PersistReport, AbortWith
<1>2. forge'.pc # "idle" /\ motor.pc = "idle"
  BY DEF GuardInv, SyncOK, PersistReport, Engaged
<1> QED
  BY <1>1, <1>2, BesideGuarded DEF GuardInv, SyncOK, PersistReport

(* What judge decides: the call goes on, or to its summary.                *)
LEMMA JudgeMoves ==
    ASSUME DOMAIN call = DOMAIN IdleCall, Judge
    PROVE  /\ call.pc = "judge" /\ UNCHANGED <<mvars, log, forge, stop, seen, spent>>
           /\ DOMAIN call' = DOMAIN IdleCall /\ call'.pc \in {"next", "summary"}
<1>1. DOMAIN Learned = DOMAIN IdleCall
  BY DEF Learned
<1> USE CallFields DEF Settled, Transition, StopAt, AbortWith
<1>2. CASE JudgeAborted
  BY <1>2 DEF JudgeAborted
<1>3. CASE RecoverUpwards
  BY <1>1, <1>3 DEF RecoverUpwards, Bisect
<1>4. CASE BoundaryReached
  BY <1>1, <1>4 DEF BoundaryReached
<1>5. CASE QualificationStops
  BY <1>1, <1>5 DEF QualificationStops
<1>6. CASE Qualified
  BY <1>1, <1>6 DEF Qualified, Descend, GoLocal
<1>7. CASE NearCapDescends
  BY <1>1, <1>7 DEF NearCapDescends, Unqualified, Descend
<1>8. CASE NarrowBracket
  BY <1>1, <1>8 DEF NarrowBracket, Unqualified, Bisect
<1> QED
  BY <1>2, <1>3, <1>4, <1>5, <1>6, <1>7, <1>8 DEF Judge

LEMMA JudgeGuarded ==
    ASSUME GuardInv, Judge
    PROVE  GuardInv' /\ GuardStep
<1>1. motor.pc = "idle" /\ forge.pc # "idle"
  BY JudgeMoves DEF GuardInv, SyncOK, Engaged
<1> QED
  BY <1>1, JudgeMoves, BesideGuarded DEF GuardInv, SyncOK, mvars

LEMMA SummarizeGuarded ==
    ASSUME GuardInv, Summarize
    PROVE  GuardInv' /\ GuardStep
<1>1. DOMAIN call' = DOMAIN IdleCall /\ call'.pc = "ended"
  BY CallFields DEF GuardInv, SyncOK, Summarize, Transition
<1>2. motor.pc = "idle" /\ forge.pc # "idle"
  BY DEF GuardInv, SyncOK, Summarize, Engaged
<1> QED
  BY <1>1, <1>2, BesideGuarded DEF GuardInv, SyncOK, Summarize, Transition, mvars

LEMMA RetryGuarded ==
    ASSUME GuardInv, FallBack \/ ClimbStart
    PROVE  GuardInv' /\ GuardStep
<1>1. /\ DOMAIN call' = DOMAIN IdleCall /\ call'.pc # "qualify"
      /\ DOMAIN forge' = DOMAIN IdleForge /\ forge'.pc = "searching"
  <2>1. PICK run, resume, start : call' = NewCall(run, resume, start)
    BY DEF FallBack, ClimbStart, Call
  <2>2. DOMAIN forge' = DOMAIN forge /\ forge'.pc = "searching"
    BY CallFields DEF GuardInv, SyncOK, FallBack, ClimbStart, CallEnded, Call
  <2> QED
    BY <2>1, <2>2, NewCallSync DEF GuardInv, SyncOK
<1>2. motor.pc = "idle"
  BY DEF GuardInv, SyncOK, FallBack, ClimbStart, CallEnded, Engaged
<1> QED
  BY <1>1, <1>2, BesideGuarded DEF FallBack, ClimbStart, mvars

LEMMA FinalResetGuarded ==
    ASSUME GuardInv, FinalReset
    PROVE  GuardInv' /\ GuardStep
<1>1. motor'.pc = "idle" /\ MotorShape'
  BY DEF GuardInv, SyncOK, FinalReset, CallEnded, Engaged, MotorGuarded, MotorShape
<1>2. \/ hw' = None /\ flag' \in {flag, None}
      \/ hw' \in {hw, None} /\ UNCHANGED flag
  BY DEF FinalReset
<1>3. MotorGuarded' /\ GuardStep
  BY <1>1, <1>2, RestoreGuarded, RebootGuarded DEF GuardInv
<1>4. SyncOK'
  BY <1>1, CallFields DEF GuardInv, SyncOK, FinalReset, IdleCall
<1> QED
  BY <1>3, <1>4 DEF GuardInv

LEMMA StartSessionGuarded ==
    ASSUME GuardInv, StartSession
    PROVE  GuardInv' /\ GuardStep
<1>1. motor'.pc = "idle" /\ MotorShape'
  BY DEF GuardInv, SyncOK, StartSession, Engaged, MotorGuarded, MotorShape
<1>2. MotorGuarded' /\ GuardStep
  BY <1>1, RestoreGuarded DEF GuardInv, StartSession
<1>3. /\ DOMAIN call' = DOMAIN IdleCall /\ call'.pc # "qualify"
      /\ DOMAIN forge' = DOMAIN IdleForge /\ forge'.pc = "searching"
  <2>1. PICK run, resume, start : call' = NewCall(run, resume, start)
    BY DEF StartSession, Call
  <2>2. DOMAIN forge' = DOMAIN IdleForge /\ forge'.pc = "searching"
    BY CallFields DEF StartSession, Call, NewSession
  <2> QED
    BY <2>1, <2>2, NewCallSync
<1>4. SyncOK'
  BY <1>1, <1>3 DEF SyncOK
<1> QED
  BY <1>2, <1>4 DEF GuardInv

LEMMA EnvironmentGuarded ==
    ASSUME GuardInv, StopPressed \/ WorkerPanics \/ MachineCrash
    PROVE  GuardInv' /\ GuardStep
<1>1. CASE StopPressed
  <2>1. MotorGuarded' /\ GuardStep
    BY <1>1, StillGuarded DEF GuardInv, StopPressed, mvars
  <2> QED
    BY <1>1, <2>1 DEF GuardInv, SyncOK, StopPressed, mvars
<1>2. CASE WorkerPanics \/ MachineCrash
  <2>1. /\ motor' = IdleMotor /\ call' = IdleCall /\ forge' = LeaveSession
        /\ \/ hw' \in {hw, None} /\ UNCHANGED flag
           \/ hw' = None /\ flag' = None
    BY <1>2 DEF WorkerPanics, PanicReset, MachineCrash, RebootAndRecover
  <2>2. motor'.pc = "idle" /\ MotorShape'
    BY <2>1 DEF IdleMotor, MotorShape
  <2>3. MotorGuarded' /\ GuardStep
    BY <2>1, <2>2, RestoreGuarded, RebootGuarded DEF GuardInv
  <2>4. SyncOK'
    BY <2>1, <2>2, CallFields DEF GuardInv, SyncOK, LeaveSession, IdleCall
  <2> QED
    BY <2>3, <2>4 DEF GuardInv
<1> QED
  BY <1>1, <1>2

LEMMA GuardNext ==
    ASSUME GuardInv, [Next]_vars
    PROVE  GuardInv' /\ GuardStep
<1>1. CASE UNCHANGED vars
  <2>1. MotorGuarded' /\ GuardStep
    BY <1>1, StillGuarded DEF GuardInv, vars
  <2> QED
    BY <1>1, <2>1 DEF GuardInv, SyncOK, vars
<1>2. CASE Search
  BY <1>2, NextCandidateGuarded, MotorRunsGuarded, DiscoveryDwellGuarded, StartFailedGuarded,
     RecheckGuarded, AnalyseGuarded, QualificationCancelledGuarded, QualificationDwellGuarded,
     CleanupGuarded, PersistGuarded, JudgeGuarded, SummarizeGuarded, RetryGuarded, FinalResetGuarded
     DEF Search
<1>3. CASE Environment
  BY <1>3, StartSessionGuarded, EnvironmentGuarded DEF Environment
<1> QED
  BY <1>1, <1>2, <1>3 DEF Next

(* A whole search, through every failing access, panic and reboot, is a    *)
(* behaviour of GuardedWrite: the GPU leaves stock only under the armed    *)
(* flag, and the flag goes only once the GPU is back                       *)
(* (begin_f2_candidate_transaction, finish_f2_transaction_reports).        *)
THEOREM SearchIsGuarded == Spec => WritesAreGuarded
<1>1. Init => GuardInv /\ Guard!GuardInit
  BY MotorInitGuarded, CallFields DEF Init, GuardInv, SyncOK, MotorInit, IdleCall, IdleForge, IdleMotor
<1>2. GuardInv /\ [Next]_vars => GuardInv'
  BY GuardNext
<1>3. GuardInv /\ [Next]_vars => [Guard!GuardNext]_Guard!gvars
  BY GuardNext DEF GuardStep, Guard!gvars
<1> QED
  BY <1>1, <1>2, <1>3, PTL DEF Spec, WritesAreGuarded, Guard!GuardSpec
-----------------------------------------------------------------------------
(* What a search remembers of a candidate that failed hard.                *)

CallTypes ==
    /\ call.cands \in Seq(Bins)
    /\ call.i \in Nat \ {0}
    /\ call.jumped \in Nat
    /\ call.bracket = <<>> \/ call.bracket \in (Nat \ {0}) \X Nat
    /\ call.reports \in Seq(ReportType)
    /\ DOMAIN seen = DOMAIN NothingSeen
    /\ seen.condemned \subseteq Bins

(* The motor's candidate is the call's; the dwells are looked at under     *)
(* load or after the cleanup, never in between.                            *)
SameCandidate ==
    /\ call.pc \in Engaged \cup {"persist", "judge"} => Candidate \in Bins
    /\ motor.pc # "idle" => motor.mv = Candidate /\ motor.mode = "transaction"
    /\ call.pc = "analyse" => motor.pc \in {"active", "done", "idle"}

(* The call is on its way to leave the flag in place.                      *)
Retaining ==
    \/ call.pc = "off"
    \/ call.pc \in {"summary", "ended"} /\ call.aborted /\ call.retain
    \/ call.pc \in {"persist", "judge"} /\ call.broken /\ call.retainNow

(* A condemned candidate is blacklisted, or the one access that may fail   *)
(* was its blacklisting, and then the flag is never taken down.            *)
CallMemory ==
    /\ \A v \in seen.condemned : Blacklisted(v) \/ (flag = v /\ faults = MaxFaults /\ Retaining)
    /\ call.pc \in Engaged /\ Condemning(call.reports) =>
           \/ Blacklisted(Candidate)
           \/ /\ flag = Candidate /\ faults = MaxFaults
              /\ motor.pc = "idle" /\ call.clean = FALSE /\ call.retainNow = TRUE
    /\ call.pc = "ended" /\ call.rejected => ~ call.aborted

MemoryInv == GuardInv /\ MotorMemory /\ CallTypes /\ SameCandidate /\ CallMemory

LEMMA PieceType ==
    ASSUME NEW T, NEW s \in Seq(T), NEW S
    PROVE  Piece(s, S) \in Seq(T)
<1> DEFINE mine == {n \in DOMAIN s : s[n] \in S}
<1>1. CASE mine = {}
  BY <1>1 DEF Piece
<1>2. CASE mine # {}
  <2>1. mine \in SUBSET (0 .. Len(s)) /\ mine \in SUBSET Nat /\ Len(s) \in Nat
        /\ mine \subseteq 1 .. Len(s)
    OBVIOUS
  <2>2. Min(mine) \in mine /\ Max(mine) \in mine
    BY <1>2, <2>1, MinMember, MaxMember
  <2>3. \A m, n \in 1 .. Len(s) : m <= n => SubSeq(s, m, n) \in Seq(T)
    OBVIOUS
  <2>4. Min(mine) <= Max(mine)
    BY <1>2, <2>1, <2>2, MinMember
  <2>5. SubSeq(s, Min(mine), Max(mine)) \in Seq(T)
    <3> HIDE DEF mine
    <3> QED
      BY <2>1, <2>2, <2>3, <2>4
  <2> QED
    BY <1>2, <2>5 DEF Piece
<1> QED
  BY <1>1, <1>2

LEMMA NewCallTypes ==
    ASSUME NEW run, NEW resume, NEW start, call' = NewCall(run, resume, start)
    PROVE  /\ call'.cands \in Seq(Bins) /\ call'.i = 1 /\ call'.jumped = 0 /\ call'.bracket = <<>>
           /\ call'.reports = <<>> /\ call'.rejected = FALSE
<1>1. Piece(Plan, {v \in Bins : start = None \/ v <= start}) \in Seq(Bins)
  BY PieceType, PlanDescends
<1>2. \A good, bad, bound : \A planned \in Seq(Bins) : ResumeCandidates(planned, good, bad, bound) \in Seq(Bins)
  BY PieceType DEF ResumeCandidates
<1>3. PICK cands \in Seq(Bins) : call'.cands = cands
  BY <1>1, <1>2, CallFields DEF NewCall, AbortWith
<1>4. /\ call'.i = 1 /\ call'.jumped = 0 /\ call'.bracket = <<>>
      /\ call'.reports = <<>> /\ call'.rejected = FALSE
  BY DEF NewCall, AbortWith, IdleCall
<1> QED
  BY <1>3, <1>4

(* A jump goes down by one bin or by a few.                                *)
LEMMA NextIndexType ==
    ASSUME NEW anchors, NEW i \in Nat \ {0}, NEW target, NEW p5
    PROVE  NextIndex(anchors, i, target, p5) \in Nat \ {0}
<1> DEFINE deficit == IF p5 = None \/ p5 >= target THEN 0 ELSE target - p5
           stride  == IF deficit >= 90 THEN 4 ELSE IF deficit >= 45 THEN 2 ELSE 1
           legal   == {n \in DOMAIN anchors \cap ((i + 1) .. (i + stride)) : anchors[i] - anchors[n] <= 25}
<1>1. stride \in {1, 2, 4}
  OBVIOUS
<1> HIDE DEF stride
<1>2. CASE legal = {}
  BY <1>2 DEF NextIndex, stride
<1>3. CASE legal # {}
  <2>1. legal \in SUBSET (0 .. (i + 4)) /\ i + 4 \in Nat
    BY <1>1
  <2>2. Max(legal) \in legal
    BY <1>3, <2>1, MaxMember
  <2>3. Max(legal) \in Nat \ {0}
    BY <1>1, <2>2
  <2> QED
    BY <1>3, <2>3 DEF NextIndex, stride
<1> QED
  BY <1>2, <1>3

LEMMA CondemningConcat ==
    ASSUME NEW a \in Seq(ReportType), NEW b \in Seq(ReportType)
    PROVE  /\ a \o b \in Seq(ReportType)
           /\ Condemning(a \o b) => Condemning(a) \/ Condemning(b)
<1>1. \A n \in DOMAIN (a \o b) :
         \/ n \in DOMAIN a /\ (a \o b)[n] = a[n]
         \/ n - Len(a) \in DOMAIN b /\ (a \o b)[n] = b[n - Len(a)]
  OBVIOUS
<1> QED
  BY <1>1 DEF Condemning

LEMMA MidpointType ==
    ASSUME NEW safe \in Nat \ {0}, NEW failed \in Nat, failed - safe > 1
    PROVE  Midpoint(safe, failed) \in Nat \ {0}
  BY DEF Midpoint

(* Wherever judge sends the call, its indexes stay indexes.                *)
LEMMA JudgeTypes ==
    ASSUME DOMAIN call = DOMAIN IdleCall, CallTypes, Judge
    PROVE  CallTypes'
<1>1. UNCHANGED seen
  BY JudgeMoves
<1>2. /\ DOMAIN Learned = DOMAIN IdleCall /\ Learned.cands = call.cands /\ Learned.i = call.i
      /\ Learned.reports = call.reports /\ Learned.bracket = call.bracket
      /\ Learned.jumped \in {call.jumped, 0}
  BY CallFields DEF Learned
<1> DEFINE Kept == call'.cands = call.cands /\ call'.reports = call.reports
           Placed == /\ call'.i \in Nat \ {0} /\ call'.jumped \in Nat
                     /\ call'.bracket = <<>> \/ call'.bracket \in (Nat \ {0}) \X Nat
<1> USE CallFields DEF Settled, Transition, StopAt, AbortWith
<1>3. CASE JudgeAborted
  <2>1. Kept /\ Placed
    BY <1>3 DEF JudgeAborted, CallTypes
  <2> QED
    BY <1>1, <2>1 DEF CallTypes
<1>4. CASE RecoverUpwards
  <2>1. SafeIndex \in Nat \ {0} /\ call.i - SafeIndex > 1
    BY <1>4 DEF RecoverUpwards, SafeIndex, CallTypes
  <2>2. /\ call'.i = Midpoint(SafeIndex, call.i) /\ call'.jumped = 0
        /\ call'.bracket = <<SafeIndex, call.i>> /\ Kept
    BY <1>2, <1>4 DEF RecoverUpwards, Bisect
  <2>3. Kept /\ Placed
    BY <2>1, <2>2, MidpointType DEF CallTypes
  <2> QED
    BY <1>1, <2>3 DEF CallTypes
<1>5. CASE BoundaryReached \/ QualificationStops
  <2> HIDE DEF StopAt
  <2>1. \E completed, reason : call' = StopAt(Learned, completed, reason)
    BY <1>5 DEF BoundaryReached, QualificationStops
  <2>2. Kept /\ Placed
    BY <1>2, <2>1 DEF CallTypes, StopAt
  <2> QED
    BY <1>1, <2>2 DEF CallTypes
<1>6. \A c : /\ DOMAIN c = DOMAIN IdleCall /\ c.cands = call.cands /\ c.reports = call.reports
             /\ c.bracket = <<>> \/ c.bracket \in (Nat \ {0}) \X Nat
             /\ call' = Descend(c)
             => Kept /\ Placed
  <2> SUFFICES ASSUME NEW c, DOMAIN c = DOMAIN IdleCall, c.cands = call.cands, c.reports = call.reports,
                      c.bracket = <<>> \/ c.bracket \in (Nat \ {0}) \X Nat,
                      call' = Descend(c)
               PROVE  Kept /\ Placed
    OBVIOUS
  <2> DEFINE nxt == IF c.local \/ ~ NearCap THEN call.i + 1
                    ELSE NextIndex(call.cands, call.i, Target, call.found.p5)
  <2>1. nxt \in Nat \ {0}
    BY NextIndexType DEF CallTypes
  <2>2. call' = [c EXCEPT !.pc = "next", !.i = nxt, !.jumped = IF nxt > call.i + 1 THEN call.i ELSE 0,
                          !.completed = @ \/ nxt = Len(call.cands) + 1]
    BY Zenon DEF Descend
  <2> QED
    <3> HIDE DEF nxt
    <3> QED
      BY <2>1, <2>2 DEF CallTypes
<1>7. CASE Qualified
  <2> DEFINE c == [GoLocal(Learned) EXCEPT !.qualified = call.i, !.completed = TRUE, !.reason = "Qualified"]
  <2>1. /\ DOMAIN c = DOMAIN IdleCall /\ c.cands = call.cands /\ c.reports = call.reports
        /\ c.bracket = <<>>
    BY <1>2 DEF GoLocal
  <2>2. call' = Descend(c)
    BY <1>7 DEF Qualified
  <2>3. Kept /\ Placed
    BY <1>6, <2>1, <2>2
  <2> QED
    BY <1>1, <2>3 DEF CallTypes
<1>8. CASE NearCapDescends
  <2>1. Kept /\ Placed
    BY <1>2, <1>6, <1>8 DEF NearCapDescends, CallTypes
  <2> QED
    BY <1>1, <2>1 DEF CallTypes
<1>9. CASE NarrowBracket
  <2>1. call.bracket \in (Nat \ {0}) \X Nat /\ call.bracket[2] \in Nat
    BY <1>9 DEF NarrowBracket, CallTypes
  <2>2. Midpoint(call.i, call.bracket[2]) # None => Midpoint(call.i, call.bracket[2]) \in Nat \ {0}
    BY <2>1, MidpointType DEF Midpoint, CallTypes
  <2>3. Kept /\ Placed
    BY <1>2, <1>9, <2>1, <2>2 DEF NarrowBracket, Bisect, CallTypes
  <2> QED
    BY <1>1, <2>3 DEF CallTypes
<1> QED
  BY <1>3, <1>4, <1>5, <1>7, <1>8, <1>9 DEF Judge

-----------------------------------------------------------------------------
(* Every step keeps that memory.                                           *)

(* While the motor has a candidate, whatever was condemned is refused.     *)
LEMMA EngagedRefuses ==
    ASSUME MemoryInv, call.pc \in Engaged \cup {"next"}
    PROVE  \A v \in seen.condemned : Blacklisted(v)
  BY DEF MemoryInv, CallMemory, Retaining, Engaged

(* The call moves on and nothing else does: the flag may have to be kept.  *)
LEMMA CallMoves ==
    ASSUME MemoryInv, UNCHANGED <<flag, hw, blacklist, motor, faults>>,
           seen'.condemned = seen.condemned, Retaining => Retaining',
           call'.pc \notin Engaged,
           call'.pc = "ended" /\ call'.rejected => ~ call'.aborted
    PROVE  CallMemory'
  BY DEF MemoryInv, CallMemory, Blacklisted

LEMMA NextCandidateMemory ==
    ASSUME MemoryInv, NextCandidate
    PROVE  MotorMemory' /\ CallTypes' /\ SameCandidate' /\ CallMemory'
<1> USE DEF MemoryInv
<1>1. DOMAIN call = DOMAIN IdleCall /\ motor.pc = "idle" /\ call.pc = "next"
  BY DEF GuardInv, SyncOK, NextCandidate, Engaged
<1>2. /\ \A completed, reason : /\ StopAt(call, completed, reason) # call
                                /\ AbortWith(call, reason) # call
  BY <1>1, CallFields DEF StopAt, AbortWith
<1>3. CASE UNCHANGED motor /\ \E completed, reason : call' \in {StopAt(call, completed, reason), AbortWith(call, reason)}
  <2>1. PICK completed, reason : call' \in {StopAt(call, completed, reason), AbortWith(call, reason)}
    BY <1>3
  <2>2. /\ call'.pc = "summary" /\ call'.cands = call.cands /\ call'.i = call.i
        /\ call'.jumped = call.jumped /\ call'.bracket = call.bracket /\ call'.reports = call.reports
    BY <1>1, <2>1, CallFields DEF StopAt, AbortWith
  <2>3. UNCHANGED <<flag, hw, blacklist, motor, faults, seen>>
    BY <1>3 DEF NextCandidate
  <2>4. MotorMemory'
    BY <2>3, StillMemory DEF mvars
  <2>5. CallMemory'
    BY <1>1, <2>2, <2>3, CallMoves DEF Retaining, Engaged
  <2> QED
    BY <1>1, <2>2, <2>3, <2>4, <2>5 DEF CallTypes, SameCandidate, Engaged
<1>4. CASE call' = FreshCandidate(call) /\ Begin("transaction", Candidate) /\ Candidate \in Bins
  <2>1. /\ call'.pc = "dwell" /\ call'.cands = call.cands /\ call'.i = call.i
        /\ call'.jumped = call.jumped /\ call'.bracket = call.bracket /\ call'.reports = <<>>
    BY <1>1, <1>4, CallFields DEF FreshCandidate
  <2>2. UNCHANGED <<flag, blacklist, faults, seen>> /\ Candidate \in Int
    BY <1>4, PlanDescends DEF NextCandidate
  <2>3. MotorMemory'
    BY <1>4, <2>2, BeginMemory
  <2>4. motor'.mv = Candidate /\ motor'.mode = "transaction"
    BY <1>4 DEF Begin, IdleMotor
  <2>5. SameCandidate'
    BY <1>4, <2>1, <2>4 DEF SameCandidate, Candidate
  <2>6. CallTypes'
    BY <2>1, <2>2 DEF CallTypes
  <2>7. ~ Condemning(call.reports)'
    BY <2>1 DEF Condemning
  <2>8. \A v \in seen'.condemned : Blacklisted(v)'
    BY <1>1, <2>2, EngagedRefuses DEF Blacklisted
  <2>9. CallMemory'
    BY <2>1, <2>7, <2>8 DEF CallMemory
  <2> QED
    BY <2>3, <2>5, <2>6, <2>9
<1>5. \/ UNCHANGED motor /\ \E completed, reason : call' \in {StopAt(call, completed, reason), AbortWith(call, reason)}
      \/ /\ call' = FreshCandidate(call) /\ Begin("transaction", Candidate)
         /\ ~ (call.i > Len(call.cands))
  BY <1>2 DEF NextCandidate
<1>6. ~ (call.i > Len(call.cands)) => Candidate \in Bins
  BY DEF CallTypes, Candidate
<1> QED
  BY <1>3, <1>4, <1>5, <1>6

LEMMA MotorRunsMemory ==
    ASSUME MaxFaults <= 1, MemoryInv, MotorRuns
    PROVE  MotorMemory' /\ CallTypes' /\ SameCandidate' /\ CallMemory'
<1> USE DEF MemoryInv
<1>1. MotorMemory'
  BY MotorStepMemory DEF GuardInv, MotorRuns
<1>2. motor.pc \notin {"active", "done", "idle"} /\ call.pc \in Engaged
  BY DEF MotorRuns, MotorStep, ArmBootFlag, ApplyPositiveOffset, VerifyOffset, ResetToStock,
         BlacklistPoint, RetainBootFlag, ClearBootFlag, UnderWay, GuardInv, SyncOK
<1>3. motor'.mv = motor.mv /\ motor'.mode = motor.mode /\ motor'.pc # "idle"
  BY DEF MotorRuns, MotorStep, ArmBootFlag, ApplyPositiveOffset, VerifyOffset, ResetToStock,
         BlacklistPoint, RetainBootFlag, ClearBootFlag, Dirty, GuardInv, MotorGuarded, MotorShape
<1>4. UNCHANGED <<call, seen>> /\ blacklist \subseteq blacklist'
  BY MotorStepGrows DEF MotorRuns
<1>5. SameCandidate' /\ CallTypes'
  BY <1>2, <1>3, <1>4 DEF SameCandidate, CallTypes, Candidate
<1>6. \A v : Blacklisted(v) => Blacklisted(v)'
  BY <1>4 DEF Blacklisted
<1>7. \A v \in seen'.condemned : Blacklisted(v)'
  BY <1>2, <1>4, <1>6, EngagedRefuses
<1>8. Condemning(call.reports)' => Blacklisted(Candidate)'
  <2>1. Condemning(call.reports) => Blacklisted(Candidate)
    BY <1>2 DEF CallMemory
  <2>2. Condemning(call.reports)' <=> Condemning(call.reports)
    BY <1>4 DEF Condemning
  <2>3. Blacklisted(Candidate) => Blacklisted(Candidate)'
    BY <1>4 DEF Blacklisted, Candidate
  <2> QED
    BY <2>1, <2>2, <2>3
<1>9. CallMemory'
  BY <1>2, <1>4, <1>7, <1>8 DEF CallMemory, Engaged
<1> QED
  BY <1>1, <1>5, <1>9

(* A dwell adds a report and the motor stays with its candidate.           *)
LEMMA LoadMemory ==
    ASSUME MemoryInv, motor.pc = "active", NEW r \in ReportType,
           \/ motor' = RunPhase(r) \/ motor' = Finish(RunPhase(r)) \/ motor' = Finish(motor),
           call'.pc \in Engaged, call'.pc = "analyse" => motor' = RunPhase(r),
           call'.reports = call.reports, call'.cands = call.cands,
           call'.i = call.i, call'.jumped = call.jumped, call'.bracket = call.bracket,
           DOMAIN seen' = DOMAIN seen, seen'.condemned = seen.condemned,
           UNCHANGED <<flag, hw, blacklist, faults>>
    PROVE  MotorMemory' /\ CallTypes' /\ SameCandidate' /\ CallMemory'
<1> USE DEF MemoryInv
<1>1. /\ motor'.mv = motor.mv /\ motor'.mode = motor.mode /\ motor'.saved = motor.saved
      /\ motor'.pc \in {"active", "reset"} /\ (call'.pc = "analyse" => motor'.pc = "active")
      /\ motor'.reports \in {Append(motor.reports, r), motor.reports}
  BY DEF RunPhase, Finish, GuardInv, MotorGuarded, MotorShape
<1>2. motor'.reports \in Seq(ReportType)
  <2>1. motor.reports \in Seq(ReportType)
    BY DEF MotorMemory, MotorTypes
  <2>2. Append(motor.reports, r) \in Seq(ReportType)
    BY <2>1
  <2> QED
    BY <1>1, <2>1, <2>2, Zenon
<1>3. MotorMemory'
  BY <1>1, <1>2, ReportsMemory
<1>4. call.pc \in Engaged
  BY DEF GuardInv, SyncOK
<1>5. SameCandidate' /\ CallTypes'
  BY <1>1, <1>4 DEF SameCandidate, CallTypes, Candidate, Engaged
<1>6. \A v \in seen'.condemned : Blacklisted(v)'
  BY <1>4, EngagedRefuses DEF Blacklisted
<1>7. Condemning(call.reports)' => Blacklisted(Candidate)'
  <2>1. Condemning(call.reports) => Blacklisted(Candidate)
    BY <1>4 DEF CallMemory
  <2>2. Condemning(call.reports)' <=> Condemning(call.reports)
    BY DEF Condemning
  <2>3. Blacklisted(Candidate) => Blacklisted(Candidate)'
    BY DEF Blacklisted, Candidate
  <2> QED
    BY <2>1, <2>2, <2>3
<1>8. CallMemory'
  BY <1>6, <1>7 DEF CallMemory, Engaged
<1> QED
  BY <1>3, <1>5, <1>8

LEMMA DiscoveryDwellMemory ==
    ASSUME MemoryInv, DiscoveryDwell
    PROVE  MotorMemory' /\ CallTypes' /\ SameCandidate' /\ CallMemory'
<1>0. PICK d \in Dwells : \E again :
         LET r == [Report("Discovery", d.outcome) EXCEPT !.p99 = d.p99, !.p5 = d.p5]
         IN /\ motor' = IF again THEN Finish(RunPhase(r)) ELSE RunPhase(r)
            /\ call' = [call EXCEPT !.pc = IF again THEN "recheck" ELSE "analyse",
                                    !.rechecked = @ \/ again]
            /\ seen' = [seen EXCEPT !.lost = @ \/ d.outcome = "DeviceLost"]
  BY Zenon DEF DiscoveryDwell
<1>1. PICK again :
         LET r == [Report("Discovery", d.outcome) EXCEPT !.p99 = d.p99, !.p5 = d.p5]
         IN /\ motor' = IF again THEN Finish(RunPhase(r)) ELSE RunPhase(r)
            /\ call' = [call EXCEPT !.pc = IF again THEN "recheck" ELSE "analyse",
                                    !.rechecked = @ \/ again]
            /\ seen' = [seen EXCEPT !.lost = @ \/ d.outcome = "DeviceLost"]
  BY <1>0, Zenon
<1> DEFINE r == [Report("Discovery", d.outcome) EXCEPT !.p99 = d.p99, !.p5 = d.p5]
<1>2. Report("Discovery", d.outcome) \in ReportType /\ d.p99 \in Int /\ d.p5 \in Int
  BY ReportTypes, DwellsAssumption DEF EvidenceKinds, Outcomes
<1>3. r \in ReportType
  BY <1>2 DEF ReportType
<1>4. /\ call'.pc \in Engaged /\ (call'.pc = "analyse" => motor' = RunPhase(r))
      /\ call'.reports = call.reports /\ call'.cands = call.cands
      /\ call'.i = call.i /\ call'.jumped = call.jumped /\ call'.bracket = call.bracket
  BY <1>1, CallFields DEF MemoryInv, GuardInv, SyncOK, Engaged
<1>5. DOMAIN seen' = DOMAIN seen /\ seen'.condemned = seen.condemned
  BY <1>1
<1>6. motor' = RunPhase(r) \/ motor' = Finish(RunPhase(r))
  BY <1>1
<1> HIDE DEF r
<1> QED
  BY <1>3, <1>4, <1>5, <1>6, LoadMemory DEF DiscoveryDwell

LEMMA QualificationMemory ==
    ASSUME MemoryInv, QualificationCancelled \/ QualificationDwell
    PROVE  MotorMemory' /\ CallTypes' /\ SameCandidate' /\ CallMemory'
<1>1. motor.pc = "active" /\ DOMAIN call = DOMAIN IdleCall
  BY DEF MemoryInv, GuardInv, SyncOK, QualificationCancelled, QualificationDwell
<1>2. CASE QualificationCancelled
  <2>1. /\ call'.pc = "cleanup" /\ call'.pc \in Engaged
        /\ call'.reports = call.reports /\ call'.cands = call.cands
        /\ call'.i = call.i /\ call'.jumped = call.jumped /\ call'.bracket = call.bracket
        /\ motor' = Finish(motor) /\ UNCHANGED <<flag, hw, blacklist, faults, seen>>
    BY <1>1, <1>2, CallFields DEF QualificationCancelled, Engaged
  <2>2. \E r : r \in ReportType
    BY ReportTypes DEF EvidenceKinds, Outcomes, HardFailures
  <2> QED
    BY <1>1, <2>1, <2>2, LoadMemory
<1>3. CASE QualificationDwell
  <2>1. PICK q \in Quals : \E outcome \in DwellOutcomes :
           LET r == [Report("Qualification", outcome) EXCEPT !.p5 = q.p5, !.retryable = q.retryable]
           IN motor' = RunPhase(r) \/ motor' = Finish(RunPhase(r))
    BY <1>3, DwellsAssumption DEF QualificationDwell, Judged, DwellOutcomes
  <2>2. PICK outcome \in DwellOutcomes :
           LET r == [Report("Qualification", outcome) EXCEPT !.p5 = q.p5, !.retryable = q.retryable]
           IN motor' = RunPhase(r) \/ motor' = Finish(RunPhase(r))
    BY <2>1
  <2> DEFINE r == [Report("Qualification", outcome) EXCEPT !.p5 = q.p5, !.retryable = q.retryable]
  <2>3. Report("Qualification", outcome) \in ReportType /\ q.p5 \in Int /\ q.retryable \in BOOLEAN
    BY ReportTypes, DwellsAssumption DEF EvidenceKinds, Outcomes
  <2>4. r \in ReportType
    BY <2>3 DEF ReportType
  <2>5. /\ call'.pc \in {"qualify", "cleanup"} /\ call'.pc \in Engaged
        /\ call'.reports = call.reports /\ call'.cands = call.cands
        /\ call'.i = call.i /\ call'.jumped = call.jumped /\ call'.bracket = call.bracket
        /\ DOMAIN seen' = DOMAIN seen /\ seen'.condemned = seen.condemned
    <3>1. call.pc = "qualify"
      BY <1>3 DEF QualificationDwell
    <3>2. /\ call'.reports = call.reports /\ call'.cands = call.cands
          /\ call'.i = call.i /\ call'.jumped = call.jumped /\ call'.bracket = call.bracket
      <4>1. PICK p \in Quals :
               LET again == Judged(p) = "Inconclusive" /\ p.retryable /\ call.retries < RetryBudget
               IN call' = [call EXCEPT
                              !.pc      = IF again THEN @ ELSE "cleanup",
                              !.verdict = IF again THEN @ ELSE Verdict(Judged(p)),
                              !.retries = IF again THEN @ + 1 ELSE @,
                              !.history = IF Judged(p) = "Validated" THEN Append(@, p.p5) ELSE @]
        BY <1>3 DEF QualificationDwell
      <4>2. \E pc, verdict, retries, history :
               call' = [call EXCEPT !.pc = pc, !.verdict = verdict, !.retries = retries, !.history = history]
        BY <4>1
      <4> QED
        BY <1>1, <4>2, CallFields
    <3>3. call'.pc \in {"qualify", "cleanup"} /\ call'.pc \in Engaged
      BY <1>1, <1>3, <3>1, CallFields DEF QualificationDwell, Engaged
    <3>4. DOMAIN seen' = DOMAIN seen
      BY <1>3 DEF QualificationDwell
    <3>5. seen'.condemned = seen.condemned
      BY <1>3 DEF QualificationDwell, MemoryInv, CallTypes, NothingSeen
    <3> QED
      BY <3>2, <3>3, <3>4, <3>5
  <2>7. motor' = RunPhase(r) \/ motor' = Finish(RunPhase(r))
    BY <2>2
  <2> HIDE DEF r
  <2> QED
    BY <1>1, <1>3, <2>4, <2>5, <2>7, LoadMemory DEF QualificationDwell
<1> QED
  BY <1>2, <1>3

LEMMA StartFailedMemory ==
    ASSUME MemoryInv, TransactionStartFailed
    PROVE  MotorMemory' /\ CallTypes' /\ SameCandidate' /\ CallMemory'
<1> USE DEF MemoryInv
<1>1. /\ call'.pc = "analyse" /\ call'.reports = call.reports /\ call'.cands = call.cands
      /\ call'.i = call.i /\ call'.jumped = call.jumped /\ call'.bracket = call.bracket
  BY CallFields DEF GuardInv, SyncOK, TransactionStartFailed
<1>2. UNCHANGED <<flag, hw, blacklist, motor, faults, seen>> /\ call.pc = "dwell" /\ motor.pc = "done"
  BY DEF TransactionStartFailed, mvars
<1>3. MotorMemory'
  BY <1>2, StillMemory DEF mvars
<1>4. SameCandidate' /\ CallTypes'
  BY <1>1, <1>2 DEF SameCandidate, CallTypes, Candidate, Engaged
<1>5. \A v \in seen'.condemned : Blacklisted(v)'
  BY <1>2, EngagedRefuses DEF Blacklisted, Engaged
<1>6. Condemning(call.reports)' => Blacklisted(Candidate)'
  BY <1>1, <1>2 DEF CallMemory, Blacklisted, Candidate, Engaged, Condemning
<1>7. CallMemory'
  BY <1>1, <1>5, <1>6 DEF CallMemory
<1> QED
  BY <1>3, <1>4, <1>7

(* After a cleanup the reports of the candidate are all there.             *)
LEMMA Collected ==
    ASSUME MemoryInv, motor.pc = "done"
    PROVE  /\ AllReports \in Seq(ReportType)
           /\ Condemning(AllReports) =>
                 \/ Blacklisted(Candidate)
                 \/ /\ flag = Candidate /\ faults = MaxFaults
                    /\ motor.clean = FALSE /\ motor.retain = TRUE
<1> USE DEF MemoryInv
<1>1. call.reports \in Seq(ReportType) /\ motor.reports \in Seq(ReportType)
  BY DEF CallTypes, MotorMemory, MotorTypes
<1>2. AllReports \in Seq(ReportType) /\ (Condemning(AllReports) => Condemning(call.reports) \/ Condemns)
  BY <1>1, CondemningConcat, CondemnsIsCondemning DEF AllReports
<1>3. Condemning(call.reports) => Blacklisted(Candidate)
  BY DEF CallMemory, GuardInv, SyncOK
<1>4. motor.mv = Candidate /\ motor.mode = "transaction"
  BY DEF SameCandidate
<1>5. Condemns => \/ Blacklisted(Candidate)
                  \/ /\ flag = Candidate /\ faults = MaxFaults
                     /\ motor.clean = FALSE /\ motor.retain = TRUE
  BY <1>4 DEF MotorMemory, Retained
<1> QED
  BY <1>2, <1>3, <1>5

LEMMA RecheckMemory ==
    ASSUME MemoryInv, RecheckPower
    PROVE  MotorMemory' /\ CallTypes' /\ SameCandidate' /\ CallMemory'
<1> USE DEF MemoryInv
<1>1. \/ /\ Begin("transaction", Candidate) /\ motor.clean
         /\ call' = [CollectedMotor(call) EXCEPT !.pc = "dwell"]
      \/ /\ motor' = IdleMotor
         /\ \E broken : call' = [CollectedMotor(call) EXCEPT !.pc = "analyse", !.broken = broken]
  BY DEF RecheckPower
<1>2. /\ call.pc = "recheck" /\ motor.pc = "done"
      /\ UNCHANGED <<flag, hw, blacklist, faults, seen>>
      /\ \A v \in seen.condemned : Blacklisted(v)
  BY EngagedRefuses DEF RecheckPower, Engaged
<1>3. /\ call'.pc \in {"dwell", "analyse"} /\ call'.pc \in Engaged
      /\ call'.cands = call.cands /\ call'.i = call.i /\ call'.jumped = call.jumped
      /\ call'.bracket = call.bracket /\ call'.reports = AllReports
      /\ call'.clean = motor.clean /\ call'.retainNow = motor.retain
  BY <1>1, CallFields DEF GuardInv, SyncOK, CollectedMotor, Engaged
<1>4. Candidate' = Candidate /\ Candidate \in Bins /\ Candidate \in Int
  <2>1. Candidate' = Candidate
    BY <1>3 DEF Candidate
  <2>2. Candidate \in Bins
    BY <1>2 DEF SameCandidate, Engaged
  <2> QED
    BY <2>1, <2>2, PlanDescends
<1>5. MotorMemory'
  BY <1>1, <1>2, <1>4, BeginMemory, IdleMemory DEF MotorMemory, MotorTypes
<1>6. CallTypes'
  BY <1>2, <1>3, Collected DEF CallTypes
<1>7. SameCandidate'
  <2>1. call'.pc = "analyse" => motor' = IdleMotor
    BY <1>1, CallFields DEF GuardInv, SyncOK, CollectedMotor
  <2>2. motor' = IdleMotor \/ (motor'.mv = Candidate /\ motor'.mode = "transaction")
    BY <1>1 DEF Begin, IdleMotor
  <2>3. motor'.pc # "idle" => motor'.mv = Candidate' /\ motor'.mode = "transaction"
    BY <1>4, <2>2 DEF IdleMotor
  <2>4. call'.pc = "analyse" => motor'.pc = "idle"
    BY <2>1 DEF IdleMotor
  <2> QED
    BY <1>4, <2>3, <2>4 DEF SameCandidate
<1>8. Condemning(call.reports)' =>
         \/ Blacklisted(Candidate)'
         \/ /\ flag' = Candidate' /\ faults' = MaxFaults /\ motor'.pc = "idle"
            /\ call'.clean = FALSE /\ call'.retainNow = TRUE
  <2>1. Condemning(call.reports)' <=> Condemning(AllReports)
    BY <1>3 DEF Condemning
  <2>2. Blacklisted(Candidate)' <=> Blacklisted(Candidate)
    BY <1>2, <1>4 DEF Blacklisted
  <2>3. motor.clean = FALSE => motor' = IdleMotor
    BY <1>1
  <2>4. motor.clean = FALSE => motor'.pc = "idle"
    BY <2>3 DEF IdleMotor
  <2>5. Condemning(AllReports) =>
           \/ Blacklisted(Candidate)
           \/ /\ flag = Candidate /\ faults = MaxFaults
              /\ motor.clean = FALSE /\ motor.retain = TRUE
    BY <1>2, Collected
  <2> QED
    BY <1>2, <1>3, <1>4, <2>1, <2>2, <2>4, <2>5
<1>9. CallMemory'
  BY <1>2, <1>3, <1>8 DEF CallMemory, Blacklisted
<1> QED
  BY <1>5, <1>6, <1>7, <1>9

(* A sequence is known by its length and its elements.                     *)
LEMMA SeqByElements ==
    ASSUME NEW T, NEW n \in Nat, NEW f, f = [k \in 1 .. n |-> f[k]], \A k \in 1 .. n : f[k] \in T
    PROVE  f \in Seq(T) /\ Len(f) = n
  OBVIOUS

LEMMA ProvisionalType ==
    ASSUME NEW rs \in Seq(ReportType)
    PROVE  /\ Provisional(rs) \in Seq(ReportType) /\ Len(Provisional(rs)) = Len(rs)
           /\ \A n \in 1 .. Len(rs) : Provisional(rs)[n].outcome = rs[n].outcome
<1>1. \A n \in 1 .. Len(rs) :
         Provisional(rs)[n] \in ReportType /\ Provisional(rs)[n].outcome = rs[n].outcome
  <2>1. \A n \in 1 .. Len(rs) :
           rs[n] \in ReportType /\ Provisional(rs)[n] \in {rs[n], [rs[n] EXCEPT !.clean = TRUE]}
    BY DEF Provisional
  <2>2. \A r \in ReportType : /\ [r EXCEPT !.clean = TRUE] \in ReportType
                             /\ [r EXCEPT !.clean = TRUE].outcome = r.outcome
    BY DEF ReportType
  <2> QED
    BY <2>1, <2>2
<1>2. Provisional(rs) = [k \in 1 .. Len(rs) |-> Provisional(rs)[k]] /\ Len(rs) \in Nat
  BY DEF Provisional
<1> QED
  BY <1>1, <1>2, SeqByElements

(* Marking a dwell changes its verdict only to one that condemns nobody.   *)
LEMMA MarkedType ==
    ASSUME NEW all \in Seq(ReportType), NEW raw \in Seq(ReportType), Len(raw) = Len(all),
           \A n \in 1 .. Len(all) : raw[n].outcome = all[n].outcome,
           NEW rechecked, NEW near
    PROVE  LET m == Marked(all, ConfirmAttempts(raw, rechecked), near)
           IN /\ m \in Seq(ReportType) /\ Len(m) = Len(all)
              /\ \A n \in 1 .. Len(all) :
                    m[n].outcome \in CondemningOutcomes => m[n].outcome = all[n].outcome
<1> DEFINE tries == ConfirmAttempts(raw, rechecked)
           m == Marked(all, tries, near)
<1>1. \A n \in 1 .. Len(all) :
         /\ tries[n].confirmed \in BOOLEAN
         /\ tries[n].outcome \in {all[n].outcome, "Inconclusive"}
  <2> SUFFICES ASSUME NEW n \in 1 .. Len(all)
               PROVE  /\ tries[n].confirmed \in BOOLEAN
                      /\ tries[n].outcome \in {all[n].outcome, "Inconclusive"}
    OBVIOUS
  <2>1. /\ raw[n] \in ReportType /\ n \in DOMAIN raw /\ raw[n].outcome = all[n].outcome
        /\ "Inconclusive" \in Outcomes
    BY DEF Outcomes, DwellOutcomes
  <2>2. tries[n] \in {raw[n], [raw[n] EXCEPT !.confirmed = TRUE],
                     [raw[n] EXCEPT !.outcome = "Inconclusive", !.confirmed = FALSE]}
    BY <2>1 DEF ConfirmAttempts
  <2>3. /\ raw[n].confirmed \in BOOLEAN
        /\ [raw[n] EXCEPT !.confirmed = TRUE].outcome = raw[n].outcome
        /\ [raw[n] EXCEPT !.confirmed = TRUE].confirmed = TRUE
        /\ [raw[n] EXCEPT !.outcome = "Inconclusive", !.confirmed = FALSE].outcome = "Inconclusive"
        /\ [raw[n] EXCEPT !.outcome = "Inconclusive", !.confirmed = FALSE].confirmed = FALSE
    BY <2>1 DEF ReportType
  <2> HIDE DEF tries
  <2> QED
    BY <2>1, <2>2, <2>3, Zenon
<1> HIDE DEF tries
<1>2. \A n \in 1 .. Len(all) :
         /\ m[n] \in ReportType
         /\ m[n].outcome \in {all[n].outcome, "Inconclusive", "PowerBoundClockDrop"}
  <2> SUFFICES ASSUME NEW n \in 1 .. Len(all)
               PROVE  /\ m[n] \in ReportType
                      /\ m[n].outcome \in {all[n].outcome, "Inconclusive", "PowerBoundClockDrop"}
    OBVIOUS
  <2> DEFINE outcome == IF tries[n].confirmed THEN PowerBound(tries[n].outcome, near) ELSE tries[n].outcome
  <2>0. n \in DOMAIN all
    OBVIOUS
  <2>1. m[n] = [all[n] EXCEPT !.outcome = outcome, !.confirmed = tries[n].confirmed]
    BY <2>0, Zenon DEF Marked
  <2>2. outcome \in {all[n].outcome, "Inconclusive", "PowerBoundClockDrop"}
    BY <1>1 DEF PowerBound
  <2>3. all[n] \in ReportType
    OBVIOUS
  <2>4. outcome \in Outcomes /\ tries[n].confirmed \in BOOLEAN
    <3>1. all[n].outcome \in Outcomes
      BY <2>3 DEF ReportType
    <3>2. "Inconclusive" \in Outcomes /\ "PowerBoundClockDrop" \in Outcomes
      BY DEF Outcomes, DwellOutcomes
    <3> HIDE DEF outcome
    <3> QED
      BY <1>1, <2>2, <3>1, <3>2
  <2> HIDE DEF outcome, m
  <2>5. \A mark \in BOOLEAN :
           /\ [all[n] EXCEPT !.outcome = outcome, !.confirmed = mark] \in ReportType
           /\ [all[n] EXCEPT !.outcome = outcome, !.confirmed = mark].outcome = outcome
    BY <2>3, <2>4 DEF ReportType
  <2> QED
    BY <2>1, <2>2, <2>4, <2>5, Zenon
<1>3. m = [k \in 1 .. Len(all) |-> m[k]] /\ Len(all) \in Nat
  BY DEF Marked
<1> HIDE DEF m
<1>4. m \in Seq(ReportType) /\ Len(m) = Len(all)
  BY <1>2, <1>3, SeqByElements
<1>5. \A n \in 1 .. Len(all) : m[n].outcome \in CondemningOutcomes => m[n].outcome = all[n].outcome
  BY <1>2 DEF CondemningOutcomes
<1> QED
  BY <1>4, <1>5 DEF m, tries

(* The marked reports go back to where they came from.                     *)
LEMMA SplitMarked ==
    ASSUME NEW a \in Seq(ReportType), NEW b \in Seq(ReportType), NEW m \in Seq(ReportType),
           Len(m) = Len(a \o b),
           \A n \in 1 .. Len(m) : m[n].outcome \in CondemningOutcomes => m[n].outcome = (a \o b)[n].outcome
    PROVE  /\ SubSeq(m, 1, Len(a)) \in Seq(ReportType)
           /\ Condemning(SubSeq(m, 1, Len(a))) => Condemning(a)
           /\ SubSeq(m, Len(a) + 1, Len(m)) \in Seq(ReportType)
           /\ Condemning(SubSeq(m, Len(a) + 1, Len(m))) => Condemning(b)
           /\ (\E n \in DOMAIN SubSeq(m, Len(a) + 1, Len(m)) :
                  SubSeq(m, Len(a) + 1, Len(m))[n].outcome = "DeviceLost") =>
                 \E n \in DOMAIN b : b[n].outcome = "DeviceLost"
<1> DEFINE before == SubSeq(m, 1, Len(a))
           after == SubSeq(m, Len(a) + 1, Len(m))
<1>1. Len(m) = Len(a) + Len(b) /\ Len(a) \in Nat /\ Len(b) \in Nat
  OBVIOUS
<1>2. before \in Seq(ReportType) /\ Len(before) = Len(a) /\ \A n \in 1 .. Len(a) : before[n] = m[n]
  BY <1>1
<1>3. after \in Seq(ReportType) /\ Len(after) = Len(b) /\ \A n \in 1 .. Len(b) : after[n] = m[Len(a) + n]
  BY <1>1
<1> HIDE DEF before, after
<1>4. \A n \in 1 .. Len(a) : before[n].outcome \in CondemningOutcomes => before[n].outcome = a[n].outcome
  BY <1>1, <1>2
<1>5. \A n \in 1 .. Len(b) : after[n].outcome \in CondemningOutcomes => after[n].outcome = b[n].outcome
  <2>1. \A n \in 1 .. Len(b) : Len(a) + n \in 1 .. Len(m) /\ (a \o b)[Len(a) + n] = b[n]
    BY <1>1
  <2> QED
    BY <1>3, <2>1
<1>6. Condemning(before) => Condemning(a)
  BY <1>2, <1>4 DEF Condemning
<1>7. DOMAIN after = 1 .. Len(b) /\ DOMAIN b = 1 .. Len(b)
  BY <1>3
<1>8. Condemning(after) => Condemning(b)
  BY <1>5, <1>7, Zenon DEF Condemning
<1>9. (\E n \in DOMAIN after : after[n].outcome = "DeviceLost") =>
         \E n \in DOMAIN b : b[n].outcome = "DeviceLost"
  <2>1. \A n \in 1 .. Len(b) : after[n].outcome = "DeviceLost" => b[n].outcome = "DeviceLost"
    BY <1>5 DEF CondemningOutcomes
  <2> QED
    BY <1>7, <2>1, Zenon
<1> QED
  BY <1>2, <1>3, <1>6, <1>8, <1>9 DEF before, after

LEMMA AnalyseMemory ==
    ASSUME MemoryInv, Analyse
    PROVE  MotorMemory' /\ CallTypes' /\ SameCandidate' /\ CallMemory'
<1> USE DEF MemoryInv
<1>1. call.reports \in Seq(ReportType) /\ motor.reports \in Seq(ReportType)
  BY DEF CallTypes, MotorMemory, MotorTypes
<1>2. AllReports \in Seq(ReportType)
  BY <1>1 DEF AllReports
<1>0. PICK raw \in {Provisional(AllReports), AllReports} : \E rechecked, near, tested :
         LET m     == Marked(AllReports, ConfirmAttempts(raw, rechecked), near)
             after == [motor EXCEPT !.reports = SubSeq(m, Len(call.reports) + 1, Len(m))]
         IN /\ call'.reports = SubSeq(m, 1, Len(call.reports))
            /\ call'.pc \in {"qualify", "cleanup"}
            /\ motor' = IF motor.pc = "active" /\ ~ tested THEN Finish(after) ELSE after
  BY CallFields DEF GuardInv, SyncOK, Analyse
<1>3. PICK rechecked, near, tested :
         LET m     == Marked(AllReports, ConfirmAttempts(raw, rechecked), near)
             after == [motor EXCEPT !.reports = SubSeq(m, Len(call.reports) + 1, Len(m))]
         IN /\ call'.reports = SubSeq(m, 1, Len(call.reports))
            /\ call'.pc \in {"qualify", "cleanup"}
            /\ motor' = IF motor.pc = "active" /\ ~ tested THEN Finish(after) ELSE after
  BY <1>0
<1> DEFINE m == Marked(AllReports, ConfirmAttempts(raw, rechecked), near)
           before == SubSeq(m, 1, Len(call.reports))
           after == SubSeq(m, Len(call.reports) + 1, Len(m))
<1>4. /\ m \in Seq(ReportType) /\ Len(m) = Len(AllReports)
      /\ \A n \in 1 .. Len(AllReports) : m[n].outcome \in CondemningOutcomes => m[n].outcome = AllReports[n].outcome
  <2>1. /\ raw \in Seq(ReportType) /\ Len(raw) = Len(AllReports)
        /\ \A n \in 1 .. Len(AllReports) : raw[n].outcome = AllReports[n].outcome
    BY <1>2, ProvisionalType
  <2> QED
    BY <1>2, <2>1, MarkedType
<1>5. /\ before \in Seq(ReportType) /\ after \in Seq(ReportType)
      /\ Condemning(before) => Condemning(call.reports)
      /\ Condemning(after) => Condemns
      /\ (\E n \in DOMAIN after : after[n].outcome = "DeviceLost") => LostDevice
  <2>1. (\E n \in DOMAIN motor.reports : motor.reports[n].outcome = "DeviceLost") => LostDevice
    BY DEF LostDevice, Reports
  <2> HIDE DEF m
  <2> QED
    BY <1>1, <1>4, <2>1, SplitMarked, CondemnsIsCondemning DEF AllReports
<1>6. /\ call'.pc \in {"qualify", "cleanup"} /\ call'.reports = before
      /\ \/ motor' = [motor EXCEPT !.reports = after]
         \/ motor.pc = "active" /\ motor' = Finish([motor EXCEPT !.reports = after])
  BY <1>3
<1> HIDE DEF m, before, after
<1>7. /\ call'.cands = call.cands /\ call'.i = call.i
      /\ call'.jumped = call.jumped /\ call'.bracket = call.bracket
      /\ call'.clean = call.clean /\ call'.retainNow = call.retainNow
      /\ UNCHANGED <<flag, hw, blacklist, faults, seen>> /\ call.pc = "analyse"
  BY CallFields DEF GuardInv, SyncOK, Analyse
<1>8. Candidate' = Candidate /\ Candidate \in Bins
  BY <1>7 DEF Candidate, SameCandidate, Engaged
<1>9. /\ motor'.mv = motor.mv /\ motor'.mode = motor.mode /\ motor'.saved = motor.saved
      /\ motor'.reports = after
      /\ motor.pc = "active" => motor'.pc \in {"active", "reset"}
      /\ motor.pc # "active" => motor'.pc = motor.pc /\ motor' = [motor EXCEPT !.reports = after]
  BY <1>6 DEF Finish, GuardInv, MotorGuarded, MotorShape
<1>10. MotorMemory'
  <2>1. CASE motor.pc = "active"
    BY <1>5, <1>7, <1>9, <2>1, ReportsMemory
  <2>2. CASE motor.pc # "active"
    <3>1. motor.pc \in {"done", "idle"} /\ MotorShape
      BY <1>7, <2>2 DEF SameCandidate, GuardInv, MotorGuarded
    <3> QED
      BY <1>5, <1>7, <1>9, <2>2, <3>1, MarkMemory
  <2> QED
    BY <2>1, <2>2
<1>11. CallTypes'
  BY <1>5, <1>6, <1>7 DEF CallTypes
<1>12. SameCandidate'
  BY <1>6, <1>7, <1>8, <1>9 DEF SameCandidate
<1>13. Condemning(call.reports)' =>
          \/ Blacklisted(Candidate)'
          \/ /\ flag' = Candidate' /\ faults' = MaxFaults
             /\ motor'.pc = "idle" /\ call'.clean = FALSE /\ call'.retainNow = TRUE
  <2>1. Condemning(call.reports)' => Condemning(call.reports)
    BY <1>5, <1>6 DEF Condemning
  <2>2. Condemning(call.reports) =>
           \/ Blacklisted(Candidate)
           \/ /\ flag = Candidate /\ faults = MaxFaults
              /\ motor.pc = "idle" /\ call.clean = FALSE /\ call.retainNow = TRUE
    BY <1>7 DEF CallMemory, Engaged
  <2>3. motor.pc = "idle" => motor'.pc = "idle"
    BY <1>9
  <2>4. Blacklisted(Candidate) <=> Blacklisted(Candidate)'
    BY <1>7, <1>8 DEF Blacklisted
  <2> QED
    BY <1>7, <1>8, <2>1, <2>2, <2>3, <2>4
<1>14. \A v \in seen'.condemned : Blacklisted(v)'
  BY <1>7, EngagedRefuses DEF Blacklisted, Engaged
<1>15. CallMemory'
  BY <1>6, <1>13, <1>14 DEF CallMemory
<1> QED
  BY <1>10, <1>11, <1>12, <1>15

(* The candidate is condemned with what is known of it: refused, or with   *)
(* its flag to be kept.                                                    *)
LEMMA CleanupMemory ==
    ASSUME MemoryInv, CandidateCleanup
    PROVE  MotorMemory' /\ CallTypes' /\ SameCandidate' /\ CallMemory'
<1> USE DEF MemoryInv
<1> DEFINE c == IF motor.pc = "done" THEN CollectedMotor(call) ELSE call
<1>1. /\ call.pc = "cleanup" /\ motor.pc \in {"done", "idle"} /\ motor' = IdleMotor
      /\ UNCHANGED <<flag, hw, blacklist, faults>> /\ DOMAIN c = DOMAIN IdleCall
      /\ c.cands = call.cands /\ c.i = call.i /\ c.jumped = call.jumped /\ c.bracket = call.bracket
      /\ c.broken = call.broken
  BY CallFields DEF CandidateCleanup, CollectedMotor, GuardInv, SyncOK
<1>2. /\ c.reports \in Seq(ReportType)
      /\ Condemning(c.reports) =>
            \/ Blacklisted(Candidate)
            \/ flag = Candidate /\ faults = MaxFaults /\ c.clean = FALSE /\ c.retainNow = TRUE
  <2>1. CASE motor.pc = "done"
    <3>1. c.reports = AllReports /\ c.clean = motor.clean /\ c.retainNow = motor.retain
      BY <2>1, CallFields DEF CollectedMotor, GuardInv, SyncOK
    <3> QED
      BY <2>1, <3>1, Collected
  <2>2. CASE motor.pc = "idle"
    BY <1>1, <2>2 DEF CallMemory, CallTypes, Engaged
  <2> QED
    BY <1>1, <2>1, <2>2
<1>3. \E queue, found, verdict :
         call' = [c EXCEPT !.pc = "persist", !.queue = queue, !.broken = @ \/ ~ c.clean,
                           !.found.outcome = found, !.verdict = verdict]
  BY Zenon DEF CandidateCleanup
<1>4. seen' = [seen EXCEPT !.condemned = IF Condemning(c.reports) THEN @ \cup {Candidate} ELSE @]
  BY DEF CandidateCleanup, Condemning, CondemningOutcomes, Reports
<1> HIDE DEF c
<1>5. /\ call'.pc = "persist" /\ call'.cands = call.cands /\ call'.i = call.i
      /\ call'.jumped = call.jumped /\ call'.bracket = call.bracket /\ call'.reports = c.reports
      /\ call'.retainNow = c.retainNow /\ (c.clean = FALSE => call'.broken)
  <2>1. /\ call'.pc = "persist" /\ call'.cands = call.cands /\ call'.i = call.i
        /\ call'.jumped = call.jumped /\ call'.bracket = call.bracket /\ call'.reports = c.reports
        /\ call'.retainNow = c.retainNow /\ call'.broken = (c.broken \/ ~ c.clean)
    BY <1>1, <1>3, CallFields
  <2>2. c.clean = FALSE => (c.broken \/ ~ c.clean)
    OBVIOUS
  <2> QED
    BY <2>1, <2>2, Zenon
<1>6. Candidate' = Candidate /\ Candidate \in Bins
  BY <1>1, <1>5 DEF Candidate, SameCandidate, Engaged
<1>7. /\ DOMAIN seen' = DOMAIN seen
      /\ seen'.condemned = IF Condemning(c.reports) THEN seen.condemned \cup {Candidate} ELSE seen.condemned
  BY <1>4 DEF CallTypes, NothingSeen
<1>8. MotorMemory'
  BY <1>1, IdleMemory DEF MotorMemory, MotorTypes
<1>9. CallTypes'
  BY <1>2, <1>5, <1>6, <1>7 DEF CallTypes
<1>10. SameCandidate'
  BY <1>1, <1>5, <1>6 DEF SameCandidate, IdleMotor
<1>11. \A v \in seen'.condemned : Blacklisted(v)' \/ (flag' = v /\ faults' = MaxFaults /\ Retaining')
  <2>1. \A v \in seen.condemned : Blacklisted(v)'
    BY <1>1, EngagedRefuses DEF Blacklisted, Engaged
  <2>2. c.clean = FALSE /\ c.retainNow = TRUE => Retaining'
    BY <1>5 DEF Retaining
  <2>3. Condemning(c.reports) =>
           Blacklisted(Candidate)' \/ (flag' = Candidate /\ faults' = MaxFaults /\ Retaining')
    BY <1>1, <1>2, <1>6, <2>2 DEF Blacklisted
  <2> SUFFICES ASSUME NEW v \in seen'.condemned
               PROVE  Blacklisted(v)' \/ (flag' = v /\ faults' = MaxFaults /\ Retaining')
    OBVIOUS
  <2>4. CASE v \in seen.condemned
    BY <2>1, <2>4
  <2>5. CASE v = Candidate /\ Condemning(c.reports)
    <3>1. Blacklisted(v)' <=> \E bad \in blacklist' : v <= bad
      BY DEF Blacklisted
    <3>2. Blacklisted(Candidate)' <=> \E bad \in blacklist' : Candidate <= bad
      BY <1>6 DEF Blacklisted
    <3> QED
      BY <2>3, <2>5, <3>1, <3>2, Zenon
  <2> QED
    BY <1>7, <2>4, <2>5
<1>12. CallMemory'
  BY <1>5, <1>11 DEF CallMemory, Engaged
<1> QED
  BY <1>8, <1>9, <1>10, <1>12

(* The steps beside an idle motor that leave its candidate alone.          *)
LEMMA BesideMemory ==
    ASSUME MemoryInv, motor.pc = "idle", UNCHANGED <<flag, blacklist, motor>>,
           faults' \in 0 .. MaxFaults, CallTypes', call'.pc \notin Engaged,
           call'.pc \in {"persist", "judge"} =>
               call.pc \in {"persist", "judge"} /\ call'.cands = call.cands /\ call'.i = call.i
    PROVE  MotorMemory' /\ SameCandidate'
<1>1. MotorMemory'
  BY RestMemory DEF MemoryInv, MotorMemory, MotorTypes
<1>2. call'.pc \in {"persist", "judge"} => Candidate' = Candidate /\ Candidate \in Bins
  BY DEF MemoryInv, SameCandidate, Candidate
<1>3. SameCandidate'
  BY <1>2 DEF SameCandidate, Engaged
<1> QED
  BY <1>1, <1>3

LEMMA PersistMemory ==
    ASSUME MemoryInv, PersistReport
    PROVE  MotorMemory' /\ CallTypes' /\ SameCandidate' /\ CallMemory'
<1> USE DEF MemoryInv
<1>1. /\ call.pc = "persist" /\ motor.pc = "idle" /\ DOMAIN call = DOMAIN IdleCall
      /\ UNCHANGED <<flag, hw, blacklist, motor>>
  BY DEF GuardInv, SyncOK, PersistReport, Engaged
<1>2. /\ call'.cands = call.cands /\ call'.i = call.i /\ call'.jumped = call.jumped
      /\ call'.bracket = call.bracket /\ call'.reports = call.reports
      /\ call'.pc \in {"persist", "judge", "summary"}
  BY <1>1, CallFields DEF PersistReport, AbortWith
<1>3. DOMAIN seen' = DOMAIN seen /\ seen'.condemned = seen.condemned
  BY DEF PersistReport, CallTypes, NothingSeen
<1>4. CallTypes'
  BY <1>2, <1>3 DEF CallTypes
<1>5. faults' \in 0 .. MaxFaults
  BY FaultRange DEF PersistReport, MotorMemory, MotorTypes
<1>6. MotorMemory' /\ SameCandidate'
  BY <1>1, <1>2, <1>4, <1>5, BesideMemory DEF Engaged
<1>7. CASE NoFault /\ call'.pc \in {"persist", "judge"}
  <2>1. call'.broken = call.broken /\ call'.retainNow = call.retainNow
    BY <1>1, <1>7, CallFields DEF PersistReport, AbortWith
  <2>2. Retaining => Retaining'
    BY <1>1, <1>7, <2>1, Zenon DEF Retaining
  <2>3. CallMemory'
    BY <1>1, <1>2, <1>3, <1>7, <2>2, CallMoves DEF NoFault, Engaged
  <2> QED
    BY <1>4, <1>6, <2>3
<1>8. CASE Fault
  <2>1. faults # MaxFaults
    BY <1>8, MotorAssumption DEF Fault, MotorMemory, MotorTypes
  <2>2. \A v \in seen.condemned : Blacklisted(v)
    BY <2>1 DEF CallMemory
  <2>3. CallMemory'
    BY <1>1, <1>2, <1>3, <2>2 DEF CallMemory, Blacklisted, Engaged
  <2> QED
    BY <1>4, <1>6, <2>3
<1>9. NoFault => call'.pc \in {"persist", "judge"}
  <2>1. NoFault => ~ Fault
    BY MotorAssumption DEF Fault, NoFault, MotorMemory, MotorTypes
  <2> QED
    BY <1>1, <2>1, CallFields DEF PersistReport
<1> QED
  BY <1>7, <1>8, <1>9 DEF PersistReport

LEMMA JudgeMemory ==
    ASSUME MemoryInv, Judge
    PROVE  MotorMemory' /\ CallTypes' /\ SameCandidate' /\ CallMemory'
<1> USE DEF MemoryInv
<1>1. /\ call.pc = "judge" /\ UNCHANGED <<flag, hw, blacklist, motor, faults, seen>>
      /\ call'.pc \in {"next", "summary"} /\ DOMAIN call = DOMAIN IdleCall
  BY JudgeMoves DEF mvars, GuardInv, SyncOK
<1>2. motor.pc = "idle"
  BY <1>1 DEF GuardInv, SyncOK, Engaged
<1>3. CallTypes'
  BY <1>1, JudgeTypes
<1>4. MotorMemory' /\ SameCandidate'
  BY <1>1, <1>2, <1>3, BesideMemory DEF Engaged, MotorMemory, MotorTypes
<1>5. Retaining => Retaining'
  <2>1. Retaining => call.broken /\ call.retainNow
    BY <1>1 DEF Retaining
  <2>2. call.broken => JudgeAborted
    BY DEF Judge, RecoverUpwards, BoundaryReached, QualificationStops, Qualified, NearCapDescends,
           NarrowBracket, Unqualified, Settled
  <2>3. JudgeAborted => call'.pc = "summary" /\ call'.aborted = TRUE
                        /\ call'.retain = (call.retain \/ call.retainNow)
    BY <1>1, CallFields DEF JudgeAborted, Transition, AbortWith
  <2> QED
    BY <2>1, <2>2, <2>3, Zenon DEF Retaining
<1>6. CallMemory'
  BY <1>1, <1>5, CallMoves DEF Engaged
<1> QED
  BY <1>3, <1>4, <1>6

LEMMA SummarizeMemory ==
    ASSUME MemoryInv, Summarize
    PROVE  MotorMemory' /\ CallTypes' /\ SameCandidate' /\ CallMemory'
<1> USE DEF MemoryInv
<1>1. /\ call.pc = "summary" /\ UNCHANGED <<flag, hw, blacklist, motor, faults, seen>>
      /\ DOMAIN call = DOMAIN IdleCall
  BY DEF Summarize, Transition, mvars, GuardInv, SyncOK
<1>2. motor.pc = "idle"
  BY <1>1 DEF GuardInv, SyncOK, Engaged
<1>3. PICK sustainable, nextStart, rejected :
         /\ call' = [call EXCEPT !.pc = "ended", !.sustainable = sustainable, !.nextStart = nextStart,
                                 !.rejected = rejected]
         /\ rejected => ~ call.aborted
  <2> DEFINE rejection == /\ call.start # None
                          /\ call.refresh \/ call.priorGood = None
                          /\ QualifiedAnchors = {}
                          /\ call.executed \/ call.reason = "WarmStartNoPhysicalCandidates"
                          /\ ~ call.aborted
                          /\ call.reason \notin InconclusiveReasons
  <2>1. \E sustainable, nextStart :
           call' = [call EXCEPT !.pc = "ended", !.sustainable = sustainable, !.nextStart = nextStart,
                                !.rejected = rejection]
    BY Zenon DEF Summarize, Transition
  <2>2. rejection => ~ call.aborted
    OBVIOUS
  <2> QED
    BY <2>1, <2>2, Zenon
<1>4. /\ call'.pc = "ended" /\ call'.cands = call.cands /\ call'.i = call.i
      /\ call'.jumped = call.jumped /\ call'.bracket = call.bracket /\ call'.reports = call.reports
      /\ call'.aborted = call.aborted /\ call'.retain = call.retain /\ call'.rejected = rejected
  BY <1>1, <1>3, CallFields
<1>5. CallTypes'
  BY <1>1, <1>4 DEF CallTypes
<1>6. MotorMemory' /\ SameCandidate'
  BY <1>1, <1>2, <1>4, <1>5, BesideMemory DEF Engaged, MotorMemory, MotorTypes
<1>7. Retaining => Retaining'
  BY <1>1, <1>4, Zenon DEF Retaining
<1>8. call'.rejected => ~ call'.aborted
  BY <1>3, <1>4, Zenon
<1>9. CallMemory'
  BY <1>1, <1>4, <1>7, <1>8, CallMoves DEF Engaged
<1> QED
  BY <1>5, <1>6, <1>9

(* A retry is never made with a flag to be kept.                           *)
LEMMA RetryMemory ==
    ASSUME MemoryInv, FallBack \/ ClimbStart
    PROVE  MotorMemory' /\ CallTypes' /\ SameCandidate' /\ CallMemory'
<1> USE DEF MemoryInv
<1>1. /\ call.pc = "ended" /\ call.rejected /\ UNCHANGED <<flag, hw, blacklist, motor, faults, seen>>
  BY DEF FallBack, ClimbStart, CallEnded, FallsBack, Climbs, mvars
<1>2. motor.pc = "idle"
  BY <1>1 DEF GuardInv, SyncOK, Engaged
<1>3. PICK run, resume, start : call' = NewCall(run, resume, start)
  BY DEF FallBack, ClimbStart, Call
<1>4. /\ call'.cands \in Seq(Bins) /\ call'.i = 1 /\ call'.jumped = 0 /\ call'.bracket = <<>>
      /\ call'.reports = <<>> /\ call'.rejected = FALSE
      /\ call'.pc \in {"next", "ended", "summary"}
  BY <1>3, NewCallTypes, NewCallSync
<1>5. CallTypes'
  BY <1>1, <1>4 DEF CallTypes
<1>6. MotorMemory' /\ SameCandidate'
  BY <1>1, <1>2, <1>4, <1>5, BesideMemory DEF Engaged, MotorMemory, MotorTypes
<1>7. ~ Retaining
  BY <1>1 DEF CallMemory, Retaining
<1>8. CallMemory'
  BY <1>1, <1>4, <1>7, CallMoves DEF Engaged
<1> QED
  BY <1>5, <1>6, <1>8

LEMMA FinalResetMemory ==
    ASSUME MemoryInv, FinalReset
    PROVE  MotorMemory' /\ CallTypes' /\ SameCandidate' /\ CallMemory'
<1> USE DEF MemoryInv
<1>1. /\ call.pc = "ended" /\ motor.pc = "idle" /\ call' = IdleCall
      /\ UNCHANGED <<blacklist, motor, seen>>
  BY DEF FinalReset, CallEnded, GuardInv, SyncOK, Engaged
<1>2. /\ flag' \in {flag, None} /\ faults' \in 0 .. MaxFaults
      /\ faults = MaxFaults => faults' = MaxFaults /\ (call.retain => flag' = flag)
  BY FaultRange DEF FinalReset, MotorMemory, MotorTypes, Fault, NoFault
<1>3. /\ call'.pc = "off" /\ call'.cands = <<>> /\ call'.i = 1 /\ call'.jumped = 0 /\ call'.bracket = <<>>
      /\ call'.reports = <<>> /\ call'.rejected = FALSE
  BY <1>1 DEF IdleCall
<1>4. CallTypes'
  BY <1>1, <1>3 DEF CallTypes
<1>5. MotorMemory'
  BY <1>1, <1>2, RestMemory DEF MotorMemory, MotorTypes, None
<1>6. SameCandidate'
  BY <1>1, <1>3 DEF SameCandidate, Engaged
<1>7. Retaining' /\ (Retaining => call.retain)
  BY <1>1, <1>3 DEF Retaining
<1>8. \A v \in seen'.condemned : Blacklisted(v)' \/ (flag' = v /\ faults' = MaxFaults /\ Retaining')
  BY <1>1, <1>2, <1>7 DEF CallMemory, Blacklisted
<1>9. CallMemory'
  BY <1>3, <1>8 DEF CallMemory, Engaged
<1> QED
  BY <1>4, <1>5, <1>6, <1>9

LEMMA StartSessionMemory ==
    ASSUME MemoryInv, StartSession
    PROVE  MotorMemory' /\ CallTypes' /\ SameCandidate' /\ CallMemory'
<1> USE DEF MemoryInv
<1>1. /\ UNCHANGED <<flag, blacklist, motor, faults>> /\ flag = None
      /\ DOMAIN seen' = DOMAIN seen /\ seen'.condemned = seen.condemned
  BY DEF StartSession, CallTypes, NothingSeen
<1>2. motor.pc = "idle"
  BY DEF StartSession, GuardInv, SyncOK, Engaged
<1>3. PICK run, resume, start : call' = NewCall(run, resume, start)
  BY DEF StartSession, Call
<1>4. /\ call'.cands \in Seq(Bins) /\ call'.i = 1 /\ call'.jumped = 0 /\ call'.bracket = <<>>
      /\ call'.reports = <<>> /\ call'.rejected = FALSE
      /\ call'.pc \in {"next", "ended", "summary"}
  BY <1>3, NewCallTypes, NewCallSync
<1>5. CallTypes'
  BY <1>1, <1>4 DEF CallTypes
<1>6. MotorMemory' /\ SameCandidate'
  BY <1>1, <1>2, <1>4, <1>5, BesideMemory DEF Engaged, MotorMemory, MotorTypes
<1>7. \A v \in seen.condemned : Blacklisted(v)
  <2>1. \A v \in seen.condemned : v # flag
    BY <1>1, PlanDescends DEF CallTypes, None
  <2> QED
    BY <2>1 DEF CallMemory
<1>8. CallMemory'
  BY <1>1, <1>4, <1>7 DEF CallMemory, Blacklisted, Engaged
<1> QED
  BY <1>5, <1>6, <1>8

LEMMA StillCallMemory ==
    ASSUME MemoryInv, UNCHANGED <<flag, hw, blacklist, motor, faults, call, seen>>
    PROVE  MotorMemory' /\ CallTypes' /\ SameCandidate' /\ CallMemory'
<1>1. MotorMemory'
  BY StillMemory DEF MemoryInv, mvars
<1>2. Candidate' = Candidate /\ (Retaining <=> Retaining')
  BY DEF Candidate, Retaining
<1>3. CallTypes' /\ SameCandidate'
  BY <1>2 DEF MemoryInv, CallTypes, SameCandidate
<1>4. Condemning(call.reports)' <=> Condemning(call.reports)
  BY DEF Condemning
<1>5. \A v : Blacklisted(v)' <=> Blacklisted(v)
  BY DEF Blacklisted
<1>6. Blacklisted(Candidate)' <=> Blacklisted(Candidate)
  BY <1>2 DEF Blacklisted
<1>7. CallMemory'
  BY <1>2, <1>4, <1>5, <1>6 DEF MemoryInv, CallMemory
<1> QED
  BY <1>1, <1>3, <1>7

(* A crash turns the armed intent into a refusal; a panic leaves it.       *)
LEMMA InterruptionMemory ==
    ASSUME MemoryInv, WorkerPanics \/ MachineCrash
    PROVE  MotorMemory' /\ CallTypes' /\ SameCandidate' /\ CallMemory'
<1> USE DEF MemoryInv
<1>1. /\ motor' = IdleMotor /\ call' = IdleCall
      /\ DOMAIN seen' = DOMAIN seen /\ seen'.condemned = seen.condemned
      /\ flag' \in {flag, None} /\ faults' \in 0 .. MaxFaults
  BY FaultRange DEF WorkerPanics, PanicReset, MachineCrash, RebootAndRecover, CallTypes, NothingSeen,
     MotorMemory, MotorTypes
<1>2. /\ blacklist \subseteq blacklist' /\ blacklist' \subseteq Int
      /\ MachineCrash /\ flag # None => flag \in blacklist'
  BY DEF WorkerPanics, PanicReset, MachineCrash, RebootAndRecover, MotorMemory, MotorTypes
<1>3. /\ call'.pc = "off" /\ call'.cands = <<>> /\ call'.i = 1 /\ call'.jumped = 0 /\ call'.bracket = <<>>
      /\ call'.reports = <<>> /\ call'.rejected = FALSE
  BY <1>1 DEF IdleCall
<1>4. CallTypes'
  BY <1>1, <1>3 DEF CallTypes
<1>5. MotorMemory'
  <2>1. flag' \in Int
    BY <1>1 DEF MotorMemory, MotorTypes, None
  <2> QED
    BY <1>1, <1>2, <2>1, IdleMemory
<1>6. SameCandidate'
  BY <1>1, <1>3 DEF SameCandidate, Engaged, IdleMotor
<1>7. \A v \in seen.condemned : Blacklisted(v)'
  <2>1. \A v \in seen.condemned : Blacklisted(v) => Blacklisted(v)'
    BY <1>2, BlacklistGrows
  <2>2. CASE WorkerPanics
    <3>1. call.pc \in Engaged
      BY <2>2 DEF WorkerPanics, PanicReset, GuardInv, SyncOK
    <3> QED
      BY <2>1, <3>1, EngagedRefuses
  <2>3. CASE MachineCrash
    <3>1. \A v \in seen.condemned : flag = v => v \in Int /\ v # None /\ v \in blacklist'
      <4>1. seen.condemned \subseteq Nat
        BY PlanDescends DEF CallTypes
      <4>2. \A v \in seen.condemned : v \in Int /\ v # None
        BY <4>1 DEF None
      <4> QED
        BY <1>2, <2>3, <4>2
    <3>2. \A v \in seen.condemned : flag = v => Blacklisted(v)'
      BY <3>1 DEF Blacklisted
    <3> QED
      BY <2>1, <3>2 DEF CallMemory
  <2> QED
    BY <2>2, <2>3
<1>8. CallMemory'
  BY <1>1, <1>3, <1>7 DEF CallMemory, Engaged
<1> QED
  BY <1>4, <1>5, <1>6, <1>8

LEMMA MemoryNext ==
    ASSUME MaxFaults <= 1, MemoryInv, [Next]_vars
    PROVE  MemoryInv'
<1>1. GuardInv'
  BY GuardNext DEF MemoryInv
<1>2. CASE UNCHANGED vars
  BY <1>1, <1>2, StillCallMemory DEF MemoryInv, vars
<1>3. CASE Search
  BY <1>1, <1>3, NextCandidateMemory, MotorRunsMemory, DiscoveryDwellMemory, StartFailedMemory,
     RecheckMemory, AnalyseMemory, QualificationMemory, CleanupMemory, PersistMemory, JudgeMemory,
     SummarizeMemory, RetryMemory, FinalResetMemory DEF Search, MemoryInv
<1>4. CASE Environment
  <2>1. CASE StopPressed
    BY <1>1, <2>1, StillCallMemory DEF MemoryInv, StopPressed, mvars
  <2>2. CASE StartSession \/ WorkerPanics \/ MachineCrash
    BY <1>1, <2>2, StartSessionMemory, InterruptionMemory DEF MemoryInv
  <2> QED
    BY <1>4, <2>1, <2>2 DEF Environment
<1> QED
  BY <1>2, <1>3, <1>4 DEF Next

(* A candidate that failed hard is refused from then on, or the flag that  *)
(* will refuse it at the next start stays armed: whichever single access   *)
(* to the driver or the disk fails, wherever the worker panics and         *)
(* whenever the machine goes down (the blacklist and retain_boot_flag of   *)
(* finish_f2_transaction_reports and their way to the last restore).       *)
THEOREM FailureSurvivesOneFault ==
    ASSUME MaxFaults <= 1
    PROVE  Spec => []FailureIsRemembered
<1>1. Init => MemoryInv
  <2>1. Init => GuardInv
    BY MotorInitGuarded, CallFields DEF Init, GuardInv, SyncOK, MotorInit, IdleCall, IdleForge, IdleMotor
  <2>2. Init => CallTypes /\ SameCandidate /\ CallMemory
    BY DEF Init, CallTypes, SameCandidate, CallMemory, IdleCall, NothingSeen, Engaged, MotorInit, IdleMotor
  <2> QED
    BY <2>1, <2>2, MotorInitMemory DEF MemoryInv, Init
<1>2. MemoryInv /\ [Next]_vars => MemoryInv'
  BY MemoryNext
<1>3. MemoryInv => FailureIsRemembered
  BY DEF MemoryInv, CallMemory, FailureIsRemembered
<1> QED
  BY <1>1, <1>2, <1>3, PTL DEF Spec
-----------------------------------------------------------------------------
(* What a torn log could not promise: the rejection comes first.           *)

Rejected(r) == r.kind = "Qualification" /\ r.outcome \in BadOutcomes

AllDiscovery(rs) == rs \in Seq(ReportType) /\ \A n \in DOMAIN rs : rs[n].kind = "Discovery"

(* Once the heavy load is on, it stays on, and a rejection ends it.        *)
Ordered(rs) ==
    /\ rs \in Seq(ReportType)
    /\ \A m, n \in DOMAIN rs : m <= n /\ rs[m].kind = "Qualification" => rs[n].kind = "Qualification"
    /\ \A n \in DOMAIN rs : Rejected(rs[n]) => n = Len(rs)

Unrejected(rs) == Ordered(rs) /\ \A n \in DOMAIN rs : ~ Rejected(rs[n])

RejectionFirst(queue) ==
    /\ queue \in Seq(ReportType)
    /\ \E n \in DOMAIN queue : Rejected(queue[n]) /\ \A m \in 1 .. n : queue[m].kind = "Qualification"

RejectionRecorded == \E o \in obs : o.run = forge.run /\ o.anchor = Candidate /\ IsBad(o)

OrderOK ==
    /\ ~ TornWrites => log.torn = FALSE
    /\ DOMAIN seen = DOMAIN NothingSeen
    /\ motor.pc \in {"idle", "arm", "write", "verify"} => motor.reports = <<>>
    /\ Ordered(motor.reports)
    /\ call.pc \in Engaged => AllDiscovery(call.reports)
    /\ call.pc \in {"dwell", "recheck", "analyse"} => AllDiscovery(motor.reports)
    /\ call.pc = "qualify" => Unrejected(motor.reports)
    /\ ~ TornWrites /\ call.pc = "persist" /\ RejectedInQualification =>
           RejectionRecorded \/ RejectionFirst(call.queue)
    /\ ~ TornWrites => RejectionOutlivesOptimism

OrderInv == GuardInv /\ OrderOK

LEMMA DiscoveryIsOrdered ==
    ASSUME NEW rs, AllDiscovery(rs)
    PROVE  Unrejected(rs)
  BY DEF AllDiscovery, Unrejected, Ordered, Rejected

LEMMA NothingReported == AllDiscovery(<<>>)
  BY DEF AllDiscovery

(* Marks and the cleanup's verdict touch no kind, and no outcome but the   *)
(* last.                                                                   *)
LEMMA KindsKept ==
    ASSUME NEW rs \in Seq(ReportType), NEW qs \in Seq(ReportType), Len(qs) = Len(rs),
           \A n \in 1 .. Len(rs) : qs[n].kind = rs[n].kind
    PROVE  /\ AllDiscovery(rs) => AllDiscovery(qs)
           /\ Ordered(rs) /\ (\A n \in 1 .. Len(rs) : n # Len(rs) => qs[n].outcome = rs[n].outcome) => Ordered(qs)
<1>1. DOMAIN rs = 1 .. Len(rs) /\ DOMAIN qs = 1 .. Len(rs)
  OBVIOUS
<1> QED
  BY <1>1 DEF AllDiscovery, Ordered, Rejected

LEMMA AppendOrder ==
    ASSUME NEW rs \in Seq(ReportType), NEW r \in ReportType
    PROVE  /\ AllDiscovery(rs) /\ r.kind = "Discovery" => AllDiscovery(Append(rs, r))
           /\ Unrejected(rs) /\ r.kind = "Qualification" => Ordered(Append(rs, r))
           /\ Unrejected(rs) /\ r.kind = "Qualification" /\ ~ Rejected(r) => Unrejected(Append(rs, r))
<1> DEFINE qs == Append(rs, r)
<1>1. /\ qs \in Seq(ReportType) /\ Len(qs) = Len(rs) + 1 /\ DOMAIN qs = 1 .. Len(rs) + 1 /\ DOMAIN rs = 1 .. Len(rs)
      /\ \A n \in DOMAIN qs : qs[n] = IF n = Len(rs) + 1 THEN r ELSE rs[n]
      /\ Len(rs) \in Nat
  OBVIOUS
<1> HIDE DEF qs
<1>2. AllDiscovery(rs) /\ r.kind = "Discovery" => AllDiscovery(qs)
  BY <1>1 DEF AllDiscovery
<1>3. Unrejected(rs) /\ r.kind = "Qualification" => Ordered(qs)
  <2> SUFFICES ASSUME Unrejected(rs), r.kind = "Qualification" PROVE Ordered(qs)
    OBVIOUS
  <2>1. \A m, n \in DOMAIN qs : m <= n /\ qs[m].kind = "Qualification" => qs[n].kind = "Qualification"
    BY <1>1 DEF Unrejected, Ordered
  <2>2. \A n \in DOMAIN qs : Rejected(qs[n]) => n = Len(qs)
    BY <1>1 DEF Unrejected
  <2> QED
    BY <1>1, <2>1, <2>2 DEF Ordered
<1>4. Unrejected(rs) /\ r.kind = "Qualification" /\ ~ Rejected(r) => Unrejected(qs)
  BY <1>1, <1>3 DEF Unrejected
<1> QED
  BY <1>2, <1>3, <1>4 DEF qs

LEMMA ConcatOrder ==
    ASSUME NEW a, NEW b, AllDiscovery(a), Ordered(b)
    PROVE  Ordered(a \o b) /\ (AllDiscovery(b) => AllDiscovery(a \o b))
<1> DEFINE s == a \o b
<1>0. a \in Seq(ReportType) /\ b \in Seq(ReportType)
  BY DEF AllDiscovery, Ordered
<1>1. /\ s \in Seq(ReportType) /\ Len(s) = Len(a) + Len(b) /\ Len(a) \in Nat /\ Len(b) \in Nat
      /\ DOMAIN s = 1 .. Len(s) /\ DOMAIN a = 1 .. Len(a) /\ DOMAIN b = 1 .. Len(b)
      /\ \A n \in 1 .. Len(s) : s[n] = IF n <= Len(a) THEN a[n] ELSE b[n - Len(a)]
  BY <1>0
<1> HIDE DEF s
<1>2. \A n \in 1 .. Len(a) : a[n].kind = "Discovery"
  BY <1>1 DEF AllDiscovery
<1>5. \A n \in 1 .. Len(s) : \/ n <= Len(a) /\ s[n] = a[n] /\ n \in 1 .. Len(a)
                             \/ n > Len(a) /\ n - Len(a) \in 1 .. Len(b) /\ s[n] = b[n - Len(a)]
  BY <1>1
<1>3. \A m, n \in DOMAIN s : m <= n /\ s[m].kind = "Qualification" => s[n].kind = "Qualification"
  <2> SUFFICES ASSUME NEW m \in 1 .. Len(s), NEW n \in 1 .. Len(s), m <= n, s[m].kind = "Qualification"
               PROVE  s[n].kind = "Qualification"
    BY <1>1
  <2>1. m > Len(a)
    BY <1>2, <1>5
  <2>2. n > Len(a) /\ m - Len(a) <= n - Len(a)
    BY <1>1, <2>1
  <2>3. /\ m - Len(a) \in 1 .. Len(b) /\ s[m] = b[m - Len(a)]
        /\ n - Len(a) \in 1 .. Len(b) /\ s[n] = b[n - Len(a)]
    BY <1>1, <1>5, <2>1, <2>2
  <2>4. \A i, j \in 1 .. Len(b) : i <= j /\ b[i].kind = "Qualification" => b[j].kind = "Qualification"
    BY <1>1 DEF Ordered
  <2> QED
    BY <2>2, <2>3, <2>4
<1>4. \A n \in DOMAIN s : Rejected(s[n]) => n = Len(s)
  <2> SUFFICES ASSUME NEW n \in 1 .. Len(s), Rejected(s[n]) PROVE n = Len(s)
    BY <1>1
  <2>1. n > Len(a) /\ n - Len(a) \in 1 .. Len(b) /\ Rejected(b[n - Len(a)])
    BY <1>2, <1>5 DEF Rejected
  <2>2. n - Len(a) = Len(b)
    BY <1>1, <2>1 DEF Ordered
  <2> QED
    BY <1>1, <2>2
<1> QED
  BY <1>1, <1>2, <1>3, <1>4, <1>5 DEF Ordered, AllDiscovery, s

(* The first lines of the queue are the qualification's.                   *)
LEMMA QueueOrder ==
    ASSUME NEW rs, Ordered(rs), \E n \in DOMAIN rs : Rejected(rs[n]), NEW clean
    PROVE  RejectionFirst(PersistOrder(rs, clean))
<1> DEFINE S    == {r \in Reports(rs) : r.kind = "Qualification"}
           mine == {n \in DOMAIN rs : rs[n] \in S}
           first == Min(mine)
           qs == OfKind(rs, "Qualification")
           ds == OfKind(rs, "Discovery")
<1>0. rs \in Seq(ReportType) /\ Len(rs) \in Nat /\ DOMAIN rs = 1 .. Len(rs)
  BY DEF Ordered
<1>1. PICK k \in DOMAIN rs : Rejected(rs[k])
  OBVIOUS
<1>2. k = Len(rs)
  BY <1>1 DEF Ordered
<1>3. mine = {n \in DOMAIN rs : rs[n].kind = "Qualification"}
  BY DEF Reports
<1> HIDE DEF S
<1>4. mine \in SUBSET Nat /\ mine \in SUBSET (0 .. Len(rs)) /\ k \in mine
  BY <1>0, <1>1, <1>3 DEF Rejected
<1>5. first \in mine /\ (\A n \in mine : first <= n) /\ Max(mine) \in mine /\ Max(mine) >= k
  BY <1>0, <1>4, MinMember, MaxMember
<1>6. Max(mine) = k /\ first \in 1 .. k
  BY <1>0, <1>2, <1>4, <1>5
<1>7. qs = SubSeq(rs, first, k)
  BY <1>4, <1>6 DEF OfKind, Piece, S
<1> HIDE DEF mine, first, qs
<1>8. /\ qs \in Seq(ReportType) /\ Len(qs) = k - first + 1
      /\ \A n \in 1 .. k - first + 1 : qs[n] = rs[first + n - 1]
  <2>1. first \in Int /\ k \in Int /\ first >= 1 /\ first <= k /\ k = Len(rs)
    BY <1>0, <1>2, <1>6
  <2>2. \A m, n \in Int : m >= 1 /\ m <= n /\ n = Len(rs) =>
           /\ SubSeq(rs, m, n) \in Seq(ReportType) /\ Len(SubSeq(rs, m, n)) = n - m + 1
           /\ \A i \in 1 .. n - m + 1 : SubSeq(rs, m, n)[i] = rs[m + i - 1]
    BY <1>0
  <2> QED
    BY <1>7, <2>1, <2>2
<1>9. ds \in Seq(ReportType)
  BY <1>0, PieceType DEF OfKind
<1>10. first \in DOMAIN rs /\ rs[first].kind = "Qualification"
  BY <1>3, <1>5
<1> HIDE DEF ds
<1>11. RejectionFirst(qs \o ds)
  <2> DEFINE l == k - first + 1
             q == qs \o ds
  <2>1. l \in Nat /\ l >= 1 /\ 1 .. l \subseteq DOMAIN qs
    BY <1>0, <1>6, <1>8
  <2>2. q \in Seq(ReportType) /\ l \in DOMAIN q /\ \A n \in 1 .. l : q[n] = rs[first + n - 1]
    BY <1>8, <1>9, <2>1
  <2>3. q[l] = rs[k]
    BY <1>0, <1>6, <2>1, <2>2
  <2>4. \A n \in 1 .. l : first + n - 1 \in DOMAIN rs /\ first <= first + n - 1
    BY <1>0, <1>2, <1>6
  <2>5. \A n \in 1 .. l : q[n].kind = "Qualification"
    BY <1>10, <2>2, <2>4 DEF Ordered
  <2> HIDE DEF q, l
  <2> QED
    BY <1>1, <2>2, <2>3, <2>5 DEF RejectionFirst, q
<1>12. RejectionFirst(<<Last(rs)>>)
  <2>1. Last(rs) = rs[k] /\ rs[k] \in ReportType
    BY <1>0, <1>2 DEF Last
  <2>2. <<rs[k]>> \in Seq(ReportType) /\ DOMAIN <<rs[k]>> = {1} /\ <<rs[k]>>[1] = rs[k]
    BY <2>1
  <2> QED
    BY <1>1, <2>1, <2>2 DEF RejectionFirst, Rejected
<1> QED
  BY <1>11, <1>12 DEF PersistOrder, qs, ds

(* Every step keeps the order.  First the steps of the motor.              *)
LEMMA MotorRunsOrder ==
    ASSUME OrderInv, MotorRuns
    PROVE  OrderOK'
<1> USE DEF OrderInv
<1>1. /\ UNCHANGED <<log, call, forge, seen>> /\ motor.pc \notin {"idle", "active"}
      /\ motor.reports \in Seq(ReportType) /\ MotorShape
  BY DEF MotorRuns, MotorStep, ArmBootFlag, ApplyPositiveOffset, VerifyOffset, ResetToStock,
         BlacklistPoint, RetainBootFlag, ClearBootFlag, OrderOK, Ordered, GuardInv, MotorGuarded
<1>2. /\ motor'.pc \in {"idle", "arm", "write", "verify"} => motor'.reports = <<>>
      /\ Ordered(motor'.reports)
      /\ AllDiscovery(motor.reports) => AllDiscovery(motor'.reports)
  <2>1. CASE ArmBootFlag \/ ApplyPositiveOffset \/ VerifyOffset
    <3>1. motor.reports = <<>>
      BY <2>1 DEF ArmBootFlag, ApplyPositiveOffset, VerifyOffset, OrderOK
    <3>2. \/ motor'.reports = motor.reports
          \/ /\ motor'.pc \in {"reset", "done"}
             /\ \E outcome \in {"ArmFailed", "ApplyFailed", "VerifyFailed"} :
                   motor'.reports = Append(motor.reports, Report("Discovery", outcome))
      BY <1>1, <2>1 DEF ArmBootFlag, ApplyPositiveOffset, VerifyOffset, Fails, MotorShape
    <3>3. \A outcome \in {"ArmFailed", "ApplyFailed", "VerifyFailed"} :
             AllDiscovery(Append(motor.reports, Report("Discovery", outcome)))
      BY <3>1, NothingReported, AppendOrder, ReportTypes DEF EvidenceKinds, Outcomes, HardFailures, AllDiscovery
    <3> QED
      BY <3>1, <3>2, <3>3, NothingReported, DiscoveryIsOrdered DEF Unrejected
  <2>2. CASE ResetToStock \/ BlacklistPoint
    <3>1. motor'.reports = motor.reports /\ motor'.pc \in {"blacklist", "clear"}
      BY <1>1, <2>2 DEF ResetToStock, BlacklistPoint, MotorShape
    <3> QED
      BY <3>1 DEF OrderOK
  <2>3. CASE RetainBootFlag \/ ClearBootFlag
    <3>1. /\ motor'.pc = "done"
          /\ \/ motor'.reports = motor.reports
             \/ motor'.reports = MarkLast("ResetFailed")
             \/ motor'.reports = [n \in DOMAIN motor.reports |-> [motor.reports[n] EXCEPT !.clean = TRUE]]
      BY <1>1, <2>3 DEF RetainBootFlag, ClearBootFlag, Dirty, MotorShape
    <3> DEFINE cleaned == [n \in DOMAIN motor.reports |-> [motor.reports[n] EXCEPT !.clean = TRUE]]
               marked == MarkLast("ResetFailed")
    <3>2. /\ cleaned \in Seq(ReportType) /\ Len(cleaned) = Len(motor.reports)
          /\ \A n \in 1 .. Len(motor.reports) :
                cleaned[n].kind = motor.reports[n].kind /\ cleaned[n].outcome = motor.reports[n].outcome
      <4>1. \A r \in ReportType : /\ [r EXCEPT !.clean = TRUE] \in ReportType
                                 /\ [r EXCEPT !.clean = TRUE].kind = r.kind
                                 /\ [r EXCEPT !.clean = TRUE].outcome = r.outcome
        BY DEF ReportType
      <4>2. \A n \in 1 .. Len(motor.reports) : /\ motor.reports[n] \in ReportType
                                              /\ cleaned[n] = [motor.reports[n] EXCEPT !.clean = TRUE]
        BY <1>1
      <4>3. cleaned = [n \in 1 .. Len(motor.reports) |-> cleaned[n]] /\ Len(motor.reports) \in Nat
        BY <1>1
      <4> HIDE DEF cleaned
      <4>4. \A n \in 1 .. Len(motor.reports) :
               /\ cleaned[n] \in ReportType
               /\ cleaned[n].kind = motor.reports[n].kind /\ cleaned[n].outcome = motor.reports[n].outcome
        BY <4>1, <4>2
      <4>5. cleaned \in Seq(ReportType) /\ Len(cleaned) = Len(motor.reports)
        BY <4>3, <4>4, SeqByElements
      <4> QED
        BY <4>4, <4>5, Zenon
    <3>3. /\ marked \in Seq(ReportType) /\ Len(marked) = Len(motor.reports)
          /\ \A n \in 1 .. Len(motor.reports) :
                /\ marked[n].kind = motor.reports[n].kind
                /\ n # Len(motor.reports) => marked[n].outcome = motor.reports[n].outcome
      <4>1. marked \in Seq(ReportType)
        BY <1>1, MarkedReports DEF Outcomes, HardFailures
      <4>2. \A r \in ReportType : [r EXCEPT !.outcome = "ResetFailed"].kind = r.kind
        BY DEF ReportType
      <4>3. \A n \in 1 .. Len(motor.reports) :
               /\ motor.reports[n] \in ReportType
               /\ marked[n] = IF n = Len(motor.reports) THEN [motor.reports[n] EXCEPT !.outcome = "ResetFailed"]
                              ELSE motor.reports[n]
        BY <1>1 DEF MarkLast
      <4>4. DOMAIN marked = 1 .. Len(motor.reports) /\ Len(motor.reports) \in Nat
        BY <1>1 DEF MarkLast
      <4> HIDE DEF marked
      <4>5. Len(marked) = Len(motor.reports)
        BY <4>1, <4>4
      <4> QED
        BY <4>1, <4>2, <4>3, <4>5
    <3> HIDE DEF cleaned, marked
    <3>4. motor'.reports \in {motor.reports, marked, cleaned}
      BY <3>1 DEF cleaned, marked
    <3> QED
      BY <1>1, <3>1, <3>2, <3>3, <3>4, KindsKept DEF OrderOK
  <2> QED
    BY <2>1, <2>2, <2>3 DEF MotorRuns, MotorStep
<1>3. call.pc # "qualify"
  BY <1>1 DEF GuardInv, SyncOK
<1>4. /\ Candidate' = Candidate
      /\ RejectedInQualification' = RejectedInQualification
      /\ RejectionRecorded' = RejectionRecorded
      /\ RejectionOutlivesOptimism' = RejectionOutlivesOptimism
  BY <1>1 DEF Candidate, RejectedInQualification, RejectionRecorded, RejectionOutlivesOptimism, obs
<1> QED
  BY <1>1, <1>2, <1>3, <1>4 DEF OrderOK

(* A call on the way: nothing is recorded and nothing is forgotten.        *)
LEMMA OnTheWay ==
    ASSUME OrderInv, UNCHANGED log, DOMAIN seen' = DOMAIN seen, seen'.optimistic = seen.optimistic,
           motor'.pc \in {"idle", "arm", "write", "verify"} => motor'.reports = <<>>,
           Ordered(motor'.reports),
           call'.pc \in Engaged => AllDiscovery(call'.reports),
           call'.pc \in {"dwell", "recheck", "analyse"} => AllDiscovery(motor'.reports),
           call'.pc = "qualify" => Unrejected(motor'.reports),
           call'.pc # "persist"
    PROVE  OrderOK'
<1>1. ~ TornWrites => RejectionOutlivesOptimism'
  BY DEF OrderInv, OrderOK, RejectionOutlivesOptimism, obs
<1> QED
  BY <1>1 DEF OrderInv, OrderOK

(* Off duty: the motor rests and the call has no candidate.                *)
LEMMA OffDuty ==
    ASSUME OrderInv, UNCHANGED log, DOMAIN seen' = DOMAIN seen, seen'.optimistic = seen.optimistic,
           motor' = IdleMotor \/ (motor' = motor /\ motor.pc = "idle"),
           call'.pc \notin Engaged, call'.pc # "persist"
    PROVE  OrderOK'
<1>1. motor'.reports = <<>>
  BY DEF IdleMotor, OrderInv, OrderOK
<1>2. Unrejected(motor'.reports)
  BY <1>1, NothingReported, DiscoveryIsOrdered
<1> QED
  BY <1>1, <1>2, OnTheWay DEF Engaged, Unrejected

LEMMA NextCandidateOrder ==
    ASSUME OrderInv, NextCandidate
    PROVE  OrderOK'
<1>1. DOMAIN call = DOMAIN IdleCall /\ motor.pc = "idle" /\ UNCHANGED <<log, seen>>
  BY DEF OrderInv, GuardInv, SyncOK, NextCandidate, Engaged
<1>2. \A completed, reason : /\ StopAt(call, completed, reason) # call
                             /\ AbortWith(call, reason) # call
  BY <1>1, CallFields DEF StopAt, AbortWith, NextCandidate
<1>3. \/ UNCHANGED motor /\ \E completed, reason : call' \in {StopAt(call, completed, reason), AbortWith(call, reason)}
      \/ call' = FreshCandidate(call) /\ Begin("transaction", Candidate)
  BY <1>2 DEF NextCandidate
<1>4. CASE UNCHANGED motor /\ \E completed, reason : call' \in {StopAt(call, completed, reason), AbortWith(call, reason)}
  <2>1. call'.pc = "summary"
    BY <1>1, <1>4, CallFields DEF StopAt, AbortWith
  <2> QED
    BY <1>1, <1>4, <2>1, OffDuty DEF Engaged
<1>5. CASE call' = FreshCandidate(call) /\ Begin("transaction", Candidate)
  <2>1. call'.pc = "dwell" /\ call'.reports = <<>> /\ motor'.reports = <<>>
    BY <1>1, <1>5, CallFields DEF FreshCandidate, Begin, IdleMotor
  <2>2. AllDiscovery(call'.reports) /\ AllDiscovery(motor'.reports) /\ Ordered(motor'.reports)
    BY <2>1, NothingReported, DiscoveryIsOrdered DEF Unrejected
  <2> QED
    BY <1>1, <2>1, <2>2, OnTheWay
<1> QED
  BY <1>3, <1>4, <1>5

LEMMA DiscoveryDwellOrder ==
    ASSUME OrderInv, DiscoveryDwell
    PROVE  OrderOK'
<1>0. PICK d \in Dwells : \E again :
         LET r == [Report("Discovery", d.outcome) EXCEPT !.p99 = d.p99, !.p5 = d.p5]
         IN /\ motor' = IF again THEN Finish(RunPhase(r)) ELSE RunPhase(r)
            /\ call' = [call EXCEPT !.pc = IF again THEN "recheck" ELSE "analyse",
                                    !.rechecked = @ \/ again]
            /\ seen' = [seen EXCEPT !.lost = @ \/ d.outcome = "DeviceLost"]
  BY Zenon DEF DiscoveryDwell
<1> DEFINE r == [Report("Discovery", d.outcome) EXCEPT !.p99 = d.p99, !.p5 = d.p5]
<1>1. /\ Report("Discovery", d.outcome) \in ReportType /\ d.p99 \in Int /\ d.p5 \in Int
      /\ Report("Discovery", d.outcome).kind = "Discovery"
  BY ReportTypes, DwellsAssumption DEF EvidenceKinds, Outcomes
<1>2. r \in ReportType /\ r.kind = "Discovery"
  BY <1>1 DEF ReportType
<1>3. /\ call.pc = "dwell" /\ motor.pc = "active" /\ UNCHANGED log /\ DOMAIN call = DOMAIN IdleCall
      /\ MotorShape
  BY DEF DiscoveryDwell, OrderInv, GuardInv, SyncOK, MotorGuarded
<1>4. /\ call'.pc \in {"recheck", "analyse"} /\ call'.reports = call.reports
      /\ DOMAIN seen' = DOMAIN seen
  BY <1>0, <1>3, CallFields
<1>5. seen'.optimistic = seen.optimistic
  BY <1>0 DEF OrderInv, OrderOK, NothingSeen
<1>6. motor'.reports = Append(motor.reports, r) /\ motor'.pc \in {"active", "reset"}
  BY <1>0, <1>3 DEF RunPhase, Finish, MotorShape
<1> HIDE DEF r
<1>7. motor.reports \in Seq(ReportType) /\ AllDiscovery(motor.reports) /\ AllDiscovery(call.reports)
  BY <1>3 DEF OrderInv, OrderOK, Ordered, Engaged
<1>8. AllDiscovery(motor'.reports) /\ Ordered(motor'.reports)
  BY <1>2, <1>6, <1>7, AppendOrder, DiscoveryIsOrdered DEF Unrejected
<1> QED
  BY <1>3, <1>4, <1>5, <1>6, <1>7, <1>8, OnTheWay

LEMMA StartFailedOrder ==
    ASSUME OrderInv, TransactionStartFailed
    PROVE  OrderOK'
<1>1. /\ call'.pc = "analyse" /\ call'.reports = call.reports /\ call.pc = "dwell"
      /\ UNCHANGED <<motor, log, seen>>
  BY CallFields DEF OrderInv, GuardInv, SyncOK, TransactionStartFailed, mvars
<1> QED
  BY <1>1, OnTheWay DEF OrderInv, OrderOK, Engaged

LEMMA RecheckOrder ==
    ASSUME OrderInv, RecheckPower
    PROVE  OrderOK'
<1>1. \/ /\ Begin("transaction", Candidate)
         /\ call' = [CollectedMotor(call) EXCEPT !.pc = "dwell"]
      \/ /\ motor' = IdleMotor
         /\ \E broken : call' = [CollectedMotor(call) EXCEPT !.pc = "analyse", !.broken = broken]
  BY DEF RecheckPower
<1>2. call.pc = "recheck" /\ UNCHANGED <<log, seen>> /\ motor'.reports = <<>>
  <2>1. call.pc = "recheck" /\ UNCHANGED <<log, seen>>
    BY DEF RecheckPower
  <2>2. Begin("transaction", Candidate) => motor'.reports = <<>>
    BY DEF Begin, IdleMotor
  <2>3. motor' = IdleMotor => motor'.reports = <<>>
    BY DEF IdleMotor
  <2> QED
    BY <1>1, <2>1, <2>2, <2>3
<1>6. call'.pc \in {"dwell", "analyse"} /\ call'.reports = AllReports
  BY <1>1, CallFields DEF OrderInv, GuardInv, SyncOK, CollectedMotor
<1>3. AllDiscovery(call.reports) /\ AllDiscovery(motor.reports) /\ Ordered(motor.reports)
  BY <1>2 DEF OrderInv, OrderOK, Engaged
<1>4. AllDiscovery(call'.reports)
  BY <1>6, <1>3, ConcatOrder DEF AllReports
<1>5. AllDiscovery(motor'.reports) /\ Unrejected(motor'.reports)
  BY <1>2, NothingReported, DiscoveryIsOrdered
<1> QED
  BY <1>2, <1>4, <1>5, <1>6, OnTheWay DEF Unrejected

(* Marking touches no kind.                                                *)
LEMMA MarkedKinds ==
    ASSUME NEW all \in Seq(ReportType), NEW tries, NEW near
    PROVE  \A n \in 1 .. Len(all) : Marked(all, tries, near)[n].kind = all[n].kind
<1>1. \A r \in ReportType : \A outcome, confirmed :
         [r EXCEPT !.outcome = outcome, !.confirmed = confirmed].kind = r.kind
  BY DEF ReportType
<1>2. \A n \in 1 .. Len(all) : all[n] \in ReportType /\ n \in DOMAIN all
  OBVIOUS
<1>3. \A n \in 1 .. Len(all) : \E outcome, confirmed :
         Marked(all, tries, near)[n] = [all[n] EXCEPT !.outcome = outcome, !.confirmed = confirmed]
  BY <1>2, Zenon DEF Marked
<1> SUFFICES ASSUME NEW n \in 1 .. Len(all)
             PROVE  Marked(all, tries, near)[n].kind = all[n].kind
  OBVIOUS
<1>4. PICK outcome, confirmed :
         Marked(all, tries, near)[n] = [all[n] EXCEPT !.outcome = outcome, !.confirmed = confirmed]
  BY <1>3
<1>5. [all[n] EXCEPT !.outcome = outcome, !.confirmed = confirmed].kind = all[n].kind
  BY <1>1, <1>2
<1> QED
  BY <1>4, <1>5, Zenon

(* What the sequence m is cut into, at the length of a.                    *)
Split(a, b, m) ==
    /\ AllDiscovery(SubSeq(m, 1, Len(a)))
    /\ AllDiscovery(SubSeq(m, Len(a) + 1, Len(m)))
    /\ Len(SubSeq(m, Len(a) + 1, Len(m))) = Len(b)

LEMMA SplitDiscovery ==
    \A a, b, m : AllDiscovery(a) /\ AllDiscovery(b) /\ AllDiscovery(m) /\ Len(m) = Len(a) + Len(b) => Split(a, b, m)
<1> SUFFICES ASSUME NEW a, NEW b, NEW m, AllDiscovery(a), AllDiscovery(b), AllDiscovery(m), Len(m) = Len(a) + Len(b)
             PROVE  Split(a, b, m)
  OBVIOUS
<1> DEFINE before == SubSeq(m, 1, Len(a))
           after == SubSeq(m, Len(a) + 1, Len(m))
<1>1. Len(a) \in Nat /\ Len(b) \in Nat /\ m \in Seq(ReportType)
  BY DEF AllDiscovery
<1>2. before \in Seq(ReportType) /\ Len(before) = Len(a) /\ \A n \in 1 .. Len(a) : before[n] = m[n]
  BY <1>1
<1>3. after \in Seq(ReportType) /\ Len(after) = Len(b) /\ \A n \in 1 .. Len(b) : after[n] = m[Len(a) + n]
  BY <1>1
<1> HIDE DEF before, after
<1>4. \A n \in 1 .. Len(m) : m[n].kind = "Discovery"
  BY <1>1 DEF AllDiscovery
<1>5. AllDiscovery(before)
  BY <1>1, <1>2, <1>4 DEF AllDiscovery
<1>6. AllDiscovery(after)
  <2>1. \A n \in 1 .. Len(b) : Len(a) + n \in 1 .. Len(m)
    BY <1>1
  <2>2. DOMAIN after = 1 .. Len(b)
    BY <1>1, <1>3
  <2> QED
    BY <1>3, <1>4, <2>1, <2>2 DEF AllDiscovery
<1> QED
  BY <1>3, <1>5, <1>6 DEF Split, before, after

LEMMA AnalyseOrder ==
    ASSUME OrderInv, Analyse
    PROVE  OrderOK'
<1>1. /\ call.pc = "analyse" /\ UNCHANGED <<log, seen>>
      /\ AllDiscovery(call.reports) /\ AllDiscovery(motor.reports) /\ Ordered(motor.reports)
  BY DEF OrderInv, OrderOK, Engaged, Analyse
<1>2. AllDiscovery(AllReports) /\ AllReports \in Seq(ReportType)
  BY <1>1, ConcatOrder DEF AllReports, AllDiscovery
<1>3. PICK raw \in {Provisional(AllReports), AllReports} : \E rechecked, near, tested :
         LET m     == Marked(AllReports, ConfirmAttempts(raw, rechecked), near)
             after == [motor EXCEPT !.reports = SubSeq(m, Len(call.reports) + 1, Len(m))]
         IN /\ call'.reports = SubSeq(m, 1, Len(call.reports))
            /\ call'.pc \in {"qualify", "cleanup"}
            /\ motor' = IF motor.pc = "active" /\ ~ tested THEN Finish(after) ELSE after
  BY CallFields DEF OrderInv, GuardInv, SyncOK, Analyse
<1>4. PICK rechecked, near, tested :
         LET m     == Marked(AllReports, ConfirmAttempts(raw, rechecked), near)
             after == [motor EXCEPT !.reports = SubSeq(m, Len(call.reports) + 1, Len(m))]
         IN /\ call'.reports = SubSeq(m, 1, Len(call.reports))
            /\ call'.pc \in {"qualify", "cleanup"}
            /\ motor' = IF motor.pc = "active" /\ ~ tested THEN Finish(after) ELSE after
  BY <1>3
<1> DEFINE m == Marked(AllReports, ConfirmAttempts(raw, rechecked), near)
           before == SubSeq(m, 1, Len(call.reports))
           after == SubSeq(m, Len(call.reports) + 1, Len(m))
<1>5. m \in Seq(ReportType) /\ Len(m) = Len(AllReports) /\ AllDiscovery(m)
  <2>1. /\ raw \in Seq(ReportType) /\ Len(raw) = Len(AllReports)
        /\ \A n \in 1 .. Len(AllReports) : raw[n].outcome = AllReports[n].outcome
    BY <1>2, ProvisionalType
  <2>2. m \in Seq(ReportType) /\ Len(m) = Len(AllReports)
    BY <1>2, <2>1, MarkedType
  <2>3. \A n \in 1 .. Len(AllReports) : m[n].kind = AllReports[n].kind
    BY <1>2, MarkedKinds
  <2> HIDE DEF m
  <2> QED
    BY <1>2, <2>2, <2>3, KindsKept
<1>6. /\ call'.pc \in {"qualify", "cleanup"} /\ call'.reports = before
      /\ \/ motor' = [motor EXCEPT !.reports = after]
         \/ motor.pc = "active" /\ motor' = Finish([motor EXCEPT !.reports = after])
  BY <1>4
<1> HIDE DEF m, before, after
<1>7. AllDiscovery(before) /\ AllDiscovery(after) /\ Len(after) = Len(motor.reports)
  <2>1. Len(AllReports) = Len(call.reports) + Len(motor.reports)
    BY <1>1 DEF AllDiscovery, AllReports
  <2>2. Len(m) = Len(call.reports) + Len(motor.reports)
    BY <1>5, <2>1, Zenon
  <2>3. Split(call.reports, motor.reports, m)
    BY <1>1, <1>5, <2>2, SplitDiscovery, Zenon
  <2> QED
    BY <2>3, Zenon DEF Split, before, after
<1>8. motor'.reports = after /\ (motor'.pc = motor.pc \/ motor'.pc = "reset")
  BY <1>6 DEF Finish, OrderInv, GuardInv, MotorGuarded, MotorShape
<1>9. motor'.pc \in {"idle", "arm", "write", "verify"} => motor'.reports = <<>>
  <2>1. motor.reports = <<>> => after = <<>>
    BY <1>7 DEF AllDiscovery
  <2> QED
    BY <1>8, <2>1 DEF OrderInv, OrderOK
<1>10. Unrejected(motor'.reports)
  BY <1>7, <1>8, DiscoveryIsOrdered
<1> QED
  BY <1>1, <1>6, <1>7, <1>9, <1>10, OnTheWay DEF Unrejected, Engaged

LEMMA QualificationOrder ==
    ASSUME OrderInv, QualificationCancelled \/ QualificationDwell
    PROVE  OrderOK'
<1>1. /\ motor.pc = "active" /\ DOMAIN call = DOMAIN IdleCall /\ call.pc = "qualify" /\ UNCHANGED log
      /\ MotorShape /\ AllDiscovery(call.reports) /\ Unrejected(motor.reports)
      /\ motor.reports \in Seq(ReportType)
  BY DEF OrderInv, OrderOK, GuardInv, MotorGuarded, SyncOK, QualificationCancelled, QualificationDwell, Engaged,
         Unrejected, Ordered
<1>2. CASE QualificationCancelled
  <2>1. /\ call'.pc = "cleanup" /\ call'.reports = call.reports /\ UNCHANGED seen
        /\ motor'.reports = motor.reports /\ motor'.pc = "reset"
    BY <1>1, <1>2, CallFields DEF QualificationCancelled, Finish, MotorShape
  <2> QED
    BY <1>1, <2>1, OnTheWay DEF Unrejected
<1>3. CASE QualificationDwell
  <2>1. PICK q \in Quals : \E outcome \in DwellOutcomes :
           LET r == [Report("Qualification", outcome) EXCEPT !.p5 = q.p5, !.retryable = q.retryable]
           IN /\ \/ motor' = RunPhase(r) /\ call'.pc = "qualify" /\ outcome = "Inconclusive"
                 \/ motor' = Finish(RunPhase(r)) /\ call'.pc = "cleanup"
              /\ call'.reports = call.reports
    <3>1. PICK q \in Quals :
             LET outcome == Judged(q)
                 r       == [Report("Qualification", outcome) EXCEPT !.p5 = q.p5, !.retryable = q.retryable]
                 again   == outcome = "Inconclusive" /\ q.retryable /\ call.retries < RetryBudget
             IN /\ motor' = IF again THEN RunPhase(r) ELSE Finish(RunPhase(r))
                /\ call' = [call EXCEPT
                               !.pc      = IF again THEN @ ELSE "cleanup",
                               !.verdict = IF again THEN @ ELSE Verdict(outcome),
                               !.retries = IF again THEN @ + 1 ELSE @,
                               !.history = IF outcome = "Validated" THEN Append(@, q.p5) ELSE @]
      BY <1>3 DEF QualificationDwell
    <3>2. Judged(q) \in DwellOutcomes
      BY DwellsAssumption DEF Judged, DwellOutcomes
    <3> QED
      BY <1>1, <3>1, <3>2, CallFields
  <2>2. PICK outcome \in DwellOutcomes :
           LET r == [Report("Qualification", outcome) EXCEPT !.p5 = q.p5, !.retryable = q.retryable]
           IN /\ \/ motor' = RunPhase(r) /\ call'.pc = "qualify" /\ outcome = "Inconclusive"
                 \/ motor' = Finish(RunPhase(r)) /\ call'.pc = "cleanup"
              /\ call'.reports = call.reports
    BY <2>1
  <2> DEFINE r == [Report("Qualification", outcome) EXCEPT !.p5 = q.p5, !.retryable = q.retryable]
  <2>3. /\ Report("Qualification", outcome) \in ReportType /\ q.p5 \in Int /\ q.retryable \in BOOLEAN
        /\ Report("Qualification", outcome).kind = "Qualification"
        /\ Report("Qualification", outcome).outcome = outcome
    BY ReportTypes, DwellsAssumption DEF EvidenceKinds, Outcomes
  <2>4. r \in ReportType /\ r.kind = "Qualification" /\ r.outcome = outcome
    BY <2>3 DEF ReportType
  <2>5. /\ motor'.reports = Append(motor.reports, r) /\ motor'.pc \in {"active", "reset"}
        /\ call'.reports = call.reports
        /\ call'.pc = "cleanup" \/ (call'.pc = "qualify" /\ outcome = "Inconclusive")
    BY <1>1, <2>2 DEF RunPhase, Finish, MotorShape
  <2> HIDE DEF r
  <2>6. outcome = "Inconclusive" => ~ Rejected(r)
    BY <2>4 DEF Rejected, BadOutcomes
  <2>7. Ordered(motor'.reports) /\ (call'.pc = "qualify" => Unrejected(motor'.reports))
    BY <1>1, <2>4, <2>5, <2>6, AppendOrder
  <2>8. DOMAIN seen' = DOMAIN seen /\ seen'.optimistic = seen.optimistic
    BY <1>3 DEF QualificationDwell, OrderInv, OrderOK, NothingSeen
  <2> QED
    BY <1>1, <2>5, <2>7, <2>8, OnTheWay
<1> QED
  BY <1>2, <1>3

(* The candidate's lines are queued: a rejection before its discovery.     *)
LEMMA CleanupOrder ==
    ASSUME OrderInv, CandidateCleanup
    PROVE  OrderOK'
<1> DEFINE c == IF motor.pc = "done" THEN CollectedMotor(call) ELSE call
<1>1. /\ call.pc = "cleanup" /\ motor.pc \in {"done", "idle"} /\ motor' = IdleMotor /\ UNCHANGED <<log, forge>>
      /\ DOMAIN c = DOMAIN IdleCall
      /\ AllDiscovery(call.reports) /\ Ordered(motor.reports)
  BY CallFields DEF CandidateCleanup, CollectedMotor, OrderInv, GuardInv, SyncOK, OrderOK, Engaged
<1>2. Ordered(c.reports)
  <2>1. CASE motor.pc = "done"
    <3>1. c.reports = AllReports
      BY <2>1, CallFields DEF CollectedMotor, OrderInv, GuardInv, SyncOK
    <3> QED
      BY <1>1, <3>1, ConcatOrder DEF AllReports
  <2>2. CASE motor.pc = "idle"
    BY <1>1, <2>2, DiscoveryIsOrdered DEF Unrejected
  <2> QED
    BY <1>1, <2>1, <2>2
<1>3. \E broken, found, verdict :
         call' = [c EXCEPT !.pc = "persist", !.queue = PersistOrder(c.reports, c.clean), !.broken = broken,
                           !.found.outcome = found, !.verdict = verdict]
  BY Zenon DEF CandidateCleanup
<1> HIDE DEF c
<1>4. call'.pc = "persist" /\ call'.reports = c.reports /\ call'.queue = PersistOrder(c.reports, c.clean)
  BY <1>1, <1>3, CallFields
<1>5. RejectedInQualification' => RejectionFirst(call.queue)'
  <2>1. RejectedInQualification' => \E n \in DOMAIN c.reports : Rejected(c.reports[n])
    BY <1>4 DEF RejectedInQualification, Reports, Rejected
  <2>2. RejectionFirst(call.queue)' <=> RejectionFirst(PersistOrder(c.reports, c.clean))
    BY <1>4 DEF RejectionFirst
  <2> QED
    BY <1>2, <2>1, <2>2, QueueOrder
<1>6. DOMAIN seen' = DOMAIN seen /\ seen'.optimistic = seen.optimistic
  BY DEF CandidateCleanup, OrderInv, OrderOK, NothingSeen
<1>7. ~ TornWrites => RejectionOutlivesOptimism'
  BY <1>1, <1>6 DEF OrderInv, OrderOK, RejectionOutlivesOptimism, obs
<1>8. motor'.reports = <<>> /\ Ordered(motor'.reports)
  BY <1>1, NothingReported, DiscoveryIsOrdered DEF IdleMotor, Unrejected
<1> QED
  BY <1>1, <1>4, <1>5, <1>6, <1>7, <1>8 DEF OrderInv, OrderOK, Engaged

(* A line reaches the log: the rejection first, then the discovery may.    *)
LEMMA PersistOrderKept ==
    ASSUME OrderInv, PersistReport
    PROVE  OrderOK'
<1>1. /\ call.pc = "persist" /\ motor.pc = "idle" /\ DOMAIN call = DOMAIN IdleCall
      /\ UNCHANGED <<motor, forge>> /\ (~ TornWrites => log.torn = FALSE) /\ motor.reports = <<>>
  BY DEF OrderInv, OrderOK, GuardInv, SyncOK, PersistReport, Engaged
<1>2. CASE UNCHANGED <<log, seen>> /\ call' = AbortWith(call, "ObservationPersistFailed")
  <2>1. call'.pc = "summary"
    BY <1>1, <1>2, CallFields DEF AbortWith
  <2> QED
    BY <1>1, <1>2, <2>1, OffDuty DEF Engaged
<1>3. CASE /\ log' = AppendObservation(log, Observation(Head(call.queue)))
           /\ call' = IF Len(call.queue) > 1 THEN [call EXCEPT !.queue = Tail(@)]
                      ELSE [call EXCEPT !.queue = <<>>, !.pc = "judge", !.executed = TRUE]
           /\ seen' = IF RejectedInQualification /\ Head(call.queue).kind = "Discovery"
                      THEN [seen EXCEPT !.optimistic = @ \cup {<<forge.run, Candidate>>}] ELSE seen
  <2> DEFINE o == Observation(Head(call.queue))
  <2>1. /\ log'.torn = FALSE /\ log.obs \subseteq log'.obs
        /\ ~ TornWrites => log'.obs = log.obs \cup {o}
    BY <1>1, <1>3 DEF AppendObservation
  <2>2. /\ call'.reports = call.reports /\ call'.cands = call.cands /\ call'.i = call.i
        /\ \/ call'.pc = "persist" /\ call'.queue = Tail(call.queue) /\ Len(call.queue) > 1
           \/ call'.pc = "judge" /\ ~ (Len(call.queue) > 1)
    BY <1>1, <1>3, CallFields
  <2>3. Candidate' = Candidate
    BY <2>2 DEF Candidate
  <2>4. RejectionRecorded => RejectionRecorded'
    BY <1>1, <2>1, <2>3 DEF RejectionRecorded, obs
  <2>5. RejectedInQualification' <=> RejectedInQualification
    BY <2>2 DEF RejectedInQualification
  <2>6. ~ TornWrites /\ RejectedInQualification => RejectionRecorded \/ RejectionFirst(call.queue)
    BY <1>1 DEF OrderInv, OrderOK
  <2>7. /\ o.run = forge.run /\ o.anchor = Candidate
        /\ o.outcome = MapOutcome(Head(call.queue).outcome, Head(call.queue).kind)
    BY DEF Observation
  <2> HIDE DEF o
  <2>8. ~ TornWrites /\ Rejected(Head(call.queue)) => RejectionRecorded'
    <3>1. Rejected(Head(call.queue)) => IsBad(o)
      BY <2>7 DEF Rejected, IsBad, BadOutcomes, MapOutcome
    <3> QED
      BY <1>1, <2>1, <2>3, <2>7, <3>1 DEF RejectionRecorded, obs
  <2>9. RejectionFirst(call.queue) =>
           /\ Head(call.queue).kind = "Qualification"
           /\ \/ Rejected(Head(call.queue))
              \/ Len(call.queue) > 1 /\ RejectionFirst(Tail(call.queue))
    <3> SUFFICES ASSUME RejectionFirst(call.queue)
                 PROVE  /\ Head(call.queue).kind = "Qualification"
                        /\ \/ Rejected(Head(call.queue))
                           \/ Len(call.queue) > 1 /\ RejectionFirst(Tail(call.queue))
      OBVIOUS
    <3>1. call.queue \in Seq(ReportType)
      BY DEF RejectionFirst
    <3>2. PICK n \in DOMAIN call.queue :
             Rejected(call.queue[n]) /\ \A m \in 1 .. n : call.queue[m].kind = "Qualification"
      BY DEF RejectionFirst
    <3>3. /\ n \in 1 .. Len(call.queue) /\ Len(call.queue) \in Nat /\ 1 \in 1 .. n
          /\ Head(call.queue) = call.queue[1]
      BY <3>1
    <3>4. n > 1 => /\ Len(call.queue) > 1 /\ Tail(call.queue) \in Seq(ReportType)
                   /\ n - 1 \in DOMAIN Tail(call.queue)
                   /\ \A m \in 1 .. n - 1 : Tail(call.queue)[m] = call.queue[m + 1] /\ m + 1 \in 1 .. n
      BY <3>1, <3>3
    <3>5. n > 1 => RejectionFirst(Tail(call.queue))
      <4> SUFFICES ASSUME n > 1 PROVE RejectionFirst(Tail(call.queue))
        OBVIOUS
      <4>1. n - 1 \in 1 .. n - 1 /\ (n - 1) + 1 = n
        BY <3>3
      <4>2. Rejected(Tail(call.queue)[n - 1])
        BY <3>2, <3>4, <4>1
      <4>3. \A m \in 1 .. n - 1 : Tail(call.queue)[m].kind = "Qualification"
        BY <3>2, <3>4
      <4> QED
        BY <3>4, <4>2, <4>3 DEF RejectionFirst
    <3> QED
      BY <3>2, <3>3, <3>4, <3>5
  <2>10. RejectionFirst(call.queue) /\ ~ Rejected(Head(call.queue)) =>
            call'.pc = "persist" /\ RejectionFirst(call.queue)'
    BY <2>2, <2>9 DEF RejectionFirst
  <2>11. ~ TornWrites /\ call'.pc = "persist" /\ RejectedInQualification' =>
            RejectionRecorded' \/ RejectionFirst(call.queue)'
    BY <2>4, <2>5, <2>6, <2>8, <2>10
  <2>12. ~ TornWrites /\ RejectedInQualification /\ Head(call.queue).kind = "Discovery" => RejectionRecorded'
    BY <2>4, <2>6, <2>9
  <2>13. /\ DOMAIN seen' = DOMAIN seen
         /\ seen'.optimistic = IF RejectedInQualification /\ Head(call.queue).kind = "Discovery"
                               THEN seen.optimistic \cup {<<forge.run, Candidate>>} ELSE seen.optimistic
    BY <1>3 DEF OrderInv, OrderOK, NothingSeen
  <2>14. RejectionRecorded' => \E x \in obs' : x.run = forge.run /\ x.anchor = Candidate /\ IsBad(x)
    BY <1>1, <2>3 DEF RejectionRecorded
  <2>15. ~ TornWrites => RejectionOutlivesOptimism'
    BY <2>1, <2>12, <2>13, <2>14 DEF RejectionOutlivesOptimism, obs, OrderInv, OrderOK
  <2>16. call'.pc \in {"persist", "judge"} /\ Ordered(motor'.reports) /\ motor'.reports = <<>>
    BY <1>1, <2>2 DEF OrderInv, OrderOK
  <2> QED
    BY <2>1, <2>11, <2>13, <2>15, <2>16 DEF OrderInv, OrderOK, Engaged
<1> QED
  BY <1>2, <1>3 DEF PersistReport

(* A new call, the end of one, an interruption: nothing is under way.      *)
LEMMA RestOrder ==
    ASSUME OrderInv,
           \/ Judge \/ Summarize \/ FallBack \/ ClimbStart \/ FinalReset
           \/ StartSession \/ WorkerPanics \/ MachineCrash
    PROVE  OrderOK'
<1>1. CASE Judge
  <2>1. /\ call.pc = "judge" /\ UNCHANGED <<motor, log, seen>> /\ call'.pc \in {"next", "summary"}
    BY <1>1, JudgeMoves DEF mvars, OrderInv, GuardInv, SyncOK
  <2> QED
    BY <2>1, OffDuty DEF OrderInv, GuardInv, SyncOK, Engaged
<1>2. CASE Summarize
  <2>1. call.pc = "summary" /\ call'.pc = "ended" /\ UNCHANGED <<motor, log, seen>>
    BY <1>2, CallFields DEF Summarize, Transition, mvars, OrderInv, GuardInv, SyncOK
  <2> QED
    BY <2>1, OffDuty DEF OrderInv, GuardInv, SyncOK, Engaged
<1>3. CASE FallBack \/ ClimbStart
  <2>1. call.pc = "ended" /\ UNCHANGED <<motor, log, seen>>
    BY <1>3 DEF FallBack, ClimbStart, CallEnded, mvars
  <2>2. call'.pc \in {"next", "ended", "summary"}
    BY <1>3, NewCallSync DEF FallBack, ClimbStart, Call
  <2> QED
    BY <2>1, <2>2, OffDuty DEF OrderInv, GuardInv, SyncOK, Engaged
<1>4. CASE FinalReset
  <2>1. call.pc = "ended" /\ call'.pc = "off" /\ UNCHANGED <<motor, log, seen>>
    BY <1>4 DEF FinalReset, CallEnded, IdleCall
  <2> QED
    BY <2>1, OffDuty DEF OrderInv, GuardInv, SyncOK, Engaged
<1>5. CASE StartSession
  <2>1. /\ forge.pc = "idle" /\ UNCHANGED <<motor, log>>
        /\ DOMAIN seen' = DOMAIN seen /\ seen'.optimistic = seen.optimistic
    BY <1>5 DEF StartSession, OrderInv, OrderOK, NothingSeen
  <2>2. PICK run, resume, start : call' = NewCall(run, resume, start)
    BY <1>5 DEF StartSession, Call
  <2>3. call'.pc \in {"next", "ended", "summary"}
    BY <2>2, NewCallSync
  <2> QED
    BY <2>1, <2>3, OffDuty DEF OrderInv, GuardInv, SyncOK, Engaged
<1>6. CASE WorkerPanics \/ (MachineCrash /\ UNCHANGED log)
  <2>1. /\ motor' = IdleMotor /\ call'.pc = "off" /\ UNCHANGED log
        /\ DOMAIN seen' = DOMAIN seen /\ seen'.optimistic = seen.optimistic
    BY <1>6 DEF WorkerPanics, PanicReset, MachineCrash, RebootAndRecover, IdleCall, OrderInv, OrderOK, NothingSeen
  <2> QED
    BY <2>1, OffDuty DEF Engaged
<1>7. CASE MachineCrash /\ log' # log
  <2>1. /\ motor' = IdleMotor /\ call'.pc = "off" /\ TornWrites
        /\ DOMAIN seen' = DOMAIN seen
    BY <1>7 DEF MachineCrash, RebootAndRecover, IdleCall, OrderInv, OrderOK, NothingSeen
  <2>2. motor'.reports = <<>> /\ Ordered(<<>>)
    BY <2>1, NothingReported, DiscoveryIsOrdered DEF IdleMotor, Unrejected
  <2> QED
    BY <2>1, <2>2 DEF OrderInv, OrderOK, Engaged
<1> QED
  BY <1>1, <1>2, <1>3, <1>4, <1>5, <1>6, <1>7

LEMMA StillOrder ==
    ASSUME OrderInv, UNCHANGED <<motor, log, call, seen>>, UNCHANGED forge
    PROVE  OrderOK'
  BY DEF OrderInv, OrderOK, RejectionRecorded, RejectedInQualification, RejectionOutlivesOptimism, RejectionFirst,
         Ordered, AllDiscovery, Unrejected, Candidate, obs

LEMMA OrderNext ==
    ASSUME OrderInv, [Next]_vars
    PROVE  OrderInv'
<1>1. GuardInv'
  BY GuardNext DEF OrderInv
<1>2. CASE UNCHANGED vars
  BY <1>1, <1>2, StillOrder DEF OrderInv, vars
<1>3. CASE Search
  BY <1>1, <1>3, NextCandidateOrder, MotorRunsOrder, DiscoveryDwellOrder, StartFailedOrder, RecheckOrder,
     AnalyseOrder, QualificationOrder, CleanupOrder, PersistOrderKept, RestOrder DEF Search, OrderInv
<1>4. CASE Environment
  <2>1. CASE StopPressed
    BY <1>1, <2>1, StillOrder DEF OrderInv, StopPressed, mvars
  <2> QED
    BY <1>1, <1>4, <2>1, RestOrder DEF Environment, OrderInv
<1> QED
  BY <1>2, <1>3, <1>4 DEF Next

LEMMA OrderInit == Init => OrderInv
<1>1. Init => GuardInv
  BY MotorInitGuarded, CallFields DEF Init, GuardInv, SyncOK, MotorInit, IdleCall, IdleForge, IdleMotor
<1>2. Init => motor.reports = <<>> /\ call.pc = "off" /\ log.torn = FALSE /\ seen = NothingSeen
  BY DEF Init, MotorInit, IdleMotor, IdleCall, EmptyLog
<1>3. Init => RejectionOutlivesOptimism
  BY <1>2 DEF RejectionOutlivesOptimism, NothingSeen
<1>4. Ordered(<<>>)
  BY NothingReported, DiscoveryIsOrdered DEF Unrejected
<1> QED
  BY <1>1, <1>2, <1>3, <1>4 DEF OrderInv, OrderOK, Engaged

(* However often the driver or the disk fails, and wherever the machine    *)
(* goes down between two lines, a discovery that the heavy load then       *)
(* rejected is on record only beside its rejection                         *)
(* (f2_candidate_persist_order).  A line cut in two can swallow the        *)
(* rejection that is written after it.                                     *)
THEOREM RejectionIsFirst ==
    ASSUME ~ TornWrites
    PROVE  Spec => []RejectionOutlivesOptimism
<1>1. OrderInv /\ [Next]_vars => OrderInv'
  BY OrderNext
<1>2. OrderInv => RejectionOutlivesOptimism
  BY DEF OrderInv, OrderOK
<1> QED
  BY OrderInit, <1>1, <1>2, PTL DEF Spec

-----------------------------------------------------------------------------
(* Where the evidence of a run stands: every pair it qualified is above    *)
(* every pair it saw fail, because the call never goes back down.          *)

(* What a report is worth once it is a line of the log.                    *)
BadLine(r) == MapOutcome(r.outcome, r.kind) \in BadOutcomes
PassLine(r) == r.kind = "Qualification" /\ r.outcome = "Validated"
GoodLine(r) == r.kind = "Discovery" /\ r.outcome = "Validated" /\ r.confirmed

(* A clock drop comes with the power it was measured at.                   *)
Measured(r) == r.outcome = "ClockDrop" => r.p99 > 0 /\ ~ r.thermal

Lines == Reports(call.reports) \cup Reports(motor.reports)

Queued == IF call.pc = "persist" THEN Reports(call.queue) ELSE {}

OfRun(run) == {o \in obs : o.run = run}

Own == OfRun(forge.run)

EvidentIn(E, v) == \E o \in E : o.anchor = v /\ IsCurrentDiscoveryEvidence(o) /\ IsValidated(o)

Planned == Reports(Plan)

AtCandidate == {"persist", "judge"}
Live == {"next"} \cup Engaged \cup AtCandidate

Descending(s) == \A m, n \in DOMAIN s : m < n => s[m] > s[n]

(* The index of the failure that the call knows below it, or the end.      *)
Limit ==
    IF call.local THEN IF call.failed # 0 THEN call.failed ELSE Len(call.cands) + 1
    ELSE IF call.bracket # <<>> THEN call.bracket[2] ELSE Len(call.cands) + 1

(* Every candidate still to come is above v, or below it.                  *)
Above(v) == \A k \in DOMAIN call.cands : k < Limit => call.cands[k] > v
Below(v) == \A k \in DOMAIN call.cands : (call.local => k >= call.i) => v > call.cands[k]

IndexOK ==
    /\ call.cands \in Seq(Planned)
    /\ Descending(call.cands)
    /\ call.i \in Nat \ {0} /\ call.jumped \in Nat /\ call.failed \in Nat
    /\ call.bracket = <<>> \/ call.bracket \in (Nat \ {0}) \X Nat
    /\ call.pc \in Engaged \cup AtCandidate => call.i <= Len(call.cands) /\ call.i < Limit
    /\ call.pc \in Live => IF call.local THEN call.bracket = <<>> /\ call.jumped = 0 ELSE call.failed = 0
    /\ call.pc = "next" => IF call.local THEN call.i <= Limit ELSE call.bracket # <<>> => call.i < Limit

Stocked ==
    /\ forge.run \in Nat /\ forge.resume \in BOOLEAN
    /\ DOMAIN log = DOMAIN EmptyLog
    /\ \A o \in obs : /\ o.run \in Nat /\ o.run <= forge.run /\ o.target = Target
                      /\ o.anchor \in Planned /\ o.kind # "ApplyQualification"

(* The reports of a candidate whose cleanup went well agree with what the  *)
(* call makes of them.                                                     *)
Sound(rs, verdict, found, broken) ==
    /\ (\E r \in rs : PassLine(r)) =>
          /\ \A r \in rs : ~ BadLine(r)
          /\ \E r \in rs : GoodLine(r)
          /\ verdict = "Qualified" /\ found.outcome = "Validated"
    /\ (\E r \in rs : BadLine(r)) /\ ~ broken =>
          verdict # "Qualified" /\ (verdict = "none" => found.cap # "NearCap")

Ended == {"reset", "blacklist", "clear", "done"}

Reported ==
    /\ DOMAIN call.found = DOMAIN NoAnalysis
    /\ \A r \in Lines \cup Queued : r.kind # "ApplyQualification"
    /\ motor.clean => motor.pc = "done" /\ \A r \in Reports(motor.reports) : r.clean
    /\ call.pc \in Engaged /\ ~ call.broken => \A r \in Reports(call.reports) : r.clean
    /\ call.pc \in {"dwell", "recheck"} => ~ call.broken
    /\ call.pc \in {"dwell", "recheck", "analyse"} => \A r \in Lines : Measured(r)
    /\ call.pc = "dwell" /\ motor.pc = "active" => motor.reports = <<>>
    /\ call.pc \in {"dwell", "recheck"} /\ motor.pc \in Ended => motor.reports # <<>>
    /\ call.pc = "recheck" => motor.pc \in Ended
    /\ call.pc = "analyse" => /\ motor.pc \in {"active", "done", "idle"}
                              /\ motor.pc = "active" => Len(motor.reports) = 1
                              /\ motor.pc = "done" => call.broken
    /\ call.pc \in {"analyse", "qualify", "cleanup"} => \E r \in Lines : r.kind = "Discovery"
    /\ call.pc = "qualify" =>
          /\ ~ call.broken /\ call.found.outcome = "Validated"
          /\ \A r \in Lines : ~ BadLine(r) /\ ~ PassLine(r)
          /\ \E r \in Lines : GoodLine(r)
    /\ call.pc = "cleanup" =>
          /\ motor.pc \in Ended \cup {"idle"}
          /\ (motor.pc = "done" => motor.clean) => Sound(Lines, call.verdict, call.found, call.broken)

(* A pass comes before the discovery that it stands on.                    *)
PassBeforeGood(queue) ==
    \A m \in DOMAIN queue : PassLine(queue[m]) =>
        \E n \in DOMAIN queue : m < n /\ GoodLine(queue[n]) /\ queue[n].clean

Recorded ==
    /\ call.pc \in AtCandidate =>
          LET pass == \/ \E o \in Own : o.anchor = Candidate /\ IsCurrentQualificationPass(o)
                      \/ \E r \in Queued : PassLine(r)
              bad  == \/ \E o \in Own : o.anchor = Candidate /\ IsBad(o)
                      \/ \E r \in Queued : BadLine(r)
          IN /\ ~ (pass /\ bad)
             /\ pass /\ ~ call.broken => call.verdict = "Qualified" /\ call.found.outcome = "Validated"
             /\ bad /\ ~ call.broken =>
                    call.verdict # "Qualified" /\ (call.verdict = "none" => call.found.cap # "NearCap")
    /\ call.pc = "persist" =>
          /\ call.queue \in Seq(ReportType) /\ call.queue # <<>>
          /\ ~ call.broken => PassBeforeGood(call.queue)

(* The run can still go on: nothing is broken, nothing was aborted.        *)
Sane ==
    \/ /\ forge.pc = "searching"
       /\ ~ (call.pc \in AtCandidate /\ call.broken)
       /\ ~ (call.pc \in {"summary", "ended"} /\ call.aborted)
    \/ forge.pc = "idle" /\ forge.paused

(* The discovery of v is on record, or the next lines are to bring it.     *)
Grounded(v) ==
    \/ EvidentIn(Own, v)
    \/ call.pc = "persist" /\ v = Candidate /\ \E r \in Queued : GoodLine(r) /\ r.clean

Standing ==
    /\ \A o, b \in Own : IsCurrentQualificationPass(o) /\ IsBad(b) => o.anchor > b.anchor
    /\ call.pc \in Live => \A o \in Own :
          /\ IsBad(o) => Above(o.anchor) \/ (call.pc \in AtCandidate /\ o.anchor = Candidate)
          /\ IsCurrentQualificationPass(o) => Below(o.anchor) \/ (call.pc \in AtCandidate /\ o.anchor = Candidate)
    /\ Sane => \A o \in Own : IsCurrentQualificationPass(o) => Grounded(o.anchor)
    /\ log.torn /\ Sane => Own = {}
    /\ call.rejected => /\ call.pc = "ended" /\ ~ call.aborted
                        /\ \A o \in Own : ~ IsCurrentQualificationPass(o)
    /\ call.sustainable => /\ call.pc = "ended"
                           /\ \E o \in Own : IsCurrentQualificationPass(o)

EvidenceInv == OrderInv /\ IndexOK /\ Stocked /\ Reported /\ Recorded /\ Standing

-----------------------------------------------------------------------------
(* The operators the evidence goes through.                                *)

(* A piece is the sequence from its first to its last element of S.        *)
LEMMA PieceIs ==
    ASSUME NEW T, NEW s \in Seq(T), NEW S
    PROVE  /\ Piece(s, S) \in Seq(T)
           /\ \E d \in Nat :
                 /\ \A k \in DOMAIN Piece(s, S) : k + d \in DOMAIN s /\ Piece(s, S)[k] = s[k + d]
                 /\ \A n \in DOMAIN s : s[n] \in S => n - d \in DOMAIN Piece(s, S)
                 /\ \A k \in DOMAIN Piece(s, S) : \E m, n \in DOMAIN s :
                       s[m] \in S /\ s[n] \in S /\ m <= k + d /\ k + d <= n
<1> DEFINE mine == {n \in DOMAIN s : s[n] \in S}
           p == Piece(s, S)
<1>1. CASE mine = {}
  <2>1. p = <<>>
    BY <1>1 DEF Piece
  <2> HIDE DEF p
  <2>2. p \in Seq(T) /\ DOMAIN p = {} /\ 0 \in Nat
    BY <2>1
  <2>3. \A n \in DOMAIN s : s[n] \notin S
    BY <1>1
  <2> QED
    BY <2>2, <2>3 DEF p
<1>2. CASE mine # {}
  <2> DEFINE a == Min(mine)
             b == Max(mine)
  <2>1. mine \in SUBSET (0 .. Len(s)) /\ mine \in SUBSET Nat /\ Len(s) \in Nat
        /\ DOMAIN s = 1 .. Len(s) /\ mine \subseteq 1 .. Len(s)
    OBVIOUS
  <2>2. a \in mine /\ b \in mine /\ \A n \in mine : a <= n /\ n <= b
    BY <1>2, <2>1, MinMember, MaxMember
  <2>3. p = SubSeq(s, a, b)
    BY <1>2 DEF Piece
  <2>4. s[a] \in S /\ s[b] \in S
    BY <2>2
  <2>5. \A n \in DOMAIN s : s[n] \in S => n \in mine
    OBVIOUS
  <2> HIDE DEF mine, a, b, p
  <2>6. a \in 1 .. Len(s) /\ b \in 1 .. Len(s) /\ a <= b
    BY <2>1, <2>2
  <2>7. /\ SubSeq(s, a, b) \in Seq(T) /\ Len(SubSeq(s, a, b)) = b - a + 1
        /\ \A k \in 1 .. b - a + 1 : SubSeq(s, a, b)[k] = s[a + k - 1]
    BY <2>6
  <2>8. /\ p \in Seq(T) /\ DOMAIN p = 1 .. b - a + 1
        /\ \A k \in 1 .. b - a + 1 : p[k] = s[a + k - 1]
    BY <2>3, <2>6, <2>7
  <2>9. a - 1 \in Nat /\ \A k : k \in Int => k + (a - 1) = a + k - 1
    BY <2>6
  <2>10. \A k \in DOMAIN p : /\ k + (a - 1) \in DOMAIN s /\ p[k] = s[k + (a - 1)]
                             /\ a <= k + (a - 1) /\ k + (a - 1) <= b
    BY <2>1, <2>6, <2>8, <2>9
  <2>11. \A n \in DOMAIN s : s[n] \in S => n - (a - 1) \in DOMAIN p
    BY <2>1, <2>2, <2>5, <2>6, <2>8
  <2>12. a \in DOMAIN s /\ b \in DOMAIN s
    BY <2>1, <2>6
  <2> QED
    BY <2>4, <2>8, <2>9, <2>10, <2>11, <2>12 DEF p
<1> QED
  BY <1>1, <1>2

(* A descent cut at a bound keeps to that side of it.                      *)
LEMMA CutDescends ==
    ASSUME NEW T \in SUBSET Nat, NEW s \in Seq(T), Descending(s), NEW S,
           \A x \in T, y \in T, z \in T : x \in S /\ z \in S /\ x >= y /\ y >= z => y \in S
    PROVE  /\ Piece(s, S) \in Seq(T) /\ Descending(Piece(s, S))
           /\ \A k \in DOMAIN Piece(s, S) : Piece(s, S)[k] \in S
<1> DEFINE p == Piece(s, S)
<1>1. p \in Seq(T)
  BY PieceIs
<1>2. PICK d \in Nat :
         /\ \A k \in DOMAIN p : k + d \in DOMAIN s /\ p[k] = s[k + d]
         /\ \A k \in DOMAIN p : \E m, n \in DOMAIN s :
               s[m] \in S /\ s[n] \in S /\ m <= k + d /\ k + d <= n
  BY PieceIs
<1> HIDE DEF p
<1>3. DOMAIN p \subseteq Nat /\ DOMAIN s \subseteq Nat /\ \A n \in DOMAIN s : s[n] \in T /\ s[n] \in Nat
  <2>1. DOMAIN s = 1 .. Len(s) /\ DOMAIN p = 1 .. Len(p)
    BY <1>1
  <2>2. \A n \in DOMAIN s : s[n] \in T
    OBVIOUS
  <2>3. T \subseteq Nat /\ 1 .. Len(s) \subseteq Nat /\ 1 .. Len(p) \subseteq Nat
    BY <1>1
  <2> QED
    BY <2>1, <2>2, <2>3
<1>4. \A m, n \in DOMAIN s : m <= n => s[m] >= s[n]
  <2> SUFFICES ASSUME NEW m \in DOMAIN s, NEW n \in DOMAIN s, m <= n PROVE s[m] >= s[n]
    OBVIOUS
  <2>1. m \in Nat /\ n \in Nat /\ s[m] \in Nat /\ s[n] \in Nat
    BY <1>3
  <2>2. CASE m = n
    BY <2>1, <2>2
  <2>3. CASE m < n
    BY <2>1, <2>3 DEF Descending
  <2> QED
    BY <2>1, <2>2, <2>3
<1>5. \A k \in DOMAIN p : p[k] \in S
  <2> SUFFICES ASSUME NEW k \in DOMAIN p PROVE p[k] \in S
    OBVIOUS
  <2>1. PICK m \in DOMAIN s, n \in DOMAIN s : s[m] \in S /\ s[n] \in S /\ m <= k + d /\ k + d <= n
    BY <1>2
  <2>2. k + d \in DOMAIN s /\ p[k] = s[k + d]
    BY <1>2
  <2>3. s[m] >= s[k + d] /\ s[k + d] >= s[n]
    BY <1>4, <2>1, <2>2
  <2> QED
    BY <1>3, <2>1, <2>2, <2>3
<1>6. Descending(p)
  <2> SUFFICES ASSUME NEW m \in DOMAIN p, NEW n \in DOMAIN p, m < n PROVE p[m] > p[n]
    BY DEF Descending
  <2>1. m + d \in DOMAIN s /\ n + d \in DOMAIN s /\ m + d < n + d
    BY <1>2, <1>3
  <2> QED
    BY <1>2, <2>1 DEF Descending
<1> QED
  BY <1>1, <1>5, <1>6 DEF p

(* The plan has a top.                                                     *)
LEMMA PlanHasTop ==
    /\ Planned \in SUBSET Bins /\ Planned \in SUBSET Nat /\ Plan \in Seq(Planned) /\ Descending(Plan)
    /\ \E top \in Nat : Planned \subseteq 0 .. top
<1>1. Plan \in Seq(Bins) /\ Bins \subseteq Nat /\ \A m, n \in DOMAIN Plan : m < n => Plan[m] > Plan[n]
  BY PlanDescends
<1>2. Planned \in SUBSET Bins
  BY <1>1 DEF Planned, Reports
<1>3. Plan \in Seq(Planned)
  <2>1. \A n \in 1 .. Len(Plan) : Plan[n] \in Planned
    BY <1>1 DEF Planned, Reports
  <2>2. Plan = [n \in 1 .. Len(Plan) |-> Plan[n]] /\ Len(Plan) \in Nat
    BY <1>1
  <2> QED
    BY <2>1, <2>2, SeqByElements
<1>4. \E top \in Nat : Planned \subseteq 0 .. top
  <2>1. CASE Plan = <<>>
    <3>1. Planned = {} /\ 0 \in Nat
      BY <2>1 DEF Planned, Reports
    <3> QED
      BY <3>1
  <2>2. CASE Plan # <<>>
    <3>1. 1 \in DOMAIN Plan /\ DOMAIN Plan \subseteq Nat \ {0} /\ \A n \in DOMAIN Plan : Plan[n] \in Nat
      <4>1. Len(Plan) \in Nat /\ DOMAIN Plan = 1 .. Len(Plan) /\ Len(Plan) # 0
        BY <1>1, <2>2
      <4>2. \A n \in DOMAIN Plan : Plan[n] \in Bins
        BY <1>1
      <4>3. \A n \in DOMAIN Plan : Plan[n] \in Nat
        BY <1>1, <4>2, Zenon
      <4>4. 1 \in 1 .. Len(Plan) /\ 1 .. Len(Plan) \subseteq Nat \ {0}
        BY <4>1
      <4> QED
        BY <4>1, <4>3, <4>4, Zenon
    <3>2. \A n \in DOMAIN Plan : Plan[1] >= Plan[n]
      BY <1>1, <3>1
    <3>3. Plan[1] \in Nat /\ Planned \subseteq 0 .. Plan[1]
      BY <3>1, <3>2 DEF Planned, Reports
    <3> QED
      BY <3>3
  <2> QED
    BY <2>1, <2>2
<1> QED
  BY <1>1, <1>2, <1>3, <1>4 DEF Descending

LEMMA GreatestOfPlan ==
    ASSUME NEW S \in SUBSET Planned
    PROVE  /\ S = {} => MaxOrNone(S) = None
           /\ S # {} => MaxOrNone(S) \in S /\ MaxOrNone(S) # None /\ \A v \in S : MaxOrNone(S) >= v
<1>1. PICK top \in Nat : S \subseteq 0 .. top
  BY PlanHasTop
<1>2. S # {} => Max(S) \in S /\ \A v \in S : Max(S) >= v
  BY <1>1, MaxMember
<1>3. \A v \in S : v # -1
  BY <1>1
<1>4. CASE S = {}
  BY <1>4 DEF MaxOrNone
<1>5. CASE S # {}
  <2>1. MaxOrNone(S) = Max(S)
    BY <1>5 DEF MaxOrNone
  <2> QED
    BY <1>2, <1>3, <1>5, <2>1 DEF None
<1> QED
  BY <1>4, <1>5

LEMMA LeastOf ==
    ASSUME NEW S \in SUBSET Nat
    PROVE  /\ S = {} => MinOrNone(S) = None
           /\ S # {} => MinOrNone(S) \in S /\ MinOrNone(S) # None /\ \A v \in S : MinOrNone(S) <= v
<1>1. CASE S = {}
  BY <1>1 DEF MinOrNone
<1>2. CASE S # {}
  <2>1. MinOrNone(S) = Min(S) /\ Min(S) \in S /\ \A y \in S : Min(S) <= y
    BY <1>2, MinMember DEF MinOrNone
  <2>2. \A v \in S : v # -1
    OBVIOUS
  <2> QED
    BY <1>2, <2>1, <2>2 DEF None
<1> QED
  BY <1>1, <1>2

(* Which bound the failures of some evidence set.                          *)
Bounded(E) ==
    \A o \in E : o.run \in Nat /\ o.target = Target /\ o.anchor \in Planned /\ o.kind # "ApplyQualification"

LEMMA FirstBadBounds ==
    ASSUME NEW E, Bounded(E)
    PROVE  /\ FirstBad(E, Target) = None => \A o \in E : ~ IsBad(o)
           /\ FirstBad(E, Target) # None => /\ FirstBad(E, Target) \in Planned
                                            /\ \A o \in E : IsBad(o) => FirstBad(E, Target) >= o.anchor
                                            /\ \E o \in E : IsBad(o) /\ o.anchor = FirstBad(E, Target)
<1>1. BadAnchors(E, Target) \in SUBSET Planned
  BY DEF BadAnchors, Bounded
<1>2. \A o \in E : IsBad(o) => o.anchor \in BadAnchors(E, Target)
  BY DEF BadAnchors, Bounded
<1>3. \A v \in BadAnchors(E, Target) : \E o \in E : IsBad(o) /\ o.anchor = v
  BY DEF BadAnchors
<1> QED
  BY <1>1, <1>2, <1>3, GreatestOfPlan DEF FirstBad

(* A voltage above every failure is above the highest one.                 *)
LEMMA AboveThem ==
    ASSUME NEW E, Bounded(E), NEW v, \A o \in E : IsBad(o) => v > o.anchor
    PROVE  AboveFailures(E, Target, v)
  BY FirstBadBounds DEF AboveFailures

-----------------------------------------------------------------------------
(* What a new call may try.                                                *)

Reused(resume, v) == IF RefreshDiscovery(resume) THEN None ELSE v

ToTry(prior, resume, start) ==
    ResumeCandidates(
        Piece(Plan, {v \in Bins : start = None \/ v <= start}),
        Reused(resume, LastDiscoveryGood(prior, Target)),
        FirstBad(prior, Target),
        Reused(resume, MinOrNone(PowerBoundAnchors(prior))))

LEMMA NewCallTries ==
    ASSUME NEW run, NEW resume, NEW start
    PROVE  NewCall(run, resume, start).cands = ToTry(ResumeEligible(run, resume), resume, start)
  BY CallFields DEF NewCall, AbortWith, ToTry, Reused

LEMMA NewCallFields ==
    ASSUME NEW run, NEW resume, NEW start, call' = NewCall(run, resume, start)
    PROVE  /\ DOMAIN call' = DOMAIN IdleCall /\ call'.pc \in {"next", "ended", "summary"}
           /\ call'.i = 1 /\ call'.jumped = 0 /\ call'.failed = 0 /\ call'.bracket = <<>> /\ ~ call'.local
           /\ call'.reports = <<>> /\ ~ call'.broken /\ call'.found = NoAnalysis
           /\ ~ call'.rejected /\ ~ call'.sustainable
<1>1. DOMAIN call' = DOMAIN IdleCall /\ call'.pc \in {"next", "ended", "summary"}
  BY NewCallSync
<1>2. /\ call'.i = 1 /\ call'.jumped = 0 /\ call'.failed = 0 /\ call'.bracket = <<>> /\ ~ call'.local
      /\ call'.reports = <<>> /\ ~ call'.broken
  BY DEF NewCall, AbortWith, IdleCall
<1>3. call'.found = NoAnalysis /\ ~ call'.rejected /\ ~ call'.sustainable
  BY DEF NewCall, AbortWith, IdleCall
<1> QED
  BY <1>1, <1>2, <1>3, Zenon

(* The best discovery of a resumed run is at or below each of its passes.  *)
LEMMA GoodBelowPasses ==
    ASSUME NEW E, Bounded(E), NEW o \in E, EvidentIn(E, o.anchor),
           \A b \in E : IsBad(b) => o.anchor > b.anchor
    PROVE  /\ LastDiscoveryGood(E, Target) \in Nat
           /\ LastDiscoveryGood(E, Target) # None /\ LastDiscoveryGood(E, Target) <= o.anchor
<1> DEFINE goods == {x.anchor : x \in {y \in E :
               /\ y.target = Target /\ IsValidated(y) /\ IsCurrentDiscoveryEvidence(y)
               /\ AboveFailures(E, Target, y.anchor)}}
<1>1. PICK x \in E : x.anchor = o.anchor /\ IsCurrentDiscoveryEvidence(x) /\ IsValidated(x)
  BY DEF EvidentIn
<1>2. AboveFailures(E, Target, x.anchor)
  BY <1>1, AboveThem
<1>3. goods \in SUBSET Nat
  BY PlanHasTop DEF Bounded
<1>4. o.anchor \in goods
  BY <1>1, <1>2 DEF Bounded
<1>5. LastDiscoveryGood(E, Target) = MinOrNone(goods)
  BY DEF LastDiscoveryGood
<1> HIDE DEF goods
<1>6. MinOrNone(goods) \in goods /\ MinOrNone(goods) # None /\ MinOrNone(goods) <= o.anchor
  BY <1>3, <1>4, LeastOf
<1> QED
  BY <1>3, <1>5, <1>6

(* A new call stays above the failures of its run and, resumed, below what *)
(* the run has qualified.                                                  *)
LEMMA NewCallStands ==
    ASSUME Bounded(obs), NEW run, NEW resume \in BOOLEAN, NEW start,
           ~ resume => \A o \in OfRun(run) : ~ IsCurrentQualificationPass(o),
           resume => \A o \in OfRun(run) : IsCurrentQualificationPass(o) =>
                         /\ EvidentIn(OfRun(run), o.anchor)
                         /\ \A b \in OfRun(run) : IsBad(b) => o.anchor > b.anchor
    PROVE  LET cands == NewCall(run, resume, start).cands
           IN /\ cands \in Seq(Planned) /\ Descending(cands)
              /\ \A o \in OfRun(run) : /\ IsBad(o) => \A k \in DOMAIN cands : cands[k] > o.anchor
                                       /\ IsCurrentQualificationPass(o) => \A k \in DOMAIN cands : o.anchor > cands[k]
<1> DEFINE prior   == ResumeEligible(run, resume)
           E       == OfRun(run)
           planned == Piece(Plan, {v \in Bins : start = None \/ v <= start})
           good    == Reused(resume, LastDiscoveryGood(prior, Target))
           bad     == FirstBad(prior, Target)
           bound   == Reused(resume, MinOrNone(PowerBoundAnchors(prior)))
           cands   == NewCall(run, resume, start).cands
           below   == MinOrNone({good, bound} \ {None})
           lower   == {v \in Bins : below = None \/ v < below}
           upper   == {v \in Bins : v > bad}
<1>1. cands = ResumeCandidates(planned, good, bad, bound)
  <2>1. NewCall(run, resume, start).cands = ToTry(ResumeEligible(run, resume), resume, start)
    BY NewCallTries
  <2> QED
    BY <2>1, Zenon DEF ToTry
<1>2. E \subseteq prior /\ prior \subseteq obs /\ (resume => prior = E)
  BY DEF ResumeEligible, OfRun
<1>3. Bounded(prior) /\ Bounded(E)
  BY <1>2 DEF Bounded
<1>4. planned \in Seq(Planned) /\ Descending(planned)
  <2>1. planned \in Seq(Planned)
    BY PieceIs, PlanHasTop
  <2>2. PICK d \in Nat : \A k \in DOMAIN planned : k + d \in DOMAIN Plan /\ planned[k] = Plan[k + d]
    <3> DEFINE S == {v \in Bins : start = None \/ v <= start}
    <3> HIDE DEF S
    <3>1. \E d \in Nat : \A k \in DOMAIN Piece(Plan, S) : k + d \in DOMAIN Plan /\ Piece(Plan, S)[k] = Plan[k + d]
      BY PieceIs, PlanHasTop
    <3> QED
      BY <3>1, Zenon DEF S
  <2> HIDE DEF planned
  <2>3. DOMAIN planned = 1 .. Len(planned) /\ Len(planned) \in Nat
    BY <2>1
  <2>4. \A m, n \in DOMAIN planned : m < n => planned[m] > planned[n]
    BY <2>2, <2>3, PlanHasTop DEF Descending
  <2> QED
    BY <2>1, <2>4 DEF Descending
<1>5. /\ bad = None => \A o \in E : ~ IsBad(o)
      /\ bad # None => bad \in Nat /\ \A o \in E : IsBad(o) => bad >= o.anchor
  BY <1>2, <1>3, FirstBadBounds, PlanHasTop
<1>6. \A o \in E : IsCurrentQualificationPass(o) => good \in Nat /\ good # None /\ good <= o.anchor
  BY <1>2, <1>3, GoodBelowPasses DEF Reused, RefreshDiscovery, QualificationPasses
<1>7. bound = None \/ bound \in Nat
  <2>1. PowerBoundAnchors(prior) \in SUBSET Nat
    BY <1>3, PlanHasTop DEF PowerBoundAnchors, ForTarget, Bounded
  <2> QED
    BY <2>1, LeastOf DEF Reused
<1>8. good = None \/ good \in Nat
  <2>1. LastDiscoveryGood(prior, Target) = None \/ LastDiscoveryGood(prior, Target) \in Nat
    <3> DEFINE goods == {x.anchor : x \in {y \in prior :
               /\ y.target = Target /\ IsValidated(y) /\ IsCurrentDiscoveryEvidence(y)
               /\ AboveFailures(prior, Target, y.anchor)}}
    <3>1. goods \in SUBSET Nat
      BY <1>3, PlanHasTop DEF Bounded
    <3>2. LastDiscoveryGood(prior, Target) = MinOrNone(goods)
      BY DEF LastDiscoveryGood
    <3> HIDE DEF goods
    <3> QED
      BY <3>1, <3>2, LeastOf
  <2> QED
    BY <2>1 DEF Reused
<1> HIDE DEF prior, E, planned, good, bad, bound, cands
<1>9. good # None => below \in Nat /\ below # None /\ below <= good
  <2> DEFINE S == {good, bound} \ {None}
  <2>1. S \in SUBSET Nat /\ (good # None => good \in S)
    BY <1>7, <1>8
  <2> QED
    BY <2>1, LeastOf
<1>10. below = None \/ below \in Nat
  <2> DEFINE S == {good, bound} \ {None}
  <2>1. S \in SUBSET Nat
    BY <1>7, <1>8
  <2> QED
    BY <2>1, LeastOf
<1>11. \/ cands = <<>>
       \/ bad # None /\ good = None /\ cands = Piece(planned, upper)
       \/ bad = None /\ cands = Piece(planned, lower)
  BY <1>1 DEF ResumeCandidates
<1>12. \A o \in E : o.anchor \in Planned /\ o.anchor \in Nat
  BY <1>3, PlanHasTop DEF Bounded
<1> HIDE DEF below
<1>13. CASE cands = <<>>
  BY <1>13 DEF Descending, cands, E
<1>14. CASE bad # None /\ good = None /\ cands = Piece(planned, upper)
  <2>1. \A x \in Planned, y \in Planned, z \in Planned : x \in upper /\ z \in upper /\ x >= y /\ y >= z => y \in upper
    BY <1>5, <1>14, PlanHasTop
  <2> HIDE DEF upper
  <2>2. cands \in Seq(Planned) /\ Descending(cands) /\ \A k \in DOMAIN cands : cands[k] \in upper
    BY <1>4, <1>14, <2>1, CutDescends, PlanHasTop
  <2>3. \A k \in DOMAIN cands : cands[k] \in Nat /\ cands[k] > bad
    <3>1. \A v \in upper : v \in Nat /\ v > bad
      BY PlanDescends DEF upper
    <3> QED
      BY <2>2, <3>1, Zenon
  <2>4. \A o \in E : IsBad(o) => \A k \in DOMAIN cands : cands[k] > o.anchor
    BY <1>5, <1>12, <1>14, <2>3
  <2>5. \A o \in E : ~ IsCurrentQualificationPass(o)
    BY <1>6, <1>14
  <2> QED
    BY <2>2, <2>4, <2>5 DEF cands, E
<1>15. CASE bad = None /\ cands = Piece(planned, lower)
  <2>1. \A x \in Planned, y \in Planned, z \in Planned : x \in lower /\ z \in lower /\ x >= y /\ y >= z => y \in lower
    BY <1>10, PlanHasTop
  <2> HIDE DEF lower
  <2>2. cands \in Seq(Planned) /\ Descending(cands) /\ \A k \in DOMAIN cands : cands[k] \in lower
    BY <1>4, <1>15, <2>1, CutDescends, PlanHasTop
  <2>3. \A k \in DOMAIN cands : cands[k] \in Nat /\ (below = None \/ cands[k] < below)
    <3>1. \A v \in lower : v \in Nat /\ (below = None \/ v < below)
      BY PlanDescends DEF lower
    <3> QED
      BY <2>2, <3>1, Zenon
  <2>4. \A o \in E : IsCurrentQualificationPass(o) => \A k \in DOMAIN cands : o.anchor > cands[k]
    BY <1>6, <1>9, <1>12, <2>3
  <2>5. \A o \in E : ~ IsBad(o)
    BY <1>5, <1>15
  <2> QED
    BY <2>2, <2>4, <2>5 DEF cands, E
<1> QED
  BY <1>11, <1>13, <1>14, <1>15

-----------------------------------------------------------------------------
(* The steps around a candidate.                                           *)

LEMMA QualifiedIsPass ==
    ASSUME Stocked
    PROVE  /\ OwnObservations = Own
           /\ \A o \in Own : IsCurrentQualificationPass(o) => o.anchor \in QualifiedAnchors
           /\ QualifiedAnchors # {} => \E o \in Own : IsCurrentQualificationPass(o)
<1>1. OwnObservations = Own
  BY DEF OwnObservations, ForTarget, Own, OfRun, Stocked
<1>2. \A o \in Own : IsCurrentQualificationPass(o) => o.anchor \in QualifiedAnchors
  <2> SUFFICES ASSUME NEW o \in Own, IsCurrentQualificationPass(o) PROVE o.anchor \in QualifiedAnchors
    OBVIOUS
  <2>1. o.anchor \in Bins /\ o.target = Target
    BY PlanHasTop DEF Stocked, Own, OfRun
  <2>2. FullyQualified(Own, Target, o.anchor)
    BY <2>1 DEF FullyQualified, RequiredPatterns, IsCurrentQualificationPass
  <2> QED
    BY <1>1, <2>1, <2>2 DEF QualifiedAnchors
<1>3. QualifiedAnchors # {} => \E o \in Own : IsCurrentQualificationPass(o)
  BY <1>1 DEF QualifiedAnchors, FullyQualified, RequiredPatterns
<1> QED
  BY <1>1, <1>2, <1>3

(* Nothing is under way: the reports are those of the last candidate.      *)
LEMMA RestReported ==
    ASSUME motor'.pc = "idle", motor'.reports = <<>>, ~ motor'.clean, call'.pc \notin Engaged, call'.pc # "persist",
           DOMAIN call'.found = DOMAIN NoAnalysis,
           \A r \in Reports(call'.reports) : r.kind # "ApplyQualification"
    PROVE  Reported'
<1>1. Reports(motor'.reports) = {}
  BY DEF Reports
<1>2. Lines' = Reports(call'.reports) /\ Queued' = {}
  BY <1>1 DEF Lines, Queued
<1> QED
  BY <1>1, <1>2 DEF Reported, Engaged, Ended

(* The motor rests whenever no candidate is under way.                     *)
LEMMA MotorRests ==
    ASSUME EvidenceInv, call.pc \notin Engaged
    PROVE  /\ motor.pc = "idle" /\ motor.reports = <<>> /\ ~ motor.clean /\ DOMAIN call = DOMAIN IdleCall
           /\ DOMAIN call.found = DOMAIN NoAnalysis
           /\ \A r \in Reports(call.reports) : r.kind # "ApplyQualification"
  BY DEF EvidenceInv, OrderInv, OrderOK, GuardInv, SyncOK, Reported, Lines

(* The call is with a candidate, and was already or has just come to it.   *)
LEMMA WithCandidate ==
    ASSUME EvidenceInv, UNCHANGED <<log, forge>>, call.pc \in {"next"} \cup Engaged, call'.pc \in Engaged,
           call'.cands = call.cands, call'.i = call.i, call'.local = call.local, call'.bracket = call.bracket,
           call'.failed = call.failed, call'.jumped = call.jumped,
           call'.rejected = call.rejected, call'.sustainable = call.sustainable,
           call.pc = "next" => call.i <= Len(call.cands) /\ call.i < Limit
    PROVE  IndexOK' /\ Stocked' /\ Recorded' /\ Standing'
<1>1. UNCHANGED obs /\ Own' = Own
  BY DEF obs, Own, OfRun
<1>2. call.pc \in Live /\ call'.pc \in Live /\ call'.pc \notin AtCandidate /\ call'.pc \notin {"summary", "ended", "next"}
      /\ call.pc \notin AtCandidate /\ call.pc \notin {"summary", "ended"}
  BY DEF Live, Engaged, AtCandidate
<1>3. Limit' = Limit
  BY DEF Limit
<1>4. IndexOK'
  BY <1>2, <1>3 DEF EvidenceInv, IndexOK, Descending
<1>5. Stocked'
  BY <1>1 DEF EvidenceInv, Stocked
<1>6. Recorded'
  BY <1>2 DEF Recorded, AtCandidate
<1>7. \A v : (Above(v)' <=> Above(v)) /\ (Below(v)' <=> Below(v))
  BY <1>3 DEF Above, Below
<1>8. Sane' => Sane
  BY <1>2 DEF Sane
<1>9. \A v : Grounded(v) => Grounded(v)'
  BY <1>1, <1>2 DEF Grounded, EvidentIn, AtCandidate
<1>10. ~ call'.rejected /\ ~ call'.sustainable
  BY <1>2 DEF EvidenceInv, Standing
<1>11. \A o, b \in Own' : IsCurrentQualificationPass(o) /\ IsBad(b) => o.anchor > b.anchor
  BY <1>1 DEF EvidenceInv, Standing
<1>12. \A o \in Own' : (IsBad(o) => Above(o.anchor)') /\ (IsCurrentQualificationPass(o) => Below(o.anchor)')
  BY <1>1, <1>2, <1>7 DEF EvidenceInv, Standing
<1>13. Sane' => \A o \in Own' : IsCurrentQualificationPass(o) => Grounded(o.anchor)'
  BY <1>1, <1>8, <1>9 DEF EvidenceInv, Standing
<1>14. log'.torn /\ Sane' => Own' = {}
  BY <1>1, <1>8 DEF EvidenceInv, Standing
<1> QED
  BY <1>4, <1>5, <1>6, <1>10, <1>11, <1>12, <1>13, <1>14 DEF Standing

(* The call has no candidate any more.                                     *)
LEMMA WithoutCandidate ==
    ASSUME EvidenceInv, UNCHANGED obs, DOMAIN log' = DOMAIN log, forge'.run = forge.run, forge'.resume \in BOOLEAN,
           call'.pc \in {"summary", "off"},
           call'.cands = call.cands \/ call'.cands = <<>>,
           call'.i \in Nat \ {0}, call'.jumped \in Nat, call'.failed \in Nat,
           call'.bracket = <<>> \/ call'.bracket \in (Nat \ {0}) \X Nat,
           ~ call'.rejected, ~ call'.sustainable,
           Sane' => Sane /\ call.pc # "persist" /\ UNCHANGED log
    PROVE  IndexOK' /\ Stocked' /\ Recorded' /\ Standing'
<1>1. Own' = Own
  BY DEF Own, OfRun
<1>2. call'.pc \notin Live /\ call'.pc \notin AtCandidate /\ call'.pc \notin Engaged /\ call'.pc # "next"
      /\ call'.pc # "persist"
  BY DEF Live, Engaged, AtCandidate
<1>3. IndexOK'
  <2>1. <<>> \in Seq(Planned) /\ Descending(<<>>)
    BY DEF Descending
  <2>2. call'.cands \in Seq(Planned) /\ Descending(call'.cands)
    BY <2>1 DEF EvidenceInv, IndexOK
  <2> QED
    BY <1>2, <2>2 DEF IndexOK, Descending
<1>4. Stocked'
  BY DEF EvidenceInv, Stocked
<1>5. Recorded'
  BY <1>2 DEF Recorded, AtCandidate
<1>6. Sane' => \A o \in Own' : IsCurrentQualificationPass(o) => Grounded(o.anchor)'
  BY <1>1 DEF EvidenceInv, Standing, Grounded, EvidentIn
<1>7. log'.torn /\ Sane' => Own' = {}
  BY <1>1 DEF EvidenceInv, Standing
<1>8. \A o, b \in Own' : IsCurrentQualificationPass(o) /\ IsBad(b) => o.anchor > b.anchor
  BY <1>1 DEF EvidenceInv, Standing
<1> QED
  BY <1>2, <1>3, <1>4, <1>5, <1>6, <1>7, <1>8 DEF Standing

(* A call starts: above the failures, and resumed also below the passes.   *)
LEMMA CallStarts ==
    ASSUME EvidenceInv, UNCHANGED log, forge'.pc = "searching", forge'.resume \in BOOLEAN, forge'.run \in Nat,
           forge'.run >= forge.run, motor' = motor, motor.pc = "idle",
           NEW start, call' = NewCall(forge'.run, forge'.resume, start),
           \/ \A o \in OfRun(forge'.run) : ~ IsCurrentQualificationPass(o)
           \/ forge'.run = forge.run /\ forge'.resume,
           \A o \in OfRun(forge'.run) : IsCurrentQualificationPass(o) =>
               /\ EvidentIn(OfRun(forge'.run), o.anchor)
               /\ \A b \in OfRun(forge'.run) : IsBad(b) => o.anchor > b.anchor,
           log.torn => OfRun(forge'.run) = {}
    PROVE  IndexOK' /\ Stocked' /\ Reported' /\ Recorded' /\ Standing'
<1> DEFINE E == OfRun(forge'.run)
           cands == NewCall(forge'.run, forge'.resume, start).cands
<1>1. UNCHANGED obs /\ Own' = E
  BY DEF obs, Own, OfRun
<1>2. Bounded(obs)
  BY DEF EvidenceInv, Stocked, Bounded
<1>3. /\ cands \in Seq(Planned) /\ Descending(cands)
      /\ \A o \in E : /\ IsBad(o) => \A k \in DOMAIN cands : cands[k] > o.anchor
                      /\ IsCurrentQualificationPass(o) => \A k \in DOMAIN cands : o.anchor > cands[k]
  <2> DEFINE run == forge'.run
             resume == forge'.resume
  <2>1. ~ resume => \A o \in OfRun(run) : ~ IsCurrentQualificationPass(o)
    OBVIOUS
  <2> HIDE DEF run, resume
  <2> QED
    BY <1>2, <2>1, NewCallStands DEF run, resume
<1>4. call'.cands = cands
  OBVIOUS
<1> HIDE DEF E, cands
<1>5. /\ DOMAIN call' = DOMAIN IdleCall /\ call'.pc \in {"next", "ended", "summary"}
      /\ call'.i = 1 /\ call'.jumped = 0 /\ call'.failed = 0 /\ call'.bracket = <<>> /\ ~ call'.local
      /\ call'.reports = <<>> /\ ~ call'.broken /\ call'.found = NoAnalysis
      /\ ~ call'.rejected /\ ~ call'.sustainable
  BY NewCallFields
<1>6. Limit' = Len(call'.cands) + 1 /\ Len(call'.cands) \in Nat
  BY <1>3, <1>4, <1>5 DEF Limit
<1>7. call'.pc \notin Engaged /\ call'.pc \notin AtCandidate /\ call'.pc # "persist"
  BY <1>5 DEF Engaged, AtCandidate
<1>8. IndexOK'
  BY <1>3, <1>4, <1>5, <1>6, <1>7 DEF IndexOK
<1>9. Stocked'
  BY <1>1 DEF EvidenceInv, Stocked
<1>10. Reported'
  <2>1. motor.reports = <<>> /\ ~ motor.clean
    BY DEF EvidenceInv, OrderInv, OrderOK, Reported
  <2> QED
    BY <1>5, <1>7, <2>1, RestReported DEF Reports
<1>11. Recorded'
  BY <1>7 DEF Recorded, AtCandidate
<1>12. Standing'
  <2>1. \A o \in E : /\ IsBad(o) => Above(o.anchor)'
                     /\ IsCurrentQualificationPass(o) => Below(o.anchor)'
    BY <1>3, <1>4, <1>5 DEF Above, Below
  <2>2. \A o \in E : IsCurrentQualificationPass(o) => Grounded(o.anchor)'
    BY <1>1 DEF Grounded, EvidentIn, E
  <2>3. \A o, b \in E : IsCurrentQualificationPass(o) /\ IsBad(b) => o.anchor > b.anchor
    BY DEF E
  <2>4. log'.torn => E = {}
    BY DEF E
  <2> QED
    BY <1>1, <1>5, <2>1, <2>2, <2>3, <2>4 DEF Standing
<1> QED
  BY <1>8, <1>9, <1>10, <1>11, <1>12

(* The session, from its start to its last restore.                        *)
LEMMA RetryStands ==
    ASSUME EvidenceInv, FallBack \/ ClimbStart
    PROVE  IndexOK' /\ Stocked' /\ Reported' /\ Recorded' /\ Standing'
<1>1. /\ forge.pc = "searching" /\ call.pc = "ended" /\ call.rejected /\ UNCHANGED <<log, motor>>
      /\ DOMAIN forge = DOMAIN IdleForge
  BY DEF FallBack, ClimbStart, CallEnded, FallsBack, Climbs, mvars, EvidenceInv, OrderInv, GuardInv, SyncOK
<1>2. motor.pc = "idle"
  BY <1>1, MotorRests DEF Engaged
<1>3. forge'.run = forge.run /\ forge'.resume = forge.resume /\ forge'.pc = "searching"
  BY <1>1, CallFields DEF FallBack, ClimbStart, Call, IdleForge
<1>4. \E start : call' = NewCall(forge'.run, forge'.resume, start)
  <2>1. \E start : call' = NewCall(forge.run, forge.resume, start)
    <3>1. CASE FallBack
      <4>1. DOMAIN forge = DOMAIN IdleForge
        BY <1>1
      <4>2. [forge EXCEPT !.fellBack = TRUE].run = forge.run /\ [forge EXCEPT !.fellBack = TRUE].resume = forge.resume
        BY <4>1 DEF IdleForge
      <4>3. call' = NewCall([forge EXCEPT !.fellBack = TRUE].run, [forge EXCEPT !.fellBack = TRUE].resume,
                            forge.conservative)
        BY <3>1 DEF FallBack, Call
      <4> QED
        BY <4>2, <4>3
    <3>2. CASE ClimbStart
      <4> DEFINE f == [forge EXCEPT !.climbs = @ + 1]
      <4>1. f.run = forge.run /\ f.resume = forge.resume
        BY <1>1 DEF IdleForge
      <4>2. call' = NewCall(f.run, f.resume, Min(BinsAbove(call.start)))
        BY <3>2 DEF ClimbStart, Call
      <4> QED
        BY <4>1, <4>2
    <3> QED
      BY <3>1, <3>2
  <2> QED
    BY <1>3, <2>1
<1>5. /\ \A o \in Own : ~ IsCurrentQualificationPass(o)
      /\ ~ call.aborted
  BY <1>1 DEF EvidenceInv, Standing
<1>6. log.torn => Own = {}
  BY <1>1, <1>5 DEF EvidenceInv, Standing, Sane, AtCandidate
<1>7. forge.run \in Nat /\ forge.resume \in BOOLEAN
  BY DEF EvidenceInv, Stocked
<1>8. PICK start : call' = NewCall(forge'.run, forge'.resume, start)
  BY <1>4
<1>9. OfRun(forge'.run) = Own
  BY <1>3 DEF Own
<1> QED
  BY <1>1, <1>2, <1>3, <1>5, <1>6, <1>7, <1>8, <1>9, CallStarts

LEMMA StartStands ==
    ASSUME EvidenceInv, StartSession
    PROVE  IndexOK' /\ Stocked' /\ Reported' /\ Recorded' /\ Standing'
<1>1. forge.pc = "idle" /\ call.pc = "off" /\ UNCHANGED <<log, motor>>
  BY DEF StartSession, EvidenceInv, OrderInv, GuardInv, SyncOK
<1>2. motor.pc = "idle"
  BY <1>1, MotorRests DEF Engaged
<1>3. forge.run \in Nat /\ forge.resume \in BOOLEAN
  BY DEF EvidenceInv, Stocked
<1>4. PICK before \in Befores :
         \/ Call(NewSession(forge.run + 1, FALSE, before), StartOf(before))
         \/ forge.paused /\ Call(NewSession(forge.run, TRUE, before), StartOf(before))
  BY DEF StartSession
<1> DEFINE fresh == NewSession(forge.run + 1, FALSE, before)
           resumed == NewSession(forge.run, TRUE, before)
<1>5. /\ fresh.run = forge.run + 1 /\ fresh.resume = FALSE /\ fresh.pc = "searching"
      /\ resumed.run = forge.run /\ resumed.resume = TRUE /\ resumed.pc = "searching"
  BY DEF NewSession, IdleForge
<1>6. \/ forge' = fresh /\ call' = NewCall(fresh.run, fresh.resume, StartOf(before))
      \/ forge.paused /\ forge' = resumed /\ call' = NewCall(resumed.run, resumed.resume, StartOf(before))
  BY <1>4, Zenon DEF Call
<1> HIDE DEF fresh, resumed
<1>7. /\ \/ forge'.run = forge.run + 1 /\ forge'.resume = FALSE
         \/ forge.paused /\ forge'.run = forge.run /\ forge'.resume = TRUE
      /\ forge'.pc = "searching" /\ call' = NewCall(forge'.run, forge'.resume, StartOf(before))
  <2>1. CASE forge' = fresh /\ call' = NewCall(fresh.run, fresh.resume, StartOf(before))
    <3>1. forge'.run = fresh.run /\ forge'.resume = fresh.resume /\ forge'.pc = fresh.pc
      BY <2>1
    <3>2. call' = NewCall(forge'.run, forge'.resume, StartOf(before))
      BY <2>1, <3>1, Zenon
    <3> QED
      BY <1>5, <3>1, <3>2, Zenon
  <2>2. CASE forge.paused /\ forge' = resumed /\ call' = NewCall(resumed.run, resumed.resume, StartOf(before))
    <3>1. forge'.run = resumed.run /\ forge'.resume = resumed.resume /\ forge'.pc = resumed.pc
      BY <2>2
    <3>2. call' = NewCall(forge'.run, forge'.resume, StartOf(before))
      BY <2>2, <3>1, Zenon
    <3> QED
      BY <1>5, <2>2, <3>1, <3>2, Zenon
  <2> QED
    BY <1>6, <2>1, <2>2
<1>8. CASE forge'.run = forge.run + 1 /\ forge'.resume = FALSE
  <2>1. OfRun(forge'.run) = {}
    BY <1>3, <1>8 DEF OfRun, EvidenceInv, Stocked
  <2>2. forge'.run \in Nat /\ forge'.run >= forge.run
    BY <1>3, <1>8
  <2> QED
    BY <1>1, <1>2, <1>3, <1>7, <1>8, <2>1, <2>2, CallStarts
<1>9. CASE forge.paused /\ forge'.run = forge.run /\ forge'.resume = TRUE
  <2>1. Sane
    BY <1>1, <1>9 DEF Sane
  <2>2. \A o \in Own : IsCurrentQualificationPass(o) => EvidentIn(Own, o.anchor)
    BY <1>1, <2>1 DEF EvidenceInv, Standing, Grounded
  <2>3. \A o, b \in Own : IsCurrentQualificationPass(o) /\ IsBad(b) => o.anchor > b.anchor
    BY DEF EvidenceInv, Standing
  <2>4. log.torn => Own = {}
    BY <2>1 DEF EvidenceInv, Standing
  <2>5. OfRun(forge'.run) = Own
    BY <1>9 DEF Own
  <2>6. forge'.run \in Nat /\ forge'.run >= forge.run
    BY <1>3, <1>9
  <2> QED
    BY <1>1, <1>2, <1>3, <1>7, <1>9, <2>2, <2>3, <2>4, <2>5, <2>6, CallStarts
<1> QED
  BY <1>7, <1>8, <1>9

(* The end of a session, however it comes.                                 *)
LEMMA SessionEndStands ==
    ASSUME EvidenceInv, FinalReset \/ WorkerPanics \/ MachineCrash
    PROVE  IndexOK' /\ Stocked' /\ Reported' /\ Recorded' /\ Standing'
<1>1. DOMAIN forge = DOMAIN IdleForge
  BY DEF EvidenceInv, OrderInv, GuardInv, SyncOK
<1>2. call' = IdleCall /\ forge'.pc = "idle" /\ forge'.run = forge.run /\ forge'.resume = forge.resume
  BY <1>1, CallFields DEF FinalReset, WorkerPanics, MachineCrash, LeaveSession, IdleForge
<1>3. UNCHANGED obs /\ DOMAIN log' = DOMAIN log
  <2>1. log' = log \/ log' = TearLine(log)
    BY DEF FinalReset, WorkerPanics, MachineCrash
  <2>2. TearLine(log).obs = log.obs /\ DOMAIN TearLine(log) = DOMAIN log
    BY DEF EvidenceInv, Stocked, TearLine, EmptyLog
  <2> QED
    BY <2>1, <2>2 DEF obs
<1>4. motor'.pc = "idle" /\ motor'.reports = <<>> /\ ~ motor'.clean
  <2>1. CASE FinalReset
    BY <2>1, MotorRests DEF FinalReset, CallEnded, Engaged
  <2>2. CASE WorkerPanics \/ MachineCrash
    BY <2>2 DEF WorkerPanics, MachineCrash, PanicReset, RebootAndRecover, IdleMotor
  <2> QED
    BY <2>1, <2>2
<1>5. Sane' => Sane /\ call.pc # "persist" /\ UNCHANGED log
  <2>1. CASE FinalReset
    <3>1. forge'.paused => ~ call.aborted
      BY <1>1, <2>1, CallFields DEF FinalReset
    <3> QED
      BY <1>2, <2>1, <3>1 DEF Sane, FinalReset, CallEnded, AtCandidate
  <2>2. CASE WorkerPanics \/ MachineCrash
    <3>1. forge'.paused = FALSE
      BY <1>1, <2>2, CallFields DEF WorkerPanics, MachineCrash, LeaveSession
    <3> QED
      BY <1>2, <3>1 DEF Sane
  <2> QED
    BY <2>1, <2>2
<1>6. forge'.resume \in BOOLEAN
  BY <1>2 DEF EvidenceInv, Stocked
<1>7. /\ call'.pc = "off" /\ call'.cands = <<>> /\ call'.i = 1 /\ call'.jumped = 0 /\ call'.failed = 0
      /\ call'.bracket = <<>> /\ ~ call'.rejected /\ ~ call'.sustainable
      /\ call'.found = NoAnalysis /\ call'.reports = <<>>
  BY <1>2 DEF IdleCall
<1>8. IndexOK' /\ Stocked' /\ Recorded' /\ Standing'
  BY <1>2, <1>3, <1>5, <1>6, <1>7, WithoutCandidate
<1>9. Reported'
  BY <1>4, <1>7, RestReported DEF Engaged, Reports
<1> QED
  BY <1>8, <1>9

LEMMA SummarizeStands ==
    ASSUME EvidenceInv, Summarize
    PROVE  IndexOK' /\ Stocked' /\ Reported' /\ Recorded' /\ Standing'
<1>1. /\ call.pc = "summary" /\ UNCHANGED <<motor, log, forge>> /\ motor.pc = "idle" /\ motor.reports = <<>> /\ ~ motor.clean
      /\ DOMAIN call = DOMAIN IdleCall
      /\ DOMAIN call.found = DOMAIN NoAnalysis
      /\ \A r \in Reports(call.reports) : r.kind # "ApplyQualification"
  BY MotorRests DEF Summarize, Transition, mvars, Engaged
<1>2. /\ call'.pc = "ended"
      /\ call'.sustainable => QualifiedAnchors # {}
      /\ call'.rejected => QualifiedAnchors = {} /\ ~ call.aborted
  BY <1>1, CallFields DEF Summarize, Transition
<1>3. /\ call'.cands = call.cands /\ call'.i = call.i /\ call'.jumped = call.jumped /\ call'.failed = call.failed
      /\ call'.bracket = call.bracket /\ call'.found = call.found /\ call'.reports = call.reports
      /\ call'.aborted = call.aborted
  BY <1>1 DEF Summarize, Transition
<1>4. UNCHANGED obs /\ Own' = Own
  BY <1>1 DEF obs, Own, OfRun
<1>5. call'.pc \notin Live /\ call'.pc \notin Engaged /\ call'.pc \notin AtCandidate /\ call'.pc # "persist"
      /\ call'.pc # "next"
  BY <1>2 DEF Live, Engaged, AtCandidate
<1>6. IndexOK'
  BY <1>3, <1>5 DEF EvidenceInv, IndexOK, Descending
<1>7. Stocked'
  BY <1>1, <1>4 DEF EvidenceInv, Stocked
<1>8. Reported'
  BY <1>1, <1>3, <1>5, RestReported
<1>9. Recorded'
  BY <1>5 DEF Recorded
<1>10. Sane' => Sane
  BY <1>1, <1>2, <1>3 DEF Sane, AtCandidate
<1>11. Sane' => \A o \in Own' : IsCurrentQualificationPass(o) => Grounded(o.anchor)'
  BY <1>1, <1>4, <1>10 DEF EvidenceInv, Standing, Grounded, EvidentIn
<1>12. /\ call'.sustainable => \E o \in Own : IsCurrentQualificationPass(o)
       /\ call'.rejected => (\A o \in Own : ~ IsCurrentQualificationPass(o)) /\ ~ call'.aborted
  BY <1>2, <1>3, QualifiedIsPass DEF EvidenceInv
<1>13. /\ log'.torn /\ Sane' => Own' = {}
       /\ \A o, b \in Own' : IsCurrentQualificationPass(o) /\ IsBad(b) => o.anchor > b.anchor
  BY <1>1, <1>4, <1>10 DEF EvidenceInv, Standing
<1> QED
  BY <1>2, <1>4, <1>5, <1>6, <1>7, <1>8, <1>9, <1>11, <1>12, <1>13 DEF Standing


LEMMA NextCandidateStands ==
    ASSUME EvidenceInv, NextCandidate
    PROVE  IndexOK' /\ Stocked' /\ Reported' /\ Recorded' /\ Standing'
<1>1. /\ call.pc = "next" /\ UNCHANGED <<log, forge>> /\ motor.pc = "idle" /\ motor.reports = <<>> /\ ~ motor.clean
      /\ DOMAIN call = DOMAIN IdleCall /\ DOMAIN call.found = DOMAIN NoAnalysis
      /\ \A r \in Reports(call.reports) : r.kind # "ApplyQualification"
  BY MotorRests DEF NextCandidate, Engaged
<1>2. \A completed, reason : /\ StopAt(call, completed, reason) # call
                             /\ AbortWith(call, reason) # call
  BY <1>1, CallFields DEF StopAt, AbortWith
<1>3. \/ UNCHANGED motor /\ \E completed, reason : call' \in {StopAt(call, completed, reason), AbortWith(call, reason)}
      \/ /\ ~ call.i > Len(call.cands) /\ call.failed # call.i
         /\ call' = FreshCandidate(call) /\ Begin("transaction", Candidate)
  BY <1>2 DEF NextCandidate
<1>4. /\ call.i \in Nat \ {0} /\ call.jumped \in Nat /\ call.failed \in Nat /\ Len(call.cands) \in Nat
      /\ call.bracket = <<>> \/ call.bracket \in (Nat \ {0}) \X Nat
  BY DEF EvidenceInv, IndexOK
<1>5. CASE UNCHANGED motor /\ \E completed, reason : call' \in {StopAt(call, completed, reason), AbortWith(call, reason)}
  <2>1. /\ call'.pc = "summary" /\ call'.cands = call.cands /\ call'.i = call.i /\ call'.jumped = call.jumped
        /\ call'.failed = call.failed /\ call'.bracket = call.bracket /\ call'.found = call.found
        /\ call'.reports = call.reports /\ call'.rejected = call.rejected /\ call'.sustainable = call.sustainable
    BY <1>1, <1>5, CallFields DEF StopAt, AbortWith
  <2>2. ~ call'.rejected /\ ~ call'.sustainable
    BY <1>1, <2>1 DEF EvidenceInv, Standing
  <2>3. Sane' => Sane
    BY <1>1 DEF Sane, AtCandidate
  <2>4. UNCHANGED obs /\ forge'.resume \in BOOLEAN
    BY <1>1 DEF obs, EvidenceInv, Stocked
  <2>5. IndexOK' /\ Stocked' /\ Recorded' /\ Standing'
    BY <1>1, <1>4, <2>1, <2>2, <2>3, <2>4, WithoutCandidate
  <2>6. Reported'
    BY <1>1, <1>5, <2>1, RestReported DEF Engaged
  <2> QED
    BY <2>5, <2>6
<1>6. CASE /\ ~ call.i > Len(call.cands) /\ call.failed # call.i
           /\ call' = FreshCandidate(call) /\ Begin("transaction", Candidate)
  <2>1. /\ call'.pc = "dwell" /\ call'.cands = call.cands /\ call'.i = call.i /\ call'.jumped = call.jumped
        /\ call'.failed = call.failed /\ call'.bracket = call.bracket /\ call'.local = call.local
        /\ call'.found = NoAnalysis /\ call'.reports = <<>> /\ ~ call'.broken
        /\ call'.rejected = call.rejected /\ call'.sustainable = call.sustainable
    BY <1>1, <1>6, CallFields DEF FreshCandidate
  <2>2. motor'.pc = "arm" /\ motor'.reports = <<>> /\ ~ motor'.clean
    BY <1>6 DEF Begin, IdleMotor
  <2>3. call.i <= Len(call.cands) /\ call.i < Limit
    BY <1>1, <1>4, <1>6 DEF EvidenceInv, IndexOK, Limit, Live
  <2>4. IndexOK' /\ Stocked' /\ Recorded' /\ Standing'
    BY <1>1, <2>1, <2>3, WithCandidate DEF Engaged
  <2>5. Lines' = {} /\ Queued' = {} /\ Reports(call'.reports) = {} /\ Reports(motor'.reports) = {}
    BY <2>1, <2>2 DEF Lines, Queued, Reports
  <2>6. Reported'
    BY <2>1, <2>2, <2>5 DEF Reported, Ended
  <2> QED
    BY <2>4, <2>6
<1> QED
  BY <1>3, <1>5, <1>6

(* The motor works on: what its reports are worth, the cleanup keeps.      *)
SameWorth(r, q) ==
    /\ r.kind = q.kind /\ r.outcome = q.outcome /\ r.p99 = q.p99 /\ r.thermal = q.thermal
    /\ r.confirmed = q.confirmed

LEMMA MotorStarts ==
    ASSUME EvidenceInv, ArmBootFlag \/ ApplyPositiveOffset \/ VerifyOffset
    PROVE  /\ motor.pc \in {"arm", "write", "verify"} /\ motor.reports = <<>> /\ ~ motor'.clean
           /\ \/ motor'.reports = <<>> /\ motor'.pc \in {"write", "verify", "active"}
              \/ /\ motor'.pc \in {"reset", "done"}
                 /\ \E r \in ReportType : /\ motor'.reports = <<r>> /\ r.kind = "Discovery"
                                          /\ r.outcome \in HardFailures
<1>1. motor.pc \in {"arm", "write", "verify"} /\ motor.reports = <<>> /\ ~ motor.clean /\ MotorShape
  BY DEF ArmBootFlag, ApplyPositiveOffset, VerifyOffset, EvidenceInv, OrderInv, OrderOK, Reported, GuardInv, MotorGuarded
<1>2. /\ motor'.clean = motor.clean
      /\ \/ motor'.reports = motor.reports /\ motor'.pc \in {"write", "verify", "active"}
         \/ /\ motor'.pc \in {"reset", "done"}
            /\ \E outcome \in {"ArmFailed", "ApplyFailed", "VerifyFailed"} :
                  motor'.reports = Append(motor.reports, Report("Discovery", outcome))
  BY <1>1 DEF ArmBootFlag, ApplyPositiveOffset, VerifyOffset, Fails, MotorShape
<1>3. \A outcome \in {"ArmFailed", "ApplyFailed", "VerifyFailed"} :
         /\ Report("Discovery", outcome) \in ReportType /\ Report("Discovery", outcome).kind = "Discovery"
         /\ Report("Discovery", outcome).outcome \in HardFailures
  BY ReportTypes DEF EvidenceKinds, Outcomes, HardFailures
<1>4. \A r \in ReportType : Append(<<>>, r) = <<r>>
  OBVIOUS
<1> QED
  BY <1>1, <1>2, <1>3, <1>4

LEMMA MotorEnds ==
    ASSUME EvidenceInv, ResetToStock \/ BlacklistPoint \/ RetainBootFlag \/ ClearBootFlag
    PROVE  /\ motor.pc \in {"reset", "blacklist", "clear"} /\ motor.reports \in Seq(ReportType) /\ ~ motor.clean
           /\ motor'.pc \in {"blacklist", "clear", "done"}
           /\ DOMAIN motor'.reports = DOMAIN motor.reports
           /\ \A n \in DOMAIN motor.reports :
                 /\ motor'.reports[n].kind = motor.reports[n].kind
                 /\ \/ SameWorth(motor'.reports[n], motor.reports[n])
                    \/ ~ motor'.clean /\ motor'.pc = "done" /\ motor'.reports[n].outcome = "ResetFailed"
           /\ motor'.clean => motor'.pc = "done" /\ \A n \in DOMAIN motor.reports : motor'.reports[n].clean
<1>1. /\ motor.pc \in {"reset", "blacklist", "clear"} /\ motor.reports \in Seq(ReportType) /\ ~ motor.clean
      /\ MotorShape
  BY DEF ResetToStock, BlacklistPoint, RetainBootFlag, ClearBootFlag, EvidenceInv, OrderInv, OrderOK, Ordered,
         Reported, GuardInv, MotorGuarded
<1>2. CASE ResetToStock \/ BlacklistPoint
  <2>1. motor'.reports = motor.reports /\ motor'.pc \in {"blacklist", "clear"} /\ motor'.clean = motor.clean
    BY <1>1, <1>2 DEF ResetToStock, BlacklistPoint, MotorShape
  <2> QED
    BY <1>1, <2>1 DEF SameWorth
<1>3. CASE /\ motor'.pc = "done" /\ ~ motor'.clean
           /\ motor'.reports = motor.reports \/ motor'.reports = MarkLast("ResetFailed")
  <2>1. \A r \in ReportType : /\ [r EXCEPT !.outcome = "ResetFailed"].kind = r.kind
                              /\ [r EXCEPT !.outcome = "ResetFailed"].outcome = "ResetFailed"
    BY DEF ReportType
  <2>2. DOMAIN MarkLast("ResetFailed") = DOMAIN motor.reports
    BY DEF MarkLast
  <2>3. \A n \in DOMAIN motor.reports :
           /\ motor.reports[n] \in ReportType
           /\ MarkLast("ResetFailed")[n] \in {motor.reports[n], [motor.reports[n] EXCEPT !.outcome = "ResetFailed"]}
    BY <1>1 DEF MarkLast
  <2>4. \A n \in DOMAIN motor.reports :
           \/ MarkLast("ResetFailed")[n] = motor.reports[n]
           \/ /\ MarkLast("ResetFailed")[n].kind = motor.reports[n].kind
              /\ MarkLast("ResetFailed")[n].outcome = "ResetFailed"
    BY <2>1, <2>3
  <2> QED
    BY <1>1, <1>3, <2>2, <2>4 DEF SameWorth
<1>4. CASE /\ motor'.pc = "done"
           /\ motor'.reports = [n \in DOMAIN motor.reports |-> [motor.reports[n] EXCEPT !.clean = TRUE]]
  <2>1. \A r \in ReportType : [r EXCEPT !.clean = TRUE].clean /\ SameWorth([r EXCEPT !.clean = TRUE], r)
    BY DEF ReportType, SameWorth
  <2>2. \A n \in DOMAIN motor.reports : motor.reports[n] \in ReportType
    BY <1>1
  <2>3. \A n \in DOMAIN motor.reports : motor'.reports[n] = [motor.reports[n] EXCEPT !.clean = TRUE]
    BY <1>4
  <2>4. \A n \in DOMAIN motor.reports : motor'.reports[n].clean /\ SameWorth(motor'.reports[n], motor.reports[n])
    BY <2>1, <2>2, <2>3
  <2>5. DOMAIN motor'.reports = DOMAIN motor.reports
    BY <1>4
  <2> QED
    BY <1>1, <1>4, <2>4, <2>5 DEF SameWorth
<1>5. CASE RetainBootFlag \/ ClearBootFlag
  <2>1. /\ motor'.pc = "done"
        /\ \/ ~ motor'.clean /\ (motor'.reports = motor.reports \/ motor'.reports = MarkLast("ResetFailed"))
           \/ motor'.reports = [n \in DOMAIN motor.reports |-> [motor.reports[n] EXCEPT !.clean = TRUE]]
    BY <1>1, <1>5 DEF RetainBootFlag, ClearBootFlag, Dirty, MotorShape
  <2> QED
    BY <1>3, <1>4, <2>1
<1> QED
  BY <1>2, <1>5

(* What is soundly reported stays so, if the reports keep their worth.     *)
LEMMA SoundKept ==
    ASSUME NEW rs, NEW qs, NEW verdict, NEW found, NEW broken, Sound(rs, verdict, found, broken),
           \A r \in rs : \E q \in qs : SameWorth(q, r), \A q \in qs : \E r \in rs : SameWorth(q, r)
    PROVE  Sound(qs, verdict, found, broken)
<1>1. \A q, r : SameWorth(q, r) => /\ PassLine(q) <=> PassLine(r)
                                   /\ BadLine(q) <=> BadLine(r)
                                   /\ GoodLine(q) <=> GoodLine(r)
  BY DEF SameWorth, PassLine, BadLine, GoodLine
<1> QED
  BY <1>1, Zenon DEF Sound

LEMMA MotorRunsStands ==
    ASSUME EvidenceInv, MotorRuns
    PROVE  IndexOK' /\ Stocked' /\ Reported' /\ Recorded' /\ Standing'
<1>1. UNCHANGED <<log, call, forge>> /\ motor.pc \in {"arm", "write", "verify", "reset", "blacklist", "clear"}
  BY DEF MotorRuns, MotorStep, ArmBootFlag, ApplyPositiveOffset, VerifyOffset, ResetToStock,
         BlacklistPoint, RetainBootFlag, ClearBootFlag
<1>2. call.pc \in {"dwell", "recheck", "cleanup"}
  <2>1. call.pc \in Engaged /\ call.pc # "qualify"
    BY <1>1 DEF EvidenceInv, OrderInv, GuardInv, SyncOK
  <2>2. call.pc # "analyse"
    BY <1>1 DEF EvidenceInv, Reported
  <2> QED
    BY <2>1, <2>2 DEF Engaged
<1>3. IndexOK' /\ Stocked' /\ Recorded' /\ Standing'
  BY <1>1, <1>2, WithCandidate DEF Engaged
<1>4. /\ call' = call /\ Queued' = {} /\ Queued = {}
      /\ DOMAIN call.found = DOMAIN NoAnalysis
      /\ ~ call.broken => \A r \in Reports(call.reports) : r.clean
      /\ call.pc # "cleanup" => ~ call.broken
      /\ \A r \in Lines : r.kind # "ApplyQualification"
      /\ call.pc # "cleanup" => \A r \in Lines : Measured(r)
  BY <1>1, <1>2 DEF EvidenceInv, Reported, Queued, Engaged
<1>5. Lines = Reports(call.reports) \cup Reports(motor.reports) /\ Lines' = Reports(call.reports) \cup Reports(motor'.reports)
  BY <1>4 DEF Lines
<1>6. CASE ArmBootFlag \/ ApplyPositiveOffset \/ VerifyOffset
  <2>1. /\ motor.pc \in {"arm", "write", "verify"} /\ motor.reports = <<>> /\ ~ motor'.clean
        /\ \/ motor'.reports = <<>> /\ motor'.pc \in {"write", "verify", "active"}
           \/ /\ motor'.pc \in {"reset", "done"}
              /\ \E r \in ReportType : motor'.reports = <<r>> /\ r.kind = "Discovery" /\ r.outcome \in HardFailures
    BY <1>6, MotorStarts
  <2>2. call.pc = "dwell"
    BY <1>2, <2>1 DEF EvidenceInv, Reported, Ended
  <2>3. \A r \in Reports(motor'.reports) : r.kind = "Discovery" /\ Measured(r)
    BY <2>1 DEF Reports, Measured, HardFailures
  <2>4. \A r \in Lines' : r.kind # "ApplyQualification" /\ Measured(r)
    BY <1>4, <1>5, <2>2, <2>3
  <2>5. motor'.pc = "active" => motor'.reports = <<>>
    BY <2>1
  <2>6. motor'.pc \in Ended => motor'.reports # <<>>
    BY <2>1 DEF Ended
  <2> QED
    BY <1>3, <1>4, <2>1, <2>2, <2>4, <2>5, <2>6 DEF Reported
<1>7. CASE ResetToStock \/ BlacklistPoint \/ RetainBootFlag \/ ClearBootFlag
  <2>1. /\ motor.pc \in {"reset", "blacklist", "clear"} /\ motor.reports \in Seq(ReportType) /\ ~ motor.clean
        /\ motor'.pc \in {"blacklist", "clear", "done"}
        /\ DOMAIN motor'.reports = DOMAIN motor.reports
        /\ \A n \in DOMAIN motor.reports :
              /\ motor'.reports[n].kind = motor.reports[n].kind
              /\ \/ SameWorth(motor'.reports[n], motor.reports[n])
                 \/ ~ motor'.clean /\ motor'.pc = "done" /\ motor'.reports[n].outcome = "ResetFailed"
        /\ motor'.clean => motor'.pc = "done" /\ \A n \in DOMAIN motor.reports : motor'.reports[n].clean
    BY <1>7, MotorEnds
  <2>2. /\ \A q \in Reports(motor'.reports) : \E r \in Reports(motor.reports) :
              q.kind = r.kind /\ (SameWorth(q, r) \/ (~ motor'.clean /\ motor'.pc = "done" /\ q.outcome = "ResetFailed"))
        /\ \A r \in Reports(motor.reports) : \E q \in Reports(motor'.reports) :
              q.kind = r.kind /\ (SameWorth(q, r) \/ (~ motor'.clean /\ motor'.pc = "done" /\ q.outcome = "ResetFailed"))
    BY <2>1 DEF Reports
  <2>3. motor'.clean => \A q \in Reports(motor'.reports) : q.clean
    BY <2>1 DEF Reports
  <2>4. \A q \in Lines' : q.kind # "ApplyQualification"
    BY <1>4, <1>5, <2>2
  <2>5. call.pc # "cleanup" => \A q \in Lines' : Measured(q)
    BY <1>4, <1>5, <2>2 DEF Measured, SameWorth
  <2>6. call.pc \in {"dwell", "recheck"} => motor'.reports # <<>>
    <3>1. call.pc \in {"dwell", "recheck"} => motor.reports # <<>>
      BY <2>1 DEF EvidenceInv, Reported, Ended
    <3>2. motor.reports # <<>> => DOMAIN motor.reports # {}
      BY <2>1
    <3> QED
      BY <2>1, <3>1, <3>2
  <2>7. (\E r \in Lines : r.kind = "Discovery") => \E q \in Lines' : q.kind = "Discovery"
    BY <1>5, <2>2
  <2>8. call.pc = "cleanup" /\ (motor'.pc = "done" => motor'.clean) =>
            Sound(Lines', call.verdict, call.found, call.broken)
    <3> SUFFICES ASSUME call.pc = "cleanup", motor'.pc = "done" => motor'.clean
                 PROVE  Sound(Lines', call.verdict, call.found, call.broken)
      OBVIOUS
    <3>1. Sound(Lines, call.verdict, call.found, call.broken)
      BY <2>1 DEF EvidenceInv, Reported
    <3>2. /\ \A q \in Reports(motor'.reports) : \E r \in Reports(motor.reports) : SameWorth(q, r)
          /\ \A r \in Reports(motor.reports) : \E q \in Reports(motor'.reports) : SameWorth(q, r)
      BY <2>2
    <3>3. \A r : SameWorth(r, r)
      BY DEF SameWorth
    <3>4. /\ \A q \in Lines' : \E r \in Lines : SameWorth(q, r)
          /\ \A r \in Lines : \E q \in Lines' : SameWorth(q, r)
      BY <1>5, <3>2, <3>3, Zenon
    <3> QED
      BY <3>1, <3>4, SoundKept
  <2>9. motor'.pc \in Ended
    BY <2>1 DEF Ended
  <2>10. call.pc = "cleanup" => \E q \in Lines' : q.kind = "Discovery"
    BY <2>7 DEF EvidenceInv, Reported
  <2>11. Reported'
    BY <1>2, <1>4, <2>1, <2>3, <2>4, <2>5, <2>6, <2>8, <2>9, <2>10 DEF Reported, Engaged
  <2> QED
    BY <1>3, <2>11
<1> QED
  BY <1>6, <1>7 DEF MotorRuns, MotorStep

(* A discovery dwell: a clock drop among its reports was measured.         *)
LEMMA DiscoveryDwellStands ==
    ASSUME EvidenceInv, DiscoveryDwell
    PROVE  IndexOK' /\ Stocked' /\ Reported' /\ Recorded' /\ Standing'
<1>1. PICK d \in Dwells : \E again \in BOOLEAN :
         LET r == [Report("Discovery", d.outcome) EXCEPT !.p99 = d.p99, !.p5 = d.p5]
         IN /\ motor' = IF again THEN Finish(RunPhase(r)) ELSE RunPhase(r)
            /\ call' = [call EXCEPT !.pc = IF again THEN "recheck" ELSE "analyse",
                                    !.rechecked = @ \/ again]
  BY DEF DiscoveryDwell, RequiresRecheck
<1>2. PICK again \in BOOLEAN :
         LET r == [Report("Discovery", d.outcome) EXCEPT !.p99 = d.p99, !.p5 = d.p5]
         IN /\ motor' = IF again THEN Finish(RunPhase(r)) ELSE RunPhase(r)
            /\ call' = [call EXCEPT !.pc = IF again THEN "recheck" ELSE "analyse",
                                    !.rechecked = @ \/ again]
  BY <1>1
<1> DEFINE r == [Report("Discovery", d.outcome) EXCEPT !.p99 = d.p99, !.p5 = d.p5]
<1>3. r.kind = "Discovery" /\ Measured(r)
  BY DwellsAssumption DEF Report, EmptyReport, Measured
<1>4. /\ call.pc = "dwell" /\ motor.pc = "active" /\ UNCHANGED <<log, forge>> /\ DOMAIN call = DOMAIN IdleCall
      /\ MotorShape /\ motor.reports = <<>> /\ ~ motor.clean /\ ~ call.broken
      /\ DOMAIN call.found = DOMAIN NoAnalysis
      /\ \A q \in Lines : Measured(q) /\ q.kind # "ApplyQualification"
      /\ \A q \in Reports(call.reports) : q.clean
  BY DEF DiscoveryDwell, EvidenceInv, OrderInv, GuardInv, SyncOK, MotorGuarded, Reported, Engaged
<1>5. /\ motor'.reports = Append(motor.reports, r) /\ motor'.clean = motor.clean
      /\ motor'.pc = IF again THEN "reset" ELSE "active"
  BY <1>2, <1>4 DEF RunPhase, Finish, MotorShape
<1>6. /\ call'.pc = IF again THEN "recheck" ELSE "analyse"
      /\ call'.reports = call.reports /\ call'.broken = call.broken /\ call'.found = call.found
      /\ call'.cands = call.cands /\ call'.i = call.i /\ call'.local = call.local /\ call'.bracket = call.bracket
      /\ call'.failed = call.failed /\ call'.jumped = call.jumped
      /\ call'.rejected = call.rejected /\ call'.sustainable = call.sustainable
  BY <1>2, <1>4, CallFields
<1> HIDE DEF r
<1>7. motor'.reports = <<r>>
  BY <1>4, <1>5
<1>8. Reports(motor'.reports) = {r} /\ Len(motor'.reports) = 1 /\ motor'.reports # <<>>
  BY <1>7 DEF Reports
<1>9. Lines' = Reports(call.reports) \cup {r} /\ Queued' = {}
  BY <1>6, <1>8 DEF Lines, Queued
<1>10. \A q \in Lines' : Measured(q) /\ q.kind # "ApplyQualification"
  BY <1>3, <1>4, <1>9 DEF Lines
<1>11. Reported'
  <2>1. CASE again
    BY <1>3, <1>4, <1>5, <1>6, <1>8, <1>9, <1>10, <2>1 DEF Reported, Ended
  <2>2. CASE ~ again
    BY <1>3, <1>4, <1>5, <1>6, <1>8, <1>9, <1>10, <2>2 DEF Reported, Ended
  <2> QED
    BY <2>1, <2>2
<1>12. IndexOK' /\ Stocked' /\ Recorded' /\ Standing'
  BY <1>4, <1>6, WithCandidate DEF Engaged
<1> QED
  BY <1>11, <1>12

LEMMA StartFailedStands ==
    ASSUME EvidenceInv, TransactionStartFailed
    PROVE  IndexOK' /\ Stocked' /\ Reported' /\ Recorded' /\ Standing'
<1>1. /\ call.pc = "dwell" /\ motor.pc = "done" /\ UNCHANGED <<motor, log, forge>> /\ DOMAIN call = DOMAIN IdleCall
      /\ DOMAIN call.found = DOMAIN NoAnalysis
      /\ motor.clean => \A q \in Reports(motor.reports) : q.clean
      /\ \A q \in Lines : Measured(q) /\ q.kind # "ApplyQualification"
      /\ motor.reports # <<>> /\ AllDiscovery(motor.reports)
  BY DEF TransactionStartFailed, mvars, EvidenceInv, OrderInv, OrderOK, GuardInv, SyncOK, Reported, Ended
<1>2. /\ call'.pc = "analyse" /\ call'.broken
      /\ call'.reports = call.reports /\ call'.found = call.found
      /\ call'.cands = call.cands /\ call'.i = call.i /\ call'.local = call.local /\ call'.bracket = call.bracket
      /\ call'.failed = call.failed /\ call'.jumped = call.jumped
      /\ call'.rejected = call.rejected /\ call'.sustainable = call.sustainable
  BY <1>1, CallFields DEF TransactionStartFailed
<1>3. Lines' = Lines /\ Queued' = {}
  BY <1>1, <1>2 DEF Lines, Queued
<1>4. \E q \in Reports(motor.reports) : q.kind = "Discovery"
  BY <1>1 DEF AllDiscovery, Reports
<1>5. Reported'
  BY <1>1, <1>2, <1>3, <1>4 DEF Reported, Ended, Lines
<1>6. IndexOK' /\ Stocked' /\ Recorded' /\ Standing'
  BY <1>1, <1>2, WithCandidate DEF Engaged
<1> QED
  BY <1>5, <1>6

(* The reports of a concatenation are those of both.                       *)
LEMMA ReportsConcat ==
    ASSUME NEW a \in Seq(ReportType), NEW b \in Seq(ReportType)
    PROVE  /\ Reports(a \o b) = Reports(a) \cup Reports(b)
           /\ a \o b \in Seq(ReportType) /\ Len(a \o b) = Len(a) + Len(b)
<1>1. Len(a) \in Nat /\ Len(b) \in Nat /\ Len(a \o b) = Len(a) + Len(b)
      /\ DOMAIN (a \o b) = 1 .. Len(a) + Len(b) /\ DOMAIN a = 1 .. Len(a) /\ DOMAIN b = 1 .. Len(b)
  OBVIOUS
<1>2. \A n \in DOMAIN (a \o b) : (a \o b)[n] = IF n <= Len(a) THEN a[n] ELSE b[n - Len(a)]
  OBVIOUS
<1>3. Reports(a \o b) \subseteq Reports(a) \cup Reports(b)
  BY <1>1, <1>2 DEF Reports
<1>4. Reports(a) \subseteq Reports(a \o b)
  <2>1. \A n \in DOMAIN a : n \in DOMAIN (a \o b) /\ (a \o b)[n] = a[n]
    BY <1>1, <1>2
  <2> QED
    BY <2>1 DEF Reports
<1>5. Reports(b) \subseteq Reports(a \o b)
  <2>1. \A n \in DOMAIN b : n + Len(a) \in DOMAIN (a \o b) /\ (a \o b)[n + Len(a)] = b[n]
    BY <1>1, <1>2
  <2> QED
    BY <2>1 DEF Reports
<1> QED
  BY <1>1, <1>3, <1>4, <1>5

LEMMA RecheckStands ==
    ASSUME EvidenceInv, RecheckPower
    PROVE  IndexOK' /\ Stocked' /\ Reported' /\ Recorded' /\ Standing'
<1>1. /\ call.pc = "recheck" /\ motor.pc = "done" /\ UNCHANGED <<log, forge>> /\ DOMAIN call = DOMAIN IdleCall
      /\ DOMAIN call.found = DOMAIN NoAnalysis /\ ~ call.broken
      /\ motor.clean => \A q \in Reports(motor.reports) : q.clean
      /\ \A q \in Reports(call.reports) : q.clean
      /\ \A q \in Lines : Measured(q) /\ q.kind # "ApplyQualification"
      /\ motor.reports # <<>> /\ AllDiscovery(motor.reports) /\ AllDiscovery(call.reports)
  BY DEF RecheckPower, EvidenceInv, OrderInv, OrderOK, GuardInv, SyncOK, Reported, Ended, Engaged
<1>2. \/ /\ motor.clean /\ Begin("transaction", Candidate)
         /\ call' = [CollectedMotor(call) EXCEPT !.pc = "dwell"]
      \/ /\ motor' = IdleMotor
         /\ \E broken : (~ broken => motor.clean) /\ call' = [CollectedMotor(call) EXCEPT !.pc = "analyse", !.broken = broken]
  BY DEF RecheckPower
<1>3. /\ call'.reports = AllReports /\ call'.found = call.found
      /\ call'.cands = call.cands /\ call'.i = call.i /\ call'.local = call.local /\ call'.bracket = call.bracket
      /\ call'.failed = call.failed /\ call'.jumped = call.jumped
      /\ call'.rejected = call.rejected /\ call'.sustainable = call.sustainable
      /\ \/ call'.pc = "dwell" /\ call'.broken = call.broken /\ motor.clean
         \/ call'.pc = "analyse" /\ (~ call'.broken => motor.clean)
  BY <1>1, <1>2, CallFields DEF CollectedMotor
<1>4. motor'.reports = <<>> /\ ~ motor'.clean /\ (call'.pc = "dwell" => motor'.pc = "arm") /\ (call'.pc = "analyse" => motor'.pc = "idle")
  <2>1. CASE Begin("transaction", Candidate) /\ call' = [CollectedMotor(call) EXCEPT !.pc = "dwell"]
    <3>1. call'.pc = "dwell"
      BY <1>1, <2>1, CallFields DEF CollectedMotor
    <3> QED
      BY <2>1, <3>1 DEF Begin, IdleMotor
  <2>2. CASE motor' = IdleMotor /\ \E broken : call' = [CollectedMotor(call) EXCEPT !.pc = "analyse", !.broken = broken]
    <3>1. call'.pc = "analyse"
      BY <1>1, <2>2, CallFields DEF CollectedMotor
    <3> QED
      BY <2>2, <3>1 DEF IdleMotor
  <2> QED
    BY <1>2, <2>1, <2>2
<1>5. Reports(call'.reports) = Lines /\ Lines' = Lines /\ Queued' = {}
  <2>1. Reports(AllReports) = Lines
    BY <1>1, ReportsConcat DEF AllDiscovery, AllReports, Lines
  <2>2. Reports(motor'.reports) = {}
    BY <1>4 DEF Reports
  <2> QED
    BY <1>3, <2>1, <2>2 DEF Lines, Queued
<1>6. \E q \in Lines : q.kind = "Discovery"
  BY <1>1 DEF AllDiscovery, Reports, Lines
<1>7. ~ call'.broken => \A q \in Lines : q.clean
  BY <1>1, <1>3 DEF Lines
<1>8. Reported'
  BY <1>1, <1>3, <1>4, <1>5, <1>6, <1>7 DEF Reported, Ended
<1>9. IndexOK' /\ Stocked' /\ Recorded' /\ Standing'
  BY <1>1, <1>3, WithCandidate DEF Engaged
<1> QED
  BY <1>8, <1>9

LEMMA CancelledStands ==
    ASSUME EvidenceInv, QualificationCancelled
    PROVE  IndexOK' /\ Stocked' /\ Reported' /\ Recorded' /\ Standing'
<1>1. /\ call.pc = "qualify" /\ motor.pc = "active" /\ UNCHANGED <<log, forge>> /\ DOMAIN call = DOMAIN IdleCall
      /\ DOMAIN call.found = DOMAIN NoAnalysis /\ ~ motor.clean /\ MotorShape
      /\ ~ call.broken /\ \A q \in Reports(call.reports) : q.clean
      /\ \A q \in Lines : q.kind # "ApplyQualification" /\ ~ BadLine(q) /\ ~ PassLine(q)
      /\ \E q \in Lines : q.kind = "Discovery"
  BY DEF QualificationCancelled, EvidenceInv, OrderInv, GuardInv, SyncOK, MotorGuarded, Reported, Engaged
<1>2. /\ call'.pc = "cleanup" /\ call'.broken = call.broken
      /\ call'.reports = call.reports /\ call'.found = call.found
      /\ call'.cands = call.cands /\ call'.i = call.i /\ call'.local = call.local /\ call'.bracket = call.bracket
      /\ call'.failed = call.failed /\ call'.jumped = call.jumped
      /\ call'.rejected = call.rejected /\ call'.sustainable = call.sustainable
  BY <1>1, CallFields DEF QualificationCancelled
<1>3. motor'.pc = "reset" /\ motor'.reports = motor.reports /\ motor'.clean = motor.clean
  BY <1>1 DEF QualificationCancelled, Finish, MotorShape
<1>4. Lines' = Lines /\ Queued' = {}
  BY <1>2, <1>3 DEF Lines, Queued
<1>5. Sound(Lines', call'.verdict, call'.found, call'.broken)
  BY <1>1, <1>4 DEF Sound
<1>6. Reported'
  BY <1>1, <1>2, <1>3, <1>4, <1>5 DEF Reported, Ended
<1>7. IndexOK' /\ Stocked' /\ Recorded' /\ Standing'
  BY <1>1, <1>2, WithCandidate DEF Engaged
<1> QED
  BY <1>6, <1>7

(* What the heavy load can end with, and what the call makes of it.        *)
LEMMA VerdictOf ==
    ASSUME NEW outcome \in DwellOutcomes, NEW r, r.kind = "Qualification", r.outcome = outcome
    PROVE  /\ PassLine(r) <=> outcome = "Validated"
           /\ BadLine(r) => outcome \notin {"Validated", "Inconclusive"}
           /\ outcome = "Validated" => Verdict(outcome) = "Qualified"
           /\ outcome # "Validated" => Verdict(outcome) \in {"Aborted", "Inconclusive", "Rejected"}
<1>1. PassLine(r) <=> outcome = "Validated"
  BY DEF PassLine
<1>2. MapOutcome("Validated", "Qualification") \notin BadOutcomes
  BY DEF MapOutcome, BadOutcomes
<1>3. MapOutcome("Inconclusive", "Qualification") \notin BadOutcomes
  BY DEF MapOutcome, BadOutcomes
<1>4. BadLine(r) => outcome \notin {"Validated", "Inconclusive"}
  BY <1>2, <1>3 DEF BadLine
<1>5. /\ outcome = "Validated" => Verdict(outcome) = "Qualified"
      /\ outcome # "Validated" => Verdict(outcome) \in {"Aborted", "Inconclusive", "Rejected"}
  BY DEF Verdict
<1> QED
  BY <1>1, <1>4, <1>5

LEMMA QualificationStands ==
    ASSUME EvidenceInv, QualificationDwell
    PROVE  IndexOK' /\ Stocked' /\ Reported' /\ Recorded' /\ Standing'
<1>1. PICK q \in Quals : \E again \in BOOLEAN :
         LET outcome == Judged(q)
             r       == [Report("Qualification", outcome) EXCEPT !.p5 = q.p5, !.retryable = q.retryable]
         IN /\ again => outcome = "Inconclusive"
            /\ motor' = IF again THEN RunPhase(r) ELSE Finish(RunPhase(r))
            /\ call' = [call EXCEPT
                           !.pc      = IF again THEN @ ELSE "cleanup",
                           !.verdict = IF again THEN @ ELSE Verdict(outcome),
                           !.retries = IF again THEN @ + 1 ELSE @,
                           !.history = IF outcome = "Validated" THEN Append(@, q.p5) ELSE @]
  <2>1. \A x, y, z : (x /\ y /\ z) \in BOOLEAN
    OBVIOUS
  <2> QED
    BY <2>1, Zenon DEF QualificationDwell
<1>2. PICK again \in BOOLEAN :
         LET outcome == Judged(q)
             r       == [Report("Qualification", outcome) EXCEPT !.p5 = q.p5, !.retryable = q.retryable]
         IN /\ again => outcome = "Inconclusive"
            /\ motor' = IF again THEN RunPhase(r) ELSE Finish(RunPhase(r))
            /\ call' = [call EXCEPT
                           !.pc      = IF again THEN @ ELSE "cleanup",
                           !.verdict = IF again THEN @ ELSE Verdict(outcome),
                           !.retries = IF again THEN @ + 1 ELSE @,
                           !.history = IF outcome = "Validated" THEN Append(@, q.p5) ELSE @]
  BY <1>1
<1> DEFINE outcome == Judged(q)
           r == [Report("Qualification", outcome) EXCEPT !.p5 = q.p5, !.retryable = q.retryable]
<1>3. outcome \in DwellOutcomes /\ r.kind = "Qualification" /\ r.outcome = outcome
  <2>1. q.outcome \in DwellOutcomes
    BY DwellsAssumption
  <2>2. outcome \in DwellOutcomes
    BY <2>1 DEF Judged, DwellOutcomes
  <2> HIDE DEF outcome
  <2>3. r.kind = "Qualification" /\ r.outcome = outcome
    BY DEF Report, EmptyReport
  <2> QED
    BY <2>2, <2>3
<1>4. /\ call.pc = "qualify" /\ motor.pc = "active" /\ UNCHANGED <<log, forge>> /\ DOMAIN call = DOMAIN IdleCall
      /\ DOMAIN call.found = DOMAIN NoAnalysis /\ ~ motor.clean /\ MotorShape /\ motor.reports \in Seq(ReportType)
      /\ ~ call.broken /\ call.found.outcome = "Validated" /\ \A x \in Reports(call.reports) : x.clean
      /\ \A x \in Lines : x.kind # "ApplyQualification" /\ ~ BadLine(x) /\ ~ PassLine(x)
      /\ \E x \in Lines : x.kind = "Discovery"
      /\ \E x \in Lines : GoodLine(x)
  BY DEF QualificationDwell, EvidenceInv, OrderInv, OrderOK, Ordered, GuardInv, SyncOK, MotorGuarded, Reported, Engaged
<1>5. /\ call'.pc = (IF again THEN "qualify" ELSE "cleanup") /\ call'.broken = call.broken
      /\ call'.verdict = (IF again THEN call.verdict ELSE Verdict(outcome))
      /\ call'.reports = call.reports /\ call'.found = call.found
      /\ call'.cands = call.cands /\ call'.i = call.i /\ call'.local = call.local /\ call'.bracket = call.bracket
      /\ call'.failed = call.failed /\ call'.jumped = call.jumped
      /\ call'.rejected = call.rejected /\ call'.sustainable = call.sustainable
  <2> HIDE DEF outcome
  <2>1. call' = [call EXCEPT
                           !.pc      = IF again THEN @ ELSE "cleanup",
                           !.verdict = IF again THEN @ ELSE Verdict(outcome),
                           !.retries = IF again THEN @ + 1 ELSE @,
                           !.history = IF outcome = "Validated" THEN Append(@, q.p5) ELSE @]
    BY <1>2, Zenon DEF outcome
  <2> QED
    BY <1>4, <2>1, CallFields
<1>6. again => outcome = "Inconclusive"
  BY <1>2
<1>7. /\ motor'.pc = (IF again THEN "active" ELSE "reset") /\ motor'.reports = Append(motor.reports, r)
      /\ motor'.clean = motor.clean
  <2> HIDE DEF r, outcome
  <2>1. motor' = IF again THEN RunPhase(r) ELSE Finish(RunPhase(r))
    BY <1>2, Zenon DEF r, outcome
  <2> QED
    BY <1>4, <2>1 DEF RunPhase, Finish, MotorShape
<1> HIDE DEF outcome, r
<1>8. Reports(motor'.reports) = Reports(motor.reports) \cup {r}
  <2>1. DOMAIN motor'.reports = 1 .. Len(motor.reports) + 1 /\ DOMAIN motor.reports = 1 .. Len(motor.reports)
        /\ Len(motor.reports) \in Nat
    BY <1>4, <1>7
  <2>2. \A n \in 1 .. Len(motor.reports) + 1 :
           motor'.reports[n] = IF n <= Len(motor.reports) THEN motor.reports[n] ELSE r
    BY <1>4, <1>7
  <2>3. Reports(motor'.reports) \subseteq Reports(motor.reports) \cup {r}
    BY <2>1, <2>2 DEF Reports
  <2>4. \A n \in DOMAIN motor.reports : n \in DOMAIN motor'.reports /\ motor'.reports[n] = motor.reports[n]
    BY <2>1, <2>2
  <2>5. Len(motor.reports) + 1 \in DOMAIN motor'.reports /\ motor'.reports[Len(motor.reports) + 1] = r
    BY <2>1, <2>2
  <2>6. Reports(motor.reports) \cup {r} \subseteq Reports(motor'.reports)
    BY <2>4, <2>5 DEF Reports
  <2> QED
    BY <2>3, <2>6
<1>9. Lines' = Lines \cup {r} /\ Queued' = {}
  BY <1>5, <1>8 DEF Lines, Queued
<1>10. /\ PassLine(r) <=> outcome = "Validated"
       /\ BadLine(r) => outcome \notin {"Validated", "Inconclusive"}
       /\ outcome = "Validated" => Verdict(outcome) = "Qualified"
       /\ outcome # "Validated" => Verdict(outcome) \in {"Aborted", "Inconclusive", "Rejected"}
  BY <1>3, VerdictOf
<1>11. again => ~ BadLine(r) /\ ~ PassLine(r)
  BY <1>6, <1>10
<1>12. ~ again => Sound(Lines', call'.verdict, call'.found, call'.broken)
  BY <1>4, <1>5, <1>9, <1>10 DEF Sound
<1>13. Reported'
  <2>1. CASE again
    BY <1>3, <1>4, <1>5, <1>7, <1>9, <1>11, <2>1 DEF Reported, Ended
  <2>2. CASE ~ again
    BY <1>3, <1>4, <1>5, <1>7, <1>9, <1>12, <2>2 DEF Reported, Ended
  <2> QED
    BY <2>1, <2>2
<1>14. IndexOK' /\ Stocked' /\ Recorded' /\ Standing'
  BY <1>4, <1>5, WithCandidate DEF Engaged
<1> QED
  BY <1>13, <1>14

(* What an analysis does to one report.                                    *)
LEMMA TryAt ==
    ASSUME NEW raw \in Seq(ReportType), NEW rechecked, NEW n \in 1 .. Len(raw), Consensus(raw, rechecked)
    PROVE  /\ n \in UsableIn(raw) => /\ ConfirmAttempts(raw, rechecked)[n].outcome = raw[n].outcome
                                     /\ ConfirmAttempts(raw, rechecked)[n].confirmed = TRUE
           /\ n \notin UsableIn(raw) => ConfirmAttempts(raw, rechecked)[n] = raw[n]
<1>1. raw[n] \in ReportType /\ n \in DOMAIN raw
  OBVIOUS
<1>2. [raw[n] EXCEPT !.confirmed = TRUE].outcome = raw[n].outcome /\ [raw[n] EXCEPT !.confirmed = TRUE].confirmed = TRUE
  BY <1>1 DEF ReportType
<1> QED
  BY <1>1, <1>2 DEF ConfirmAttempts

LEMMA MarkAt ==
    ASSUME NEW all \in Seq(ReportType), NEW tries, NEW near, NEW n \in 1 .. Len(all)
    PROVE  LET m == Marked(all, tries, near)[n]
           IN /\ m.kind = all[n].kind /\ m.clean = all[n].clean /\ m.confirmed = tries[n].confirmed
              /\ m.outcome = IF tries[n].confirmed THEN PowerBound(tries[n].outcome, near) ELSE tries[n].outcome
<1> DEFINE outcome == IF tries[n].confirmed THEN PowerBound(tries[n].outcome, near) ELSE tries[n].outcome
           m == Marked(all, tries, near)[n]
<1>1. n \in DOMAIN all /\ all[n] \in ReportType
  OBVIOUS
<1>2. m = [all[n] EXCEPT !.outcome = outcome, !.confirmed = tries[n].confirmed]
  BY <1>1, Zenon DEF Marked
<1> HIDE DEF m, outcome
<1>3. /\ m.kind = all[n].kind /\ m.clean = all[n].clean /\ m.confirmed = tries[n].confirmed
      /\ m.outcome = outcome
  BY <1>1, <1>2 DEF ReportType
<1> QED
  BY <1>3 DEF m, outcome

(* Dwells that agree on their power, without a clock drop or at the limit, *)
(* leave no failure on record, and below the limit a confirmed discovery.  *)
LEMMA Consented ==
    ASSUME NEW all \in Seq(ReportType), NEW raw \in Seq(ReportType), Len(raw) = Len(all), NEW rechecked,
           NEW near \in BOOLEAN, Consensus(raw, rechecked),
           \A n \in 1 .. Len(all) :
               /\ raw[n].outcome = all[n].outcome /\ raw[n].p99 = all[n].p99 /\ raw[n].thermal = all[n].thermal
               /\ raw[n].clean /\ Measured(all[n]) /\ all[n].kind = "Discovery",
           near \/ \A n \in 1 .. Len(all) : ConfirmAttempts(raw, rechecked)[n].outcome # "ClockDrop"
    PROVE  LET m == Marked(all, ConfirmAttempts(raw, rechecked), near)
           IN /\ \A n \in 1 .. Len(all) : ~ BadLine(m[n])
              /\ ~ near => \E n \in 1 .. Len(all) : GoodLine(m[n])
<1> DEFINE tries == ConfirmAttempts(raw, rechecked)
           m == Marked(all, tries, near)
<1>1. \A n \in 1 .. Len(all) : raw[n].outcome \in {"Validated", "ClockDrop", "Inconclusive", "PowerBoundClockDrop"}
  <2> SUFFICES ASSUME NEW n \in 1 .. Len(all)
               PROVE  raw[n].outcome \in {"Validated", "ClockDrop", "Inconclusive", "PowerBoundClockDrop"}
    OBVIOUS
  <2>1. raw[n] \in ReportType /\ raw[n] \in Reports(raw)
    BY DEF Reports
  <2>2. raw[n].outcome \in Outcomes /\ raw[n].outcome \notin HardFailures
    BY <2>1 DEF ReportType, Consensus, HasHardFailure
  <2> QED
    BY <2>2 DEF Outcomes, HardFailures, DwellOutcomes
<1>2. \A n \in 1 .. Len(all) : /\ n \in UsableIn(raw) => tries[n].outcome = raw[n].outcome /\ tries[n].confirmed = TRUE
                               /\ n \notin UsableIn(raw) => tries[n] = raw[n]
  <2> SUFFICES ASSUME NEW n \in 1 .. Len(raw)
               PROVE  /\ n \in UsableIn(raw) => tries[n].outcome = raw[n].outcome /\ tries[n].confirmed = TRUE
                      /\ n \notin UsableIn(raw) => tries[n] = raw[n]
    OBVIOUS
  <2> QED
    BY TryAt, Zenon
<1>3. \A n \in 1 .. Len(all) : raw[n].outcome = "ClockDrop" => n \in UsableIn(raw)
  <2> SUFFICES ASSUME NEW n \in 1 .. Len(all), raw[n].outcome = "ClockDrop" PROVE n \in UsableIn(raw)
    OBVIOUS
  <2>1. n \in DOMAIN raw
    OBVIOUS
  <2>2. raw[n].p99 > 0 /\ ~ raw[n].thermal /\ raw[n].clean
    BY DEF Measured
  <2> QED
    BY <2>1, <2>2 DEF UsableIn, Usable, ContentUsable
<1>4. /\ MapOutcome("Validated", "Discovery") \notin BadOutcomes
      /\ MapOutcome("Inconclusive", "Discovery") \notin BadOutcomes
      /\ MapOutcome("PowerBoundClockDrop", "Discovery") \notin BadOutcomes
  BY DEF MapOutcome, BadOutcomes
<1> HIDE DEF tries, m
<1>5. \A n \in 1 .. Len(all) :
         /\ m[n].kind = "Discovery" /\ m[n].confirmed = tries[n].confirmed
         /\ m[n].outcome = IF tries[n].confirmed THEN PowerBound(tries[n].outcome, near) ELSE tries[n].outcome
  BY MarkAt DEF m
<1>6. \A n \in 1 .. Len(all) : tries[n].outcome # "ClockDrop" \/ near
  BY DEF tries
<1>7. \A n \in 1 .. Len(all) : m[n].outcome \in {"Validated", "Inconclusive", "PowerBoundClockDrop"}
  <2> SUFFICES ASSUME NEW n \in 1 .. Len(all)
               PROVE  m[n].outcome \in {"Validated", "Inconclusive", "PowerBoundClockDrop"}
    OBVIOUS
  <2>1. CASE n \in UsableIn(raw)
    BY <1>1, <1>2, <1>5, <1>6, <2>1 DEF PowerBound
  <2>2. CASE n \notin UsableIn(raw)
    BY <1>1, <1>2, <1>3, <1>5, <2>2 DEF PowerBound
  <2> QED
    BY <2>1, <2>2
<1>8. \A n \in 1 .. Len(all) : ~ BadLine(m[n])
  BY <1>4, <1>5, <1>7 DEF BadLine
<1>9. ~ near => \E n \in 1 .. Len(all) : GoodLine(m[n])
  <2> SUFFICES ASSUME ~ near PROVE \E n \in 1 .. Len(all) : GoodLine(m[n])
    OBVIOUS
  <2>1. PICK n \in UsableIn(raw) : TRUE
    BY DEF Consensus, HasConsistentPair
  <2>2. n \in 1 .. Len(all) /\ raw[n].outcome \in {"Validated", "ClockDrop"}
    BY DEF UsableIn, Usable, ContentUsable
  <2>3. tries[n].outcome = "Validated" /\ tries[n].confirmed = TRUE
    BY <1>2, <1>6, <2>1, <2>2
  <2>4. m[n].outcome = "Validated" /\ m[n].confirmed = TRUE /\ m[n].kind = "Discovery"
    BY <1>5, <2>2, <2>3 DEF PowerBound
  <2> QED
    BY <2>2, <2>4 DEF GoodLine
<1> QED
  BY <1>8, <1>9 DEF m, tries

(* The two parts of a sequence of reports hold its reports.                *)
LEMMA SplitReports ==
    ASSUME NEW m \in Seq(ReportType), NEW a \in 0 .. Len(m)
    PROVE  /\ Reports(SubSeq(m, 1, a)) \cup Reports(SubSeq(m, a + 1, Len(m))) = Reports(m)
           /\ \A r \in Reports(SubSeq(m, 1, a)) : \E n \in 1 .. a : r = m[n]
           /\ \A r \in Reports(SubSeq(m, a + 1, Len(m))) : \E n \in a + 1 .. Len(m) : r = m[n]
           /\ Len(SubSeq(m, a + 1, Len(m))) = Len(m) - a
<1> DEFINE before == SubSeq(m, 1, a)
           after == SubSeq(m, a + 1, Len(m))
<1>1. a \in Nat /\ Len(m) \in Nat /\ DOMAIN m = 1 .. Len(m)
  OBVIOUS
<1>2. DOMAIN before = 1 .. a /\ \A n \in 1 .. a : before[n] = m[n]
  BY <1>1
<1>3. DOMAIN after = 1 .. Len(m) - a /\ Len(after) = Len(m) - a /\ \A n \in 1 .. Len(m) - a : after[n] = m[a + n]
  <2>1. PICK b \in Nat : Len(m) = a + b
    <3>1. Len(m) - a \in Nat /\ Len(m) = a + (Len(m) - a)
      BY <1>1
    <3> QED
      BY <3>1
  <2>2. after \in Seq(ReportType) /\ Len(after) = b /\ \A n \in 1 .. b : after[n] = m[a + n]
    BY <1>1, <2>1
  <2> HIDE DEF after
  <2>3. b = Len(m) - a
    BY <1>1, <2>1
  <2> QED
    BY <2>2, <2>3
<1> HIDE DEF before, after
<1>4. Reports(before) = {m[n] : n \in 1 .. a}
  BY <1>2 DEF Reports
<1>5. Reports(after) = {m[n] : n \in a + 1 .. Len(m)}
  <2>1. \A n \in 1 .. Len(m) - a : a + n \in a + 1 .. Len(m)
    BY <1>1
  <2>2. \A n \in a + 1 .. Len(m) : n - a \in 1 .. Len(m) - a /\ a + (n - a) = n
    BY <1>1
  <2>3. Reports(after) = {m[a + n] : n \in 1 .. Len(m) - a}
    BY <1>3 DEF Reports
  <2>4. \A n \in 1 .. Len(m) - a : \E k \in a + 1 .. Len(m) : m[a + n] = m[k]
    BY <2>1, Zenon
  <2>5. \A k \in a + 1 .. Len(m) : \E n \in 1 .. Len(m) - a : m[k] = m[a + n]
    BY <2>2, Zenon
  <2>6. {m[a + n] : n \in 1 .. Len(m) - a} = {m[k] : k \in a + 1 .. Len(m)}
    <3>1. PICK S, T : S = 1 .. Len(m) - a /\ T = a + 1 .. Len(m)
      OBVIOUS
    <3>2. /\ \A n \in S : \E k \in T : m[a + n] = m[k]
          /\ \A k \in T : \E n \in S : m[k] = m[a + n]
      BY <2>4, <2>5, <3>1, Zenon
    <3>3. {m[a + n] : n \in S} = {m[k] : k \in T}
      BY <3>2
    <3> QED
      BY <3>1, <3>3, Zenon
  <2> QED
    BY <2>3, <2>6, Zenon
<1>6. 1 .. Len(m) = (1 .. a) \cup (a + 1 .. Len(m))
  BY <1>1
<1>7. Reports(m) = {m[n] : n \in 1 .. a} \cup {m[n] : n \in a + 1 .. Len(m)}
  BY <1>1, <1>6 DEF Reports
<1> QED
  BY <1>3, <1>4, <1>5, <1>7 DEF before, after

LEMMA ProvisionalAt ==
    ASSUME NEW rs \in Seq(ReportType), NEW n \in 1 .. Len(rs)
    PROVE  /\ Provisional(rs)[n].outcome = rs[n].outcome /\ Provisional(rs)[n].p99 = rs[n].p99
           /\ Provisional(rs)[n].thermal = rs[n].thermal
           /\ n = Len(rs) \/ rs[n].clean => Provisional(rs)[n].clean
<1>1. rs[n] \in ReportType /\ n \in DOMAIN rs
  OBVIOUS
<1>2. Provisional(rs)[n] = IF n = Len(rs) THEN [rs[n] EXCEPT !.clean = TRUE] ELSE rs[n]
  BY <1>1 DEF Provisional
<1> QED
  BY <1>1, <1>2 DEF ReportType

(* At the limit, or with a pass: the dwells agreed.                        *)
LEMMA NearConsents ==
    ASSUME NEW raw, NEW rechecked, NEW limit, NEW capped, NEW previous,
           CapState(ConservativeP99(raw, rechecked), limit, capped, previous) = "NearCap"
    PROVE  Consensus(raw, rechecked)
  BY DEF CapState, ConservativeP99, None

LEMMA ValidConsents ==
    ASSUME NEW raw \in Seq(ReportType), NEW rechecked,
           Aggregate(ConfirmAttempts(raw, rechecked), ConservativeP99(raw, rechecked)).outcome = "Validated"
    PROVE  /\ Consensus(raw, rechecked)
           /\ \A n \in 1 .. Len(raw) : ConfirmAttempts(raw, rechecked)[n].outcome # "ClockDrop"
<1> DEFINE tries == ConfirmAttempts(raw, rechecked)
           p99 == ConservativeP99(raw, rechecked)
           group == Aggregate(tries, p99)
<1>1. DOMAIN tries = DOMAIN raw /\ DOMAIN raw = 1 .. Len(raw)
  <2>1. DOMAIN tries = DOMAIN raw
    BY Zenon DEF ConfirmAttempts
  <2> QED
    BY <2>1
<1>2. p99 # None => Consensus(raw, rechecked)
  BY DEF ConservativeP99
<1> HIDE DEF tries, p99
<1>3. /\ HasHardFailure(tries) => group.outcome = tries[Min({n \in DOMAIN tries : tries[n].outcome \in HardFailures})].outcome
      /\ ~ HasHardFailure(tries) /\ group.outcome = "Validated" =>
            p99 # None /\ ~ \E r \in Reports(tries) : r.outcome = "ClockDrop"
  BY DEF Aggregate
<1>4. group.outcome = "Validated"
  BY DEF tries, p99
<1> HIDE DEF group
<1>5. ~ HasHardFailure(tries)
  <2> SUFFICES ASSUME HasHardFailure(tries) PROVE FALSE
    OBVIOUS
  <2> DEFINE hard == {n \in DOMAIN tries : tries[n].outcome \in HardFailures}
  <2>1. hard # {} /\ hard \in SUBSET Nat
    <3>1. DOMAIN tries \subseteq Nat
      BY <1>1
    <3> QED
      BY <3>1 DEF HasHardFailure, Reports
  <2>2. Min(hard) \in hard
    BY <2>1, MinMember
  <2>3. group.outcome = tries[Min(hard)].outcome
    BY <1>3
  <2> QED
    BY <1>4, <2>2, <2>3 DEF HardFailures
<1>6. p99 # None /\ ~ \E r \in Reports(tries) : r.outcome = "ClockDrop"
  BY <1>3, <1>4, <1>5
<1>7. \A n \in 1 .. Len(raw) : tries[n] \in Reports(tries)
  BY <1>1 DEF Reports
<1> QED
  BY <1>2, <1>6, <1>7 DEF tries

(* An analysis, in terms of what it compares and what it concludes.        *)
LEMMA AnalyseIs ==
    ASSUME Analyse, NEW raw \in Seq(ReportType),
           raw = IF motor.pc = "active" THEN Provisional(AllReports) ELSE AllReports
    PROVE  \E near, tested, verdict, found :
              /\ near \in BOOLEAN /\ tested \in BOOLEAN /\ verdict \in {"Inconclusive", "none"}
              /\ DOMAIN found = DOMAIN NoAnalysis
              /\ near <=> found.cap = "NearCap"
              /\ near => Consensus(raw, call.rechecked)
              /\ found.outcome = "Validated" /\ ~ near =>
                    /\ Consensus(raw, call.rechecked)
                    /\ \A n \in 1 .. Len(raw) : ConfirmAttempts(raw, call.rechecked)[n].outcome # "ClockDrop"
              /\ tested => ~ call.broken /\ found.outcome = "Validated" /\ ~ near /\ motor.pc = "active"
              /\ LET m     == Marked(AllReports, ConfirmAttempts(raw, call.rechecked), near)
                     after == [motor EXCEPT !.reports = SubSeq(m, Len(call.reports) + 1, Len(m))]
                 IN /\ call' = [[call EXCEPT !.reports = SubSeq(m, 1, Len(call.reports)), !.found = found]
                                EXCEPT !.pc = IF tested THEN "qualify" ELSE "cleanup", !.verdict = verdict]
                    /\ motor' = IF motor.pc = "active" /\ ~ tested THEN Finish(after) ELSE after
<1> DEFINE active  == motor.pc = "active"
           p99     == ConservativeP99(raw, call.rechecked)
           tries   == ConfirmAttempts(raw, call.rechecked)
           group   == Aggregate(tries, p99)
           cap     == CapState(p99, PowerLimit, group.capped, call.cap)
           near    == cap = "NearCap"
           outcome == PowerBound(group.outcome, near)
           marked  == Marked(AllReports, tries, near)
           after   == [motor EXCEPT !.reports = SubSeq(marked, Len(call.reports) + 1, Len(marked))]
           found   == [outcome |-> outcome, p99 |-> p99, p5 |-> group.p5, cap |-> cap,
                       confirmed |-> group.confirmed]
           wants   == ~ call.broken /\ ShouldQualify(outcome, near, QualificationPasses)
           tested  == wants /\ Candidate \notin call.exhausted /\ active
           verdict == IF wants /\ Candidate \in call.exhausted THEN "Inconclusive" ELSE "none"
           P(nn, tt, vv, ff) ==
              /\ DOMAIN ff = DOMAIN NoAnalysis
              /\ nn <=> ff.cap = "NearCap"
              /\ nn => Consensus(raw, call.rechecked)
              /\ ff.outcome = "Validated" /\ ~ nn =>
                    /\ Consensus(raw, call.rechecked)
                    /\ \A n \in 1 .. Len(raw) : tries[n].outcome # "ClockDrop"
              /\ tt => ~ call.broken /\ ff.outcome = "Validated" /\ ~ nn /\ motor.pc = "active"
              /\ LET m     == Marked(AllReports, tries, nn)
                     moved == [motor EXCEPT !.reports = SubSeq(m, Len(call.reports) + 1, Len(m))]
                 IN /\ call' = [[call EXCEPT !.reports = SubSeq(m, 1, Len(call.reports)), !.found = ff]
                                EXCEPT !.pc = IF tt THEN "qualify" ELSE "cleanup", !.verdict = vv]
                    /\ motor' = IF motor.pc = "active" /\ ~ tt THEN Finish(moved) ELSE moved
<1>1. /\ call' = [[call EXCEPT !.reports = SubSeq(marked, 1, Len(call.reports)), !.found = found]
                  EXCEPT !.pc = IF tested THEN "qualify" ELSE "cleanup", !.verdict = verdict]
      /\ motor' = IF active /\ ~ tested THEN Finish(after) ELSE after
  BY Zenon DEF Analyse
<1>2. tested \in BOOLEAN /\ verdict \in {"Inconclusive", "none"} /\ near \in BOOLEAN
  OBVIOUS
<1>3. near => Consensus(raw, call.rechecked)
  BY NearConsents
<1>4. outcome = "Validated" /\ ~ near =>
         /\ Consensus(raw, call.rechecked)
         /\ \A n \in 1 .. Len(raw) : tries[n].outcome # "ClockDrop"
  <2>1. outcome = "Validated" => group.outcome = "Validated"
    <3> HIDE DEF group, near
    <3> QED
      BY DEF PowerBound
  <2>2. group.outcome = "Validated" =>
           /\ Consensus(raw, call.rechecked)
           /\ \A n \in 1 .. Len(raw) : tries[n].outcome # "ClockDrop"
    BY ValidConsents, Zenon
  <2> HIDE DEF group, near, outcome, tries
  <2> QED
    BY <2>1, <2>2
<1>5. tested => ~ call.broken /\ outcome = "Validated" /\ ~ near /\ motor.pc = "active"
  <2> HIDE DEF outcome, near
  <2> QED
    BY DEF ShouldQualify
<1>6. found.outcome = outcome /\ found.cap = cap /\ DOMAIN found = DOMAIN NoAnalysis
  <2> HIDE DEF outcome, cap, group, p99
  <2> QED
    BY DEF NoAnalysis
<1>7. near <=> cap = "NearCap"
  OBVIOUS
<1> HIDE DEF p99, group, outcome, found, tested, verdict, wants, near, cap
<1>8. P(near, tested, verdict, found)
  <2> HIDE DEF tries
  <2> QED
    BY <1>1, <1>2, <1>3, <1>4, <1>5, <1>6, <1>7
<1> HIDE DEF P, tries
<1>9. \E nn, tt, vv, ff :
         nn \in BOOLEAN /\ tt \in BOOLEAN /\ vv \in {"Inconclusive", "none"} /\ P(nn, tt, vv, ff)
  BY <1>2, <1>8, Zenon
<1> QED
  BY <1>9, Zenon DEF P, tries

LEMMA ConcatAt ==
    ASSUME NEW a \in Seq(ReportType), NEW b \in Seq(ReportType)
    PROVE  /\ DOMAIN a = 1 .. Len(a) /\ DOMAIN b = 1 .. Len(b)
           /\ \A n \in 1 .. Len(a) + Len(b) : (a \o b)[n] = IF n <= Len(a) THEN a[n] ELSE b[n - Len(a)]
  OBVIOUS

(* The marks leave a pass to the heavy load, and no failure behind when    *)
(* the dwells agreed.                                                      *)
LEMMA AnalyseStands ==
    ASSUME EvidenceInv, Analyse
    PROVE  IndexOK' /\ Stocked' /\ Reported' /\ Recorded' /\ Standing'
<1>1. /\ call.pc = "analyse" /\ UNCHANGED <<log, forge>> /\ DOMAIN call = DOMAIN IdleCall
      /\ DOMAIN call.found = DOMAIN NoAnalysis /\ MotorShape
      /\ motor.clean => motor.pc = "done" /\ \A q \in Reports(motor.reports) : q.clean
      /\ ~ call.broken => \A q \in Reports(call.reports) : q.clean
      /\ \A q \in Lines : Measured(q)
      /\ motor.pc \in {"active", "done", "idle"}
      /\ motor.pc = "active" => Len(motor.reports) = 1
      /\ motor.pc = "done" => call.broken
      /\ motor.pc = "idle" => motor.reports = <<>>
      /\ AllDiscovery(motor.reports) /\ AllDiscovery(call.reports)
  BY DEF Analyse, EvidenceInv, OrderInv, OrderOK, GuardInv, SyncOK, MotorGuarded, Reported, Engaged
<1>a. PICK all : all = AllReports
  OBVIOUS
<1>b. PICK a : a = Len(call.reports)
  OBVIOUS
<1>c. PICK raw : raw = IF motor.pc = "active" THEN Provisional(AllReports) ELSE AllReports
  OBVIOUS
<1>2. /\ call.reports \in Seq(ReportType) /\ motor.reports \in Seq(ReportType)
      /\ all \in Seq(ReportType) /\ Reports(all) = Lines /\ Len(all) = a + Len(motor.reports)
      /\ a \in Nat /\ Len(motor.reports) \in Nat /\ AllDiscovery(all)
  <2>1. call.reports \in Seq(ReportType) /\ motor.reports \in Seq(ReportType)
    BY <1>1 DEF AllDiscovery
  <2>2. AllDiscovery(all)
    BY <1>1, <1>a, ConcatOrder, DiscoveryIsOrdered DEF AllReports, Unrejected
  <2> QED
    BY <1>a, <1>b, <2>1, <2>2, ReportsConcat DEF AllReports, Lines
<1>3. /\ raw \in Seq(ReportType) /\ Len(raw) = Len(all)
      /\ \A n \in 1 .. Len(all) : /\ raw[n].outcome = all[n].outcome /\ raw[n].p99 = all[n].p99
                                  /\ raw[n].thermal = all[n].thermal
                                  /\ (motor.pc = "active" /\ n = Len(all)) \/ all[n].clean => raw[n].clean
  <2>1. CASE motor.pc = "active"
    <3>1. raw = Provisional(all)
      BY <1>a, <1>c, <2>1
    <3> QED
      BY <1>2, <3>1, ProvisionalType, ProvisionalAt
  <2>2. CASE motor.pc # "active"
    BY <1>2, <1>a, <1>c, <2>2
  <2> QED
    BY <2>1, <2>2
<1>4. PICK near, tested, verdict, found :
              /\ near \in BOOLEAN /\ tested \in BOOLEAN /\ verdict \in {"Inconclusive", "none"}
              /\ DOMAIN found = DOMAIN NoAnalysis
              /\ near <=> found.cap = "NearCap"
              /\ near => Consensus(raw, call.rechecked)
              /\ found.outcome = "Validated" /\ ~ near =>
                    /\ Consensus(raw, call.rechecked)
                    /\ \A n \in 1 .. Len(raw) : ConfirmAttempts(raw, call.rechecked)[n].outcome # "ClockDrop"
              /\ tested => ~ call.broken /\ found.outcome = "Validated" /\ ~ near /\ motor.pc = "active"
              /\ LET m     == Marked(AllReports, ConfirmAttempts(raw, call.rechecked), near)
                     after == [motor EXCEPT !.reports = SubSeq(m, Len(call.reports) + 1, Len(m))]
                 IN /\ call' = [[call EXCEPT !.reports = SubSeq(m, 1, Len(call.reports)), !.found = found]
                                EXCEPT !.pc = IF tested THEN "qualify" ELSE "cleanup", !.verdict = verdict]
                    /\ motor' = IF motor.pc = "active" /\ ~ tested THEN Finish(after) ELSE after
  BY <1>3, <1>c, AnalyseIs, Zenon
<1>d. PICK m : m = Marked(all, ConfirmAttempts(raw, call.rechecked), near)
  OBVIOUS
<1>e. PICK before, after : before = SubSeq(m, 1, a) /\ after = SubSeq(m, a + 1, Len(m))
  OBVIOUS
<1>5. m \in Seq(ReportType) /\ Len(m) = Len(all)
  BY <1>2, <1>3, <1>d, MarkedType
<1>6. \A n \in 1 .. Len(all) : m[n].kind = all[n].kind /\ m[n].clean = all[n].clean
  BY <1>2, <1>d, MarkAt
<1>7. \A n \in 1 .. Len(all) : all[n].kind = "Discovery" /\ all[n] \in Lines /\ Measured(all[n])
  <2>1. DOMAIN all = 1 .. Len(all)
    BY <1>2
  <2>2. \A n \in 1 .. Len(all) : all[n] \in Reports(all)
    BY <2>1 DEF Reports
  <2> QED
    BY <1>1, <1>2, <2>1, <2>2 DEF AllDiscovery
<1>8. /\ \A n \in 1 .. a : n \in DOMAIN call.reports /\ all[n] = call.reports[n]
      /\ \A n \in a + 1 .. Len(all) : n - a \in DOMAIN motor.reports /\ all[n] = motor.reports[n - a]
  <2>1. all = call.reports \o motor.reports
    BY <1>a DEF AllReports
  <2>2. /\ DOMAIN call.reports = 1 .. a /\ DOMAIN motor.reports = 1 .. Len(motor.reports)
        /\ \A n \in 1 .. a + Len(motor.reports) : all[n] = IF n <= a THEN call.reports[n] ELSE motor.reports[n - a]
    BY <1>2, <1>b, <2>1, ConcatAt
  <2>3. a \in Nat /\ Len(motor.reports) \in Nat /\ Len(all) = a + Len(motor.reports)
    BY <1>2, <1>b, <2>1, ConcatAt
  <2>4. \A n \in 1 .. a : n \in 1 .. a + Len(motor.reports) /\ n <= a
    BY <2>3
  <2>5. \A n \in a + 1 .. Len(all) : /\ n \in 1 .. a + Len(motor.reports) /\ ~ n <= a
                                    /\ n - a \in 1 .. Len(motor.reports)
    BY <2>3
  <2> QED
    BY <2>2, <2>4, <2>5, Zenon
<1>9. /\ ~ call.broken => \A n \in 1 .. a : all[n].clean
      /\ motor.clean => \A n \in a + 1 .. Len(all) : all[n].clean
  BY <1>1, <1>8 DEF Reports
<1>10. ~ call.broken => \A n \in 1 .. Len(all) : raw[n].clean
  <2> SUFFICES ASSUME ~ call.broken, NEW n \in 1 .. Len(all) PROVE raw[n].clean
    OBVIOUS
  <2>1. CASE n \in 1 .. a
    BY <1>3, <1>9, <2>1
  <2>2. CASE n \notin 1 .. a
    <3>1. a < n /\ n <= a + Len(motor.reports)
      BY <1>2, <2>2
    <3>2. motor.reports # <<>>
      BY <1>2, <3>1
    <3>3. motor.pc = "active" /\ Len(motor.reports) = 1
      BY <1>1, <3>2
    <3>4. n = Len(all)
      BY <1>2, <3>1, <3>3
    <3> QED
      BY <1>3, <3>3, <3>4
  <2> QED
    BY <2>1, <2>2
<1>11. ~ call.broken /\ (near \/ found.outcome = "Validated") =>
          /\ \A n \in 1 .. Len(all) : ~ BadLine(m[n])
          /\ ~ near => \E n \in 1 .. Len(all) : GoodLine(m[n])
  <2> SUFFICES ASSUME ~ call.broken, near \/ found.outcome = "Validated"
               PROVE  /\ \A n \in 1 .. Len(all) : ~ BadLine(m[n])
                      /\ ~ near => \E n \in 1 .. Len(all) : GoodLine(m[n])
    OBVIOUS
  <2>1. Consensus(raw, call.rechecked)
    BY <1>4
  <2>2. near \/ \A n \in 1 .. Len(all) : ConfirmAttempts(raw, call.rechecked)[n].outcome # "ClockDrop"
    BY <1>3, <1>4
  <2>3. near \in BOOLEAN
    BY <1>4, Zenon
  <2>4. /\ all \in Seq(ReportType) /\ raw \in Seq(ReportType) /\ Len(raw) = Len(all)
        /\ \A n \in 1 .. Len(all) :
              /\ raw[n].outcome = all[n].outcome /\ raw[n].p99 = all[n].p99 /\ raw[n].thermal = all[n].thermal
              /\ raw[n].clean /\ Measured(all[n]) /\ all[n].kind = "Discovery"
    BY <1>2, <1>3, <1>7, <1>10
  <2> QED
    BY <2>1, <2>2, <2>3, <2>4, <1>d, Consented, Zenon
<1>12. /\ call' = [[call EXCEPT !.reports = before, !.found = found]
                   EXCEPT !.pc = IF tested THEN "qualify" ELSE "cleanup", !.verdict = verdict]
       /\ motor' = IF motor.pc = "active" /\ ~ tested THEN Finish([motor EXCEPT !.reports = after])
                   ELSE [motor EXCEPT !.reports = after]
  BY <1>4, <1>a, <1>b, <1>d, <1>e, Zenon
<1>13. /\ Reports(before) \cup Reports(after) = Reports(m)
       /\ \A r \in Reports(before) : \E n \in 1 .. a : r = m[n]
       /\ \A r \in Reports(after) : \E n \in a + 1 .. Len(m) : r = m[n]
       /\ Len(after) = Len(motor.reports) /\ DOMAIN m = 1 .. Len(all)
  <2>1. a \in 0 .. Len(m) /\ Len(m) - a = Len(motor.reports) /\ DOMAIN m = 1 .. Len(all)
    BY <1>2, <1>5
  <2> QED
    BY <1>5, <1>e, <2>1, SplitReports
<1>14. /\ call'.pc = (IF tested THEN "qualify" ELSE "cleanup") /\ call'.verdict = verdict
       /\ call'.broken = call.broken /\ call'.reports = before /\ call'.found = found
       /\ call'.cands = call.cands /\ call'.i = call.i /\ call'.local = call.local /\ call'.bracket = call.bracket
       /\ call'.failed = call.failed /\ call'.jumped = call.jumped
       /\ call'.rejected = call.rejected /\ call'.sustainable = call.sustainable
  BY <1>1, <1>12, CallFields
<1>15. /\ motor'.pc = (IF motor.pc = "active" /\ ~ tested THEN "reset" ELSE motor.pc)
       /\ motor'.reports = after /\ motor'.clean = motor.clean
  BY <1>1, <1>12 DEF Finish, MotorShape
<1>16. Lines' = {m[n] : n \in 1 .. Len(all)} /\ Queued' = {}
  <2>1. Lines' = Reports(before) \cup Reports(after) /\ Queued' = {}
    BY <1>14, <1>15 DEF Lines, Queued
  <2>2. Reports(m) = {m[n] : n \in 1 .. Len(all)}
    BY <1>13 DEF Reports
  <2> QED
    BY <1>13, <2>1, <2>2
<1>17. \A q \in Lines' : q.kind = "Discovery" /\ ~ PassLine(q)
  BY <1>6, <1>7, <1>16 DEF PassLine
<1>18. \E q \in Lines' : q.kind = "Discovery"
  <2>1. Len(all) # 0
    <3>1. \E q \in Lines : TRUE
      BY <1>1 DEF EvidenceInv, Reported
    <3>2. PICK q \in Reports(all) : TRUE
      BY <1>2, <3>1
    <3> QED
      BY <1>2, <3>2 DEF Reports
  <2>2. 1 \in 1 .. Len(all)
    BY <1>2, <2>1
  <2> QED
    BY <1>16, <1>17, <2>2
<1>19. ~ call.broken => \A q \in Reports(before) : q.clean
  <2>1. \A n \in 1 .. a : n \in 1 .. Len(all)
    BY <1>2
  <2> QED
    BY <1>6, <1>9, <1>13, <2>1
<1>20. motor.clean => \A q \in Reports(after) : q.clean
  <2>1. \A n \in a + 1 .. Len(m) : n \in a + 1 .. Len(all) /\ n \in 1 .. Len(all)
    BY <1>2, <1>5
  <2> QED
    BY <1>6, <1>9, <1>13, <2>1
<1>21. ~ call.broken /\ (near \/ found.outcome = "Validated") =>
          (\A q \in Lines' : ~ BadLine(q)) /\ (~ near => \E q \in Lines' : GoodLine(q))
  BY <1>11, <1>16
<1>22. /\ DOMAIN call'.found = DOMAIN NoAnalysis
       /\ \A r \in Lines' \cup Queued' : r.kind # "ApplyQualification"
       /\ call'.pc \in {"qualify", "cleanup"}
       /\ call'.pc \in Engaged /\ ~ call'.broken => \A r \in Reports(call'.reports) : r.clean
       /\ \A r \in Reports(motor'.reports) : motor'.clean => r.clean
  BY <1>4, <1>14, <1>15, <1>16, <1>17, <1>19, <1>20
<1>23. motor'.clean => motor'.pc = "done"
  BY <1>1, <1>15
<1>24. call'.pc = "qualify" =>
          /\ ~ call'.broken /\ call'.found.outcome = "Validated"
          /\ \A r \in Lines' : ~ BadLine(r) /\ ~ PassLine(r)
          /\ \E r \in Lines' : GoodLine(r)
  BY <1>4, <1>14, <1>17, <1>21
<1>25. call'.pc = "cleanup" => /\ motor'.pc \in {"reset", "done", "idle"}
                               /\ Sound(Lines', call'.verdict, call'.found, call'.broken)
  <2> SUFFICES ASSUME ~ tested
               PROVE  /\ motor'.pc \in {"reset", "done", "idle"}
                      /\ Sound(Lines', call'.verdict, call'.found, call'.broken)
    BY <1>14
  <2>1. Sound(Lines', call'.verdict, call'.found, call'.broken)
    BY <1>4, <1>14, <1>17, <1>21 DEF Sound
  <2> QED
    BY <1>1, <1>15, <2>1
<1>26. Reported'
  BY <1>18, <1>22, <1>23, <1>24, <1>25 DEF Reported, Ended
<1>27. IndexOK' /\ Stocked' /\ Recorded' /\ Standing'
  BY <1>1, <1>14, WithCandidate DEF Engaged
<1> QED
  BY <1>26, <1>27

(* The queue holds what the dwells reported; a qualification comes before  *)
(* every discovery.                                                        *)
LEMMA KindPiece ==
    ASSUME NEW rs, Ordered(rs), NEW kind
    PROVE  /\ OfKind(rs, kind) \in Seq(ReportType)
           /\ Reports(OfKind(rs, kind)) \subseteq Reports(rs)
           /\ \A r \in Reports(rs) : r.kind = kind => r \in Reports(OfKind(rs, kind))
           /\ kind = "Discovery" => \A n \in DOMAIN OfKind(rs, kind) : OfKind(rs, kind)[n].kind # "Qualification"
<1>1. rs \in Seq(ReportType) /\ \A m, n \in DOMAIN rs : m <= n /\ rs[m].kind = "Qualification" => rs[n].kind = "Qualification"
  BY DEF Ordered
<1>2. PICK S : S = {r \in Reports(rs) : r.kind = kind}
  OBVIOUS
<1>3. PICK p : p = OfKind(rs, kind) /\ p = Piece(rs, S)
  BY <1>2 DEF OfKind
<1>4. /\ p \in Seq(ReportType)
      /\ \E d \in Nat :
            /\ \A k \in DOMAIN p : k + d \in DOMAIN rs /\ p[k] = rs[k + d]
            /\ \A n \in DOMAIN rs : rs[n] \in S => n - d \in DOMAIN p
            /\ \A k \in DOMAIN p : \E m, n \in DOMAIN rs :
                  rs[m] \in S /\ rs[n] \in S /\ m <= k + d /\ k + d <= n
  <2>1. /\ Piece(rs, S) \in Seq(ReportType)
        /\ \E d \in Nat :
              /\ \A k \in DOMAIN Piece(rs, S) : k + d \in DOMAIN rs /\ Piece(rs, S)[k] = rs[k + d]
              /\ \A n \in DOMAIN rs : rs[n] \in S => n - d \in DOMAIN Piece(rs, S)
              /\ \A k \in DOMAIN Piece(rs, S) : \E m, n \in DOMAIN rs :
                    rs[m] \in S /\ rs[n] \in S /\ m <= k + d /\ k + d <= n
    BY <1>1, PieceIs
  <2> QED
    BY <1>3, <2>1, Zenon
<1>5. PICK d \in Nat :
            /\ \A k \in DOMAIN p : k + d \in DOMAIN rs /\ p[k] = rs[k + d]
            /\ \A n \in DOMAIN rs : rs[n] \in S => n - d \in DOMAIN p
            /\ \A k \in DOMAIN p : \E m, n \in DOMAIN rs :
                  rs[m] \in S /\ rs[n] \in S /\ m <= k + d /\ k + d <= n
  BY <1>4
<1>6. Reports(p) \subseteq Reports(rs)
  BY <1>5 DEF Reports
<1>7. \A r \in Reports(rs) : r.kind = kind => r \in Reports(p)
  <2> SUFFICES ASSUME NEW n \in DOMAIN rs, rs[n].kind = kind PROVE rs[n] \in Reports(p)
    BY DEF Reports
  <2>1. rs[n] \in S
    BY <1>2 DEF Reports
  <2>2. n - d \in DOMAIN p /\ (n - d) + d = n
    <3>1. n \in Nat /\ d \in Nat
      BY <1>1
    <3> QED
      BY <1>5, <2>1, <3>1
  <2>3. p[n - d] = rs[n]
    BY <1>5, <2>2
  <2> QED
    BY <2>2, <2>3 DEF Reports
<1>8. kind = "Discovery" => \A n \in DOMAIN p : p[n].kind # "Qualification"
  <2> SUFFICES ASSUME kind = "Discovery", NEW k \in DOMAIN p PROVE p[k].kind # "Qualification"
    OBVIOUS
  <2>1. PICK n \in DOMAIN rs : rs[n] \in S /\ k + d <= n
    BY <1>5
  <2>2. rs[n].kind = "Discovery"
    BY <1>2, <2>1
  <2>3. k + d \in DOMAIN rs /\ p[k] = rs[k + d]
    BY <1>5
  <2> QED
    BY <1>1, <2>1, <2>2, <2>3
<1> QED
  BY <1>3, <1>4, <1>6, <1>7, <1>8

LEMMA QueueIs ==
    ASSUME NEW rs, Ordered(rs), \E r \in Reports(rs) : r.kind = "Discovery", NEW clean
    PROVE  LET q == PersistOrder(rs, clean)
           IN /\ q \in Seq(ReportType) /\ q # <<>> /\ Reports(q) \subseteq Reports(rs)
              /\ ~ clean => Reports(q) = {Last(rs)}
              /\ clean => \A m \in DOMAIN q : q[m].kind = "Qualification" =>
                     \A r \in Reports(rs) : r.kind = "Discovery" => \E n \in DOMAIN q : m < n /\ q[n] = r
<1>1. rs \in Seq(ReportType)
  BY DEF Ordered
<1>2. PICK q : q = PersistOrder(rs, clean)
  OBVIOUS
<1>3. CASE ~ clean
  <2>1. rs # <<>> /\ Len(rs) \in Nat
    BY <1>1 DEF Reports
  <2>2. Len(rs) \in DOMAIN rs /\ Last(rs) = rs[Len(rs)]
    BY <1>1, <2>1 DEF Last
  <2>3. Last(rs) \in ReportType /\ Last(rs) \in Reports(rs)
    BY <1>1, <2>2 DEF Reports
  <2>4. q = <<Last(rs)>>
    BY <1>2, <1>3 DEF PersistOrder
  <2>5. q \in Seq(ReportType) /\ q # <<>> /\ Reports(q) = {Last(rs)}
    BY <2>3, <2>4 DEF Reports
  <2> QED
    BY <1>2, <1>3, <2>3, <2>5
<1>4. CASE clean
  <2>1. PICK qs, ds : qs = OfKind(rs, "Qualification") /\ ds = OfKind(rs, "Discovery")
    OBVIOUS
  <2>2. /\ qs \in Seq(ReportType) /\ ds \in Seq(ReportType)
        /\ Reports(qs) \subseteq Reports(rs) /\ Reports(ds) \subseteq Reports(rs)
        /\ \A r \in Reports(rs) : r.kind = "Discovery" => r \in Reports(ds)
        /\ \A n \in DOMAIN ds : ds[n].kind # "Qualification"
    BY <2>1, KindPiece
  <2>3. q = qs \o ds
    BY <1>2, <1>4, <2>1 DEF PersistOrder
  <2>4. q \in Seq(ReportType) /\ Len(q) = Len(qs) + Len(ds) /\ Reports(q) = Reports(qs) \cup Reports(ds)
    BY <2>2, <2>3, ReportsConcat
  <2>5. /\ DOMAIN qs = 1 .. Len(qs) /\ DOMAIN ds = 1 .. Len(ds) /\ DOMAIN q = 1 .. Len(qs) + Len(ds)
        /\ Len(qs) \in Nat /\ Len(ds) \in Nat
        /\ \A n \in 1 .. Len(qs) + Len(ds) : q[n] = IF n <= Len(qs) THEN qs[n] ELSE ds[n - Len(qs)]
    BY <2>2, <2>3, <2>4, ConcatAt
  <2>6. q # <<>>
    <3>1. PICK n \in DOMAIN ds : TRUE
      BY <2>2 DEF Reports
    <3> QED
      BY <2>4, <2>5, <3>1
  <2>7. \A m \in DOMAIN q : q[m].kind = "Qualification" =>
           \A r \in Reports(rs) : r.kind = "Discovery" => \E n \in DOMAIN q : m < n /\ q[n] = r
    <3> SUFFICES ASSUME NEW m \in DOMAIN q, q[m].kind = "Qualification",
                        NEW r \in Reports(rs), r.kind = "Discovery"
                 PROVE  \E n \in DOMAIN q : m < n /\ q[n] = r
      OBVIOUS
    <3>1. m <= Len(qs)
      <4> SUFFICES ASSUME m > Len(qs) PROVE FALSE
        BY <2>5
      <4>1. m - Len(qs) \in DOMAIN ds /\ q[m] = ds[m - Len(qs)]
        BY <2>5
      <4> QED
        BY <2>2, <4>1
    <3>2. PICK n \in DOMAIN ds : ds[n] = r
      BY <2>2 DEF Reports
    <3>3. Len(qs) + n \in DOMAIN q /\ m < Len(qs) + n /\ q[Len(qs) + n] = ds[n]
      BY <2>5, <3>1, <3>2
    <3> QED
      BY <3>2, <3>3
  <2> QED
    BY <1>2, <1>4, <2>2, <2>4, <2>6, <2>7
<1> QED
  BY <1>3, <1>4

(* The indexes stay while a candidate is recorded and judged.              *)
LEMMA IndexKept ==
    ASSUME EvidenceInv, call.pc \in Engaged \cup AtCandidate, call'.pc \in AtCandidate,
           call'.cands = call.cands, call'.i = call.i, call'.local = call.local, call'.bracket = call.bracket,
           call'.failed = call.failed, call'.jumped = call.jumped
    PROVE  IndexOK' /\ Limit' = Limit /\ Candidate' = Candidate
<1>1. Limit' = Limit /\ Candidate' = Candidate
  BY DEF Limit, Candidate
<1>2. call.pc \in Live /\ call'.pc # "next"
  BY DEF Live, AtCandidate
<1> QED
  BY <1>1, <1>2 DEF EvidenceInv, IndexOK, Descending

(* No evidence of the run is at a candidate that is only being tried.      *)
LEMMA CandidateIsNew ==
    ASSUME EvidenceInv, call.pc \in Engaged
    PROVE  \A o \in Own : o.anchor = Candidate => ~ IsBad(o) /\ ~ IsCurrentQualificationPass(o)
<1>1. call.pc \in Live /\ call.pc \notin AtCandidate
  BY DEF Live, Engaged, AtCandidate
<1>2. /\ call.cands \in Seq(Planned) /\ call.i \in Nat \ {0} /\ call.i <= Len(call.cands) /\ call.i < Limit
  BY DEF EvidenceInv, IndexOK
<1>3. call.i \in DOMAIN call.cands /\ Candidate \in Nat
  <2>1. call.i \in 1 .. Len(call.cands) /\ DOMAIN call.cands = 1 .. Len(call.cands)
    BY <1>2
  <2>2. call.cands[call.i] \in Planned
    BY <1>2, <2>1
  <2>3. Planned \subseteq Nat
    BY PlanHasTop
  <2> QED
    BY <2>1, <2>2, <2>3 DEF Candidate
<1>4. \A v : /\ Above(v) => Candidate > v
             /\ Below(v) => v > Candidate
  BY <1>2, <1>3 DEF Above, Below, Candidate
<1>5. \A o \in Own : (IsBad(o) => Above(o.anchor)) /\ (IsCurrentQualificationPass(o) => Below(o.anchor))
  BY <1>1 DEF EvidenceInv, Standing
<1> QED
  BY <1>3, <1>4, <1>5

(* The candidate's reports become the lines to write.                      *)
LEMMA CleanupStands ==
    ASSUME EvidenceInv, CandidateCleanup
    PROVE  IndexOK' /\ Stocked' /\ Reported' /\ Recorded' /\ Standing'
<1>1. /\ call.pc = "cleanup" /\ motor.pc \in {"done", "idle"} /\ UNCHANGED <<log, forge>> /\ motor' = IdleMotor
      /\ DOMAIN call = DOMAIN IdleCall /\ DOMAIN call.found = DOMAIN NoAnalysis
      /\ motor.clean => motor.pc = "done" /\ \A q \in Reports(motor.reports) : q.clean
      /\ ~ call.broken => \A q \in Reports(call.reports) : q.clean
      /\ motor.pc = "idle" => motor.reports = <<>>
      /\ AllDiscovery(call.reports) /\ Ordered(motor.reports)
      /\ \E q \in Lines : q.kind = "Discovery"
      /\ \A q \in Lines : q.kind # "ApplyQualification"
      /\ (motor.pc = "done" => motor.clean) => Sound(Lines, call.verdict, call.found, call.broken)
      /\ ~ call.rejected /\ ~ call.sustainable
  BY DEF CandidateCleanup, EvidenceInv, OrderInv, OrderOK, GuardInv, SyncOK, Reported, Engaged, Standing
<1>2. PICK c : c = IF motor.pc = "done" THEN CollectedMotor(call) ELSE call
  OBVIOUS
<1>3. /\ DOMAIN c = DOMAIN IdleCall /\ c.found = call.found /\ c.verdict = call.verdict /\ c.broken = call.broken
      /\ c.cands = call.cands /\ c.i = call.i /\ c.local = call.local /\ c.bracket = call.bracket
      /\ c.failed = call.failed /\ c.jumped = call.jumped
      /\ c.rejected = call.rejected /\ c.sustainable = call.sustainable
      /\ c.reports = (IF motor.pc = "done" THEN AllReports ELSE call.reports)
      /\ motor.pc = "done" => c.clean = motor.clean
  BY <1>1, <1>2, CallFields DEF CollectedMotor, IdleCall
<1>4. Ordered(c.reports) /\ Reports(c.reports) = Lines
  <2>1. CASE motor.pc = "done"
    <3>1. Reports(AllReports) = Lines
      BY <1>1, ReportsConcat DEF AllReports, Lines, AllDiscovery, Ordered
    <3> QED
      BY <1>1, <1>3, <2>1, <3>1, ConcatOrder DEF AllReports
  <2>2. CASE motor.pc = "idle"
    <3>1. Reports(motor.reports) = {}
      BY <1>1, <2>2 DEF Reports
    <3> QED
      BY <1>1, <1>3, <2>2, <3>1, DiscoveryIsOrdered DEF Unrejected, Lines
  <2> QED
    BY <1>1, <2>1, <2>2
<1>5. PICK outcome, verdict :
         /\ call' = [c EXCEPT !.pc = "persist",
                              !.queue = PersistOrder(c.reports, c.clean),
                              !.broken = @ \/ ~ c.clean,
                              !.found.outcome = outcome, !.verdict = verdict]
         /\ c.clean => outcome = c.found.outcome /\ verdict = c.verdict
  <2>1. \E lost :
         call' = [c EXCEPT !.pc = "persist",
                              !.queue = PersistOrder(c.reports, c.clean),
                              !.broken = @ \/ ~ c.clean,
                              !.found.outcome = IF c.clean THEN @ ELSE IF lost THEN "DeviceLost" ELSE "ResetFailed",
                              !.verdict = IF c.clean \/ @ = "none" THEN @ ELSE "Aborted"]
    BY <1>2, Zenon DEF CandidateCleanup
  <2>2. PICK lost :
         call' = [c EXCEPT !.pc = "persist",
                              !.queue = PersistOrder(c.reports, c.clean),
                              !.broken = @ \/ ~ c.clean,
                              !.found.outcome = IF c.clean THEN @ ELSE IF lost THEN "DeviceLost" ELSE "ResetFailed",
                              !.verdict = IF c.clean \/ @ = "none" THEN @ ELSE "Aborted"]
    BY <2>1
  <2>3. PICK outcome : outcome = IF c.clean THEN c.found.outcome ELSE IF lost THEN "DeviceLost" ELSE "ResetFailed"
    OBVIOUS
  <2>4. PICK verdict : verdict = IF c.clean \/ c.verdict = "none" THEN c.verdict ELSE "Aborted"
    OBVIOUS
  <2>5. call' = [c EXCEPT !.pc = "persist",
                              !.queue = PersistOrder(c.reports, c.clean),
                              !.broken = @ \/ ~ c.clean,
                              !.found.outcome = outcome, !.verdict = verdict]
    BY <2>2, <2>3, <2>4, Zenon
  <2> QED
    BY <2>3, <2>4, <2>5
<1>6. PICK q : q = PersistOrder(c.reports, c.clean)
  OBVIOUS
<1>7. /\ call'.pc = "persist" /\ call'.queue = q /\ call'.broken = (call.broken \/ ~ c.clean)
      /\ call'.verdict = verdict /\ DOMAIN call'.found = DOMAIN NoAnalysis
      /\ call'.found.outcome = outcome /\ call'.found.cap = call.found.cap
      /\ call'.reports = c.reports
      /\ call'.cands = call.cands /\ call'.i = call.i /\ call'.local = call.local /\ call'.bracket = call.bracket
      /\ call'.failed = call.failed /\ call'.jumped = call.jumped
      /\ call'.rejected = call.rejected /\ call'.sustainable = call.sustainable
  BY <1>1, <1>3, <1>5, <1>6, CallFields DEF NoAnalysis
<1>8. /\ q \in Seq(ReportType) /\ q # <<>> /\ Reports(q) \subseteq Lines
      /\ ~ c.clean => Reports(q) = {Last(c.reports)}
      /\ c.clean => \A m \in DOMAIN q : q[m].kind = "Qualification" =>
             \A r \in Lines : r.kind = "Discovery" => \E n \in DOMAIN q : m < n /\ q[n] = r
  BY <1>1, <1>4, <1>6, QueueIs
<1>9. UNCHANGED obs /\ Own' = Own /\ Queued' = Reports(q)
  BY <1>1, <1>7 DEF obs, Own, OfRun, Queued
<1>10. IndexOK' /\ Limit' = Limit /\ Candidate' = Candidate
  BY <1>1, <1>7, IndexKept DEF Engaged, AtCandidate
<1>11. Stocked'
  BY <1>1, <1>9 DEF EvidenceInv, Stocked
<1>12. Reported'
  <2>1. Lines' = Lines
    <3>1. Reports(motor'.reports) = {}
      BY <1>1 DEF Reports, IdleMotor
    <3> QED
      BY <1>4, <1>7, <3>1 DEF Lines
  <2> QED
    BY <1>1, <1>7, <1>8, <1>9, <2>1 DEF Reported, Engaged, Ended, IdleMotor
<1>13. \A o \in Own' : o.anchor = Candidate' => ~ IsBad(o) /\ ~ IsCurrentQualificationPass(o)
  BY <1>1, <1>9, <1>10, CandidateIsNew DEF Engaged
<1>14. c.clean => /\ Sound(Lines, call.verdict, call.found, call.broken)
                  /\ outcome = call.found.outcome /\ verdict = call.verdict
                  /\ ~ call.broken => \A r \in Lines : r.clean
  <2>1. c.clean => (motor.pc = "done" => motor.clean)
    BY <1>3
  <2>2. motor.pc = "idle" => Reports(motor.reports) = {}
    BY <1>1 DEF Reports
  <2>3. c.clean /\ ~ call.broken => \A r \in Lines : r.clean
    BY <1>1, <2>1, <2>2 DEF Lines
  <2> QED
    BY <1>1, <1>3, <1>5, <2>1, <2>3
<1>15. ~ ((\E r \in Reports(q) : PassLine(r)) /\ (\E r \in Reports(q) : BadLine(r)))
  <2>1. CASE c.clean
    BY <1>8, <1>14, <2>1 DEF Sound
  <2>2. CASE ~ c.clean
    <3>1. PassLine(Last(c.reports)) => ~ BadLine(Last(c.reports))
      BY DEF PassLine, BadLine, MapOutcome, BadOutcomes
    <3> QED
      BY <1>8, <2>2, <3>1
  <2> QED
    BY <2>1, <2>2
<1>16. ~ call'.broken => c.clean /\ ~ call.broken
  BY <1>7
<1>17. /\ (\E r \in Reports(q) : PassLine(r)) /\ ~ call'.broken =>
             call'.verdict = "Qualified" /\ call'.found.outcome = "Validated"
       /\ (\E r \in Reports(q) : BadLine(r)) /\ ~ call'.broken =>
             call'.verdict # "Qualified" /\ (call'.verdict = "none" => call'.found.cap # "NearCap")
  BY <1>7, <1>8, <1>14, <1>16 DEF Sound
<1>18. ~ call'.broken => PassBeforeGood(q)
  <2> SUFFICES ASSUME c.clean, ~ call.broken, NEW m \in DOMAIN q, PassLine(q[m])
               PROVE  \E n \in DOMAIN q : m < n /\ GoodLine(q[n]) /\ q[n].clean
    BY <1>16 DEF PassBeforeGood
  <2>1. q[m] \in Lines
    BY <1>8 DEF Reports
  <2>2. PICK r \in Lines : GoodLine(r)
    BY <1>14, <2>1 DEF Sound
  <2>3. r.kind = "Discovery" /\ r.clean /\ q[m].kind = "Qualification"
    BY <1>14, <2>2 DEF GoodLine, PassLine
  <2> QED
    BY <1>8, <2>2, <2>3
<1>19. Recorded'
  <2>1. \A o \in Own' : ~ (o.anchor = Candidate' /\ IsCurrentQualificationPass(o)) /\ ~ (o.anchor = Candidate' /\ IsBad(o))
    BY <1>13
  <2>2. PassBeforeGood(call.queue)' <=> PassBeforeGood(q)
    BY <1>7 DEF PassBeforeGood
  <2> QED
    BY <1>7, <1>8, <1>9, <1>15, <1>17, <1>18, <2>1, <2>2 DEF Recorded
<1>20. Standing'
  <2>1. call.pc \in Live /\ call.pc \notin AtCandidate /\ call'.pc \in Live /\ call'.pc \notin {"summary", "ended"}
        /\ call.pc \notin {"summary", "ended"}
    BY <1>1, <1>7 DEF Live, Engaged, AtCandidate
  <2>2. \A v : (Above(v)' <=> Above(v)) /\ (Below(v)' <=> Below(v))
    BY <1>7, <1>10 DEF Above, Below
  <2>3. Sane' => Sane
    BY <1>1, <2>1 DEF Sane
  <2>4. \A v : Grounded(v) => Grounded(v)'
    BY <1>1, <1>9 DEF Grounded, EvidentIn
  <2>5. \A o, b \in Own' : IsCurrentQualificationPass(o) /\ IsBad(b) => o.anchor > b.anchor
    BY <1>9 DEF EvidenceInv, Standing
  <2>6. \A o \in Own' : (IsBad(o) => Above(o.anchor)') /\ (IsCurrentQualificationPass(o) => Below(o.anchor)')
    BY <1>9, <2>1, <2>2 DEF EvidenceInv, Standing
  <2>7. Sane' => \A o \in Own' : IsCurrentQualificationPass(o) => Grounded(o.anchor)'
    BY <1>9, <2>3, <2>4 DEF EvidenceInv, Standing
  <2>8. log'.torn /\ Sane' => Own' = {}
    BY <1>1, <1>9, <2>3 DEF EvidenceInv, Standing
  <2> QED
    BY <1>1, <1>7, <2>5, <2>6, <2>7, <2>8 DEF Standing
<1> QED
  BY <1>10, <1>11, <1>12, <1>19, <1>20

(* What is above every candidate to come is above this one, and below.     *)
LEMMA CandidateBetween ==
    ASSUME EvidenceInv, call.pc \in Engaged \cup AtCandidate
    PROVE  /\ call.i \in DOMAIN call.cands /\ Candidate \in Planned /\ Candidate \in Nat
           /\ \A v : /\ Above(v) => Candidate > v
                     /\ Below(v) => v > Candidate
<1>1. /\ call.cands \in Seq(Planned) /\ call.i \in Nat \ {0} /\ call.i <= Len(call.cands) /\ call.i < Limit
  BY DEF EvidenceInv, IndexOK
<1>2. call.i \in 1 .. Len(call.cands) /\ DOMAIN call.cands = 1 .. Len(call.cands)
  BY <1>1
<1>3. call.cands[call.i] \in Planned
  BY <1>1, <1>2
<1>4. Planned \subseteq Nat
  BY PlanHasTop
<1>5. \A v : /\ Above(v) => Candidate > v
             /\ Below(v) => v > Candidate
  BY <1>1, <1>2 DEF Above, Below, Candidate
<1> QED
  BY <1>2, <1>3, <1>4, <1>5 DEF Candidate

(* What a line is worth.                                                   *)
LEMMA LineOf ==
    ASSUME NEW r \in ReportType
    PROVE  LET o == Observation(r)
           IN /\ o.run = forge.run /\ o.target = Target /\ o.anchor = Candidate /\ o.kind = r.kind
              /\ IsBad(o) => BadLine(r)
              /\ IsCurrentQualificationPass(o) => PassLine(r)
              /\ GoodLine(r) /\ r.clean => IsCurrentDiscoveryEvidence(o) /\ IsValidated(o)
<1>1. PICK o : o = Observation(r)
  OBVIOUS
<1>2. /\ o.run = forge.run /\ o.target = Target /\ o.anchor = Candidate /\ o.kind = r.kind
      /\ o.outcome = MapOutcome(r.outcome, r.kind) /\ o.current = TRUE /\ o.clean = r.clean /\ o.confirmed = r.confirmed
      /\ o.pass = (r.kind = "Qualification" /\ r.outcome = "Validated")
  BY <1>1 DEF Observation
<1>3. IsBad(o) => BadLine(r)
  BY <1>2 DEF IsBad, BadLine
<1>4. IsCurrentQualificationPass(o) => PassLine(r)
  BY <1>2 DEF IsCurrentQualificationPass, PassLine
<1>5. GoodLine(r) /\ r.clean => IsCurrentDiscoveryEvidence(o) /\ IsValidated(o)
  BY <1>2 DEF GoodLine, IsCurrentDiscoveryEvidence, IsValidated, MapOutcome
<1> QED
  BY <1>1, <1>2, <1>3, <1>4, <1>5

LEMMA HeadAndTail ==
    ASSUME NEW q \in Seq(ReportType), q # <<>>
    PROVE  /\ Head(q) \in ReportType /\ Reports(q) = {Head(q)} \cup Reports(Tail(q))
           /\ Len(q) > 1 => Tail(q) \in Seq(ReportType) /\ Tail(q) # <<>>
           /\ ~ (Len(q) > 1) => Reports(Tail(q)) = {}
           /\ PassBeforeGood(q) =>
                 /\ PassBeforeGood(Tail(q))
                 /\ PassLine(Head(q)) => \E r \in Reports(Tail(q)) : GoodLine(r) /\ r.clean
<1>1. /\ Len(q) \in Nat \ {0} /\ DOMAIN q = 1 .. Len(q) /\ Head(q) = q[1] /\ 1 \in DOMAIN q
      /\ Tail(q) \in Seq(ReportType) /\ Len(Tail(q)) = Len(q) - 1 /\ DOMAIN Tail(q) = 1 .. Len(q) - 1
      /\ \A n \in 1 .. Len(q) - 1 : Tail(q)[n] = q[n + 1]
  OBVIOUS
<1>2. PICK t : t = Tail(q)
  OBVIOUS
<1>3. /\ t \in Seq(ReportType) /\ Len(t) = Len(q) - 1 /\ DOMAIN t = 1 .. Len(q) - 1
      /\ \A n \in DOMAIN t : t[n] = q[n + 1] /\ n + 1 \in DOMAIN q
      /\ \A n \in DOMAIN q : n = 1 \/ (n - 1 \in DOMAIN t /\ t[n - 1] = q[n])
  BY <1>1, <1>2
<1>4. Head(q) \in ReportType
  BY <1>1
<1>5. Reports(q) = {Head(q)} \cup Reports(t)
  <2>1. Reports(q) \subseteq {Head(q)} \cup Reports(t)
    BY <1>1, <1>3 DEF Reports
  <2>2. {Head(q)} \cup Reports(t) \subseteq Reports(q)
    BY <1>1, <1>3 DEF Reports
  <2> QED
    BY <2>1, <2>2
<1>6. Len(q) > 1 => t # <<>>
  BY <1>1, <1>3
<1>7. ~ (Len(q) > 1) => Reports(t) = {}
  BY <1>1, <1>3 DEF Reports
<1>8. PassBeforeGood(q) => /\ PassBeforeGood(t)
                           /\ PassLine(Head(q)) => \E r \in Reports(t) : GoodLine(r) /\ r.clean
  <2> SUFFICES ASSUME PassBeforeGood(q)
               PROVE  /\ PassBeforeGood(t)
                      /\ PassLine(Head(q)) => \E r \in Reports(t) : GoodLine(r) /\ r.clean
    OBVIOUS
  <2>1. PassBeforeGood(t)
    <3> SUFFICES ASSUME NEW m \in DOMAIN t, PassLine(t[m])
                 PROVE  \E n \in DOMAIN t : m < n /\ GoodLine(t[n]) /\ t[n].clean
      BY DEF PassBeforeGood
    <3>1. PICK n \in DOMAIN q : m + 1 < n /\ GoodLine(q[n]) /\ q[n].clean
      BY <1>3 DEF PassBeforeGood
    <3>2. n - 1 \in DOMAIN t /\ t[n - 1] = q[n] /\ m < n - 1
      BY <1>1, <1>3, <3>1
    <3> QED
      BY <3>1, <3>2
  <2>2. PassLine(Head(q)) => \E r \in Reports(t) : GoodLine(r) /\ r.clean
    <3> SUFFICES ASSUME PassLine(q[1]) PROVE \E r \in Reports(t) : GoodLine(r) /\ r.clean
      BY <1>1
    <3>1. PICK n \in DOMAIN q : 1 < n /\ GoodLine(q[n]) /\ q[n].clean
      BY <1>1 DEF PassBeforeGood
    <3>2. n - 1 \in DOMAIN t /\ t[n - 1] = q[n]
      BY <1>1, <1>3, <3>1
    <3> QED
      BY <3>1, <3>2 DEF Reports
  <2> QED
    BY <2>1, <2>2
<1> QED
  BY <1>2, <1>3, <1>4, <1>5, <1>6, <1>7, <1>8

(* A line is written, or the call ends at a failing append.                *)
LEMMA AppendStands ==
    ASSUME EvidenceInv, call.pc = "persist", UNCHANGED <<motor, forge>>,
           log' = AppendObservation(log, Observation(Head(call.queue))),
           call' = IF Len(call.queue) > 1 THEN [call EXCEPT !.queue = Tail(@)]
                   ELSE [call EXCEPT !.queue = <<>>, !.pc = "judge", !.executed = TRUE]
    PROVE  IndexOK' /\ Stocked' /\ Reported' /\ Recorded' /\ Standing'
<1>1. /\ DOMAIN call = DOMAIN IdleCall
      /\ motor.pc = "idle" /\ motor.reports = <<>> /\ ~ motor.clean
      /\ DOMAIN call.found = DOMAIN NoAnalysis
      /\ \A r \in Lines \cup Queued : r.kind # "ApplyQualification"
      /\ call.queue \in Seq(ReportType) /\ call.queue # <<>>
      /\ ~ call.broken => PassBeforeGood(call.queue)
      /\ ~ call.rejected /\ ~ call.sustainable
  <2>1. call.pc \notin Engaged
    BY DEF Engaged
  <2>2. motor.pc = "idle" /\ motor.reports = <<>> /\ ~ motor.clean /\ DOMAIN call = DOMAIN IdleCall
        /\ DOMAIN call.found = DOMAIN NoAnalysis
    BY <2>1, MotorRests
  <2> QED
    BY <2>2 DEF EvidenceInv, Reported, Recorded, Standing
<1>2. /\ call'.pc = (IF Len(call.queue) > 1 THEN "persist" ELSE "judge")
      /\ Len(call.queue) > 1 => call'.queue = Tail(call.queue)
      /\ call'.broken = call.broken /\ call'.verdict = call.verdict /\ call'.found = call.found
      /\ call'.reports = call.reports
      /\ call'.cands = call.cands /\ call'.i = call.i /\ call'.local = call.local /\ call'.bracket = call.bracket
      /\ call'.failed = call.failed /\ call'.jumped = call.jumped
      /\ call'.rejected = call.rejected /\ call'.sustainable = call.sustainable
  BY <1>1, CallFields
<1>3. PICK h, t, o : h = Head(call.queue) /\ t = Reports(Tail(call.queue)) /\ o = Observation(h)
  OBVIOUS
<1>4. /\ h \in ReportType /\ Queued = {h} \cup t
      /\ Len(call.queue) > 1 => Tail(call.queue) \in Seq(ReportType) /\ Tail(call.queue) # <<>>
      /\ ~ (Len(call.queue) > 1) => t = {}
      /\ PassBeforeGood(call.queue) =>
            /\ PassBeforeGood(Tail(call.queue))
            /\ PassLine(h) => \E r \in t : GoodLine(r) /\ r.clean
  BY <1>1, <1>3, HeadAndTail DEF Queued
<1>5. Queued' = t
  <2>1. CASE Len(call.queue) > 1
    BY <1>2, <1>3, <2>1 DEF Queued
  <2>2. CASE ~ (Len(call.queue) > 1)
    BY <1>2, <1>4, <2>2 DEF Queued
  <2> QED
    BY <2>1, <2>2
<1>6. /\ o.run = forge.run /\ o.target = Target /\ o.anchor = Candidate /\ o.kind = h.kind
      /\ IsBad(o) => BadLine(h)
      /\ IsCurrentQualificationPass(o) => PassLine(h)
      /\ GoodLine(h) /\ h.clean => IsCurrentDiscoveryEvidence(o) /\ IsValidated(o)
  BY <1>3, <1>4, LineOf
<1>7. /\ obs' = (IF log.torn THEN obs ELSE obs \cup {o}) /\ log'.torn = FALSE /\ DOMAIN log' = DOMAIN EmptyLog
      /\ Own' = (IF log.torn THEN Own ELSE Own \cup {o})
  <2>1. PICK written : written = IF log.torn THEN log.obs ELSE log.obs \cup {o}
    OBVIOUS
  <2>2. log' = [obs |-> written, torn |-> FALSE]
    BY <1>3, <2>1, Zenon DEF AppendObservation
  <2>3. log'.obs = written /\ log'.torn = FALSE /\ DOMAIN log' = DOMAIN EmptyLog
    BY <2>2 DEF EmptyLog
  <2>4. obs' = IF log.torn THEN obs ELSE obs \cup {o}
    BY <2>1, <2>3, Zenon DEF obs
  <2> QED
    BY <1>6, <2>3, <2>4 DEF Own, OfRun
<1>8. IndexOK' /\ Limit' = Limit /\ Candidate' = Candidate
  BY <1>2, IndexKept DEF AtCandidate
<1>9. /\ Candidate \in Planned /\ Candidate \in Nat
      /\ \A v : /\ Above(v) => Candidate > v
                /\ Below(v) => v > Candidate
  BY CandidateBetween DEF AtCandidate
<1>10. Stocked'
  <2>1. o.kind # "ApplyQualification"
    BY <1>1, <1>4, <1>6
  <2>2. \A x \in obs' : x \in obs \/ x = o
    BY <1>7
  <2>3. forge.run \in Nat
    BY DEF EvidenceInv, Stocked
  <2> QED
    BY <1>6, <1>7, <1>9, <2>1, <2>2, <2>3 DEF EvidenceInv, Stocked
<1>11. Reported'
  <2>1. Lines' = Lines
    BY <1>2 DEF Lines
  <2>2. Queued' \subseteq Queued
    BY <1>4, <1>5
  <2>3. call'.pc \notin Engaged /\ call'.pc \in {"persist", "judge"}
    BY <1>2 DEF Engaged
  <2> QED
    BY <1>1, <1>2, <2>1, <2>2, <2>3 DEF Reported, Engaged
<1>12. PICK pass \in BOOLEAN, bad \in BOOLEAN :
          /\ pass <=> (\/ \E x \in Own : x.anchor = Candidate /\ IsCurrentQualificationPass(x)
                       \/ \E r \in Queued : PassLine(r))
          /\ bad <=> (\/ \E x \in Own : x.anchor = Candidate /\ IsBad(x)
                      \/ \E r \in Queued : BadLine(r))
  OBVIOUS
<1>13. /\ ~ (pass /\ bad)
       /\ pass /\ ~ call.broken => call.verdict = "Qualified" /\ call.found.outcome = "Validated"
       /\ bad /\ ~ call.broken =>
              call.verdict # "Qualified" /\ (call.verdict = "none" => call.found.cap # "NearCap")
  BY <1>12 DEF EvidenceInv, Recorded, AtCandidate
<1>14. \A x \in Own' : x \in Own \/ (x = o /\ ~ log.torn)
  BY <1>7
<1>15. /\ \A x \in Own' : x.anchor = Candidate /\ IsCurrentQualificationPass(x) => pass
       /\ \A x \in Own' : x.anchor = Candidate /\ IsBad(x) => bad
       /\ \A r \in t : (PassLine(r) => pass) /\ (BadLine(r) => bad)
  BY <1>4, <1>6, <1>12, <1>14
<1>16. Recorded'
  <2>1. (\/ \E x \in Own' : x.anchor = Candidate' /\ IsCurrentQualificationPass(x)
         \/ \E r \in Queued' : PassLine(r)) => pass
    BY <1>5, <1>8, <1>15
  <2>2. (\/ \E x \in Own' : x.anchor = Candidate' /\ IsBad(x)
         \/ \E r \in Queued' : BadLine(r)) => bad
    BY <1>5, <1>8, <1>15
  <2>3. call'.pc = "persist" => /\ call'.queue \in Seq(ReportType) /\ call'.queue # <<>>
                                /\ ~ call'.broken => PassBeforeGood(call.queue)'
    <3> SUFFICES ASSUME Len(call.queue) > 1, call'.queue = Tail(call.queue)
                 PROVE  /\ call'.queue \in Seq(ReportType) /\ call'.queue # <<>>
                        /\ ~ call'.broken => PassBeforeGood(call.queue)'
      BY <1>2
    <3>1. PassBeforeGood(Tail(call.queue)) => PassBeforeGood(call.queue)'
      BY DEF PassBeforeGood
    <3> QED
      BY <1>1, <1>2, <1>4, <3>1
  <2> QED
    BY <1>2, <1>13, <2>1, <2>2, <2>3 DEF Recorded
<1>17. /\ \A x \in Own : IsBad(x) => Above(x.anchor) \/ x.anchor = Candidate
       /\ \A x \in Own : IsCurrentQualificationPass(x) => Below(x.anchor) \/ x.anchor = Candidate
  BY DEF EvidenceInv, Standing, Live, AtCandidate
<1>18. \A x, b \in Own' : IsCurrentQualificationPass(x) /\ IsBad(b) => x.anchor > b.anchor
  <2> SUFFICES ASSUME NEW x \in Own', NEW b \in Own', IsCurrentQualificationPass(x), IsBad(b)
               PROVE  x.anchor > b.anchor
    OBVIOUS
  <2>1. CASE x \in Own /\ b \in Own
    BY <2>1 DEF EvidenceInv, Standing
  <2>2. CASE x = o
    <3>1. pass
      BY <1>6, <1>15, <2>2
    <3>2. b.anchor # Candidate
      BY <1>13, <1>15, <3>1
    <3> QED
      BY <1>6, <1>9, <1>14, <1>17, <2>2, <3>2
  <2>3. CASE b = o
    <3>1. bad
      BY <1>6, <1>15, <2>3
    <3>2. x.anchor # Candidate
      BY <1>13, <1>15, <3>1
    <3> QED
      BY <1>6, <1>9, <1>14, <1>17, <2>3, <3>2
  <2> QED
    BY <1>14, <2>1, <2>2, <2>3
<1>19. \A x \in Own' : /\ IsBad(x) => Above(x.anchor)' \/ (call'.pc \in AtCandidate /\ x.anchor = Candidate')
                       /\ IsCurrentQualificationPass(x) =>
                             Below(x.anchor)' \/ (call'.pc \in AtCandidate /\ x.anchor = Candidate')
  <2>1. \A v : (Above(v)' <=> Above(v)) /\ (Below(v)' <=> Below(v))
    BY <1>2, <1>8 DEF Above, Below
  <2>2. call'.pc \in AtCandidate
    BY <1>2 DEF AtCandidate
  <2> QED
    BY <1>6, <1>8, <1>14, <1>17, <2>1, <2>2
<1>20. Sane' => Sane /\ ~ call.broken
  <2>1. forge.pc = "idle" => call.pc = "off"
    BY DEF EvidenceInv, OrderInv, GuardInv, SyncOK
  <2> QED
    BY <1>2, <2>1 DEF Sane, AtCandidate
<1>21. Sane' => \A x \in Own' : IsCurrentQualificationPass(x) => Grounded(x.anchor)'
  <2> SUFFICES ASSUME Sane', NEW x \in Own', IsCurrentQualificationPass(x) PROVE Grounded(x.anchor)'
    OBVIOUS
  <2>1. \A v : EvidentIn(Own, v) => EvidentIn(Own', v)
    BY <1>7 DEF EvidentIn
  <2>2. ASSUME NEW r \in t, GoodLine(r), r.clean PROVE \A v : v = Candidate => Grounded(v)'
    <3>1. call'.pc = "persist"
      BY <1>2, <1>4, <2>2
    <3> QED
      BY <1>5, <1>8, <2>2, <3>1 DEF Grounded
  <2>3. CASE x \in Own
    <3>1. ~ log.torn
      BY <1>20, <2>3 DEF EvidenceInv, Standing
    <3>2. Grounded(x.anchor)
      BY <1>20, <2>3 DEF EvidenceInv, Standing
    <3>3. CASE EvidentIn(Own, x.anchor)
      BY <2>1, <3>3 DEF Grounded
    <3>4. CASE x.anchor = Candidate /\ \E r \in Queued : GoodLine(r) /\ r.clean
      <4>1. PICK r \in Queued : GoodLine(r) /\ r.clean
        BY <3>4
      <4>2. CASE r = h
        <5>1. EvidentIn(Own', Candidate)
          BY <1>6, <1>7, <3>1, <4>1, <4>2 DEF EvidentIn
        <5> QED
          BY <3>4, <5>1 DEF Grounded
      <4>3. CASE r \in t
        BY <2>2, <3>4, <4>1, <4>3
      <4> QED
        BY <1>4, <4>2, <4>3
    <3> QED
      BY <3>2, <3>3, <3>4 DEF Grounded
  <2>4. CASE x = o
    <3>1. PICK r \in t : GoodLine(r) /\ r.clean
      BY <1>1, <1>4, <1>6, <1>20, <2>4
    <3> QED
      BY <1>6, <2>2, <2>4, <3>1
  <2> QED
    BY <1>14, <2>3, <2>4
<1>22. Standing'
  <2>1. call'.pc \in Live
    BY <1>2 DEF Live, AtCandidate
  <2> QED
    BY <1>1, <1>2, <1>7, <1>18, <1>19, <1>21 DEF Standing
<1> QED
  BY <1>8, <1>10, <1>11, <1>16, <1>22

LEMMA PersistStands ==
    ASSUME EvidenceInv, PersistReport
    PROVE  IndexOK' /\ Stocked' /\ Reported' /\ Recorded' /\ Standing'
<1>1. call.pc = "persist" /\ UNCHANGED <<motor, forge>>
  BY DEF PersistReport
<1>2. CASE /\ log' = AppendObservation(log, Observation(Head(call.queue)))
           /\ call' = IF Len(call.queue) > 1 THEN [call EXCEPT !.queue = Tail(@)]
                      ELSE [call EXCEPT !.queue = <<>>, !.pc = "judge", !.executed = TRUE]
  BY <1>1, <1>2, AppendStands
<1>3. CASE UNCHANGED log /\ call' = AbortWith(call, "ObservationPersistFailed")
  <2>1. /\ motor.pc = "idle" /\ motor.reports = <<>> /\ ~ motor.clean /\ DOMAIN call = DOMAIN IdleCall
        /\ DOMAIN call.found = DOMAIN NoAnalysis
        /\ \A r \in Reports(call.reports) : r.kind # "ApplyQualification"
    BY <1>1, MotorRests DEF Engaged
  <2>2. /\ call'.pc = "summary" /\ call'.aborted = TRUE
        /\ call'.reports = call.reports /\ call'.found = call.found
        /\ call'.cands = call.cands /\ call'.i = call.i /\ call'.local = call.local /\ call'.bracket = call.bracket
        /\ call'.failed = call.failed /\ call'.jumped = call.jumped
        /\ call'.rejected = call.rejected /\ call'.sustainable = call.sustainable
    BY <1>3, <2>1, CallFields DEF AbortWith
  <2>3. ~ Sane'
    BY <1>1, <2>2 DEF Sane, EvidenceInv, OrderInv, GuardInv, SyncOK
  <2>4. IndexOK' /\ Stocked' /\ Recorded' /\ Standing'
    <3>1. UNCHANGED obs /\ DOMAIN log' = DOMAIN log /\ forge'.run = forge.run /\ forge'.resume \in BOOLEAN
      BY <1>1, <1>3 DEF obs, EvidenceInv, Stocked
    <3>2. /\ call.i \in Nat \ {0} /\ call.jumped \in Nat /\ call.failed \in Nat
          /\ call.bracket = <<>> \/ call.bracket \in (Nat \ {0}) \X Nat
          /\ ~ call.rejected /\ ~ call.sustainable
      BY <1>1 DEF EvidenceInv, IndexOK, Standing
    <3> QED
      BY <2>2, <2>3, <3>1, <3>2, WithoutCandidate
  <2>5. Reported'
    BY <1>1, <2>1, <2>2, RestReported DEF Engaged
  <2> QED
    BY <2>4, <2>5
<1> QED
  BY <1>2, <1>3 DEF PersistReport

-----------------------------------------------------------------------------
(* The next step of a recorded candidate.                                  *)

LEMMA JudgeRests ==
    ASSUME EvidenceInv, call.pc = "judge"
    PROVE  /\ motor.pc = "idle" /\ motor.reports = <<>> /\ ~ motor.clean /\ DOMAIN call = DOMAIN IdleCall
           /\ DOMAIN call.found = DOMAIN NoAnalysis
           /\ \A r \in Reports(call.reports) : r.kind # "ApplyQualification"
           /\ forge.pc # "idle" /\ forge.resume \in BOOLEAN /\ ~ call.rejected /\ ~ call.sustainable
           /\ call.cands \in Seq(Planned) /\ Descending(call.cands)
           /\ call.i \in Nat \ {0} /\ call.jumped \in Nat /\ call.failed \in Nat
           /\ call.bracket = <<>> \/ call.bracket \in (Nat \ {0}) \X Nat
           /\ call.i <= Len(call.cands) /\ call.i < Limit
           /\ IF call.local THEN call.bracket = <<>> /\ call.jumped = 0 ELSE call.failed = 0
<1>1. call.pc \notin Engaged /\ call.pc \in Live /\ call.pc \in AtCandidate
  BY DEF Engaged, AtCandidate, Live
<1>2. /\ motor.pc = "idle" /\ motor.reports = <<>> /\ ~ motor.clean /\ DOMAIN call = DOMAIN IdleCall
      /\ DOMAIN call.found = DOMAIN NoAnalysis
      /\ \A r \in Reports(call.reports) : r.kind # "ApplyQualification"
  BY <1>1, MotorRests
<1>3. forge.pc # "idle"
  BY DEF EvidenceInv, OrderInv, GuardInv, SyncOK
<1>4. ~ call.rejected /\ ~ call.sustainable /\ forge.resume \in BOOLEAN
  BY DEF EvidenceInv, Standing, Stocked
<1> QED
  BY <1>1, <1>2, <1>3, <1>4 DEF EvidenceInv, IndexOK

(* What the judgement of a candidate knows about its lines.                *)
LEMMA JudgeKnows ==
    ASSUME EvidenceInv, call.pc = "judge", ~ call.broken
    PROVE  /\ \A o \in Own : o.anchor = Candidate /\ IsCurrentQualificationPass(o) =>
                 call.verdict = "Qualified" /\ call.found.outcome = "Validated"
           /\ \A o \in Own : o.anchor = Candidate /\ IsBad(o) =>
                 call.verdict # "Qualified" /\ (call.verdict = "none" => ~ NearCap)
           /\ call.found.outcome = "Validated" => ~ FailsCleanly
<1>1. call.found.outcome = "Validated" => NextDecision \in {"ContinueVoltage", "MarkSustainable"}
  <2>1. PICK outcome : outcome = call.found.outcome
    OBVIOUS
  <2>2. \A had, near : Decision("Validated", had, near) = IF had THEN "ContinueVoltage" ELSE "MarkSustainable"
    BY SMTT(30) DEF Decision, HardFailures
  <2>3. Decision("Validated", call.had, NearCap) = IF call.had THEN "ContinueVoltage" ELSE "MarkSustainable"
    BY <2>2, Zenon
  <2> QED
    BY <2>3, Zenon DEF NextDecision
<1>2. call.found.outcome = "Validated" => ~ FailsCleanly
  BY <1>1 DEF FailsCleanly, CleanFailure
<1>3. call.pc \in AtCandidate
  BY DEF AtCandidate
<1> QED
  BY <1>2, <1>3 DEF EvidenceInv, Recorded, NearCap

LEMMA LearnedIs ==
    ASSUME DOMAIN call = DOMAIN IdleCall
    PROVE  /\ DOMAIN Learned = DOMAIN IdleCall
           /\ Learned.cands = call.cands /\ Learned.i = call.i /\ Learned.local = call.local
           /\ Learned.bracket = call.bracket /\ Learned.failed = call.failed
           /\ Learned.jumped \in {call.jumped, 0}
           /\ Learned.reports = call.reports /\ Learned.found = call.found /\ Learned.broken = call.broken
           /\ Learned.rejected = call.rejected /\ Learned.sustainable = call.sustainable
           /\ Learned.aborted = call.aborted
<1>1. \E power, cap, had, jumped :
         /\ Learned = [call EXCEPT !.power = power, !.cap = cap, !.had = had, !.jumped = jumped]
         /\ jumped \in {call.jumped, 0}
  BY DEF Learned
<1>2. PICK power, cap, had, jumped :
         /\ Learned = [call EXCEPT !.power = power, !.cap = cap, !.had = had, !.jumped = jumped]
         /\ jumped \in {call.jumped, 0}
  BY <1>1, Zenon
<1>3. PICK c : c = Learned
  OBVIOUS
<1>4. c = [call EXCEPT !.power = power, !.cap = cap, !.had = had, !.jumped = jumped]
  BY <1>2, <1>3, Zenon
<1>5. /\ DOMAIN c = DOMAIN IdleCall
      /\ c.cands = call.cands /\ c.i = call.i /\ c.local = call.local
      /\ c.bracket = call.bracket /\ c.failed = call.failed
      /\ c.jumped = jumped
      /\ c.reports = call.reports /\ c.found = call.found /\ c.broken = call.broken
      /\ c.rejected = call.rejected /\ c.sustainable = call.sustainable
      /\ c.aborted = call.aborted
  BY <1>4, CallFields DEF IdleCall
<1> QED
  BY <1>2, <1>3, <1>5, Zenon

(* The call stops at this candidate.                                       *)
LEMMA StopsStands ==
    ASSUME EvidenceInv, call.pc = "judge", UNCHANGED <<motor, log, forge>>, call'.pc = "summary",
           call'.cands = call.cands, call'.i = call.i, call'.failed = call.failed,
           call'.jumped \in {call.jumped, 0},
           call'.bracket = call.bracket \/ call'.bracket \in (Nat \ {0}) \X Nat,
           call'.reports = call.reports, call'.found = call.found,
           call'.rejected = call.rejected, call'.sustainable = call.sustainable,
           call'.aborted = TRUE \/ ~ call.broken
    PROVE  IndexOK' /\ Stocked' /\ Reported' /\ Recorded' /\ Standing'
<1>1. Sane' => Sane
  BY JudgeRests DEF Sane, AtCandidate
<1>2. UNCHANGED obs
  BY DEF obs
<1>3. IndexOK' /\ Stocked' /\ Recorded' /\ Standing'
  BY <1>1, <1>2, JudgeRests, WithoutCandidate
<1>4. Reported'
  BY JudgeRests, RestReported DEF Engaged
<1> QED
  BY <1>3, <1>4

(* The call goes on with another candidate, between its passes and its     *)
(* failures.                                                               *)
LEMMA GoesOnStands ==
    ASSUME EvidenceInv, call.pc = "judge", ~ call.broken, UNCHANGED <<motor, log, forge>>, call'.pc = "next",
           call'.cands = call.cands, call'.reports = call.reports, call'.found = call.found,
           call'.rejected = call.rejected, call'.sustainable = call.sustainable,
           call'.i \in Nat \ {0}, call'.jumped \in Nat, call'.failed \in Nat,
           call'.bracket = <<>> \/ call'.bracket \in (Nat \ {0}) \X Nat,
           IF call'.local THEN call'.bracket = <<>> /\ call'.jumped = 0 ELSE call'.failed = 0,
           IF call'.local THEN call'.i <= Limit' ELSE call'.bracket # <<>> => call'.i < Limit',
           Limit' \in Nat, Limit \in Nat, Limit' <= Limit,
           call.local => call'.local /\ call'.i >= call.i,
           \A o \in Own : o.anchor = Candidate /\ IsBad(o) => Limit' <= call.i,
           \A o \in Own : o.anchor = Candidate /\ IsCurrentQualificationPass(o) => call'.local /\ call'.i > call.i
    PROVE  IndexOK' /\ Stocked' /\ Reported' /\ Recorded' /\ Standing'
<1>1. UNCHANGED obs /\ Own' = Own
  BY DEF obs, Own, OfRun
<1>2. /\ call.cands \in Seq(Planned) /\ Descending(call.cands) /\ call.i \in Nat \ {0}
      /\ call.i <= Len(call.cands) /\ call.i < Limit
      /\ motor.pc = "idle" /\ motor.reports = <<>> /\ ~ motor.clean
      /\ DOMAIN call.found = DOMAIN NoAnalysis
      /\ \A r \in Reports(call.reports) : r.kind # "ApplyQualification"
      /\ ~ call.rejected /\ ~ call.sustainable /\ forge.pc # "idle"
  BY JudgeRests
<1>3. call'.pc \in Live /\ call'.pc \notin Engaged /\ call'.pc \notin AtCandidate /\ call.pc \in Live
      /\ call.pc \in AtCandidate /\ call'.pc \notin {"persist", "summary", "ended"}
  BY DEF Live, Engaged, AtCandidate
<1>4. IndexOK'
  <2>1. Descending(call.cands)'
    BY <1>2 DEF Descending
  <2> QED
    BY <1>2, <1>3, <2>1 DEF IndexOK
<1>5. Stocked'
  BY <1>1 DEF EvidenceInv, Stocked
<1>6. Reported'
  BY <1>2, <1>3, RestReported
<1>7. Recorded'
  BY <1>3 DEF Recorded
<1>8. DOMAIN call.cands \subseteq Nat
  BY <1>2
<1>9. \A v : /\ Above(v) => Above(v)'
             /\ Below(v) => Below(v)'
  BY <1>2, <1>8 DEF Above, Below
<1>10. call.i \in DOMAIN call.cands
  BY <1>2
<1>11. \A o \in Own : o.anchor = Candidate /\ IsBad(o) => Above(o.anchor)'
  <2> SUFFICES ASSUME Limit' <= call.i, NEW v, v = Candidate PROVE Above(v)'
    OBVIOUS
  <2>1. \A k \in DOMAIN call.cands : k < call.i => call.cands[k] > Candidate
    BY <1>2, <1>10 DEF Descending, Candidate
  <2> QED
    BY <1>2, <1>8, <2>1 DEF Above
<1>12. \A o \in Own : o.anchor = Candidate /\ IsCurrentQualificationPass(o) => Below(o.anchor)'
  <2> SUFFICES ASSUME call'.local, call'.i > call.i, NEW v, v = Candidate PROVE Below(v)'
    OBVIOUS
  <2>1. \A k \in DOMAIN call.cands : call.i < k => Candidate > call.cands[k]
    BY <1>2, <1>10 DEF Descending, Candidate
  <2> QED
    BY <1>2, <1>8, <2>1 DEF Below
<1>13. \A o \in Own' : /\ IsBad(o) => Above(o.anchor)'
                       /\ IsCurrentQualificationPass(o) => Below(o.anchor)'
  BY <1>1, <1>3, <1>9, <1>11, <1>12 DEF EvidenceInv, Standing
<1>14. Sane' => Sane
  BY <1>2, <1>3 DEF Sane
<1>15. Sane' => \A o \in Own' : IsCurrentQualificationPass(o) => Grounded(o.anchor)'
  BY <1>1, <1>14 DEF EvidenceInv, Standing, Grounded, EvidentIn
<1>16. log'.torn /\ Sane' => Own' = {}
  BY <1>1, <1>14 DEF EvidenceInv, Standing
<1>17. \A o, b \in Own' : IsCurrentQualificationPass(o) /\ IsBad(b) => o.anchor > b.anchor
  BY <1>1 DEF EvidenceInv, Standing
<1>18. Standing'
  BY <1>2, <1>13, <1>15, <1>16, <1>17 DEF Standing
<1> QED
  BY <1>4, <1>5, <1>6, <1>7, <1>18

LEMMA LimitIs ==
    ASSUME EvidenceInv, call.pc = "judge"
    PROVE  Limit \in Nat
<1>1. /\ call.cands \in Seq(Planned) /\ call.failed \in Nat
      /\ call.bracket = <<>> \/ call.bracket \in (Nat \ {0}) \X Nat
  BY JudgeRests
<1>2. Len(call.cands) \in Nat
  BY <1>1
<1>3. call.bracket # <<>> => call.bracket[2] \in Nat
  BY <1>1
<1> QED
  BY <1>1, <1>2, <1>3 DEF Limit

LEMMA JudgeEndsStand ==
    ASSUME EvidenceInv, JudgeAborted \/ BoundaryReached \/ QualificationStops
    PROVE  IndexOK' /\ Stocked' /\ Reported' /\ Recorded' /\ Standing'
<1>1. call.pc = "judge" /\ UNCHANGED <<motor, log, forge>>
  BY DEF JudgeAborted, BoundaryReached, QualificationStops, Settled, Transition, mvars
<1>3. DOMAIN call = DOMAIN IdleCall
  BY <1>1, JudgeRests
<1>4. CASE JudgeAborted
  <2>1. call' = [AbortWith(call, "TransactionFailed") EXCEPT !.retain = @ \/ call.retainNow]
    BY <1>4 DEF JudgeAborted, Transition
  <2>2. /\ call'.pc = "summary" /\ call'.aborted = TRUE
        /\ call'.cands = call.cands /\ call'.i = call.i /\ call'.failed = call.failed
        /\ call'.jumped = call.jumped /\ call'.bracket = call.bracket
        /\ call'.reports = call.reports /\ call'.found = call.found
        /\ call'.rejected = call.rejected /\ call'.sustainable = call.sustainable
    BY <1>3, <2>1, CallFields DEF AbortWith
  <2> QED
    BY <1>1, <2>2, StopsStands
<1>5. CASE BoundaryReached \/ QualificationStops
  <2>1. ~ call.broken /\ \E completed, reason : call' = StopAt(Learned, completed, reason)
    BY <1>5 DEF BoundaryReached, QualificationStops, Settled, Transition
  <2>2. PICK completed, reason : call' = StopAt(Learned, completed, reason)
    BY <2>1
  <2>3. PICK learned : learned = Learned
    OBVIOUS
  <2>4. call' = StopAt(learned, completed, reason)
    BY <2>2, <2>3, Zenon
  <2>5. /\ DOMAIN learned = DOMAIN IdleCall
        /\ learned.cands = call.cands /\ learned.i = call.i
        /\ learned.bracket = call.bracket /\ learned.failed = call.failed
        /\ learned.jumped \in {call.jumped, 0}
        /\ learned.reports = call.reports /\ learned.found = call.found
        /\ learned.rejected = call.rejected /\ learned.sustainable = call.sustainable
    BY <1>3, <2>3, LearnedIs, Zenon
  <2>6. /\ call'.pc = "summary"
        /\ call'.cands = call.cands /\ call'.i = call.i /\ call'.failed = call.failed
        /\ call'.jumped \in {call.jumped, 0} /\ call'.bracket = call.bracket
        /\ call'.reports = call.reports /\ call'.found = call.found
        /\ call'.rejected = call.rejected /\ call'.sustainable = call.sustainable
    BY <2>4, <2>5, CallFields DEF StopAt
  <2> QED
    BY <1>1, <2>1, <2>6, StopsStands
<1> QED
  BY <1>4, <1>5

(* A bisection keeps everything of the call but its place.                 *)
LEMMA BisectIs ==
    ASSUME DOMAIN call = DOMAIN IdleCall, NEW safe, NEW failed, NEW c, c = Bisect(Learned, safe, failed)
    PROVE  /\ c.pc = "next" /\ c.bracket = <<safe, failed>> /\ c.jumped = 0
           /\ c.i = Midpoint(safe, failed)
           /\ c.cands = call.cands /\ c.local = call.local /\ c.failed = call.failed
           /\ c.reports = call.reports /\ c.found = call.found
           /\ c.rejected = call.rejected /\ c.sustainable = call.sustainable
<1>1. PICK learned : learned = Learned
  OBVIOUS
<1>2. c = Bisect(learned, safe, failed)
  BY <1>1, Zenon
<1>3. PICK mid : mid = Midpoint(safe, failed)
  OBVIOUS
<1>4. c = [learned EXCEPT !.pc = "next", !.bracket = <<safe, failed>>, !.jumped = 0, !.i = mid]
  BY <1>2, <1>3, Zenon DEF Bisect
<1>5. /\ DOMAIN learned = DOMAIN IdleCall
      /\ learned.cands = call.cands /\ learned.local = call.local /\ learned.failed = call.failed
      /\ learned.reports = call.reports /\ learned.found = call.found
      /\ learned.rejected = call.rejected /\ learned.sustainable = call.sustainable
  BY <1>1, LearnedIs, Zenon
<1> QED
  BY <1>3, <1>4, <1>5, CallFields

LEMMA MidpointBetween ==
    ASSUME NEW safe \in Nat \ {0}, NEW failed \in Nat, failed - safe > 1
    PROVE  /\ Midpoint(safe, failed) \in Nat \ {0}
           /\ safe < Midpoint(safe, failed) /\ Midpoint(safe, failed) < failed
  BY DEF Midpoint

LEMMA RecoverStands ==
    ASSUME EvidenceInv, RecoverUpwards
    PROVE  IndexOK' /\ Stocked' /\ Reported' /\ Recorded' /\ Standing'
<1>1. /\ call.pc = "judge" /\ ~ call.broken /\ UNCHANGED <<motor, log, forge>>
      /\ SafeIndex # 0 /\ (FailsCleanly \/ call.verdict \in {"Rejected", "Inconclusive"})
      /\ call' = Bisect(Learned, SafeIndex, call.i)
  BY DEF RecoverUpwards, Settled, Transition, mvars
<1>2. /\ DOMAIN call = DOMAIN IdleCall /\ call.cands \in Seq(Planned)
      /\ call.i \in Nat \ {0} /\ call.jumped \in Nat
      /\ call.bracket = <<>> \/ call.bracket \in (Nat \ {0}) \X Nat
      /\ call.i < Limit /\ Limit \in Nat
      /\ IF call.local THEN call.bracket = <<>> /\ call.jumped = 0 ELSE call.failed = 0
  BY <1>1, JudgeRests, LimitIs
<1>3. SafeIndex \in Nat \ {0} /\ call.i - SafeIndex > 1 /\ ~ call.local
  BY <1>1, <1>2 DEF SafeIndex
<1>4. PICK safe \in Nat \ {0} : safe = SafeIndex
  BY <1>3
<1>5. /\ call'.pc = "next" /\ call'.bracket = <<safe, call.i>> /\ call'.jumped = 0
      /\ call'.i = Midpoint(safe, call.i)
      /\ call'.cands = call.cands /\ call'.local = call.local /\ call'.failed = call.failed
      /\ call'.reports = call.reports /\ call'.found = call.found
      /\ call'.rejected = call.rejected /\ call'.sustainable = call.sustainable
  BY <1>1, <1>2, <1>4, BisectIs
<1>6. call'.i \in Nat \ {0} /\ call'.i < call.i
  BY <1>2, <1>3, <1>4, <1>5, MidpointBetween
<1>7. Limit' = call.i
  BY <1>3, <1>5 DEF Limit
<1>8. \A o \in Own : ~ (o.anchor = Candidate /\ IsCurrentQualificationPass(o))
  BY <1>1, JudgeKnows
<1>9. /\ call'.bracket \in (Nat \ {0}) \X Nat /\ call'.failed = 0 /\ ~ call'.local
      /\ Limit' \in Nat /\ Limit' <= Limit /\ call'.i < Limit'
  BY <1>2, <1>3, <1>4, <1>5, <1>6, <1>7
<1> QED
  BY <1>1, <1>2, <1>3, <1>5, <1>6, <1>7, <1>8, <1>9, GoesOnStands

LEMMA NarrowStands ==
    ASSUME EvidenceInv, NarrowBracket
    PROVE  IndexOK' /\ Stocked' /\ Reported' /\ Recorded' /\ Standing'
<1>1. /\ call.pc = "judge" /\ ~ call.broken /\ UNCHANGED <<motor, log, forge>>
      /\ call.verdict = "none" /\ NearCap /\ call.bracket # <<>> /\ ~ call.local
      /\ call' = IF Midpoint(call.i, call.bracket[2]) # None THEN Bisect(Learned, call.i, call.bracket[2])
                 ELSE StopAt([Learned EXCEPT !.bracket = <<call.i, call.bracket[2]>>], TRUE,
                             "AdaptiveRecoveryNoSustainablePoint")
  BY DEF NarrowBracket, Unqualified, Settled, Transition, mvars
<1>2. /\ DOMAIN call = DOMAIN IdleCall
      /\ call.i \in Nat \ {0} /\ call.bracket \in (Nat \ {0}) \X Nat /\ call.bracket[2] \in Nat
      /\ call.i < Limit /\ Limit \in Nat /\ call.failed = 0 /\ call.failed \in Nat
  BY <1>1, JudgeRests, LimitIs
<1>3. Limit = call.bracket[2]
  BY <1>1 DEF Limit
<1>4. PICK failed \in Nat : failed = call.bracket[2]
  BY <1>2
<1>5. CASE Midpoint(call.i, failed) # None
  <2>1. call' = Bisect(Learned, call.i, failed)
    BY <1>1, <1>4, <1>5
  <2>2. /\ call'.pc = "next" /\ call'.bracket = <<call.i, failed>> /\ call'.jumped = 0
        /\ call'.i = Midpoint(call.i, failed)
        /\ call'.cands = call.cands /\ call'.local = call.local /\ call'.failed = call.failed
        /\ call'.reports = call.reports /\ call'.found = call.found
        /\ call'.rejected = call.rejected /\ call'.sustainable = call.sustainable
    BY <1>2, <2>1, BisectIs
  <2>3. failed - call.i > 1
    BY <1>5 DEF Midpoint
  <2>4. call'.i \in Nat \ {0} /\ call'.i < failed
    BY <1>2, <2>2, <2>3, MidpointBetween
  <2>5. /\ ~ call'.local /\ call'.bracket # <<>> /\ call'.bracket[2] = failed
        /\ call'.bracket \in (Nat \ {0}) \X Nat
    <3>1. <<call.i, failed>> \in (Nat \ {0}) \X Nat /\ <<call.i, failed>> # <<>> /\ <<call.i, failed>>[2] = failed
      BY <1>2, <1>4
    <3>2. ~ call'.local
      BY <1>1, <2>2, Zenon
    <3> QED
      BY <2>2, <3>1, <3>2, Zenon
  <2>6. Limit' = failed
    BY <2>5, Zenon DEF Limit
  <2>7. call'.failed = 0 /\ Limit' \in Nat /\ Limit' <= Limit /\ call'.i < Limit'
    BY <1>2, <1>3, <1>4, <2>2, <2>4, <2>6
  <2>8. \A o \in Own : o.anchor = Candidate => ~ IsBad(o) /\ ~ IsCurrentQualificationPass(o)
    BY <1>1, JudgeKnows
  <2> QED
    BY <1>1, <1>2, <2>2, <2>4, <2>5, <2>7, <2>8, GoesOnStands
<1>6. CASE Midpoint(call.i, failed) = None
  <2>1. PICK learned : learned = Learned
    OBVIOUS
  <2>2. call' = StopAt([learned EXCEPT !.bracket = <<call.i, failed>>], TRUE, "AdaptiveRecoveryNoSustainablePoint")
    BY <1>1, <1>4, <1>6, <2>1
  <2>3. /\ DOMAIN learned = DOMAIN IdleCall
        /\ learned.cands = call.cands /\ learned.i = call.i /\ learned.failed = call.failed
        /\ learned.jumped \in {call.jumped, 0}
        /\ learned.reports = call.reports /\ learned.found = call.found
        /\ learned.rejected = call.rejected /\ learned.sustainable = call.sustainable
    BY <1>2, <2>1, LearnedIs, Zenon
  <2>4. /\ call'.pc = "summary" /\ call'.bracket = <<call.i, failed>>
        /\ call'.cands = call.cands /\ call'.i = call.i /\ call'.failed = call.failed
        /\ call'.jumped \in {call.jumped, 0}
        /\ call'.reports = call.reports /\ call'.found = call.found
        /\ call'.rejected = call.rejected /\ call'.sustainable = call.sustainable
    BY <2>2, <2>3, CallFields DEF StopAt
  <2>5. call'.bracket \in (Nat \ {0}) \X Nat
    BY <1>2, <2>4
  <2> QED
    BY <1>1, <2>4, <2>5, StopsStands
<1> QED
  BY <1>5, <1>6

(* One step, or jump, further down.                                        *)
LEMMA DescendIs ==
    ASSUME NEW c, DOMAIN c = DOMAIN IdleCall, call.i \in Nat \ {0}, call' = Descend(c)
    PROVE  /\ call'.pc = "next" /\ call'.i \in Nat \ {0} /\ call'.jumped \in Nat
           /\ c.local => call'.i = call.i + 1 /\ call'.jumped = 0
           /\ call'.cands = c.cands /\ call'.local = c.local /\ call'.failed = c.failed
           /\ call'.bracket = c.bracket
           /\ call'.reports = c.reports /\ call'.found = c.found
           /\ call'.rejected = c.rejected /\ call'.sustainable = c.sustainable
<1>1. PICK nxt : nxt = IF c.local \/ ~ NearCap THEN call.i + 1
                       ELSE NextIndex(call.cands, call.i, Target, call.found.p5)
  OBVIOUS
<1>2. nxt \in Nat \ {0} /\ (c.local => nxt = call.i + 1)
  BY <1>1, NextIndexType
<1>3. PICK jumped \in Nat : jumped = IF nxt > call.i + 1 THEN call.i ELSE 0
  OBVIOUS
<1>4. call' = [c EXCEPT !.pc = "next", !.i = nxt, !.jumped = jumped,
                        !.completed = @ \/ nxt = Len(call.cands) + 1]
  BY <1>1, <1>3, Zenon DEF Descend
<1>5. c.local => jumped = 0
  BY <1>2, <1>3
<1> QED
  BY <1>2, <1>4, <1>5, CallFields

LEMMA NearCapStands ==
    ASSUME EvidenceInv, NearCapDescends
    PROVE  IndexOK' /\ Stocked' /\ Reported' /\ Recorded' /\ Standing'
<1>1. /\ call.pc = "judge" /\ ~ call.broken /\ UNCHANGED <<motor, log, forge>>
      /\ call.verdict = "none" /\ NearCap /\ (call.bracket = <<>> \/ call.local)
      /\ call' = Descend(Learned)
  BY DEF NearCapDescends, Unqualified, Settled, Transition, mvars
<1>2. /\ DOMAIN call = DOMAIN IdleCall /\ call.cands \in Seq(Planned)
      /\ call.i \in Nat \ {0} /\ call.failed \in Nat
      /\ call.i < Limit /\ Limit \in Nat
      /\ IF call.local THEN call.bracket = <<>> /\ call.jumped = 0 ELSE call.failed = 0
  BY <1>1, JudgeRests, LimitIs
<1>3. PICK learned : learned = Learned
  OBVIOUS
<1>4. /\ DOMAIN learned = DOMAIN IdleCall
      /\ learned.cands = call.cands /\ learned.local = call.local /\ learned.failed = call.failed
      /\ learned.bracket = call.bracket
      /\ learned.reports = call.reports /\ learned.found = call.found
      /\ learned.rejected = call.rejected /\ learned.sustainable = call.sustainable
  BY <1>2, <1>3, LearnedIs, Zenon
<1>5. call' = Descend(learned)
  BY <1>1, <1>3, Zenon
<1>6. /\ call'.pc = "next" /\ call'.i \in Nat \ {0} /\ call'.jumped \in Nat
      /\ call.local => call'.i = call.i + 1 /\ call'.jumped = 0
      /\ call'.cands = call.cands /\ call'.local = call.local /\ call'.failed = call.failed
      /\ call'.bracket = call.bracket
      /\ call'.reports = call.reports /\ call'.found = call.found
      /\ call'.rejected = call.rejected /\ call'.sustainable = call.sustainable
  BY <1>2, <1>4, <1>5, DescendIs
<1>7. call'.bracket = <<>>
  BY <1>1, <1>2, <1>6
<1>8. Limit' = Limit
  BY <1>6 DEF Limit
<1>9. \A o \in Own : o.anchor = Candidate => ~ IsBad(o) /\ ~ IsCurrentQualificationPass(o)
  BY <1>1, JudgeKnows
<1>10. /\ IF call'.local THEN call'.bracket = <<>> /\ call'.jumped = 0 ELSE call'.failed = 0
       /\ IF call'.local THEN call'.i <= Limit' ELSE call'.bracket # <<>> => call'.i < Limit'
       /\ Limit' \in Nat /\ Limit' <= Limit
       /\ call.local => call'.local /\ call'.i >= call.i
       /\ call'.failed \in Nat
  BY <1>2, <1>6, <1>7, <1>8
<1> QED
  BY <1>1, <1>2, <1>6, <1>7, <1>9, <1>10, GoesOnStands

LEMMA QualifiedStands ==
    ASSUME EvidenceInv, Qualified
    PROVE  IndexOK' /\ Stocked' /\ Reported' /\ Recorded' /\ Standing'
<1>1. /\ call.pc = "judge" /\ ~ call.broken /\ UNCHANGED <<motor, log, forge>>
      /\ call.verdict = "Qualified"
      /\ call' = Descend([GoLocal(Learned) EXCEPT
                            !.qualified = call.i, !.completed = TRUE, !.reason = "Qualified"])
  BY DEF Qualified, Settled, Transition, mvars
<1>2. /\ DOMAIN call = DOMAIN IdleCall /\ call.cands \in Seq(Planned)
      /\ call.i \in Nat \ {0} /\ call.failed \in Nat
      /\ call.bracket = <<>> \/ call.bracket \in (Nat \ {0}) \X Nat
      /\ call.i < Limit /\ Limit \in Nat
      /\ IF call.local THEN call.bracket = <<>> /\ call.jumped = 0 ELSE call.failed = 0
  BY <1>1, JudgeRests, LimitIs
<1>3. PICK learned : learned = Learned
  OBVIOUS
<1>4. /\ DOMAIN learned = DOMAIN IdleCall
      /\ learned.cands = call.cands /\ learned.local = call.local /\ learned.failed = call.failed
      /\ learned.bracket = call.bracket
      /\ learned.reports = call.reports /\ learned.found = call.found
      /\ learned.rejected = call.rejected /\ learned.sustainable = call.sustainable
  BY <1>2, <1>3, LearnedIs, Zenon
<1>5. PICK failed : failed = IF call.bracket # <<>> THEN call.bracket[2] ELSE call.failed
  OBVIOUS
<1>6. failed \in Nat
  BY <1>2, <1>5
<1>7. PICK c : c = [GoLocal(learned) EXCEPT !.qualified = call.i, !.completed = TRUE, !.reason = "Qualified"]
  OBVIOUS
<1>8. GoLocal(learned) = [learned EXCEPT !.local = TRUE, !.bracket = <<>>, !.failed = failed]
  BY <1>4, <1>5 DEF GoLocal
<1>9. /\ DOMAIN c = DOMAIN IdleCall /\ c.local /\ c.bracket = <<>> /\ c.failed = failed
      /\ c.cands = call.cands
      /\ c.reports = call.reports /\ c.found = call.found
      /\ c.rejected = call.rejected /\ c.sustainable = call.sustainable
  BY <1>4, <1>7, <1>8, CallFields
<1>10. call' = Descend(c)
  BY <1>1, <1>3, <1>7, Zenon
<1>11. /\ call'.pc = "next" /\ call'.i = call.i + 1 /\ call'.jumped = 0
       /\ call'.cands = call.cands /\ call'.local /\ call'.failed = failed
       /\ call'.bracket = <<>>
       /\ call'.reports = call.reports /\ call'.found = call.found
       /\ call'.rejected = call.rejected /\ call'.sustainable = call.sustainable
  BY <1>2, <1>9, <1>10, DescendIs
<1>12. Limit' = Limit
  BY <1>2, <1>5, <1>11 DEF Limit
<1>13. \A o \in Own : ~ (o.anchor = Candidate /\ IsBad(o))
  BY <1>1, JudgeKnows
<1>14. /\ call'.i \in Nat \ {0} /\ call'.i > call.i /\ call'.i <= Limit' /\ call'.failed \in Nat
       /\ Limit' \in Nat /\ Limit' <= Limit /\ call'.jumped \in Nat
  BY <1>2, <1>6, <1>11, <1>12
<1> QED
  BY <1>1, <1>2, <1>11, <1>13, <1>14, GoesOnStands

LEMMA JudgeStands ==
    ASSUME EvidenceInv, Judge
    PROVE  IndexOK' /\ Stocked' /\ Reported' /\ Recorded' /\ Standing'
<1>1. CASE JudgeAborted \/ BoundaryReached \/ QualificationStops
  BY <1>1, JudgeEndsStand
<1>2. CASE RecoverUpwards
  BY <1>2, RecoverStands
<1>3. CASE Qualified
  BY <1>3, QualifiedStands
<1>4. CASE NearCapDescends
  BY <1>4, NearCapStands
<1>5. CASE NarrowBracket
  BY <1>5, NarrowStands
<1> QED
  BY <1>1, <1>2, <1>3, <1>4, <1>5 DEF Judge

-----------------------------------------------------------------------------
(* The theorem.                                                            *)

LEMMA StillStands ==
    ASSUME EvidenceInv, UNCHANGED <<motor, log, call, forge>>
    PROVE  IndexOK' /\ Stocked' /\ Reported' /\ Recorded' /\ Standing'
<1>1. UNCHANGED <<obs, Own, Lines, Queued, Limit>>
  BY DEF obs, Own, OfRun, Lines, Queued, Limit
<1>2. IndexOK' /\ Stocked'
  BY <1>1 DEF EvidenceInv, IndexOK, Stocked, Descending
<1>3. Reported'
  BY <1>1 DEF EvidenceInv, Reported, Sound
<1>4. Recorded'
  BY <1>1 DEF EvidenceInv, Recorded, Candidate, PassBeforeGood
<1>5. \A v : (Above(v)' <=> Above(v)) /\ (Below(v)' <=> Below(v))
  BY <1>1 DEF Above, Below
<1>6. Sane' => \A o \in Own : IsCurrentQualificationPass(o) => Grounded(o.anchor)'
  <2>1. Sane' => Sane
    BY DEF Sane
  <2>2. \A v : Grounded(v) => Grounded(v)'
    BY <1>1 DEF Grounded, EvidentIn, Candidate
  <2> QED
    BY <2>1, <2>2 DEF EvidenceInv, Standing
<1>7. UNCHANGED Candidate /\ (Sane' => Sane)
  BY DEF Candidate, Sane
<1>8. \A o \in Own :
         /\ call.pc \in Live /\ IsBad(o) => Above(o.anchor)' \/ (call.pc \in AtCandidate /\ o.anchor = Candidate)
         /\ call.pc \in Live /\ IsCurrentQualificationPass(o) =>
               Below(o.anchor)' \/ (call.pc \in AtCandidate /\ o.anchor = Candidate)
  BY <1>5 DEF EvidenceInv, Standing
<1>9. Standing'
  BY <1>1, <1>6, <1>7, <1>8 DEF EvidenceInv, Standing
<1> QED
  BY <1>2, <1>3, <1>4, <1>9

LEMMA EvidenceNext ==
    ASSUME EvidenceInv, [Next]_vars
    PROVE  EvidenceInv'
<1>1. OrderInv'
  BY OrderNext DEF EvidenceInv
<1>2. CASE UNCHANGED vars
  BY <1>1, <1>2, StillStands DEF vars, EvidenceInv
<1>3. CASE Search
  <2>1. CASE NextCandidate \/ MotorRuns \/ DiscoveryDwell \/ TransactionStartFailed \/ RecheckPower
    BY <1>1, <2>1, NextCandidateStands, MotorRunsStands, DiscoveryDwellStands, StartFailedStands, RecheckStands
       DEF EvidenceInv
  <2>2. CASE Analyse \/ QualificationCancelled \/ QualificationDwell \/ CandidateCleanup \/ PersistReport
    BY <1>1, <2>2, AnalyseStands, CancelledStands, QualificationStands, CleanupStands, PersistStands
       DEF EvidenceInv
  <2>3. CASE Judge \/ Summarize \/ FallBack \/ ClimbStart \/ FinalReset
    BY <1>1, <2>3, JudgeStands, SummarizeStands, RetryStands, SessionEndStands DEF EvidenceInv
  <2> QED
    BY <1>3, <2>1, <2>2, <2>3 DEF Search
<1>4. CASE Environment
  <2>1. CASE StopPressed
    BY <1>1, <2>1, StillStands DEF EvidenceInv, StopPressed, mvars
  <2>2. CASE StartSession \/ WorkerPanics \/ MachineCrash
    BY <1>1, <2>2, StartStands, SessionEndStands DEF EvidenceInv
  <2> QED
    BY <1>4, <2>1, <2>2 DEF Environment
<1> QED
  BY <1>2, <1>3, <1>4 DEF Next

LEMMA EvidenceInit == Init => EvidenceInv
<1> SUFFICES ASSUME Init PROVE EvidenceInv
  OBVIOUS
<1>1. /\ motor = IdleMotor /\ call = IdleCall /\ forge = IdleForge /\ log = EmptyLog
  BY DEF Init, MotorInit
<1>2. /\ motor.pc = "idle" /\ motor.reports = <<>> /\ motor.clean = FALSE
      /\ call.pc = "off" /\ call.cands = <<>> /\ call.i = 1 /\ call.jumped = 0 /\ call.failed = 0
      /\ call.bracket = <<>> /\ call.found = NoAnalysis /\ call.reports = <<>>
      /\ call.rejected = FALSE /\ call.sustainable = FALSE
      /\ forge.run = 0 /\ forge.resume = FALSE /\ forge.pc = "idle" /\ forge.paused = FALSE
      /\ obs = {}
  BY <1>1 DEF IdleMotor, IdleCall, IdleForge, EmptyLog, obs
<1>3. OrderInv
  BY OrderInit
<1>4. /\ call.pc \notin Live /\ call.pc \notin Engaged /\ call.pc \notin AtCandidate /\ call.pc # "persist"
      /\ call.pc # "next"
  BY <1>2 DEF Live, Engaged, AtCandidate
<1>5. IndexOK
  <2>1. <<>> \in Seq(Planned) /\ Descending(<<>>)
    BY DEF Descending
  <2>2. call.cands \in Seq(Planned) /\ Descending(call.cands)
    BY <1>2, <2>1, Zenon
  <2>3. call.i \in Nat \ {0} /\ call.jumped \in Nat /\ call.failed \in Nat
    BY <1>2
  <2> QED
    BY <1>2, <1>4, <2>2, <2>3, Zenon DEF IndexOK
<1>6. Stocked
  <2>1. DOMAIN log = DOMAIN EmptyLog
    BY <1>1, Zenon
  <2>2. forge.run \in Nat
    BY <1>2
  <2>3. forge.resume \in BOOLEAN
    BY <1>2, Zenon
  <2> QED
    BY <1>2, <2>1, <2>2, <2>3, Zenon DEF Stocked
<1>7. Own = {}
  BY <1>2 DEF Own, OfRun
<1>8. Reported
  BY <1>2, <1>4 DEF Reported, Lines, Queued, Reports
<1>9. Recorded /\ Standing
  BY <1>2, <1>4, <1>7 DEF Recorded, Standing, Sane
<1> QED
  BY <1>3, <1>5, <1>6, <1>8, <1>9 DEF EvidenceInv

LEMMA StandingIsSustainable == EvidenceInv => SustainableStandsAboveFailures
<1> SUFFICES ASSUME EvidenceInv, call.sustainable
             PROVE  \E v \in QualifiedAnchors : AboveFailures(OwnObservations, Target, v)
  BY DEF SustainableStandsAboveFailures
<1>1. PICK o \in Own : IsCurrentQualificationPass(o)
  BY DEF EvidenceInv, Standing
<1>2. OwnObservations = Own /\ o.anchor \in QualifiedAnchors
  BY <1>1, QualifiedIsPass DEF EvidenceInv
<1>3. \A b \in Own : IsBad(b) => o.anchor > b.anchor
  BY <1>1 DEF EvidenceInv, Standing
<1>4. Bounded(Own)
  BY DEF Bounded, EvidenceInv, Stocked, Own, OfRun
<1>5. AboveFailures(Own, Target, o.anchor)
  BY <1>3, <1>4, AboveThem
<1> QED
  BY <1>2, <1>5

(* A clock is reported sustainable only if this run qualified a pair at it *)
(* that lies above every pair this run saw fail there: whatever jumps,     *)
(* recoveries, retries, resumes, crashes and torn lines came in between,   *)
(* the descent never qualified a pair at or below one of its own failures  *)
(* (run_confirmed_f2_clock_discovery, f2_recovery_midpoint).               *)
THEOREM SustainableIsAboveFailures == Spec => []SustainableStandsAboveFailures
<1>1. EvidenceInv /\ [Next]_vars => EvidenceInv'
  BY EvidenceNext
<1> QED
  BY <1>1, EvidenceInit, StandingIsSustainable, PTL DEF Spec
==============================================================================
