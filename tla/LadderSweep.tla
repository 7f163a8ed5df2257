------------------------------ MODULE LadderSweep ------------------------------
(***************************************************************************)
(* The ladder of the F2 command line (run_anchored_ladder_sweep in         *)
(* crates/service/src/gpu_undervolt.rs): the same descent at several       *)
(* clocks, in the order the operator gives, each bounded by what the log   *)
(* says of the clock before.  A candidate is one step here; CandidateMotor *)
(* and StepJobs take it apart.                                             *)
(***************************************************************************)
EXTENDS F2Evidence, Sequences

CONSTANTS Ladders,    \* orders of clocks an operator may ask for
          Raised,     \* the bins whose stock clock is below a clock
          HwFloor,    \* the lowest bin a descent may reach
          Histories,  \* logs a ladder may find
          MaxLosses   \* lines of the log that cannot be written

VARIABLES ladder,    \* the clocks asked for
          rung,      \* the clock under way
          obs,       \* f2_observations.jsonl
          held,      \* the boot flag is armed
          loads,     \* observer: the loads at this clock and the one before
          losses

IdleRung ==
    [pc |-> "target", i |-> 0, start |-> None, todo |-> {}, reports |-> <<>>, prevGood |-> None]

Init ==
    /\ ladder \in Ladders
    /\ rung = IdleRung
    /\ obs \in Histories
    /\ held = FALSE /\ loads = {} /\ losses = 0

Target(i) == ladder[i]

-----------------------------------------------------------------------------
(* What a clock starts from.                                               *)

(* What is known of the clock before: its result in this run, or else what *)
(* the log has of it, whichever card it was measured on.                   *)
Prior == IF rung.i = 0 THEN None
         ELSE IF rung.prevGood # None THEN rung.prevGood ELSE LastGood(obs, Target(rung.i))

(* Variant: the voltage of a lower clock is a start as well.               *)
Bounds_anyway(prior, target) == [start |-> prior, floor |-> HwFloor]

(* Going down, the voltage that held the higher clock is where the descent *)
(* starts; going up, the one that held the lower clock is where it ends.   *)
Bounds(prior, target) ==
    IF rung.i > 0 /\ target < Target(rung.i)
    THEN [start |-> prior, floor |-> HwFloor]
    ELSE [start |-> None, floor |-> Max({HwFloor, prior})]

(* The bins to try, from the highest down.                                 *)
Candidates(target, bounds) ==
    {b \in Raised[target] : b >= bounds.floor /\ (bounds.start = None \/ b <= bounds.start)}

(* Nothing to confirm, or a flag left armed: the whole ladder stops.       *)
BeginTarget ==
    /\ rung.pc = "target" /\ rung.i < Len(ladder)
    /\ LET target == Target(rung.i + 1)
           bounds == Bounds(Prior, target)
           bins   == Candidates(target, bounds)
       IN rung' = IF held \/ bins = {} THEN [rung EXCEPT !.pc = "done"]
                  ELSE [rung EXCEPT !.pc = "step", !.i = @ + 1, !.start = bounds.start,
                                    !.todo = bins, !.reports = <<>>]
    /\ loads' = {l \in loads : l.i = rung.i}
    /\ UNCHANGED <<ladder, obs, held, losses>>

LadderDone ==
    /\ rung.pc = "target" /\ rung.i = Len(ladder)
    /\ rung' = [rung EXCEPT !.pc = "done"]
    /\ UNCHANGED <<ladder, obs, held, loads, losses>>

-----------------------------------------------------------------------------
(* One clock: run_confirmed_f2_multi_step, record_target_sweep.            *)

Bin == Max(rung.todo)

(* The check before a candidate may refuse it.                             *)
CandidateRefused ==
    /\ rung.pc = "step"
    /\ rung' = [rung EXCEPT !.pc = "record"]
    /\ UNCHANGED <<ladder, obs, held, loads, losses>>

StepOutcomes  == {"Validated", "Unstable", "PowerTelemetryInconclusive", "AbortedBySafetyGate",
                  "DeviceLost", "ResetFailed"}
SafetyFailures == {"DeviceLost", "ResetFailed"}

Candidate ==
    /\ rung.pc = "step"
    /\ \E outcome \in StepOutcomes :
          /\ loads' = loads \cup {[i |-> rung.i, bin |-> Bin, outcome |-> outcome]}
          /\ held' = (outcome \in SafetyFailures)
          /\ LET on == outcome = "Validated" /\ rung.todo # {Bin}
             IN rung' = [rung EXCEPT !.pc = IF on THEN "step" ELSE "record", !.todo = @ \ {Bin},
                                     !.reports = Append(@, [bin |-> Bin, outcome |-> outcome])]
    /\ UNCHANGED <<ladder, obs, losses>>

Line(report) ==
    [run |-> 1, gpu |-> 0, target |-> Target(rung.i), anchor |-> report.bin, kind |-> "Discovery",
     current |-> TRUE, outcome |-> report.outcome, lost |-> report.outcome = "DeviceLost",
     clean |-> report.outcome \notin SafetyFailures, confirmed |-> report.outcome = "Validated",
     p99 |-> None, peak |-> None, p5 |-> None, p95 |-> None, thermal |-> FALSE,
     pattern |-> "none", pass |-> FALSE]

(* The lines of a clock are written when it is over; a failing one is      *)
(* skipped.                                                                *)
RecordLine ==
    /\ rung.pc = "record" /\ rung.reports # <<>>
    /\ \/ obs' = obs \cup {Line(Head(rung.reports))} /\ UNCHANGED losses
       \/ losses < MaxLosses /\ losses' = losses + 1 /\ UNCHANGED obs
    /\ rung' = [rung EXCEPT !.reports = Tail(@),
                            !.pc = IF Head(rung.reports).outcome \in SafetyFailures THEN "unsafe" ELSE @]
    /\ UNCHANGED <<ladder, held, loads>>

(* An instability only ends its clock; an unsafe end ends the ladder.      *)
TargetRecorded ==
    /\ rung.pc \in {"record", "unsafe"} /\ rung.reports = <<>>
    /\ rung' = IF rung.pc = "unsafe" THEN [rung EXCEPT !.pc = "done"]
               ELSE [rung EXCEPT !.pc = "target", !.todo = {}, !.prevGood = LastGood(obs, Target(rung.i))]
    /\ UNCHANGED <<ladder, obs, held, loads, losses>>

(* The machine goes down: what is not on record is gone.                   *)
Dies ==
    /\ rung.pc \in {"step", "record"}
    /\ rung' = [rung EXCEPT !.pc = "dead"]
    /\ UNCHANGED <<ladder, obs, held, loads, losses>>

Climbs == BeginTarget \/ LadderDone \/ CandidateRefused \/ Candidate \/ RecordLine \/ TargetRecorded

Next == Climbs \/ Dies

Over == rung.pc \in {"done", "dead"}
==============================================================================
