----------------------------- MODULE F2CommandLine -----------------------------
(***************************************************************************)
(* Two commands that explore the card unattended: build-frontier           *)
(* (FrontierScan) and undervolt-probe --ladder-sweep (LadderSweep).  A     *)
(* process runs one of them and exits.                                     *)
(***************************************************************************)
EXTENDS FrontierScan

CONSTANTS Ladders, Raised, HwFloor, Histories, MaxLosses

VARIABLES ladder, rung, obs, held, loads, losses

Lad == INSTANCE LadderSweep

ASSUME LadderAssumption ==
    /\ \A climb \in Ladders : climb \in Seq(Nat) /\ \A n \in DOMAIN climb : climb[n] \in DOMAIN Raised
    /\ \A target \in DOMAIN Raised : Raised[target] \subseteq Nat /\ IsFiniteSet(Raised[target])
    /\ HwFloor \in Nat /\ MaxLosses \in Nat
    /\ \A log \in Histories : IsFiniteSet(log) /\ \A o \in log : o.anchor \in Nat

ladvars == <<ladder, rung, obs, held, loads, losses>>

cvars == <<fvars, ladvars>>

RunsFrontier ==
    /\ Init
    /\ ladder = <<>> /\ rung = [Lad!IdleRung EXCEPT !.pc = "done"]
    /\ obs = {} /\ held = FALSE /\ loads = {} /\ losses = 0

RunsLadder ==
    /\ Lad!Init
    /\ limits = Unset /\ scan = [phase |-> "A", step |-> "done", i |-> 0]
    /\ cur = Unset /\ prev = Unset
    /\ points = <<>> /\ used = 0 /\ abort = FALSE
    /\ flag = Unset /\ ceiling = Unset
    /\ runs = {} /\ kills = 0

CommandInit == RunsFrontier \/ RunsLadder

CommandNext ==
    \/ Next /\ UNCHANGED ladvars
    \/ Lad!Next /\ UNCHANGED fvars

(* The command is one thread; every dwell has a deadline.                  *)
CommandWorks ==
    \/ (Descends \/ Schedules) /\ UNCHANGED ladvars
    \/ Lad!Climbs /\ UNCHANGED fvars

CommandSpec == CommandInit /\ [][CommandNext]_cvars /\ WF_cvars(CommandWorks)

-----------------------------------------------------------------------------
(* Properties.                                                             *)

(* A clock of the ladder is started below the top only where the clock     *)
(* before, a higher one, has held by the log, and never at or below a      *)
(* voltage at which that clock has failed in this very run - unless the    *)
(* line that says so could not be written (ladder_target_descent_bounds:   *)
(* "the prior (higher) clock's last-good is a CEILING / descent START").   *)
LadderStartIsKnown ==
    rung.pc = "step" /\ rung.start # Lad!None =>
        /\ rung.i > 1 /\ ladder[rung.i - 1] > ladder[rung.i]
        /\ \E o \in obs : Lad!IsValidated(o) /\ o.target = ladder[rung.i - 1] /\ o.anchor = rung.start
        /\ losses = 0 =>
              \A l \in loads : l.i = rung.i - 1 /\ l.outcome = "Unstable" => l.bin < rung.start

(* Either command comes to its end, whatever its loads find.               *)
CommandEnds == <>((At("done") \/ At("dead")) /\ Lad!Over)
==============================================================================
