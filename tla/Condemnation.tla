---------------------------- MODULE Condemnation ----------------------------
(***************************************************************************)
(* The V/F floor arithmetic shared by the durable condemnation ledger      *)
(* (crates/core/src/condemnation.rs) and the operational field guard       *)
(* (field_vf_floor_mv in gpu_undervolt.rs).  A condemned pair is           *)
(* <<clock, mv>>.  The code sorts the pairs and walks the windows of the   *)
(* running-max envelope; here the envelope is a function of the clock.     *)
(***************************************************************************)
EXTENDS Integers, FiniteSets, FiniteSetsExt

Clocks(pairs) == {p[1] : p \in pairs}

(* Running maximum of the condemned voltages up to a condemned clock.      *)
Envelope(pairs, clock) == Max({p[2] : p \in {q \in pairs : q[1] <= clock}})

HasFloor(pairs, clock) == \E p \in pairs : p[1] <= clock

CeilDiv(n, d) == (n + d - 1) \div d

(* Ceil-interpolated between condemned clocks, flat above the highest one; *)
(* meaningful only when HasFloor holds.                                    *)
FloorMv(pairs, clock) ==
    LET below == Max({c \in Clocks(pairs) : c <= clock})
        above == {c \in Clocks(pairs) : c > clock}
        v0    == Envelope(pairs, below)
    IN  IF above = {} \/ below = clock
        THEN v0
        ELSE LET c1 == Min(above)
             IN  v0 + CeilDiv((Envelope(pairs, c1) - v0) * (clock - below), c1 - below)

(* At or below the floor of rigid evidence.                                *)
AtOrBelowFloor(pairs, clock, mv) == HasFloor(pairs, clock) /\ mv <= FloorMv(pairs, clock)

BelowFloor(pairs, clock, mv) == HasFloor(pairs, clock) /\ mv < FloorMv(pairs, clock)

(* CondemnedPairs::refuses                                                 *)
Refuses(rigid, quarantine, clock, mv) ==
    AtOrBelowFloor(rigid, clock, mv) \/ BelowFloor(quarantine, clock, mv)
=============================================================================
