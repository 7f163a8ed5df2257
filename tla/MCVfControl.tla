---------------------------- MODULE MCVfControl -----------------------------
(***************************************************************************)
(* A small instance of VfControl for TLC.                                  *)
(***************************************************************************)
EXTENDS VfControl, TLC

(* Three bins of the core, a lone bin far above them, and one the service *)
(* takes for foreign; a second table with a plateau.                       *)
Core  == {800, 812, 825}
MCSane == Core \cup {1100}

Steep   == 800 :> 1700 @@ 812 :> 1755 @@ 825 :> 1800 @@ 1100 :> 1900 @@ 1250 :> 2000
Plateau == 800 :> 1755 @@ 812 :> 1785 @@ 825 :> 1785
MCTables == {Steep, Plateau}

(* What a search may have left: a named slot and the point near the clock, *)
(* one of them twice, with telemetry of every quality.                     *)
Point(clock, stable, quality, p5) ==
    [clock |-> clock, stable |-> stable, power |-> 90, peak |-> 100, quality |-> quality,
     maxVoltage |-> 812, p5 |-> p5]
Good    == Point(1770, TRUE, "High", 1755)
Thin    == Point(1800, TRUE, "Low", 1800)
Sagging == Point(1770, TRUE, "Medium", 1700)
MCResults == {[slot |-> Good, points |-> <<Good, Thin>>], [slot |-> None, points |-> <<Sagging, Thin, Thin>>]}
==============================================================================
