--------------------------- MODULE MCF2CommandLine ---------------------------
(***************************************************************************)
(* A small instance of F2CommandLine for TLC: three clocks over five bins, *)
(* a range of limits and of ladders, and two logs to start from.           *)
(***************************************************************************)
EXTENDS F2CommandLine

MCClocks == <<1800, 1770, 1740>>
MCBins   == {800, 812, 825, 837, 850}

Full == [targets |-> Unset, probes |-> Unset, perTarget |-> Unset, cap |-> Unset,
         warm |-> FALSE, bind |-> FALSE, knee |-> Unset]

MCOptions ==
    {Full,
     [Full EXCEPT !.warm = TRUE, !.bind = TRUE],
     [Full EXCEPT !.warm = TRUE, !.probes = 5, !.targets = 2],
     [Full EXCEPT !.perTarget = 2, !.knee = 2, !.bind = TRUE],
     [Full EXCEPT !.perTarget = 2, !.knee = 3, !.warm = TRUE, !.probes = 8],
     [Full EXCEPT !.perTarget = 1, !.knee = 4, !.cap = 837],
     [Full EXCEPT !.cap = 800], [Full EXCEPT !.probes = 0]}

(* The higher the clock, the more bins are below it at stock.              *)
MCRaised == [c \in {1740, 1770, 1800} |->
                CASE c = 1740 -> {800, 812} [] c = 1770 -> {800, 812, 825} [] c = 1800 -> {800, 812, 825, 837}]

MCLadders == {<<1800, 1770, 1740>>, <<1740, 1770, 1800>>, <<1740, 1800, 1770>>}

(* A card measured before, deeper than this one may go.                    *)
Known(target, bin, gpu, outcome) ==
    [run |-> 0, gpu |-> gpu, target |-> target, anchor |-> bin, kind |-> "Discovery", current |-> TRUE,
     outcome |-> outcome, lost |-> FALSE, clean |-> TRUE, confirmed |-> TRUE, p99 |-> 200, peak |-> 210,
     p5 |-> target, p95 |-> target, thermal |-> FALSE, pattern |-> "none", pass |-> FALSE]

MCHistories == {{}, {Known(1800, 812, 1, "Validated"), Known(1770, 812, 0, "Unstable")}}
=============================================================================
