---------------------------- MODULE MCClockDescent ----------------------------
(* Bins 6 mV apart.  Four of them allow a jump of three with two bisections *)
(* on the way back; two are enough for the faults.  The bin above is for    *)
(* the climb of a rejected start.                                           *)
EXTENDS ClockDescent

LongPlan  == <<900, 894, 888, 882>>
ShortPlan == <<900, 894>>

LongBins  == {906} \cup {LongPlan[n] : n \in DOMAIN LongPlan}
ShortBins == {906} \cup {ShortPlan[n] : n \in DOMAIN ShortPlan}

Dwell(outcome, p99, p5) == [outcome |-> outcome, p99 |-> p99, p5 |-> p5]

Sustained == Dwell("Validated", 90, 1800)
Throttled == Dwell("ClockDrop", 100, 1700)
AtCap     == Dwell("Validated", 100, 1800)
Dropped   == Dwell("ClockDrop", 90, 1700)
Lost      == Dwell("DeviceLost", None, None)

SearchDwells == {Sustained, Throttled}
FaultDwells  == {Sustained, AtCap, Dropped, Lost}

Qual(outcome, p5, retryable) == [outcome |-> outcome, p5 |-> p5, retryable |-> retryable]

SearchQuals == {Qual("Validated", 1800, FALSE), Qual("SilentError", 1800, FALSE),
                Qual("Inconclusive", 1800, TRUE)}
FaultQuals  == {Qual("Validated", 1800, FALSE), Qual("SilentError", 1800, FALSE)}

(* Three boundaries whose trend says 882; boundaries too far from each      *)
(* other to say anything; no clock before.                                 *)
Trending      == <<<<1845, 900>>, <<1830, 888>>, <<1815, 894>>>>
Contradicting == <<<<1830, 940>>, <<1815, 900>>>>

After(boundaries, next, conservative) ==
    [boundaries |-> boundaries, next |-> next, conservative |-> conservative]

Predicted == {After(Trending, 906, 900), After(Contradicting, 894, None)}
FromTop   == {After(<<>>, None, None)}
=============================================================================
