------------------------------ MODULE MCForgeRun ------------------------------
(* Three clocks, all above 90 % of the first, and three bins 20 mV apart.   *)
(* The strongest pair draws 13 W less than the publication ceiling of 188 W *)
(* and a hungry gate 14 W more, at a clock as high as the next target.  The *)
(* top bin needs no offset at the lowest clock, whose boundary is therefore *)
(* its Apply voltage: the one place where a frontier brings back a pair an  *)
(* older gate quarantined, since the bins below such a pair are refused.    *)
EXTENDS ForgeRun, TLC

ThreeClocks == <<1000, 960, 920>>
ThreeBins   == {<<800, 700>>, <<820, 740>>, <<840, 940>>}

PairDraw ==
    [key \in {1000, 960, 920} \X {800, 820, 840} |->
        (key[1] \div 5) + ((key[2] - 800) \div 4) - (IF key[1] = 1000 THEN 30 ELSE 28)]

OneEach ==
    [target \in {1000, 960, 920} |->
        {[mv |-> IF target = 920 THEN 820 ELSE 800, trust |-> 90, failed |-> None]}]

Calm   == [rise |-> 0, p95 |-> 0]
Hungry == [rise |-> 14, p95 |-> 40]

Gates     == {Calm, Hungry}
OldSilent == {<<920, 820>>}
BothModes == {"Persistent", "Clean"}
=============================================================================
