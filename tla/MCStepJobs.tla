------------------------------ MODULE MCStepJobs ------------------------------
(* Two bins, a power limit of 100 W, a publication ceiling of 95 W.        *)
EXTENDS StepJobs

SweepPlan == <<900, 894>>
ApplyPairs == {894}

Dwell(outcome, p99, p5) == [outcome |-> outcome, p99 |-> p99, p5 |-> p5]

Sustained == Dwell("Validated", 80, 1800)
Drifted   == Dwell("Validated", 92, 1800)
Dropped   == Dwell("ClockDrop", 80, 1700)
Lost      == Dwell("DeviceLost", None, None)

StepDwells == {Sustained, Drifted, Lost}

GateDwell(outcome, p99, retryable) ==
    [outcome |-> outcome, p99 |-> p99, p5 |-> 1800, retryable |-> retryable]

StepGateDwells ==
    {GateDwell("Validated", 90, FALSE), GateDwell("Validated", 99, FALSE), GateDwell("Inconclusive", 90, TRUE),
     GateDwell("SilentError", 90, FALSE), GateDwell("DeviceLost", None, FALSE)}
=============================================================================
