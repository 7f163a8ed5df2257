---------------------------- MODULE SafeLoopCore ----------------------------
(***************************************************************************)
(* The pure half of the Safe Loop (crates/core/src/safe_loop.rs): tuning   *)
(* points and blacklist regions, the operations of the persisted record,   *)
(* and the recovery decision taken at every service start.                 *)
(*                                                                         *)
(* Abstractions.  Every region the program creates has the radius          *)
(* DEFAULT_BLACKLIST_RADIUS, so the blacklist is the set of its centres.   *)
(* An incident is its kind and the run it belongs to; the incident history *)
(* is the set of the runs recorded in it (its cap of 64 is out of reach    *)
(* here).  The crash log, timestamps and messages are display only and are *)
(* left out.                                                               *)
(***************************************************************************)
EXTENDS Integers, FiniteSets

CONSTANTS
    SAFE_MODE_CRASH_THRESHOLD,  \* crashes that trip Safe Mode (3 in the code)
    Stock,                      \* "no core point": the always-safe setting
    NoFlag,                     \* boot_flag.json absent
    NoIncident                  \* pending_forge_incident is None

ASSUME ThresholdAssumption == SAFE_MODE_CRASH_THRESHOLD \in Nat \ {0}

DEFAULT_BLACKLIST_RADIUS == 1

SUPERVISED_F2_FORGE_PHASE == "f2_undervolt_probe"

-----------------------------------------------------------------------------
(* Tuning points: an integer per axis.  The code's map may lack an axis;   *)
(* chebyshev reads a missing axis as 0 and so does this function.  Clock   *)
(* and voltage axes are never 0 when present, so 0 also means "absent".    *)

Axes == {"gpu_freq_mhz", "gpu_voltage_mv", "gpu_vf_bin_mv", "gpu_offset_mhz"}

TuningPoint == [Axes -> Int]

NoAxes == [axis \in Axes |-> 0]

HasAxis(point, axis) == point[axis] # 0

(* chebyshev(center, point) <= radius                                      *)
Contains(center, point) ==
    \A axis \in Axes :
        center[axis] - point[axis]
            \in (-DEFAULT_BLACKLIST_RADIUS) .. DEFAULT_BLACKLIST_RADIUS

IsBlacklisted(record, point) ==
    \E center \in record.blacklist : Contains(center, point)

(* Push the region around a point unless a known region already covers it. *)
Blacklist(record, point) ==
    [record EXCEPT !.blacklist =
        IF IsBlacklisted(record, point) THEN @ ELSE @ \cup {point}]

-----------------------------------------------------------------------------
(* The persisted record, safe_loop.json.                                   *)

SafeLoopState == {"Idle", "Validated", "Unstable", "SafeMode"}

CrashClass == {"OcInstability", "Unrelated", "Unknown"}

ForgeIncidentKind ==
    {"CandidateCrash", "UnaccountedRestart", "OperatorFieldFailure", "RuntimeFailure"}

ForgeIncident == [kind : ForgeIncidentKind, run : Nat]

(* None is not an incident.                                                *)
ASSUME IncidentAssumption == NoIncident \notin ForgeIncident

SafeLoopRecord ==
    [state               : SafeLoopState,
     consecutive_crashes : Nat,
     blacklist           : SUBSET TuningPoint,
     safe_mode           : BOOLEAN,
     pending             : ForgeIncident \cup {NoIncident},
     incidents           : SUBSET Nat,
     last_validated      : TuningPoint \cup {Stock}]

DefaultRecord ==
    [state               |-> "Idle",
     consecutive_crashes |-> 0,
     blacklist           |-> {},
     safe_mode           |-> FALSE,
     pending             |-> NoIncident,
     incidents           |-> {},
     last_validated      |-> Stock]

(* The phase a record shows outside Safe Mode.                             *)
StateUnlessSafe(record, state) ==
    IF record.safe_mode THEN record.state ELSE state

(* Variant: a reset that also drops the unacknowledged incident.           *)
ClearRecoveryLatch_DropsIncident(record) ==
    [record EXCEPT !.safe_mode = FALSE, !.consecutive_crashes = 0,
                   !.state = "Idle", !.pending = NoIncident]

(* Variant: a reset takes one crash off the streak, without saturating.    *)
ClearRecoveryLatch_StepsDown(record) ==
    [record EXCEPT !.safe_mode = FALSE,
                   !.consecutive_crashes = @ - 1,
                   !.state = IF record.pending # NoIncident THEN "Unstable" ELSE "Idle"]

ClearRecoveryLatch(record) ==
    [record EXCEPT !.safe_mode = FALSE,
                   !.consecutive_crashes = 0,
                   !.state = IF record.pending # NoIncident THEN "Unstable" ELSE "Idle"]

(* One incident per run: a second one for the same run changes nothing.    *)
RecordForgeIncident(record, kind, run) ==
    IF run \in record.incidents
    THEN record
    ELSE [record EXCEPT !.pending = [kind |-> kind, run |-> run],
                        !.incidents = @ \cup {run},
                        !.state = StateUnlessSafe(record, "Unstable")]

AcknowledgeForgeIncident(record) ==
    IF record.pending = NoIncident
    THEN record
    ELSE [record EXCEPT !.pending = NoIncident,
                        !.state = StateUnlessSafe(record, "Idle")]

-----------------------------------------------------------------------------
(* Startup recovery.  A boot flag is [intent, phase] or NoFlag.            *)

FlagPhases ==
    {"gpu_apply", "gpu_apply_undervolt", "manual_diagnostic_point", SUPERVISED_F2_FORGE_PHASE}

BootFlag == [intent : TuningPoint, phase : FlagPhases]

(* Supervised Forge crashes are boundary evidence, unless the bugcheck is  *)
(* unrelated to tuning; every other armed flag consumes the crash budget.  *)
CountsTowardSafeMode(flag, class) ==
    ~ (flag.phase = SUPERVISED_F2_FORGE_PHASE /\ class # "Unrelated")

RecoveryActions ==
    {"Idle", "ApplyLastValidated", "AwaitOperatorAcknowledgement",
     "BlacklistAndRecede", "EnterSafeMode", "RemainSafeMode"}

(* Variant: an off-by-one in the crash budget.                             *)
DecideRecovery_OneMore(flag, class, record) ==
    IF flag # NoFlag
    THEN IF /\ CountsTowardSafeMode(flag, class)
            /\ record.consecutive_crashes >= SAFE_MODE_CRASH_THRESHOLD
         THEN "EnterSafeMode"
         ELSE "BlacklistAndRecede"
    ELSE IF record.safe_mode THEN "RemainSafeMode"
    ELSE IF record.pending # NoIncident THEN "AwaitOperatorAcknowledgement"
    ELSE IF record.last_validated # Stock THEN "ApplyLastValidated"
    ELSE "Idle"

(* Variant: a bugcheck of some other driver excuses the armed flag.         *)
DecideRecovery_Excused(flag, class, record) ==
    IF flag = NoFlag \/ class = "Unrelated" THEN DecideRecovery_OneMore(NoFlag, class, record)
    ELSE IF /\ CountsTowardSafeMode(flag, class)
            /\ record.consecutive_crashes + 1 >= SAFE_MODE_CRASH_THRESHOLD
         THEN "EnterSafeMode"
         ELSE "BlacklistAndRecede"

DecideRecovery(flag, class, record) ==
    IF flag # NoFlag
    THEN IF /\ CountsTowardSafeMode(flag, class)
            /\ record.consecutive_crashes + 1 >= SAFE_MODE_CRASH_THRESHOLD
         THEN "EnterSafeMode"
         ELSE "BlacklistAndRecede"
    ELSE IF record.safe_mode THEN "RemainSafeMode"
    ELSE IF record.pending # NoIncident THEN "AwaitOperatorAcknowledgement"
    ELSE IF record.last_validated # Stock THEN "ApplyLastValidated"
    ELSE "Idle"

ApplyRecovery(record, action, flag, class) ==
    CASE action = "Idle" ->
            [record EXCEPT !.state = "Idle"]
      [] action = "ApplyLastValidated" ->
            [record EXCEPT !.state = "Validated"]
      [] action = "AwaitOperatorAcknowledgement" ->
            [record EXCEPT !.state = "Unstable"]
      [] action = "BlacklistAndRecede" ->
            [Blacklist(record, flag.intent) EXCEPT
                !.consecutive_crashes =
                    IF CountsTowardSafeMode(flag, class) THEN @ + 1 ELSE @,
                !.state = "Unstable"]
      [] action = "EnterSafeMode" ->
            [record EXCEPT !.consecutive_crashes = @ + 1,
                           !.safe_mode = TRUE,
                           !.state = "SafeMode"]
      [] action = "RemainSafeMode" ->
            [record EXCEPT !.safe_mode = TRUE,
                           !.state = "SafeMode"]

(* Variant: every flag is disarmed once its crash is accounted.            *)
RetainBootFlagUntilReapply_Never(action) == FALSE

(* An accounted crash flag stays armed until apply-on-boot has seen it.    *)
RetainBootFlagUntilReapply(action) ==
    action \in {"BlacklistAndRecede", "EnterSafeMode"}
=============================================================================
