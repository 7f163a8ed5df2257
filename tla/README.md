# A formal model of Nidavellir's GPU tuning service

Nidavellir is a Windows application that searches for a stable GPU undervolt ("Forge"), applies the
result and recovers from the crashes such a search provokes. Everything that touches the hardware runs
in one privileged process, the Core Service (`crates/service`), which a Svelte/Tauri window drives over
a named pipe. Tuning a GPU below its stock voltage crashes drivers and machines by design, so what makes
this program correct is not what a candidate scores but what the service remembers, writes and refuses
*across* crashes. That is what this project models: what is written when, by which of several threads, what is
believed of it after a crash, and what is concluded from it.

Paths below are relative to `src/`.

## 1. Inventory

### 1.1 Components, their state and their operations

| component | state | operations | correct when |
|---|---|---|---|
| Safe Loop record (`core/src/safe_loop.rs`) | `safe_loop.json`: phase, streak, blacklist, Safe Mode latch, pending Forge incident, incident history; `boot_flag.json`; clean-shutdown marker | decide/apply recovery, latch reset, incident record and acknowledgement, arm and clear the flag | the latch and the streak agree; a crash is accounted once; a boot loop ends; an incident survives until acknowledged |
| startup recovery and lifecycle (`service/src/safe_loop_runtime.rs`, `service_impl.rs`) | where the start sequence is | reconcile interrupted Forge, recover, reboot guard, sentinel reconcile, apply-on-boot, open the pipe; graceful stop | cutting the sequence anywhere never re-applies a profile that crashed, never loses an event |
| apply and reset (`service/src/gpu_apply.rs`) | `gpu_applied.json`, survival timers, the driver's curve and locks | apply (ceiling writer, anchored undervolt writer), reset, re-apply on boot | what is stored is the operator's choice; while a fresh profile is on trial its crash would be noticed |
| manual point (`service/src/manual_point.rs`) | one active point | apply, reset | flag armed exactly as long as the point is active |
| TDR sentinel (`service/src/tdr_sentinel.rs`) | event cursor, "reboot required" latch, ladder of bumps, action epoch | start reconciliation; live watcher: claim, blacklist, bump or reset | a profile that took the driver down is not written again; the ladder ends; an event is handled once |
| IPC requests (`service/src/ipc_server.rs`) | the service mutex, the lease (derived from the workers' progress) | every operator request | two writers never own the GPU together; emergency reset always possible |
| Forge run (`service/src/gpu_power_sweep.rs`) | in-memory progress, `forge_state.json`, stop and pause flags, worker thread | start, clean run, pause, resume, abort, field report, terminal phase | a run leaves stock behind; an interrupted run is not resumed silently; profiles published only from a complete, confirmed run |
| F2 motor (`service/src/gpu_undervolt.rs`) | one candidate transaction | preflight, arm, write, verify, dwell, reset, blacklist, clear | armed before written; cleared only after confirmed reset and durable blacklist |
| condemnation ledger (`core/src/condemnation.rs`) | append-only list of condemned V/F pairs | append, floor envelope, refuse, rehabilitate | survives resets; more evidence never permits more |
| observation store (`core/src/f2_observation.rs`) | append-only list of dwells | append, select, frontier, qualification predicates | only qualified evidence yields profiles |
| V/F planner, curve control (`gpu_undervolt.rs`, `core/src/gpu_control.rs`) | none (pure) | plan anchored offset, plateau, bounds | offsets inside caps, monotone |
| legacy sweeps, forge-all, benchmark, Detector Lab | one worker each: thread, progress, stop flag | start, stop, progress, end | one worker at a time owns the GPU; stock is left behind however a worker ends |
| F2 command line (`gpu_undervolt.rs`, `gpu_power_sweep.rs`) | the log of observations, a frontier in memory | probe, sweep, ladder of sweeps, `build-frontier` | no load is a leap; a lost device ends the probing |
| sensors, driver access, stress kernels, UI, wire types | – | I/O, formatting | out of scope |

### 1.2 How they interact

* **Files.** The start sequence reads what the previous process left. Two writes are never atomic
  together; the order of the writes is the protocol.
* **Mutex and lease.** IPC handlers run one at a time under `AppState`'s mutex. Workers (Forge, sweeps)
  are threads outside it; the lease (`gpu_operation_running`) is computed from what they publish as their
  progress. Reset requests and the service stop bypass it on purpose.
* **Detached threads.** A survival timer per apply, the TDR watcher, the canary, the heartbeat.
* **Evidence.** A Forge session calls descents and gates, which append observations and condemnations; later
  sessions, the start sequence and the sentinel read the same logs.
* **Environment.** Windows (bugchecks, event log, service control), the NVIDIA driver (TDR, curve
  surviving a service restart), power.

### 1.3 What is hard here

Crashes between two file writes; a second crash during recovery from the first; timers that clear a flag
they did not arm; resets under a live worker; a worker that owns the GPU before it has said so; stale
evidence (newest bugcheck, missing cursor, profiles of an earlier run); counters at a threshold; a record
changed by three threads; one failing access among the many of a candidate; searches that jump, bisect, retry
and climb and must still end; curves written bin by bin over whatever was there. `PROJECT.json` lists each
hazard at its line with the property that covers it, or the reason none does.

## 2. Modules

| module | models | kind |
|---|---|---|
| `Condemnation` | the floor envelope of condemned V/F pairs, `refuses` | pure operators |
| `SafeLoopCore` | `safe_loop.rs`: points, regions, record operations, `decide_recovery`, `apply_recovery` | pure operators |
| `SafeLoop` | the service between two power cycles: start sequence, applies, manual point, operator recovery, Forge candidates, crashes | state machine, extends the two above |
| `Sentinel` | the live watcher and the canary of `tdr_sentinel.rs` beside the running service | state machine, extends `SafeLoop` |
| `WorkerLease`, `LegacySweeps`, `PackageRuns`, `DetectorLab` | the lease; the programs of the older workers | parts of the next |
| `GpuWorkers` | every kind of worker and the IPC server together, on several threads | state machine |
| `F2Evidence`, `PowerEvidence` | the observation log and every question asked of it; verdicts, p99 consensus, the next step at the power limit | pure operators |
| `FrontierPrediction` | the trend of the boundaries found so far, and the start it predicts | pure operators |
| `GuardedWrite` | abstract: the GPU leaves stock only under an armed flag | specification to implement |
| `CandidateMotor` | one candidate on the hardware, each access an action that may fail | actions, extends `PowerEvidence` |
| `ClockDescent` | the descent at one clock and the Forge's retries of it | state machine, implements `GuardedWrite` |
| `StepJobs` | calibration, exact-Apply gate, sweep and multi-step descent of the command line | state machine on the same motor |
| `ProfileSynthesis` | the choice of three profiles, vertical repair | pure operators |
| `ForgeRun` | Forge sessions from preflight to publication | state machine |
| `VfTable` | clusters, planners, ceilings, verification of a V/F table | pure operators |
| `VfControl` | how a curve is written, verified and reset, bin by bin | state machine |
| `FrontierScan`, `LadderSweep`, `F2CommandLine` | `build-frontier`; the ladder of sweeps; either as one process | state machines, composed by the last |
| `SentinelProofs`, `CandidateMotorProofs`, `ClockDescentProofs`, `StepJobsProofs`, `ForgeRunProofs`, `VfControlProofs`, `F2CommandLineProofs`, `GpuWorkersProofs` | inductive invariants, lemmas and theorems about the module named and the modules it extends (`SentinelProofs`: about `SafeLoop` and `Sentinel`) | proofs |
| `MC*` | small sets, tables and operator menus | model-checking instances |

The same thing is modelled at several depths, never twice at the same: a candidate is two steps in
`ForgeRun`, four in `SafeLoop` (where crashes are cut open), one action per driver access in `CandidateMotor`, and
one per bin in `VfControl`; a session is a worker among others in `GpuWorkers`, the whole of `ForgeRun`, and
what surrounds one descent in `ClockDescent`.

### 2.1 `SafeLoop`: state and actions

| variable | code |
|---|---|
| `flag` | `boot_flag.json` |
| `record` | `safe_loop.json` |
| `clean` | the clean-shutdown marker |
| `applied` | `gpu_applied.json`, with the writer it belongs to (`F1` ceiling, `F2` anchored undervolt) |
| `checkpoint` | `forge_state.json` |
| `ledger` | `condemnation_ledger.jsonl`, the rigid entries of this GPU |
| `baseline` | `sentinel_baseline.txt` |
| `log` | Windows' event log: newest bugcheck (class, whether inside the applied session), TDR count, whether a TDR belongs to this boot |
| `hw` | the programmed curve and the clock/voltage lock; survives a service restart, not a reboot |
| `pc` | the place in `run_service` |
| `latch` | the process-local "reboot required" latch |
| `job`, `timers`, `manual` | an apply or a Forge request under way, running survival timers, an active manual point |
| `prog`, `forge` | published progress, the Forge worker |
| `hist` | observer: what happened; no action reads it |
| `used` | consumption of the bounds |

`Candidates` are the points a Forge run tries (the others can only be fallback bins), `OldTdr` the TDR
events on the log before Nidavellir was installed; both bound the instances.

*Granularity.* A crash can fall between any two file or hardware writes of the start sequence, of an
apply and of a candidate, so each is its own action. IPC handlers that only change files hold the mutex
for their whole length and are one action. The refusals of an apply and the arming of its flag are one too: what the sentinel
latches or condemns between them is missed there just as it is between the arming and the write, which are separate. A Forge request is two actions,
`ForgeRequest` (lease and reboot latch, `ipc_server.rs` 153–164) and `ForgeStart` (incident, running worker, `FORGE_ACTIVE`,
`gpu_power_sweep.rs` 1029–1049): the worker never looks at the latch again, and the sentinel does not take the
mutex. The Forge worker interleaves with everything.

*Start* follows `run_service`: `ReconcileRecord`, `ReconcileCheckpoint` (`reconcile_interrupted_forge`),
`RecoverConsumeMarker`, `RecoverDisarm`, `RecoverCommit` (`run_startup_recovery`),
`InitializeRebootGuard`, `StartupReconcile`, `DemoteCondemn`, `DemoteClearApplied`, `PersistBaseline`
(`startup_reconcile`), `SkipReapply` / `ReapplyArm` (`reapply_on_boot`).

*Environment.* `MachineCrash` is a bugcheck of any class or a freeze that logs none, with or without a TDR
event; `ServiceKilled` leaves driver and Windows running; `DriverResetWhileDown` is a TDR with no service
running. Each counts against `MaxFaults`.

*Abstractions.*
Tuning candidates are records `[mhz, mv, off]` from the constant `Pairs`; every blacklist region has the
default radius, so a blacklist is a set of centres, and chebyshev distance is kept exactly.
Memory offsets, quarantine entries, Forge Resume, the clean run's private ledger scope, crash log and
texts are left out (quarantine, Resume and private scopes are in `ForgeRun`, memory offsets in `GpuWorkers`). An
apply with no core point (`Stock`) stands for a memory-only profile.
Load-modify-save of the record is one step, and disk operations do not fail (they do in `CandidateMotor`).
One Forge worker (two threads in `GpuWorkers`). A TDR while the service is up is part of `MachineCrash`; a TDR that
the machine survives, and the watcher that answers it, are in `Sentinel`.
`ForgeArm` requires that no survival timer runs: the stock preheat lasts 10 s, the window 8 s.
`CrashedCandidate` leaves out the crash that trips Safe Mode, because `apply_recovery` then enters Safe
Mode without blacklisting. (A candidate cannot be armed in Safe Mode, and the reset that leaves it is an
operator's decision; still, the code forgets that candidate.)

### 2.2 `Sentinel`: the two threads beside the service

| variable | code |
|---|---|
| `layer` | the watcher and the canary: where each is, the event, the budget it read, the failed pair, the fallback |
| `cursor` | `last_handled` of the watcher; `baseline` of `SafeLoop` is its copy on disk |
| `bumps` | `bumps_this_session`, the atomic both layers share |
| `recent` | `LAST_ACTION_EPOCH_S`: who opened the 90 s episode |
| `seen` | observer: driver resets that must be answered, fallback writes of this session |

`ServiceStep` is a step of `SafeLoop` with `Threads`: the layers are spawned when the start sequence is
over and die with the process. `DriverReset` is the environment. `WatcherPoll`, `WatcherHandles`,
`WatcherCommit` and `WatcherCooldown` are the polling loop; `WatcherHandsOff` and `WatcherHandoffRecord` are
`record_active_forge_tdr`; `CanaryStarts` and `CanaryVerdict` bracket the 700 ms check. Both layers then go
through `handle_failure`, one action per shared read or durable write: `Decide` (window, applied profile,
flag), `Claim` (the compare-exchange), `PersistRecord`, `PersistLedger`, `ResetToStock`, `FallbackArm`,
`FallbackWrite`, `FallbackSave`. Neither layer holds the service mutex or the lease, so all of this
interleaves with every request and with a Forge run.

*Time.* `EpisodeOver` closes the 90 s window at any time no layer is between its look at the window and
the end of its recovery (seconds), and not during the watcher's 60 s cooldown after its own recovery: both are
shorter than the window in the code. The canary's cooldown and its load threshold only make it rarer and
are left out. The driver resets only once the start sequence (seconds) is over.

*Left out.* A failing event-log query, memory offsets, labels and the status card.

### 2.3 `GpuWorkers`: two workers and the lease

| variable | code |
|---|---|
| `thr` | worker threads: kind, program counter, the numbers of its search |
| `run`, `shown`, `stop` | of a handle: the swap that admits one worker of a kind, the published `progress.running`, the stop flag |
| `hw`, `flag`, `stored`, `timers` | curve/offsets/lock/cap of the driver, who armed the boot flag, `gpu_applied.json`, survival windows |
| `result` | what finished sweeps offer to apply |
| `manual`, `forge`, `latch`, `ipc` | manual point, `FORGE_ACTIVE` and incident, reboot latch, the request being handled |
| `used` | bounds; whether the last request was a reset, whether grants overlapped |

A worker's program has one action for every statement that polls its stop flag, writes the GPU, arms or
clears the flag, or publishes: GPU validation, core sweep (`real`), memory sweep (`mem`), Forge-all,
benchmark, Detector Lab, and the Forge worker as the others see it. `GpuWorkers` adds the requests. Between a
handle's `run` and its `shown` lies the start gap (pc `gap`), in which another worker may be granted:
`gpu_operation_running` reads only `shown`. `thr[t].shared` and `used.overlap` mark the two overlaps the code
allows, a start in such a gap and a reset under a live worker, so that the properties can speak of the others.
`ResetAsksToStop`, `ResetsGpu` and `ResetPublishes` are `ResetGpuTuning`, which is not leased.

*Abstractions.* The smallest free thread takes a job. Test verdicts are free. The sweeps' own
`let _ = reset_all()` succeed (`gpu_mem_sweep.rs` 287 and its likes; if one fails, the flag is cleared over a card off stock, and
`SweepEndsAtStock` would not hold); a `set` whose result the code looks at, and the resets of handlers and of the
lab, may fail (`MaxFaults`). Refusals because of Safe Mode or the ledger are `SafeLoop`'s. A game trace holds no lease and writes
nothing.

### 2.4 `F2Evidence`, `PowerEvidence`, `CandidateMotor`, `GuardedWrite`

`F2Evidence` is `f2_observation.rs`: which observations are current, qualify, count as a failure; boundary, frontier,
power and clock of a pair. The log is a set, since every question depends only on what it holds.
`PowerEvidence` is the per-candidate part of `gpu_undervolt.rs`.

`CandidateMotor` has the steps both motors of the code share: `ArmBootFlag`,
`ApplyPositiveOffset`, `VerifyOffset`, `ResetToStock`, `BlacklistPoint`, `RetainBootFlag`, `ClearBootFlag`, and the ends that
are not its own: `PanicReset` (the transaction's drop guard) and `RebootAndRecover` (startup recovery
blacklists the armed intent). Every one of the driver and disk accesses may fail, counted by `MaxFaults`. `flag`, `hw` and
`blacklist` are the boot flag, the driver's curve and the record at the one clock under search, so a point is a
voltage. Two modes: `transaction` writes once and runs several phases under that write (descent); `step` is one phase
(calibration, gate, sweep).

`GuardedWrite` has two variables, `tuned` and `armed`, and four steps: arm, write, restore stock, disarm - the
GPU is tuned only while armed, and disarmed only when at stock. A fifth, the reboot, does the last two at once, whatever was there.
`Guard == INSTANCE GuardedWrite WITH tuned <- hw # None, armed <- flag # None` in `CandidateMotor`.

### 2.5 `ClockDescent`: the search at one clock

| variable | code |
|---|---|
| `log` | `f2_observations.jsonl`, and the lines a crash has torn |
| `call` | `run_confirmed_f2_clock_discovery`: candidates, index, bracket, reports, what the next step is |
| `forge` | the per-target part of `measure_multiclock_undervolt_forge`: start, climbs, resume |
| `stop` | the stop flag |
| `seen`, `spent` | observer; bounds |

A candidate runs `NextCandidate`, the motor, `DiscoveryDwell`, `RecheckPower`, `Analyse`,
`QualificationDwell`, `CandidateCleanup`, `PersistReport` (a line at a time), then exactly one of the outcomes of
`Judge`: `JudgeAborted`, `RecoverUpwards`, `BoundaryReached`, `QualificationStops`, `Qualified`, `NearCapDescends`,
`NarrowBracket`. `Summarize`, `FallBack`, `ClimbStart` and `FinalReset` end the call and the session. Environment:
`StartSession`, `StopPressed`, `WorkerPanics`, `MachineCrash`.

A session starts where `FrontierPrediction` says: the monotone fit of the last boundaries (a min-max of means, in place of the code's merging of
neighbours), its middle slope, refused when the boundaries contradict each other by more than 25 mV. `Befores` is what the clocks
before can have left for it; the boundary of this clock itself is read from the log.

*Abstractions.* The Safe Mode / ledger snapshot is `SafeLoop`'s, the blacklist stands for both; the step of the offset never
binds in a Forge; goldens are present; one qualification pass in both modes; the final gate of this function is
dormant; a new session starts with the flag gone (the preflight refuses otherwise) and the GPU at stock. With
`TornWrites`, a crash while lines are appended may cut one.

### 2.6 `StepJobs`: one-phase steps

`job` is the job under way, `session` the Forge session around it, `log`, `stop`, `seen`, `spent` as above. A
calibration is `SelectCalibration`, `DiscoveryLoad`, `CalibrationStepDone`, `AnalyseCalibration`, `PersistCalibration`; a
gate is `SelectGate`, `GateLoad`, `GateStepDone`, `PersistGate`, `JudgeTexture`, `JudgeEndurance`; a descent is
`SelectSweep`, `SweepStepDone`, `RecordSweep`, `SweepRecorded`. Only a calibration or a gate belongs to a session; a descent
(`sweep`, or `steps`, which records nothing) is a process of its own.

*Abstractions.* Pairs can always be planned; thermal readings are false and p95 = p5 in lines; a stop between two
jobs is one at the end of the first; reboots happen only while something is under way or left over; failing appends
of a sweep are skipped; a panic in a step leaves curve and flag, as there is no drop guard.

### 2.7 `ProfileSynthesis` and `ForgeRun`: a session

| variable | code |
|---|---|
| `prog` | the shared progress: phase, running, frontier, profiles, `profiles_qualified` |
| `saved` | `forge_state.json` and its pre-clean archive |
| `w` | the worker: where it is, the points, queue, round, repair, exclusions |
| `ctl` | `stop` and `manual_stop` |
| `disk` | boot flag, blacklist, quarantine, ledger, pending incident, evidence |
| `tuned` | the GPU is off stock |
| `seen`, `spent` | observer; bounds |

`Preflight`, `Preheat`, `Discover` / `DescentEnds`, `BuildPoints`, `Backfill` / `BackfillEnds`,
`SynthesizeProfiles`, `SelectCandidate`, the ends of a gate (`GatePasses`, `GateAgain`, `GateCancelled`,
`GateOverPower`, `GateSilent`, `GateUnstable`, `GateInconclusive`, `GateLost`), `Repair` / `RepairEnds`, `Publish`,
`FinalReset`. Environment: `StartSession`, `ResumeSession`, `StopSession`, `RecordActiveForgeTdr`, `WorkerPanics`,
`Restart`, `AcknowledgeIncident`, `ReportUnstable`.

*Abstractions.* The handler of a start and the worker's prologue are one action (the gap between them is
`GpuWorkers`'); a descent, a calibration or a gate is its begin and its end; manual reset and Apply are left to
`GpuWorkers` and `SafeLoop`, Safe Mode to `SafeLoop`; the blacklist's radius is smaller than the pitch of the bins, so
the floor stands for it; failing saves of `forge_state.json` are left out; a Resume is assumed compatible. A repair's
step of two bins never arises, and `bound` is false for an F2 point.

### 2.8 `VfTable` and `VfControl`: the curve

A table is a function from the voltage of a bin to its clock. `base` is the static table, `gpu` what the card
holds (an offset per bin, voltage lock, clock cap, global offset), `job` the job under way, `last` how the last one ended,
`profile` what `gpu_applied.json` records, or that a manual point took its place.
A job is an Apply of an undervolt, a candidate, a command-line step, a manual-prior or simple probe (F2), or a legacy
ceiling or frontier probe, or a pass of the ceiling's validation (F1). Its actions: `PreReset`, `Lock`, `WritePoint` (one bin), `WriteDoesNotTake`, `WriteRefused`,
`CoreFallsBack`, `Cap`, `Verify`, `Dwell`, `Undo`, `Reset` and `Restart` between jobs, and
`VerifyAppliedCurve`, the status request: what it says of the recorded profile from the curve read back, and from the dwell its point was measured
with (`AppliedPoint`, `LoadVerdict`). `Results` is what `forge_state.json` may hold for that.

*Abstractions.* One job at a time, no boot flag (both elsewhere); the bins' index orders as their voltage; thermal
drift of the base left out; the driver reports when it refuses `set_core_offset`, and supports V/F curves; both halves of a
reset failing together left out. In small tables the 90 % rule of a verified plateau asks for all bins.

### 2.9 `FrontierScan`, `LadderSweep`, `F2CommandLine`

`FrontierScan` is `build-frontier`: `limits` (the options), `scan` (phase, clock), `cur` (the descent), `prev`
(bracket of the harder clock), `points`, `used`, `abort`, `flag`, `ceiling`, and `runs`, the loads so far. `LadderSweep` is
`--ladder-sweep`: `ladder`, `rung`, `obs`, `held`, `loads`. `F2CommandLine` runs one of them per process.

*Abstractions.* Nothing passes `build-frontier` a stop flag; write and verify are one step with a verdict (`VfControl` opens
them); the clock measured at a plateau is free; arming does not fail; `UsefulPoints` and `TailBins` are 2 (code: 4 and 5). In
the ladder a candidate is one step, the precheck may refuse any of them, `start_mv` is not given.

## 3. What the runs check

Requests, faults, jobs and timers are bounded, so every run says `CHECK_DEADLOCK FALSE`: the model stops when the
budget is spent and nothing is under way. Every bound is a constant, named in the `.cfg`.

| run | instance | properties |
|---|---|---|
| `daily` | `SafeLoop`, one pair; 6 faults, 2 requests, 1 timer; threshold 2 | `TypeOK`, `NoReapplyAfterCrash`, `CrashLoopBound`, `AppliedProfileKept`, `WedgedProfileStaysOff` |
| `forge` | `SafeLoop`, two pairs; 2/3/1; threshold 2 | `SafeModeIffThreshold`, `InterruptedForgeAwaitsAck`, `CrashedCandidateNeverRearmed` |
| `sentinel` | three bins; 2/3/1; bumps 2 and 1, budget 1 | `OneRecoveryOwner`, `LadderEnds`, `CursorPassesOnlyCondemned`, `ClosedUntilReboot` |
| `workers_lab` | 2 threads; memory sweep, Forge, lab; 2 grants, 1 reset, 1 panic, 1 fault | `ResetReturnsToStock`, `LeaseReturned` |
| `workers_packages` | 2 threads; validation, core and memory sweep, Forge-all, benchmark; 2 grants, 1 panic, 1 fault | `GrantedOnlyWhenFree`, `SweepEndsAtStock`, `PackageWasSoaked` |
| `search` | plan of four bins, one above for the climb; no fault | `NoRehammering`, `BoundaryIsTight`, `SearchEnds` |
| `search_faults` | plan of two bins; 2 sessions, 1 failing access, 1 stop, 1 reboot | `RejectionOutlivesOptimism`, `FailureIsRemembered`, `SustainableStandsAboveFailures`, `WritesAreGuarded` |
| `step_jobs` | two bins, one pair; 2 jobs, 2 runs, 1 fault, 1 stop, 1 reboot | `QualifiedPaidItsDebt`, `QualifiedIsOnRecord`, `LossLeavesATrace`, `JobsEnd` |
| `forge_run` | 3 clocks, 3 bins; 2 sessions; 1 stop, failure, fault, restart, 2 in all | `PublishedIsProven`, `EfficientDrawsLess`, `InterruptedStaysLocked`, `SessionEnds` |
| `forge_stale` | the same | `QualifiedOnlyByThisRun`, refuted |
| `vf_control` | 3 core bins, one lone, one foreign; two tables, two targets; 2 jobs, 2 faults | `AppliedIsThePlan`, `ConfirmedErrorIsStock`, `NeverOverclocks`, `VerifiedCeilingHolds` |
| `f2_commands` | 3 clocks, 5 bins, 8 sets of options, 3 ladders, 2 histories; 1 kill, 1 lost line | `LoadsAreSupported`, `LadderStartIsKnown`, `LossEndsAllProbing`, `CommandEnds` |

### 3.1 Why the bounds are enough

* *Safe Loop.* The code's threshold is 3. The runs use 2, which shortens the way to Safe Mode and leaves faults to happen
  after it; the theorems hold for every threshold. Six faults crash at the threshold and interrupt the starts in
  between. One or two candidates at one clock are what the properties tell apart: the same point, and a neighbour below it.
* *Sentinel.* As many bins above the lowest as one bump may climb, a budget small enough to be exhausted (1; the code
  has 2), bump sizes that differ between the layers (2 and 1; the code has 3 and 2). The same run with one more fault also
  passes (7.2 million states) and is too slow to repeat routinely.
* *Workers.* Two threads are the smallest number with an overlap, a reset under a worker, and a start in a gap. The kinds are
  split over two runs because no kind looks at another except through the lease.
* *Descent.* Four bins are the shortest plan with a jump, a bracket with a bin inside it, and a bisection. With faults, two: every
  candidate's transaction is the same, and two suffice to have a failed one above or below another.
* *Step jobs.* Two jobs let a gate follow a calibration or another gate of the same pair, in the same run or the next.
* *Forge run.* Three clocks are the least that give three different profiles and one left over to fall back to. Not reached
  there: the frontier cut by the 90 % floor, an exclusion by dominance before a gate, a stop or refusal just at the start of a
  backfill, a refused start of a gate or repair. Four clocks would reach the first two and take too long to check.
* *Descent's start.* Boundaries with a trend and boundaries that contradict each other are the two outcomes of the prediction; the first starts low
  and falls back, the second takes the start proposed.
* *Curve.* The lone and the foreign bin are what the cluster rules sort out. A steep and a flat table decide whether a plateau
  reaches above the anchor; dips of 30 MHz are an idle card's live reading. Two jobs, so that the second finds what the first left.

### 3.2 Liveness and fairness

Each liveness property assumes that the one thread doing the work goes on: `WF` of `Search`, `Work`,
`Worker(t)` per thread and `Handler`, `CommandWorks`, and `WorkerStep` (in `ForgeRun`, `WorkerRuns` is `WF` with its
`ENABLED` written out, `w.pc # "idle"`, which TLC evaluates faster). The code justifies it: these are ordinary threads and every
dwell, settle or wait in them has a time limit. No operator, fault or timer is assumed to happen. Weak fairness is
enough, because what a worker may do next is not disabled by others. `LeaseReturned` excepts a panic: a worker that panics may
never publish its end.

### 3.3 Refinement

`WritesAreGuarded == Guard!GuardSpec` in `ClockDescent`: a whole search, with every failing access, panic and reboot, is a behaviour
of that specification. It is the promise the other modules build on: `SafeLoop` and `ForgeRun` take a
candidate as armed before written and cleared only at stock. `StepsAreGuarded` states the same of `StepJobs`, over the same motor.
The first is checked on a small instance, both are proved for every instance (4.3).

### 3.4 Exceptions the properties state

Every property of a passing run is broken by a plausible bug of the code listed under `mutants`.

* `CursorPassesOnlyCondemned` speaks of a settled undervolt (no survival window, no apply under way, no
  recent episode, a known cursor, a watcher that is not between a recovery and the end of its cooldown) and excepts episodes the canary claimed or during which the operator sent a request.
  `handle_failure` reads `gpu_applied.json` (`load_applied`) before it claims the episode: a watcher caught between the two condemns the point it has read and moves the cursor to
  the newest event when its cooldown ends, so a reset in that gap that hits a profile applied meanwhile is not counted.
* `ClosedUntilReboot` speaks of what begins: a job that had passed the latch goes on, and the sentinel's own fallback is meant to be written.
* `ResetReturnsToStock` leaves out Forge-all and the benchmark: stopped, they re-apply a profile. `SweepEndsAtStock` and
  `GrantedOnlyWhenFree` except the two overlaps of 2.3.
* `EfficientDrawsLess` compares with Godforge only while Godforge sustains at least the clock of the profile compared: it is
  kept after a fast drop whatever else was approved.
* `LadderStartIsKnown` excepts a line of the log that could not be written.
* `VerifiedCeilingHolds` speaks of a driver that takes every write.

Some invariants are stated in the modules and left out of the runs, being implied or cheap to break elsewhere: the type
invariants `STypeOK`, `SearchTypeOK`, `StepTypeOK`, `WTypeOK`; `NeverBelowFailure`, `CleanEndIsStock`,
`StepsAreGuarded`, `NoLoadAfterFailure`, `PausedIsAtStock`, `ManualStatusTruthful`, `BudgetHolds`. They hold in the instances above.
`AppliedWindowGuarded` holds with one survival timer at a time. `CandidateGuarded` excepts a reset request or service stop that
took the GPU from the live worker: it clears the flag between the worker's arming and its write.

### 3.5 Where the code departs from what the repository says

`forge_stale` is a run of its own: a re-verification carries over the profiles of the last run, and when it ends with points
but no publishable trio, `f2_profiles_meet_qualification` approves the carried profiles again, though "fail closed until
this run finishes a complete qualification" (`gpu_power_sweep.rs` 7558). A paused or interrupted session can end that way.

These statements are definitions of the modules that the code does not satisfy; each was refuted in an instance with the requests it
needs.

| definition | statement | what happens |
|---|---|---|
| `AppliedProfileKept`, with `stop` in the menu | the profile is re-applied on every boot (`gpu_apply.rs` 1, `docs/gpu-forge.md` 231) | an orderly stop of the service, so every orderly reboot, resets the card through `manual_point.reset`, active or not (`service_impl.rs` 89), and that path ends in `clear_applied` |
| `AppliedWindowGuarded`, two timers | a crash in the survival window leaves the flag armed | an earlier apply's timer clears it |
| `CrashedCandidateInLedger` | a machine crash with a candidate armed is rigid evidence | it goes to the record only; a reset wipes it |
| `CondemnedProfileNotReapplied` | every hardware-write preflight consults record and ledger | apply-on-boot consults neither |
| `CoreRouteKept`, `UndervoltKeepsItsRoute` | an undervolt never goes through the ceiling writer | a memory apply, the benchmark's restore send it there |
| `BugcheckedProfileStaysOff` | an interrupted reconciliation stays pending | a newer, unrelated bugcheck hides it |
| `WatcherLeavesForgeAlone` | the sentinel never resets while a Forge run owns the GPU (`tdr_sentinel.rs` 635, `gpu_power_sweep.rs` 1046) | the watcher latches (634), looks at `FORGE_ACTIVE` (638) and acts (651); a request that had passed the latch (`ipc_server.rs` 159) becomes active after the look (`gpu_power_sweep.rs` 1049). Refuted in the instance of `sentinel`. What comes after the latch is refused: `ClosedUntilReboot` |
| `CanaryLeavesForgeAlone` | nor does the canary act then (`tdr_sentinel.rs` 682) | it looks before its check of 700 ms and not again. Refuted in the same instance |
| `CursorWaitsForRecovery` | the cursor is saved only after persistence and recovery | a layer that skips the other's episode saves it at once |
| `DeviceLossSurvivesFinalReset`, `LossSurvivesFinalReset` | a device loss survives the outer reset (`gpu_undervolt.rs` 4428, 4459) | when the lost candidate's line cannot be written, the abort does not ask to keep the flag and the outer reset removes it; the blacklist keeps the trace (`LossLeavesATrace`) |
| `InconclusiveDoesNotSeed` | an inconclusive anchor does not seed the next clock's start | the conservative start is picked from all validated anchors, inconclusive ones included |
| `RejectionOutlivesOptimism`, `TornWrites` | a rejected candidate never leaves only its optimistic line | a torn rejection line is skipped by the reader |
| `SweepReachesFrontier` | a sweep's re-validations raise the frontier's confidence | the frontier counts a point only with a confirmed p99, which a sweep does not wait for |
| `ForgeActiveWhileLive` | `FORGE_ACTIVE` is true while a Forge worker owns the GPU | a second worker started while a first unwinds is left inactive |
| `AppliedCeilingHolds` | after a ceiling is applied no bin above exceeds it | its offsets come from the live curve: re-applied over itself, it is erased |
| `FailedBinRests` | every probe of phase A at the focus clock was stable | phase B can start at the bin where that clock failed |
| `FinishedAtStock` | `build-frontier` ends at stock | the result of its last reset is dropped |

Met while modelling, without a definition of its own:

* *Forge.* A partial run erases the profiles of the run before it (`gpu_power_sweep.rs` 8476–8493, 9367). A TDR handed over followed by a
  user's stop ends `paused`, one without a retained flag `incomplete`. A quarantine at a lower clock can refuse a pair
  already approved at a higher one, and publication does not look at the ledger again. A profile may be approved although it is excluded
  or above the cap by dominance. A calibration aborted during a fast drop is not terminal where one during a repair is. A start while a
  reset worker unwinds sets its `stop` back to false (1041) and undoes the abort (836). `effective_condemnation_events`
  compares the GPU exactly, `condemned_pairs` conservatively. Early exits are not saved.
* *Curve.* A ceiling whose write fails midway leaves a partly flattened curve (`gpu_apply.rs` 165); an idle card's reading under-caps
  (`gpu-nvapi/src/lib.rs` 739–746); an F1 apply resets neither voltage lock nor clock cap; a failing reset before an undervolt
  returns an error with part of the old profile in place, against 4276–4279; a confirmed reset looks at neither cap nor
  global offset; `classify_curve` accepts any offset.
* *Command line.* A single step, and the first candidate of a sweep, start on the card as it is; a failed `arm_boot_flag` before an F1
  probe is ignored (6242); the ladder's prior is not scoped to the GPU; a clock without candidates ends the whole ladder; a
  non-crash dwell leaves its ceiling on the card and clears the flag. `target_sweep_learning_horizon` is documented and unused, and so
  are the stop flag of `measure_multiclock_forge`, `run_power_sweep`, `arduous_validate` and `select_brokkrs_v2`.
* *Sentinel and incidents.* An incident is recorded once per run (`record_forge_incident`, `safe_loop.rs` 335). If the operator acknowledges the
  one of a handed-over TDR while the run is still unwinding, and the machine or the service then dies, the next start records nothing for it, and apply-on-boot goes ahead:
  composed with the live watcher, `InterruptedForgeAwaitsAck` is false, which is why it is a statement about `SafeLoop` alone.
* *Safe Loop.* Nothing but a reset ends a crash streak (`mark_validated` has no production caller); a start on the same
  boot releases the locks but not a manual curve; the first TDR a machine ever logs has no cursor to be new against; one comment of
  `spawn` promises "one automatic bump per service session" where the constant allows two.

## 4. What is proved

A theorem speaks of every value of the constants its assumptions allow. The assumptions say of which kind a constant is (a set of
pairs with natural clocks and voltages, a plan in descending order, a "nothing" that is not also a proper value) and nothing
about its size; each is checked by TLC in the runs of its module. Where a theorem needs more, it says so after `ASSUME`.

### 4.1 The service (`SentinelProofs`, first part)

| theorem | property |
|---|---|
| `TypeCorrect` | `TypeOK` |
| `SafeModeLatched` | `SafeModeIffThreshold` |
| `CrashedBootReappliesNothing` | `NoReapplyAfterCrash` |
| `BootLoopEnds` | `CrashLoopBound` |
| `LastApplyIsKept` | `AppliedProfileKept`, if `"stop" \notin OperatorMenu` |
| `WedgedStaysOff` | `WedgedProfileStaysOff` |
| `InterruptedForgeBlocks` | `InterruptedForgeAwaitsAck` |
| `CrashedCandidateStaysOff` | `CrashedCandidateNeverRearmed` |

*The argument.* None of these but the type is inductive alone; `IInv` is the conjunction that is
(`Invariance`). `ShapeOK` says which variables are at rest in which phase of the process (no job while the
service is down, a boot job only at `reapply`, a checkpoint present while it is being reconciled).
`GuardOK` is the heart of `NoReapplyAfterCrash`: from a start that found the flag armed until apply-on-boot has
looked at it, either the marker has not been consumed yet or the flag is still armed. It fails for a
recovery that disarms the flag once the crash is accounted. `BudgetOK` ties the observer to the record: the
crashes inside a boot-written survival window are at most the streak on record, plus one while the
newest of them has not been accounted (`CrashUncounted`), and then the record is not in Safe Mode. With
`SafeModeIffThreshold` the bound follows. The proof has one lemma per conjunct (`ShapeNext`, `GuardNext`,
`RecordNext`, `BudgetNext`) and one step per action; facts about the record operations are stated once as
lemmas.

Four more invariants stand on `IInv`, one per promise, each about what two files say of one another:

* `KeptOK`: the stored core point is the one of the last successful apply at every moment, not only at a start, and a job without a
  core point carries the stored one. An orderly stop breaks it (3.5), which is why the theorem excludes the stop.
* `WedgedOK`: an undervolt that a driver reset condemned has been put away - it is in the ledger and is not the stored profile - or the event is
  still pending, newer than the cursor, with the start not past the sentinel's step. A start that moves the cursor first falsifies it.
* `ForgeRunsOK`: runs are numbered and have an incident on record at most once; a checkpoint that says "running" belongs to the
  live worker or has no incident yet; an interrupted run is pending on record or is about to be found by the next start.
* `CrashedOK`: a candidate the machine crashed on is blacklisted, or the flag with its intent is still armed and the start has not
  accounted for it.

### 4.2 The sentinel (`SentinelProofs`, second part)

| theorem | property |
|---|---|
| `RecoveryIsExclusive` | `OneRecoveryOwner`, if `"reset_full" \notin OperatorMenu` |
| `LadderIsBounded` | `LadderEnds`, if `"reset_full" \notin OperatorMenu` |
| `CondemnedBehindCursor` | `CursorPassesOnlyCondemned`, if `"reset_full" \notin OperatorMenu` |
| `ClosedAfterReset` | `ClosedUntilReboot` |
| `SentinelTypeCorrect` | `STypeOK`, which no run lists |

A full reset zeroes the episode stamp (`reset_sentinel_state`) and with it the claim of a recovery under way, so the first three exclude it.

*The ladder* (`LadderInvariance`). `OneRecoveryOwner` follows from `ClaimOK`: a layer in its recovery
is the one in `recent`; only `Claim` writes a layer there, and only when it was free. `LadderEnds` needs more,
because each layer reads the budget *before* it claims: `BudgetSeen` says that a layer on its way to the claim has
seen every bump made, or the window is taken and it will lose; that the bumps counted are the writes made; and
that a layer heading for a fallback read a budget not yet spent. A bump by one layer thus never
invalidates the budget of the other. `LayersOK` is the shape of the two records, all the proof needs of the data.
What the service does in between is left open, except that it never moves a thread (`ServiceKeepsLadder`).

*The event cursor* (`AnswerInv`). Every driver reset that must be answered and that the canary has not claimed either waits or is settled. It is `Waiting`
while its point is applied and the cursor is behind it: in a running service, with the window free, no flag armed and the watcher before its claim, or with the watcher
that claimed it; or the process has ended and the next start has not come to its demotion. It is `Settled` when the point is in the ledger and
whatever is applied, or is the fallback the watcher holds, is a higher bin of the same clock. Where the watcher is matters twice: one at `commit` or `cooldown` would move the
cursor over the new event, and one already at `claim` answers for the profile it has read, which is why a reset falling there binds it only if that is still the
applied one (3.4). That a fallback is higher is `BinAboveExists`: the bins above a point are ranked without a gap, so the n-th of them, or the
highest, exists - an injection of a finite set into as many numbers is onto. `SentinelShape` carries the domains and what a layer holds at each step.
Neither the number of timers nor the requests offered are bounded.

*Closed until Windows reboots* (`ClosedInv`). Whatever the program counter is at between the guard and the pipe, a reset of this Windows boot is
either latched, or the watcher of the running service has still to poll it; every way into a job tests the latch. A new process
starts with the latch clear and reads it back from the event log before apply-on-boot and before the pipe opens, which is the step the mutant forgets. Nothing is
assumed of the operator. The latch does not keep the watcher off a Forge run that had passed it (3.5).

### 4.3 The motor and its callers (`CandidateMotorProofs`, `ClockDescentProofs`, `StepJobsProofs`)

| theorem | property |
|---|---|
| `SearchIsGuarded` | `WritesAreGuarded`: `ClockDescent` implements `GuardedWrite` |
| `EveryStepIsGuarded` | `StepsAreGuarded`: `StepJobs` implements `GuardedWrite` |
| `FailureSurvivesOneFault` | `FailureIsRemembered`, if `MaxFaults <= 1` |
| `LossSurvivesOneFault` | `LossLeavesATrace`, if `MaxFaults <= 1` |
| `GatePaysItsDebt` | `QualifiedPaidItsDebt` |
| `QualifiedIsPublishable` | `QualifiedIsOnRecord`, if `PassesAreMeasured` |
| `RejectionIsFirst` | `RejectionOutlivesOptimism`, if `~ TornWrites` |
| `SustainableIsAboveFailures` | `SustainableStandsAboveFailures` |

*Refinement.* `MotorGuarded` is the motor's half of the invariant: a curve is off stock only under a flag, an armed intent is the motor's
candidate from the write to the last disarm, and a reset that was confirmed left stock behind. `CandidateMotorProofs` shows that every
step of the motor keeps it and is a step of `GuardedWrite` or a stutter. The callers add when the motor may move (`SyncOK`, `OneReport`), so
that their own steps - a dwell, a panic, the outer reset, a reboot - are guarded too.

*Memory.* `MaxFaults <= 1` is the statement, not a convenience: with two failing accesses, a blacklist write and the reset or
the removal of the flag behind it, the code does forget. The invariants (`CallMemory`, `LossKept`) say where the trace is at every
moment: in the reports of the motor, on the blacklist, in a line - or the one failing access is spent, the flag is
armed, and the call is on a path that retains it (`Retaining`, `Awaiting`).

*Debt.* `GateInv` ties the counters of the gate to what its dwells were: a retry counted for an inconclusive dwell is repaid only by a pass
after it.

*Record* (`RecordInv`). A gate goes on from a pass only when the line of the pass is in the log (`GateLines`), and what the log holds of
passes has positive readings below some bound, so its highest is one of them (`LinesOK`, `LinesPublish`). `PassesAreMeasured` says that a
dwell that passes has a power and a clock above zero: a dwell without a sample is inconclusive, and a sample is taken only
when the driver answered both (`load_and_measure_for`, `qualification_coverage_from_run`). Where a driver reports 0 W all along,
`sustained_power_percentile` finds no p99, the gate still passes, and the publication refuses the pair.

*Order* (`OrderInv`). The reports of a candidate are dwells of discovery, then the heavy load, and a rejection is the last of them; so the
queue that is written starts with the lines of the qualification, up to and including the rejection. No bound on the
faults is needed: a write that fails stops the queue, and what it leaves behind is a prefix. A torn line does break it - the reader
skips the line glued to it - which is why the theorem excludes that fault.

*Evidence* (`EvidenceInv`). At every moment of a descent the candidates still to come lie above every pair the run saw fail and below
every pair it qualified (`Standing`, with `Limit` for the index of the failure the call knows below it); the one candidate in the middle of its
lines is the exception, and for it `Recorded` says that it has not both. That the two never meet in one candidate starts with the dwells:
dwells that agree on a p99 leave no failure behind once they are marked, a pass is only sought from there (`Reported`, `AnalyseIs`,
`Consented`), and after a cleanup that failed only one line is written. `JudgeStands` shows that each way out of a candidate - jump, bisection,
local descent - keeps to that order. Between calls, a rejected call has no pass, so a retry may start higher; a resume closes at the first
failure it finds unless nothing is known to be good, and then there is no pass to go back above: that is what `Grounded` is for, a pass
never stands in the log of a run that can go on without the discovery it rests on. A torn line can lose that discovery, but only in a crash, after
which no run is resumed (`Sane`). The theorem needs that a dwell that is called a clock drop has a measured power
(`DwellsAssumption`): `classify_f2_stress_dwell` calls it inconclusive before it looks at the clock, and `sustained_power_percentile` keeps
positive samples only. A drop without one would not be counted among the dwells to agree, and a pass could follow it.

### 4.4 Forge sessions (`ForgeRunProofs`)

`BrokenRunIsLocked` states `InterruptedStaysLocked`. `LockInv`: as long as nothing of a new frontier has been powered, nothing
is qualified, neither in memory nor in `forge_state.json`, and the worker is not past that point. The lock is
about both copies because a restart reads one and a pause writes the other.

### 4.5 The curve (`VfControlProofs`)

| theorem | property |
|---|---|
| `SuccessIsThePlan` | `AppliedIsThePlan` |
| `ConfirmedIsStock` | `ConfirmedErrorIsStock` |
| `NoOverclock` | `NeverOverclocks` |
| `CeilingHolds` | `VerifiedCeilingHolds` |

for every set of tables, targets and dips and any number of failing writes (`CeilingHolds`: none, as the property says). `VfOK` has one part per kind of job:
`CardOK` (an Apply or a candidate writes a card that was stock, with a plan that raises no bin above the larger of its stock clock and the
target), `ApplyOK` (rail locked before the first bin, clock capped only after the table was read back), `ProbeOK` (a probe
no call has failed has on the card what its plan says of the bins it is done with). The planners themselves are lemmas: what a plan
of `VfTable` raises, and by how much.

### 4.6 The command line (`F2CommandLineProofs`)

| theorem | property |
|---|---|
| `NoLoadIsALeap` | `LoadsAreSupported` |
| `LossIsTheEnd` | `LossEndsAllProbing` |
| `LadderStartsWhereItHeld` | `LadderStartIsKnown` |

for every list of clocks and bins, all options, every log found on disk and every ladder. In `ScanInv`, a descent knows what has carried its clock
(`DescentOK`), hands that on to the next clock (`PrevOK`), and every point kept for the second phase was carried (`PointsOK`).
In `LadderInv`, what a clock has loaded is in its reports until it is in the log (`LoadsOnRecord`), and between two clocks the ladder
knows what the log says of the one before (`BetweenClocks`).

### 4.7 The workers (`GpuWorkersProofs`)

| theorem | property |
|---|---|
| `ResetWins` | `ResetReturnsToStock` |
| `GrantsOnlyWhenFree` | `GrantedOnlyWhenFree` |
| `SweepsEndAtStock` | `SweepEndsAtStock` |
| `PackageIsSoaked` | `PackageWasSoaked` |

for any number of threads, every range of offsets and voltages and every budget of grants, resets, panics and failing calls. All four
stand on one invariant (`LeaseIsKept`), `WorkersInv`:

* `LeaseOK`: at most one worker of a kind is alive (but for Forge's handle, which a reset forces open), its `run` cell is set, and
  whoever uses the GPU is published. A worker that was never overlapped is alone: nothing else is published, no manual point is active, nobody
  else is alive, and no reset is half-way. The start gap and the emergency reset are the two ways out of that, which is what `shared` remembers.
* `SweepFlagOK`: a boot flag of a sweep belongs to a sweep past its first test that is still published, or to one that panicked there. It is
  why a sweep that gives up in its first test need not look at the flag.
* `PackageOK`: what Forge-all is about to apply is what it soaked, unless the soak failed and it applies no offset.
* `ResetOK`: after a reset that was the last request every worker is asked to stop, and whatever is not at stock is the work of a thread
  that has its own reset before it (`Restores`, `Sweeps`). This is the reason the emergency reset works at all beside workers it does not wait for:
  each of them polls `stop` before it writes anything it would not take back.

The proof summarises each of some sixty statements of the workers once (`Effects`: to the lease, the flag, the package, and the GPU of a worker that is to
stop), and shows the invariant for the summary.

### 4.8 Only model-checked

* Liveness: `SearchEnds`, `JobsEnd`, `SessionEnds`, `LeaseReturned`, `CommandEnds`. Weak fairness is stated with `ENABLED`, which the installed provers do not handle.
* `NoRehammering`, `BoundaryIsTight`: what a search concludes from its whole log; their
  invariants need, beside `EvidenceInv`, which inconclusive pairs the log excludes. `BoundaryIsTight` is a statement about the calls of one session: a resume
  that finds a known good and a known bad closes the bracket as it stands.
* `PublishedIsProven`, `EfficientDrawsLess`: they rest on the choice of three profiles out of a sequence by `SelectSeq` and `SortSeq`, which
  are defined by recursion.

## 5. Not modelled

Sensors, hardware detection, driver FFI, stress kernels, wire types and the UI: I/O and decoding whose results are the
free inputs of the modules above. Game trace: it records, and writes no tuning state. The statistics that turn samples
into an outcome, the convergence of the preheat, ETA, reports and texts. Torn writes of `safe_loop.json` itself, and the
record's load-modify-save cut open between threads.

## 6. Plan

1. `PublishedIsProven`: state the pools of `ProfileSynthesis` as sets of indexes instead of filtered sequences, prove that every chosen
   profile is a member of its pool, then that the queue of gates, the repairs and the publication keep to what was proved.
2. `NoRehammering`, from `EvidenceInv` and the same for inconclusive pairs.
