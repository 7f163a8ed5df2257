------------------------------ MODULE Sentinel ------------------------------
(***************************************************************************)
(* The live TDR sentinel (crates/service/src/tdr_sentinel.rs) on top of    *)
(* the service of module SafeLoop: two threads that act on the GPU outside *)
(* the service mutex and outside the lease.  The watcher polls the event   *)
(* log for driver resets; the canary runs a short self-check of the        *)
(* applied undervolt.  Either one, on a failure, condemns the applied      *)
(* point, resets the GPU and re-applies the profile some voltage bins      *)
(* higher, a bounded number of times per service session.                  *)
(*                                                                         *)
(* The event log carries its TDR events as numbers.  `recent' is the       *)
(* 90 s window of the cross-layer episode, kept as the layer that opened   *)
(* it; a recovery (seconds) and the watcher's cooldown after its own       *)
(* recovery (60 s) are shorter than the window.  The driver resets while   *)
(* the service is up and not in its start sequence (a few seconds).        *)
(***************************************************************************)
EXTENDS SafeLoop

CONSTANTS
    SENTINEL_TDR_BUMP_BINS,         \* bins up after a TDR (3 in the code)
    SENTINEL_SILENT_BUMP_BINS,      \* bins up after a failed canary (2)
    SENTINEL_MAX_BUMPS_PER_SESSION  \* automatic bumps per session (2)

ASSUME LadderAssumption ==
    /\ SENTINEL_TDR_BUMP_BINS \in Nat \ {0}
    /\ SENTINEL_SILENT_BUMP_BINS \in Nat \ {0}
    /\ SENTINEL_MAX_BUMPS_PER_SESSION \in Nat

(* The offset of a point follows from its clock and its bin.               *)
ASSUME BinsAssumption ==
    \A p, q \in Pairs : p.mhz = q.mhz /\ p.mv = q.mv => p = q

(* A card has finitely many V/F points.                                    *)
ASSUME PlaneAssumption == IsFiniteSet(Pairs)

VARIABLES
    layer,   \* the two threads: where they are and what they hold
    cursor,  \* the watcher's last_handled event
    bumps,   \* bumps_this_session, shared by both layers
    recent,  \* LAST_ACTION_EPOCH_S: the layer that acted in the last 90 s
    seen     \* what happened (observer, read by properties only)

sentinelVars == <<layer, cursor, bumps, recent, seen>>

svars == <<vars, sentinelVars>>

Layers == {"watcher", "canary"}

RecoverySteps == {"record", "ledger", "reset", "arm", "write", "save"}

IdleLayer == [step |-> "poll", event |-> 0, n |-> 0, pair |-> Stock, to |-> Stock]

Unowed == [owed |-> {}, writes |-> 0]

SInit ==
    /\ Init
    /\ layer = [l \in Layers |-> IdleLayer]
    /\ cursor = 0
    /\ bumps = 0
    /\ recent = "none"
    /\ seen = Unowed

-----------------------------------------------------------------------------
(* The service's own steps.  The threads are spawned with the newest event *)
(* as handled when the start sequence is over, and die with the process.   *)

Spawned == pc # "ready" /\ pc' = "ready"

(* reset_sentinel_state also forgets the episode.                          *)
EpisodeForgotten == ResetGpuTuningFull /\ applied' = NoProfile /\ hw' = StockHw

Threads ==
    /\ layer' = IF pc' = "off" THEN [l \in Layers |-> IdleLayer] ELSE layer
    /\ cursor' = IF pc' = "off" THEN 0 ELSE IF Spawned THEN log.tdr ELSE cursor
    /\ bumps' = IF pc' = "off" THEN 0 ELSE bumps
    /\ recent' = IF pc' = "off" \/ EpisodeForgotten THEN "none" ELSE recent
    /\ seen' = [owed   |-> IF used'.ops # used.ops THEN {} ELSE seen.owed,
                writes |-> IF pc' = "off" THEN 0 ELSE seen.writes]

ServiceStep == Next /\ Threads

-----------------------------------------------------------------------------
(* The environment.                                                        *)

Alive == pc \in {"ready", "stopping"}

Undervolted == applied # NoProfile /\ applied.kind = "F2"

(* The watcher will have to answer this event: a settled undervolt (no     *)
(* survival window, no apply under way), no recent action, a known cursor. *)
(* A watcher about to claim has read gpu_applied.json already: it answers  *)
(* for the point it has read.                                              *)
Answerable ==
    /\ Undervolted /\ ~ Armed /\ job = NoJob
    /\ recent = "none"
    /\ baseline # NoBaseline
    /\ forge.step = "idle"
    /\ layer["watcher"].step \notin {"commit", "cooldown"}
    /\ layer["watcher"].step = "claim" => layer["watcher"].pair = applied.pair

(* The driver resets the GPU under the running service.                    *)
DriverReset ==
    /\ pc = "ready" /\ hw.curve # Stock
    /\ Fault
    /\ log' = [log EXCEPT !.tdr = @ + 1, !.thisBoot = TRUE]
    /\ hw' = StockHw
    /\ seen' = IF Answerable
               THEN [seen EXCEPT !.owed = @ \cup {[event |-> log.tdr + 1, raced |-> FALSE,
                                                  pair |-> applied.pair]}]
               ELSE seen
    /\ UNCHANGED <<flag, record, clean, applied, checkpoint, ledger, baseline,
                   pc, latch, job, timers, manual, prog, forge, hist,
                   layer, cursor, bumps, recent>>

(* The 90 s window closes; no layer takes that long between its check of   *)
(* the window and the end of its recovery.                                 *)
EpisodeOver ==
    /\ recent # "none"
    /\ \A l \in Layers : layer[l].step \notin RecoverySteps \cup {"decide", "claim"}
    /\ ~ (recent = "watcher" /\ layer["watcher"].step \in {"commit", "cooldown"})
    /\ recent' = "none"
    /\ UNCHANGED <<vars, layer, cursor, bumps, seen>>

-----------------------------------------------------------------------------
(* What starts a recovery.                                                 *)

Go(l, step) == layer' = [layer EXCEPT ![l].step = step]

(* Variant: the cursor is saved as soon as the event is seen.              *)
WatcherPoll_CursorFirst ==
    /\ Alive
    /\ layer["watcher"].step = "poll"
    /\ log.tdr > 0 /\ log.tdr # cursor
    /\ latch' = TRUE
    /\ baseline' = log.tdr
    /\ layer' = [layer EXCEPT !["watcher"] = [@ EXCEPT !.step = "event", !.event = log.tdr]]
    /\ UNCHANGED <<flag, record, clean, applied, checkpoint, ledger, log, hw,
                   pc, job, timers, manual, prog, forge, hist, used,
                   cursor, bumps, recent, seen>>

(* A new event: the GPU is closed until the next reboot.                   *)
WatcherPoll ==
    /\ Alive
    /\ layer["watcher"].step = "poll"
    /\ log.tdr > 0 /\ log.tdr # cursor
    /\ latch' = TRUE
    /\ layer' = [layer EXCEPT !["watcher"] = [@ EXCEPT !.step = "event", !.event = log.tdr]]
    /\ UNCHANGED <<flag, record, clean, applied, checkpoint, ledger, baseline, log, hw,
                   pc, job, timers, manual, prog, forge, hist, used,
                   cursor, bumps, recent, seen>>

WatcherHandles ==
    /\ Alive
    /\ layer["watcher"].step = "event" /\ forge.step = "idle"
    /\ layer' = [layer EXCEPT !["watcher"] = [@ EXCEPT !.step = "decide", !.n = bumps]]
    /\ UNCHANGED <<vars, cursor, bumps, recent, seen>>

(* record_active_forge_tdr: the run is told to stop and an armed candidate *)
(* is condemned ...                                                        *)
WatcherHandsOff ==
    /\ Alive
    /\ layer["watcher"].step = "event" /\ forge.step # "idle"
    /\ forge' = [forge EXCEPT !.stop = "abort"]
    /\ LET candidate == IF Armed /\ flag.phase = SUPERVISED_F2_FORGE_PHASE
                        THEN forge.cand ELSE Stock
       IN  /\ layer' = [layer EXCEPT !["watcher"] =
                            [@ EXCEPT !.step = "handoff", !.pair = candidate]]
           /\ ledger' = IF candidate = Stock THEN ledger ELSE ledger \cup {Pair2(candidate)}
    /\ UNCHANGED <<flag, record, clean, applied, checkpoint, baseline, log, hw,
                   pc, latch, job, timers, manual, prog, hist, used,
                   cursor, bumps, recent, seen>>

(* ... then the record is saved, blacklist and incident together, unless   *)
(* the run on disk already has an incident.  An unnamed run never has one. *)
WatcherHandoffRecord ==
    /\ Alive
    /\ layer["watcher"].step = "handoff"
    /\ LET candidate == layer["watcher"].pair
           run       == IF checkpoint = NoCheckpoint THEN 0 ELSE checkpoint.run
           marked    == IF candidate = Stock THEN record
                        ELSE Blacklist(record, F2Intent(candidate))
       IN  record' = IF run # 0 /\ run \in record.incidents THEN record
                     ELSE RecordForgeIncident([marked EXCEPT !.incidents = @ \ {0}],
                            IF candidate = Stock THEN "RuntimeFailure" ELSE "CandidateCrash",
                            run)
    /\ layer' = [layer EXCEPT !["watcher"] = [@ EXCEPT !.step = "handed", !.pair = Stock]]
    /\ UNCHANGED <<flag, clean, applied, checkpoint, ledger, baseline, log, hw,
                   pc, latch, job, timers, manual, prog, forge, hist, used,
                   cursor, bumps, recent, seen>>

(* The canary looks whether it may run ...                                 *)
CanaryStarts ==
    /\ Alive
    /\ layer["canary"].step = "poll"
    /\ Undervolted /\ ~ Armed /\ forge.step = "idle"
    /\ Go("canary", "check")
    /\ UNCHANGED <<vars, cursor, bumps, recent, seen>>

(* ... and has its verdict some 700 ms later.                              *)
CanaryVerdict ==
    /\ Alive
    /\ layer["canary"].step = "check"
    /\ \/ Go("canary", "poll")
       \/ layer' = [layer EXCEPT !["canary"] = [@ EXCEPT !.step = "decide", !.n = bumps]]
    /\ UNCHANGED <<vars, cursor, bumps, recent, seen>>

-----------------------------------------------------------------------------
(* handle_failure, by either layer.                                        *)

BumpBins(l) ==
    IF l = "watcher" THEN SENTINEL_TDR_BUMP_BINS ELSE SENTINEL_SILENT_BUMP_BINS

(* The n-th bin above a point at its own clock, or the highest one.        *)
BinAbove(p, n) ==
    LET above == {q \in Pairs : q.mhz = p.mhz /\ q.mv > p.mv}
        rank(q) == Cardinality({r \in above : r.mv <= q.mv})
    IN  IF above = {} THEN Stock
        ELSE CHOOSE q \in above : rank(q) = Min({n, Cardinality(above)})

(* Variant: the budget is checked one bump too late.                       *)
FallbackPoint_OneMore(l) ==
    IF layer[l].n > SENTINEL_MAX_BUMPS_PER_SESSION THEN Stock
    ELSE BinAbove(applied.pair, BumpBins(l))

(* sentinel_decide: where to go, Stock when the ladder is exhausted.       *)
FallbackPoint(l) ==
    IF layer[l].n >= SENTINEL_MAX_BUMPS_PER_SESSION THEN Stock
    ELSE BinAbove(applied.pair, BumpBins(l))

(* The layer is done: the watcher still owes its cursor.                   *)
DoneLayer(l) ==
    [layer EXCEPT ![l] = [IdleLayer EXCEPT
        !.step = IF l = "watcher" THEN "commit" ELSE "poll",
        !.event = layer[l].event]]

(* Skip an episode just handled; leave alone what is not an undervolt, and *)
(* what an armed flag already guards.                                      *)
Decide(l) ==
    /\ Alive
    /\ layer[l].step = "decide"
    /\ layer' = IF recent = "none" /\ Undervolted /\ ~ Armed
                THEN [layer EXCEPT ![l] = [@ EXCEPT !.step = "claim", !.pair = applied.pair,
                                                    !.to = FallbackPoint(l)]]
                ELSE DoneLayer(l)
    /\ UNCHANGED <<vars, cursor, bumps, recent, seen>>

(* Variant: an unconditional store.                                        *)
Claim_Store(l) ==
    /\ Alive
    /\ layer[l].step = "claim"
    /\ recent' = l
    /\ Go(l, "record")
    /\ seen' = IF l = "canary"
               THEN [seen EXCEPT !.owed = {[o EXCEPT !.raced = TRUE] : o \in @}] ELSE seen
    /\ UNCHANGED <<vars, cursor, bumps>>

(* claim_action_epoch: compare and exchange.                               *)
Claim(l) ==
    /\ Alive
    /\ layer[l].step = "claim"
    /\ IF recent = "none"
       THEN /\ recent' = l
            /\ Go(l, "record")
            /\ seen' = IF l = "canary"
                       THEN [seen EXCEPT !.owed = {[o EXCEPT !.raced = TRUE] : o \in @}]
                       ELSE seen
       ELSE /\ layer' = DoneLayer(l)
            /\ UNCHANGED <<recent, seen>>
    /\ UNCHANGED <<vars, cursor, bumps>>

(* persist_field_failure: the record, then the ledger.                     *)
PersistRecord(l) ==
    /\ Alive
    /\ layer[l].step = "record"
    /\ record' = [record EXCEPT !.blacklist = @ \cup {FieldIntent(layer[l].pair)}]
    /\ Go(l, "ledger")
    /\ UNCHANGED <<flag, clean, applied, checkpoint, ledger, baseline, log, hw,
                   pc, latch, job, timers, manual, prog, forge, hist, used,
                   cursor, bumps, recent, seen>>

PersistLedger(l) ==
    /\ Alive
    /\ layer[l].step = "ledger"
    /\ ledger' = ledger \cup {Pair2(layer[l].pair)}
    /\ Go(l, "reset")
    /\ UNCHANGED <<flag, record, clean, applied, checkpoint, baseline, log, hw,
                   pc, latch, job, timers, manual, prog, forge, hist, used,
                   cursor, bumps, recent, seen>>

(* gpu_apply::reset: stock, no profile, the recovery latch released.  If   *)
(* it fails, or the ladder is exhausted, the profile is dropped.           *)
ResetToStock(l) ==
    /\ Alive
    /\ layer[l].step = "reset"
    /\ \/ /\ hw' = StockHw
          /\ record' = ClearRecoveryLatch(record)
          /\ flag' = NoFlag
          /\ layer' = IF layer[l].to = Stock THEN DoneLayer(l)
                      ELSE [layer EXCEPT ![l].step = "arm"]
       \/ /\ layer' = DoneLayer(l)
          /\ UNCHANGED <<hw, record, flag>>
    /\ applied' = NoProfile
    /\ hist' = [hist EXCEPT !.kept = NoProfile]
    /\ UNCHANGED <<clean, checkpoint, ledger, baseline, log,
                   pc, latch, job, timers, manual, prog, forge, used,
                   cursor, bumps, recent, seen>>

(* apply_and_persist_undervolt at the fallback point.                      *)
FallbackArm(l) ==
    /\ Alive
    /\ layer[l].step = "arm"
    /\ timers < MaxTimers
    /\ Arm(ApplyIntent(layer[l].to), "gpu_apply_undervolt")
    /\ hist' = [hist EXCEPT !.armedBy = "sentinel"]
    /\ Go(l, "write")
    /\ UNCHANGED <<record, clean, applied, checkpoint, ledger, baseline, log, hw,
                   pc, latch, job, timers, manual, prog, forge, used,
                   cursor, bumps, recent, seen>>

FallbackWrite(l) ==
    /\ Alive
    /\ layer[l].step = "write"
    /\ \/ /\ hw' = [curve |-> layer[l].to, lock |-> TRUE]
          /\ Go(l, "save")
          /\ UNCHANGED <<applied, hist>>
       \/ /\ \E curve \in {hw.curve, Stock, layer[l].to} :
                 hw' = [curve |-> curve, lock |-> hw.lock /\ curve # Stock]
          /\ applied' = NoProfile
          /\ hist' = [hist EXCEPT !.kept = NoProfile]
          /\ layer' = DoneLayer(l)
    /\ UNCHANGED <<flag, record, clean, checkpoint, ledger, baseline, log,
                   pc, latch, job, timers, manual, prog, forge, used,
                   cursor, bumps, recent, seen>>

FallbackSave(l) ==
    /\ Alive
    /\ layer[l].step = "save"
    /\ applied' = [kind |-> "F2", pair |-> layer[l].to]
    /\ log' = [log EXCEPT !.inSession = FALSE]
    /\ timers' = timers + 1
    /\ bumps' = bumps + 1
    /\ hist' = [hist EXCEPT !.kept = applied']
    /\ seen' = [seen EXCEPT !.writes = @ + 1]
    /\ layer' = DoneLayer(l)
    /\ UNCHANGED <<flag, record, clean, checkpoint, ledger, baseline, hw,
                   pc, latch, job, manual, prog, forge, used, cursor, recent>>

-----------------------------------------------------------------------------
(* The event cursor.                                                       *)

(* Handed to Forge, the event is done; otherwise the watcher cools down.   *)
WatcherCommit ==
    /\ Alive
    /\ layer["watcher"].step \in {"commit", "handed"}
    /\ baseline' = layer["watcher"].event
    /\ cursor' = layer["watcher"].event
    /\ layer' = [layer EXCEPT !["watcher"] =
                    [IdleLayer EXCEPT !.step = IF layer["watcher"].step = "commit"
                                               THEN "cooldown" ELSE "poll"]]
    /\ UNCHANGED <<flag, record, clean, applied, checkpoint, ledger, log, hw,
                   pc, latch, job, timers, manual, prog, forge, hist, used,
                   bumps, recent, seen>>

(* After the cooldown the newest event is taken for residue of the episode.*)
WatcherCooldown ==
    /\ Alive
    /\ layer["watcher"].step = "cooldown"
    /\ baseline' = log.tdr
    /\ cursor' = log.tdr
    /\ layer' = [layer EXCEPT !["watcher"] = IdleLayer]
    /\ UNCHANGED <<flag, record, clean, applied, checkpoint, ledger, log, hw,
                   pc, latch, job, timers, manual, prog, forge, hist, used,
                   bumps, recent, seen>>

-----------------------------------------------------------------------------
Recover(l) ==
    \/ Decide(l) \/ Claim(l) \/ PersistRecord(l) \/ PersistLedger(l)
    \/ ResetToStock(l) \/ FallbackArm(l) \/ FallbackWrite(l) \/ FallbackSave(l)

Watch ==
    \/ WatcherPoll \/ WatcherHandles \/ WatcherHandsOff \/ WatcherHandoffRecord
    \/ WatcherCommit \/ WatcherCooldown
    \/ CanaryStarts \/ CanaryVerdict

SNext == ServiceStep \/ DriverReset \/ EpisodeOver \/ Watch \/ \E l \in Layers : Recover(l)

SSpec == SInit /\ [][SNext]_svars
-----------------------------------------------------------------------------
(* Properties.                                                             *)

SentinelLayer ==
    [step : RecoverySteps \cup {"poll", "event", "handoff", "handed", "check", "decide",
                                "claim", "commit", "cooldown"},
     event : Nat, n : Nat, pair : Point, to : Point]

STypeOK ==
    /\ TypeOK
    /\ layer \in [Layers -> SentinelLayer]
    /\ cursor \in Nat
    /\ bumps \in Nat
    /\ recent \in Layers \cup {"none"}
    /\ seen \in [owed : SUBSET [event : Nat, raced : BOOLEAN, pair : Point], writes : Nat]

(* The watcher and the canary never recover the GPU together, however they *)
(* come to the same failure (claim_action_epoch: "exactly one layer the    *)
(* recovery owner").                                                       *)
OneRecoveryOwner ==
    ~ \A l \in Layers : layer[l].step \in RecoverySteps

(* In one service session the sentinel rewrites the profile at most that   *)
(* often, both layers together, whatever is applied in between             *)
(* (SENTINEL_MAX_BUMPS_PER_SESSION, "Shared bump budget").                 *)
LadderEnds == seen.writes <= SENTINEL_MAX_BUMPS_PER_SESSION

(* A driver reset that hit a settled undervolt is behind the event cursor  *)
(* only when the undervolt is condemned for good and no longer applied,    *)
(* wherever the recovery or the next start was cut short; unless the       *)
(* operator sent a request, or the canary had claimed the episode.         *)
Passed(o) == baseline # NoBaseline /\ baseline >= o.event

Answered(o) == Pair2(o.pair) \in ledger /\ ~ (Undervolted /\ applied.pair = o.pair)

CursorPassesOnlyCondemned ==
    \A o \in seen.owed : Passed(o) /\ ~ o.raced => Answered(o)

(* A driver reset of this Windows boot that the service knows of: the      *)
(* watcher has taken it up, or it was on the log when the service started. *)
KnownReset ==
    /\ log.thisBoot
    /\ pc = "ready" => cursor = log.tdr \/ layer["watcher"].step # "poll"

(* Until Windows reboots, the service lets nothing new write to the GPU    *)
(* after such a reset - no apply, no manual point, no Forge request, no    *)
(* apply-on-boot - however often it is stopped, killed and started again   *)
(* ("Keep every GPU-mutating path closed until Windows reboots").  The     *)
(* sentinel's own fallback is the exception, and so is what had passed the *)
(* refusals before.                                                        *)
ClosedUntilReboot == [][job = NoJob /\ job' # NoJob => ~ KnownReset]_svars

(* What the repository says of the program and the code does not do.       *)

Mutates(l) == layer[l].step \in {"reset", "arm", "write", "save"}

(* The watcher writes nothing while a Forge run owns the GPU ("Never       *)
(* mutate hardware while Forge owns it").                                  *)
WatcherLeavesForgeAlone == forge.step # "idle" => ~ Mutates("watcher")

(* Nor does the canary ("never spin a second GPU context or act while a    *)
(* forge run owns the card").                                              *)
CanaryLeavesForgeAlone == forge.step # "idle" => ~ Mutates("canary")

(* The cursor waits for the recovery ("commit only after failure           *)
(* persistence + recovery returned"), also when the canary is at it.       *)
CursorWaitsForRecovery ==
    \A o \in seen.owed : Passed(o) => Answered(o)
=============================================================================
