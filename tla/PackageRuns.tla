----------------------------- MODULE PackageRuns -----------------------------
(***************************************************************************)
(* The two workers that leave the GPU tuned: Forge-all                     *)
(* (gpu_forge_all.rs), which applies and persists the package it found,    *)
(* and the benchmark (gpu_benchmark.rs), which measures stock against the  *)
(* applied profile.                                                        *)
(***************************************************************************)
EXTENDS LegacySweeps

-----------------------------------------------------------------------------
(* Forge-all.  `v' is 1 once a core clock was found, `best' the memory     *)
(* offset found, `off' the offset of the step, `n' the soak attempts.      *)

AllAborts(t) ==
    /\ hw' = NvapiReset(hw)
    /\ Publish(t, FALSE)
    /\ Go(t, "end")

AllBegins(t) ==
    /\ At(t, "forge_all", "gap")
    /\ \/ Fault /\ AllAborts(t)
       \/ hw' = NvapiReset(hw) /\ Publish(t, TRUE) /\ Go(t, "vram") /\ UNCHANGED used
    /\ UNCHANGED <<flag, SweepRest>>

AllVram(t) ==
    /\ At(t, "forge_all", "vram")
    /\ \/ AllAborts(t)
       \/ ~ Stopped(t) /\ Go(t, "lock") /\ UNCHANGED <<hw, shown>>
    /\ UNCHANGED <<flag, SweepRest, used>>

AllLocks(t) ==
    /\ At(t, "forge_all", "lock")
    /\ \/ Fault /\ AllAborts(t)
       \/ hw' = [hw EXCEPT !.vlock = TRUE] /\ Go(t, "core") /\ UNCHANGED <<shown, used>>
    /\ UNCHANGED <<flag, SweepRest>>

(* A core step: no boot flag is armed by this worker before its package.   *)
AllCoreSets(t) ==
    /\ At(t, "forge_all", "core")
    /\ IF Stopped(t) THEN AllAborts(t)
       ELSE hw' = OffsetSet(hw, thr[t].off) /\ Go(t, "ctest") /\ UNCHANGED shown
    /\ UNCHANGED <<flag, SweepRest, used>>

(* Whatever ends the search, the offset is dropped and the clock found,    *)
(* less its margin, is applied as a ceiling.                               *)
AllCoreHolds(t) ==
    /\ At(t, "forge_all", "ctest")
    /\ thr' = [thr EXCEPT ![t].v = 1, ![t].off = @ + 1,
                          ![t].pc = IF thr[t].off + 1 > CoreCap THEN "cend" ELSE "core"]
    /\ UNCHANGED <<gpu, shown, SweepRest, used>>

AllCoreFails(t) ==
    /\ At(t, "forge_all", "ctest")
    /\ Go(t, "cend")
    /\ UNCHANGED <<gpu, shown, SweepRest, used>>

AllCoreEnds(t) ==
    /\ At(t, "forge_all", "cend")
    /\ hw' \in (IF thr[t].v = 1 THEN CoreApplied(OffsetSet(hw, 0)) ELSE {OffsetSet(hw, 0)})
    /\ thr' = [thr EXCEPT ![t].off = 1, ![t].pc = "mem"]
    /\ UNCHANGED <<flag, shown, SweepRest, used>>

(* A memory step; a stop ends the search, not the run.                     *)
AllMemSets(t) ==
    /\ At(t, "forge_all", "mem")
    /\ IF Stopped(t) THEN Go(t, "mend") /\ UNCHANGED hw
       ELSE hw' = [hw EXCEPT !.mem = thr[t].off] /\ Go(t, "mtest")
    /\ UNCHANGED <<flag, shown, SweepRest, used>>

AllMemHolds(t) ==
    /\ At(t, "forge_all", "mtest")
    /\ thr' = [thr EXCEPT ![t].best = thr[t].off, ![t].off = @ + 1,
                          ![t].pc = IF thr[t].off + 1 > MemCap THEN "mend" ELSE "mem"]
    /\ UNCHANGED <<gpu, shown, SweepRest, used>>

AllMemFails(t) ==
    /\ At(t, "forge_all", "mtest")
    /\ Go(t, "mend")
    /\ UNCHANGED <<gpu, shown, SweepRest, used>>

AllMemPanics(t) == At(t, "forge_all", "mtest") /\ Dies(t)

AllMemEnds(t) ==
    /\ At(t, "forge_all", "mend")
    /\ hw' \in (IF thr[t].v = 1 THEN CoreApplied([hw EXCEPT !.mem = 0]) ELSE {[hw EXCEPT !.mem = 0]})
    /\ thr' = [thr EXCEPT ![t].n = 0, ![t].off = thr[t].best, ![t].pc = "soak"]
    /\ UNCHANGED <<flag, shown, SweepRest, used>>

(* The package soak at the offset, at most three times, two steps down     *)
(* after each failure; `bad' is cleared by the soak that holds.            *)
AllSoakHolds(t) ==
    /\ At(t, "forge_all", "soak")
    /\ hw' = [hw EXCEPT !.mem = Clip(thr[t].off)]
    /\ thr' = [thr EXCEPT ![t].off = Clip(@), ![t].bad = FALSE, ![t].pc = "package",
                          ![t].soaked = Clip(thr[t].off)]
    /\ UNCHANGED <<flag, shown, SweepRest, used>>

(* Variant: the offset that failed is kept.                                *)
AllSoakFails_Kept(t) ==
    /\ At(t, "forge_all", "soak")
    /\ hw' = [hw EXCEPT !.mem = Clip(thr[t].off)]
    /\ thr' = [thr EXCEPT ![t].pc = "package"]
    /\ UNCHANGED <<flag, shown, SweepRest, used>>

AllSoakFails(t) ==
    /\ At(t, "forge_all", "soak")
    /\ LET tried == Clip(thr[t].off)
           next  == tried - 2
       IN  /\ hw' \in {[hw EXCEPT !.mem = tried]} \cup CoreApplied([hw EXCEPT !.mem = 0])
           /\ thr' = [thr EXCEPT ![t].bad = TRUE, ![t].n = @ + 1,
                        ![t].off = IF next <= 0 /\ thr[t].n >= 1 THEN 0 ELSE next,
                        ![t].pc = IF (next <= 0 /\ thr[t].n >= 1) \/ thr[t].n = 2
                                  THEN "package" ELSE "soak"]
    /\ UNCHANGED <<flag, shown, SweepRest, used>>

(* The package is applied and persisted, its memory offset only if it      *)
(* survived the soak.                                                      *)
AllPackage(t) ==
    /\ At(t, "forge_all", "package")
    /\ LET mem == IF thr[t].bad THEN 0 ELSE thr[t].off
           core == thr[t].v = 1
       IN  /\ hw' \in {[h EXCEPT !.mem = IF mem > 0 THEN mem ELSE @] :
                          h \in IF core THEN CoreApplied(hw) ELSE {hw}}
           /\ stored' = [kind |-> "F1", core |-> core, mem |-> mem]
    /\ flag' = "gpu_apply"
    /\ timers' = timers + 1
    /\ Publish(t, FALSE)
    /\ Go(t, "end")
    /\ UNCHANGED <<service, run, stop, used>>

ForgeAll(t) ==
    \/ AllBegins(t) \/ AllVram(t) \/ AllLocks(t) \/ AllCoreSets(t) \/ AllCoreHolds(t)
    \/ AllCoreFails(t) \/ AllCoreEnds(t) \/ AllMemSets(t) \/ AllMemHolds(t) \/ AllMemFails(t)
    \/ AllMemEnds(t) \/ AllSoakHolds(t) \/ AllSoakFails(t) \/ AllPackage(t)

-----------------------------------------------------------------------------
(* The benchmark.  `ap' is the profile it read when it began.              *)

BenchBegins(t) ==
    /\ At(t, "benchmark", "gap")
    /\ IF stored = NoProfile THEN Publish(t, FALSE) /\ Go(t, "end")
       ELSE /\ Publish(t, TRUE)
            /\ thr' = [thr EXCEPT ![t].ap = stored, ![t].pc = "stock"]
    /\ UNCHANGED <<gpu, SweepRest, used>>

BenchStock(t) ==
    /\ At(t, "benchmark", "stock")
    /\ hw' = Stock
    /\ \/ Fault /\ Publish(t, FALSE) /\ Go(t, "end")
       \/ Go(t, "restore") /\ UNCHANGED <<shown, used>>
    /\ UNCHANGED <<flag, SweepRest>>

(* apply_profile: the legacy ceiling and the memory offset, for every kind *)
(* of profile.                                                             *)
ApplyLegacy(p, h) ==
    {[g EXCEPT !.mem = IF p.mem > 0 THEN p.mem ELSE @] :
        g \in IF p.core THEN CoreApplied(h) ELSE {h}}

BenchRestores(t) ==
    /\ At(t, "benchmark", "restore")
    /\ hw' \in ApplyLegacy(thr[t].ap, hw)
    /\ \/ Publish(t, FALSE) /\ Go(t, "end")
       \/ ~ Stopped(t) /\ Go(t, "tuned") /\ UNCHANGED shown
    /\ UNCHANGED <<flag, SweepRest, used>>

BenchTuned(t) ==
    /\ At(t, "benchmark", "tuned")
    /\ Publish(t, FALSE)
    /\ Go(t, "end")
    /\ UNCHANGED <<gpu, SweepRest, used>>

Benchmark(t) == BenchBegins(t) \/ BenchStock(t) \/ BenchRestores(t) \/ BenchTuned(t)
==============================================================================
