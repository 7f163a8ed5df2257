----------------------------- MODULE LegacySweeps -----------------------------
(***************************************************************************)
(* The programs of the older workers, one action per statement that polls  *)
(* the stop flag, writes the GPU, arms or clears the boot flag or          *)
(* publishes: GPU validation (gpu_real.rs), the core sweep                 *)
(* (gpu_sweep_real.rs), the memory sweep (gpu_mem_sweep.rs), Forge-all     *)
(* (gpu_forge_all.rs) and the benchmark (gpu_benchmark.rs).  A test's      *)
(* verdict is any the kernel can return.  The sweeps' own resets, whose    *)
(* result the code drops, succeed; a `set' whose failure the code looks at *)
(* may fail.                                                               *)
(***************************************************************************)
EXTENDS WorkerLease

SweepRest == <<stored, timers, service, run, stop>>

(* Variant: nothing keeps an offset from going below stock.                *)
Clip_None(n) == n

Clip(n) == IF n < 0 THEN 0 ELSE n

Publish(t, b) == shown' = [shown EXCEPT ![thr[t].kind] = b]

Stopped(t) == stop[thr[t].kind]

-----------------------------------------------------------------------------
(* GPU validation: read-only, no stop flag, stages outside catch_unwind.   *)

ValidationRuns(t) ==
    /\ At(t, "validation", "init")
    /\ Publish(t, FALSE)
    /\ Go(t, "end")
    /\ UNCHANGED <<gpu, SweepRest, used>>

ValidationPanics(t) == At(t, "validation", "init") /\ Dies(t)

-----------------------------------------------------------------------------
(* The memory sweep.                                                       *)

MemBegins(t) ==
    /\ At(t, "mem", "gap")
    /\ \/ Fault /\ Publish(t, FALSE) /\ Go(t, "end") /\ UNCHANGED hw
       \/ /\ hw' = NvapiReset(hw)
          /\ Publish(t, TRUE)
          /\ thr' = [thr EXCEPT ![t].pc = "loop", ![t].off = 1]
          /\ UNCHANGED used
    /\ result' = [result EXCEPT !.peak = 0]
    /\ UNCHANGED <<flag, stored, timers, manual, forge, latch, ipc, run, stop>>

MemArms(t) ==
    /\ At(t, "mem", "loop") /\ ~ Stopped(t)
    /\ flag' = "gpu_mem_sweep"
    /\ Go(t, "set")
    /\ UNCHANGED <<hw, shown, SweepRest, used>>

MemStops(t) ==
    /\ At(t, "mem", "loop") /\ Stopped(t)
    /\ Go(t, "soaks")
    /\ UNCHANGED <<gpu, shown, SweepRest, used>>

MemSets(t) ==
    /\ At(t, "mem", "set")
    /\ \/ Fault /\ Go(t, "soaks") /\ UNCHANGED hw
       \/ hw' = [hw EXCEPT !.mem = thr[t].off] /\ Go(t, "test") /\ UNCHANGED used
    /\ UNCHANGED <<flag, shown, SweepRest>>

(* The chase and the bandwidth hold: this offset is the peak so far.       *)
MemHolds(t) ==
    /\ At(t, "mem", "test")
    /\ flag' = "none"
    /\ result' = [result EXCEPT !.peak = thr[t].off]
    /\ thr' = [thr EXCEPT ![t].best = thr[t].off, ![t].off = @ + 1,
                          ![t].pc = IF thr[t].off + 1 > MemCap THEN "soaks" ELSE "loop"]
    /\ UNCHANGED <<hw, shown, stored, timers, manual, forge, latch, ipc, run, stop, used>>

(* The cliff; a chase that panics is the `crashed' of the code.            *)
MemFails(t) ==
    /\ At(t, "mem", "test")
    /\ \E b \in BOOLEAN : thr' = [thr EXCEPT ![t].bad = b, ![t].pc = "soaks"]
    /\ UNCHANGED <<gpu, shown, SweepRest, used>>

(* The combined soak, from the peak downwards; it does not poll stop.      *)
MemSoakStarts(t) ==
    /\ At(t, "mem", "soaks")
    /\ thr' = [thr EXCEPT ![t].off = thr[t].best,
                 ![t].pc = IF thr[t].bad \/ Stopped(t) \/ thr[t].best = 0 THEN "finish" ELSE "soakarm"]
    /\ UNCHANGED <<gpu, shown, SweepRest, used>>

MemSoakArms(t) ==
    /\ At(t, "mem", "soakarm")
    /\ result' = [result EXCEPT !.peak = thr[t].best]
    /\ IF thr[t].off <= 0 THEN Go(t, "finish") /\ UNCHANGED flag
       ELSE Go(t, "soakset") /\ flag' = "gpu_mem_validate"
    /\ UNCHANGED <<hw, shown, stored, timers, manual, forge, latch, ipc, run, stop, used>>

MemSoakSets(t) ==
    /\ At(t, "mem", "soakset")
    /\ hw' = [hw EXCEPT !.mem = thr[t].off]
    /\ Go(t, "soak")
    /\ UNCHANGED <<flag, shown, SweepRest, used>>

MemSoakHolds(t) ==
    /\ At(t, "mem", "soak")
    /\ flag' = "none"
    /\ thr' = [thr EXCEPT ![t].best = thr[t].off, ![t].pc = "finish"]
    /\ result' = [result EXCEPT !.peak = thr[t].off]
    /\ UNCHANGED <<hw, shown, stored, timers, manual, forge, latch, ipc, run, stop, used>>

(* Variant: the offset is tried again as it is.                            *)
MemSoakRecedes_Same(t) ==
    /\ At(t, "mem", "soak")
    /\ hw' \in {hw, [hw EXCEPT !.mem = 0]}
    /\ Go(t, "soakarm")
    /\ UNCHANGED <<flag, shown, SweepRest, used>>

(* It fails, with the device lost and found or without: two steps down.    *)
MemSoakRecedes(t) ==
    /\ At(t, "mem", "soak")
    /\ hw' \in {hw, [hw EXCEPT !.mem = 0]}
    /\ thr' = [thr EXCEPT ![t].best = Clip(thr[t].off - 2), ![t].off = @ - 2, ![t].pc = "soakarm"]
    /\ UNCHANGED <<flag, shown, SweepRest, used>>

(* The device is lost for good: the sweep ends on the offset that did it.  *)
MemSoakLosesDevice(t) ==
    /\ At(t, "mem", "soak")
    /\ hw' = [hw EXCEPT !.mem = 0]
    /\ thr' = [thr EXCEPT ![t].bad = TRUE, ![t].pc = "finish"]
    /\ UNCHANGED <<flag, shown, SweepRest, used>>

(* Variant: the GPU is not reset at the end.                               *)
MemFinishes_NoReset(t) ==
    /\ At(t, "mem", "finish")
    /\ flag' = "none"
    /\ Publish(t, FALSE)
    /\ Go(t, "end")
    /\ UNCHANGED <<hw, SweepRest, used>>

MemFinishes(t) ==
    /\ At(t, "mem", "finish")
    /\ hw' = NvapiReset(hw)
    /\ flag' = "none"
    /\ Publish(t, FALSE)
    /\ Go(t, "end")
    /\ UNCHANGED <<SweepRest, used>>

(* The bandwidth measurements are outside catch_unwind.                    *)
MemPanics(t) == \E p \in {"loop", "test", "soak"} :
    At(t, "mem", p) /\ (p = "loop" => thr[t].off = 1) /\ Dies(t)

MemSweep(t) ==
    \/ MemBegins(t) \/ MemArms(t) \/ MemStops(t) \/ MemSets(t) \/ MemHolds(t)
    \/ MemFails(t) \/ MemSoakStarts(t) \/ MemSoakArms(t) \/ MemSoakSets(t)
    \/ MemSoakHolds(t) \/ MemSoakRecedes(t) \/ MemSoakLosesDevice(t) \/ MemFinishes(t)

-----------------------------------------------------------------------------
(* The core sweep: per voltage, raise the clock until it fails.            *)

RealBegins(t) ==
    /\ At(t, "real", "gap")
    /\ \/ Fault /\ Publish(t, FALSE) /\ Go(t, "end") /\ UNCHANGED hw
       \/ /\ hw' = NvapiReset(hw)
          /\ Publish(t, TRUE)
          /\ Go(t, "vram")
          /\ UNCHANGED used
    /\ result' = [result EXCEPT !.profiles = FALSE]
    /\ UNCHANGED <<flag, stored, timers, manual, forge, latch, ipc, run, stop>>

RealVram(t) ==
    /\ At(t, "real", "vram")
    /\ \/ hw' = NvapiReset(hw) /\ Publish(t, FALSE) /\ Go(t, "end")
       \/ /\ thr' = [thr EXCEPT ![t].v = 1, ![t].best = -1, ![t].pc = "volt"]
          /\ UNCHANGED <<hw, shown>>
    /\ UNCHANGED <<flag, SweepRest, used>>

(* The next voltage; a lock that fails ends the search.                    *)
RealVoltage(t) ==
    /\ At(t, "real", "volt")
    /\ IF thr[t].v > Volts \/ Stopped(t)
       THEN Go(t, "synth") /\ UNCHANGED <<hw, used>>
       ELSE \/ Fault /\ Go(t, "synth") /\ UNCHANGED hw
            \/ /\ hw' = [hw EXCEPT !.vlock = TRUE]
               /\ thr' = [thr EXCEPT ![t].off = 0, ![t].pc = "arm"]
               /\ UNCHANGED used
    /\ UNCHANGED <<flag, shown, SweepRest>>

RealArms(t) ==
    /\ At(t, "real", "arm")
    /\ IF Stopped(t) THEN Go(t, "synth") /\ UNCHANGED flag
       ELSE Go(t, "set") /\ flag' = "gpu_real_sweep"
    /\ UNCHANGED <<hw, shown, SweepRest, used>>

OffsetSet(h, off) == [h EXCEPT !.vf = IF off = 0 THEN "stock" ELSE "offset"]

RealSets(t) ==
    /\ At(t, "real", "set")
    /\ \/ Fault /\ Go(t, "next") /\ UNCHANGED hw
       \/ hw' = OffsetSet(hw, thr[t].off) /\ Go(t, "test") /\ UNCHANGED used
    /\ UNCHANGED <<flag, shown, SweepRest>>

(* Stable: the first voltage's offset is the candidate of the validation.  *)
RealHolds(t) ==
    /\ At(t, "real", "test")
    /\ flag' = "none"
    /\ thr' = [thr EXCEPT ![t].n = 1, ![t].best = IF thr[t].v = 1 THEN thr[t].off ELSE @,
                          ![t].off = @ + 1,
                          ![t].pc = IF thr[t].off + 1 > CoreCap THEN "next" ELSE "arm"]
    /\ UNCHANGED <<hw, shown, SweepRest, used>>

RealFails(t) ==
    /\ At(t, "real", "test")
    /\ Go(t, "next")
    /\ UNCHANGED <<gpu, shown, SweepRest, used>>

(* Device lost: offset and lock are dropped; recovered, the next voltage.  *)
RealCrashes(t) ==
    /\ At(t, "real", "test")
    /\ hw' = [hw EXCEPT !.vf = "stock", !.vlock = FALSE]
    /\ \/ Go(t, "next")
       \/ thr' = [thr EXCEPT ![t].bad = TRUE, ![t].pc = "synth"]
    /\ UNCHANGED <<flag, shown, SweepRest, used>>

RealNext(t) ==
    /\ At(t, "real", "next")
    /\ hw' = OffsetSet(hw, 0)
    /\ thr' = [thr EXCEPT ![t].v = @ + 1, ![t].pc = "volt"]
    /\ UNCHANGED <<flag, shown, SweepRest, used>>

(* Stock again; the profiles are offered before their validation.          *)
RealSynthesizes(t) ==
    /\ At(t, "real", "synth")
    /\ hw' = NvapiReset(hw)
    /\ flag' = "none"
    /\ result' = [result EXCEPT !.profiles = thr[t].n = 1]
    /\ thr' = [thr EXCEPT ![t].n = 0, ![t].off = Clip(thr[t].best - 1),
                 ![t].pc = IF thr[t].bad \/ Stopped(t) \/ thr[t].best < 0 THEN "finish" ELSE "varm"]
    /\ UNCHANGED <<shown, stored, timers, manual, forge, latch, ipc, run, stop, used>>

RealValidateArms(t) ==
    /\ At(t, "real", "varm")
    /\ flag' = "gpu_real_validate"
    /\ hw' \in {hw, [hw EXCEPT !.vlock = TRUE]}
    /\ Go(t, "vset")
    /\ UNCHANGED <<shown, SweepRest, used>>

RealValidateSets(t) ==
    /\ At(t, "real", "vset")
    /\ \/ Fault /\ Go(t, "finish") /\ UNCHANGED hw
       \/ hw' = OffsetSet(hw, thr[t].off) /\ Go(t, "vtest") /\ UNCHANGED used
    /\ UNCHANGED <<flag, shown, SweepRest>>

RealValidated(t) ==
    /\ At(t, "real", "vtest")
    /\ \/ flag' = "none" /\ Go(t, "finish")
       \/ thr' = [thr EXCEPT ![t].bad = TRUE, ![t].pc = "finish"] /\ UNCHANGED flag
       \/ /\ thr' = [thr EXCEPT ![t].off = Clip(@ - 2), ![t].n = @ + 1,
                                ![t].pc = IF thr[t].n = 1 THEN "finish" ELSE "varm"]
          /\ UNCHANGED flag
    /\ UNCHANGED <<hw, shown, SweepRest, used>>

(* Variant: the GPU is not reset after the validation.                     *)
RealFinishes_NoReset(t) ==
    /\ At(t, "real", "finish")
    /\ flag' = "none"
    /\ Publish(t, FALSE)
    /\ Go(t, "end")
    /\ UNCHANGED <<hw, SweepRest, used>>

RealFinishes(t) ==
    /\ At(t, "real", "finish")
    /\ hw' = NvapiReset(hw)
    /\ flag' = "none"
    /\ Publish(t, FALSE)
    /\ Go(t, "end")
    /\ UNCHANGED <<SweepRest, used>>

RealSweep(t) ==
    \/ RealBegins(t) \/ RealVram(t) \/ RealVoltage(t) \/ RealArms(t) \/ RealSets(t)
    \/ RealHolds(t) \/ RealFails(t) \/ RealCrashes(t) \/ RealNext(t) \/ RealSynthesizes(t)
    \/ RealValidateArms(t) \/ RealValidateSets(t) \/ RealValidated(t) \/ RealFinishes(t)
==============================================================================
