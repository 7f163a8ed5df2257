--------------------------- MODULE GpuWorkersProofs ---------------------------
(***************************************************************************)
(* Proofs about GpuWorkers, for any number of threads: the lease, the      *)
(* sweeps, the package of Forge-all and the emergency reset.               *)
(***************************************************************************)
EXTENDS GpuWorkers, TLAPS

-----------------------------------------------------------------------------
(* The invariant.                                                          *)

(* The fields of the records, and what the proofs need of their values.    *)
WShape ==
    /\ DOMAIN thr = Threads /\ \A t \in Threads : DOMAIN thr[t] = DOMAIN Free
    /\ \A t \in Threads : thr[t].kind \in Kinds \cup {"free"} /\ thr[t].shared \in BOOLEAN
    /\ DOMAIN run = Kinds /\ DOMAIN shown = Kinds /\ DOMAIN stop = Kinds
    /\ DOMAIN hw = DOMAIN Stock /\ hw.cap \in BOOLEAN
    /\ DOMAIN used = {"grants", "resets", "panics", "faults", "reset", "overlap"}
    /\ used.panics \in Nat /\ used.faults \in Nat

(* One worker of a kind, as long as no reset forces the handle open.  Who  *)
(* uses the GPU is published, and a worker that never overlapped with      *)
(* another is alone with what it publishes.                                *)
LeaseOK ==
    /\ \A t, u \in Live : t # u => thr[t].shared /\ thr[u].shared
    /\ \A t, u \in Live : thr[t].kind = thr[u].kind /\ thr[t].kind # "power" => t = u
    /\ \A t \in Live : thr[t].kind # "power" => run[thr[t].kind]
    /\ \A t \in Live : Owns(t) /\ (thr[t].kind # "power" \/ ~ thr[t].shared) => shown[thr[t].kind]
    /\ \A t \in Live : ~ thr[t].shared /\ thr[t].kind # "lab" =>
          ~ manual.active /\ \A k \in Kinds \ {thr[t].kind} : ~ shown[k]
    /\ ipc # "idle" => \A t \in Live : thr[t].shared

(* The flag of a sweep belongs to a worker that is past its first test and *)
(* has not reported its end, or to one that panicked there.                *)
SweepFlagOK ==
    flag \in SweepFlags =>
        \E k \in {"real", "mem"} :
            /\ run[k] /\ shown[k]
            /\ \A t \in Live : thr[t].kind = k => Owns(t) /\ thr[t].pc # "vram"

PackageOK ==
    \A t \in Threads : At(t, "forge_all", "package") /\ ~ thr[t].bad => thr[t].off = thr[t].soaked

(* Who will still take back what it wrote, although it is to stop.         *)
Restores(t) == thr[t].kind = "lab" /\ thr[t].pc \in {"applied", "restore"}
Sweeps(t)   == thr[t].kind \in {"real", "mem"} /\ Owns(t)

(* After a reset that was the last request, whatever is not at stock is    *)
(* the work of a thread that has its own reset before it.                  *)
ResetOK ==
    used.reset =>
        /\ \A k \in Kinds : k # "validation" => stop[k]
        /\ \A t \in Live : thr[t].kind \notin {"forge_all", "benchmark"}
        /\ used.panics + used.faults = 0 =>
              /\ ipc \in {"idle", "disarm", "disarm_full"} =>
                    /\ hw.cap => \E t \in Live : Restores(t)
                    /\ hw # NvapiReset(hw) => \E t \in Live : Restores(t) \/ Sweeps(t)
              /\ ipc = "idle" =>
                    /\ ~ manual.active
                    /\ flag # "none" => \E t \in Live : Sweeps(t) /\ thr[t].pc # "vram"

WorkersInv == WShape /\ LeaseOK /\ SweepFlagOK /\ PackageOK /\ ResetOK

-----------------------------------------------------------------------------
(* What one step of a worker may do.                                       *)

(* To the lease: it moves alone, stays what it is or is gone, keeps to its *)
(* own handle, and is published whenever it uses the GPU.                  *)
Moves(t) ==
    /\ t \in Live /\ thr' = [thr EXCEPT ![t] = thr'[t]]
    /\ thr'[t] = Free \/ (thr'[t].kind = thr[t].kind /\ thr'[t].shared = thr[t].shared)
    /\ DOMAIN thr'[t] = DOMAIN Free
    /\ \A k \in Kinds : run'[k] = run[k] \/ (thr'[t] = Free /\ k = thr[t].kind)
    /\ \A k \in Kinds \ {thr[t].kind} : shown'[k] = shown[k]
    /\ Owns(t)' => shown'[thr[t].kind] \/ (Owns(t) /\ shown' = shown)
    /\ manual'.active => manual.active \/ thr[t].kind = "lab"
    /\ ipc' = ipc /\ stop' = stop
    /\ DOMAIN run' = DOMAIN run /\ DOMAIN shown' = DOMAIN shown

(* To the GPU's record and to the budgets.                                 *)
Hw == DOMAIN hw' = DOMAIN hw /\ hw'.cap \in BOOLEAN

Spends ==
    \/ used' = used
    \/ used' = [used EXCEPT !.panics = @ + 1]
    \/ used' = [used EXCEPT !.faults = @ + 1]

Sweeping(t) == Sweeps(t) /\ thr[t].pc # "vram"

(* To the boot flag of a sweep, which its owner clears at the end.         *)
Flags(t) ==
    /\ flag' \in SweepFlags => Sweeping(t)' \/ flag' = flag
    /\ Sweeping(t) => \/ Sweeping(t)'
                      \/ thr'[t] = Free /\ run' = run /\ shown' = shown
                      \/ flag' = "none"
    /\ thr[t].kind \in {"real", "mem"} /\ thr'[t].pc = "end" /\ thr'[t].kind # "free" /\ Owns(t) =>
          /\ hw' = NvapiReset(hw')
          /\ flag' = "none" \/ (flag' = flag /\ At(t, "real", "vram"))

(* To the package of Forge-all.                                            *)
Soaked(t) ==
    /\ PackageOK =>
          (At(t, "forge_all", "package") /\ ~ thr[t].bad => thr[t].off = thr[t].soaked)'
    /\ PackageOK /\ At(t, "forge_all", "package") /\ stored' # stored =>
          stored'.mem \in {0, thr[t].soaked}

(* To the GPU once it was asked to stop: whatever it still writes, it is   *)
(* going to take back.                                                     *)
Harmless(t) ==
    /\ used' = used /\ thr[t].kind \notin {"forge_all", "benchmark"}
    /\ thr[t].kind = "validation" \/ stop[thr[t].kind]
    => /\ \/ hw' = Stock
          \/ /\ Restores(t) => Restores(t)'
             /\ hw'.cap => hw.cap \/ Restores(t)'
       /\ \/ hw' = NvapiReset(hw')
          \/ /\ Restores(t) \/ Sweeps(t) => Restores(t)' \/ Sweeps(t)'
             /\ hw' = hw \/ Restores(t)' \/ Sweeps(t)'
       /\ manual'.active => manual.active
       /\ \/ flag' = "none"
          \/ /\ Sweeping(t) => Sweeping(t)'
             /\ flag' = flag \/ Sweeping(t)'

Effects(t) == Moves(t) /\ Hw /\ Spends /\ Flags(t) /\ Soaked(t) /\ Harmless(t)

(* `Go' changes the program counter and, at the end, forgets the search.   *)
LEMMA GoStep ==
    ASSUME WShape, NEW t \in Threads, NEW p, Go(t, p)
    PROVE  /\ thr' = [thr EXCEPT ![t] = thr'[t]]
           /\ thr'[t].pc = p /\ thr'[t].kind = thr[t].kind /\ thr'[t].shared = thr[t].shared
           /\ DOMAIN thr'[t] = DOMAIN Free
           /\ p # "end" => thr'[t].bad = thr[t].bad /\ thr'[t].off = thr[t].off /\ thr'[t].soaked = thr[t].soaked
<1>1. PICK r : /\ r = IF p = "end" THEN [NewThread(thr[t].kind) EXCEPT !.pc = p, !.shared = thr[t].shared]
                                   ELSE [thr[t] EXCEPT !.pc = p]
               /\ thr' = [thr EXCEPT ![t] = r]
  BY DEF Go
<1>2. thr'[t] = r
  BY <1>1 DEF WShape
<1>3. /\ r.pc = p /\ r.kind = thr[t].kind /\ r.shared = thr[t].shared
      /\ DOMAIN r = DOMAIN Free
      /\ p # "end" => r.bad = thr[t].bad /\ r.off = thr[t].off /\ r.soaked = thr[t].soaked
  BY <1>1 DEF WShape, NewThread, Free
<1> QED
  BY <1>1, <1>2, <1>3

(* The step of a thread that stays the worker it is.                       *)
Steps(t) ==
    /\ t \in Live /\ thr' = [thr EXCEPT ![t] = thr'[t]]
    /\ thr'[t].kind = thr[t].kind /\ thr'[t].shared = thr[t].shared
    /\ DOMAIN thr'[t] = DOMAIN Free

(* A core or memory sweep between its first test and its end.              *)
SweepInner(t) ==
    /\ Steps(t)
    /\ Sweeps(t) /\ thr'[t].pc \notin {"gap", "end", "vram"}
    /\ UNCHANGED <<shown, run, stop, stored, manual, ipc>>
    /\ Spends
    /\ DOMAIN hw' = DOMAIN hw /\ hw'.cap = hw.cap

LEMMA SweepInnerEffects ==
    ASSUME WShape, NEW t \in Threads, SweepInner(t)
    PROVE  Effects(t)
<1> USE DEF SweepInner, Steps
<1>1. Sweeps(t)' /\ Sweeping(t)' /\ ~ Restores(t)
  BY DEF Sweeps, Sweeping, Restores, Owns, Live
<1>2. Moves(t)
  BY DEF Moves, Sweeps
<1>3. Hw
  BY DEF Hw, WShape
<1>4. Flags(t)
  BY <1>1 DEF Flags
<1>5. Soaked(t)
  BY DEF Soaked, At, Sweeps
<1>6. Harmless(t)
  BY <1>1 DEF Harmless
<1> QED
  BY <1>2, <1>3, <1>4, <1>5, <1>6 DEF Effects

LEMMA MemInner ==
    ASSUME WShape, NEW t \in Threads,
           \/ MemArms(t) \/ MemStops(t) \/ MemSets(t) \/ MemHolds(t)
           \/ MemFails(t) \/ MemSoakStarts(t) \/ MemSoakArms(t) \/ MemSoakSets(t)
           \/ MemSoakHolds(t) \/ MemSoakRecedes(t) \/ MemSoakLosesDevice(t)
    PROVE  SweepInner(t)
<1> USE GoStep DEF SweepInner, Steps, Sweeps, Owns, Live, At, WShape, Free, NvapiReset, Stock,
     OffsetSet, SweepRest, service, gpu, Spends, Fault
<1>1. CASE MemArms(t)
  BY <1>1 DEF MemArms
<1>2. CASE MemStops(t)
  BY <1>2 DEF MemStops
<1>3. CASE MemSets(t)
  BY <1>3 DEF MemSets
<1>4. CASE MemHolds(t)
  BY <1>4 DEF MemHolds
<1>5. CASE MemFails(t)
  <2>1. PICK b \in BOOLEAN : thr' = [thr EXCEPT ![t].bad = b, ![t].pc = "soaks"]
    BY <1>5 DEF MemFails
  <2> QED
    BY <1>5, <2>1 DEF MemFails
<1>6. CASE MemSoakStarts(t)
  BY <1>6 DEF MemSoakStarts
<1>7. CASE MemSoakArms(t)
  BY <1>7 DEF MemSoakArms
<1>8. CASE MemSoakSets(t)
  BY <1>8 DEF MemSoakSets
<1>9. CASE MemSoakHolds(t)
  BY <1>9 DEF MemSoakHolds
<1>10. CASE MemSoakRecedes(t)
  BY <1>10 DEF MemSoakRecedes
<1>11. CASE MemSoakLosesDevice(t)
  BY <1>11 DEF MemSoakLosesDevice
<1> QED
  BY <1>1, <1>2, <1>3, <1>4, <1>5, <1>6, <1>7, <1>8, <1>9, <1>10, <1>11

LEMMA RealInner ==
    ASSUME WShape, NEW t \in Threads,
           \/ RealVoltage(t) \/ RealArms(t) \/ RealSets(t) \/ RealHolds(t)
           \/ RealFails(t) \/ RealCrashes(t) \/ RealNext(t) \/ RealSynthesizes(t)
           \/ RealValidateArms(t) \/ RealValidateSets(t) \/ RealValidated(t)
    PROVE  SweepInner(t)
<1> USE GoStep DEF SweepInner, Steps, Sweeps, Owns, Live, At, WShape, Free, NvapiReset, Stock,
     OffsetSet, SweepRest, service, gpu, Spends, Fault
<1>1. CASE RealVoltage(t)
  BY <1>1 DEF RealVoltage
<1>2. CASE RealArms(t)
  BY <1>2 DEF RealArms
<1>3. CASE RealSets(t)
  BY <1>3 DEF RealSets
<1>4. CASE RealHolds(t)
  BY <1>4 DEF RealHolds
<1>5. CASE RealFails(t)
  BY <1>5 DEF RealFails
<1>6. CASE RealCrashes(t)
  BY <1>6 DEF RealCrashes
<1>7. CASE RealNext(t)
  BY <1>7 DEF RealNext
<1>8. CASE RealSynthesizes(t)
  BY <1>8 DEF RealSynthesizes
<1>9. CASE RealValidateArms(t)
  BY <1>9 DEF RealValidateArms
<1>10. CASE RealValidateSets(t)
  BY <1>10 DEF RealValidateSets
<1>11. CASE RealValidated(t)
  BY <1>11 DEF RealValidated
<1> QED
  BY <1>1, <1>2, <1>3, <1>4, <1>5, <1>6, <1>7, <1>8, <1>9, <1>10, <1>11

(* The last and the first steps of the sweeps.                             *)
LEMMA SweepEnds ==
    ASSUME WShape, NEW t \in Threads, MemFinishes(t) \/ RealFinishes(t)
    PROVE  Effects(t)
<1> USE GoStep DEF MemFinishes, RealFinishes
<1>1. /\ Steps(t) /\ thr'[t].pc = "end" /\ thr[t].kind \in {"mem", "real"} /\ Owns(t)
      /\ ~ Owns(t)' /\ ~ Restores(t)
  BY DEF Steps, Owns, Live, At, Restores
<1>2. /\ UNCHANGED <<run, stop, stored, manual, ipc, used>> /\ flag' = "none"
      /\ shown' = [shown EXCEPT ![thr[t].kind] = FALSE]
  BY DEF SweepRest, service, Publish
<1>3. hw' = NvapiReset(hw) /\ hw' = NvapiReset(hw') /\ DOMAIN hw' = DOMAIN hw /\ hw'.cap = hw.cap
  BY DEF NvapiReset, Stock, WShape
<1>4. Moves(t)
  BY <1>1, <1>2 DEF Moves, Steps, WShape
<1>5. Hw /\ Spends /\ Flags(t)
  BY <1>1, <1>2, <1>3 DEF Hw, Spends, Flags, WShape, SweepFlags
<1>6. Soaked(t) /\ Harmless(t)
  BY <1>1, <1>2, <1>3 DEF Soaked, Harmless, At
<1> QED
  BY <1>4, <1>5, <1>6 DEF Effects

LEMMA SweepBegins ==
    ASSUME WShape, NEW t \in Threads, MemBegins(t) \/ RealBegins(t)
    PROVE  Effects(t)
<1>1. /\ thr[t].kind \in {"mem", "real"} /\ thr[t].pc = "gap" /\ t \in Live
      /\ ~ Owns(t) /\ ~ Restores(t)
  BY DEF MemBegins, RealBegins, At, Live, Owns, Restores
<1>2. /\ UNCHANGED <<run, stop, stored, flag, manual, ipc>> /\ Spends
  BY DEF MemBegins, RealBegins, Spends, Fault
<1>3. /\ Steps(t)
      /\ \/ /\ thr'[t].pc = "end" /\ hw' = hw
            /\ shown' = [shown EXCEPT ![thr[t].kind] = FALSE]
         \/ /\ thr'[t].pc \in {"loop", "vram"} /\ hw' = NvapiReset(hw)
            /\ shown' = [shown EXCEPT ![thr[t].kind] = TRUE]
  <2>1. CASE Publish(t, FALSE) /\ Go(t, "end") /\ hw' = hw
    BY <1>1, <2>1, GoStep DEF Publish, Steps
  <2>2. CASE hw' = NvapiReset(hw) /\ Publish(t, TRUE) /\ Go(t, "vram")
    BY <1>1, <2>2, GoStep DEF Publish, Steps
  <2>3. CASE /\ hw' = NvapiReset(hw) /\ Publish(t, TRUE)
             /\ thr' = [thr EXCEPT ![t].pc = "loop", ![t].off = 1]
    BY <1>1, <2>3 DEF Publish, Steps, WShape, Free
  <2> QED
    BY <2>1, <2>2, <2>3 DEF MemBegins, RealBegins
<1>4. /\ DOMAIN hw' = DOMAIN hw /\ hw'.cap = hw.cap
      /\ hw' = hw \/ hw' = NvapiReset(hw')
  BY <1>3 DEF NvapiReset, Stock, WShape
<1>5. Moves(t)
  BY <1>1, <1>2, <1>3 DEF Moves, Steps, WShape, Owns, Live
<1>6. Hw /\ Flags(t)
  BY <1>1, <1>2, <1>4 DEF Hw, Flags, WShape, Sweeping, Sweeps
<1>7. Soaked(t) /\ Harmless(t)
  BY <1>1, <1>2, <1>3, <1>4 DEF Soaked, Harmless, Steps, At, Sweeps, Sweeping
<1> QED
  BY <1>2, <1>5, <1>6, <1>7 DEF Effects

LEMMA RealVramEffects ==
    ASSUME WShape, NEW t \in Threads, RealVram(t)
    PROVE  Effects(t)
<1> USE GoStep DEF RealVram
<1>1. CASE SweepInner(t)
  BY <1>1, SweepInnerEffects
<1>2. CASE ~ SweepInner(t)
  <2>1. /\ Steps(t) /\ thr'[t].pc = "end" /\ thr[t].kind = "real" /\ thr[t].pc = "vram"
        /\ Owns(t) /\ ~ Owns(t)' /\ ~ Restores(t) /\ ~ Sweeping(t) /\ At(t, "real", "vram")
        /\ hw' = NvapiReset(hw) /\ shown' = [shown EXCEPT ![thr[t].kind] = FALSE]
    <3>1. CASE hw' = NvapiReset(hw) /\ Publish(t, FALSE) /\ Go(t, "end")
      BY <3>1 DEF Steps, Owns, Live, At, Restores, Sweeping, Publish
    <3>2. CASE /\ thr' = [thr EXCEPT ![t].v = 1, ![t].best = -1, ![t].pc = "volt"]
               /\ UNCHANGED <<hw, shown>>
      <4>1. Steps(t) /\ Sweeps(t) /\ thr'[t].pc = "volt"
        BY <3>2 DEF Steps, Owns, Live, At, Sweeps, WShape, Free
      <4>2. UNCHANGED <<run, stop, stored, manual, ipc, used>>
        BY DEF SweepRest, service
      <4>3. SweepInner(t)
        BY <3>2, <4>1, <4>2 DEF SweepInner, Spends
      <4> QED
        BY <4>3, <1>2
    <3> QED
      BY <3>1, <3>2
  <2>2. UNCHANGED <<run, stop, stored, manual, ipc, used, flag>>
    BY DEF SweepRest, service
  <2>3. hw' = NvapiReset(hw) /\ hw' = NvapiReset(hw') /\ DOMAIN hw' = DOMAIN hw /\ hw'.cap = hw.cap
    BY <2>1 DEF NvapiReset, Stock, WShape
  <2>4. Moves(t)
    BY <2>1, <2>2 DEF Moves, Steps, WShape
  <2>5. Hw /\ Spends /\ Flags(t)
    BY <2>1, <2>2, <2>3 DEF Hw, Spends, Flags, WShape
  <2>6. Soaked(t) /\ Harmless(t)
    BY <2>1, <2>2, <2>3 DEF Soaked, Harmless, At
  <2> QED
    BY <2>4, <2>5, <2>6 DEF Effects
<1> QED
  BY <1>1, <1>2

(* A thread that is gone leaves everything but its own handle as it is.    *)
LEMMA DiesEffects ==
    ASSUME WShape, NEW t \in Threads, t \in Live, Dies(t)
    PROVE  Effects(t)
<1>1. /\ thr' = [thr EXCEPT ![t] = Free] /\ thr'[t] = Free /\ t \notin Live'
      /\ UNCHANGED <<run, shown, stop, hw, flag, stored, manual, ipc>>
      /\ used' = [used EXCEPT !.panics = @ + 1] /\ used' # used
  BY DEF Dies, Panic, handles, gpu, service, WShape, Live, Free
<1>2. Moves(t)
  BY <1>1 DEF Moves, WShape, Owns
<1>3. Hw /\ Spends /\ Flags(t)
  BY <1>1 DEF Hw, Spends, Flags, WShape, Free
<1>4. Soaked(t) /\ Harmless(t)
  BY <1>1 DEF Soaked, Harmless, At, Free
<1> QED
  BY <1>2, <1>3, <1>4 DEF Effects

LEMMA ExitEffects ==
    ASSUME WShape, NEW t \in Threads, Exit(t) \/ LabExits(t) \/ ForgeExits(t)
    PROVE  Effects(t)
<1>1. /\ t \in Live /\ thr[t].pc = "end"
      /\ thr' = [thr EXCEPT ![t] = Free]
      /\ UNCHANGED <<stop, hw, flag, stored, manual, ipc, used>>
      /\ run' = [run EXCEPT ![thr[t].kind] = FALSE]
      /\ shown' = shown \/ shown' = [shown EXCEPT ![thr[t].kind] = FALSE]
  <2>1. CASE Exit(t)
    BY <2>1 DEF Exit, gpu, service
  <2>2. CASE LabExits(t)
    BY <2>2 DEF LabExits, gpu, service, Live, At
  <2>3. CASE ForgeExits(t)
    BY <2>3 DEF ForgeExits, gpu, Live, At
  <2> QED
    BY <2>1, <2>2, <2>3
<1>9. /\ thr'[t] = Free /\ t \notin Live' /\ ~ Owns(t) /\ ~ Restores(t)
  BY <1>1 DEF WShape, Live, Free, Owns, Restores
<1>2. Moves(t)
  BY <1>1, <1>9 DEF Moves, WShape, Owns
<1>3. Hw /\ Spends /\ Flags(t)
  BY <1>1, <1>9 DEF Hw, Spends, Flags, Sweeping, Sweeps, WShape
<1>4. Soaked(t) /\ Harmless(t)
  BY <1>1, <1>9 DEF Soaked, Harmless, At, Free, Sweeps, Sweeping
<1> QED
  BY <1>2, <1>3, <1>4 DEF Effects

LEMMA ValidationEffects ==
    ASSUME WShape, NEW t \in Threads, ValidationRuns(t)
    PROVE  Effects(t)
<1>1. /\ Steps(t) /\ thr'[t].pc = "end" /\ thr[t].kind = "validation"
      /\ ~ Owns(t)' /\ ~ Restores(t) /\ ~ Sweeps(t)
      /\ UNCHANGED <<run, stop, stored, manual, ipc, used, hw, flag>>
      /\ shown' = [shown EXCEPT ![thr[t].kind] = FALSE]
  BY GoStep DEF ValidationRuns, Steps, Owns, Live, At, Restores, Sweeps, SweepRest, service,
       gpu, Publish
<1>2. Moves(t)
  BY <1>1 DEF Moves, Steps, WShape
<1>3. Hw /\ Spends /\ Flags(t)
  BY <1>1 DEF Hw, Spends, Flags, Sweeping, WShape
<1>4. Soaked(t) /\ Harmless(t)
  BY <1>1 DEF Soaked, Harmless, At, Sweeping
<1> QED
  BY <1>2, <1>3, <1>4 DEF Effects

(* Forge-all and the benchmark: no reset waits for them.                   *)
PackageStep(t) ==
    /\ Steps(t) /\ thr[t].kind \in {"forge_all", "benchmark"}
    /\ UNCHANGED <<run, stop, manual, ipc>>
    /\ \/ shown' = shown /\ (Owns(t) \/ ~ Owns(t)')
       \/ shown' = [shown EXCEPT ![thr[t].kind] = TRUE]
       \/ shown' = [shown EXCEPT ![thr[t].kind] = FALSE] /\ ~ Owns(t)'
    /\ Hw /\ Spends
    /\ flag' = flag \/ flag' \notin SweepFlags

LEMMA PackageStepEffects ==
    ASSUME WShape, NEW t \in Threads, PackageStep(t), Soaked(t)
    PROVE  Effects(t)
<1> USE DEF PackageStep, Steps
<1>1. Moves(t)
  BY DEF Moves, WShape
<1>2. Flags(t) /\ Harmless(t)
  BY DEF Flags, Harmless, Sweeping, Sweeps
<1> QED
  BY <1>1, <1>2 DEF Effects

LEMMA CoreAppliedShape ==
    ASSUME NEW h, DOMAIN h = DOMAIN Stock, h.cap \in BOOLEAN, NEW g \in CoreApplied(h)
    PROVE  DOMAIN g = DOMAIN Stock /\ g.cap \in BOOLEAN
  BY DEF CoreApplied, Stock

LEMMA MemAppliedShape ==
    ASSUME NEW h, DOMAIN h = DOMAIN Stock, h.cap \in BOOLEAN, NEW m, NEW p,
           NEW g \in {[h1 EXCEPT !.mem = IF m > 0 THEN m ELSE @] :
                         h1 \in IF p THEN CoreApplied(h) ELSE {h}}
    PROVE  DOMAIN g = DOMAIN Stock /\ g.cap \in BOOLEAN
<1>1. PICK h1 \in IF p THEN CoreApplied(h) ELSE {h} :
          g = [h1 EXCEPT !.mem = IF m > 0 THEN m ELSE @]
  OBVIOUS
<1>2. DOMAIN h1 = DOMAIN Stock /\ h1.cap \in BOOLEAN
  BY CoreAppliedShape
<1> QED
  BY <1>1, <1>2 DEF Stock

LEMMA OffsetSetShape ==
    ASSUME NEW h, DOMAIN h = DOMAIN Stock, h.cap \in BOOLEAN, NEW n
    PROVE  DOMAIN OffsetSet(h, n) = DOMAIN Stock /\ OffsetSet(h, n).cap \in BOOLEAN
  BY DEF OffsetSet, Stock


LEMMA AllBeginsEffects ==
    ASSUME WShape, NEW t \in Threads, AllBegins(t)
    PROVE  Effects(t)
<1>1. /\ Steps(t) /\ thr[t].kind \in {"forge_all", "benchmark"}
      /\ \/ shown' = shown /\ (Owns(t) \/ ~ Owns(t)')
         \/ shown' = [shown EXCEPT ![thr[t].kind] = TRUE]
         \/ shown' = [shown EXCEPT ![thr[t].kind] = FALSE] /\ ~ Owns(t)'
  BY GoStep DEF AllBegins, Steps, Owns, Live, At, WShape, Free, AllAborts, Publish
<1>2. UNCHANGED <<run, stop, manual, ipc>> /\ Spends /\ (flag' = flag \/ flag' \notin SweepFlags)
  BY DEF AllBegins, SweepRest, service, gpu, Spends, Fault, SweepFlags
<1>3. Hw
  BY DEF AllBegins, Hw, WShape, NvapiReset, Stock, OffsetSet, gpu, AllAborts
<1>4. Soaked(t)
  <2>1. thr[t].pc # "package" /\ thr'[t].pc # "package"
    BY GoStep DEF AllBegins, At, WShape, Free, AllAborts, Publish
  <2> QED
    BY <2>1 DEF Soaked, At
<1> QED
  BY <1>1, <1>2, <1>3, <1>4, PackageStepEffects DEF PackageStep

LEMMA AllVramEffects ==
    ASSUME WShape, NEW t \in Threads, AllVram(t)
    PROVE  Effects(t)
<1>1. /\ Steps(t) /\ thr[t].kind \in {"forge_all", "benchmark"}
      /\ \/ shown' = shown /\ (Owns(t) \/ ~ Owns(t)')
         \/ shown' = [shown EXCEPT ![thr[t].kind] = TRUE]
         \/ shown' = [shown EXCEPT ![thr[t].kind] = FALSE] /\ ~ Owns(t)'
  BY GoStep DEF AllVram, Steps, Owns, Live, At, WShape, Free, AllAborts, Publish
<1>2. UNCHANGED <<run, stop, manual, ipc>> /\ Spends /\ (flag' = flag \/ flag' \notin SweepFlags)
  BY DEF AllVram, SweepRest, service, gpu, Spends, Fault, SweepFlags
<1>3. Hw
  BY DEF AllVram, Hw, WShape, NvapiReset, Stock, OffsetSet, gpu, AllAborts
<1>4. Soaked(t)
  <2>1. thr[t].pc # "package" /\ thr'[t].pc # "package"
    BY GoStep DEF AllVram, At, WShape, Free, AllAborts, Publish
  <2> QED
    BY <2>1 DEF Soaked, At
<1> QED
  BY <1>1, <1>2, <1>3, <1>4, PackageStepEffects DEF PackageStep

LEMMA AllLocksEffects ==
    ASSUME WShape, NEW t \in Threads, AllLocks(t)
    PROVE  Effects(t)
<1>1. /\ Steps(t) /\ thr[t].kind \in {"forge_all", "benchmark"}
      /\ \/ shown' = shown /\ (Owns(t) \/ ~ Owns(t)')
         \/ shown' = [shown EXCEPT ![thr[t].kind] = TRUE]
         \/ shown' = [shown EXCEPT ![thr[t].kind] = FALSE] /\ ~ Owns(t)'
  BY GoStep DEF AllLocks, Steps, Owns, Live, At, WShape, Free, AllAborts, Publish
<1>2. UNCHANGED <<run, stop, manual, ipc>> /\ Spends /\ (flag' = flag \/ flag' \notin SweepFlags)
  BY DEF AllLocks, SweepRest, service, gpu, Spends, Fault, SweepFlags
<1>3. Hw
  BY DEF AllLocks, Hw, WShape, NvapiReset, Stock, OffsetSet, gpu, AllAborts
<1>4. Soaked(t)
  <2>1. thr[t].pc # "package" /\ thr'[t].pc # "package"
    BY GoStep DEF AllLocks, At, WShape, Free, AllAborts, Publish
  <2> QED
    BY <2>1 DEF Soaked, At
<1> QED
  BY <1>1, <1>2, <1>3, <1>4, PackageStepEffects DEF PackageStep

LEMMA AllCoreSetsEffects ==
    ASSUME WShape, NEW t \in Threads, AllCoreSets(t)
    PROVE  Effects(t)
<1>1. /\ Steps(t) /\ thr[t].kind \in {"forge_all", "benchmark"}
      /\ \/ shown' = shown /\ (Owns(t) \/ ~ Owns(t)')
         \/ shown' = [shown EXCEPT ![thr[t].kind] = TRUE]
         \/ shown' = [shown EXCEPT ![thr[t].kind] = FALSE] /\ ~ Owns(t)'
  BY GoStep DEF AllCoreSets, Steps, Owns, Live, At, WShape, Free, AllAborts, Publish
<1>2. UNCHANGED <<run, stop, manual, ipc>> /\ Spends /\ (flag' = flag \/ flag' \notin SweepFlags)
  BY DEF AllCoreSets, SweepRest, service, gpu, Spends, Fault, SweepFlags
<1>3. Hw
  BY DEF AllCoreSets, Hw, WShape, NvapiReset, Stock, OffsetSet, gpu, AllAborts
<1>4. Soaked(t)
  <2>1. thr[t].pc # "package" /\ thr'[t].pc # "package"
    BY GoStep DEF AllCoreSets, At, WShape, Free, AllAborts, Publish
  <2> QED
    BY <2>1 DEF Soaked, At
<1> QED
  BY <1>1, <1>2, <1>3, <1>4, PackageStepEffects DEF PackageStep

LEMMA AllCoreHoldsEffects ==
    ASSUME WShape, NEW t \in Threads, AllCoreHolds(t)
    PROVE  Effects(t)
<1>1. /\ Steps(t) /\ thr[t].kind \in {"forge_all", "benchmark"}
      /\ \/ shown' = shown /\ (Owns(t) \/ ~ Owns(t)')
         \/ shown' = [shown EXCEPT ![thr[t].kind] = TRUE]
         \/ shown' = [shown EXCEPT ![thr[t].kind] = FALSE] /\ ~ Owns(t)'
  BY GoStep DEF AllCoreHolds, Steps, Owns, Live, At, WShape, Free, AllAborts, Publish
<1>2. UNCHANGED <<run, stop, manual, ipc>> /\ Spends /\ (flag' = flag \/ flag' \notin SweepFlags)
  BY DEF AllCoreHolds, SweepRest, service, gpu, Spends, Fault, SweepFlags
<1>3. Hw
  BY DEF AllCoreHolds, Hw, WShape, NvapiReset, Stock, OffsetSet, gpu, AllAborts
<1>4. Soaked(t)
  BY GoStep DEF AllCoreHolds, Soaked, PackageOK, At, WShape, Free, AllAborts, SweepRest
<1> QED
  BY <1>1, <1>2, <1>3, <1>4, PackageStepEffects DEF PackageStep

LEMMA AllCoreFailsEffects ==
    ASSUME WShape, NEW t \in Threads, AllCoreFails(t)
    PROVE  Effects(t)
<1>1. /\ Steps(t) /\ thr[t].kind \in {"forge_all", "benchmark"}
      /\ \/ shown' = shown /\ (Owns(t) \/ ~ Owns(t)')
         \/ shown' = [shown EXCEPT ![thr[t].kind] = TRUE]
         \/ shown' = [shown EXCEPT ![thr[t].kind] = FALSE] /\ ~ Owns(t)'
  BY GoStep DEF AllCoreFails, Steps, Owns, Live, At, WShape, Free, AllAborts, Publish
<1>2. UNCHANGED <<run, stop, manual, ipc>> /\ Spends /\ (flag' = flag \/ flag' \notin SweepFlags)
  BY DEF AllCoreFails, SweepRest, service, gpu, Spends, Fault, SweepFlags
<1>3. Hw
  BY DEF AllCoreFails, Hw, WShape, NvapiReset, Stock, OffsetSet, gpu, AllAborts
<1>4. Soaked(t)
  BY GoStep DEF AllCoreFails, Soaked, PackageOK, At, WShape, Free, AllAborts, SweepRest
<1> QED
  BY <1>1, <1>2, <1>3, <1>4, PackageStepEffects DEF PackageStep

LEMMA AllCoreEndsEffects ==
    ASSUME WShape, NEW t \in Threads, AllCoreEnds(t)
    PROVE  Effects(t)
<1>1. /\ Steps(t) /\ thr[t].kind \in {"forge_all", "benchmark"}
      /\ \/ shown' = shown /\ (Owns(t) \/ ~ Owns(t)')
         \/ shown' = [shown EXCEPT ![thr[t].kind] = TRUE]
         \/ shown' = [shown EXCEPT ![thr[t].kind] = FALSE] /\ ~ Owns(t)'
  BY GoStep DEF AllCoreEnds, Steps, Owns, Live, At, WShape, Free, AllAborts, Publish
<1>2. UNCHANGED <<run, stop, manual, ipc>> /\ Spends /\ (flag' = flag \/ flag' \notin SweepFlags)
  BY DEF AllCoreEnds, SweepRest, service, gpu, Spends, Fault, SweepFlags
<1>3. Hw
  <2>1. DOMAIN OffsetSet(hw, 0) = DOMAIN Stock /\ OffsetSet(hw, 0).cap \in BOOLEAN
    BY OffsetSetShape DEF WShape
  <2> QED
    BY <2>1, CoreAppliedShape DEF AllCoreEnds, Hw, WShape
<1>4. Soaked(t)
  BY GoStep DEF AllCoreEnds, Soaked, PackageOK, At, WShape, Free, AllAborts, SweepRest
<1> QED
  BY <1>1, <1>2, <1>3, <1>4, PackageStepEffects DEF PackageStep

LEMMA AllMemSetsEffects ==
    ASSUME WShape, NEW t \in Threads, AllMemSets(t)
    PROVE  Effects(t)
<1>1. /\ Steps(t) /\ thr[t].kind \in {"forge_all", "benchmark"}
      /\ \/ shown' = shown /\ (Owns(t) \/ ~ Owns(t)')
         \/ shown' = [shown EXCEPT ![thr[t].kind] = TRUE]
         \/ shown' = [shown EXCEPT ![thr[t].kind] = FALSE] /\ ~ Owns(t)'
  BY GoStep DEF AllMemSets, Steps, Owns, Live, At, WShape, Free, AllAborts, Publish
<1>2. UNCHANGED <<run, stop, manual, ipc>> /\ Spends /\ (flag' = flag \/ flag' \notin SweepFlags)
  BY DEF AllMemSets, SweepRest, service, gpu, Spends, Fault, SweepFlags
<1>3. Hw
  BY DEF AllMemSets, Hw, WShape, NvapiReset, Stock, OffsetSet, gpu, AllAborts
<1>4. Soaked(t)
  BY GoStep DEF AllMemSets, Soaked, PackageOK, At, WShape, Free, AllAborts, SweepRest
<1> QED
  BY <1>1, <1>2, <1>3, <1>4, PackageStepEffects DEF PackageStep

LEMMA AllMemHoldsEffects ==
    ASSUME WShape, NEW t \in Threads, AllMemHolds(t)
    PROVE  Effects(t)
<1>1. /\ Steps(t) /\ thr[t].kind \in {"forge_all", "benchmark"}
      /\ \/ shown' = shown /\ (Owns(t) \/ ~ Owns(t)')
         \/ shown' = [shown EXCEPT ![thr[t].kind] = TRUE]
         \/ shown' = [shown EXCEPT ![thr[t].kind] = FALSE] /\ ~ Owns(t)'
  BY GoStep DEF AllMemHolds, Steps, Owns, Live, At, WShape, Free, AllAborts, Publish
<1>2. UNCHANGED <<run, stop, manual, ipc>> /\ Spends /\ (flag' = flag \/ flag' \notin SweepFlags)
  BY DEF AllMemHolds, SweepRest, service, gpu, Spends, Fault, SweepFlags
<1>3. Hw
  BY DEF AllMemHolds, Hw, WShape, NvapiReset, Stock, OffsetSet, gpu, AllAborts
<1>4. Soaked(t)
  BY GoStep DEF AllMemHolds, Soaked, PackageOK, At, WShape, Free, AllAborts, SweepRest
<1> QED
  BY <1>1, <1>2, <1>3, <1>4, PackageStepEffects DEF PackageStep

LEMMA AllMemFailsEffects ==
    ASSUME WShape, NEW t \in Threads, AllMemFails(t)
    PROVE  Effects(t)
<1>1. /\ Steps(t) /\ thr[t].kind \in {"forge_all", "benchmark"}
      /\ \/ shown' = shown /\ (Owns(t) \/ ~ Owns(t)')
         \/ shown' = [shown EXCEPT ![thr[t].kind] = TRUE]
         \/ shown' = [shown EXCEPT ![thr[t].kind] = FALSE] /\ ~ Owns(t)'
  BY GoStep DEF AllMemFails, Steps, Owns, Live, At, WShape, Free, AllAborts, Publish
<1>2. UNCHANGED <<run, stop, manual, ipc>> /\ Spends /\ (flag' = flag \/ flag' \notin SweepFlags)
  BY DEF AllMemFails, SweepRest, service, gpu, Spends, Fault, SweepFlags
<1>3. Hw
  BY DEF AllMemFails, Hw, WShape, NvapiReset, Stock, OffsetSet, gpu, AllAborts
<1>4. Soaked(t)
  BY GoStep DEF AllMemFails, Soaked, PackageOK, At, WShape, Free, AllAborts, SweepRest
<1> QED
  BY <1>1, <1>2, <1>3, <1>4, PackageStepEffects DEF PackageStep

LEMMA AllMemEndsEffects ==
    ASSUME WShape, NEW t \in Threads, AllMemEnds(t)
    PROVE  Effects(t)
<1>1. /\ Steps(t) /\ thr[t].kind \in {"forge_all", "benchmark"}
      /\ \/ shown' = shown /\ (Owns(t) \/ ~ Owns(t)')
         \/ shown' = [shown EXCEPT ![thr[t].kind] = TRUE]
         \/ shown' = [shown EXCEPT ![thr[t].kind] = FALSE] /\ ~ Owns(t)'
  BY GoStep DEF AllMemEnds, Steps, Owns, Live, At, WShape, Free, AllAborts, Publish
<1>2. UNCHANGED <<run, stop, manual, ipc>> /\ Spends /\ (flag' = flag \/ flag' \notin SweepFlags)
  BY DEF AllMemEnds, SweepRest, service, gpu, Spends, Fault, SweepFlags
<1>3. Hw
  <2>1. PICK h : h = [hw EXCEPT !.mem = 0]
    OBVIOUS
  <2>2. DOMAIN h = DOMAIN Stock /\ h.cap \in BOOLEAN
    BY <2>1 DEF WShape, Stock
  <2> QED
    BY <2>1, <2>2, CoreAppliedShape DEF AllMemEnds, Hw, WShape
<1>4. Soaked(t)
  BY GoStep DEF AllMemEnds, Soaked, PackageOK, At, WShape, Free, AllAborts, SweepRest
<1> QED
  BY <1>1, <1>2, <1>3, <1>4, PackageStepEffects DEF PackageStep

LEMMA AllSoakHoldsEffects ==
    ASSUME WShape, NEW t \in Threads, AllSoakHolds(t)
    PROVE  Effects(t)
<1>1. /\ Steps(t) /\ thr[t].kind \in {"forge_all", "benchmark"}
      /\ \/ shown' = shown /\ (Owns(t) \/ ~ Owns(t)')
         \/ shown' = [shown EXCEPT ![thr[t].kind] = TRUE]
         \/ shown' = [shown EXCEPT ![thr[t].kind] = FALSE] /\ ~ Owns(t)'
  BY GoStep DEF AllSoakHolds, Steps, Owns, Live, At, WShape, Free, AllAborts, Publish
<1>2. UNCHANGED <<run, stop, manual, ipc>> /\ Spends /\ (flag' = flag \/ flag' \notin SweepFlags)
  BY DEF AllSoakHolds, SweepRest, service, gpu, Spends, Fault, SweepFlags
<1>3. Hw
  BY DEF AllSoakHolds, Hw, WShape, NvapiReset, Stock, OffsetSet, gpu, AllAborts
<1>4. Soaked(t)
  BY GoStep DEF AllSoakHolds, Soaked, PackageOK, At, WShape, Free, AllAborts, SweepRest
<1> QED
  BY <1>1, <1>2, <1>3, <1>4, PackageStepEffects DEF PackageStep

LEMMA AllSoakFailsEffects ==
    ASSUME WShape, NEW t \in Threads, AllSoakFails(t)
    PROVE  Effects(t)
<1>1. /\ Steps(t) /\ thr[t].kind \in {"forge_all", "benchmark"}
      /\ \/ shown' = shown /\ (Owns(t) \/ ~ Owns(t)')
         \/ shown' = [shown EXCEPT ![thr[t].kind] = TRUE]
         \/ shown' = [shown EXCEPT ![thr[t].kind] = FALSE] /\ ~ Owns(t)'
  BY GoStep DEF AllSoakFails, Steps, Owns, Live, At, WShape, Free, AllAborts, Publish
<1>2. UNCHANGED <<run, stop, manual, ipc>> /\ Spends /\ (flag' = flag \/ flag' \notin SweepFlags)
  BY DEF AllSoakFails, SweepRest, service, gpu, Spends, Fault, SweepFlags
<1>3. Hw
  <2>1. PICK h : h = [hw EXCEPT !.mem = 0]
    OBVIOUS
  <2>2. DOMAIN h = DOMAIN Stock /\ h.cap \in BOOLEAN
    BY <2>1 DEF WShape, Stock
  <2>3. hw' = [hw EXCEPT !.mem = Clip(thr[t].off)] \/ hw' \in CoreApplied(h)
    BY <2>1 DEF AllSoakFails
  <2>4. CASE hw' \in CoreApplied(h)
    BY <2>2, <2>4, CoreAppliedShape DEF Hw, WShape
  <2>5. CASE hw' = [hw EXCEPT !.mem = Clip(thr[t].off)]
    BY <2>5 DEF Hw, WShape, Stock
  <2> QED
    BY <2>3, <2>4, <2>5
<1>4. Soaked(t)
  BY GoStep DEF AllSoakFails, Soaked, PackageOK, At, WShape, Free, AllAborts, SweepRest
<1> QED
  BY <1>1, <1>2, <1>3, <1>4, PackageStepEffects DEF PackageStep

LEMMA AllPackageEffects ==
    ASSUME WShape, NEW t \in Threads, AllPackage(t)
    PROVE  Effects(t)
<1>1. /\ Steps(t) /\ thr[t].kind \in {"forge_all", "benchmark"}
      /\ \/ shown' = shown /\ (Owns(t) \/ ~ Owns(t)')
         \/ shown' = [shown EXCEPT ![thr[t].kind] = TRUE]
         \/ shown' = [shown EXCEPT ![thr[t].kind] = FALSE] /\ ~ Owns(t)'
  BY GoStep DEF AllPackage, Steps, Owns, Live, At, WShape, Free, AllAborts, Publish
<1>2. UNCHANGED <<run, stop, manual, ipc>> /\ Spends /\ (flag' = flag \/ flag' \notin SweepFlags)
  BY DEF AllPackage, SweepRest, service, gpu, Spends, Fault, SweepFlags
<1>3. Hw
  <2>1. PICK m, p : hw' \in {[h1 EXCEPT !.mem = IF m > 0 THEN m ELSE @] :
                                h1 \in IF p THEN CoreApplied(hw) ELSE {hw}}
    BY DEF AllPackage
  <2> QED
    BY <2>1, MemAppliedShape DEF Hw, WShape
<1>4. Soaked(t)
  BY GoStep DEF AllPackage, Soaked, PackageOK, At, WShape, Free, AllAborts, SweepRest
<1> QED
  BY <1>1, <1>2, <1>3, <1>4, PackageStepEffects DEF PackageStep

LEMMA BenchBeginsEffects ==
    ASSUME WShape, NEW t \in Threads, BenchBegins(t)
    PROVE  Effects(t)
<1>1. /\ Steps(t) /\ thr[t].kind \in {"forge_all", "benchmark"}
      /\ \/ shown' = shown /\ (Owns(t) \/ ~ Owns(t)')
         \/ shown' = [shown EXCEPT ![thr[t].kind] = TRUE]
         \/ shown' = [shown EXCEPT ![thr[t].kind] = FALSE] /\ ~ Owns(t)'
  BY GoStep DEF BenchBegins, Steps, Owns, Live, At, WShape, Free, AllAborts, Publish
<1>2. UNCHANGED <<run, stop, manual, ipc>> /\ Spends /\ (flag' = flag \/ flag' \notin SweepFlags)
  BY DEF BenchBegins, SweepRest, service, gpu, Spends, Fault, SweepFlags
<1>3. Hw
  BY DEF BenchBegins, Hw, WShape, NvapiReset, Stock, OffsetSet, gpu, AllAborts
<1>4. Soaked(t)
  <2>1. thr[t].pc # "package" /\ thr'[t].pc # "package"
    BY GoStep DEF BenchBegins, At, WShape, Free, AllAborts, Publish
  <2> QED
    BY <2>1 DEF Soaked, At
<1> QED
  BY <1>1, <1>2, <1>3, <1>4, PackageStepEffects DEF PackageStep

LEMMA BenchStockEffects ==
    ASSUME WShape, NEW t \in Threads, BenchStock(t)
    PROVE  Effects(t)
<1>1. /\ Steps(t) /\ thr[t].kind \in {"forge_all", "benchmark"}
      /\ \/ shown' = shown /\ (Owns(t) \/ ~ Owns(t)')
         \/ shown' = [shown EXCEPT ![thr[t].kind] = TRUE]
         \/ shown' = [shown EXCEPT ![thr[t].kind] = FALSE] /\ ~ Owns(t)'
  BY GoStep DEF BenchStock, Steps, Owns, Live, At, WShape, Free, AllAborts, Publish
<1>2. UNCHANGED <<run, stop, manual, ipc>> /\ Spends /\ (flag' = flag \/ flag' \notin SweepFlags)
  BY DEF BenchStock, SweepRest, service, gpu, Spends, Fault, SweepFlags
<1>3. Hw
  BY DEF BenchStock, Hw, WShape, NvapiReset, Stock, OffsetSet, gpu, AllAborts
<1>4. Soaked(t)
  BY GoStep DEF BenchStock, Soaked, PackageOK, At, WShape, Free, AllAborts, SweepRest
<1> QED
  BY <1>1, <1>2, <1>3, <1>4, PackageStepEffects DEF PackageStep

LEMMA BenchRestoresEffects ==
    ASSUME WShape, NEW t \in Threads, BenchRestores(t)
    PROVE  Effects(t)
<1>1. /\ Steps(t) /\ thr[t].kind \in {"forge_all", "benchmark"}
      /\ \/ shown' = shown /\ (Owns(t) \/ ~ Owns(t)')
         \/ shown' = [shown EXCEPT ![thr[t].kind] = TRUE]
         \/ shown' = [shown EXCEPT ![thr[t].kind] = FALSE] /\ ~ Owns(t)'
  BY GoStep DEF BenchRestores, Steps, Owns, Live, At, WShape, Free, AllAborts, Publish
<1>2. UNCHANGED <<run, stop, manual, ipc>> /\ Spends /\ (flag' = flag \/ flag' \notin SweepFlags)
  BY DEF BenchRestores, SweepRest, service, gpu, Spends, Fault, SweepFlags
<1>3. Hw
  <2>1. PICK m, p : hw' \in {[h1 EXCEPT !.mem = IF m > 0 THEN m ELSE @] :
                                h1 \in IF p THEN CoreApplied(hw) ELSE {hw}}
    BY DEF BenchRestores, ApplyLegacy
  <2> QED
    BY <2>1, MemAppliedShape DEF Hw, WShape
<1>4. Soaked(t)
  BY GoStep DEF BenchRestores, Soaked, PackageOK, At, WShape, Free, AllAborts, SweepRest
<1> QED
  BY <1>1, <1>2, <1>3, <1>4, PackageStepEffects DEF PackageStep

LEMMA BenchTunedEffects ==
    ASSUME WShape, NEW t \in Threads, BenchTuned(t)
    PROVE  Effects(t)
<1>1. /\ Steps(t) /\ thr[t].kind \in {"forge_all", "benchmark"}
      /\ \/ shown' = shown /\ (Owns(t) \/ ~ Owns(t)')
         \/ shown' = [shown EXCEPT ![thr[t].kind] = TRUE]
         \/ shown' = [shown EXCEPT ![thr[t].kind] = FALSE] /\ ~ Owns(t)'
  BY GoStep DEF BenchTuned, Steps, Owns, Live, At, WShape, Free, AllAborts, Publish
<1>2. UNCHANGED <<run, stop, manual, ipc>> /\ Spends /\ (flag' = flag \/ flag' \notin SweepFlags)
  BY DEF BenchTuned, SweepRest, service, gpu, Spends, Fault, SweepFlags
<1>3. Hw
  BY DEF BenchTuned, Hw, WShape, NvapiReset, Stock, OffsetSet, gpu, AllAborts
<1>4. Soaked(t)
  BY GoStep DEF BenchTuned, Soaked, PackageOK, At, WShape, Free, AllAborts, SweepRest
<1> QED
  BY <1>1, <1>2, <1>3, <1>4, PackageStepEffects DEF PackageStep

(* The lab and the Forge worker.                                           *)
OtherStep(t) ==
    /\ Steps(t) /\ thr[t].kind \in {"lab", "power"}
    /\ UNCHANGED <<run, stop, ipc>>
    /\ \/ shown' = shown /\ (Owns(t) \/ ~ Owns(t)')
       \/ shown' = [shown EXCEPT ![thr[t].kind] = TRUE]
       \/ shown' = [shown EXCEPT ![thr[t].kind] = FALSE] /\ ~ Owns(t)'
    /\ thr[t].kind = "power" => manual' = manual
    /\ Hw /\ Spends
    /\ flag' = flag \/ flag' \notin SweepFlags

LEMMA OtherStepEffects ==
    ASSUME WShape, NEW t \in Threads, OtherStep(t), Harmless(t)
    PROVE  Effects(t)
<1> USE DEF OtherStep, Steps
<1>1. Moves(t)
  BY DEF Moves, WShape
<1>2. Flags(t) /\ Soaked(t)
  BY DEF Flags, Soaked, At, Sweeping, Sweeps
<1> QED
  BY <1>1, <1>2 DEF Effects

LEMMA HardwareFails ==
    ASSUME WShape, ResetHardwareFails
    PROVE  used' # used /\ Spends /\ Hw
<1>1. used' # used /\ Spends
  BY DEF ResetHardwareFails, Fault, Spends, WShape
<1>2. Hw
  BY DEF ResetHardwareFails, Hw, WShape, NvapiReset, Stock
<1> QED
  BY <1>1, <1>2

LEMMA Disarmed ==
    ASSUME WShape, ResetAndDisarm
    PROVE  /\ hw' = Stock /\ hw' = NvapiReset(hw') /\ flag' = "none" /\ used' = used
           /\ Spends /\ Hw
  BY DEF ResetAndDisarm, Spends, Hw, WShape, NvapiReset, Stock

LEMMA AtStock ==
    ASSUME WShape, hw' = Stock
    PROVE  hw' = NvapiReset(hw') /\ Hw /\ ~ hw'.cap
  BY DEF NvapiReset, Stock, Hw, WShape

(* A reset of the lab that works, or an error that ends the account.       *)
LEMMA TakesBack ==
    ASSUME WShape, NEW t \in Threads, Steps(t), Owns(t), thr[t].kind = "lab",
           UNCHANGED <<handles, ipc>>,
           \/ ResetAndDisarm /\ (manual' = manual \/ manual' = PointAtStock)
           \/ ResetHardwareFails /\ flag' = flag
    PROVE  Effects(t)
<1>1. CASE ResetAndDisarm /\ (manual' = manual \/ manual' = PointAtStock)
  <2>1. Harmless(t)
    BY <1>1, Disarmed DEF Harmless, PointAtStock
  <2> QED
    BY <1>1, <2>1, Disarmed, OtherStepEffects DEF OtherStep, handles, SweepFlags
<1>2. CASE ResetHardwareFails /\ flag' = flag
  <2>1. Harmless(t)
    BY <1>2, HardwareFails DEF Harmless
  <2> QED
    BY <1>2, <2>1, HardwareFails, OtherStepEffects DEF OtherStep, handles
<1> QED
  BY <1>1, <1>2

LEMMA LabResets ==
    ASSUME WShape, NEW t \in Threads,
           \/ LabCalibrates(t) \/ LabRejects(t) \/ LabRestores(t)
           \/ At(t, "lab", "error") /\ \E tdr \in BOOLEAN : LabRecovers(t, tdr)
           \/ thr[t].kind = "lab" /\ thr[t].pc \in {"over", "passed"} /\ LabRecovers(t, TRUE)
    PROVE  Effects(t)
<1>1. /\ Steps(t) /\ Owns(t) /\ thr[t].kind = "lab" /\ UNCHANGED <<handles, ipc>>
      /\ \/ ResetAndDisarm /\ (manual' = manual \/ manual' = PointAtStock)
         \/ ResetHardwareFails /\ flag' = flag
  <2>1. CASE LabCalibrates(t)
    BY <2>1, GoStep DEF LabCalibrates, LabRest, Steps, Owns, Live, At
  <2>2. CASE LabRejects(t)
    BY <2>2, GoStep DEF LabRejects, LabRest, Steps, Owns, Live, At
  <2>3. CASE LabRestores(t)
    BY <2>3, GoStep DEF LabRestores, LabRest, Steps, Owns, Live, At
  <2>4. CASE /\ thr[t].kind = "lab" /\ thr[t].pc \in {"error", "over", "passed"}
             /\ \E tdr \in BOOLEAN : LabRecovers(t, tdr)
    BY <2>4, GoStep DEF LabRecovers, LabRest, Steps, Owns, Live, At
  <2> QED
    BY <2>1, <2>2, <2>3, <2>4 DEF At
<1> QED
  BY <1>1, TakesBack

LEMMA LabGoesOn ==
    ASSUME WShape, NEW t \in Threads,
           \/ LabControls(t) \/ LabArms(t) \/ LabWrites(t) \/ LabOwnsPoint(t)
           \/ LabDwells(t) \/ LabStopped(t)
           \/ /\ thr[t].kind = "lab" /\ thr[t].pc \in {"over", "passed"}
              /\ Go(t, "end") /\ UNCHANGED <<gpu, stored, LabRest, latch, manual, used>>
    PROVE  Effects(t)
<1>1. /\ Steps(t) /\ Owns(t) /\ thr[t].kind = "lab"
      /\ ~ Sweeps(t) /\ ~ Sweeping(t)
  BY GoStep DEF LabControls, LabArms, LabWrites, LabOwnsPoint, LabDwells, LabStopped,
                Steps, Owns, Live, At, Sweeps, Sweeping
<1>2. UNCHANGED <<handles, ipc>> /\ (flag' = flag \/ flag' \notin SweepFlags)
  <2>1. CASE LabControls(t)
    BY <2>1 DEF LabControls, LabRest, gpu, SweepFlags
  <2>2. CASE LabArms(t)
    BY <2>2 DEF LabArms, LabRest, gpu, SweepFlags
  <2>3. CASE LabWrites(t)
    BY <2>3 DEF LabWrites, LabRest, gpu, SweepFlags
  <2>4. CASE LabOwnsPoint(t)
    BY <2>4 DEF LabOwnsPoint, LabRest, gpu, SweepFlags
  <2>5. CASE LabDwells(t)
    BY <2>5 DEF LabDwells, LabRest, gpu, SweepFlags
  <2>6. CASE LabStopped(t)
    BY <2>6 DEF LabStopped, LabRest, gpu, SweepFlags
  <2>7. CASE UNCHANGED <<gpu, stored, LabRest, latch, manual, used>>
    BY <2>7 DEF LabRest, gpu, SweepFlags
  <2> QED
    BY <2>1, <2>2, <2>3, <2>4, <2>5, <2>6, <2>7
<1>3. Hw /\ Spends
  <2>1. CASE LabWrites(t)
    <3>1. hw' = ManualHw \/ hw' = Stock
      BY <2>1 DEF LabWrites
    <3>2. Hw
      <4>1. CASE hw' = ManualHw
        BY <4>1 DEF Hw, WShape, ManualHw, Stock
      <4> QED
        BY <3>1, <4>1, AtStock
    <3> QED
      BY <2>1, <3>2 DEF LabWrites, Spends, Fault
  <2>2. CASE hw' = hw /\ used' = used
    BY <2>2 DEF Hw, Spends, WShape
  <2> QED
    BY <2>1, <2>2 DEF LabControls, LabArms, LabOwnsPoint, LabDwells, LabStopped, gpu
<1>4. Harmless(t)
  <2>1. CASE LabControls(t)
    BY <1>1, <2>1 DEF LabControls, Harmless, Restores, At, gpu
  <2>2. CASE LabArms(t)
    BY <1>1, <2>2 DEF LabArms, Harmless, Restores, At, Stopped
  <2>3. CASE LabWrites(t)
    <3>1. CASE hw' = ManualHw /\ Go(t, "applied") /\ UNCHANGED used
      <4>1. Restores(t)' /\ flag' = flag /\ manual' = manual
        BY <1>1, <2>3, <3>1, GoStep DEF LabWrites, Restores, Steps
      <4> QED
        BY <1>1, <4>1 DEF Harmless
    <3>2. CASE Fault
      BY <3>2 DEF Harmless, Fault, WShape
    <3> QED
      BY <2>3, <3>1, <3>2 DEF LabWrites
  <2>4. CASE LabOwnsPoint(t)
    <3>1. CASE Stopped(t)
      <4>1. Restores(t)' /\ flag' = flag /\ manual' = manual /\ hw' = hw
        BY <1>1, <2>4, <3>1, GoStep DEF LabOwnsPoint, Restores, Steps, gpu
      <4> QED
        BY <1>1, <4>1 DEF Harmless
    <3>2. CASE ~ Stopped(t)
      BY <1>1, <3>2 DEF Harmless, Stopped
    <3> QED
      BY <3>1, <3>2
  <2>5. CASE LabDwells(t)
    BY <1>1, <2>5 DEF LabDwells, Harmless, Restores, At, gpu
  <2>6. CASE LabStopped(t)
    BY <1>1, <2>6 DEF LabStopped, Harmless, Restores, At, gpu, PointAtStock
  <2>7. CASE /\ thr[t].kind = "lab" /\ thr[t].pc \in {"over", "passed"}
             /\ UNCHANGED <<gpu, stored, LabRest, latch, manual, used>>
    BY <1>1, <2>7 DEF Harmless, Restores, gpu
  <2> QED
    BY <2>1, <2>2, <2>3, <2>4, <2>5, <2>6, <2>7
<1> QED
  BY <1>1, <1>2, <1>3, <1>4, OtherStepEffects DEF OtherStep, handles

LEMMA ForgeEffects ==
    ASSUME WShape, NEW t \in Threads,
           \/ ForgeBegins(t) \/ ForgeChecks(t) \/ ForgeTries(t) \/ ForgeRestores(t)
           \/ ForgeConcludes(t) \/ ForgePanics(t)
    PROVE  Effects(t)
<1> USE DEF ForgeBegins, ForgeChecks, ForgeTries, ForgeRestores, ForgeConcludes, ForgePanics,
            ForgePublishes
<1>1. /\ Steps(t) /\ thr[t].kind = "power" /\ ~ Sweeps(t) /\ ~ Sweeping(t) /\ ~ Restores(t)
      /\ \/ shown' = shown /\ (Owns(t) \/ ~ Owns(t)')
         \/ shown' = [shown EXCEPT ![thr[t].kind] = TRUE]
         \/ shown' = [shown EXCEPT ![thr[t].kind] = FALSE] /\ ~ Owns(t)'
  <2>1. CASE ForgeBegins(t)
    BY <2>1, GoStep DEF Steps, Owns, Live, At, Sweeps, Sweeping, Restores, Publish
  <2>2. CASE ForgeChecks(t)
    BY <2>2, GoStep DEF Steps, Owns, Live, At, Sweeps, Sweeping, Restores, Publish
  <2>3. CASE ForgeTries(t)
    BY <2>3 DEF Steps, Owns, Live, At, Sweeps, Sweeping, Restores, Publish, WShape, Free
  <2>4. CASE ForgeRestores(t)
    BY <2>4, GoStep DEF Steps, Owns, Live, At, Sweeps, Sweeping, Restores, Publish
  <2>5. CASE ForgeConcludes(t)
    BY <2>5, GoStep DEF Steps, Owns, Live, At, Sweeps, Sweeping, Restores, Publish
  <2>6. CASE ForgePanics(t)
    BY <2>6, GoStep DEF Steps, Owns, Live, At, Sweeps, Sweeping, Restores, Publish
  <2> QED
    BY <2>1, <2>2, <2>3, <2>4, <2>5, <2>6
<1>2. /\ UNCHANGED <<run, stop, ipc, manual>> /\ (flag' = flag \/ flag' \notin SweepFlags)
      /\ Spends
  BY DEF SweepFlags, gpu, service, Spends, Panic
<1>3. Hw
  <2>1. hw' = hw \/ hw' = Stock \/ hw' = [Stock EXCEPT !.vf = "anchored", !.vlock = TRUE, !.cap = TRUE]
    BY DEF gpu, Stock, Publish
  <2>2. CASE hw' = hw
    BY <2>2 DEF Hw, WShape
  <2>3. CASE hw' = Stock
    BY <2>3, AtStock
  <2>4. CASE hw' = [Stock EXCEPT !.vf = "anchored", !.vlock = TRUE, !.cap = TRUE]
    BY <2>4 DEF Hw, WShape, Stock
  <2> QED
    BY <2>1, <2>2, <2>3, <2>4
<1>4. Harmless(t)
  <2>1. CASE ForgeTries(t)
    BY <1>1, <2>1 DEF Harmless, Stopped
  <2>2. CASE ForgePanics(t)
    BY <2>2 DEF Harmless, Panic, WShape
  <2>3. CASE ForgeBegins(t)
    BY <1>1, <2>3 DEF Harmless, gpu
  <2>4. CASE ForgeChecks(t) \/ ForgeRestores(t) \/ ForgeConcludes(t)
    <3>1. UNCHANGED <<hw, flag, manual>> \/ (hw' = Stock /\ flag' = "none" /\ manual' = manual)
      BY <2>4 DEF gpu, service
    <3> QED
      BY <1>1, <3>1, AtStock DEF Harmless
  <2> QED
    BY <2>1, <2>2, <2>3, <2>4
<1> QED
  BY <1>1, <1>2, <1>3, <1>4, OtherStepEffects DEF OtherStep

(* Every step of a worker.                                                 *)
LEMMA WorkerEffects ==
    ASSUME WShape, NEW t \in Threads, Worker(t) \/ Panics(t)
    PROVE  Effects(t)
<1>1. CASE ValidationRuns(t)
  BY <1>1, ValidationEffects
<1>2. CASE MemSweep(t)
  BY <1>2, MemInner, SweepInnerEffects, SweepBegins, SweepEnds DEF MemSweep
<1>3. CASE RealSweep(t)
  BY <1>3, RealInner, SweepInnerEffects, SweepBegins, SweepEnds, RealVramEffects DEF RealSweep
<1>4. CASE ForgeAll(t)
  BY <1>4, AllBeginsEffects, AllVramEffects, AllLocksEffects, AllCoreSetsEffects,
     AllCoreHoldsEffects, AllCoreFailsEffects, AllCoreEndsEffects, AllMemSetsEffects,
     AllMemHoldsEffects, AllMemFailsEffects, AllMemEndsEffects, AllSoakHoldsEffects,
     AllSoakFailsEffects, AllPackageEffects DEF ForgeAll
<1>5. CASE Benchmark(t)
  BY <1>5, BenchBeginsEffects, BenchStockEffects, BenchRestoresEffects, BenchTunedEffects
     DEF Benchmark
<1>6. CASE Lab(t)
  BY <1>6, LabResets, LabGoesOn, ExitEffects DEF Lab, LabConcludes
<1>7. CASE ForgeWorker(t) \/ ForgePanics(t)
  BY <1>7, ForgeEffects, ExitEffects DEF ForgeWorker
<1>8. CASE Exit(t)
  BY <1>8, ExitEffects
<1>9. CASE ValidationPanics(t) \/ MemPanics(t) \/ AllMemPanics(t)
  BY <1>9, DiesEffects DEF ValidationPanics, MemPanics, AllMemPanics, At, Live
<1> QED
  BY <1>1, <1>2, <1>3, <1>4, <1>5, <1>6, <1>7, <1>8, <1>9 DEF Worker, Panics

-----------------------------------------------------------------------------
(* The invariant is kept by every worker.                                  *)

LEMMA WorkerKeepsShape ==
    ASSUME WShape, NEW t \in Threads, Effects(t)
    PROVE  WShape'
<1> USE DEF Effects, Moves
<1>1. /\ DOMAIN thr' = Threads /\ \A u \in Threads : DOMAIN thr'[u] = DOMAIN Free
      /\ \A u \in Threads : thr'[u].kind \in Kinds \cup {"free"} /\ thr'[u].shared \in BOOLEAN
  <2>1. DOMAIN thr' = Threads /\ \A u \in Threads \ {t} : thr'[u] = thr[u]
    BY DEF WShape
  <2>2. /\ DOMAIN thr'[t] = DOMAIN Free
        /\ thr'[t].kind \in Kinds \cup {"free"} /\ thr'[t].shared \in BOOLEAN
    <3>1. CASE thr'[t] = Free
      <4>1. Free.kind = "free" /\ Free.shared = FALSE
        BY DEF Free
      <4> QED
        BY <3>1, <4>1
    <3>2. CASE thr'[t].kind = thr[t].kind /\ thr'[t].shared = thr[t].shared
      <4>1. thr[t].kind \in Kinds \cup {"free"} /\ thr[t].shared \in BOOLEAN /\ DOMAIN thr'[t] = DOMAIN Free
        BY DEF WShape
      <4> QED
        BY <3>2, <4>1
    <3> QED
      BY <3>1, <3>2
  <2> QED
    BY <2>1, <2>2 DEF WShape
<1>2. /\ DOMAIN run' = Kinds /\ DOMAIN shown' = Kinds /\ DOMAIN stop' = Kinds
      /\ DOMAIN hw' = DOMAIN Stock /\ hw'.cap \in BOOLEAN
  BY DEF WShape, Hw
<1>3. /\ DOMAIN used' = {"grants", "resets", "panics", "faults", "reset", "overlap"}
      /\ used'.panics \in Nat /\ used'.faults \in Nat
  BY DEF WShape, Spends
<1> QED
  BY <1>1, <1>2, <1>3 DEF WShape

LEMMA WorkerKeepsLease ==
    ASSUME WShape, LeaseOK, NEW t \in Threads, Effects(t)
    PROVE  LeaseOK'
<1>1. /\ t \in Live /\ \A u \in Threads \ {t} : thr'[u] = thr[u]
      /\ t \in Live' => thr'[t].kind = thr[t].kind /\ thr'[t].shared = thr[t].shared
      /\ \A u \in Threads \ {t} : u \in Live' <=> u \in Live
      /\ Live' \subseteq Threads /\ Live \subseteq Threads
  BY DEF Effects, Moves, WShape, Live, Free
<1>2. \A u \in Live' : u \in Live /\ thr'[u].kind = thr[u].kind /\ thr'[u].shared = thr[u].shared
                       /\ thr[u].kind \in Kinds
  BY <1>1 DEF WShape, Live
<1>3. \A u, w \in Live' : u # w => thr'[u].shared /\ thr'[w].shared
  BY <1>2 DEF LeaseOK
<1>4. \A u, w \in Live' : thr'[u].kind = thr'[w].kind /\ thr'[u].kind # "power" => u = w
  BY <1>2 DEF LeaseOK
<1>5. \A u \in Live' : thr'[u].kind # "power" => run'[thr'[u].kind]
  <2> SUFFICES ASSUME NEW u \in Live', thr'[u].kind # "power"
               PROVE  run'[thr'[u].kind]
    OBVIOUS
  <2>1. run[thr[u].kind] /\ thr[u].kind \in Kinds /\ thr'[u].kind = thr[u].kind
    BY <1>2 DEF LeaseOK
  <2>2. ~ (thr'[t] = Free /\ thr[u].kind = thr[t].kind)
    BY <1>1, <1>2 DEF LeaseOK, Live, Free
  <2> QED
    BY <2>1, <2>2 DEF Effects, Moves
<1>6. \A u \in Live' : Owns(u)' /\ (thr'[u].kind # "power" \/ ~ thr'[u].shared) => shown'[thr'[u].kind]
  <2> SUFFICES ASSUME NEW u \in Live', Owns(u)', thr'[u].kind # "power" \/ ~ thr'[u].shared
               PROVE  shown'[thr'[u].kind]
    OBVIOUS
  <2>1. CASE u = t
    BY <1>1, <1>2, <2>1 DEF Effects, Moves, LeaseOK
  <2>2. CASE u # t
    <3>1. thr[u].kind # thr[t].kind
      BY <1>1, <1>2, <2>2 DEF LeaseOK
    <3>2. Owns(u) /\ u \in Live /\ thr'[u] = thr[u]
      BY <1>1, <1>2, <2>2 DEF Owns
    <3> QED
      BY <1>2, <3>1, <3>2 DEF Effects, Moves, LeaseOK
  <2> QED
    BY <2>1, <2>2
<1>7. \A u \in Live' : ~ thr'[u].shared /\ thr'[u].kind # "lab" =>
          ~ manual'.active /\ \A k \in Kinds \ {thr'[u].kind} : ~ shown'[k]
  <2> SUFFICES ASSUME NEW u \in Live', ~ thr'[u].shared, thr'[u].kind # "lab"
               PROVE  ~ manual'.active /\ \A k \in Kinds \ {thr'[u].kind} : ~ shown'[k]
    OBVIOUS
  <2>1. u = t
    BY <1>1, <1>2 DEF LeaseOK
  <2> QED
    BY <1>2, <2>1 DEF Effects, Moves, LeaseOK
<1>8. ipc' # "idle" => \A u \in Live' : thr'[u].shared
  BY <1>2 DEF Effects, Moves, LeaseOK
<1> QED
  BY <1>3, <1>4, <1>5, <1>6, <1>7, <1>8 DEF LeaseOK

LEMMA WorkerKeepsFlag ==
    ASSUME WShape, LeaseOK, LeaseOK', SweepFlagOK, NEW t \in Threads, Effects(t)
    PROVE  SweepFlagOK'
<1> SUFFICES ASSUME flag' \in SweepFlags
             PROVE  \E k \in {"real", "mem"} :
                        /\ run'[k] /\ shown'[k]
                        /\ \A u \in Live' : thr'[u].kind = k => Owns(u)' /\ thr'[u].pc # "vram"
  BY DEF SweepFlagOK
<1>1. CASE Sweeping(t)'
  <2>1. thr'[t].kind \in {"real", "mem"} /\ t \in Live' /\ Owns(t)' /\ thr'[t].pc # "vram"
    BY <1>1 DEF Sweeping, Sweeps, Owns
  <2>2. run'[thr'[t].kind] /\ shown'[thr'[t].kind]
    BY <2>1 DEF LeaseOK
  <2>3. \A u \in Live' : thr'[u].kind = thr'[t].kind => u = t
    BY <2>1 DEF LeaseOK
  <2> QED
    BY <2>1, <2>2, <2>3
<1>2. CASE ~ Sweeping(t)'
  <2>1. flag' = flag /\ flag \in SweepFlags /\ flag # "none"
    BY <1>2 DEF Effects, Flags, SweepFlags
  <2>2. PICK k \in {"real", "mem"} :
            /\ run[k] /\ shown[k]
            /\ \A u \in Live : thr[u].kind = k => Owns(u) /\ thr[u].pc # "vram"
    BY <2>1 DEF SweepFlagOK
  <2>3. /\ t \in Live /\ \A u \in Threads \ {t} : thr'[u] = thr[u]
        /\ thr'[t] = Free \/ thr'[t].kind = thr[t].kind
    BY DEF Effects, Moves, WShape
  <2>4. CASE thr[t].kind = k
    <3>1. Sweeping(t)
      BY <2>2, <2>3, <2>4 DEF Sweeping, Sweeps
    <3>2. thr'[t] = Free /\ run' = run /\ shown' = shown
      BY <1>2, <2>1, <3>1 DEF Effects, Flags
    <3>3. \A u \in Live' : thr'[u].kind # k
      <4> SUFFICES ASSUME NEW u \in Live', thr'[u].kind = k
                   PROVE  FALSE
        OBVIOUS
      <4>1. u # t /\ u \in Live /\ t \in Live /\ thr[u].kind = k
        BY <2>3, <3>2 DEF Live, Free
      <4> QED
        BY <2>2, <2>4, <4>1 DEF LeaseOK
    <3> QED
      BY <2>2, <3>2, <3>3
  <2>5. CASE thr[t].kind # k
    <3>1. run'[k] /\ shown'[k]
      BY <2>2, <2>5 DEF Effects, Moves, Kinds
    <3>2. \A u \in Live' : thr'[u].kind = k => Owns(u)' /\ thr'[u].pc # "vram"
      BY <2>2, <2>3, <2>5 DEF Live, Owns, Free
    <3> QED
      BY <3>1, <3>2
  <2> QED
    BY <2>4, <2>5
<1> QED
  BY <1>1, <1>2

LEMMA WorkerKeepsReset ==
    ASSUME WShape, ResetOK, NEW t \in Threads, Effects(t)
    PROVE  ResetOK'
<1> SUFFICES ASSUME used'.reset
             PROVE  ResetOK'
  BY DEF ResetOK
<1>1. used.reset
  BY DEF Effects, Spends, WShape
<1>2. /\ t \in Live /\ \A u \in Threads \ {t} : thr'[u] = thr[u]
      /\ thr'[t].kind \in {"free", thr[t].kind} /\ ipc' = ipc /\ stop' = stop
  BY DEF Effects, Moves, WShape, Free
<1>3. \A k \in Kinds : k # "validation" => stop'[k]
  BY <1>1, <1>2 DEF ResetOK
<1>4. \A u \in Live' : thr'[u].kind \notin {"forge_all", "benchmark"}
  BY <1>1, <1>2 DEF ResetOK, Live
<1>5. ASSUME used'.panics + used'.faults = 0
      PROVE  /\ used.panics + used.faults = 0 /\ used' = used
             /\ thr[t].kind \notin {"forge_all", "benchmark"}
             /\ thr[t].kind = "validation" \/ stop[thr[t].kind]
  <2>1. used' = used
    BY <1>5 DEF Effects, Spends, WShape
  <2>2. thr[t].kind \in Kinds
    BY <1>2 DEF WShape, Live
  <2> QED
    BY <1>1, <1>2, <1>5, <2>1, <2>2 DEF ResetOK
<1>6. ASSUME used'.panics + used'.faults = 0, ipc' \in {"idle", "disarm", "disarm_full"}
      PROVE  /\ hw'.cap => \E u \in Live' : Restores(u)'
             /\ hw' # NvapiReset(hw') => \E u \in Live' : Restores(u)' \/ Sweeps(u)'
  <2>1. /\ hw.cap => \E u \in Live : Restores(u)
        /\ hw # NvapiReset(hw) => \E u \in Live : Restores(u) \/ Sweeps(u)
    BY <1>1, <1>2, <1>5, <1>6 DEF ResetOK
  <2>2. \A u \in Live \ {t} : u \in Live' /\ (Restores(u) => Restores(u)') /\ (Sweeps(u) => Sweeps(u)')
    BY <1>2 DEF Live, Restores, Sweeps, Owns
  <2>3. Restores(t)' \/ Sweeps(t)' => t \in Live'
    BY <1>2 DEF Live, Restores, Sweeps, Owns
  <2>4. ASSUME hw'.cap PROVE \E u \in Live' : Restores(u)'
    <3>1. CASE hw' = Stock
      BY <2>4, <3>1 DEF Stock
    <3>2. CASE (Restores(t) => Restores(t)') /\ (hw'.cap => hw.cap \/ Restores(t)')
      BY <2>1, <2>2, <2>3, <2>4, <3>2
    <3> QED
      BY <1>5, <1>6, <3>1, <3>2 DEF Effects, Harmless
  <2>5. ASSUME hw' # NvapiReset(hw') PROVE \E u \in Live' : Restores(u)' \/ Sweeps(u)'
    <3>1. /\ Restores(t) \/ Sweeps(t) => Restores(t)' \/ Sweeps(t)'
          /\ hw' = hw \/ Restores(t)' \/ Sweeps(t)'
      BY <1>5, <1>6, <2>5 DEF Effects, Harmless
    <3> QED
      BY <2>1, <2>2, <2>3, <2>5, <3>1
  <2> QED
    BY <2>4, <2>5
<1>7. ASSUME used'.panics + used'.faults = 0, ipc' = "idle"
      PROVE  /\ ~ manual'.active
             /\ flag' # "none" => \E u \in Live' : Sweeps(u)' /\ thr'[u].pc # "vram"
  <2>1. ~ manual.active /\ (flag # "none" => \E u \in Live : Sweeping(u))
    BY <1>1, <1>2, <1>5, <1>7 DEF ResetOK, Sweeping
  <2>2. \A u \in Live \ {t} : u \in Live' /\ (Sweeping(u) => Sweeping(u)')
    BY <1>2 DEF Live, Sweeping, Sweeps, Owns
  <2>3. Sweeping(t)' => t \in Live'
    BY <1>2 DEF Live, Sweeping, Sweeps, Owns
  <2>4. ~ manual'.active
    BY <1>5, <1>7, <2>1 DEF Effects, Harmless
  <2>5. ASSUME flag' # "none" PROVE \E u \in Live' : Sweeping(u)'
    <3>1. (Sweeping(t) => Sweeping(t)') /\ (flag' = flag \/ Sweeping(t)')
      BY <1>5, <1>7, <2>5 DEF Effects, Harmless
    <3> QED
      BY <2>1, <2>2, <2>3, <2>5, <3>1
  <2> QED
    BY <2>4, <2>5 DEF Sweeping
<1> QED
  BY <1>3, <1>4, <1>6, <1>7 DEF ResetOK

LEMMA WorkerKeepsPackage ==
    ASSUME WShape, PackageOK, NEW t \in Threads, Effects(t)
    PROVE  PackageOK'
<1>1. \A u \in Threads \ {t} : thr'[u] = thr[u]
  BY DEF Effects, Moves, WShape
<1> QED
  BY <1>1 DEF Effects, Soaked, PackageOK, At

LEMMA WorkerKeepsInv ==
    ASSUME WorkersInv, NEW t \in Threads, Effects(t)
    PROVE  WorkersInv'
  BY WorkerKeepsShape, WorkerKeepsLease, WorkerKeepsFlag, WorkerKeepsPackage, WorkerKeepsReset
     DEF WorkersInv

-----------------------------------------------------------------------------
(* The invariant is kept by every request.                                 *)

(* No worker moves; those that are alive may be marked as overlapping.     *)
Still ==
    /\ DOMAIN thr' = Threads /\ \A u \in Threads : DOMAIN thr'[u] = DOMAIN Free
    /\ \A u \in Threads :
          /\ thr'[u].kind = thr[u].kind /\ thr'[u].pc = thr[u].pc /\ thr'[u].bad = thr[u].bad
          /\ thr'[u].off = thr[u].off /\ thr'[u].soaked = thr[u].soaked
          /\ thr'[u].shared = thr[u].shared \/ thr'[u].shared = TRUE

AllShared == \A u \in Live : thr'[u].shared = TRUE

LEMMA MarkedIsStill ==
    ASSUME WShape, thr' = Marked
    PROVE  Still /\ AllShared /\ \A u \in Threads : thr[u].shared => thr'[u] = thr[u]
<1>1. DOMAIN thr' = Threads
  BY DEF Marked
<1>2. ASSUME NEW u \in Threads, u \in Live, ~ thr[u].shared
      PROVE  thr'[u] = [thr[u] EXCEPT !.shared = TRUE]
  BY <1>2 DEF Marked
<1>3. ASSUME NEW u \in Threads, u \notin Live \/ thr[u].shared
      PROVE  thr'[u] = thr[u]
  BY <1>3 DEF Marked
<1>4. ASSUME NEW u \in Threads
      PROVE  /\ DOMAIN thr'[u] = DOMAIN Free
             /\ thr'[u].kind = thr[u].kind /\ thr'[u].pc = thr[u].pc /\ thr'[u].bad = thr[u].bad
             /\ thr'[u].off = thr[u].off /\ thr'[u].soaked = thr[u].soaked
             /\ thr'[u].shared = thr[u].shared \/ thr'[u].shared = TRUE
             /\ u \in Live => thr'[u].shared = TRUE
  <2>1. CASE u \in Live /\ ~ thr[u].shared
    <3>1. thr'[u] = [thr[u] EXCEPT !.shared = TRUE] /\ DOMAIN thr[u] = DOMAIN Free
      BY <1>2, <2>1 DEF WShape
    <3> QED
      BY <3>1 DEF Free
  <2>2. CASE u \notin Live \/ thr[u].shared
    <3>1. thr'[u] = thr[u] /\ DOMAIN thr[u] = DOMAIN Free /\ thr[u].shared \in BOOLEAN
      BY <1>3, <2>2 DEF WShape
    <3> QED
      BY <2>2, <3>1
  <2> QED
    BY <2>1, <2>2
<1> QED
  BY <1>1, <1>3, <1>4 DEF Still, AllShared, Live

LEMMA SameIsStill ==
    ASSUME WShape, thr' = thr
    PROVE  Still
  BY DEF Still, WShape

LEMMA StillFacts ==
    ASSUME WShape, Still
    PROVE  /\ Live' = Live
           /\ \A u \in Threads : /\ (Owns(u)' <=> Owns(u)) /\ (Sweeps(u)' <=> Sweeps(u))
                                 /\ (Restores(u)' <=> Restores(u))
  BY DEF Still, Live, Owns, Sweeps, Restores

(* Either everybody alive is marked, or nothing that the lease is about    *)
(* gets stronger.                                                          *)
LEMMA StillKeepsLease ==
    ASSUME WShape, LeaseOK, Still,
           \A k \in Kinds \ {"power"} : run'[k] = run[k] /\ shown'[k] = shown[k],
           \/ AllShared
           \/ /\ thr' = thr /\ shown' = shown
              /\ manual'.active => manual.active
              /\ ipc' # "idle" => ipc # "idle"
    PROVE  LeaseOK'
<1>1. /\ Live' = Live /\ Live \subseteq Threads
      /\ \A u \in Threads : (Owns(u)' <=> Owns(u))
      /\ \A u \in Threads : thr'[u].kind = thr[u].kind
      /\ \A u \in Live : thr[u].kind \in Kinds
  BY StillFacts DEF Still, Live, WShape
<1>2. CASE AllShared
  <2>1. \A u \in Live' : thr'[u].shared = TRUE
    BY <1>1, <1>2 DEF AllShared
  <2>2. \A u, w \in Live' : thr'[u].kind = thr'[w].kind /\ thr'[u].kind # "power" => u = w
    BY <1>1 DEF LeaseOK
  <2>3. \A u \in Live' : thr'[u].kind # "power" => run'[thr'[u].kind]
    BY <1>1 DEF LeaseOK
  <2>4. \A u \in Live' : Owns(u)' /\ (thr'[u].kind # "power" \/ ~ thr'[u].shared) => shown'[thr'[u].kind]
    BY <1>1, <2>1 DEF LeaseOK
  <2> QED
    BY <2>1, <2>2, <2>3, <2>4 DEF LeaseOK
<1>3. CASE /\ thr' = thr /\ shown' = shown
           /\ manual'.active => manual.active
           /\ ipc' # "idle" => ipc # "idle"
  <2>1. \A u \in Live' : thr'[u].kind # "power" => run'[thr'[u].kind]
    BY <1>1, <1>3 DEF LeaseOK
  <2>2. \A u \in Live' : ~ thr'[u].shared /\ thr'[u].kind # "lab" =>
          ~ manual'.active /\ \A k \in Kinds \ {thr'[u].kind} : ~ shown'[k]
    BY <1>1, <1>3 DEF LeaseOK
  <2> QED
    BY <1>1, <1>3, <2>1, <2>2 DEF LeaseOK
<1> QED
  BY <1>2, <1>3

LEMMA StillKeepsFlag ==
    ASSUME WShape, SweepFlagOK, Still,
           \A k \in Kinds \ {"power"} : run'[k] = run[k] /\ shown'[k] = shown[k],
           flag' = flag \/ flag' \notin SweepFlags
    PROVE  SweepFlagOK'
<1> SUFFICES ASSUME flag' \in SweepFlags
             PROVE  \E k \in {"real", "mem"} :
                        /\ run'[k] /\ shown'[k]
                        /\ \A u \in Live' : thr'[u].kind = k => Owns(u)' /\ thr'[u].pc # "vram"
  BY DEF SweepFlagOK
<1>1. PICK k \in {"real", "mem"} :
            /\ run[k] /\ shown[k]
            /\ \A u \in Live : thr[u].kind = k => Owns(u) /\ thr[u].pc # "vram"
  BY DEF SweepFlagOK, SweepFlags
<1>2. run'[k] /\ shown'[k]
  BY <1>1 DEF Kinds
<1>3. \A u \in Live' : u \in Live /\ u \in Threads /\ thr'[u].kind = thr[u].kind /\ thr'[u].pc = thr[u].pc
                      /\ (Owns(u)' <=> Owns(u))
  BY StillFacts DEF Still, Live
<1> QED
  BY <1>1, <1>2, <1>3

LEMMA StillKeepsPackage ==
    ASSUME PackageOK, Still
    PROVE  PackageOK'
  BY DEF PackageOK, Still, At

(* The shape, of the variables other than the threads.                     *)
CellsOK ==
    /\ DOMAIN run' = Kinds /\ DOMAIN shown' = Kinds /\ DOMAIN stop' = Kinds
    /\ DOMAIN hw' = DOMAIN Stock /\ hw'.cap \in BOOLEAN
    /\ DOMAIN used' = {"grants", "resets", "panics", "faults", "reset", "overlap"}
    /\ used'.panics \in Nat /\ used'.faults \in Nat

LEMMA StillKeepsShape ==
    ASSUME WShape, Still, CellsOK
    PROVE  WShape'
<1>1. \A u \in Threads : thr'[u].kind \in Kinds \cup {"free"} /\ thr'[u].shared \in BOOLEAN
  BY DEF WShape, Still
<1> QED
  BY <1>1 DEF WShape, Still, CellsOK

(* A request that is granted, or made in the middle of nothing, is no      *)
(* reset any more.                                                         *)
LEMMA StillKeepsInv ==
    ASSUME WorkersInv, Still, CellsOK, ResetOK',
           \A k \in Kinds \ {"power"} : run'[k] = run[k] /\ shown'[k] = shown[k],
           flag' = flag \/ flag' \notin SweepFlags,
           \/ AllShared
           \/ /\ thr' = thr /\ shown' = shown
              /\ manual'.active => manual.active
              /\ ipc' # "idle" => ipc # "idle"
    PROVE  WorkersInv'
  BY StillKeepsLease, StillKeepsFlag, StillKeepsPackage, StillKeepsShape DEF WorkersInv

UsedOK ==
    /\ DOMAIN used' = {"grants", "resets", "panics", "faults", "reset", "overlap"}
    /\ used'.panics \in Nat /\ used'.faults \in Nat

LEMMA Spending ==
    ASSUME WShape, NEW g, NEW f \in Nat, Spend(g, f)
    PROVE  used'.reset = FALSE /\ UsedOK
<1>1. PICK b : used' = [used EXCEPT !.grants = @ + g, !.faults = @ + f, !.reset = FALSE, !.overlap = b]
  BY DEF Spend
<1> QED
  BY <1>1 DEF WShape, UsedOK

LEMMA ApplyF1Keeps ==
    ASSUME WorkersInv, NEW p, ApplyF1(p)
    PROVE  WorkersInv'
<1> USE DEF WorkersInv
<1>1. thr' = Marked /\ UNCHANGED handles /\ flag' = "gpu_apply"
  BY DEF ApplyF1
<1>2. used'.reset = FALSE /\ UsedOK
  BY Spending DEF ApplyF1, Grant
<1>3. DOMAIN hw' = DOMAIN Stock /\ hw'.cap \in BOOLEAN
  <2>1. CASE hw' \in ApplyLegacy(p, hw)
    <3>1. PICK m, c : hw' \in {[h1 EXCEPT !.mem = IF m > 0 THEN m ELSE @] :
                                h1 \in IF c THEN CoreApplied(hw) ELSE {hw}}
      BY <2>1 DEF ApplyLegacy
    <3> QED
      BY <3>1, MemAppliedShape DEF WShape
  <2>2. CASE hw' = hw
    BY <2>2 DEF WShape
  <2> QED
    BY <2>1, <2>2 DEF ApplyF1
<1>4. ResetOK'
  BY <1>2 DEF ResetOK
<1>5. CellsOK
  BY <1>1, <1>2, <1>3 DEF CellsOK, UsedOK, WShape, handles
<1> QED
  BY <1>1, <1>4, <1>5, MarkedIsStill, StillKeepsInv DEF handles, SweepFlags

LEMMA ApplyPowerProfileKeeps ==
    ASSUME WorkersInv, ApplyPowerProfile
    PROVE  WorkersInv'
<1> USE DEF WorkersInv
<1>1. thr' = Marked /\ UNCHANGED handles /\ flag' = "gpu_apply_undervolt"
  BY DEF ApplyPowerProfile
<1>2. used'.reset = FALSE /\ UsedOK
  BY Spending DEF ApplyPowerProfile, Grant
<1>3. DOMAIN hw' = DOMAIN Stock /\ hw'.cap \in BOOLEAN
  <2>1. PICK m : hw' = [hw EXCEPT !.vf = "anchored", !.vlock = TRUE, !.cap = TRUE, !.mem = m]
    BY DEF ApplyPowerProfile
  <2> QED
    BY <2>1 DEF WShape, Stock
<1>4. ResetOK'
  BY <1>2 DEF ResetOK
<1>5. CellsOK
  BY <1>1, <1>2, <1>3 DEF CellsOK, UsedOK, WShape, handles
<1> QED
  BY <1>1, <1>4, <1>5, MarkedIsStill, StillKeepsInv DEF handles, SweepFlags

LEMMA ApplyManualKeeps ==
    ASSUME WorkersInv, ApplyManual
    PROVE  WorkersInv'
<1> USE DEF WorkersInv
<1>1. thr' = Marked /\ UNCHANGED handles /\ (flag' = flag \/ flag' = "manual_diagnostic_point")
  BY DEF ApplyManual
<1>2. used'.reset = FALSE /\ UsedOK
  BY Spending DEF ApplyManual, Occupy
<1>3. DOMAIN hw' = DOMAIN Stock /\ hw'.cap \in BOOLEAN
  <2>1. hw' = ManualHw \/ hw' = Stock
    BY DEF ApplyManual
  <2>2. CASE hw' = ManualHw
    BY <2>2 DEF ManualHw, Stock
  <2>3. CASE hw' = Stock
    BY <2>3 DEF Stock
  <2> QED
    BY <2>1, <2>2, <2>3
<1>4. ResetOK'
  BY <1>2 DEF ResetOK
<1>5. CellsOK
  BY <1>1, <1>2, <1>3 DEF CellsOK, UsedOK, WShape, handles
<1> QED
  BY <1>1, <1>4, <1>5, MarkedIsStill, StillKeepsInv DEF handles, SweepFlags

LEMMA FaultCells ==
    ASSUME WShape, ResetHardwareFails
    PROVE  /\ UsedOK /\ used'.reset = used.reset /\ used'.panics + used'.faults # 0
           /\ DOMAIN hw' = DOMAIN Stock /\ hw'.cap \in BOOLEAN
<1>1. UsedOK /\ used'.reset = used.reset /\ used'.panics + used'.faults # 0
  BY DEF ResetHardwareFails, Fault, WShape, UsedOK
<1> QED
  BY <1>1, HardwareFails DEF Hw, WShape

(* With a failing driver call the reset's account ends.                    *)
LEMMA FaultKeepsReset ==
    ASSUME WShape, ResetOK, thr' = thr, stop' = stop, ResetHardwareFails
    PROVE  ResetOK'
<1>1. Live' = Live
  BY DEF Live
<1> QED
  BY <1>1, FaultCells DEF ResetOK

LEMMA ResetManualKeeps ==
    ASSUME WorkersInv, ResetManual
    PROVE  WorkersInv'
<1> USE DEF WorkersInv
<1>1. thr' = thr /\ UNCHANGED <<run, shown, stop, ipc>> /\ ipc = "idle"
  BY DEF ResetManual, handles, Idle
<1>2. Live' = Live
  BY <1>1 DEF Live
<1>3. CASE ResetAndDisarm /\ manual' = PointAtStock
  <2>1. ResetOK'
    <3>1. used' = used /\ hw' = NvapiReset(hw') /\ ~ hw'.cap /\ flag' = "none" /\ ~ manual'.active
      BY <1>3, Disarmed, AtStock DEF PointAtStock
    <3> QED
      BY <1>1, <1>2, <3>1 DEF ResetOK
  <2>2. CellsOK
    BY <1>1, <1>3 DEF CellsOK, WShape, ResetAndDisarm, Stock
  <2> QED
    BY <1>1, <1>3, <2>1, <2>2, SameIsStill, StillKeepsInv, Disarmed DEF SweepFlags, PointAtStock
<1>4. CASE ResetHardwareFails /\ UNCHANGED <<flag, stored, manual>>
  <2>1. CellsOK
    BY <1>1, <1>4, FaultCells DEF CellsOK, WShape, UsedOK
  <2> QED
    BY <1>1, <1>4, <2>1, FaultKeepsReset, SameIsStill, StillKeepsInv
<1> QED
  BY <1>3, <1>4 DEF ResetManual

LEMMA SimpleRequestsKeep ==
    ASSUME WorkersInv,
           \/ \E k \in Kinds : StopWorker(k)
           \/ AcknowledgeForgeIncident \/ TimerFires
    PROVE  WorkersInv'
<1> USE DEF WorkersInv
<1>1. /\ UNCHANGED <<thr, run, shown, hw, manual, ipc, used>>
      /\ stop' = stop \/ \E k \in Kinds : stop' = [stop EXCEPT ![k] = TRUE]
      /\ flag' = flag \/ flag' = "none"
  <2>1. CASE \E k \in Kinds : StopWorker(k)
    BY <2>1 DEF StopWorker, gpu, service
  <2>2. CASE AcknowledgeForgeIncident
    BY <2>2 DEF AcknowledgeForgeIncident, gpu, handles
  <2>3. CASE TimerFires
    BY <2>3 DEF TimerFires, service, handles
  <2> QED
    BY <2>1, <2>2, <2>3
<1>2. Live' = Live /\ \A u \in Live : (Sweeps(u)' <=> Sweeps(u)) /\ (Restores(u)' <=> Restores(u))
  BY <1>1 DEF Live, Sweeps, Restores, Owns
<1>3. DOMAIN stop' = Kinds /\ \A k \in Kinds : stop[k] => stop'[k]
  BY <1>1 DEF WShape
<1>4. ResetOK'
  <2>1. used'.reset => used.reset /\ \A k \in Kinds : k # "validation" => stop'[k]
    BY <1>1, <1>3 DEF ResetOK
  <2> QED
    BY <1>1, <1>2, <2>1 DEF ResetOK
<1>5. CellsOK
  BY <1>1, <1>3 DEF CellsOK, WShape
<1> QED
  BY <1>1, <1>4, <1>5, SameIsStill, StillKeepsInv DEF SweepFlags

LEMMA ResetAsksToStopKeeps ==
    ASSUME WorkersInv, ResetAsksToStop
    PROVE  WorkersInv'
<1> USE DEF WorkersInv
<1>1. /\ thr' = Marked /\ UNCHANGED <<run, shown, hw, flag, manual>>
      /\ ipc' \in {"reset", "reset_full"}
      /\ stop' = [k \in Kinds |-> k # "validation" \/ stop[k]]
  BY DEF ResetAsksToStop, gpu
<1>2. Still /\ AllShared
  BY <1>1, MarkedIsStill
<1>3. /\ UsedOK
      /\ used'.reset => \A t \in Live : thr[t].kind \notin {"forge_all", "benchmark"}
  <2>1. PICK b : /\ b = \A t \in Live : thr[t].kind \notin {"forge_all", "benchmark"}
                 /\ used' = [used EXCEPT !.resets = @ + 1, !.reset = b]
    BY DEF ResetAsksToStop
  <2>2. used'.reset = b
    BY <2>1 DEF WShape
  <2>3. UsedOK
    BY <2>1 DEF WShape, UsedOK
  <2> QED
    BY <2>1, <2>2, <2>3
<1>4. \A k \in Kinds : k # "validation" => stop'[k]
  BY <1>1
<1>5. \A t \in Live' : t \in Live /\ thr'[t].kind = thr[t].kind
  BY <1>2, StillFacts DEF Still, Live
<1>6. ResetOK'
  BY <1>1, <1>3, <1>4, <1>5 DEF ResetOK
<1>7. CellsOK
  BY <1>1, <1>3 DEF CellsOK, UsedOK, WShape
<1> QED
  BY <1>1, <1>2, <1>6, <1>7, StillKeepsInv

LEMMA ResetsGpuKeeps ==
    ASSUME WorkersInv, ResetsGpu
    PROVE  WorkersInv'
<1> USE DEF WorkersInv
<1>1. thr' = thr /\ UNCHANGED <<run, shown, stop, flag, manual>> /\ ipc # "idle"
  BY DEF ResetsGpu, handles
<1>2. Live' = Live
  BY <1>1 DEF Live
<1>3. CASE /\ hw' = Stock /\ used' = used
           /\ ipc' = IF ipc = "reset" THEN "disarm" ELSE "disarm_full"
  <2>1. ResetOK'
    BY <1>1, <1>2, <1>3, AtStock DEF ResetOK
  <2>2. CellsOK
    BY <1>1, <1>3, AtStock DEF CellsOK, WShape, Hw
  <2> QED
    BY <1>1, <1>3, <2>1, <2>2, SameIsStill, StillKeepsInv
<1>4. CASE ResetHardwareFails /\ ipc' = "idle"
  <2>1. CellsOK
    BY <1>1, <1>4, FaultCells DEF CellsOK, WShape, UsedOK
  <2> QED
    BY <1>1, <1>4, <2>1, FaultKeepsReset, SameIsStill, StillKeepsInv
<1> QED
  BY <1>3, <1>4 DEF ResetsGpu

LEMMA ResetPublishesKeeps ==
    ASSUME WorkersInv, ResetPublishes
    PROVE  WorkersInv'
<1> USE DEF WorkersInv
<1>1. /\ thr' = thr /\ UNCHANGED <<hw, used>> /\ flag' = "none" /\ manual' = PointAtStock
      /\ run' = [run EXCEPT !["power"] = FALSE]
      /\ shown' = [shown EXCEPT !["power"] = FALSE]
      /\ stop' = [stop EXCEPT !["power"] = TRUE]
      /\ ipc \in {"disarm", "disarm_full"} /\ ipc' = "idle"
  BY DEF ResetPublishes
<1>2. Still /\ AllShared
  <2>1. \A u \in Live : thr[u].shared /\ thr[u].shared \in BOOLEAN
    BY <1>1 DEF LeaseOK, WShape, Live
  <2> QED
    BY <1>1, <2>1, SameIsStill DEF AllShared
<1>3. Live' = Live /\ \A u \in Live : (Sweeps(u)' <=> Sweeps(u)) /\ (Restores(u)' <=> Restores(u))
  BY <1>1 DEF Live, Sweeps, Restores, Owns
<1>4. ResetOK'
  <2>1. ~ manual'.active
    BY <1>1 DEF PointAtStock
  <2>2. used'.reset => \A k \in Kinds : k # "validation" => stop'[k]
    BY <1>1 DEF ResetOK, WShape
  <2> QED
    BY <1>1, <1>3, <2>1, <2>2 DEF ResetOK
<1>5. CellsOK
  BY <1>1 DEF CellsOK, WShape
<1>6. \A k \in Kinds \ {"power"} : run'[k] = run[k] /\ shown'[k] = shown[k]
  BY <1>1 DEF WShape
<1> QED
  BY <1>1, <1>2, <1>4, <1>5, <1>6, StillKeepsInv DEF SweepFlags

(* A start: one more worker, and everybody alive marked.                   *)
Spawned(k, n) ==
    /\ n \in Threads \ Live /\ ~ run[k]
    /\ DOMAIN thr' = Threads /\ \A u \in Threads : DOMAIN thr'[u] = DOMAIN Free
    /\ thr'[n].kind = k
    /\ thr'[n].shared \in BOOLEAN /\ (thr'[n].shared <=> Live # {})
    /\ \A u \in Threads \ {n} :
          /\ thr'[u].kind = thr[u].kind /\ thr'[u].pc = thr[u].pc /\ thr'[u].bad = thr[u].bad
          /\ thr'[u].off = thr[u].off /\ thr'[u].soaked = thr[u].soaked
          /\ IF u \in Live THEN thr'[u].shared = TRUE ELSE thr'[u] = thr[u]
    /\ run' = [run EXCEPT ![k] = TRUE] /\ stop' = [stop EXCEPT ![k] = FALSE]
    /\ \/ thr'[n].pc = "gap" /\ shown' = shown
       \/ thr'[n].pc = "init" /\ shown' = [shown EXCEPT ![k] = TRUE]

LEMMA SpawnSpawns ==
    ASSUME WShape, NEW k \in Kinds, ~ run[k],
           NEW n \in Threads \ Live, NEW b \in BOOLEAN, b <=> Live # {},
           NEW c \in {"init", "gap"},
           DOMAIN thr' = Threads,
           thr'[n] = [NewThread(k) EXCEPT !.shared = b, !.pc = c],
           \A u \in Threads \ {n} :
              thr'[u] = IF u \in Live THEN [thr[u] EXCEPT !.shared = TRUE] ELSE thr[u],
           run' = [run EXCEPT ![k] = TRUE], stop' = [stop EXCEPT ![k] = FALSE],
           shown' = IF c = "init" THEN [shown EXCEPT ![k] = TRUE] ELSE shown
    PROVE  Spawned(k, n)
<1>1. PICK r : r = [NewThread(k) EXCEPT !.shared = b, !.pc = c]
  OBVIOUS
<1>2. /\ DOMAIN thr'[n] = DOMAIN Free /\ thr'[n].kind = k /\ thr'[n].shared = b /\ thr'[n].pc = c
  <2>1. thr'[n] = r
    BY <1>1
  <2>2. DOMAIN r = DOMAIN Free /\ r.kind = k /\ r.shared = b /\ r.pc = c
    BY <1>1 DEF NewThread, Free
  <2> QED
    BY <2>1, <2>2
<1>3. ASSUME NEW u \in Threads \ {n}
      PROVE  /\ DOMAIN thr'[u] = DOMAIN Free
             /\ thr'[u].kind = thr[u].kind /\ thr'[u].pc = thr[u].pc /\ thr'[u].bad = thr[u].bad
             /\ thr'[u].off = thr[u].off /\ thr'[u].soaked = thr[u].soaked
             /\ IF u \in Live THEN thr'[u].shared = TRUE ELSE thr'[u] = thr[u]
  <2>1. CASE u \in Live
    <3>1. thr'[u] = [thr[u] EXCEPT !.shared = TRUE] /\ DOMAIN thr[u] = DOMAIN Free
      BY <2>1 DEF WShape
    <3> QED
      BY <2>1, <3>1 DEF Free
  <2>2. CASE u \notin Live
    <3>1. thr'[u] = thr[u] /\ DOMAIN thr[u] = DOMAIN Free
      BY <2>2 DEF WShape
    <3> QED
      BY <2>2, <3>1
  <2> QED
    BY <2>1, <2>2
<1> QED
  BY <1>2, <1>3 DEF Spawned

LEMMA SpawnKeeps ==
    ASSUME WorkersInv, NEW k \in Kinds, NEW n, Spawned(k, n),
           UNCHANGED <<hw, flag, manual, ipc>>, ipc = "idle",
           used'.reset = FALSE, UsedOK,
           k # "lab" => ~ manual.active /\ \A j \in Kinds : ~ shown[j]
    PROVE  WorkersInv'
<1> USE DEF WorkersInv
<1>1. /\ Live' = Live \cup {n} /\ n \notin Live /\ n \in Threads /\ Live \subseteq Threads
      /\ thr'[n].kind = k
      /\ \A u \in Live : /\ u # n /\ thr'[u].shared = TRUE /\ thr'[u].kind = thr[u].kind
                         /\ thr'[u].pc = thr[u].pc /\ (Owns(u)' <=> Owns(u))
                         /\ thr[u].kind \in Kinds
      /\ Live # {} => thr'[n].shared = TRUE
  <2>1. \A u \in Threads \ {n} : thr'[u].kind = thr[u].kind
    BY DEF Spawned
  <2>2. n \in Threads /\ n \notin Live /\ thr'[n].kind = k /\ k # "free"
    BY DEF Spawned, Kinds
  <2>3. Live' = Live \cup {n}
    BY <2>1, <2>2 DEF Live
  <2>4. \A u \in Live : u # n /\ thr'[u].shared = TRUE /\ thr'[u].kind = thr[u].kind /\ thr'[u].pc = thr[u].pc
    BY <2>2 DEF Spawned, Live
  <2>5. \A u \in Live : (Owns(u)' <=> Owns(u)) /\ thr[u].kind \in Kinds
    BY <2>3, <2>4 DEF Owns, WShape, Live
  <2>6. Live # {} => thr'[n].shared = TRUE
    BY DEF Spawned
  <2> QED
    BY <2>2, <2>3, <2>4, <2>5, <2>6 DEF Live
<1>2. \A u, w \in Live' : u # w => thr'[u].shared /\ thr'[w].shared
  BY <1>1
<1>3. \A u \in Live : thr[u].kind = k => k = "power"
  BY DEF LeaseOK, Spawned
<1>4. \A u, w \in Live' : thr'[u].kind = thr'[w].kind /\ thr'[u].kind # "power" => u = w
  BY <1>1, <1>3 DEF LeaseOK
<1>5. run'[k] /\ \A j \in Kinds : (run[j] => run'[j]) /\ (shown[j] => shown'[j])
  BY DEF Spawned, WShape
<1>6. \A u \in Live' : thr'[u].kind # "power" => run'[thr'[u].kind]
  BY <1>1, <1>5 DEF LeaseOK
<1>7. \A u \in Live' : Owns(u)' /\ (thr'[u].kind # "power" \/ ~ thr'[u].shared) => shown'[thr'[u].kind]
  <2>1. Owns(n)' => shown'[k]
    BY DEF Owns, Spawned, WShape
  <2>2. \A u \in Live : Owns(u)' /\ (thr'[u].kind # "power" \/ ~ thr'[u].shared) => shown'[thr'[u].kind]
    BY <1>1, <1>5 DEF LeaseOK
  <2> QED
    BY <1>1, <2>1, <2>2
<1>8. \A u \in Live' : ~ thr'[u].shared /\ thr'[u].kind # "lab" =>
          ~ manual'.active /\ \A j \in Kinds \ {thr'[u].kind} : ~ shown'[j]
  <2> SUFFICES ASSUME NEW u \in Live', ~ thr'[u].shared, thr'[u].kind # "lab"
               PROVE  ~ manual'.active /\ \A j \in Kinds \ {thr'[u].kind} : ~ shown'[j]
    OBVIOUS
  <2>1. u = n /\ k # "lab"
    BY <1>1
  <2>2. \A j \in Kinds \ {k} : shown'[j] = shown[j]
    BY DEF Spawned, WShape
  <2> QED
    BY <1>1, <2>1, <2>2
<1>9. LeaseOK'
  BY <1>2, <1>4, <1>6, <1>7, <1>8 DEF LeaseOK
<1>10. SweepFlagOK'
  <2> SUFFICES ASSUME flag' \in SweepFlags
               PROVE  \E j \in {"real", "mem"} :
                        /\ run'[j] /\ shown'[j]
                        /\ \A u \in Live' : thr'[u].kind = j => Owns(u)' /\ thr'[u].pc # "vram"
    BY DEF SweepFlagOK
  <2>1. PICK j \in {"real", "mem"} :
            /\ run[j] /\ shown[j]
            /\ \A u \in Live : thr[u].kind = j => Owns(u) /\ thr[u].pc # "vram"
    BY DEF SweepFlagOK
  <2>2. k # j
    BY <2>1 DEF Spawned
  <2>3. run'[j] /\ shown'[j]
    BY <1>5, <2>1 DEF Kinds
  <2> QED
    BY <1>1, <2>1, <2>2, <2>3
<1>11. PackageOK'
  BY DEF PackageOK, Spawned, At
<1>12. ResetOK'
  BY DEF ResetOK
<1>13. WShape'
  <2>1. \A u \in Threads : thr'[u].kind \in Kinds \cup {"free"} /\ thr'[u].shared \in BOOLEAN
    BY DEF Spawned, WShape
  <2>2. DOMAIN run' = Kinds /\ DOMAIN shown' = Kinds /\ DOMAIN stop' = Kinds
    BY DEF Spawned, WShape
  <2> QED
    BY <2>1, <2>2 DEF WShape, Spawned, UsedOK
<1> QED
  BY <1>9, <1>10, <1>11, <1>12, <1>13

LEMMA StartsSpawn ==
    ASSUME WorkersInv,
           (\E k \in Kinds : StartLegacy(k)) \/ StartPower \/ StartLab
    PROVE  \E k \in Kinds, n \in Threads :
               /\ Spawned(k, n)
               /\ UNCHANGED <<hw, flag, manual, ipc, stored>> /\ ipc = "idle"
               /\ used'.reset = FALSE /\ UsedOK
               /\ k # "lab" => ~ manual.active /\ \A j \in Kinds : ~ shown[j]
               /\ k = "lab" => manual.active
<1> USE DEF WorkersInv
<1>1. CASE \E k \in Kinds : StartLegacy(k)
  <2>1. PICK k \in Kinds : StartLegacy(k)
    BY <1>1
  <2>2. PICK b \in BOOLEAN : b = (Live # {})
    OBVIOUS
  <2>3. PICK n \in Threads \ Live : Spawned(k, n)
    <3>1. CASE k = "validation"
      <4>1. PICK n \in Threads \ Live :
              /\ DOMAIN thr' = Threads
              /\ thr'[n] = [NewThread(k) EXCEPT !.shared = b, !.pc = "init"]
              /\ \A u \in Threads \ {n} :
                    thr'[u] = IF u \in Live THEN [thr[u] EXCEPT !.shared = TRUE] ELSE thr[u]
        BY <2>1, <2>2, <3>1 DEF StartLegacy, Spawn
      <4>2. /\ ~ run[k] /\ run' = [run EXCEPT ![k] = TRUE] /\ stop' = [stop EXCEPT ![k] = FALSE]
            /\ shown' = [shown EXCEPT ![k] = TRUE]
        BY <2>1, <3>1 DEF StartLegacy, Spawn
      <4> QED
        BY <2>2, <4>1, <4>2, SpawnSpawns
    <3>2. CASE k # "validation"
      <4>1. PICK n \in Threads \ Live :
              /\ DOMAIN thr' = Threads
              /\ thr'[n] = [NewThread(k) EXCEPT !.shared = b, !.pc = "gap"]
              /\ \A u \in Threads \ {n} :
                    thr'[u] = IF u \in Live THEN [thr[u] EXCEPT !.shared = TRUE] ELSE thr[u]
        BY <2>1, <2>2, <3>2 DEF StartLegacy, Spawn
      <4>2. /\ ~ run[k] /\ run' = [run EXCEPT ![k] = TRUE] /\ stop' = [stop EXCEPT ![k] = FALSE]
            /\ shown' = shown
        BY <2>1, <3>2 DEF StartLegacy, Spawn
      <4> QED
        BY <2>2, <4>1, <4>2, SpawnSpawns
    <3> QED
      BY <3>1, <3>2
  <2>4. used'.reset = FALSE /\ UsedOK
    BY <2>1, Spending DEF StartLegacy, Grant
  <2> QED
    BY <2>1, <2>3, <2>4 DEF StartLegacy, gpu, service, Leased, Idle, LeaseHeld
<1>2. CASE StartPower
  <2>0. PICK b \in BOOLEAN : b = (Live # {})
    OBVIOUS
  <2>1. PICK n \in Threads \ Live : Spawned("power", n)
    <3>1. PICK n \in Threads \ Live :
            /\ DOMAIN thr' = Threads
            /\ thr'[n] = [NewThread("power") EXCEPT !.shared = b, !.pc = "gap"]
            /\ \A u \in Threads \ {n} :
                  thr'[u] = IF u \in Live THEN [thr[u] EXCEPT !.shared = TRUE] ELSE thr[u]
      BY <1>2, <2>0 DEF StartPower, Spawn
    <3>2. /\ ~ run["power"] /\ run' = [run EXCEPT !["power"] = TRUE]
          /\ stop' = [stop EXCEPT !["power"] = FALSE] /\ shown' = shown
      BY <1>2 DEF StartPower, Spawn
    <3> QED
      BY <2>0, <3>1, <3>2, SpawnSpawns DEF Kinds
  <2>2. used'.reset = FALSE /\ UsedOK
    BY <1>2, Spending DEF StartPower, Grant
  <2> QED
    BY <1>2, <2>1, <2>2 DEF StartPower, gpu, Leased, Idle, LeaseHeld, Kinds
<1>3. CASE StartLab
  <2>0. PICK b \in BOOLEAN : b = (Live # {})
    OBVIOUS
  <2>1. PICK n \in Threads \ Live : Spawned("lab", n)
    <3>1. PICK n \in Threads \ Live :
            /\ DOMAIN thr' = Threads
            /\ thr'[n] = [NewThread("lab") EXCEPT !.shared = b, !.pc = "init"]
            /\ \A u \in Threads \ {n} :
                  thr'[u] = IF u \in Live THEN [thr[u] EXCEPT !.shared = TRUE] ELSE thr[u]
      BY <1>3, <2>0 DEF StartLab, Spawn
    <3>2. /\ ~ run["lab"] /\ run' = [run EXCEPT !["lab"] = TRUE]
          /\ stop' = [stop EXCEPT !["lab"] = FALSE] /\ shown' = [shown EXCEPT !["lab"] = TRUE]
      BY <1>3 DEF StartLab, Spawn
    <3> QED
      BY <2>0, <3>1, <3>2, SpawnSpawns DEF Kinds
  <2>2. used'.reset = FALSE /\ UsedOK
    BY <1>3, Spending DEF StartLab, Grant
  <2> QED
    BY <1>3, <2>1, <2>2 DEF StartLab, gpu, service, Idle, Kinds
<1> QED
  BY <1>1, <1>2, <1>3

-----------------------------------------------------------------------------
(* The theorems.                                                           *)

LEMMA RequestKeepsInv ==
    ASSUME WorkersInv, Requests \/ Handler \/ TimerFires
    PROVE  WorkersInv'
<1>1. CASE (\E k \in Kinds : StartLegacy(k)) \/ StartPower \/ StartLab
  BY <1>1, StartsSpawn, SpawnKeeps
<1>2. CASE (\E k \in Kinds : StopWorker(k)) \/ AcknowledgeForgeIncident \/ TimerFires
  BY <1>2, SimpleRequestsKeep
<1>3. CASE ApplyGodforge \/ ApplyMemPeak
  <2>1. PICK p : ApplyF1(p)
    BY <1>3 DEF ApplyGodforge, ApplyMemPeak
  <2> QED
    BY <2>1, ApplyF1Keeps
<1>4. CASE ApplyPowerProfile \/ ApplyManual \/ ResetManual \/ ResetAsksToStop
  BY <1>4, ApplyPowerProfileKeeps, ApplyManualKeeps, ResetManualKeeps, ResetAsksToStopKeeps
<1>5. CASE Handler
  BY <1>5, ResetsGpuKeeps, ResetPublishesKeeps DEF Handler
<1> QED
  BY <1>1, <1>2, <1>3, <1>4, <1>5 DEF Requests

LEMMA StutterKeepsInv ==
    ASSUME WorkersInv, UNCHANGED vars
    PROVE  WorkersInv'
<1>1. Live' = Live /\ \A u \in Live : /\ (Owns(u)' <=> Owns(u)) /\ (Sweeps(u)' <=> Sweeps(u))
                                      /\ (Restores(u)' <=> Restores(u))
  BY DEF vars, Live, Owns, Sweeps, Restores
<1>2. WShape' /\ PackageOK'
  BY DEF WorkersInv, vars, WShape, PackageOK, At
<1>3. LeaseOK'
  BY <1>1 DEF WorkersInv, vars, LeaseOK
<1>4. SweepFlagOK'
  BY <1>1 DEF WorkersInv, vars, SweepFlagOK
<1>5. ResetOK'
  BY <1>1 DEF WorkersInv, vars, ResetOK
<1> QED
  BY <1>2, <1>3, <1>4, <1>5 DEF WorkersInv

LEMMA InitInv == LInit => WorkersInv
<1> SUFFICES ASSUME LInit
             PROVE  WorkersInv
  OBVIOUS
<1>1. Live = {}
  BY DEF LInit, Live, Free
<1>2. WShape
  <2>1. DOMAIN thr = Threads /\ \A t \in Threads : thr[t] = Free
    BY DEF LInit
  <2>2. Free.kind = "free" /\ Free.shared = FALSE
    BY DEF Free
  <2>3. /\ DOMAIN run = Kinds /\ DOMAIN shown = Kinds /\ DOMAIN stop = Kinds
        /\ DOMAIN hw = DOMAIN Stock /\ hw.cap \in BOOLEAN
    BY DEF LInit, Stock
  <2>4. /\ DOMAIN used = {"grants", "resets", "panics", "faults", "reset", "overlap"}
        /\ used.panics \in Nat /\ used.faults \in Nat
    BY DEF LInit
  <2> QED
    BY <2>1, <2>2, <2>3, <2>4 DEF WShape
<1>3. LeaseOK
  BY <1>1 DEF LeaseOK
<1>4. SweepFlagOK
  BY DEF LInit, SweepFlagOK, SweepFlags
<1>5. PackageOK
  BY DEF LInit, PackageOK, At, Free
<1>6. ResetOK
  BY DEF LInit, ResetOK
<1> QED
  BY <1>2, <1>3, <1>4, <1>5, <1>6 DEF WorkersInv

LEMMA NextKeepsInv == WorkersInv /\ [WNext]_vars => WorkersInv'
<1> SUFFICES ASSUME WorkersInv, [WNext]_vars
             PROVE  WorkersInv'
  OBVIOUS
<1>1. CASE Requests \/ Handler \/ TimerFires
  BY <1>1, RequestKeepsInv
<1>2. CASE \E t \in Threads : Worker(t) \/ Panics(t)
  BY <1>2, WorkerEffects, WorkerKeepsInv DEF WorkersInv
<1>3. CASE UNCHANGED vars
  BY <1>3, StutterKeepsInv
<1> QED
  BY <1>1, <1>2, <1>3 DEF WNext

(* Type correctness as far as the proofs need it, the lease, the sweeps'   *)
(* flags, the package and the reset's account hold in every state that     *)
(* requests, timers, workers, panics and failing driver calls can reach,   *)
(* for any number of threads.                                              *)
THEOREM LeaseIsKept == WSpec => []WorkersInv
<1>1. LInit => WorkersInv
  BY InitInv
<1>2. WorkersInv /\ [WNext]_vars => WorkersInv'
  BY NextKeepsInv
<1> QED
  BY <1>1, <1>2, PTL DEF WSpec

(* With no worker left, nobody is there to take anything back.             *)
LEMMA ResetOKMeans == WorkersInv => ResetReturnsToStock
<1> SUFFICES ASSUME WorkersInv, used.reset, Idle, Live = {}, used.panics + used.faults = 0
             PROVE  hw = Stock /\ flag = "none" /\ ~ manual.active
  BY DEF ResetReturnsToStock
<1>1. hw = NvapiReset(hw) /\ hw.cap = FALSE /\ flag = "none" /\ ~ manual.active
  BY DEF WorkersInv, ResetOK, WShape, Idle
<1> QED
  BY <1>1 DEF NvapiReset, Stock

(* After an emergency reset (ResetGpuTuning) that was the last request,    *)
(* with every worker gone that it asked to stop, the GPU is at stock, no   *)
(* boot flag is armed and no manual point is reported, although those      *)
(* workers went on writing for a while.                                    *)
THEOREM ResetWins == WSpec => []ResetReturnsToStock
  BY LeaseIsKept, ResetOKMeans, PTL

(* Who uses the GPU and was never overlapped is on show.                   *)
LEMMA HolderIsSeen ==
    ASSUME WorkersInv, NEW t \in Threads, Owns(t), ~ thr[t].shared
    PROVE  shown[thr[t].kind] /\ thr[t].kind \in Kinds
  BY DEF WorkersInv, LeaseOK, Owns, WShape, Live

LEMMA StartsOnlyWhenFree ==
    ASSUME WorkersInv, [WNext]_vars, NEW t \in Threads, NEW u \in Threads,
           t \notin Live, t \in Live', Owns(u)
    PROVE  thr[u].shared
<1>1. CASE (\E k \in Kinds : StartLegacy(k)) \/ StartPower \/ StartLab
  <2>1. PICK k \in Kinds, n \in Threads :
               /\ ~ run[k]
               /\ k # "lab" => ~ manual.active /\ \A j \in Kinds : ~ shown[j]
               /\ k = "lab" => manual.active
    BY <1>1, StartsSpawn DEF Spawned
  <2> SUFFICES ASSUME ~ thr[u].shared
               PROVE  FALSE
    OBVIOUS
  <2>2. shown[thr[u].kind] /\ thr[u].kind \in Kinds
    BY HolderIsSeen
  <2>3. k = "lab" /\ manual.active
    BY <2>1, <2>2
  <2>4. thr[u].kind = "lab" /\ u \in Live
    BY <2>3 DEF WorkersInv, LeaseOK, Owns
  <2>5. run["lab"]
    BY <2>4 DEF WorkersInv, LeaseOK
  <2> QED
    BY <2>1, <2>3, <2>5
<1>2. CASE \E w \in Threads : Worker(w) \/ Panics(w)
  <2>1. PICK w \in Threads : Effects(w)
    BY <1>2, WorkerEffects DEF WorkersInv
  <2>2. w \in Live /\ \A x \in Threads \ {w} : thr'[x] = thr[x]
    BY <2>1 DEF Effects, Moves, WorkersInv, WShape
  <2> QED
    BY <2>2 DEF Live
<1>3. CASE \/ (\E k \in Kinds : StopWorker(k)) \/ AcknowledgeForgeIncident \/ TimerFires
           \/ ResetManual \/ Handler \/ UNCHANGED vars
  <2>1. thr' = thr
    BY <1>3 DEF StopWorker, AcknowledgeForgeIncident, TimerFires, ResetManual, Handler,
                ResetsGpu, ResetPublishes, vars
  <2> QED
    BY <2>1 DEF Live
<1>4. CASE \/ ApplyGodforge \/ ApplyMemPeak \/ ApplyPowerProfile \/ ApplyManual \/ ResetAsksToStop
  <2>1. thr' = Marked
    BY <1>4 DEF ApplyGodforge, ApplyMemPeak, ApplyF1, ApplyPowerProfile, ApplyManual,
         ResetAsksToStop
  <2>2. Live' = Live
    BY <2>1, MarkedIsStill, StillFacts DEF WorkersInv
  <2> QED
    BY <2>2
<1> QED
  BY <1>1, <1>2, <1>3, <1>4 DEF WNext, Requests

(* gpu_operation_running: what is published covers the whole time a worker *)
(* uses the GPU, so that no other is admitted beside it unless it had been *)
(* overlapped before, in its start gap or by a reset.                      *)
THEOREM GrantsOnlyWhenFree == WSpec => GrantedOnlyWhenFree
<1>1. WorkersInv /\ [WNext]_vars =>
        [\A t, u \in Threads :
          (t \notin Live /\ t \in Live' /\ Owns(u)) => thr[u].shared]_vars
  BY StartsOnlyWhenFree
<1> QED
  BY <1>1, LeaseIsKept, PTL DEF WSpec, GrantedOnlyWhenFree

LEMMA SweepEnd ==
    ASSUME WorkersInv, [WNext]_vars, NEW t \in Threads,
           Owns(t), thr[t].kind \in {"real", "mem"}, ~ thr[t].shared,
           thr'[t].pc = "end", thr'[t].kind # "free"
    PROVE  hw' = NvapiReset(hw') /\ flag' \notin SweepFlags
<1>0. thr[t].pc # "end" /\ t \in Live
  BY DEF Owns
<1>1. CASE \E w \in Threads : Worker(w) \/ Panics(w)
  <2>1. PICK w \in Threads : Effects(w)
    BY <1>1, WorkerEffects DEF WorkersInv
  <2>2. w = t
    BY <1>0, <2>1 DEF Effects, Moves, WorkersInv, WShape
  <2>3. hw' = NvapiReset(hw') /\ (flag' = "none" \/ (flag' = flag /\ At(t, "real", "vram")))
    BY <2>1, <2>2 DEF Effects, Flags
  <2>4. CASE flag' = "none"
    BY <2>3, <2>4 DEF SweepFlags
  <2>5. CASE flag' = flag /\ At(t, "real", "vram")
    <3>1. thr[t].kind = "real" /\ thr[t].pc = "vram"
      BY <2>5 DEF At
    <3>2. ~ shown["mem"]
      BY <1>0, <3>1 DEF WorkersInv, LeaseOK, Kinds
    <3>3. flag \notin SweepFlags
      BY <1>0, <3>1, <3>2 DEF WorkersInv, SweepFlagOK
    <3> QED
      BY <2>3, <2>5, <3>3
  <2> QED
    BY <2>3, <2>4, <2>5
<1>2. CASE Requests \/ Handler \/ TimerFires \/ UNCHANGED vars
  <2>1. thr'[t].pc = thr[t].pc
    <3>1. CASE (\E k \in Kinds : StartLegacy(k)) \/ StartPower \/ StartLab
      <4>1. PICK k \in Kinds, n \in Threads : Spawned(k, n)
        BY <3>1, StartsSpawn
      <4> QED
        BY <1>0, <4>1 DEF Spawned
    <3>2. CASE \/ (\E k \in Kinds : StopWorker(k)) \/ AcknowledgeForgeIncident \/ TimerFires
               \/ ResetManual \/ Handler \/ UNCHANGED vars
      BY <3>2 DEF StopWorker, AcknowledgeForgeIncident, TimerFires, ResetManual, Handler,
                ResetsGpu, ResetPublishes, vars
    <3>3. CASE \/ ApplyGodforge \/ ApplyMemPeak \/ ApplyPowerProfile \/ ApplyManual \/ ResetAsksToStop
      <4>1. thr' = Marked
        BY <3>3 DEF ApplyGodforge, ApplyMemPeak, ApplyF1, ApplyPowerProfile, ApplyManual,
             ResetAsksToStop
      <4> QED
        BY <4>1, MarkedIsStill DEF WorkersInv, Still
    <3> QED
      BY <1>2, <3>1, <3>2, <3>3 DEF Requests
  <2> QED
    BY <1>0, <2>1
<1> QED
  BY <1>1, <1>2 DEF WNext

(* However a core or memory sweep ends that was alone (stop, cliff, lost   *)
(* device, failed driver call, cap), no clock, voltage or memory setting   *)
(* and no boot flag of its own is left behind.                             *)
THEOREM SweepsEndAtStock == WSpec => SweepEndsAtStock
<1>1. WorkersInv /\ [WNext]_vars =>
        [\A t \in Threads :
          (/\ Owns(t) /\ thr[t].kind \in {"real", "mem"} /\ ~ thr[t].shared
           /\ thr'[t].pc = "end" /\ thr'[t].kind # "free")
          => hw' = NvapiReset(hw') /\ flag' \notin SweepFlags]_vars
  BY SweepEnd
<1> QED
  BY <1>1, LeaseIsKept, PTL DEF WSpec, SweepEndsAtStock

LEMMA PackageStored ==
    ASSUME WorkersInv, [WNext]_vars, NEW t \in Threads,
           At(t, "forge_all", "package"), stored' # stored, thr'[t] # thr[t]
    PROVE  stored'.mem \in {0, thr[t].soaked}
<1>0. t \in Live /\ Owns(t)
  BY DEF At, Live, Owns
<1>1. CASE \E w \in Threads : Worker(w) \/ Panics(w)
  <2>1. PICK w \in Threads : Effects(w)
    BY <1>1, WorkerEffects DEF WorkersInv
  <2>2. w = t
    BY <2>1 DEF Effects, Moves, WorkersInv, WShape
  <2> QED
    BY <2>1, <2>2 DEF Effects, Soaked, WorkersInv
<1>2. CASE (\E k \in Kinds : StartLegacy(k)) \/ StartPower \/ StartLab
  BY <1>2, StartsSpawn
<1>3. CASE \/ (\E k \in Kinds : StopWorker(k)) \/ AcknowledgeForgeIncident \/ TimerFires
           \/ ResetManual \/ Handler \/ UNCHANGED vars
  BY <1>3 DEF StopWorker, AcknowledgeForgeIncident, TimerFires, ResetManual, Handler,
              ResetsGpu, ResetPublishes, vars
<1>4. CASE ApplyGodforge \/ ApplyMemPeak \/ ApplyPowerProfile
  <2>1. thr' = Marked /\ \A k \in Kinds : ~ shown[k]
    BY <1>4 DEF ApplyGodforge, ApplyMemPeak, ApplyF1, ApplyPowerProfile, Leased, LeaseHeld
  <2>2. thr[t].shared
    BY <1>0, <2>1, HolderIsSeen
  <2> QED
    BY <2>1, <2>2, MarkedIsStill DEF WorkersInv
<1>5. CASE ApplyManual
  BY <1>5 DEF ApplyManual, NoProfile
<1>6. CASE ResetAsksToStop
  BY <1>6 DEF ResetAsksToStop
<1> QED
  BY <1>1, <1>2, <1>3, <1>4, <1>5, <1>6 DEF WNext, Requests

(* Forge-all persists a memory offset only if it held the package soak of  *)
(* this very run; no other request stores a profile meanwhile.             *)
THEOREM PackageIsSoaked == WSpec => PackageWasSoaked
<1>1. WorkersInv /\ [WNext]_vars =>
        [\A t \in Threads :
          At(t, "forge_all", "package") /\ stored' # stored /\ thr'[t] # thr[t]
          => stored'.mem \in {0, thr[t].soaked}]_vars
  BY PackageStored
<1> QED
  BY <1>1, LeaseIsKept, PTL DEF WSpec, PackageWasSoaked
==============================================================================
