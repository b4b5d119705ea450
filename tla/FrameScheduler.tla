--------------------------- MODULE FrameScheduler ---------------------------
(***************************************************************************)
(* JaguarExecuteNew (src/core/jaguar.c): one call runs the machine until   *)
(* the halfline callback has finished a field.  Every turn of its loop     *)
(* takes the smaller of the two times to the next event, runs the 68K, the *)
(* GPU and the DSP for that long, counts the other list down and lets      *)
(* HandleNextEvent dispatch one event of the winning list.  The guest runs *)
(* between the two and reprograms timers as it likes: its register writes  *)
(* are the actions of phase "guest".  A callback runs inside the dispatch; *)
(* the halfline's is in two halves, since the Object Processor inside it   *)
(* runs the GPU, which writes registers too (phase "halfline").            *)
(*                                                                         *)
(* Interrupt lines and pixel output are not part of this module.           *)
(***************************************************************************)
EXTENDS EventList

CONSTANTS
    HalflinePeriod,  \* JaguarGetHalflinePeriodUs
    HalfSample,      \* half of i2sSamplePeriodUs
    NumSamples,      \* numberOfSamples / 2: output pairs per frame
    PitPeriods,      \* timer periods a guest programs, 0 for off
    SclkPeriods,     \* I2S word periods a guest programs
    VPs,             \* field lengths a guest writes to VP
    DefaultVP,       \* VP, SCLK and the PIT registers as a reset leaves them
    DefaultI2S,
    DefaultPit,
    VCMod,           \* 2^11 in the code: VC counts modulo this
    GpuStep,         \* OP_GPU_RELEASE_STEP_CYCLES
    MaxOps,          \* bound: guest register writes per slice
    MaxExec,         \* bound: GPU time of one GPUExec that ends in an interrupt
    MaxInline        \* bound: the GPU's register writes inside one halfline callback

ASSUME PeriodAssumption ==
    /\ HalflinePeriod \in Nat \ {0} /\ HalfSample \in Nat \ {0} /\ NumSamples \in Nat \ {0}
    /\ PitPeriods \subseteq Nat /\ SclkPeriods \subseteq Nat \ {0} /\ GpuStep \in Nat \ {0}
ASSUME FieldAssumption == VCMod \in Nat \ {0} /\ VPs \subseteq 0 .. VCMod - 1
ASSUME ResetAssumption ==
    /\ DefaultVP \in VPs /\ DefaultI2S \in SclkPeriods
    /\ DefaultPit \in PitPeriods \ {0} /\ 0 \in PitPeriods
ASSUME BoundAssumption == MaxOps \in Nat /\ MaxExec \in Nat /\ MaxInline \in Nat
ASSUME TimerNames ==
    Callbacks = {"Halfline", "TOMPIT", "GPUCPUINT", "JERRYPIT1", "JERRYI2S", "DSPSample"}

Lists == {"MAIN", "JERRY"}

VARIABLES
    list,        \* the two event lists
    phase,       \* "idle" between frames, "pick" at the loop head, "guest" inside a slice,
                 \* "halfline" while the Object Processor runs in the halfline callback
    winner,      \* the list whose event ends the slice
    timeDelta,
    frameDone,
    vc,          \* VC without its top bit, which says what field is drawn
    vp,          \* the VP register
    tomPit,      \* period programmed into the TOM PIT, 0 when the prescaler is 0
    jerryPit,    \* the same for JERRY's PIT 1
    i2s,         \* I2S word period set by SCLK
    samples,     \* bufferIndex / 2
    gpuSpent,    \* gpuSliceSpent: GPU time already run inside the slice
    ops,         \* guest writes left in this slice, or in this halfline callback
    programmed,  \* history: the JERRY timers set up since the last reset
    flooded      \* history: since the last reset a GPU interrupt was raised while
                 \* others filled MAIN but for its two timers

machine == <<vp, tomPit, jerryPit, i2s>>
field == <<vc, frameDone>>
since == <<programmed, flooded>>
slice == <<winner, timeDelta, gpuSpent, ops>>
vars == <<list, phase, slice, field, machine, samples, since>>

SamplePeriod == 2 * HalfSample

\* The JERRY timers whose registers no reset arms by itself.
OnDemand == {"JERRYPIT1", "JERRYI2S"}

Pending(l, cb) == Matching(list[l], cb) # {}

TypeOK ==
    /\ list \in [Lists -> EventLists]
    /\ phase \in {"idle", "pick", "guest", "halfline"}
    /\ winner \in Lists
    /\ timeDelta \in Nat
    /\ frameDone \in BOOLEAN
    /\ vc \in 0 .. VCMod - 1 /\ vp \in VPs
    /\ tomPit \in PitPeriods /\ jerryPit \in PitPeriods /\ i2s \in SclkPeriods
    /\ samples \in 0 .. NumSamples
    /\ gpuSpent \in 0 .. timeDelta /\ ops \in 0 .. MaxOps \cup 0 .. MaxInline
    /\ programmed \subseteq OnDemand /\ flooded \in BOOLEAN

-----------------------------------------------------------------------------
(* Register writes and callbacks as functions on a list. *)

\* TOMResetPIT and JERRYResetPIT1: take the old event out, arm a new one unless
\* the timer is off.
Rearmed(L, cb, period) ==
    LET R == Removed(L, cb)
    IN  Scrubbed(IF period = 0 THEN R ELSE Pushed(R, cb, period))

-----------------------------------------------------------------------------

\* JaguarReset: with the boot ROM nothing but the halfline is armed, and JERRY's
\* PIT registers hold a period nobody counts; without it the core itself
\* programs the PITs off and starts the I2S clock.
ResetLists(bios) ==
    [l \in Lists |->
        IF l = "MAIN" THEN Scrubbed(Pushed(ZeroList, "Halfline", HalflinePeriod))
        ELSE IF bios THEN ZeroList
        ELSE Scrubbed(Pushed(ZeroList, "JERRYI2S", DefaultI2S))]

ResetPit(bios) == IF bios THEN DefaultPit ELSE 0

ResetProgrammed(bios) == IF bios THEN {} ELSE OnDemand

Init ==
    /\ phase = "idle"
    /\ winner = "MAIN" /\ timeDelta = 0 /\ gpuSpent = 0 /\ ops = 0
    /\ frameDone = FALSE /\ vc = 0 /\ samples = 0
    /\ vp = DefaultVP /\ i2s = DefaultI2S /\ tomPit = 0
    /\ \E bios \in BOOLEAN : /\ list = ResetLists(bios)
                             /\ jerryPit = ResetPit(bios)
                             /\ programmed = ResetProgrammed(bios)
    /\ flooded = FALSE

\* retro_reset runs between frames.
JaguarReset(bios) ==
    /\ phase = "idle"
    /\ list' = ResetLists(bios)
    /\ tomPit' = 0 /\ jerryPit' = ResetPit(bios) /\ i2s' = DefaultI2S
    /\ vp' = DefaultVP /\ vc' = 0
    /\ programmed' = ResetProgrammed(bios) /\ flooded' = FALSE
    /\ UNCHANGED <<phase, slice, frameDone, samples>>

\* retro_run: DACPrepareFrame, then JaguarExecuteNew up to its loop.  The first
\* sample is due after half a period.
BeginFrame ==
    /\ phase = "idle"
    /\ list' = [list EXCEPT !["JERRY"] = Rearmed(@, "DSPSample", HalfSample)]
    /\ samples' = 0
    /\ frameDone' = FALSE
    /\ phase' = "pick"
    /\ UNCHANGED <<slice, vc, machine, since>>

\* The loop head: a tie goes to MAIN.
PickSlice ==
    LET tMain  == TimeToNextEvent(list["MAIN"])
        tJerry == TimeToNextEvent(list["JERRY"])
    IN  /\ phase = "pick"
        /\ winner' = IF tJerry < tMain THEN "JERRY" ELSE "MAIN"
        /\ timeDelta' = IF tJerry < tMain THEN tJerry ELSE tMain
        /\ gpuSpent' = 0
        /\ ops' = MaxOps
        /\ phase' = "guest"
        /\ UNCHANGED <<list, field, machine, samples, since>>

-----------------------------------------------------------------------------
(* What the guest may write: the processors inside a slice, the GPU alone  *)
(* inside the halfline callback.                                           *)

GuestStep ==
    /\ phase \in {"guest", "halfline"} /\ ops > 0
    /\ ops' = ops - 1
    /\ UNCHANGED <<phase, winner, timeDelta, frameDone, samples>>

WriteTOMPIT(p) ==
    /\ GuestStep
    /\ tomPit' = p
    /\ list' = [list EXCEPT !["MAIN"] = Rearmed(@, "TOMPIT", p)]
    /\ UNCHANGED <<gpuSpent, vc, vp, jerryPit, i2s, since>>

WriteJERRYPIT1(p) ==
    /\ GuestStep
    /\ jerryPit' = p
    /\ list' = [list EXCEPT !["JERRY"] = Rearmed(@, "JERRYPIT1", p)]
    /\ programmed' = programmed \cup {"JERRYPIT1"}
    /\ UNCHANGED <<gpuSpent, vc, vp, tomPit, i2s, flooded>>

WriteSCLK(p) ==
    /\ GuestStep
    /\ i2s' = p
    /\ list' = [list EXCEPT !["JERRY"] = Rearmed(@, "JERRYI2S", p)]
    /\ programmed' = programmed \cup {"JERRYI2S"}
    /\ UNCHANGED <<gpuSpent, vc, vp, tomPit, jerryPit, flooded>>

WriteVP(v) ==
    /\ GuestStep
    /\ vp' = v
    /\ UNCHANGED <<list, gpuSpent, vc, tomPit, jerryPit, i2s, since>>

\* VC is a plain register to a write, and the halfline callback counts on from it.
WriteVC(v) ==
    /\ GuestStep
    /\ vc' = v
    /\ UNCHANGED <<list, gpuSpent, machine, since>>

\* The GPU stores to CPUINT after `used` of the budget GPUExec gave it, while the
\* 68K is not stopped.  The event is queued (budget + used) after the START of the
\* slice: how much of the slice earlier GPUExec calls had covered is not added.
RaiseCPUINT(budget, used) ==
    /\ GuestStep
    /\ list' = [list EXCEPT !["MAIN"] = Scrubbed(Pushed(@, "GPUCPUINT", budget + used))]
    /\ flooded' = (flooded \/ PendingCount(list["MAIN"], "GPUCPUINT") > Size - 3)
    /\ UNCHANGED <<vc, machine, programmed>>

\* GPUExec(budget), from a 68K access into GPU RAM or at the end of the slice.
RaiseInSlice(budget, used) ==
    /\ phase = "guest"
    /\ budget <= timeDelta - gpuSpent /\ used <= budget
    /\ gpuSpent' = gpuSpent + budget
    /\ RaiseCPUINT(budget, used)

\* The Object Processor runs the GPU in steps and waits for its release.
RaiseInline(used) ==
    /\ phase = "halfline"
    /\ UNCHANGED gpuSpent
    /\ RaiseCPUINT(GpuStep, used)

-----------------------------------------------------------------------------
(* The end of a slice: SubtractEventTimes on the other list, HandleNextEvent *)
(* on the winner, and the callback it calls.                               *)

\* The callback HandleNextEvent finds when it looks again.
NextCallback(L) == L.slot[EarliestSlot(L)].cb

SliceDone == phase = "guest"

\* After the other list was counted down only the winner's is left to set; the
\* loop's variables are forgotten, but for the writes `left` to a callback's GPU.
Settle(L, left) ==
    /\ list' = [l \in Lists |-> Scrubbed(IF l = winner THEN L ELSE Elapsed(list[l], timeDelta))]
    /\ winner' = "MAIN" /\ timeDelta' = 0 /\ gpuSpent' = 0
    /\ ops' = left
    /\ UNCHANGED since

Dispatches(cb) ==
    /\ SliceDone
    /\ list[winner].count > 0
    /\ NextCallback(list[winner]) = cb

\* HandleNextEvent finds the list empty: no callback, no time off it.
DispatchEmpty ==
    /\ SliceDone
    /\ list[winner].count = 0
    /\ Settle(list[winner], 0)
    /\ phase' = "pick"
    /\ UNCHANGED <<field, machine, samples>>

\* VC after the increment, and whether the field wrapped at VP.
NextVC == (vc + 1) % VCMod
Wraps == NextVC >= vp + 1

\* Mutant of HalflineCallback: only a field toggle ends the frame.
HalflineCallbackOnToggle ==
    /\ Dispatches("Halfline")
    /\ vc' = IF Wraps THEN 0 ELSE NextVC
    /\ frameDone' = (frameDone \/ Wraps)
    /\ Settle(Dispatched(list[winner]), MaxInline)
    /\ phase' = "halfline"
    /\ UNCHANGED <<machine, samples>>

\* Up to the Object Processor.  frameDone is set after it in the code, from the
\* value computed here: what the GPU then writes to VC does not count for it.
HalflineCallback ==
    LET newVC == IF Wraps THEN 0 ELSE NextVC
    IN  /\ Dispatches("Halfline")
        /\ vc' = newVC
        /\ frameDone' = (frameDone \/ newVC = 0)
        /\ Settle(Dispatched(list[winner]), MaxInline)
        /\ phase' = "halfline"
        /\ UNCHANGED <<machine, samples>>

\* The rest of it: the callback queues itself again, and the loop tests frameDone.
HalflineRearm ==
    /\ phase = "halfline"
    /\ list' = [list EXCEPT !["MAIN"] = Scrubbed(Pushed(@, "Halfline", HalflinePeriod))]
    /\ phase' = IF frameDone THEN "idle" ELSE "pick"
    /\ ops' = 0
    /\ UNCHANGED <<winner, timeDelta, gpuSpent, field, machine, samples, since>>

\* Mutant of TOMPITCallback: the timer is one-shot.
TOMPITCallbackOnce ==
    /\ Dispatches("TOMPIT")
    /\ Settle(Dispatched(list[winner]), 0)
    /\ phase' = "pick"
    /\ UNCHANGED <<field, machine, samples>>

TOMPITCallback ==
    /\ Dispatches("TOMPIT")
    /\ Settle(Rearmed(Dispatched(list[winner]), "TOMPIT", tomPit), 0)
    /\ phase' = "pick"
    /\ UNCHANGED <<field, machine, samples>>

JERRYPIT1Callback ==
    /\ Dispatches("JERRYPIT1")
    /\ Settle(Rearmed(Dispatched(list[winner]), "JERRYPIT1", jerryPit), 0)
    /\ phase' = "pick"
    /\ UNCHANGED <<field, machine, samples>>

JERRYI2SCallback ==
    /\ Dispatches("JERRYI2S")
    /\ Settle(Pushed(Dispatched(list[winner]), "JERRYI2S", i2s), 0)
    /\ phase' = "pick"
    /\ UNCHANGED <<field, machine, samples>>

\* Mutant of DSPSampleCallback: the buffer test is off by one.
DSPSampleCallbackPastEnd ==
    LET D == Dispatched(list[winner])
    IN  /\ Dispatches("DSPSample")
        /\ samples' = samples + 1
        /\ Settle(IF samples + 1 > NumSamples THEN D ELSE Pushed(D, "DSPSample", SamplePeriod), 0)
        /\ phase' = "pick"
        /\ UNCHANGED <<field, machine>>

\* The event is not queued again once the frame has its samples.
DSPSampleCallback ==
    LET D == Dispatched(list[winner])
    IN  /\ Dispatches("DSPSample")
        /\ samples' = samples + 1
        /\ Settle(IF samples + 1 >= NumSamples THEN D ELSE Pushed(D, "DSPSample", SamplePeriod), 0)
        /\ phase' = "pick"
        /\ UNCHANGED <<field, machine>>

GPUCPUINTCallback ==
    /\ Dispatches("GPUCPUINT")
    /\ Settle(Dispatched(list[winner]), 0)
    /\ phase' = "pick"
    /\ UNCHANGED <<field, machine, samples>>

EndSlice ==
    \/ DispatchEmpty
    \/ HalflineCallback
    \/ TOMPITCallback
    \/ JERRYPIT1Callback
    \/ JERRYI2SCallback
    \/ DSPSampleCallback
    \/ GPUCPUINTCallback

Guest ==
    \/ \E p \in PitPeriods : WriteTOMPIT(p)
    \/ \E p \in PitPeriods : WriteJERRYPIT1(p)
    \/ \E p \in SclkPeriods : WriteSCLK(p)
    \/ \E v \in VPs : WriteVP(v)
    \/ \E v \in 0 .. VCMod - 1 : WriteVC(v)
    \/ \E b \in 1 .. MaxExec : \E u \in 0 .. b : RaiseInSlice(b, u)
    \/ \E u \in 0 .. GpuStep : RaiseInline(u)

Next ==
    \/ \E bios \in BOOLEAN : JaguarReset(bios)
    \/ BeginFrame
    \/ PickSlice
    \/ Guest
    \/ EndSlice
    \/ HalflineRearm

\* retro_run calls JaguarExecuteNew and waits for it: the loop does not rest at
\* its head (only PickSlice leaves it), nor inside a slice or the halfline callback,
\* whose guest code runs for a bounded number of cycles (only EndSlice leaves the
\* one, and some dispatch is always possible, and HalflineRearm the other).
\* Stated on the program counter alone.
Fairness ==
    /\ WF_phase(phase = "pick" /\ phase' = "guest")
    /\ WF_phase(phase = "guest" /\ phase' \in {"pick", "halfline"})
    /\ WF_phase(phase = "halfline" /\ phase' \in {"pick", "idle"})

Spec == Init /\ [][Next]_vars /\ Fairness

-----------------------------------------------------------------------------

\* Every periodic timer is queued at most once: a second copy would run the
\* timer at twice its rate for ever (Remove before Set in TOMResetPIT,
\* JERRYResetPIT1, the SCLK write and DACPrepareFrame).
OneOfEach ==
    \A l \in Lists : \A cb \in Callbacks \ {"GPUCPUINT"} : PendingCount(list[l], cb) <= 1

\* JERRY's timers are queued exactly while they are set up and on.
JerryTimersArmed ==
    /\ Pending("JERRY", "JERRYPIT1") <=> "JERRYPIT1" \in programmed /\ jerryPit # 0
    /\ Pending("JERRY", "JERRYI2S") <=> "JERRYI2S" \in programmed

\* The halfline, which alone ends the frame, is queued unless its own callback is
\* running (comment above HandleNextEvent in event.c).
HalflineQueued == phase # "halfline" => Pending("MAIN", "Halfline")

\* The TOM PIT is queued exactly while it is on.
TomPitArmed == Pending("MAIN", "TOMPIT") <=> tomPit # 0

\* Every timer is single and none that is off is queued, whatever the guest does.
\* JERRY's are armed as programmed; MAIN's are too unless the GPU raised more
\* interrupts than MAIN has room for beside them (SetCallbackTime drops what comes
\* to a full list, and then a timer's own re-arm may be what it drops).
TimersAsProgrammed ==
    /\ OneOfEach
    /\ JerryTimersArmed
    /\ tomPit = 0 => ~Pending("MAIN", "TOMPIT")
    /\ ~flooded => TomPitArmed /\ HalflineQueued

\* DSPSampleCallback writes sampleBuffer[bufferIndex] without a bound of its own:
\* once the buffer is full no sample event may be left.
NoSampleAfterFull == samples = NumSamples => ~Pending("JERRY", "DSPSample")

\* The guest does not write VC for ever: what it writes the halfline counts on from.
LeavesVCAlone == <>[][\A v \in 0 .. VCMod - 1 : ~WriteVC(v)]_vars

HalflineLost == phase # "halfline" /\ ~Pending("MAIN", "Halfline")

\* A frame that was begun ends, whatever the guest does to VP, to its timers and to
\* the lists, once it leaves VC alone and unless a full list dropped the halfline.
FrameCompletes ==
    LeavesVCAlone => ((phase = "pick") ~> (phase = "idle" \/ HalflineLost))

\* test/test_event_queue.c: whichever queue fires, the other is decremented by
\* the elapsed time, so both stay on the same wall clock: what ends a slice is due
\* exactly when the slice was to end.
SameWallClock ==
    [][EndSlice /\ list[winner].count > 0 => TimeToNextEvent(list[winner]) = timeDelta]_vars

\* gpu.c, above gpuExecSliceBudget: a GPU-raised CPUINT is replayed into the
\* 68K's next slice, so it is not due before the slice it was raised in ends.
CpuIntNotInItsSlice ==
    [][\A b \in 1 .. MaxExec : \A u \in 0 .. b : RaiseInSlice(b, u) => b + u >= timeDelta]_vars

\* event.c, above HandleNextEvent: real dispatch never hits an empty queue.
NeverDispatchesEmpty == [][~DispatchEmpty]_vars
=============================================================================
