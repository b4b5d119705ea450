------------------------------- MODULE CdDrive -------------------------------
(* The Jaguar CD unit as the machine sees it (src/cd/cdrom.c): the drive's     *)
(* answer queue behind DS_DATA, its seek, FIFO-refill and answer countdowns,   *)
(* the two read heads (BUTCH FIFO and the SSI audio stream), the edge-gated    *)
(* interrupt to the GPU (with the GPU's latch, src/tom/gpu.c), and the two     *)
(* readers that share the registers: the 68000, which moves as it likes within *)
(* a budget, and the CD BIOS's GPU interrupt routine, whose listing stands in  *)
(* a comment of cdrom.c and which is external to the emulator.                 *)
(* Left out: the HLE boot's own stream (FIFOFeedAllowed is then TRUE), the     *)
(* subcode serializer, the EEPROM bus (module Eeprom's neighbour), tracing,    *)
(* out-of-range redirects, the words' contents, and CDROMReadFifoByte, which   *)
(* nothing in the repository calls.  Min, sec and frm fold into the block a    *)
(* Goto Frame names.                                                           *)
EXTENDS Integers, Sequences

CONSTANTS
  NBlocks,        \* sectors of the disc, taken as a ring (a bound)
  SectorWords,    \* words of a sector (2352 bytes in the code; a bound)
  DsaQueueSize,   \* DSA_QUEUE_SIZE
  ResponseTicks,  \* DSA_RESPONSE_DELAY_TICKS
  SeekTicks,      \* SEEK_DELAY_TICKS
  FillTicks,      \* FIFO_FILL_TICKS
  DrainReads,     \* FIFO_DRAIN_READS
  RefillTicks,    \* what CDROMNextRefillDelay may return
  TocWords,       \* words of a table-of-contents answer (a bound)
  Commands,       \* the command classes the 68000 may send
  Enables,        \* the interrupt-enable words the 68000 may write
  MaxMoves        \* free moves of the 68000, resets included (a bound)

AllCommands == {"play", "mute", "stop", "toc3", "toc14", "pause", "unpause",
                "minsec", "frame", "single"}
Answers == {"found", "stopped", "done", "echo"}
IntBits == {"master", "fifo", "dsa"}    \* BUTCH bits 0, 1 and 5

ASSUME ConstantsOK ==
  /\ SectorWords > 1
  /\ {NBlocks, SectorWords, DsaQueueSize, ResponseTicks, SeekTicks, FillTicks,
      DrainReads} \subseteq Nat \ {0}
  /\ TocWords \in Nat /\ MaxMoves \in Nat
  /\ RefillTicks \subseteq Nat \ {0} /\ RefillTicks # {}
  /\ Commands \subseteq AllCommands
  /\ Enables \subseteq SUBSET IntBits

VARIABLES
  cdCmd, tocLeft,                        \* last command, TOC words still to hand over
  dsaQueue, dsaResponseReady, dsaResponseDelay, isMultiWordResponse,
  cdPlaying, seekDelay,
  fifoDataReady, fifoReadCount, fifoFillDelay,
  block, cdBufPtr,                       \* the FIFO's head, in words
  ssiBlock, ssiBufPtr,                   \* the audio head
  i2s, ints, cdPrevShouldIRQ,            \* I2CNTRL bit 2, BUTCH enables, edge gate
  running, latch,                        \* the GPU: captures interrupts, IRQ1 latch
  isr, isrLeft,                          \* its interrupt routine
  swallowed,                             \* history: the routine's last exit cleared
                                         \* the latch of an edge the gate counts
  acking, moves,                         \* the 68000: owes an ack, free moves made
  cdBootStubInjected                     \* the boot stub's hook has fired

dsa == <<dsaQueue, dsaResponseReady, dsaResponseDelay, isMultiWordResponse>>
fifo == <<fifoDataReady, fifoReadCount, fifoFillDelay>>
heads == <<block, cdBufPtr, ssiBlock, ssiBufPtr>>
regs == <<i2s, ints, cdPrevShouldIRQ, swallowed>>
gpu == <<running, latch, isr, isrLeft>>
host == <<acking, moves, cdBootStubInjected>>
vars == <<cdCmd, tocLeft, dsa, cdPlaying, seekDelay, fifo, heads, regs, gpu, host>>

Blocks == 0 .. NBlocks - 1
NextBlock(b) == (b + 1) % NBlocks
\* CDROMSeekDistanceTicks, at one tick a sector.
DistanceTicks(a, b) == IF b >= a THEN b - a ELSE a - b

TypeOK ==
  /\ cdCmd \in AllCommands \cup {"none"} /\ tocLeft \in 0 .. TocWords
  /\ dsaQueue \in Seq(Answers) /\ Len(dsaQueue) <= DsaQueueSize
  /\ dsaResponseReady \in BOOLEAN /\ dsaResponseDelay \in 0 .. ResponseTicks
  /\ isMultiWordResponse \in BOOLEAN /\ cdPlaying \in BOOLEAN
  /\ seekDelay \in 0 .. SeekTicks + NBlocks
  /\ fifoDataReady \in BOOLEAN /\ fifoReadCount \in Nat /\ fifoFillDelay \in Nat
  /\ {block, ssiBlock} \subseteq Blocks
  /\ cdBufPtr \in 0 .. SectorWords /\ ssiBufPtr \in 0 .. SectorWords
  /\ i2s \in BOOLEAN /\ ints \subseteq IntBits
  /\ cdPrevShouldIRQ \in BOOLEAN /\ running \in BOOLEAN /\ latch \in BOOLEAN
  /\ isr \in {"idle", "ack", "data", "fifo", "exit"} /\ isrLeft \in 0 .. DrainReads
  /\ {acking, swallowed, cdBootStubInjected} \subseteq BOOLEAN
  /\ moves \in 0 .. MaxMoves

\* CDROMReset and GPUReset: the drive idle, the GPU halted, nothing latched.
Init ==
  /\ cdCmd = "none" /\ tocLeft = 0
  /\ dsaQueue = <<>> /\ dsaResponseReady = FALSE /\ dsaResponseDelay = 0
  /\ isMultiWordResponse = FALSE
  /\ cdPlaying = FALSE /\ seekDelay = 0
  /\ fifoDataReady = FALSE /\ fifoReadCount = 0 /\ fifoFillDelay = 0
  /\ block = 0 /\ cdBufPtr = SectorWords /\ ssiBlock = 0 /\ ssiBufPtr = SectorWords
  /\ i2s = FALSE /\ ints = {} /\ cdPrevShouldIRQ = FALSE
  /\ running = FALSE /\ latch = FALSE /\ isr = "idle" /\ isrLeft = 0
  /\ swallowed = FALSE /\ acking = FALSE /\ moves = 0 /\ cdBootStubInjected = FALSE

-----------------------------------------------------------------------------
(* The answer queue.                                                          *)

\* DSAQueuePush: a word behind a visible or travelling one just queues; a word
\* for a full queue is dropped.
Push(w) ==
  LET room == Len(dsaQueue) < DsaQueueSize IN
  /\ dsaQueue' = IF room THEN Append(dsaQueue, w) ELSE dsaQueue
  /\ dsaResponseDelay' = IF room /\ ~dsaResponseReady /\ dsaResponseDelay = 0
                         THEN ResponseTicks ELSE dsaResponseDelay
  /\ UNCHANGED dsaResponseReady

\* A DS_DATA read that finds the queue non-empty: DSAQueuePop and the effects
\* of the word it returns.
ReadQueued ==
  LET w == Head(dsaQueue)
      rest == Tail(dsaQueue) IN
  /\ dsaQueue # <<>>
  /\ dsaQueue' = rest
  /\ dsaResponseReady' = FALSE
  /\ dsaResponseDelay' = IF rest = <<>> THEN 0 ELSE ResponseTicks
  /\ isMultiWordResponse' =
       (isMultiWordResponse /\ (rest # <<>> \/ (w # "done" /\ ~(cdCmd = "toc14" /\ tocLeft = 0))))
  /\ cdPlaying' = (cdPlaying \/ w = "found")
  /\ fifoDataReady' = (fifoDataReady \/ w = "found")
  /\ fifoReadCount' = IF w = "found" /\ ~fifoDataReady THEN 0 ELSE fifoReadCount
  /\ UNCHANGED <<tocLeft, fifoFillDelay>>

\* The next word of a table of contents is still on its way: the receive latch
\* is read again and nothing moves.
ReadEarly ==
  /\ isMultiWordResponse /\ dsaQueue = <<>> /\ ~dsaResponseReady
  /\ UNCHANGED <<tocLeft, dsa, cdPlaying, fifo>>

\* No queued word: the answer is made up from the last command.
ReadDirect ==
  LET lastWord == IF cdCmd = "toc3" THEN tocLeft = 0 ELSE tocLeft <= 1
      ends == IF cdCmd \in {"toc3", "toc14"} THEN lastWord
              ELSE cdCmd \notin {"play", "stop", "frame", "single"} IN
  /\ dsaQueue = <<>> /\ (isMultiWordResponse => dsaResponseReady)
  /\ tocLeft' = IF cdCmd \in {"toc3", "toc14"} /\ tocLeft > 0 THEN tocLeft - 1 ELSE tocLeft
  /\ isMultiWordResponse' = (isMultiWordResponse /\ ~ends)
  /\ dsaResponseReady' = (dsaResponseReady /\ isMultiWordResponse /\ ~ends)
  /\ cdPlaying' = (cdPlaying \/ cdCmd \in {"play", "frame"})
  /\ fifoDataReady' = (fifoDataReady \/ cdCmd \in {"play", "frame"})
  /\ fifoReadCount' = IF cdCmd = "frame" THEN 0 ELSE fifoReadCount
  /\ UNCHANGED <<dsaQueue, dsaResponseDelay, fifoFillDelay>>

\* CDROMReadWord(DS_DATA).
ReadData ==
  /\ ReadQueued \/ ReadEarly \/ ReadDirect
  /\ UNCHANGED <<cdCmd, seekDelay, heads>>

\* As Ack, forgetting that more is owed.
AckWithoutRearm ==
  /\ dsaResponseReady' = FALSE
  /\ UNCHANGED <<cdCmd, tocLeft, dsaQueue, dsaResponseDelay, isMultiWordResponse, cdPlaying, seekDelay, fifo, heads>>

\* CDROMReadWord(DSCNTRL): the ack clears RX-full, and starts the transfer of a
\* word that is still owed.
Ack ==
  /\ dsaResponseReady' = FALSE
  /\ dsaResponseDelay' =
       IF (dsaQueue # <<>> \/ isMultiWordResponse) /\ dsaResponseDelay = 0
       THEN ResponseTicks ELSE dsaResponseDelay
  /\ UNCHANGED <<cdCmd, tocLeft, dsaQueue, isMultiWordResponse, cdPlaying, seekDelay, fifo, heads>>

-----------------------------------------------------------------------------
(* The commands: CDROMWriteWord(DS_DATA).                                     *)

\* As GotoHere, the redundancy tested again after the push: the heads rewind.
GotoHereRewinding(b) ==
  /\ cdPlaying /\ b = block /\ seekDelay = 0 /\ dsaQueue = <<>>
  /\ Push("found")
  /\ cdBufPtr' = 1 /\ ssiBlock' = NextBlock(b) /\ ssiBufPtr' = 0
  /\ UNCHANGED <<tocLeft, isMultiWordResponse, cdPlaying, seekDelay, fifo, block>>

\* Goto Frame to the sector already playing, everything answered: Found is
\* queued and the stream is left alone.
GotoHere(b) ==
  /\ cdPlaying /\ b = block /\ seekDelay = 0 /\ dsaQueue = <<>>
  /\ Push("found")
  /\ UNCHANGED <<tocLeft, isMultiWordResponse, cdPlaying, seekDelay, fifo, heads>>

\* Any other Goto Frame: both heads move at once, Found follows the seek.
GotoAway(b) ==
  /\ ~(cdPlaying /\ b = block /\ seekDelay = 0 /\ dsaQueue = <<>>)
  /\ dsaResponseReady' = FALSE /\ isMultiWordResponse' = FALSE
  /\ seekDelay' = SeekTicks + DistanceTicks(block, b)
  /\ block' = b /\ cdBufPtr' = 1
  /\ ssiBlock' = NextBlock(b) /\ ssiBufPtr' = 0
  /\ UNCHANGED <<tocLeft, dsaQueue, dsaResponseDelay, cdPlaying, fifo>>

\* Goto Minute and Goto Second answer nothing, and hide what was visible.
GotoMinSec ==
  /\ dsaResponseReady' = FALSE /\ isMultiWordResponse' = FALSE
  /\ UNCHANGED <<tocLeft, dsaQueue, dsaResponseDelay, cdPlaying, seekDelay, fifo, heads>>

\* Read TOC: the words are made on demand, the first after the turnaround.  A
\* session the disc does not have has none.
ReadToc ==
  /\ tocLeft' \in {0, TocWords}
  /\ dsaResponseReady' = FALSE /\ dsaResponseDelay' = ResponseTicks
  /\ isMultiWordResponse' = TRUE
  /\ UNCHANGED <<dsaQueue, cdPlaying, seekDelay, fifo, heads>>

\* Stop halts the stream and the refill but neither a seek nor what is buffered.
StopDrive ==
  LET empty == cdBufPtr >= SectorWords IN
  /\ Push("stopped") /\ isMultiWordResponse' = FALSE
  /\ cdPlaying' = FALSE /\ fifoFillDelay' = 0
  /\ fifoDataReady' = (fifoDataReady /\ ~empty)
  /\ fifoReadCount' = IF empty THEN 0 ELSE fifoReadCount
  /\ UNCHANGED <<tocLeft, seekDelay, heads>>

Pausing(c) ==
  /\ Push("done") /\ isMultiWordResponse' = FALSE
  /\ cdPlaying' = (c = "unpause")
  /\ UNCHANGED <<tocLeft, seekDelay, fifo, heads>>

\* Set Mode, Spin Up, the status queries and Set DAC: one echo word.
SingleWord ==
  /\ Push("echo") /\ isMultiWordResponse' = FALSE
  /\ UNCHANGED <<tocLeft, cdPlaying, seekDelay, fifo, heads>>

\* Play and every command the code does not know (Mute): RX-full at once.
AnswerAtOnce ==
  /\ dsaResponseReady' = TRUE /\ isMultiWordResponse' = FALSE
  /\ UNCHANGED <<tocLeft, dsaQueue, dsaResponseDelay, cdPlaying, seekDelay, fifo, heads>>

WriteCommand(c) ==
  /\ cdCmd' = c
  /\ \/ c = "frame" /\ \E b \in Blocks : GotoHere(b) \/ GotoAway(b)
     \/ c = "minsec" /\ GotoMinSec
     \/ c \in {"toc3", "toc14"} /\ ReadToc
     \/ c = "stop" /\ StopDrive
     \/ c \in {"pause", "unpause"} /\ Pausing(c)
     \/ c = "single" /\ SingleWord
     \/ c \in {"play", "mute"} /\ AnswerAtOnce

-----------------------------------------------------------------------------
(* The data stream.                                                           *)

\* CDROMReadWord(FIFO_DATA or I2SDAT2): a playing drive delivers past the fill
\* level too; the reads while half-full drain it.
ReadFifo ==
  LET turn == cdBufPtr >= SectorWords /\ cdPlaying
      at == IF turn THEN 0 ELSE cdBufPtr
      drained == fifoDataReady /\ fifoReadCount + 1 >= DrainReads IN
  /\ IF fifoDataReady \/ cdPlaying
     THEN /\ block' = IF turn THEN NextBlock(block) ELSE block
          /\ cdBufPtr' = IF at < SectorWords THEN at + 1 ELSE at
          /\ fifoReadCount' = IF fifoDataReady THEN fifoReadCount + 1 ELSE fifoReadCount
          /\ fifoDataReady' = (fifoDataReady /\ ~drained)
          /\ IF drained THEN fifoFillDelay' \in RefillTicks ELSE UNCHANGED fifoFillDelay
     ELSE UNCHANGED <<block, cdBufPtr, fifo>>
  /\ UNCHANGED <<cdCmd, tocLeft, dsa, cdPlaying, seekDelay, ssiBlock, ssiBufPtr>>

\* SetSSIWordsXmittedFromButch: one stereo sample to JERRY; silence while the
\* drive is paused, stopped or seeking.
SsiSample ==
  LET load == ssiBufPtr >= SectorWords
      at == IF load THEN 0 ELSE ssiBufPtr
      last == at + 1 >= SectorWords
      step(b, t) == IF t THEN NextBlock(b) ELSE b IN
  /\ cdPlaying /\ seekDelay = 0
  /\ ssiBlock' = step(step(ssiBlock, load), last)
  /\ ssiBufPtr' = IF last THEN 0 ELSE at + 1
  /\ UNCHANGED <<cdCmd, tocLeft, dsa, cdPlaying, seekDelay, fifo, block, cdBufPtr, regs, gpu, host>>

\* CDROMSetHeadPosition: the boot-stub shortcut parks the head, paused.
Park(b) ==
  /\ block' = b /\ cdBufPtr' = 1 /\ ssiBlock' = NextBlock(b) /\ ssiBufPtr' = 0
  /\ cdPlaying' = FALSE /\ seekDelay' = 0
  /\ fifoDataReady' = FALSE /\ fifoReadCount' = 0
  /\ UNCHANGED <<cdCmd, tocLeft, dsa, fifoFillDelay>>

-----------------------------------------------------------------------------
(* The tick.  GPU slices end where the next event is due, so a tick may fall   *)
(* anywhere, the GPU's interrupt routine included.                             *)

\* As FillLeft, a countdown that ends with I2S data off is not retried.
FillLeftNoRetry(fill, playing) == IF fill > 0 THEN fill - 1 ELSE 0

\* The refill countdown after a tick: one that ends while I2S data is off tries
\* again at the next tick.
FillLeft(fill, playing) ==
  IF fill = 1 /\ playing /\ ~i2s THEN 1 ELSE IF fill > 0 THEN fill - 1 ELSE 0

\* As EdgeConsumed, whether or not the GPU could see the edge.
EdgeConsumedBlindly(should) == should

\* The edge counts as delivered only if a GPU that captures interrupts saw it.
EdgeConsumed(should) == should /\ running

\* BUTCHExec, once a halfline: the seek arrives, the FIFO refills, an answer
\* becomes visible, and the interrupt line is re-examined, in that order.
\* GPUSetIRQLine clears the latch first and sets it only in a GPU that runs.
Tick ==
  LET arrives == seekDelay = 1
      pushes == arrives /\ Len(dsaQueue) < DsaQueueSize
      queue == IF pushes THEN Append(dsaQueue, "found") ELSE dsaQueue
      delay == IF pushes /\ ~dsaResponseReady /\ dsaResponseDelay = 0
               THEN ResponseTicks ELSE dsaResponseDelay
      playing == cdPlaying \/ arrives
      fill == IF arrives /\ ~i2s THEN FillTicks ELSE fifoFillDelay
      full == IF arrives THEN i2s ELSE fifoDataReady
      refilled == fill = 1 /\ playing /\ i2s
      ready == dsaResponseReady \/ (delay = 1 /\ (queue # <<>> \/ isMultiWordResponse))
      should == ("fifo" \in ints /\ (full \/ refilled)) \/ ("dsa" \in ints /\ ready)
      edge == should /\ ~cdPrevShouldIRQ IN
  /\ seekDelay' = IF seekDelay > 0 THEN seekDelay - 1 ELSE 0
  /\ dsaQueue' = queue /\ cdPlaying' = playing
  /\ fifoFillDelay' = FillLeft(fill, playing)
  /\ fifoDataReady' = (full \/ refilled)
  /\ fifoReadCount' = IF (arrives /\ i2s) \/ refilled THEN 0 ELSE fifoReadCount
  /\ dsaResponseDelay' = IF delay > 0 THEN delay - 1 ELSE 0
  /\ dsaResponseReady' = ready
  /\ cdPrevShouldIRQ' = IF "master" \in ints THEN EdgeConsumed(should) ELSE cdPrevShouldIRQ
  /\ swallowed' = (swallowed /\ cdPrevShouldIRQ')
  /\ latch' = IF "master" \in ints /\ edge THEN running ELSE latch
  /\ UNCHANGED <<cdCmd, tocLeft, isMultiWordResponse, heads, i2s, ints, running, isr, isrLeft, host>>

-----------------------------------------------------------------------------
(* The GPU's interrupt routine, from the BIOS listing, with the enable-word    *)
(* rewrite at entry that CDROMWriteWord's comment says every invocation makes. *)

\* Entry: an answer waiting switches the interrupt to the FIFO and opens the
\* data path; otherwise the FIFO is read, and a finished transfer disarms.
IsrEnter ==
  /\ running /\ isr = "idle" /\ latch
  /\ cdPrevShouldIRQ' = FALSE /\ swallowed' = FALSE
  /\ \/ /\ dsaResponseReady
        /\ ints' = (ints \cup {"fifo"}) \ {"dsa"}
        /\ i2s' = TRUE /\ isr' = "ack" /\ UNCHANGED isrLeft
     \/ /\ ~dsaResponseReady
        /\ ints' \in {ints, ints \ {"master"}}
        /\ isr' = "fifo" /\ isrLeft' = DrainReads /\ UNCHANGED i2s
  /\ UNCHANGED <<cdCmd, tocLeft, dsa, cdPlaying, seekDelay, fifo, heads, running, latch, host>>

IsrAck ==
  /\ running /\ isr = "ack" /\ Ack /\ isr' = "data"
  /\ UNCHANGED <<regs, running, latch, isrLeft, host>>

IsrData ==
  /\ running /\ isr = "data" /\ ReadData /\ isr' = "exit"
  /\ UNCHANGED <<regs, running, latch, isrLeft, host>>

IsrFifo ==
  /\ running /\ isr = "fifo" /\ ReadFifo
  /\ isrLeft' = isrLeft - 1
  /\ isr' = IF isrLeft = 1 THEN "exit" ELSE "fifo"
  /\ UNCHANGED <<regs, running, latch, host>>

\* The epilogue's G_FLAGS store clears the interrupt latch, that of an edge
\* which came since the entry included.
IsrExit ==
  /\ running /\ isr = "exit" /\ isr' = "idle" /\ latch' = FALSE
  /\ swallowed' = cdPrevShouldIRQ
  /\ UNCHANGED <<cdCmd, tocLeft, dsa, cdPlaying, seekDelay, fifo, heads, i2s, ints, cdPrevShouldIRQ,
                 running, isrLeft, host>>

Isr == IsrEnter \/ IsrAck \/ IsrData \/ IsrFifo \/ IsrExit

-----------------------------------------------------------------------------
(* The 68000.                                                                 *)

Move ==
  /\ moves < MaxMoves /\ moves' = moves + 1
  /\ UNCHANGED <<acking, cdBootStubInjected>>

HostCommand == Move /\ (\E c \in Commands : WriteCommand(c)) /\ UNCHANGED <<regs, gpu>>

\* CD_read clears a pending answer and dumps the FIFO without looking first.
BlindRead == Move /\ ReadData /\ UNCHANGED <<regs, gpu>>
BlindFifo == Move /\ ReadFifo /\ UNCHANGED <<regs, gpu>>

\* A store to BUTCH + 2 re-arms the edge gate.
WriteButch ==
  /\ Move
  /\ \E e \in Enables : ints' = e
  /\ cdPrevShouldIRQ' = FALSE /\ swallowed' = FALSE
  /\ UNCHANGED <<cdCmd, tocLeft, dsa, cdPlaying, seekDelay, fifo, heads, i2s, gpu>>

WriteI2s ==
  /\ Move /\ i2s' = ~i2s
  /\ UNCHANGED <<cdCmd, tocLeft, dsa, cdPlaying, seekDelay, fifo, heads, ints, cdPrevShouldIRQ, swallowed, gpu>>

\* The hook at the BIOS's jump to the game, whatever the BIOS has the drive
\* doing by then; it fires once, and a reset does not arm it again.
ParkHead ==
  /\ ~cdBootStubInjected /\ cdBootStubInjected' = TRUE
  /\ \E b \in Blocks : Park(b)
  /\ UNCHANGED <<regs, gpu, acking, moves>>

\* retro_reset: CDROMReset and GPUReset, with a disc that may be playing.
Reset ==
  /\ moves < MaxMoves /\ moves' = moves + 1
  /\ cdCmd' = "none" /\ tocLeft' = 0
  /\ dsaQueue' = <<>> /\ dsaResponseReady' = FALSE /\ dsaResponseDelay' = 0
  /\ isMultiWordResponse' = FALSE
  /\ cdPlaying' = FALSE /\ seekDelay' = 0
  /\ fifoDataReady' = FALSE /\ fifoReadCount' = 0 /\ fifoFillDelay' = 0
  /\ block' = 0 /\ cdBufPtr' = SectorWords /\ ssiBlock' = 0 /\ ssiBufPtr' = SectorWords
  /\ i2s' = FALSE /\ ints' = {} /\ cdPrevShouldIRQ' = FALSE /\ swallowed' = FALSE
  /\ running' = FALSE /\ latch' = FALSE /\ isr' = "idle" /\ isrLeft' = 0
  /\ acking' = FALSE /\ UNCHANGED cdBootStubInjected

GpuHalt ==
  /\ Move /\ running /\ running' = FALSE
  /\ UNCHANGED <<cdCmd, tocLeft, dsa, cdPlaying, seekDelay, fifo, heads, regs, latch, isr, isrLeft>>

GpuGo ==
  /\ ~running /\ running' = TRUE
  /\ UNCHANGED <<cdCmd, tocLeft, dsa, cdPlaying, seekDelay, fifo, heads, regs, latch, isr, isrLeft, host>>

\* The BIOS's polled read: bit 13, then DS_DATA, then the ack.
PollRead ==
  /\ dsaResponseReady /\ ~acking /\ acking' = TRUE
  /\ ReadData /\ UNCHANGED <<regs, gpu, moves, cdBootStubInjected>>

PollAck ==
  /\ acking /\ acking' = FALSE
  /\ Ack /\ UNCHANGED <<regs, gpu, moves, cdBootStubInjected>>

Next ==
  \/ Tick \/ SsiSample
  \/ Isr
  \/ HostCommand \/ BlindRead \/ BlindFifo \/ WriteButch \/ WriteI2s
  \/ ParkHead \/ Reset \/ GpuHalt \/ GpuGo \/ PollRead \/ PollAck

Spec == Init /\ [][Next]_vars

\* The halfline tick never stops, a running GPU executes, and a program that
\* halts the GPU starts it again.
FairSpec == Spec /\ WF_vars(Tick) /\ WF_vars(Isr) /\ WF_vars(GpuGo)

-----------------------------------------------------------------------------
\* A queued answer is visible or on its way to being visible, unless a Goto has
\* hidden it: the next push or ack shows it again, a push only while there is
\* room in the queue.
WordOnItsWay ==
  dsaQueue # <<>> /\ ~dsaResponseReady /\ dsaResponseDelay = 0
    => cdCmd \in {"minsec", "frame"} \/ Len(dsaQueue) = DsaQueueSize

\* What DSAQueuePush's comment says of every response: it becomes visible after
\* a delay, so once another command is answered nothing stays hidden.
HiddenOnlyByGoto ==
  dsaQueue # <<>> /\ ~dsaResponseReady /\ dsaResponseDelay = 0
    => cdCmd \in {"minsec", "frame"}

\* What the queue's comment says: a new command does not discard an unread
\* answer, so one that is visible stays visible until it is read or acked.
UnreadStaysVisible ==
  [][dsaResponseReady /\ dsaQueue # <<>> /\ cdCmd' # cdCmd
       => dsaResponseReady' \/ dsaResponseDelay' > 0]_vars

\* What the DS_DATA read's comment says: a seek's Found is handed over before
\* the answer of a Stop sent after it.
FoundBeforeStop ==
  ~(cdCmd = "stop" /\ seekDelay > 0 /\ dsaQueue # <<>> /\ dsaQueue[Len(dsaQueue)] = "stopped")

\* What the seek delay's comment says: Found and the FIFO data come only after
\* the delay.
SeekKeepsFifoQuiet ==
  [][seekDelay > 0 /\ seekDelay' = seekDelay /\ ~fifoDataReady => ~fifoDataReady']_vars

\* What the comment at isMultiWordResponse says: it tells a table of contents
\* from a single word.
MultiOnlyForToc == isMultiWordResponse => cdCmd \in {"toc3", "toc14"}

\* What the refill comment says: the countdown also fills the FIFO after play
\* starts.
PlayFillsFifo == cdPlaying => fifoDataReady \/ fifoFillDelay > 0

\* What the comment at the TOC re-arm says: bit 13 rises again for the next word.
TocOnItsWay ==
  isMultiWordResponse => dsaResponseReady \/ dsaResponseDelay > 0 \/ acking

\* No answer becomes visible in the timeslice of the command it answers: only
\* the tick raises RX-full, so a 68000 that polls sees the word before the GPU
\* can take it.  Play and Mute are answered at once.
VisibleOnTick ==
  [][~dsaResponseReady /\ dsaResponseReady'
       => Tick \/ (cdCmd' \in {"play", "mute"} /\ moves' # moves)]_vars

\* While the drive goes on playing it stays half-full or about to be: neither a
\* drain, an I2S window, a seek nor a halted GPU leaves a playing stream
\* without its refill timer.
PlayingKeepsTimer ==
  [][cdPlaying /\ cdPlaying' /\ (fifoDataReady \/ fifoFillDelay > 0)
       => fifoDataReady' \/ fifoFillDelay' > 0]_vars

\* The FIFO's head goes to the next word, the next sector, or stays.
FifoHeadGoesOn ==
  \/ <<block, cdBufPtr>>' = <<block, cdBufPtr>>
  \/ block' = block /\ cdBufPtr' = cdBufPtr + 1
  \/ cdBufPtr = SectorWords /\ block' = NextBlock(block) /\ cdBufPtr' = 1

AudioHeadGoesOn ==
  \/ <<ssiBlock, ssiBufPtr>>' = <<ssiBlock, ssiBufPtr>>
  \/ ssiBlock' = ssiBlock /\ ssiBufPtr' = ssiBufPtr + 1
  \/ ssiBlock' = NextBlock(ssiBlock) /\ ssiBufPtr' \in {0, 1}

\* Playing or paused, seeking or not, both heads go to the next word or stay:
\* only a Goto, whose seek is then running, and the boot stub's parking and a
\* reset, which leave the drive silent, replay or skip a part of the stream.
HeadsJumpOnlyBySeek ==
  [][\/ FifoHeadGoesOn /\ AudioHeadGoesOn
     \/ cdCmd' = "frame" /\ seekDelay' > 0
     \/ ~cdPlaying' /\ ~fifoDataReady' /\ seekDelay' = 0]_vars

Requested == {"master", "fifo"} \subseteq ints /\ fifoDataReady

\* A half-full FIFO whose interrupt is enabled is drained: a halted GPU, a reset,
\* a re-armed gate and ticks inside the routine never lose the request.  But for
\* an edge whose latch the routine's own exit clears, and for a table of
\* contents, whose words a slow routine acks before it reads, over and over.
FifoServed == Requested ~> ~Requested \/ swallowed \/ isMultiWordResponse

\* What the comment at the store to BUTCH + 2 is there for: no edge is missed,
\* at the routine's exit either.
EveryEdgeServed == Requested ~> ~Requested \/ isMultiWordResponse

=============================================================================
