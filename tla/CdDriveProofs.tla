--------------------------- MODULE CdDriveProofs ---------------------------
(* What the drive of CdDrive keeps for every size of its queue, its delays and *)
(* its disc, and for every budget of the 68000: a queued answer is on its way, *)
(* an answer becomes visible at a tick, a playing stream keeps its refill      *)
(* timer, the heads jump only by a seek, and an edge that counts as delivered  *)
(* is latched.                                                                 *)
EXTENDS CdDrive, TLAPS

\* The types the arguments below use.
Types ==
  /\ dsaQueue \in Seq(Answers) /\ dsaResponseDelay \in Nat
  /\ fifoFillDelay \in Nat /\ seekDelay \in Nat /\ moves \in Nat
  /\ block \in Blocks

LEMMA Sizes ==
  /\ DsaQueueSize \in Nat \ {0} /\ ResponseTicks \in Nat \ {0}
  /\ FillTicks \in Nat \ {0} /\ SeekTicks \in Nat \ {0} /\ NBlocks \in Nat \ {0}
  /\ RefillTicks \subseteq Nat \ {0}
BY ConstantsOK DEF ConstantsOK

LEMMA TypesInit == Init => Types
BY Sizes DEF Init, Types, Blocks

\* A push keeps the queue a sequence of answers and the delay a number.
LEMMA PushTypes ==
  ASSUME Types, NEW w \in Answers, Push(w)
  PROVE  dsaQueue' \in Seq(Answers) /\ dsaResponseDelay' \in Nat
<1>1. Append(dsaQueue, w) \in Seq(Answers)
  BY DEF Types
<1> QED BY <1>1, Sizes DEF Push, Types

LEMMA ReadTypes ==
  ASSUME Types, ReadData
  PROVE  /\ dsaQueue' \in Seq(Answers) /\ dsaResponseDelay' \in Nat
         /\ fifoFillDelay' \in Nat /\ seekDelay' \in Nat /\ block' \in Blocks
<1>1. CASE ReadQueued
  <2>1. Tail(dsaQueue) \in Seq(Answers)
    BY <1>1 DEF ReadQueued, Types
  <2> QED BY <1>1, <2>1, Sizes DEF ReadQueued, ReadData, heads, Types
<1>2. CASE ReadEarly
  BY <1>2 DEF ReadEarly, ReadData, dsa, fifo, heads, Types
<1>3. CASE ReadDirect
  BY <1>3 DEF ReadDirect, ReadData, heads, Types
<1> QED BY <1>1, <1>2, <1>3 DEF ReadData

LEMMA NextBlockType == ASSUME NEW b \in Blocks PROVE NextBlock(b) \in Blocks
BY Sizes DEF Blocks, NextBlock

LEMMA FifoTypes ==
  ASSUME Types, ReadFifo
  PROVE  fifoFillDelay' \in Nat /\ block' \in Blocks /\ UNCHANGED <<dsa, seekDelay>>
BY Sizes, NextBlockType DEF ReadFifo, Types, dsa, fifo

LEMMA CommandTypes ==
  ASSUME Types, NEW c, WriteCommand(c)
  PROVE  /\ dsaQueue' \in Seq(Answers) /\ dsaResponseDelay' \in Nat
         /\ fifoFillDelay' \in Nat /\ seekDelay' \in Nat /\ block' \in Blocks
<1>1. ASSUME NEW b \in Blocks, GotoHere(b) PROVE
        /\ dsaQueue' \in Seq(Answers) /\ dsaResponseDelay' \in Nat
        /\ fifoFillDelay' \in Nat /\ seekDelay' \in Nat /\ block' \in Blocks
  BY <1>1, PushTypes DEF GotoHere, Answers, Types, fifo, heads
<1>2. ASSUME NEW b \in Blocks, GotoAway(b) PROVE
        /\ dsaQueue' \in Seq(Answers) /\ dsaResponseDelay' \in Nat
        /\ fifoFillDelay' \in Nat /\ seekDelay' \in Nat /\ block' \in Blocks
  <2>1. DistanceTicks(block, b) \in Nat
    BY <1>2, Sizes DEF DistanceTicks, Types, Blocks
  <2> QED BY <1>2, <2>1, Sizes DEF GotoAway, Types, fifo
<1>3. CASE GotoMinSec
  BY <1>3 DEF GotoMinSec, Types, fifo, heads
<1>4. CASE ReadToc
  BY <1>4, Sizes DEF ReadToc, Types, fifo, heads
<1>5. CASE StopDrive
  BY <1>5, PushTypes DEF StopDrive, Answers, Types, heads
<1>6. CASE Pausing(c)
  BY <1>6, PushTypes DEF Pausing, Answers, Types, fifo, heads
<1>7. CASE SingleWord
  BY <1>7, PushTypes DEF SingleWord, Answers, Types, fifo, heads
<1>8. CASE AnswerAtOnce
  BY <1>8 DEF AnswerAtOnce, Types, fifo, heads
<1> QED BY <1>1, <1>2, <1>3, <1>4, <1>5, <1>6, <1>7, <1>8 DEF WriteCommand

LEMMA TickTypes ==
  ASSUME Types, Tick PROVE Types'
<1>1. Append(dsaQueue, "found") \in Seq(Answers)
  BY DEF Types, Answers
<1>2. dsaQueue' \in Seq(Answers)
  BY <1>1 DEF Tick, Types
<1>3. dsaResponseDelay' \in Nat /\ fifoFillDelay' \in Nat /\ seekDelay' \in Nat
  BY Sizes DEF Tick, FillLeft, Types
<1> QED BY <1>2, <1>3 DEF Tick, Types, heads, host

LEMMA TypesStep == Types /\ [Next]_vars => Types'
<1> SUFFICES ASSUME Types, [Next]_vars PROVE Types'
  OBVIOUS
<1>1. CASE Tick
  BY <1>1, TickTypes
<1>2. CASE SsiSample
  BY <1>2 DEF SsiSample, Types, dsa, fifo, host
<1>3. CASE IsrEnter
  BY <1>3 DEF IsrEnter, Types, dsa, fifo, heads, host
<1>4. CASE IsrAck
  BY <1>4, Sizes DEF IsrAck, Ack, Types, fifo, heads, host
<1>5. CASE IsrData
  BY <1>5, ReadTypes DEF IsrData, Types, host
<1>6. CASE IsrFifo
  BY <1>6, FifoTypes DEF IsrFifo, Types, dsa, host
<1>7. CASE IsrExit
  BY <1>7 DEF IsrExit, Types, dsa, fifo, heads, host
<1>8. CASE HostCommand
  BY <1>8, CommandTypes DEF HostCommand, Move, Types
<1>9. CASE BlindRead
  BY <1>9, ReadTypes DEF BlindRead, Move, Types
<1>10. CASE BlindFifo
  BY <1>10, FifoTypes DEF BlindFifo, Move, Types, dsa
<1>11. CASE WriteButch
  BY <1>11 DEF WriteButch, Move, Types, dsa, fifo, heads
<1>12. CASE WriteI2s
  BY <1>12 DEF WriteI2s, Move, Types, dsa, fifo, heads
<1>13. CASE ParkHead
  BY <1>13 DEF ParkHead, Park, Types, dsa
<1>14. CASE GpuHalt
  BY <1>14 DEF GpuHalt, Move, Types, dsa, fifo, heads
<1>15. CASE GpuGo
  BY <1>15 DEF GpuGo, Types, dsa, fifo, heads, host
<1>16. CASE PollRead
  BY <1>16, ReadTypes DEF PollRead, Types
<1>17. CASE PollAck
  BY <1>17, Sizes DEF PollAck, Ack, Types, fifo, heads
<1>18. CASE Reset
  BY <1>18, Sizes DEF Reset, Types, Blocks
<1>19. CASE UNCHANGED vars
  BY <1>19 DEF vars, Types, dsa, fifo, heads, host
<1> QED BY <1>1, <1>2, <1>3, <1>4, <1>5, <1>6, <1>7, <1>8, <1>9, <1>10, <1>11,
           <1>12, <1>13, <1>14, <1>15, <1>16, <1>17, <1>18, <1>19 DEF Next, Isr

LEMMA TypesAlways == Spec => []Types
<1> QED BY TypesInit, TypesStep, PTL DEF Spec

-----------------------------------------------------------------------------
(* The answers.                                                               *)

\* The queue never holds more than it has room for.
Bounded == Types /\ Len(dsaQueue) <= DsaQueueSize

\* No answer is stuck: it is visible, travelling, or waits in a full queue.
OnItsWay ==
  dsaQueue # <<>> /\ ~dsaResponseReady /\ dsaResponseDelay = 0
    => Len(dsaQueue) = DsaQueueSize

\* After a push, whatever was hidden before is on its way, if there was room.
LEMMA PushShows ==
  ASSUME Bounded, NEW w \in Answers, Push(w)
  PROVE  Len(dsaQueue') <= DsaQueueSize /\ OnItsWay'
<1>1. CASE Len(dsaQueue) < DsaQueueSize
  <2>1. Len(dsaQueue') = Len(dsaQueue) + 1
    BY <1>1 DEF Push, Bounded, Types
  <2>2. dsaResponseReady' \/ dsaResponseDelay' # 0
    BY <1>1, Sizes DEF Push, Bounded, Types
  <2> QED BY <1>1, <2>1, <2>2, Sizes DEF OnItsWay, Bounded, Types
<1>2. CASE ~(Len(dsaQueue) < DsaQueueSize)
  BY <1>2, Sizes DEF Push, OnItsWay, Bounded, Types
<1> QED BY <1>1, <1>2

LEMMA ReadShows ==
  ASSUME Bounded, WordOnItsWay, ReadData
  PROVE  Len(dsaQueue') <= DsaQueueSize /\ WordOnItsWay'
<1>1. CASE ReadQueued
  <2>1. Len(Tail(dsaQueue)) = Len(dsaQueue) - 1
    BY <1>1 DEF ReadQueued, Bounded, Types
  <2>2. Len(dsaQueue) \in Nat
    BY DEF Bounded, Types
  <2>3. dsaQueue' = Tail(dsaQueue) /\ (dsaQueue' = <<>> \/ dsaResponseDelay' = ResponseTicks)
    BY <1>1 DEF ReadQueued
  <2> QED BY <2>1, <2>2, <2>3, Sizes DEF WordOnItsWay, Bounded
<1>2. CASE ReadEarly
  BY <1>2 DEF ReadEarly, ReadData, WordOnItsWay, Bounded, dsa
<1>3. CASE ReadDirect
  BY <1>3 DEF ReadDirect, WordOnItsWay, Bounded
<1> QED BY <1>1, <1>2, <1>3 DEF ReadData

LEMMA AckShows ==
  ASSUME Bounded, WordOnItsWay, Ack
  PROVE  Len(dsaQueue') <= DsaQueueSize /\ WordOnItsWay'
BY Sizes DEF Ack, WordOnItsWay, Bounded, Types

LEMMA CommandShows ==
  ASSUME Bounded, WordOnItsWay, NEW c, WriteCommand(c)
  PROVE  Len(dsaQueue') <= DsaQueueSize /\ WordOnItsWay'
<1>1. ASSUME NEW w \in Answers, Push(w) PROVE Len(dsaQueue') <= DsaQueueSize /\ WordOnItsWay'
  BY <1>1, PushShows DEF OnItsWay, WordOnItsWay
<1>2. CASE c = "frame" /\ \E b \in Blocks : GotoHere(b) \/ GotoAway(b)
  <2>1. ASSUME NEW b \in Blocks, GotoHere(b) PROVE Len(dsaQueue') <= DsaQueueSize /\ WordOnItsWay'
    BY <1>1, <2>1 DEF GotoHere, Answers
  <2>2. ASSUME NEW b \in Blocks, GotoAway(b) PROVE Len(dsaQueue') <= DsaQueueSize /\ WordOnItsWay'
    BY <1>2, <2>2 DEF GotoAway, WriteCommand, WordOnItsWay, Bounded
  <2> QED BY <1>2, <2>1, <2>2
<1>3. CASE c = "minsec" /\ GotoMinSec
  BY <1>3 DEF GotoMinSec, WriteCommand, WordOnItsWay, Bounded
<1>4. CASE ReadToc
  BY <1>4, Sizes DEF ReadToc, WordOnItsWay, Bounded
<1>5. CASE StopDrive
  BY <1>1, <1>5 DEF StopDrive, Answers
<1>6. CASE Pausing(c)
  BY <1>1, <1>6 DEF Pausing, Answers
<1>7. CASE SingleWord
  BY <1>1, <1>7 DEF SingleWord, Answers
<1>8. CASE AnswerAtOnce
  BY <1>8 DEF AnswerAtOnce, WordOnItsWay, Bounded
<1> QED BY <1>2, <1>3, <1>4, <1>5, <1>6, <1>7, <1>8 DEF WriteCommand

LEMMA TickShows ==
  ASSUME Bounded, WordOnItsWay, Tick
  PROVE  Len(dsaQueue') <= DsaQueueSize /\ WordOnItsWay'
<1> DEFINE pushes == seekDelay = 1 /\ Len(dsaQueue) < DsaQueueSize
<1>1. CASE pushes
  <2>1. Len(dsaQueue') = Len(dsaQueue) + 1 /\ dsaQueue' # <<>>
    BY <1>1 DEF Tick, Bounded, Types
  <2> DEFINE delay == IF ~dsaResponseReady /\ dsaResponseDelay = 0 THEN ResponseTicks
                      ELSE dsaResponseDelay
  <2>2. dsaResponseReady' \/ dsaResponseDelay' # 0
    <3>1. dsaResponseDelay' = IF delay > 0 THEN delay - 1 ELSE 0
      BY <1>1 DEF Tick
    <3>2. dsaResponseReady \/ delay = 1 => dsaResponseReady'
      BY <1>1, <2>1 DEF Tick
    <3>3. delay \in Nat /\ (dsaResponseReady \/ delay > 0)
      BY Sizes DEF Bounded, Types
    <3> QED BY <3>1, <3>2, <3>3
  <2> QED BY <1>1, <2>1, <2>2, Sizes DEF WordOnItsWay, Bounded, Types
<1>2. CASE ~pushes
  <2>1. dsaQueue' = dsaQueue
    BY <1>2 DEF Tick
  <2>2. ASSUME dsaQueue # <<>>, ~dsaResponseReady', dsaResponseDelay' = 0
        PROVE  ~dsaResponseReady /\ dsaResponseDelay = 0
    <3>1. dsaResponseDelay' = IF dsaResponseDelay > 0 THEN dsaResponseDelay - 1 ELSE 0
      BY <1>2 DEF Tick
    <3>2. dsaResponseReady \/ dsaResponseDelay = 1 => dsaResponseReady'
      BY <1>2, <2>1, <2>2 DEF Tick
    <3> QED BY <2>2, <3>1, <3>2 DEF Bounded, Types
  <2> QED BY <2>1, <2>2 DEF WordOnItsWay, Bounded, Tick
<1> QED BY <1>1, <1>2

LEMMA ShownStep == Bounded /\ WordOnItsWay /\ [Next]_vars => Bounded' /\ WordOnItsWay'
<1> SUFFICES ASSUME Bounded, WordOnItsWay, [Next]_vars
             PROVE  Len(dsaQueue') <= DsaQueueSize /\ WordOnItsWay'
  BY TypesStep DEF Bounded
<1>1. CASE Tick
  BY <1>1, TickShows
<1>2. CASE IsrAck \/ PollAck
  BY <1>2, AckShows DEF IsrAck, PollAck
<1>3. CASE IsrData \/ BlindRead \/ PollRead
  BY <1>3, ReadShows DEF IsrData, BlindRead, PollRead
<1>4. CASE HostCommand
  BY <1>4, CommandShows DEF HostCommand
<1>5. CASE SsiSample \/ IsrEnter \/ IsrExit \/ WriteButch \/ WriteI2s \/ GpuHalt \/ GpuGo
           \/ UNCHANGED vars
  <2>1. UNCHANGED <<cdCmd, dsa>>
    BY <1>5 DEF SsiSample, IsrEnter, IsrExit, WriteButch, WriteI2s, GpuHalt, GpuGo, vars
  <2> QED BY <2>1 DEF dsa, WordOnItsWay, Bounded
<1>6. CASE IsrFifo \/ BlindFifo \/ ParkHead
  <2>1. UNCHANGED <<cdCmd, dsa>>
    BY <1>6 DEF IsrFifo, BlindFifo, ReadFifo, ParkHead, Park
  <2> QED BY <2>1 DEF dsa, WordOnItsWay, Bounded
<1>7. CASE Reset
  BY <1>7, Sizes DEF Reset, WordOnItsWay
<1> QED BY <1>1, <1>2, <1>3, <1>4, <1>5, <1>6, <1>7 DEF Next, Isr

\* A queued answer is visible or on its way, for every queue, delay and disc.
THEOREM WordOnItsWayAlways == Spec => []WordOnItsWay
<1>1. Init => Bounded /\ WordOnItsWay
  BY TypesInit, Sizes DEF Init, Bounded, WordOnItsWay
<1> QED BY <1>1, ShownStep, PTL DEF Spec

-----------------------------------------------------------------------------
(* Visibility.                                                                *)

\* Reads, acks and FIFO accesses never raise RX-full.
LEMMA ReadRaisesNothing == ReadData /\ dsaResponseReady' => dsaResponseReady
BY DEF ReadData, ReadQueued, ReadEarly, ReadDirect, dsa

LEMMA CommandRaises ==
  ASSUME NEW c, WriteCommand(c), ~dsaResponseReady, dsaResponseReady'
  PROVE  cdCmd' \in {"play", "mute"}
BY DEF WriteCommand, GotoHere, GotoAway, GotoMinSec, ReadToc, StopDrive, Pausing, SingleWord,
       AnswerAtOnce, Push

LEMMA VisibleStep ==
  ASSUME Types, Next, ~dsaResponseReady, dsaResponseReady'
  PROVE  Tick \/ (cdCmd' \in {"play", "mute"} /\ moves' # moves)
<1>1. CASE Tick
  BY <1>1
<1>2. CASE IsrAck \/ PollAck
  BY <1>2 DEF IsrAck, PollAck, Ack
<1>3. CASE IsrData \/ BlindRead \/ PollRead
  BY <1>3, ReadRaisesNothing DEF IsrData, BlindRead, PollRead
<1>4. CASE HostCommand
  BY <1>4, CommandRaises DEF HostCommand, Move, Types
<1>5. CASE SsiSample \/ IsrEnter \/ IsrExit \/ WriteButch \/ WriteI2s \/ GpuHalt \/ GpuGo
  BY <1>5 DEF SsiSample, IsrEnter, IsrExit, WriteButch, WriteI2s, GpuHalt, GpuGo, dsa
<1>6. CASE IsrFifo \/ BlindFifo \/ ParkHead
  BY <1>6 DEF IsrFifo, BlindFifo, ReadFifo, ParkHead, Park, dsa
<1>7. CASE Reset
  BY <1>7 DEF Reset
<1> QED BY <1>1, <1>2, <1>3, <1>4, <1>5, <1>6, <1>7 DEF Next, Isr

\* An answer becomes visible at a tick, never in the timeslice of its command
\* (Play and Mute excepted).
THEOREM VisibleOnTickAlways == Spec => VisibleOnTick
<1>1. Types /\ [Next]_vars
        => [~dsaResponseReady /\ dsaResponseReady'
              => Tick \/ (cdCmd' \in {"play", "mute"} /\ moves' # moves)]_vars
  BY VisibleStep
<1> QED BY <1>1, TypesAlways, PTL DEF Spec, VisibleOnTick

-----------------------------------------------------------------------------
(* The refill timer.                                                          *)

Timed == fifoDataReady \/ fifoFillDelay > 0

LEMMA ReadTimed == ASSUME Types, ReadData, Timed PROVE Timed'
<1>1. CASE ReadQueued
  <2>1. fifoFillDelay' = fifoFillDelay /\ (fifoDataReady => fifoDataReady')
    BY <1>1 DEF ReadQueued
  <2> QED BY <2>1 DEF Timed
<1>2. CASE ReadEarly
  BY <1>2 DEF ReadEarly, Timed, fifo
<1>3. CASE ReadDirect
  <2>1. fifoFillDelay' = fifoFillDelay /\ (fifoDataReady => fifoDataReady')
    BY <1>3 DEF ReadDirect
  <2> QED BY <2>1 DEF Timed
<1> QED BY <1>1, <1>2, <1>3 DEF ReadData

LEMMA FifoTimed == ASSUME Types, ReadFifo, Timed PROVE Timed'
<1>1. CASE fifoDataReady /\ fifoReadCount + 1 >= DrainReads
  <2>1. fifoFillDelay' \in RefillTicks
    BY <1>1 DEF ReadFifo
  <2> QED BY <2>1, Sizes DEF Timed
<1>2. CASE fifoDataReady /\ ~(fifoReadCount + 1 >= DrainReads)
  BY <1>2 DEF ReadFifo, Timed
<1>3. CASE ~fifoDataReady
  <2>1. fifoFillDelay' = fifoFillDelay
    BY <1>3 DEF ReadFifo, fifo
  <2> QED BY <1>3, <2>1 DEF Timed
<1> QED BY <1>1, <1>2, <1>3

LEMMA CommandTimed ==
  ASSUME NEW c, WriteCommand(c), Timed, cdPlaying' PROVE Timed'
<1>1. CASE StopDrive
  BY <1>1 DEF StopDrive
<1>2. CASE ~StopDrive
  <2>1. UNCHANGED fifo
    BY <1>2 DEF WriteCommand, GotoHere, GotoAway, GotoMinSec, ReadToc, Pausing, SingleWord,
                AnswerAtOnce
  <2> QED BY <2>1 DEF fifo, Timed
<1> QED BY <1>1, <1>2

LEMMA TickTimed == ASSUME Types, Tick, Timed, cdPlaying PROVE Timed'
<1> DEFINE arrives == seekDelay = 1
           fill == IF arrives /\ ~i2s THEN FillTicks ELSE fifoFillDelay
<1>1. fifoFillDelay' = IF fill = 1 /\ ~i2s THEN 1 ELSE IF fill > 0 THEN fill - 1 ELSE 0
  BY DEF Tick, FillLeft
<1>2. fill = 1 /\ i2s => fifoDataReady'
  BY DEF Tick
<1>3. arrives /\ i2s => fifoDataReady'
  BY DEF Tick
<1>4. ~arrives /\ fifoDataReady => fifoDataReady'
  BY DEF Tick
<1>5. fill \in Nat /\ (arrives /\ ~i2s => fill > 0)
  BY Sizes DEF Types
<1> QED BY <1>1, <1>2, <1>3, <1>4, <1>5 DEF Timed

LEMMA TimedStep ==
  ASSUME Types, Next, cdPlaying, cdPlaying', Timed PROVE Timed'
<1>1. CASE Tick
  BY <1>1, TickTimed
<1>2. CASE IsrAck \/ PollAck
  BY <1>2 DEF IsrAck, PollAck, Ack, fifo, Timed
<1>3. CASE IsrData \/ BlindRead \/ PollRead
  BY <1>3, ReadTimed DEF IsrData, BlindRead, PollRead
<1>4. CASE HostCommand
  BY <1>4, CommandTimed DEF HostCommand
<1>5. CASE SsiSample \/ IsrEnter \/ IsrExit \/ WriteButch \/ WriteI2s \/ GpuHalt \/ GpuGo
  BY <1>5 DEF SsiSample, IsrEnter, IsrExit, WriteButch, WriteI2s, GpuHalt, GpuGo, fifo, Timed
<1>6. CASE IsrFifo \/ BlindFifo
  BY <1>6, FifoTimed DEF IsrFifo, BlindFifo
<1>7. CASE ParkHead \/ Reset
  BY <1>7 DEF ParkHead, Park, Reset
<1> QED BY <1>1, <1>2, <1>3, <1>4, <1>5, <1>6, <1>7 DEF Next, Isr

\* A playing stream that is half-full or refilling stays so while it plays.
THEOREM PlayingKeepsTimerAlways == Spec => PlayingKeepsTimer
<1>1. Types /\ [Next]_vars
        => [cdPlaying /\ cdPlaying' /\ (fifoDataReady \/ fifoFillDelay > 0)
              => fifoDataReady' \/ fifoFillDelay' > 0]_vars
  BY TimedStep DEF Timed
<1> QED BY <1>1, TypesAlways, PTL DEF Spec, PlayingKeepsTimer

-----------------------------------------------------------------------------
(* The heads.                                                                 *)

LEMMA SectorLong == SectorWords \in Nat /\ SectorWords > 1
BY ConstantsOK DEF ConstantsOK

\* The FIFO's head stays in its sector.
Placed == Types /\ cdBufPtr \in 0 .. SectorWords

LEMMA PlacedInit == Init => Placed
BY TypesInit, SectorLong DEF Init, Placed

LEMMA CommandPlaced ==
  ASSUME NEW c, WriteCommand(c), Placed
  PROVE  cdBufPtr' \in 0 .. SectorWords
<1>1. cdBufPtr' = cdBufPtr \/ cdBufPtr' = 1
  <2>1. CASE \E b \in Blocks : GotoAway(b)
    BY <2>1 DEF GotoAway
  <2>2. CASE ~\E b \in Blocks : GotoAway(b)
    <3>1. UNCHANGED heads
      BY <2>2 DEF WriteCommand, GotoHere, GotoMinSec, ReadToc, StopDrive, Pausing, SingleWord,
                  AnswerAtOnce
    <3> QED BY <3>1 DEF heads
  <2> QED BY <2>1, <2>2
<1> QED BY <1>1, SectorLong DEF Placed

LEMMA FifoPlaced ==
  ASSUME Placed, ReadFifo
  PROVE  cdBufPtr' \in 0 .. SectorWords
<1>1. CASE fifoDataReady \/ cdPlaying
  <2> DEFINE at == IF cdBufPtr >= SectorWords /\ cdPlaying THEN 0 ELSE cdBufPtr
  <2>1. cdBufPtr' = IF at < SectorWords THEN at + 1 ELSE at
    BY <1>1 DEF ReadFifo
  <2> QED BY <2>1, SectorLong DEF Placed
<1>2. CASE ~(fifoDataReady \/ cdPlaying)
  BY <1>2 DEF ReadFifo, Placed
<1> QED BY <1>1, <1>2

LEMMA PlacedStep == Placed /\ [Next]_vars => Placed'
<1> SUFFICES ASSUME Placed, [Next]_vars PROVE Placed'
  OBVIOUS
<1>1. Types'
  BY TypesStep DEF Placed
<1> SUFFICES cdBufPtr' \in 0 .. SectorWords
  BY <1>1 DEF Placed
<1>2. CASE HostCommand
  BY <1>2, CommandPlaced DEF HostCommand
<1>3. CASE IsrFifo \/ BlindFifo
  BY <1>3, FifoPlaced DEF IsrFifo, BlindFifo
<1>4. CASE ParkHead \/ Reset
  BY <1>4, SectorLong DEF ParkHead, Park, Reset
<1>5. CASE Tick \/ IsrAck \/ PollAck \/ IsrData \/ BlindRead \/ PollRead
  BY <1>5 DEF Tick, IsrAck, PollAck, Ack, IsrData, BlindRead, PollRead, ReadData, heads, Placed
<1>6. CASE SsiSample \/ IsrEnter \/ IsrExit \/ WriteButch \/ WriteI2s \/ GpuHalt \/ GpuGo
           \/ UNCHANGED vars
  BY <1>6 DEF SsiSample, IsrEnter, IsrExit, WriteButch, WriteI2s, GpuHalt, GpuGo, vars, heads, Placed
<1> QED BY <1>2, <1>3, <1>4, <1>5, <1>6 DEF Next, Isr

\* A sector has more than one word, so one sample loads a sector or ends one.
LEMMA SampleGoesOn == SsiSample => FifoHeadGoesOn /\ AudioHeadGoesOn
BY SectorLong DEF SsiSample, FifoHeadGoesOn, AudioHeadGoesOn

\* A sector in hand is read to its end, and only a playing drive loads another.
LEMMA FifoGoesOn == ASSUME Placed, ReadFifo PROVE FifoHeadGoesOn /\ AudioHeadGoesOn
BY SectorLong DEF Placed, ReadFifo, FifoHeadGoesOn, AudioHeadGoesOn

\* A command that moves the heads is a Goto, and leaves its seek running whatever
\* the distance.
LEMMA CommandMovesBySeek ==
  ASSUME NEW c, Placed, WriteCommand(c)
  PROVE  UNCHANGED heads \/ (cdCmd' = "frame" /\ seekDelay' > 0)
<1>1. CASE c = "frame" /\ \E b \in Blocks : GotoAway(b)
  <2>1. PICK b \in Blocks : GotoAway(b)
    BY <1>1
  <2>2. DistanceTicks(block, b) \in Nat
    BY Sizes DEF DistanceTicks, Blocks, Placed, Types
  <2>3. seekDelay' = SeekTicks + DistanceTicks(block, b) /\ cdCmd' = c
    BY <2>1 DEF GotoAway, WriteCommand
  <2> QED BY <1>1, <2>2, <2>3, Sizes
<1>2. CASE ~(c = "frame" /\ \E b \in Blocks : GotoAway(b))
  BY <1>2 DEF WriteCommand, GotoHere, GotoMinSec, ReadToc, StopDrive, Pausing, SingleWord,
              AnswerAtOnce
<1> QED BY <1>1, <1>2

LEMMA HeadsStep ==
  ASSUME Placed, Next
  PROVE  \/ FifoHeadGoesOn /\ AudioHeadGoesOn
         \/ cdCmd' = "frame" /\ seekDelay' > 0
         \/ ~cdPlaying' /\ ~fifoDataReady' /\ seekDelay' = 0
<1>1. CASE SsiSample
  BY <1>1, SampleGoesOn
<1>2. CASE IsrFifo \/ BlindFifo
  BY <1>2, FifoGoesOn DEF IsrFifo, BlindFifo
<1>3. CASE ParkHead \/ Reset
  BY <1>3 DEF ParkHead, Park, Reset
<1>4. CASE UNCHANGED heads
  BY <1>4 DEF heads, FifoHeadGoesOn, AudioHeadGoesOn
<1>5. CASE HostCommand
  BY <1>4, <1>5, CommandMovesBySeek DEF HostCommand
<1>6. CASE Tick \/ IsrAck \/ PollAck \/ IsrData \/ BlindRead \/ PollRead
  BY <1>4, <1>6 DEF Tick, IsrAck, PollAck, Ack, IsrData, BlindRead, PollRead, ReadData
<1>7. CASE IsrEnter \/ IsrExit \/ WriteButch \/ WriteI2s \/ GpuHalt \/ GpuGo
  BY <1>4, <1>7 DEF IsrEnter, IsrExit, WriteButch, WriteI2s, GpuHalt, GpuGo
<1> QED BY <1>1, <1>2, <1>3, <1>5, <1>6, <1>7 DEF Next, Isr

\* Without a seek a stream is neither replayed nor cut, but for the boot stub's
\* parking and a reset, after which the drive is silent.
THEOREM HeadsJumpOnlyBySeekAlways == Spec => HeadsJumpOnlyBySeek
<1>1. Placed /\ [Next]_vars
        => [\/ FifoHeadGoesOn /\ AudioHeadGoesOn
            \/ cdCmd' = "frame" /\ seekDelay' > 0
            \/ ~cdPlaying' /\ ~fifoDataReady' /\ seekDelay' = 0]_vars
  BY HeadsStep
<1>2. Spec => []Placed
  BY PlacedInit, PlacedStep, PTL DEF Spec
<1> QED BY <1>1, <1>2, PTL DEF Spec, HeadsJumpOnlyBySeek

-----------------------------------------------------------------------------
(* The interrupt edge.                                                        *)

\* An edge the gate counts as delivered is in the GPU's latch, or the routine's
\* own exit has cleared it there.
EdgeLatched == cdPrevShouldIRQ => latch \/ swallowed

LEMMA EdgeStep == EdgeLatched /\ [Next]_vars => EdgeLatched'
<1> SUFFICES ASSUME EdgeLatched, [Next]_vars PROVE EdgeLatched'
  OBVIOUS
<1>1. CASE Tick
  <2>1. CASE "master" \in ints
    <3>1. PICK should \in BOOLEAN :
            /\ cdPrevShouldIRQ' <=> should /\ running
            /\ latch' = IF should /\ ~cdPrevShouldIRQ THEN running ELSE latch
      BY <1>1, <2>1 DEF Tick, EdgeConsumed
    <3>2. swallowed' <=> swallowed /\ cdPrevShouldIRQ'
      BY <1>1 DEF Tick
    <3> QED BY <3>1, <3>2 DEF EdgeLatched
  <2>2. CASE "master" \notin ints
    BY <1>1, <2>2 DEF Tick, EdgeLatched
  <2> QED BY <2>1, <2>2
<1>2. CASE IsrEnter \/ WriteButch \/ Reset
  BY <1>2 DEF IsrEnter, WriteButch, Reset, EdgeLatched
<1>3. CASE IsrAck \/ IsrData \/ IsrFifo
  BY <1>3 DEF IsrAck, IsrData, IsrFifo, regs, EdgeLatched
<1>4. CASE SsiSample \/ HostCommand \/ BlindRead \/ BlindFifo \/ ParkHead \/ PollRead \/ PollAck
           \/ UNCHANGED vars
  BY <1>4 DEF SsiSample, HostCommand, BlindRead, BlindFifo, ParkHead, PollRead, PollAck, vars, regs,
              gpu, EdgeLatched
<1>5. CASE WriteI2s \/ GpuHalt \/ GpuGo
  BY <1>5 DEF WriteI2s, GpuHalt, GpuGo, regs, gpu, EdgeLatched
<1>6. CASE IsrExit
  BY <1>6, Zenon DEF IsrExit, EdgeLatched
<1> QED BY <1>1, <1>2, <1>3, <1>4, <1>5, <1>6 DEF Next, Isr

\* The gate never swallows an edge itself, halted GPU, reset or re-arm
\* notwithstanding: what FifoServed needs of every state.
THEOREM EdgeLatchedAlways == Spec => []EdgeLatched
<1>1. Init => EdgeLatched
  BY DEF Init, EdgeLatched
<1> QED BY <1>1, EdgeStep, PTL DEF Spec

=============================================================================
