-------------------------------- MODULE Uart --------------------------------
(***************************************************************************)
(* JERRY's serial interface (src/jerry/uart.c) with the receive ring of    *)
(* src/jerry/jlink.c, the way retro_run, the guest, the event queue and    *)
(* the save-state code drive them.                                         *)
(*                                                                         *)
(* A character takes a queued event to clock out and another to clock in.  *)
(* TimerBag says what the queue owes the UART: an event that was set is    *)
(* dispatched once unless it is removed.  Character times are abstracted:  *)
(* either queued event may come first, which covers every divider.         *)
(*                                                                         *)
(* A byte is its position in the stream it belongs to: the guest's writes  *)
(* and the arrivals in the ring are numbered.  The numbers stand for guest *)
(* memory, so a save state carries them too.  The voice modem and the      *)
(* interrupt outputs are not part of this module.                          *)
(***************************************************************************)
EXTENDS Integers, Sequences

CONSTANTS
    RingSize,        \* JLINK_RING_SIZE
    SpeedupMax,      \* UART_WIRE_SPEEDUP_MAX
    StateVersions,   \* versions of the save states a frontend hands back
    UartVersion,     \* STATE_VERSION_JERRY_UART
    SpeedVersion,    \* STATE_VERSION_TEAMTAP, since which the speedup is saved
    MaxWrites,       \* bound: bytes the guest writes
    MaxArrivals,     \* bound: bytes that enter the ring
    MaxSaves         \* bound: save states kept, 0 or 1

ASSUME RingAssumption == RingSize \in Nat \ {0}
ASSUME SpeedupAssumption == SpeedupMax \in Nat /\ SpeedupMax > 1
ASSUME VersionAssumption ==
    /\ StateVersions \subseteq Nat /\ UartVersion \in Nat /\ SpeedVersion \in Nat
    /\ UartVersion <= SpeedVersion
ASSUME BoundAssumption == MaxWrites \in Nat /\ MaxArrivals \in Nat /\ MaxSaves \in {0, 1}

Modes == {"disabled", "loopback", "tcp"}   \* netpacket behaves like tcp here

VARIABLES
    mode,        \* jlinkMode
    intent,      \* uartWireSpeedupIntent
    ring,        \* jlinkRing from jlinkHead on, jlinkCount bytes
    effective,   \* uartWireSpeedupEffective
    rxData, rxFull, rxBusy, overrun,
    txShift, txBusy, txHold, txHoldFull,
    queued,      \* how many TX and RX events are in the JERRY list
    rxFast,      \* history: the frame in flight was started while accelerated
    written,     \* history: bytes written by the guest
    sent,        \* history: the last byte given to JLinkSendByte
    arrived,     \* history: bytes that entered the ring
    seen,        \* history: the last byte the guest took out of ASIDATA
    txOrphan,    \* history: txBusy was left without its event by a load
    rxOrphan,    \* history: and rxBusy
    image        \* the save states kept: at most one

config == <<mode, intent>>
receiver == <<rxData, rxFull, rxBusy, overrun, rxFast>>
transmitter == <<txShift, txBusy, txHold, txHoldFull>>
orphans == <<txOrphan, rxOrphan>>
vars == <<mode, intent, ring, effective, rxData, rxFull, rxBusy, overrun, txShift, txBusy,
          txHold, txHoldFull, queued, rxFast, written, sent, arrived, seen, orphans, image>>

Bytes == Nat
Events == {"TX", "RX"}

TypeOK ==
    /\ mode \in Modes /\ intent \in BOOLEAN
    /\ ring \in Seq(Bytes) /\ Len(ring) <= RingSize
    /\ effective \in 1 .. SpeedupMax
    /\ rxData \in Bytes /\ txShift \in Bytes /\ txHold \in Bytes
    /\ rxFull \in BOOLEAN /\ rxBusy \in BOOLEAN /\ overrun \in BOOLEAN /\ rxFast \in BOOLEAN
    /\ txBusy \in BOOLEAN /\ txHoldFull \in BOOLEAN
    /\ txOrphan \in BOOLEAN /\ rxOrphan \in BOOLEAN
    /\ queued \in [Events -> Nat]
    /\ written \in Nat /\ sent \in Nat /\ arrived \in Nat /\ seen \in Nat

-----------------------------------------------------------------------------
(* The event queue and the receive ring, as uart.c calls them.             *)

Set(q, e) == [q EXCEPT ![e] = @ + 1]

\* RemoveCallback takes one event out, if there is one.
RemoveCallback(q, e) == [q EXCEPT ![e] = IF @ > 0 THEN @ - 1 ELSE 0]

\* JLinkRingPush: a full ring drops the newest byte.
RingPush(r, b) == IF Len(r) < RingSize THEN Append(r, b) ELSE r

\* JLinkPoll: bytes leave the socket only while the ring has room.
Arrivals(r, n) ==
    LET room == RingSize - Len(r)
    IN  r \o [i \in 1 .. (IF n < room THEN n ELSE room) |-> arrived + i]

\* Mutant of KickRx: the back-pressure test is dropped.
KickRxAlways(r, full, busy, q) ==
    IF busy \/ r = <<>>
    THEN rxBusy' = busy /\ queued' = q /\ UNCHANGED rxFast
    ELSE rxBusy' = TRUE /\ queued' = Set(q, "RX") /\ rxFast' = (effective > 1)

\* Start a receive frame if there is a byte and none is in flight; while
\* accelerated, also wait for the guest to take the last one.
KickRx(r, full, busy, q) ==
    IF busy \/ r = <<>> \/ (effective > 1 /\ full)
    THEN rxBusy' = busy /\ queued' = q /\ UNCHANGED rxFast
    ELSE rxBusy' = TRUE /\ queued' = Set(q, "RX") /\ rxFast' = (effective > 1)

-----------------------------------------------------------------------------
(* The guest. *)

WriteASIDATA ==
    /\ written < MaxWrites
    /\ written' = written + 1
    /\ \/ /\ ~txBusy
          /\ txShift' = written + 1 /\ txBusy' = TRUE /\ queued' = Set(queued, "TX")
          /\ UNCHANGED <<txHold, txHoldFull>>
       \/ /\ txBusy
          /\ txHold' = written + 1 /\ txHoldFull' = TRUE
          /\ UNCHANGED <<txShift, txBusy, queued>>
    /\ UNCHANGED <<config, ring, effective, receiver, sent, arrived, seen, orphans, image>>

\* A guest that finds RBF clear reads an old byte and knows it.
ReadASIDATA ==
    /\ seen' = IF rxFull THEN rxData ELSE seen
    /\ rxFull' = FALSE
    /\ KickRx(ring, FALSE, rxBusy, queued)
    /\ UNCHANGED <<config, ring, effective, rxData, overrun, transmitter, written, sent,
                   arrived, orphans, image>>

\* Nothing buffered and nothing in flight: the poll may pump the transport.
ReadASISTAT(n) ==
    /\ mode = "tcp" /\ ~rxFull /\ ~rxBusy /\ ring = <<>>
    /\ arrived + n <= MaxArrivals
    /\ ring' = Arrivals(ring, n)
    /\ arrived' = arrived + Len(ring') - Len(ring)
    /\ KickRx(ring', rxFull, rxBusy, queued)
    /\ UNCHANGED <<config, effective, rxData, rxFull, overrun, transmitter, written, sent,
                   seen, orphans, image>>

\* ASICTRL with CLRERR.
ClearErrors ==
    /\ overrun' = FALSE
    /\ UNCHANGED <<config, ring, effective, rxData, rxFull, rxBusy, rxFast, transmitter,
                   queued, written, sent, arrived, seen, orphans, image>>

-----------------------------------------------------------------------------
(* Dispatched events: HandleNextEvent has taken the event out already.     *)

\* The transport after the byte left: loopback pushes it back in at once, and the
\* end of a burst (nothing held) pumps a socket.
Transported(n) ==
    IF mode = "loopback" THEN RingPush(ring, arrived + 1)
    ELSE IF n > 0 THEN Arrivals(ring, n) ELSE ring

\* Mutant of UARTTXCallback: the holding register stays full.
UARTTXCallbackHolding(n) ==
    LET q == RemoveCallback(queued, "TX")
    IN  /\ queued["TX"] > 0
        /\ n > 0 => mode = "tcp" /\ ~txHoldFull /\ arrived + n <= MaxArrivals
        /\ sent' = txShift
        /\ ring' = Transported(n)
        /\ arrived' = arrived + Len(ring') - Len(ring)
        /\ txBusy' = txHoldFull /\ UNCHANGED txHoldFull
        /\ txShift' = IF txHoldFull THEN txHold ELSE txShift
        /\ KickRx(ring', rxFull, rxBusy, IF txHoldFull THEN Set(q, "TX") ELSE q)
        /\ UNCHANGED <<config, effective, rxData, rxFull, overrun, txHold, written,
                       seen, orphans, image>>

UARTTXCallback(n) ==
    LET q == RemoveCallback(queued, "TX")
    IN  /\ queued["TX"] > 0
        /\ n > 0 => mode = "tcp" /\ ~txHoldFull /\ arrived + n <= MaxArrivals
        /\ sent' = txShift
        /\ ring' = Transported(n)
        /\ arrived' = arrived + Len(ring') - Len(ring)
        /\ txBusy' = txHoldFull /\ txHoldFull' = FALSE
        /\ txShift' = IF txHoldFull THEN txHold ELSE txShift
        /\ KickRx(ring', rxFull, rxBusy, IF txHoldFull THEN Set(q, "TX") ELSE q)
        /\ UNCHANGED <<config, effective, rxData, rxFull, overrun, txHold, written,
                       seen, orphans, image>>

\* Mutant of UARTRXCallback: without a byte it returns before it clears the flag.
UARTRXCallbackStuck ==
    LET q == RemoveCallback(queued, "RX")
    IN  /\ queued["RX"] > 0
        /\ \/ /\ ring = <<>>
              /\ queued' = q
              /\ UNCHANGED <<ring, rxData, rxFull, overrun, rxBusy, rxFast>>
           \/ /\ ring # <<>>
              /\ ring' = Tail(ring)
              /\ rxData' = IF rxFull THEN rxData ELSE Head(ring)
              /\ rxFull' = TRUE
              /\ overrun' = (overrun \/ rxFull)
              /\ KickRx(Tail(ring), TRUE, FALSE, q)
        /\ UNCHANGED <<config, effective, transmitter, written, sent, arrived,
                       seen, orphans, image>>

\* The ring may have been emptied while the frame was in flight.  A byte that
\* finds RBF set is lost; the older one stays.
UARTRXCallback ==
    LET q == RemoveCallback(queued, "RX")
    IN  /\ queued["RX"] > 0
        /\ \/ /\ ring = <<>>
              /\ KickRx(ring, rxFull, FALSE, q)
              /\ UNCHANGED <<ring, rxData, rxFull, overrun>>
           \/ /\ ring # <<>>
              /\ ring' = Tail(ring)
              /\ rxData' = IF rxFull THEN rxData ELSE Head(ring)
              /\ rxFull' = TRUE
              /\ overrun' = (overrun \/ rxFull)
              /\ KickRx(Tail(ring), TRUE, FALSE, q)
        /\ UNCHANGED <<config, effective, transmitter, written, sent, arrived,
                       seen, orphans, image>>

-----------------------------------------------------------------------------
(* The frontend, between frames. *)

\* retro_run: JLinkPoll, then UARTPoll.
UARTPoll(n) ==
    /\ n > 0 => mode = "tcp" /\ arrived + n <= MaxArrivals
    /\ ring' = Arrivals(ring, n)
    /\ arrived' = arrived + Len(ring') - Len(ring)
    /\ KickRx(ring', rxFull, rxBusy, queued)
    /\ UNCHANGED <<config, effective, rxData, rxFull, overrun, transmitter, written, sent,
                   seen, orphans, image>>

\* UARTSetLinkMode: JLinkClose empties the ring and drops the speedup.
UARTSetLinkMode(m) ==
    /\ m # mode
    /\ mode' = m /\ ring' = <<>> /\ effective' = 1
    /\ UNCHANGED <<intent, receiver, transmitter, queued, written, sent, arrived,
                   seen, orphans, image>>

UARTSetWireSpeedupIntent(on) ==
    /\ intent' = on
    /\ effective' = IF on THEN effective ELSE 1
    /\ UNCHANGED <<mode, ring, receiver, transmitter, queued, written, sent, arrived,
                   seen, orphans, image>>

\* JLinkNegOnRaw and JLinkNegTick: the negotiation settles on a divisor.
UARTSetWireSpeedupEffective(d) ==
    /\ d > 1 => mode = "tcp" /\ intent
    /\ effective' = d
    /\ UNCHANGED <<config, ring, receiver, transmitter, queued, written, sent, arrived,
                   seen, orphans, image>>

\* Mutant of UARTReset: a receive event is left in the queue.
UARTResetLeavesRx ==
    /\ queued' = RemoveCallback(queued, "TX")
    /\ rxData' = 0 /\ rxFull' = FALSE /\ rxBusy' = FALSE /\ overrun' = FALSE /\ rxFast' = FALSE
    /\ txShift' = 0 /\ txBusy' = FALSE /\ txHold' = 0 /\ txHoldFull' = FALSE
    /\ effective' = 1
    /\ txOrphan' = FALSE /\ rxOrphan' = FALSE
    /\ UNCHANGED <<config, ring, written, sent, arrived, seen, image>>

\* One RemoveCallback for either event; the ring is not touched.
UARTReset ==
    /\ queued' = RemoveCallback(RemoveCallback(queued, "TX"), "RX")
    /\ rxData' = 0 /\ rxFull' = FALSE /\ rxBusy' = FALSE /\ overrun' = FALSE /\ rxFast' = FALSE
    /\ txShift' = 0 /\ txBusy' = FALSE /\ txHold' = 0 /\ txHoldFull' = FALSE
    /\ effective' = 1
    /\ txOrphan' = FALSE /\ rxOrphan' = FALSE
    /\ UNCHANGED <<config, ring, written, sent, arrived, seen, image>>

\* retro_deinit: a reset, and the link and the user's intent go too.
UARTDone ==
    /\ queued' = RemoveCallback(RemoveCallback(queued, "TX"), "RX")
    /\ rxData' = 0 /\ rxFull' = FALSE /\ rxBusy' = FALSE /\ overrun' = FALSE /\ rxFast' = FALSE
    /\ txShift' = 0 /\ txBusy' = FALSE /\ txHold' = 0 /\ txHoldFull' = FALSE
    /\ effective' = 1 /\ intent' = FALSE
    /\ txOrphan' = FALSE /\ rxOrphan' = FALSE
    /\ mode' = "disabled" /\ ring' = <<>>
    /\ UNCHANGED <<written, sent, arrived, seen, image>>

\* retro_serialize.
Snapshot ==
    [ring |-> ring, effective |-> effective, rxData |-> rxData, rxFull |-> rxFull,
     rxBusy |-> rxBusy, overrun |-> overrun, txShift |-> txShift, txBusy |-> txBusy,
     txHold |-> txHold, txHoldFull |-> txHoldFull, queued |-> queued, rxFast |-> rxFast,
     written |-> written, sent |-> sent, arrived |-> arrived, seen |-> seen,
     txOrphan |-> txOrphan, rxOrphan |-> rxOrphan]

StateSave ==
    /\ MaxSaves > 0 /\ image = {}
    /\ image' = {Snapshot}
    /\ UNCHANGED <<config, ring, effective, receiver, transmitter, queued, written, sent,
                   arrived, seen, orphans>>

\* retro_unserialize of a state of version v.  A state older than SpeedVersion was
\* never accelerated; one older than UartVersion has no UART event in its queue
\* and leaves the UART's own variables as they are, the busy flags included.
StateLoad(img, v) ==
    /\ v < SpeedVersion => img.effective = 1 /\ ~img.rxFast
    /\ queued' = IF v >= UartVersion THEN img.queued ELSE [e \in Events |-> 0]
    /\ effective' = IF v >= SpeedVersion THEN img.effective ELSE 1
    /\ \/ /\ v >= UartVersion
          /\ ring' = img.ring
          /\ rxData' = img.rxData /\ rxFull' = img.rxFull /\ rxBusy' = img.rxBusy
          /\ overrun' = img.overrun /\ rxFast' = img.rxFast
          /\ txShift' = img.txShift /\ txBusy' = img.txBusy
          /\ txHold' = img.txHold /\ txHoldFull' = img.txHoldFull
          /\ written' = img.written /\ sent' = img.sent
          /\ arrived' = img.arrived /\ seen' = img.seen
          /\ txOrphan' = img.txOrphan /\ rxOrphan' = img.rxOrphan
       \/ /\ v < UartVersion
          /\ txOrphan' = txBusy /\ rxOrphan' = rxBusy
          /\ UNCHANGED <<ring, receiver, transmitter, written, sent, arrived, seen>>
    /\ image' = {}
    /\ UNCHANGED config

-----------------------------------------------------------------------------

Init ==
    /\ mode = "disabled" /\ intent = FALSE
    /\ ring = <<>> /\ effective = 1
    /\ rxData = 0 /\ rxFull = FALSE /\ rxBusy = FALSE /\ overrun = FALSE /\ rxFast = FALSE
    /\ txShift = 0 /\ txBusy = FALSE /\ txHold = 0 /\ txHoldFull = FALSE
    /\ queued = [e \in Events |-> 0]
    /\ written = 0 /\ sent = 0 /\ arrived = 0 /\ seen = 0
    /\ txOrphan = FALSE /\ rxOrphan = FALSE
    /\ image = {}

Next ==
    \/ WriteASIDATA
    \/ ReadASIDATA
    \/ \E n \in 1 .. MaxArrivals : ReadASISTAT(n)
    \/ ClearErrors
    \/ \E n \in 0 .. MaxArrivals : UARTTXCallback(n)
    \/ UARTRXCallback
    \/ \E n \in 0 .. MaxArrivals : UARTPoll(n)
    \/ \E m \in Modes : UARTSetLinkMode(m)
    \/ \E on \in BOOLEAN : UARTSetWireSpeedupIntent(on)
    \/ \E d \in {1, SpeedupMax} : UARTSetWireSpeedupEffective(d)
    \/ UARTReset
    \/ UARTDone
    \/ StateSave
    \/ \E img \in image : \E v \in StateVersions : StateLoad(img, v)

\* Queued events are dispatched (FrameScheduler: a frame ends, whatever the guest
\* does) and retro_run polls in every frame.
Fairness ==
    /\ WF_vars(UARTTXCallback(0))
    /\ WF_vars(UARTRXCallback)
    /\ WF_vars(UARTPoll(0))

Spec == Init /\ [][Next]_vars /\ Fairness

-----------------------------------------------------------------------------

\* uartTxBusy, "shift register clocking out", and uartRxBusy, "an RX frame is in
\* flight", are set exactly while one event of their kind is queued.  A flag
\* without an event stops that half of the UART for good; two events send a byte
\* twice.
BusyIffQueued ==
    /\ queued["TX"] = IF txBusy THEN 1 ELSE 0
    /\ queued["RX"] = IF rxBusy THEN 1 ELSE 0

\* Whatever state is loaded: at most one event is queued, never without its flag,
\* and a flag lacks its event only if it was set when a state without a UART
\* replaced the queue; a reset, or a load of a state from before, puts that right.
BusyUnlessOrphaned ==
    /\ queued["TX"] = IF txBusy /\ ~txOrphan THEN 1 ELSE 0
    /\ queued["RX"] = IF rxBusy /\ ~rxOrphan THEN 1 ELSE 0
    /\ txOrphan => txBusy
    /\ rxOrphan => rxBusy

\* Back-pressure (comment above UARTKickRx): a character started while the wire
\* is accelerated never completes into a full receive buffer, however the
\* negotiation, a reset or a state load moves the divisor meanwhile.
FastFrameNeverOverruns == rxBusy /\ rxFast => ~rxFull

Increasing(s) == \A i, j \in 1 .. Len(s) : i < j => s[i] < s[j]

\* Bytes on their way out and bytes on their way in keep their order and none is
\* there twice: last sent, shift register, holding register; last read, receive
\* buffer, ring.
StreamsInOrder ==
    /\ txBusy => sent < txShift
    /\ txHoldFull => txBusy /\ txShift < txHold
    /\ rxFull => seen < rxData
    /\ Increasing(ring)
    /\ \A i \in 1 .. Len(ring) : seen < ring[i] /\ (rxFull => rxData < ring[i])

\* A byte that waits in the ring reaches the guest's view, or the link is closed
\* under it: nobody has to write first for it to be received.  Only a machine
\* that is reset or loaded over and over may keep it waiting.
RxDelivered ==
    <>[][/\ ~UARTReset
         /\ ~\E img \in image : \E v \in StateVersions : StateLoad(img, v)]_vars
        => ((ring # <<>>) ~> (rxFull \/ ring = <<>>))

\* The holding register always empties again, so a guest that waits for TBE does
\* not wait for ever.
HoldDrains == txHoldFull ~> ~txHoldFull

\* uart.c, above UARTKickRx: "speedup set but no transport" cannot coexist with a
\* pending byte.
SpeedupNeedsTransport == effective > 1 /\ mode = "disabled" => ring = <<>>
=============================================================================
