----------------------------- MODULE LinkProofs -----------------------------
(***************************************************************************)
(* The link at its two ends: the guest's serial port (Uart) and the       *)
(* desktop application (Netplay), two components without shared state.     *)
(*                                                                         *)
(* The safety invariants of the UART for every ring size, every number of  *)
(* bytes and saves: the busy flags match the event queue but for what a    *)
(* state older than the UART chunk leaves behind, and an accelerated frame *)
(* never overruns, both for states of any version; and bytes keep their    *)
(* order if every loaded state carries a UART.                             *)
(*                                                                         *)
(* Link control for every number of endpoints, calls, reloads, edges and   *)
(* log lines: the window shows a link up only on the word of the session   *)
(* it shows, and a changed endpoint goes through a closed link.  The       *)
(* invariant says what the commands not yet read will leave of the core's  *)
(* options, and that the newest epoch number comes last of them.           *)
(***************************************************************************)
EXTENDS Uart, Netplay, FiniteSetTheorems, SequenceTheorems, WellFoundedInduction, TLAPS

\* How many events a busy flag stands for.
Count(b) == IF b THEN 1 ELSE 0

\* What is claimed of the running machine and of a saved one alike.
Sound(q, tb, to, rb, ro, fast, full) ==
    /\ q \in [Events -> Nat]
    /\ tb \in BOOLEAN /\ rb \in BOOLEAN /\ to \in BOOLEAN /\ ro \in BOOLEAN
    /\ to => tb
    /\ ro => rb
    /\ q["TX"] = IF to THEN 0 ELSE Count(tb)
    /\ q["RX"] = IF ro THEN 0 ELSE Count(rb)
    /\ rb /\ fast => ~full

\* Inductive: a save state is only as sound as the machine it was taken from.
IInv ==
    /\ Sound(queued, txBusy, txOrphan, rxBusy, rxOrphan, rxFast, rxFull)
    /\ txHoldFull \in BOOLEAN
    /\ \A img \in image :
          /\ Sound(img.queued, img.txBusy, img.txOrphan, img.rxBusy, img.rxOrphan, img.rxFast,
                   img.rxFull)
          /\ img.txHoldFull \in BOOLEAN

\* Every state a frontend hands back was written by a core that has a UART.
NewStates == \A v \in StateVersions : v >= UartVersion

\* The two queue operations on the counts.
LEMMA QueueOps ==
  ASSUME NEW q \in [Events -> Nat], NEW e \in Events
  PROVE  /\ Set(q, e) \in [Events -> Nat]
         /\ Set(q, e)[e] = q[e] + 1
         /\ \A o \in Events : o # e => Set(q, e)[o] = q[o]
         /\ RemoveCallback(q, e) \in [Events -> Nat]
         /\ RemoveCallback(q, e)[e] = IF q[e] > 0 THEN q[e] - 1 ELSE 0
         /\ \A o \in Events : o # e => RemoveCallback(q, e)[o] = q[o]
  BY DEF Set, RemoveCallback

\* UARTKickRx keeps the flag and the queue together, and the frame it starts
\* finds the receive buffer empty if it is a fast one.
LEMMA KickRxSound ==
  ASSUME NEW r, NEW full, NEW busy, NEW tb, NEW to, NEW ro, NEW q,
         Sound(q, tb, to, busy, ro, rxFast, full), KickRx(r, full, busy, q)
  PROVE  Sound(queued', tb, to, rxBusy', ro, rxFast', full)
<1> q \in [Events -> Nat] /\ "RX" \in Events /\ "TX" \in Events
  BY DEF Sound, Events
<1>1. CASE busy \/ r = <<>> \/ (effective > 1 /\ full)
  BY <1>1 DEF KickRx, Sound
<1>2. CASE ~(busy \/ r = <<>> \/ (effective > 1 /\ full))
  <2>1. /\ rxBusy' = TRUE /\ queued' = Set(q, "RX") /\ rxFast' = (effective > 1)
        /\ ~busy /\ ~(effective > 1 /\ full)
    BY <1>2 DEF KickRx
  <2>2. q["RX"] = 0 /\ ~ro
    BY <2>1 DEF Sound, Count
  <2>3. /\ queued' \in [Events -> Nat]
        /\ queued'["RX"] = 1 /\ queued'["TX"] = q["TX"]
    BY <2>1, <2>2, QueueOps
  <2> QED BY <2>1, <2>2, <2>3 DEF Sound, Count
<1> QED BY <1>1, <1>2

\* Taking a queued transmit event out leaves a queue without one.
LEMMA TxTaken ==
  ASSUME NEW q, NEW tb, NEW to, NEW rb, NEW ro, NEW fast, NEW full,
         Sound(q, tb, to, rb, ro, fast, full)
  PROVE  /\ Sound(RemoveCallback(q, "TX"), FALSE, FALSE, rb, ro, fast, full)
         /\ Sound(Set(RemoveCallback(q, "TX"), "TX"), TRUE, FALSE, rb, ro, fast, full)
<1> q \in [Events -> Nat] /\ "RX" \in Events /\ "TX" \in Events
  BY DEF Sound, Events
<1>1. /\ RemoveCallback(q, "TX") \in [Events -> Nat]
      /\ RemoveCallback(q, "TX")["TX"] = 0 /\ RemoveCallback(q, "TX")["RX"] = q["RX"]
  BY QueueOps DEF Sound, Count
<1>2. /\ Set(RemoveCallback(q, "TX"), "TX") \in [Events -> Nat]
      /\ Set(RemoveCallback(q, "TX"), "TX")["TX"] = 1
      /\ Set(RemoveCallback(q, "TX"), "TX")["RX"] = q["RX"]
  BY <1>1, QueueOps
<1> QED BY <1>1, <1>2 DEF Sound, Count

\* Taking a queued receive event out leaves a queue without one.
LEMMA RxTaken ==
  ASSUME NEW q, NEW tb, NEW to, NEW rb, NEW ro, NEW fast, NEW full,
         Sound(q, tb, to, rb, ro, fast, full)
  PROVE  \A f : Sound(RemoveCallback(q, "RX"), tb, to, FALSE, FALSE, fast, f)
<1> q \in [Events -> Nat] /\ "RX" \in Events /\ "TX" \in Events
  BY DEF Sound, Events
<1>1. /\ RemoveCallback(q, "RX") \in [Events -> Nat]
      /\ RemoveCallback(q, "RX")["RX"] = 0 /\ RemoveCallback(q, "RX")["TX"] = q["TX"]
  BY QueueOps DEF Sound, Count
<1> QED BY <1>1 DEF Sound, Count

\* The initial state satisfies the invariant.
LEMMA IInvInit == Init => IInv
<1> SUFFICES ASSUME Init PROVE IInv
  OBVIOUS
<1>1. /\ queued = [e \in Events |-> 0]
      /\ txBusy = FALSE /\ rxBusy = FALSE /\ txHoldFull = FALSE /\ image = {}
      /\ txOrphan = FALSE /\ rxOrphan = FALSE
  BY DEF Init
<1>2. queued \in [Events -> Nat] /\ queued["TX"] = 0 /\ queued["RX"] = 0
  BY <1>1 DEF Events
<1>3. Sound(queued, txBusy, txOrphan, rxBusy, rxOrphan, rxFast, rxFull)
  BY <1>1, <1>2 DEF Sound, Count
<1> QED BY <1>1, <1>3 DEF IInv

\* A reset takes both events out with the flags.
LEMMA ResetSound ==
  ASSUME IInv
  PROVE  Sound(RemoveCallback(RemoveCallback(queued, "TX"), "RX"), FALSE, FALSE, FALSE, FALSE,
               FALSE, FALSE)
<1>1. Sound(queued, txBusy, txOrphan, rxBusy, rxOrphan, rxFast, rxFull)
  BY DEF IInv
<1>2. Sound(RemoveCallback(queued, "TX"), FALSE, FALSE, rxBusy, rxOrphan, rxFast, rxFull)
  BY <1>1, TxTaken, Zenon
<1>3. Sound(RemoveCallback(RemoveCallback(queued, "TX"), "RX"), FALSE, FALSE, FALSE, FALSE,
            rxFast, FALSE)
  BY <1>2, RxTaken, Zenon
<1> QED BY <1>3 DEF Sound

\* Every step keeps the invariant; a state load because its image was sound,
\* or because what it leaves without events it marks.
LEMMA IInvNext ==
  ASSUME IInv, [Next]_vars
  PROVE  IInv'
<1> "TX" \in Events /\ "RX" \in Events
  BY DEF Events
<1>0. /\ Sound(queued, txBusy, txOrphan, rxBusy, rxOrphan, rxFast, rxFull)
      /\ queued \in [Events -> Nat]
      /\ txBusy \in BOOLEAN /\ rxBusy \in BOOLEAN /\ txHoldFull \in BOOLEAN
      /\ txOrphan \in BOOLEAN /\ rxOrphan \in BOOLEAN
  BY DEF IInv, Sound
<1>k. ASSUME image' = image, txHoldFull' \in BOOLEAN,
             Sound(queued', txBusy', txOrphan', rxBusy', rxOrphan', rxFast', rxFull')
      PROVE  IInv'
  BY <1>k DEF IInv
<1>1. CASE WriteASIDATA
  <2>1. CASE ~txBusy
    <3>1. /\ txBusy' = TRUE /\ queued' = Set(queued, "TX")
          /\ rxBusy' = rxBusy /\ rxFast' = rxFast /\ rxFull' = rxFull
          /\ txHoldFull' = txHoldFull /\ image' = image /\ txOrphan' = txOrphan
          /\ rxOrphan' = rxOrphan
      BY <1>1, <2>1 DEF WriteASIDATA, receiver, orphans
    <3>2. /\ queued' \in [Events -> Nat]
          /\ queued'["TX"] = 1 /\ queued'["RX"] = queued["RX"] /\ ~txOrphan
      BY <1>0, <2>1, <3>1, QueueOps DEF Sound, Count
    <3>3. Sound(queued', txBusy', txOrphan', rxBusy', rxOrphan', rxFast', rxFull')
      BY <1>0, <3>1, <3>2 DEF Sound, Count
    <3> QED BY <1>0, <1>k, <3>1, <3>3
  <2>2. CASE txBusy
    <3>1. /\ txBusy' = txBusy /\ queued' = queued
          /\ rxBusy' = rxBusy /\ rxFast' = rxFast /\ rxFull' = rxFull
          /\ txHoldFull' = TRUE /\ image' = image /\ txOrphan' = txOrphan
          /\ rxOrphan' = rxOrphan
      BY <1>1, <2>2 DEF WriteASIDATA, receiver, orphans
    <3> QED BY <1>0, <1>k, <3>1
  <2> QED BY <1>0, <2>1, <2>2
<1>2. CASE ReadASIDATA
  <2>1. /\ KickRx(ring, FALSE, rxBusy, queued)
        /\ rxFull' = FALSE /\ txBusy' = txBusy /\ txHoldFull' = txHoldFull /\ image' = image
        /\ txOrphan' = txOrphan /\ rxOrphan' = rxOrphan
    BY <1>2 DEF ReadASIDATA, transmitter, orphans
  <2>2. Sound(queued, txBusy, txOrphan, rxBusy, rxOrphan, rxFast, FALSE)
    BY <1>0 DEF Sound
  <2>3. Sound(queued', txBusy, txOrphan, rxBusy', rxOrphan, rxFast', FALSE)
    BY <1>0, <2>1, <2>2, KickRxSound
  <2> QED BY <1>0, <1>k, <2>1, <2>3
<1>3. ASSUME NEW n, ReadASISTAT(n) \/ UARTPoll(n) PROVE IInv'
  <2>1. /\ KickRx(ring', rxFull, rxBusy, queued)
        /\ rxFull' = rxFull /\ txBusy' = txBusy /\ txHoldFull' = txHoldFull /\ image' = image
        /\ txOrphan' = txOrphan /\ rxOrphan' = rxOrphan
    BY <1>3 DEF ReadASISTAT, UARTPoll, transmitter, orphans
  <2>2. KickRx(ring', rxFull, rxBusy, queued)
    BY <2>1
  <2>3. Sound(queued', txBusy, txOrphan, rxBusy', rxOrphan, rxFast', rxFull)
    BY <1>0, <2>2, KickRxSound, Zenon
  <2> QED BY <1>0, <1>k, <2>1, <2>3
<1>4. CASE ClearErrors
  BY <1>0, <1>k, <1>4 DEF ClearErrors, transmitter, orphans
<1>5. ASSUME NEW n, UARTTXCallback(n) PROVE IInv'
  <2> DEFINE q == RemoveCallback(queued, "TX")
             p == IF txHoldFull THEN Set(q, "TX") ELSE q
  <2>1. /\ KickRx(ring', rxFull, rxBusy, p)
        /\ txBusy' = txHoldFull /\ txHoldFull' = FALSE
        /\ rxFull' = rxFull /\ image' = image
        /\ txOrphan' = txOrphan /\ rxOrphan' = rxOrphan /\ queued["TX"] > 0
    BY <1>5 DEF UARTTXCallback, orphans
  <2>0. txOrphan = FALSE
    BY <1>0, <2>1 DEF Sound
  <2>t. /\ Sound(q, FALSE, FALSE, rxBusy, rxOrphan, rxFast, rxFull)
        /\ Sound(Set(q, "TX"), TRUE, FALSE, rxBusy, rxOrphan, rxFast, rxFull)
    BY <1>0, TxTaken, Zenon
  <2>2. Sound(p, txHoldFull, txOrphan, rxBusy, rxOrphan, rxFast, rxFull)
    <3>1. CASE txHoldFull
      <4>1. p = Set(q, "TX") /\ txHoldFull = TRUE
        BY <1>0, <3>1
      <4> HIDE DEF p, q
      <4> QED BY <2>0, <2>t, <4>1
    <3>2. CASE ~txHoldFull
      <4>1. p = q /\ txHoldFull = FALSE
        BY <1>0, <3>2
      <4> HIDE DEF p, q
      <4> QED BY <2>0, <2>t, <4>1
    <3> QED BY <3>1, <3>2
  <2> HIDE DEF p
  <2>3. Sound(queued', txHoldFull, txOrphan, rxBusy', rxOrphan, rxFast', rxFull)
    BY <1>0, <2>1, <2>2, KickRxSound
  <2> QED BY <1>k, <2>1, <2>3
<1>6. CASE UARTRXCallback
  <2> DEFINE q == RemoveCallback(queued, "RX")
  <2>1. /\ txBusy' = txBusy /\ txHoldFull' = txHoldFull /\ image' = image
        /\ \/ KickRx(ring, rxFull, FALSE, q) /\ rxFull' = rxFull
           \/ KickRx(Tail(ring), TRUE, FALSE, q) /\ rxFull' = TRUE
        /\ txOrphan' = txOrphan /\ rxOrphan' = rxOrphan /\ queued["RX"] > 0
    BY <1>6 DEF UARTRXCallback, transmitter, orphans
  <2>0. rxOrphan = FALSE
    BY <1>0, <2>1 DEF Sound
  <2>2. \A f : Sound(q, txBusy, txOrphan, FALSE, rxOrphan, rxFast, f)
    BY <1>0, <2>0, RxTaken
  <2> HIDE DEF q
  <2>3. Sound(queued', txBusy, txOrphan, rxBusy', rxOrphan, rxFast', rxFull')
    <3>1. CASE KickRx(ring, rxFull, FALSE, q) /\ rxFull' = rxFull
      <4>1. FALSE \in BOOLEAN /\ Sound(q, txBusy, txOrphan, FALSE, rxOrphan, rxFast, rxFull)
        BY <2>2
      <4>2. Sound(queued', txBusy, txOrphan, rxBusy', rxOrphan, rxFast', rxFull)
        BY <1>0, <3>1, <4>1, KickRxSound, Zenon
      <4> QED BY <3>1, <4>2
    <3>2. CASE KickRx(Tail(ring), TRUE, FALSE, q) /\ rxFull' = TRUE
      <4>1. FALSE \in BOOLEAN /\ Sound(q, txBusy, txOrphan, FALSE, rxOrphan, rxFast, TRUE)
        BY <2>2
      <4>2. Sound(queued', txBusy, txOrphan, rxBusy', rxOrphan, rxFast', TRUE)
        BY <1>0, <3>2, <4>1, KickRxSound, Zenon
      <4> QED BY <3>2, <4>2
    <3> QED BY <2>1, <3>1, <3>2
  <2> QED BY <1>0, <1>k, <2>1, <2>3
<1>7. ASSUME NEW m \in Modes, UARTSetLinkMode(m) PROVE IInv'
  BY <1>0, <1>k, <1>7 DEF UARTSetLinkMode, receiver, transmitter, orphans
<1>8. ASSUME NEW on \in BOOLEAN, UARTSetWireSpeedupIntent(on) PROVE IInv'
  BY <1>0, <1>k, <1>8 DEF UARTSetWireSpeedupIntent, receiver, transmitter, orphans
<1>9. ASSUME NEW d, UARTSetWireSpeedupEffective(d) PROVE IInv'
  BY <1>0, <1>k, <1>9 DEF UARTSetWireSpeedupEffective, receiver, transmitter, orphans
<1>10. CASE UARTReset \/ UARTDone
  <2>1. /\ queued' = RemoveCallback(RemoveCallback(queued, "TX"), "RX")
        /\ txBusy' = FALSE /\ rxBusy' = FALSE /\ rxFast' = FALSE /\ rxFull' = FALSE
        /\ txHoldFull' = FALSE /\ image' = image /\ txOrphan' = FALSE /\ rxOrphan' = FALSE
    BY <1>10 DEF UARTReset, UARTDone
  <2> QED BY <1>k, <2>1, ResetSound
<1>11. CASE StateSave
  <2>1. /\ queued' = queued /\ txBusy' = txBusy /\ rxBusy' = rxBusy
        /\ rxFast' = rxFast /\ rxFull' = rxFull /\ txHoldFull' = txHoldFull
        /\ image' = {Snapshot} /\ txOrphan' = txOrphan /\ rxOrphan' = rxOrphan
    BY <1>11 DEF StateSave, receiver, transmitter, orphans
  <2>2. /\ Snapshot.queued = queued /\ Snapshot.txBusy = txBusy /\ Snapshot.rxBusy = rxBusy
        /\ Snapshot.rxFast = rxFast /\ Snapshot.rxFull = rxFull
        /\ Snapshot.txHoldFull = txHoldFull
        /\ Snapshot.txOrphan = txOrphan /\ Snapshot.rxOrphan = rxOrphan
    BY DEF Snapshot
  <2> QED BY <1>0, <2>1, <2>2 DEF IInv
<1>12. ASSUME NEW img \in image, NEW v \in StateVersions, StateLoad(img, v) PROVE IInv'
  <2>1. CASE v >= UartVersion
    <3>1. ~(v < UartVersion)
      BY <2>1, VersionAssumption
    <3>2. /\ queued' = img.queued /\ txBusy' = img.txBusy /\ rxBusy' = img.rxBusy
          /\ rxFast' = img.rxFast /\ rxFull' = img.rxFull /\ txHoldFull' = img.txHoldFull
          /\ txOrphan' = img.txOrphan /\ rxOrphan' = img.rxOrphan /\ image' = {}
      BY <1>12, <2>1, <3>1 DEF StateLoad
    <3> QED BY <3>2 DEF IInv
  <2>2. CASE ~(v >= UartVersion)
    <3>1. /\ queued' = [e \in Events |-> 0] /\ UNCHANGED <<receiver, transmitter>>
          /\ txOrphan' = txBusy /\ rxOrphan' = rxBusy /\ image' = {}
      BY <1>12, <2>2 DEF StateLoad
    <3>2. queued' \in [Events -> Nat] /\ queued'["TX"] = 0 /\ queued'["RX"] = 0
      BY <3>1
    <3>3. Sound(queued', txBusy', txOrphan', rxBusy', rxOrphan', rxFast', rxFull')
      BY <1>0, <3>1, <3>2 DEF Sound, Count, receiver, transmitter
    <3> QED BY <1>0, <3>1, <3>3 DEF IInv, transmitter
  <2> QED BY <2>1, <2>2
<1>13. CASE UNCHANGED vars
  BY <1>0, <1>k, <1>13 DEF vars, orphans
<1> QED BY <1>1, <1>2, <1>3, <1>4, <1>5, <1>6, <1>7, <1>8, <1>9, <1>10, <1>11, <1>12, <1>13
        DEF Next

\* The busy flags of uart.c match the queued events one to one, but for a flag that
\* was set when a state from before the UART chunk replaced the queue: states of
\* every version are loaded here.
THEOREM BusyUnlessOrphanedAlways == Spec => []BusyUnlessOrphaned
<1>1. IInv => BusyUnlessOrphaned
  BY DEF IInv, Sound, Count, BusyUnlessOrphaned
<1> QED BY IInvInit, IInvNext, <1>1, PTL DEF Spec

\* So flags and events agree whenever no such flag is left over, whatever versions
\* have been loaded before: nothing but a load of an old state parts them
\* (UartOldState.cfg shows it doing so).
THEOREM BusyIffQueuedAlways == Spec => [](txOrphan \/ rxOrphan \/ BusyIffQueued)
<1>1. IInv => txOrphan \/ rxOrphan \/ BusyIffQueued
  BY DEF IInv, Sound, Count, BusyIffQueued
<1> QED BY IInvInit, IInvNext, <1>1, PTL DEF Spec

\* A character started while the wire is accelerated never completes into a full
\* receive buffer, whatever versions of states are loaded.
THEOREM FastFramesNeverOverrun == Spec => []FastFrameNeverOverruns
<1>1. IInv => FastFrameNeverOverruns
  BY DEF IInv, Sound, FastFrameNeverOverruns
<1> QED BY IInvInit, IInvNext, <1>1, PTL DEF Spec

-----------------------------------------------------------------------------
(* Order of the bytes.                                                        *)

\* The guest's stream: last sent, shift register, holding register, last written.
Outgoing(w, s, tb, sh, hf, h) ==
    /\ w \in Nat /\ s \in Nat /\ sh \in Nat /\ h \in Nat /\ s <= w
    /\ tb => s < sh /\ sh <= w
    /\ hf => tb /\ sh < h /\ h <= w

\* The peer's stream: last read, receive buffer, ring, last arrived.
Incoming(a, g, rf, rd, r) ==
    /\ rf \in BOOLEAN
    /\ a \in Nat /\ g \in Nat /\ rd \in Nat /\ r \in Seq(Nat) /\ g <= a
    /\ rf => g < rd /\ rd <= a
    /\ Increasing(r)
    /\ \A i \in 1 .. Len(r) : g < r[i] /\ r[i] <= a /\ (rf => rd < r[i])

\* Inductive, for the machine and for a saved one.
Ordered ==
    /\ Outgoing(written, sent, txBusy, txShift, txHoldFull, txHold)
    /\ Incoming(arrived, seen, rxFull, rxData, ring)
    /\ \A img \in image :
          /\ Outgoing(img.written, img.sent, img.txBusy, img.txShift, img.txHoldFull, img.txHold)
          /\ Incoming(img.arrived, img.seen, img.rxFull, img.rxData, img.ring)

\* Bytes that arrive behind all others keep the order.
LEMMA GrownIncoming ==
  ASSUME NEW a, NEW g, NEW rf \in BOOLEAN, NEW rd, NEW r, Incoming(a, g, rf, rd, r), NEW k \in Nat
  PROVE  LET new == r \o [i \in 1 .. k |-> a + i]
         IN  Len(new) = Len(r) + k /\ Incoming(a + k, g, rf, rd, new)
<1> DEFINE tail == [i \in 1 .. k |-> a + i]
           new  == r \o tail
<1>1. tail \in Seq(Nat) /\ Len(tail) = k /\ \A i \in 1 .. k : tail[i] = a + i
  BY DEF Incoming
<1>2. r \in Seq(Nat) /\ Len(r) \in Nat
  BY DEF Incoming
<1> HIDE DEF tail
<1>3. /\ new \in Seq(Nat) /\ Len(new) = Len(r) + k
      /\ \A i \in 1 .. Len(r) + k : new[i] = IF i <= Len(r) THEN r[i] ELSE tail[i - Len(r)]
  BY <1>1, <1>2, ConcatProperties
<1>4. \A i \in 1 .. Len(r) + k :
        new[i] = IF i <= Len(r) THEN r[i] ELSE a + (i - Len(r))
  BY <1>1, <1>2, <1>3
<1> HIDE DEF new
<1>5. \A i \in 1 .. Len(r) + k : g < new[i] /\ new[i] <= a + k /\ (rf => rd < new[i])
  <2> SUFFICES ASSUME NEW i \in 1 .. Len(r) + k
               PROVE  g < new[i] /\ new[i] <= a + k /\ (rf => rd < new[i])
    OBVIOUS
  <2>1. CASE i <= Len(r)
    <3>1. new[i] = r[i] /\ i \in 1 .. Len(r)
      BY <1>2, <1>4, <2>1
    <3>2. r[i] \in Nat
      BY <1>2, <3>1, ElementOfSeq
    <3> QED BY <3>1, <3>2 DEF Incoming
  <2>2. CASE ~(i <= Len(r))
    BY <1>2, <1>4, <2>2 DEF Incoming
  <2> QED BY <2>1, <2>2
<1>6. Increasing(new)
  <2> SUFFICES ASSUME NEW i \in 1 .. Len(r) + k, NEW j \in 1 .. Len(r) + k, i < j
               PROVE  new[i] < new[j]
    BY <1>3 DEF Increasing
  <2>1. CASE j <= Len(r)
    <3>1. i \in 1 .. Len(r) /\ j \in 1 .. Len(r)
      BY <1>2, <2>1
    <3> QED BY <1>4, <2>1, <3>1 DEF Incoming, Increasing
  <2>2. CASE i <= Len(r) /\ ~(j <= Len(r))
    <3>1. i \in 1 .. Len(r) /\ new[i] = r[i] /\ new[j] = a + (j - Len(r))
      BY <1>2, <1>4, <2>2
    <3>2. r[i] \in Nat /\ r[i] <= a
      BY <1>2, <3>1, ElementOfSeq DEF Incoming
    <3> QED BY <1>2, <2>2, <3>1, <3>2 DEF Incoming
  <2>3. CASE ~(i <= Len(r)) /\ ~(j <= Len(r))
    BY <1>2, <1>4, <2>3 DEF Incoming
  <2> QED BY <1>2, <2>1, <2>2, <2>3
<1> QED BY <1>3, <1>5, <1>6 DEF Incoming, tail, new

\* The bytes of a poll, and how many they were.
LEMMA ArrivalsIncoming ==
  ASSUME NEW n \in Nat, NEW rf \in BOOLEAN, Incoming(arrived, seen, rf, rxData, ring)
  PROVE  LET r == Arrivals(ring, n)
         IN  Incoming(arrived + Len(r) - Len(ring), seen, rf, rxData, r)
<1> DEFINE room == RingSize - Len(ring)
           m == IF n < room THEN n ELSE room
           k == IF m < 0 THEN 0 ELSE m
           r == ring \o [i \in 1 .. k |-> arrived + i]
<1>1. Len(ring) \in Nat /\ arrived \in Nat
  BY LenProperties DEF Incoming
<1>2. m \in Int /\ k \in Nat /\ 1 .. m = 1 .. k
  BY <1>1, RingAssumption
<1>3. Arrivals(ring, n) = r
  BY <1>2 DEF Arrivals
<1>4. Len(r) = Len(ring) + k /\ Incoming(arrived + k, seen, rf, rxData, r)
  BY <1>2, GrownIncoming
<1> HIDE DEF k, r
<1>5. arrived + Len(r) - Len(ring) = arrived + k
  BY <1>1, <1>2, <1>4
<1> QED BY <1>3, <1>4, <1>5

\* The byte a loopback pushes back in.
LEMMA PushIncoming ==
  ASSUME NEW rf \in BOOLEAN, Incoming(arrived, seen, rf, rxData, ring)
  PROVE  LET r == RingPush(ring, arrived + 1)
         IN  Incoming(arrived + Len(r) - Len(ring), seen, rf, rxData, r)
<1>1. Len(ring) \in Nat /\ arrived \in Nat /\ ring \in Seq(Nat)
  BY LenProperties DEF Incoming
<1>2. CASE Len(ring) < RingSize
  <2>1. Append(ring, arrived + 1) = ring \o [i \in 1 .. 1 |-> arrived + i]
    <3>1. ring \o [i \in 1 .. 1 |-> arrived + i] \in Seq(Nat)
      BY <1>1, GrownIncoming DEF Incoming
    <3>2. <<arrived + 1>> = [i \in 1 .. 1 |-> arrived + i]
      BY <1>1
    <3> QED BY <1>1, <3>2, AppendIsConcat
  <2> DEFINE new == ring \o [i \in 1 .. 1 |-> arrived + i]
  <2>0. Len(new) = Len(ring) + 1 /\ Incoming(arrived + 1, seen, rf, rxData, new)
    BY 1 \in Nat, GrownIncoming
  <2> HIDE DEF new
  <2>2. /\ Len(Append(ring, arrived + 1)) = Len(ring) + 1
        /\ Incoming(arrived + 1, seen, rf, rxData, Append(ring, arrived + 1))
    <3>1. Append(ring, arrived + 1) = new
      BY <2>1 DEF new
    <3> QED BY <2>0, <3>1
  <2>3. arrived + Len(Append(ring, arrived + 1)) - Len(ring) = arrived + 1
    BY <1>1, <2>2
  <2> QED BY <1>2, <2>2, <2>3 DEF RingPush
<1>3. CASE ~(Len(ring) < RingSize)
  <2>1. arrived + Len(ring) - Len(ring) = arrived
    BY <1>1
  <2> QED BY <1>3, <2>1 DEF RingPush
<1> QED BY <1>2, <1>3

\* Taking the oldest byte of the ring keeps the rest in order.
LEMMA TailIncoming ==
  ASSUME NEW a, NEW g, NEW rf \in BOOLEAN, NEW rd, NEW r, r # <<>>, Incoming(a, g, rf, rd, r)
  PROVE  Incoming(a, g, TRUE, IF rf THEN rd ELSE Head(r), Tail(r))
<1>1. /\ r \in Seq(Nat) /\ Len(r) \in Nat /\ Tail(r) \in Seq(Nat)
      /\ Len(Tail(r)) = Len(r) - 1
      /\ \A i \in 1 .. Len(Tail(r)) : Tail(r)[i] = r[i + 1]
      /\ Head(r) \in Nat /\ Head(r) = r[1] /\ 1 \in 1 .. Len(r)
  <2>1. r \in Seq(Nat)
    BY DEF Incoming
  <2>2. Len(r) \in Nat /\ Len(r) # 0
    BY <2>1, LenProperties, EmptySeq
  <2> QED BY <2>1, <2>2, HeadTailProperties
<1>2. \A i \in 1 .. Len(Tail(r)) : i + 1 \in 1 .. Len(r)
  BY <1>1
<1> DEFINE d == IF rf THEN rd ELSE Head(r)
<1>3. d \in Nat /\ g < d /\ d <= a
  BY <1>1 DEF Incoming
<1>4. Increasing(Tail(r))
  BY <1>1, <1>2 DEF Increasing, Incoming
<1>5. \A i \in 1 .. Len(Tail(r)) : g < Tail(r)[i] /\ Tail(r)[i] <= a /\ d < Tail(r)[i]
  <2> SUFFICES ASSUME NEW i \in 1 .. Len(Tail(r))
               PROVE  g < Tail(r)[i] /\ Tail(r)[i] <= a /\ d < Tail(r)[i]
    OBVIOUS
  <2>1. Tail(r)[i] = r[i + 1] /\ i + 1 \in 1 .. Len(r) /\ 1 < i + 1
    BY <1>1, <1>2
  <2>2. g < r[i + 1] /\ r[i + 1] <= a /\ (rf => rd < r[i + 1]) /\ r[1] < r[i + 1]
    BY <1>1, <2>1 DEF Incoming, Increasing
  <2> QED BY <1>1, <2>1, <2>2
<1> HIDE DEF d
<1>6. Incoming(a, g, TRUE, d, Tail(r))
  BY <1>1, <1>3, <1>4, <1>5 DEF Incoming
<1> QED BY <1>6 DEF d

\* The order at the start.
LEMMA OrderedInit == Init => Ordered
<1> SUFFICES ASSUME Init PROVE Ordered
  OBVIOUS
<1>1. <<>> \in Seq(Nat) /\ Len(<<>>) = 0
  OBVIOUS
<1>2. Incoming(0, 0, FALSE, 0, <<>>)
  BY <1>1 DEF Incoming, Increasing
<1>3. Outgoing(0, 0, FALSE, 0, FALSE, 0)
  BY DEF Outgoing
<1> QED BY <1>2, <1>3 DEF Init, Ordered

\* Every step keeps the order: a byte moves only from the last of the places to
\* the next, and a state brings back places that were in order.
LEMMA OrderedNext ==
  ASSUME IInv, Ordered, [Next]_vars, NewStates
  PROVE  Ordered'
<1>o. Outgoing(written, sent, txBusy, txShift, txHoldFull, txHold)
  BY DEF Ordered
<1>i. Incoming(arrived, seen, rxFull, rxData, ring)
  BY DEF Ordered
<1>b. rxFull \in BOOLEAN /\ txHoldFull \in BOOLEAN /\ (queued["TX"] > 0 => txBusy)
  BY DEF IInv, Sound, Count, Ordered, Incoming
<1>k. ASSUME image' = image,
             Outgoing(written', sent', txBusy', txShift', txHoldFull', txHold'),
             Incoming(arrived', seen', rxFull', rxData', ring')
      PROVE  Ordered'
  BY <1>k DEF Ordered
<1>e. ASSUME Outgoing(written', sent', txBusy', txShift', txHoldFull', txHold'),
             UNCHANGED <<arrived, seen, rxFull, rxData, ring, image>>
      PROVE  Ordered'
  BY <1>e, <1>i, <1>k
<1>1. CASE WriteASIDATA
  <2>1. /\ written' = written + 1 /\ UNCHANGED <<sent, arrived, seen, rxFull, rxData, ring, image>>
        /\ \/ /\ ~txBusy /\ txShift' = written + 1 /\ txBusy' = TRUE
              /\ UNCHANGED <<txHold, txHoldFull>>
           \/ /\ txBusy /\ txHold' = written + 1 /\ txHoldFull' = TRUE
              /\ UNCHANGED <<txShift, txBusy>>
    BY <1>1 DEF WriteASIDATA, receiver
  <2>2. Outgoing(written', sent', txBusy', txShift', txHoldFull', txHold')
    BY <1>o, <2>1 DEF Outgoing
  <2> QED BY <1>e, <2>1, <2>2
<1>2. CASE ReadASIDATA
  <2>1. /\ seen' = (IF rxFull THEN rxData ELSE seen) /\ rxFull' = FALSE
        /\ UNCHANGED <<written, sent, txBusy, txShift, txHoldFull, txHold, arrived, rxData, ring,
                       image>>
    BY <1>2 DEF ReadASIDATA, transmitter
  <2>2. Incoming(arrived, seen', FALSE, rxData, ring)
    BY <1>b, <1>i, <2>1 DEF Incoming
  <2> QED BY <1>k, <1>o, <2>1, <2>2
<1>3. ASSUME NEW n \in Nat, ReadASISTAT(n) \/ UARTPoll(n) PROVE Ordered'
  <2>1. /\ ring' = Arrivals(ring, n) /\ arrived' = arrived + Len(ring') - Len(ring)
        /\ UNCHANGED <<written, sent, txBusy, txShift, txHoldFull, txHold, seen, rxFull, rxData,
                       image>>
    BY <1>3 DEF ReadASISTAT, UARTPoll, transmitter
  <2>2. Incoming(arrived', seen, rxFull, rxData, ring')
    BY <1>b, <1>i, <2>1, ArrivalsIncoming
  <2> QED BY <1>k, <1>o, <2>1, <2>2
<1>4. CASE ClearErrors
  BY <1>4, <1>e, <1>o DEF ClearErrors, transmitter
<1>5. ASSUME NEW n \in Nat, UARTTXCallback(n) PROVE Ordered'
  <2>1. /\ txBusy
        /\ sent' = txShift /\ txBusy' = txHoldFull /\ txHoldFull' = FALSE
        /\ txShift' = (IF txHoldFull THEN txHold ELSE txShift)
        /\ ring' = Transported(n) /\ arrived' = arrived + Len(ring') - Len(ring)
        /\ UNCHANGED <<written, txHold, seen, rxFull, rxData, image>>
    BY <1>5, <1>b DEF UARTTXCallback
  <2>2. Outgoing(written', sent', txBusy', txShift', txHoldFull', txHold')
    BY <1>o, <1>b, <2>1 DEF Outgoing
  <2>3. Incoming(arrived + Len(ring) - Len(ring), seen, rxFull, rxData, ring)
    <3>1. Len(ring) \in Nat /\ arrived \in Nat
      BY <1>i, LenProperties DEF Incoming
    <3>2. arrived + Len(ring) - Len(ring) = arrived
      BY <3>1
    <3> QED BY <1>i, <3>2
  <2>4. Incoming(arrived', seen, rxFull, rxData, ring')
    <3>1. CASE ring' = RingPush(ring, arrived + 1)
      BY <1>b, <1>i, <2>1, <3>1, PushIncoming
    <3>2. CASE ring' = Arrivals(ring, n)
      BY <1>b, <1>i, <2>1, <3>2, ArrivalsIncoming
    <3>3. CASE ring' = ring
      BY <2>1, <2>3, <3>3
    <3> QED BY <2>1, <3>1, <3>2, <3>3 DEF Transported
  <2> QED BY <1>k, <2>1, <2>2, <2>4
<1>6. CASE UARTRXCallback
  <2>1. /\ UNCHANGED <<written, sent, txBusy, txShift, txHoldFull, txHold, arrived, seen, image>>
        /\ \/ UNCHANGED <<ring, rxData, rxFull>>
           \/ /\ ring # <<>> /\ ring' = Tail(ring) /\ rxFull' = TRUE
              /\ rxData' = IF rxFull THEN rxData ELSE Head(ring)
    BY <1>6 DEF UARTRXCallback, transmitter
  <2>2. CASE UNCHANGED <<ring, rxData, rxFull>>
    BY <1>e, <1>o, <2>1, <2>2
  <2>3. CASE /\ ring # <<>> /\ ring' = Tail(ring) /\ rxFull' = TRUE
             /\ rxData' = IF rxFull THEN rxData ELSE Head(ring)
    <3>1. Incoming(arrived, seen, TRUE, IF rxFull THEN rxData ELSE Head(ring), Tail(ring))
      BY <1>b, <1>i, <2>3, TailIncoming
    <3>2. Incoming(arrived, seen, TRUE, rxData', ring')
      BY <2>3, <3>1
    <3> QED BY <1>k, <1>o, <2>1, <2>3, <3>2
  <2> QED BY <2>1, <2>2, <2>3
<1>7. ASSUME NEW m, UARTSetLinkMode(m) PROVE Ordered'
  <2>1. /\ ring' = <<>>
        /\ UNCHANGED <<written, sent, txBusy, txShift, txHoldFull, txHold, arrived, seen, rxFull,
                       rxData, image>>
    BY <1>7 DEF UARTSetLinkMode, receiver, transmitter
  <2>2. Incoming(arrived, seen, rxFull, rxData, ring')
    BY <1>i, <2>1 DEF Incoming, Increasing
  <2> QED BY <1>k, <1>o, <2>1, <2>2
<1>8. ASSUME NEW on, UARTSetWireSpeedupIntent(on) PROVE Ordered'
  BY <1>8, <1>e, <1>o DEF UARTSetWireSpeedupIntent, receiver, transmitter
<1>9. ASSUME NEW d, UARTSetWireSpeedupEffective(d) PROVE Ordered'
  BY <1>9, <1>e, <1>o DEF UARTSetWireSpeedupEffective, receiver, transmitter
<1>10. CASE UARTReset \/ UARTDone
  <2>1. /\ rxData' = 0 /\ rxFull' = FALSE /\ txBusy' = FALSE /\ txHoldFull' = FALSE
        /\ txShift' = 0 /\ txHold' = 0
        /\ (ring' = ring \/ ring' = <<>>)
        /\ UNCHANGED <<written, sent, arrived, seen, image>>
    BY <1>10 DEF UARTReset, UARTDone
  <2>2. Outgoing(written', sent', txBusy', txShift', txHoldFull', txHold')
    BY <1>o, <2>1 DEF Outgoing
  <2>3. Incoming(arrived, seen, FALSE, 0, ring) /\ Incoming(arrived, seen, FALSE, 0, <<>>)
    BY <1>i DEF Incoming, Increasing
  <2>4. Incoming(arrived', seen', rxFull', rxData', ring')
    BY <2>1, <2>3
  <2> QED BY <1>k, <2>1, <2>2, <2>4
<1>11. CASE StateSave
  <2>1. /\ UNCHANGED <<written, sent, txBusy, txShift, txHoldFull, txHold, arrived, seen, rxFull,
                       rxData, ring>>
        /\ image' = {Snapshot}
    BY <1>11 DEF StateSave, receiver, transmitter
  <2>2. /\ Outgoing(Snapshot.written, Snapshot.sent, Snapshot.txBusy, Snapshot.txShift,
                    Snapshot.txHoldFull, Snapshot.txHold)
        /\ Incoming(Snapshot.arrived, Snapshot.seen, Snapshot.rxFull, Snapshot.rxData,
                    Snapshot.ring)
    BY <1>o, <1>i DEF Snapshot
  <2> QED BY <1>o, <1>i, <2>1, <2>2 DEF Ordered
<1>12. ASSUME NEW img \in image, NEW v \in StateVersions, StateLoad(img, v) PROVE Ordered'
  <2>1. v >= UartVersion /\ ~(v < UartVersion)
    BY VersionAssumption DEF NewStates
  <2>2. /\ written' = img.written /\ sent' = img.sent /\ txBusy' = img.txBusy
        /\ txShift' = img.txShift /\ txHoldFull' = img.txHoldFull /\ txHold' = img.txHold
        /\ arrived' = img.arrived /\ seen' = img.seen /\ rxFull' = img.rxFull
        /\ rxData' = img.rxData /\ ring' = img.ring /\ image' = {}
    BY <1>12, <2>1 DEF StateLoad
  <2>3. /\ Outgoing(written', sent', txBusy', txShift', txHoldFull', txHold')
        /\ Incoming(arrived', seen', rxFull', rxData', ring')
    BY <2>2 DEF Ordered
  <2> QED BY <2>2, <2>3 DEF Ordered
<1>13. CASE UNCHANGED vars
  BY <1>13, <1>e, <1>o DEF vars
<1>n. 0 .. MaxArrivals \subseteq Nat /\ 1 .. MaxArrivals \subseteq Nat
  BY BoundAssumption
<1> QED BY <1>1, <1>2, <1>3, <1>4, <1>5, <1>6, <1>7, <1>8, <1>9, <1>10, <1>11, <1>12, <1>13, <1>n
        DEF Next

\* Bytes leave and arrive in the order they were written, none of them twice,
\* whatever reset, mode change or load of a new enough state comes between.
THEOREM StreamsInOrderAlways == NewStates => (Spec => []StreamsInOrder)
<1> SUFFICES ASSUME NewStates PROVE Spec => []StreamsInOrder
  OBVIOUS
<1>1. Init => IInv /\ Ordered
  BY IInvInit, OrderedInit
<1>2. IInv /\ Ordered /\ [Next]_vars => (IInv /\ Ordered)'
  BY IInvNext, OrderedNext
<1>3. Ordered => StreamsInOrder
  BY DEF Ordered, Outgoing, Incoming, StreamsInOrder
<1> QED BY <1>1, <1>2, <1>3, PTL DEF Spec

-----------------------------------------------------------------------------
(* Netplay: the link as the desktop application drives it.                 *)

LinkModes == {"disabled", "tcp_server", "tcp_client"}
Command == [key : {"mode"}, value : LinkModes]
           \cup [key : {"host"}, value : Hosts \cup {Default}]
           \cup [key : {"port"}, value : Ports \cup {Default}]
           \cup [key : {"epoch"}, value : Nat]
Said == [kind : {"up", "down", "open", "noise"}, epoch : Nat, opts : Options]

\* What has been asked and the core has not read, in order.
Pending == lane \o todo

Typed ==
    /\ want \in Settings \cup {Off} /\ applied \in Settings \cup {Off}
    /\ opts \in Options /\ link \in Options /\ evidence \in Options
    /\ state \in {"Off", "Waiting", "Up", "Lost"} /\ bouncing \in BOOLEAN
    /\ ran \in 0 .. bounceNeed /\ minEpoch \in Nat /\ epoch \in Nat
    /\ emu \in {"top", "drained", "frame"} /\ wasUp \in {"unset", "down", "up"}
    /\ loaded \in BOOLEAN /\ connected \in BOOLEAN
    /\ lane \in Seq(Command) /\ todo \in Seq(Command) /\ events \in Seq(Said)

\* Once the core has read what is pending it has the options wanted, or its link closed.
Sending ==
    /\ ~bouncing => \A k \in {"mode", "host", "port"} : Obeyed(Pending, k, opts[k]) = want[k]
    /\ bouncing => Obeyed(Pending, "mode", opts.mode) = "disabled"

\* The newest number comes last of what is pending, and the core has it once nothing is.
Numbers(cmds, e, m) ==
    /\ \A i \in 1 .. Len(cmds) : cmds[i].key = "epoch" =>
          cmds[i].value <= m /\ (cmds[i].value = m => i = Len(cmds))
    /\ cmds # <<>> => cmds[Len(cmds)] = [key |-> "epoch", value |-> m] /\ e < m
    /\ cmds = <<>> => e = m

\* What was said under the newest number was said with the options wanted.
Dated ==
    \A i \in 1 .. Len(events) :
        /\ events[i].epoch <= minEpoch
        /\ events[i].epoch = minEpoch /\ ~bouncing => events[i].opts = want

\* How far a bounce is: a frame counted after "disabled" was posted may have been under
\* way, but the next one has read it.
Closing ==
    /\ ~loaded => link.mode = "disabled"
    /\ bouncing => applied \notin {Off, want} /\ want # Off
    /\ bouncing /\ todo # <<>> => ran = 0
    /\ bouncing /\ ran >= 1 => /\ emu # "top" => opts.mode = "disabled"
                               /\ emu = "frame" => link.mode = "disabled"
    /\ bouncing /\ ran >= 2 => opts.mode = "disabled" /\ link.mode = "disabled"

NetInv ==
    /\ Typed /\ Sending /\ Numbers(Pending, epoch, minEpoch) /\ Dated /\ Closing
    /\ UpIsThisSession

------------------------------------------------------------------------------
(* What a sequence of commands leaves of a value.                          *)

\* Some positions of a sequence have a last one.
LEMMA LastPosition ==
    ASSUME NEW n \in Nat, NEW at \in SUBSET (1 .. n), at # {}
    PROVE  \E i \in at : i = LastOf(at) /\ \A j \in at : j <= i
<1> DEFINE S == {n - i : i \in at}
<1>1. S \in SUBSET Nat /\ S # {}
  <2>1. \A i \in at : n - i \in Nat
    OBVIOUS
  <2> QED BY <2>1
<1>2. \E x \in S : \A y \in S : ~(<<y, x>> \in OpToRel(<, Nat))
  BY <1>1, NatLessThanWellFounded, WFMin, Zenon
<1>3. \E x \in S : \A y \in S : ~(y < x)
  BY <1>1, <1>2, Zenon DEF OpToRel
<1>4. \E i \in at : \A j \in at : ~(n - j < n - i)
  BY <1>3
<1>5. \E i \in at : \A j \in at : j <= i
  BY <1>4
<1> QED
  BY <1>5 DEF LastOf

LEMMA ObeyedNone ==
    ASSUME NEW cmds \in Seq(Command), NEW key, NEW old, \A i \in 1 .. Len(cmds) : cmds[i].key # key
    PROVE  Obeyed(cmds, key, old) = old
BY DEF Obeyed

\* The command that sets a key last.
SetsLast(cmds, key, i) ==
    /\ i \in 1 .. Len(cmds) /\ cmds[i].key = key
    /\ \A j \in i + 1 .. Len(cmds) : cmds[j].key # key

LEMMA ObeyedAt ==
    ASSUME NEW cmds \in Seq(Command), NEW key, NEW old, NEW i, SetsLast(cmds, key, i)
    PROVE  Obeyed(cmds, key, old) = cmds[i].value
<1> USE DEF SetsLast
<1> DEFINE at == {j \in DOMAIN cmds : cmds[j].key = key}
<1>1. at \in SUBSET (1 .. Len(cmds)) /\ i \in at /\ Len(cmds) \in Nat
  OBVIOUS
<1>2. \A j \in at : j <= i
  OBVIOUS
<1> HIDE DEF at
<1>3. PICK k \in at : k = LastOf(at) /\ \A j \in at : j <= k
  BY <1>1, LastPosition
<1>4. k = i
  BY <1>1, <1>2, <1>3
<1> QED
  BY <1>1, <1>3, <1>4 DEF at, Obeyed

\* The commands of two sequences, one after the other.
LEMMA Concatenated ==
    ASSUME NEW S, NEW a \in Seq(S), NEW b \in Seq(S)
    PROVE  /\ a \o b \in Seq(S) /\ Len(a \o b) = Len(a) + Len(b) /\ Len(a) \in Nat /\ Len(b) \in Nat
           /\ \A i \in 1 .. Len(a) : (a \o b)[i] = a[i]
           /\ \A i \in Int : Len(a) < i /\ i <= Len(a \o b) => i - Len(a) \in 1 .. Len(b) /\ (a \o b)[i] = b[i - Len(a)]
           /\ \A i \in 1 .. Len(b) : (a \o b)[Len(a) + i] = b[i]
<1> DEFINE m == Len(a)
           n == Len(b)
<1>1. /\ a \o b \in Seq(S) /\ Len(a \o b) = m + n /\ m \in Nat /\ n \in Nat
      /\ \A i \in 1 .. m + n : (a \o b)[i] = IF i <= m THEN a[i] ELSE b[i - m]
  OBVIOUS
<1> HIDE DEF m, n
<1>2. \A i \in 1 .. m : (a \o b)[i] = a[i]
  BY <1>1
<1>3. \A i \in Int : m < i /\ i <= m + n => i - m \in 1 .. n /\ (a \o b)[i] = b[i - m]
  BY <1>1
<1>4. \A i \in 1 .. n : (a \o b)[m + i] = b[i]
  BY <1>1
<1> QED
  BY <1>1, <1>2, <1>3, <1>4 DEF m, n

\* Reading one sequence and then another is reading both.
LEMMA ObeyedConcat ==
    ASSUME NEW a \in Seq(Command), NEW b \in Seq(Command), NEW key, NEW old
    PROVE  Obeyed(a \o b, key, old) = Obeyed(b, key, Obeyed(a, key, old))
<1> DEFINE c == a \o b
           m == Len(a)
           n == Len(b)
           mid == Obeyed(a, key, old)
<1>0. /\ c \in Seq(Command) /\ Len(c) = m + n /\ m \in Nat /\ n \in Nat
      /\ \A i \in 1 .. m : c[i] = a[i]
      /\ \A i \in Int : m < i /\ i <= m + n => i - m \in 1 .. n /\ c[i] = b[i - m]
      /\ \A i \in 1 .. n : c[m + i] = b[i]
  BY Concatenated
<1>a. Len(a) = m /\ Len(b) = n
  OBVIOUS
<1> HIDE DEF c, m, n
<1>1. ASSUME NEW k \in 1 .. n, b[k].key = key PROVE Obeyed(c, key, old) = Obeyed(b, key, mid)
  <2> DEFINE at == {i \in 1 .. n : b[i].key = key}
  <2>1. at \in SUBSET (1 .. n) /\ k \in at
    BY <1>1
  <2>2. PICK i \in at : \A j \in at : j <= i
    BY <1>0, <2>1, LastPosition
  <2>3. i \in 1 .. n /\ b[i].key = key /\ \A j \in i + 1 .. n : b[j].key # key
    <3>1. i \in 1 .. n /\ b[i].key = key
      OBVIOUS
    <3>2. \A j \in 1 .. n : b[j].key = key => j <= i
      BY <2>2
    <3> QED BY <1>0, <3>1, <3>2
  <2>4. \A x : Obeyed(b, key, x) = b[i].value
    <3>1. SetsLast(b, key, i)
      BY <1>a, <2>3 DEF SetsLast
    <3> QED BY <3>1, ObeyedAt
  <2> DEFINE p == m + i
  <2>5. p \in 1 .. m + n /\ c[p] = b[i]
    BY <1>0, <2>3
  <2>6. ASSUME NEW j \in p + 1 .. m + n PROVE c[j].key # key
    <3>1. j \in Int /\ m < j /\ j <= m + n /\ j - m >= i + 1
      BY <1>0, <2>3
    <3>2. j - m \in 1 .. n /\ c[j] = b[j - m]
      BY <1>0, <3>1
    <3>3. j - m \in i + 1 .. n
      BY <1>0, <2>3, <3>1, <3>2
    <3> QED BY <2>3, <3>2, <3>3
  <2> HIDE DEF p
  <2>7. SetsLast(c, key, p)
    BY <1>0, <2>3, <2>5, <2>6 DEF SetsLast
  <2>8. Obeyed(c, key, old) = c[p].value
    BY <1>0, <2>7, ObeyedAt
  <2> QED BY <2>4, <2>5, <2>8
<1>2. ASSUME \A i \in 1 .. n : b[i].key # key, NEW k \in 1 .. m, a[k].key = key
      PROVE  Obeyed(c, key, old) = mid
  <2> DEFINE at == {i \in 1 .. m : a[i].key = key}
  <2>1. at \in SUBSET (1 .. m) /\ k \in at
    BY <1>2
  <2>2. PICK i \in at : \A j \in at : j <= i
    BY <1>0, <2>1, LastPosition
  <2>3. i \in 1 .. m /\ a[i].key = key /\ \A j \in i + 1 .. m : a[j].key # key
    <3>1. i \in 1 .. m /\ a[i].key = key
      OBVIOUS
    <3>2. \A j \in 1 .. m : a[j].key = key => j <= i
      BY <2>2
    <3> QED BY <1>0, <3>1, <3>2
  <2>4. mid = a[i].value
    <3>1. SetsLast(a, key, i)
      BY <1>a, <2>3 DEF SetsLast
    <3> QED BY <3>1, ObeyedAt
  <2>5. ASSUME NEW j \in i + 1 .. m + n PROVE c[j].key # key
    <3>1. CASE j <= m
      <4>1. j \in i + 1 .. m /\ j \in 1 .. m
        BY <1>0, <2>3, <3>1
      <4> QED BY <1>0, <2>3, <4>1
    <3>2. CASE ~(j <= m)
      <4>1. j \in Int /\ m < j /\ j <= m + n
        BY <1>0, <2>3, <3>2
      <4> QED BY <1>0, <1>2, <4>1
    <3> QED BY <3>1, <3>2
  <2>6. SetsLast(c, key, i)
    <3>1. i \in 1 .. m + n
      BY <1>0, <2>3
    <3> QED BY <1>0, <2>3, <2>5, <3>1 DEF SetsLast
  <2>7. Obeyed(c, key, old) = c[i].value
    BY <1>0, <2>6, ObeyedAt
  <2> QED BY <1>0, <2>3, <2>4, <2>7
<1>3. ASSUME \A i \in 1 .. n : b[i].key # key, \A i \in 1 .. m : a[i].key # key
      PROVE  Obeyed(c, key, old) = old /\ mid = old
  <2>1. mid = old
    BY <1>a, <1>3, ObeyedNone
  <2>2. ASSUME NEW j \in 1 .. m + n PROVE c[j].key # key
    <3>1. CASE j <= m
      <4>1. j \in 1 .. m
        BY <1>0, <3>1
      <4> QED BY <1>0, <1>3, <4>1
    <3>2. CASE ~(j <= m)
      <4>1. j \in Int /\ m < j /\ j <= m + n
        BY <1>0, <3>2
      <4> QED BY <1>0, <1>3, <4>1
    <3> QED BY <3>1, <3>2
  <2> QED BY <1>0, <2>1, <2>2, ObeyedNone
<1>4. ASSUME \A i \in 1 .. n : b[i].key # key PROVE Obeyed(b, key, mid) = mid
  BY <1>a, <1>4, ObeyedNone
<1> HIDE DEF mid
<1>5. Obeyed(c, key, old) = Obeyed(b, key, mid)
  BY <1>1, <1>2, <1>3, <1>4
<1> QED BY <1>5 DEF c, mid

\* Commands set what they may set.
LEMMA ObeyedTypes ==
    ASSUME NEW cmds \in Seq(Command)
    PROVE  /\ \A o \in Options : [key \in DOMAIN o |-> Obeyed(cmds, key, o[key])] \in Options
           /\ \A e \in Nat : Obeyed(cmds, "epoch", e) \in Nat
<1>1. \A key : \A old : \/ Obeyed(cmds, key, old) = old
                        \/ \E i \in 1 .. Len(cmds) : cmds[i].key = key /\ Obeyed(cmds, key, old) = cmds[i].value
  <2> TAKE key
  <2> TAKE old
  <2> DEFINE at == {i \in DOMAIN cmds : cmds[i].key = key}
  <2>1. CASE at = {}
    BY <2>1 DEF Obeyed
  <2>2. CASE at # {}
    <3>1. at \in SUBSET (1 .. Len(cmds)) /\ Len(cmds) \in Nat
      OBVIOUS
    <3>2. PICK k \in at : k = LastOf(at)
      BY <2>2, <3>1, LastPosition
    <3>3. Obeyed(cmds, key, old) = cmds[k].value
      BY <2>2, <3>2 DEF Obeyed
    <3>4. k \in 1 .. Len(cmds) /\ cmds[k].key = key
      OBVIOUS
    <3> QED BY <3>3, <3>4
  <2> QED BY <2>1, <2>2
<1>2. \A i \in 1 .. Len(cmds) : cmds[i] \in Command
  OBVIOUS
<1>3. /\ \A old \in LinkModes : Obeyed(cmds, "mode", old) \in LinkModes
      /\ \A old \in Hosts \cup {Default} : Obeyed(cmds, "host", old) \in Hosts \cup {Default}
      /\ \A old \in Ports \cup {Default} : Obeyed(cmds, "port", old) \in Ports \cup {Default}
      /\ \A old \in Nat : Obeyed(cmds, "epoch", old) \in Nat
  <2>1. \A i \in 1 .. Len(cmds) :
           /\ cmds[i].key = "mode" => cmds[i].value \in LinkModes
           /\ cmds[i].key = "host" => cmds[i].value \in Hosts \cup {Default}
           /\ cmds[i].key = "port" => cmds[i].value \in Ports \cup {Default}
           /\ cmds[i].key = "epoch" => cmds[i].value \in Nat
    BY <1>2 DEF Command
  <2>2. \A old \in LinkModes : Obeyed(cmds, "mode", old) \in LinkModes
    BY <1>1, <2>1
  <2>3. \A old \in Hosts \cup {Default} : Obeyed(cmds, "host", old) \in Hosts \cup {Default}
    BY <1>1, <2>1
  <2>4. \A old \in Ports \cup {Default} : Obeyed(cmds, "port", old) \in Ports \cup {Default}
    BY <1>1, <2>1
  <2>5. \A old \in Nat : Obeyed(cmds, "epoch", old) \in Nat
    BY <1>1, <2>1
  <2> QED BY <2>2, <2>3, <2>4, <2>5
<1>4. ASSUME NEW o \in Options PROVE [key \in DOMAIN o |-> Obeyed(cmds, key, o[key])] \in Options
  <2> DEFINE r == [key \in DOMAIN o |-> Obeyed(cmds, key, o[key])]
  <2>1. o \in [mode : LinkModes, host : Hosts \cup {Default}, port : Ports \cup {Default}]
    BY DEF Options, Settings, LinkModes
  <2>2. /\ r.mode = Obeyed(cmds, "mode", o.mode) /\ r.host = Obeyed(cmds, "host", o.host)
        /\ r.port = Obeyed(cmds, "port", o.port)
        /\ r = [mode |-> r.mode, host |-> r.host, port |-> r.port]
    BY <2>1
  <2>3. r.mode \in LinkModes /\ r.host \in Hosts \cup {Default} /\ r.port \in Ports \cup {Default}
    BY <1>3, <2>1, <2>2
  <2> HIDE DEF r
  <2>4. r \in [mode : LinkModes, host : Hosts \cup {Default}, port : Ports \cup {Default}]
    BY <2>2, <2>3
  <2> QED BY <2>4 DEF Options, LinkModes, r
<1> QED BY <1>3, <1>4

------------------------------------------------------------------------------
(* What a call of the UI thread sends, and what the numbers in it say.     *)

\* The commands of applyNow and of stop.
Sent(setting, host, port) == <<Override("mode", setting), Override("host", host), Override("port", port), EpochBump>>

\* The commands that start a bounce.
SentClosing == <<Override("mode", "disabled"), EpochBump>>

\* One number, the next one, at the end.
OneNumber(cmds, m) ==
    /\ cmds \in Seq(Command) /\ cmds # <<>>
    /\ cmds[Len(cmds)] = [key |-> "epoch", value |-> m]
    /\ \A i \in 1 .. Len(cmds) : cmds[i].key = "epoch" => i = Len(cmds)

LEMMA SentIs ==
    ASSUME minEpoch \in Nat, NEW setting, NEW host, NEW port,
           setting \in LinkModes, host \in Hosts \cup {Default}, port \in Ports \cup {Default}
    PROVE  /\ OneNumber(Sent(setting, host, port), minEpoch + 1)
           /\ \A old : /\ Obeyed(Sent(setting, host, port), "mode", old) = setting
                       /\ Obeyed(Sent(setting, host, port), "host", old) = host
                       /\ Obeyed(Sent(setting, host, port), "port", old) = port
<1> DEFINE c == Sent(setting, host, port)
<1>1. /\ Override("mode", setting) \in Command /\ Override("host", host) \in Command
      /\ Override("port", port) \in Command /\ EpochBump \in Command
  BY DEF Override, EpochBump, Command
<1>2. /\ c \in Seq(Command) /\ Len(c) = 4 /\ c # <<>>
      /\ c[1] = Override("mode", setting) /\ c[2] = Override("host", host)
      /\ c[3] = Override("port", port) /\ c[4] = EpochBump
  BY <1>1 DEF Sent
<1> HIDE DEF c
<1>3. /\ c[1].key = "mode" /\ c[2].key = "host" /\ c[3].key = "port" /\ c[4].key = "epoch"
      /\ c[1].value = setting /\ c[2].value = host /\ c[3].value = port
      /\ c[4] = [key |-> "epoch", value |-> minEpoch + 1]
  BY <1>2 DEF Override, EpochBump
<1>4. \A i \in 1 .. 4 : i = 1 \/ i = 2 \/ i = 3 \/ i = 4
  OBVIOUS
<1>5. OneNumber(c, minEpoch + 1)
  BY <1>2, <1>3, <1>4 DEF OneNumber
<1>6. SetsLast(c, "mode", 1) /\ SetsLast(c, "host", 2) /\ SetsLast(c, "port", 3)
  <2>1. SetsLast(c, "mode", 1)
    <3>1. \A i \in 2 .. 4 : c[i].key # "mode"
      BY <1>3, <1>4
    <3> QED BY <1>2, <1>3, <3>1 DEF SetsLast
  <2>2. SetsLast(c, "host", 2)
    <3>1. \A i \in 3 .. 4 : c[i].key # "host"
      BY <1>3, <1>4
    <3> QED BY <1>2, <1>3, <3>1 DEF SetsLast
  <2>3. SetsLast(c, "port", 3)
    <3>1. \A i \in 4 .. 4 : c[i].key # "port"
      BY <1>3, <1>4
    <3> QED BY <1>2, <1>3, <3>1 DEF SetsLast
  <2> QED BY <2>1, <2>2, <2>3
<1>7. \A old : /\ Obeyed(c, "mode", old) = setting /\ Obeyed(c, "host", old) = host
               /\ Obeyed(c, "port", old) = port
  BY <1>2, <1>3, <1>6, ObeyedAt
<1> QED BY <1>5, <1>7 DEF c

LEMMA SentClosingIs ==
    ASSUME minEpoch \in Nat
    PROVE  /\ OneNumber(SentClosing, minEpoch + 1)
           /\ \A old : Obeyed(SentClosing, "mode", old) = "disabled"
<1> DEFINE c == SentClosing
<1>1. Override("mode", "disabled") \in Command /\ EpochBump \in Command
  BY DEF Override, EpochBump, Command, LinkModes
<1>2. c \in Seq(Command) /\ Len(c) = 2 /\ c # <<>> /\ c[1] = Override("mode", "disabled") /\ c[2] = EpochBump
  BY <1>1 DEF SentClosing
<1> HIDE DEF c
<1>3. /\ c[1].key = "mode" /\ c[2].key = "epoch" /\ c[1].value = "disabled"
      /\ c[2] = [key |-> "epoch", value |-> minEpoch + 1]
  BY <1>2 DEF Override, EpochBump
<1>4. OneNumber(c, minEpoch + 1)
  <2>1. \A i \in 1 .. 2 : i = 1 \/ i = 2
    OBVIOUS
  <2> QED BY <1>2, <1>3, <2>1 DEF OneNumber
<1>5. SetsLast(c, "mode", 1)
  <2>1. \A i \in 2 .. 2 : c[i].key # "mode"
    BY <1>3
  <2> QED BY <1>2, <1>3, <2>1 DEF SetsLast
<1>6. \A old : Obeyed(c, "mode", old) = "disabled"
  BY <1>2, <1>3, <1>5, ObeyedAt
<1> QED BY <1>4, <1>6 DEF c

\* The next number behind the numbers already pending.
LEMMA NumbersNext ==
    ASSUME NEW a \in Seq(Command), NEW e \in Nat, NEW m \in Nat, Numbers(a, e, m),
           NEW cmds, OneNumber(cmds, m + 1)
    PROVE  Numbers(a \o cmds, e, m + 1)
<1> DEFINE c == a \o cmds
           p == Len(a)
           n == Len(cmds)
<1>1. /\ c \in Seq(Command) /\ Len(c) = p + n /\ p \in Nat /\ n \in Nat
      /\ \A i \in 1 .. p : c[i] = a[i]
      /\ \A i \in Int : p < i /\ i <= p + n => i - p \in 1 .. n /\ c[i] = cmds[i - p]
      /\ \A i \in 1 .. n : c[p + i] = cmds[i]
  BY Concatenated DEF OneNumber
<1>2. /\ n >= 1 /\ cmds[n] = [key |-> "epoch", value |-> m + 1]
      /\ \A i \in 1 .. n : cmds[i].key = "epoch" => i = n
  <2>1. n # 0
    BY DEF OneNumber
  <2> QED BY <1>1, <2>1 DEF OneNumber
<1>3. /\ \A i \in 1 .. p : a[i].key = "epoch" => a[i].value \in Int /\ a[i].value <= m
      /\ e <= m
  <2>1. \A i \in 1 .. p : a[i].key = "epoch" => a[i].value \in Int
    <3>1. \A i \in 1 .. p : a[i] \in Command
      OBVIOUS
    <3> QED BY <3>1 DEF Command
  <2> QED BY <2>1 DEF Numbers
<1> HIDE DEF c, p, n
<1>4. ASSUME NEW i \in 1 .. p + n, c[i].key = "epoch"
      PROVE  c[i].value <= m + 1 /\ (c[i].value = m + 1 => i = p + n)
  <2>1. CASE i <= p
    <3>1. i \in 1 .. p
      BY <1>1, <2>1
    <3>2. c[i] = a[i] /\ a[i].value \in Int /\ a[i].value <= m
      BY <1>1, <1>3, <1>4, <3>1
    <3> QED BY <3>2
  <2>2. CASE ~(i <= p)
    <3>1. i \in Int /\ p < i /\ i <= p + n
      BY <1>1, <2>2
    <3>2. i - p \in 1 .. n /\ c[i] = cmds[i - p]
      BY <1>1, <3>1
    <3>3. i - p = n
      BY <1>2, <1>4, <3>2
    <3>4. c[i] = [key |-> "epoch", value |-> m + 1]
      BY <1>2, <3>2, <3>3
    <3>5. i = p + n /\ c[i].value = m + 1
      BY <1>1, <3>1, <3>3, <3>4
    <3> QED BY <3>5
  <2> QED BY <2>1, <2>2
<1>5. c[p + n] = [key |-> "epoch", value |-> m + 1] /\ c # <<>> /\ e < m + 1
  <2>1. n \in 1 .. n
    BY <1>1, <1>2
  <2>2. c[p + n] = cmds[n]
    BY <1>1, <2>1
  <2>3. Len(c) # 0
    BY <1>1, <1>2
  <2>4. c # <<>>
    BY <2>3
  <2> QED BY <1>2, <1>3, <2>2, <2>4
<1>6. Numbers(c, e, m + 1)
  BY <1>1, <1>4, <1>5 DEF Numbers
<1> QED BY <1>6 DEF c

\* Once a part has been read, the numbers of the rest are above the one the core has.
LEMMA NumbersRest ==
    ASSUME NEW a \in Seq(Command), NEW b \in Seq(Command), NEW e \in Nat, NEW m \in Nat, Numbers(a \o b, e, m)
    PROVE  Numbers(b, Obeyed(a, "epoch", e), m)
<1> DEFINE c == a \o b
           p == Len(a)
           n == Len(b)
           f == Obeyed(a, "epoch", e)
<1>1. /\ c \in Seq(Command) /\ Len(c) = p + n /\ p \in Nat /\ n \in Nat
      /\ \A i \in 1 .. p : c[i] = a[i]
      /\ \A i \in 1 .. n : c[p + i] = b[i]
  BY Concatenated
<1>2. /\ \A i \in 1 .. p + n : c[i].key = "epoch" => c[i].value <= m /\ (c[i].value = m => i = p + n)
      /\ p + n # 0 => c[p + n] = [key |-> "epoch", value |-> m] /\ e < m
      /\ p + n = 0 => e = m
  <2>1. p + n # 0 => c # <<>>
    BY <1>1
  <2>2. p + n = 0 => c = <<>>
    BY <1>1
  <2> HIDE DEF c
  <2> QED BY <1>1, <2>1, <2>2 DEF c, Numbers
<1>3. \/ f = e /\ \A i \in 1 .. p : a[i].key # "epoch"
      \/ \E i \in 1 .. p : a[i].key = "epoch" /\ f = a[i].value /\ a[i].value \in Nat
  <2> DEFINE at == {i \in DOMAIN a : a[i].key = "epoch"}
  <2>1. CASE at = {}
    BY <2>1 DEF Obeyed
  <2>2. CASE at # {}
    <3>1. at \in SUBSET (1 .. Len(a)) /\ Len(a) \in Nat
      OBVIOUS
    <3>2. PICK k \in at : k = LastOf(at)
      BY <2>2, <3>1, LastPosition
    <3>3. Obeyed(a, "epoch", e) = a[k].value
      BY <2>2, <3>2 DEF Obeyed
    <3>4. k \in 1 .. Len(a) /\ a[k].key = "epoch" /\ a[k] \in Command
      OBVIOUS
    <3> QED BY <3>3, <3>4 DEF Command
  <2> QED BY <2>1, <2>2
<1>4. Len(b) = n /\ (n = 0 <=> b = <<>>)
  OBVIOUS
<1> HIDE DEF c, p, n, f
<1>5. ASSUME NEW i \in 1 .. n, b[i].key = "epoch"
      PROVE  b[i].value <= m /\ (b[i].value = m => i = n)
  <2>1. p + i \in 1 .. p + n /\ c[p + i] = b[i]
    BY <1>1
  <2>2. b[i].value <= m /\ (b[i].value = m => p + i = p + n)
    BY <1>2, <1>5, <2>1
  <2> QED BY <1>1, <2>2
<1>6. ASSUME n # 0 PROVE b[n] = [key |-> "epoch", value |-> m] /\ f < m
  <2>1. n \in 1 .. n /\ p + n # 0
    BY <1>1, <1>6
  <2>2. b[n] = c[p + n]
    BY <1>1, <2>1
  <2>3. ASSUME NEW i \in 1 .. p, a[i].key = "epoch", f = a[i].value, a[i].value \in Nat PROVE f < m
    <3>1. c[i] = a[i] /\ i \in 1 .. p + n /\ i # p + n
      BY <1>1, <2>1
    <3>2. a[i].value <= m /\ a[i].value # m
      BY <1>2, <2>3, <3>1
    <3> QED BY <2>3, <3>2
  <2> QED BY <1>2, <1>3, <2>1, <2>2, <2>3
<1>7. ASSUME n = 0 PROVE f = m
  <2>1. CASE p = 0
    BY <1>1, <1>2, <1>3, <1>7, <2>1
  <2>2. CASE p # 0
    <3>1. p \in 1 .. p /\ c[p] = [key |-> "epoch", value |-> m] /\ a[p] = c[p]
      BY <1>1, <1>2, <1>7, <2>2
    <3>2. SetsLast(a, "epoch", p)
      <4>1. Len(a) = p /\ a[p].key = "epoch" /\ \A j \in p + 1 .. p : a[j].key # "epoch"
        BY <1>1, <3>1 DEF p
      <4> QED BY <3>1, <4>1 DEF SetsLast
    <3>3. f = a[p].value
      BY <3>2, ObeyedAt DEF f
    <3> QED BY <3>1, <3>3
  <2> QED BY <2>1, <2>2
<1>8. Numbers(b, f, m)
  BY <1>4, <1>5, <1>6, <1>7 DEF Numbers
<1> QED BY <1>8 DEF f

------------------------------------------------------------------------------
(* CoreEventQueue.                                                         *)

\* Some positions of a sequence have a first one.
LEMMA FirstPosition ==
    ASSUME NEW at \in SUBSET Nat, at # {}
    PROVE  \E i \in at : \A j \in at : i <= j
<1>1. \E x \in at : \A y \in at : ~(<<y, x>> \in OpToRel(<, Nat))
  BY NatLessThanWellFounded, WFMin, Zenon
<1>2. \E x \in at : \A y \in at : ~(y < x)
  BY <1>1, Zenon DEF OpToRel
<1> QED BY <1>2

\* What is pushed is the event and what was there, but for a log line perhaps.
LEMMA PushedIs ==
    ASSUME NEW q \in Seq(Said), NEW e \in Said
    PROVE  /\ Pushed(q, e) \in Seq(Said)
           /\ \A i \in 1 .. Len(Pushed(q, e)) :
                 Pushed(q, e)[i] = e \/ \E j \in 1 .. Len(q) : Pushed(q, e)[i] = q[j]
<1> DEFINE From(s) == /\ s \in Seq(Said)
                      /\ \A i \in 1 .. Len(s) : \E j \in 1 .. Len(q) : s[i] = q[j]
<1>1. ASSUME NEW s, From(s)
      PROVE  /\ Append(s, e) \in Seq(Said)
             /\ \A i \in 1 .. Len(Append(s, e)) : Append(s, e)[i] = e \/ \E j \in 1 .. Len(q) : Append(s, e)[i] = q[j]
  <2>1. /\ Append(s, e) \in Seq(Said) /\ Len(Append(s, e)) = Len(s) + 1 /\ Len(s) \in Nat
        /\ \A i \in 1 .. Len(s) : Append(s, e)[i] = s[i]
        /\ Append(s, e)[Len(s) + 1] = e
    BY <1>1
  <2>2. \A i \in 1 .. Len(s) + 1 : i \in 1 .. Len(s) \/ i = Len(s) + 1
    BY <2>1
  <2> QED BY <1>1, <2>1, <2>2
<1>2. From(q)
  OBVIOUS
<1>3. ASSUME NEW k \in 1 .. Len(q) PROVE From(RemoveAt(q, k))
  <2> DEFINE a == SubSeq(q, 1, k - 1)
             b == SubSeq(q, k + 1, Len(q))
  <2>1. Len(q) \in Nat /\ k \in Nat /\ k >= 1 /\ k <= Len(q)
    OBVIOUS
  <2>2. a \in Seq(Said) /\ Len(a) = k - 1 /\ \A i \in 1 .. k - 1 : a[i] = q[i]
    BY <2>1
  <2>3. b \in Seq(Said) /\ Len(b) = Len(q) - k /\ \A i \in 1 .. Len(q) - k : b[i] = q[k + i]
    BY <2>1
  <2> HIDE DEF a, b
  <2>4. /\ a \o b \in Seq(Said) /\ Len(a \o b) = Len(a) + Len(b)
        /\ \A i \in 1 .. Len(a) : (a \o b)[i] = a[i]
        /\ \A i \in Int : Len(a) < i /\ i <= Len(a \o b) => i - Len(a) \in 1 .. Len(b) /\ (a \o b)[i] = b[i - Len(a)]
    <3>1. a \in Seq(Said) /\ b \in Seq(Said)
      BY <2>2, <2>3
    <3> QED BY <3>1, Concatenated
  <2>5. ASSUME NEW i \in 1 .. Len(a \o b) PROVE \E j \in 1 .. Len(q) : (a \o b)[i] = q[j]
    <3>0. i \in Int /\ i >= 1 /\ i <= Len(q) - 1
      BY <2>1, <2>2, <2>3, <2>4
    <3>1. CASE i <= k - 1
      <4>1. i \in 1 .. Len(a) /\ i \in 1 .. k - 1 /\ i \in 1 .. Len(q)
        BY <2>1, <2>2, <3>0, <3>1
      <4> QED BY <2>2, <2>4, <4>1
    <3>2. CASE ~(i <= k - 1)
      <4>1. Len(a) < i /\ i <= Len(a \o b)
        BY <2>1, <2>2, <3>0, <3>2
      <4>2. i - Len(a) \in 1 .. Len(b) /\ (a \o b)[i] = b[i - Len(a)]
        BY <2>4, <3>0, <4>1
      <4>3. i - (k - 1) \in 1 .. Len(q) - k /\ (a \o b)[i] = b[i - (k - 1)]
        BY <2>1, <2>2, <2>3, <4>2
      <4>4. (a \o b)[i] = q[k + (i - (k - 1))] /\ k + (i - (k - 1)) \in 1 .. Len(q)
        BY <2>1, <2>3, <3>0, <4>3
      <4> QED BY <4>4
    <3> QED BY <3>1, <3>2
  <2> QED BY <2>4, <2>5 DEF RemoveAt, a, b
<1> DEFINE logs == {i \in DOMAIN q : IsLog(q[i])}
<1>4. ASSUME Cardinality(logs) >= MaxLogs
      PROVE  (CHOOSE i \in logs : \A j \in logs : i <= j) \in 1 .. Len(q)
  <2>1. logs \in SUBSET Nat
    OBVIOUS
  <2>2. logs # {}
    <3>1. MaxLogs \in Nat /\ MaxLogs # 0
      BY NetplayAssumption
    <3>2. Cardinality({}) = 0
      BY FS_EmptySet
    <3>3. logs = {} => Cardinality(logs) = 0
      BY <3>2
    <3>4. Cardinality(logs) # 0
      BY <1>4, <3>1
    <3> QED BY <3>3, <3>4
  <2>3. \E i \in logs : \A j \in logs : i <= j
    BY <2>1, <2>2, FirstPosition
  <2>4. (CHOOSE i \in logs : \A j \in logs : i <= j) \in logs
    <3> HIDE DEF logs
    <3> QED BY <2>3
  <2> QED BY <2>4
<1> HIDE DEF From
<1>5. CASE IsLog(e) /\ Cardinality(logs) >= MaxLogs
  <2> DEFINE k == CHOOSE i \in logs : \A j \in logs : i <= j
  <2>1. Pushed(q, e) = Append(RemoveAt(q, k), e)
    BY <1>5 DEF Pushed
  <2>2. k \in 1 .. Len(q)
    BY <1>4, <1>5
  <2> HIDE DEF k
  <2> QED BY <1>1, <1>3, <2>1, <2>2
<1>6. CASE ~(IsLog(e) /\ Cardinality(logs) >= MaxLogs)
  <2>1. Pushed(q, e) = Append(q, e)
    BY <1>6 DEF Pushed
  <2> QED BY <1>1, <1>2, <2>1
<1> QED BY <1>5, <1>6

------------------------------------------------------------------------------
(* The steps.                                                              *)

LEMMA OptionsAre ==
    /\ Options = [mode : LinkModes, host : Hosts \cup {Default}, port : Ports \cup {Default}]
    /\ Off \in Options /\ Off \notin Settings /\ Settings \cup {Off} \subseteq Options
    /\ \A o \in Options : DOMAIN o = {"mode", "host", "port"}
    /\ \A o, p \in Options : o.mode = p.mode /\ o.host = p.host /\ o.port = p.port => o = p
    /\ \A o \in Options : o.mode \in LinkModes /\ o.host \in Hosts \cup {Default} /\ o.port \in Ports \cup {Default}
<1> DEFINE R == [mode : LinkModes, host : Hosts \cup {Default}, port : Ports \cup {Default}]
<1>1. Options = R
  BY DEF Options, Settings, LinkModes
<1>2. Off \in Options /\ Off \notin Settings
  BY DEF Options, Settings, Off
<1>3. Settings \cup {Off} \subseteq Options
  BY <1>2 DEF Options
<1>4. \A o \in R : DOMAIN o = {"mode", "host", "port"}
  OBVIOUS
<1>5. \A o \in R : \A p \in R : o.mode = p.mode /\ o.host = p.host /\ o.port = p.port => o = p
  OBVIOUS
<1>6. \A o \in R : o.mode \in LinkModes /\ o.host \in Hosts \cup {Default} /\ o.port \in Ports \cup {Default}
  OBVIOUS
<1> HIDE DEF R
<1> QED BY <1>1, <1>2, <1>3, <1>4, <1>5, <1>6 DEF R

LEMMA InitHolds == NetInit => NetInv
<1> SUFFICES ASSUME NetInit PROVE NetInv
  OBVIOUS
<1> USE DEF NetInit
<1>1. Pending = <<>> /\ <<>> \in Seq(Command) /\ <<>> \in Seq(Said)
  BY DEF Pending
<1>2. Typed
  <2>1. want \in Settings \cup {Off} /\ applied \in Settings \cup {Off} /\ ran \in 0 .. bounceNeed
    BY DEF bounceNeed
  <2>2. opts \in Options /\ link \in Options /\ evidence \in Options
    BY OptionsAre
  <2>3. lane \in Seq(Command) /\ todo \in Seq(Command) /\ events \in Seq(Said)
    BY <1>1
  <2> QED BY <2>1, <2>2, <2>3 DEF Typed
<1>3. Sending
  <2>1. \A k \in {"mode", "host", "port"} : Obeyed(<<>>, k, opts[k]) = opts[k]
    BY DEF Obeyed
  <2> QED BY <1>1, <2>1 DEF Sending
<1>4. Numbers(Pending, epoch, minEpoch)
  BY <1>1 DEF Numbers
<1>5. Dated
  BY DEF Dated
<1>6. Closing /\ UpIsThisSession
  BY DEF Closing, UpIsThisSession, Off
<1> QED BY <1>2, <1>3, <1>4, <1>5, <1>6 DEF NetInv

\* A call of the UI thread: its commands are behind what is in the lane.
LEMMA Sends ==
    ASSUME NetInv, todo = <<>>, NEW cmds, OneNumber(cmds, minEpoch + 1),
           todo' = cmds, UNCHANGED <<lane, opts, epoch, events>>, minEpoch' = minEpoch + 1
    PROVE  /\ todo' \in Seq(Command) /\ minEpoch' \in Nat /\ Numbers(Pending, epoch, minEpoch)' /\ Dated'
           /\ todo' # <<>>
           /\ \A k, old : Obeyed(Pending', k, old) = Obeyed(cmds, k, Obeyed(lane, k, old))
<1>1. cmds \in Seq(Command) /\ cmds # <<>> /\ lane \in Seq(Command) /\ minEpoch \in Nat /\ epoch \in Nat
  BY DEF OneNumber, NetInv, Typed
<1>2. Pending = lane /\ Pending' = lane \o cmds
  BY <1>1 DEF Pending
<1>3. Numbers(lane, epoch, minEpoch)
  BY <1>2 DEF NetInv
<1>4. Numbers(lane \o cmds, epoch, minEpoch + 1)
  BY <1>1, <1>3, NumbersNext
<1>5. Numbers(Pending, epoch, minEpoch)'
  BY <1>2, <1>4 DEF Numbers
<1>6. Dated'
  <2>1. \A i \in 1 .. Len(events) : events[i] \in Said
    BY DEF NetInv, Typed
  <2>2. \A i \in 1 .. Len(events) : events[i].epoch \in Nat /\ events[i].epoch <= minEpoch
    BY <2>1 DEF NetInv, Dated, Said
  <2> QED BY <1>1, <2>2 DEF Dated
<1>7. \A k, old : Obeyed(lane \o cmds, k, old) = Obeyed(cmds, k, Obeyed(lane, k, old))
  BY <1>1, ObeyedConcat
<1> QED BY <1>1, <1>2, <1>5, <1>6, <1>7

\* The core reads its lane.
LEMMA Reads ==
    ASSUME NetInv, lane' = <<>>, opts' = ObeyedOptions(lane), epoch' = Obeyed(lane, "epoch", epoch),
           UNCHANGED <<todo, want, bouncing, minEpoch>>
    PROVE  /\ opts' \in Options /\ epoch' \in Nat /\ lane' \in Seq(Command)
           /\ Sending' /\ Numbers(Pending, epoch, minEpoch)'
           /\ todo = <<>> /\ bouncing => opts'.mode = "disabled"
<1>1. /\ lane \in Seq(Command) /\ todo \in Seq(Command) /\ opts \in Options /\ epoch \in Nat /\ minEpoch \in Nat
      /\ DOMAIN opts = {"mode", "host", "port"}
  BY OptionsAre DEF NetInv, Typed
<1>2. opts' \in Options /\ epoch' \in Nat
  BY <1>1, ObeyedTypes DEF ObeyedOptions
<1>3. \A k \in {"mode", "host", "port"} : opts'[k] = Obeyed(lane, k, opts[k])
  BY <1>1 DEF ObeyedOptions
<1>4. Pending' = todo /\ lane' \in Seq(Command)
  BY <1>1 DEF Pending
<1>5. \A k, old : Obeyed(Pending, k, old) = Obeyed(todo, k, Obeyed(lane, k, old))
  BY <1>1, ObeyedConcat DEF Pending
<1>6. \A k \in {"mode", "host", "port"} : Obeyed(Pending', k, opts'[k]) = Obeyed(Pending, k, opts[k])
  BY <1>3, <1>4, <1>5
<1>7. Sending'
  <2>1. \A k \in {"mode", "host", "port"} : ~bouncing => Obeyed(Pending', k, opts'[k]) = want[k]
    BY <1>6 DEF NetInv, Sending
  <2>2. bouncing => Obeyed(Pending', "mode", opts'.mode) = "disabled"
    BY <1>6 DEF NetInv, Sending
  <2> QED BY <2>1, <2>2 DEF Sending
<1>8. Numbers(Pending, epoch, minEpoch)'
  <2>1. Numbers(todo, Obeyed(lane, "epoch", epoch), minEpoch)
    BY <1>1, NumbersRest DEF NetInv, Pending
  <2> QED BY <1>4, <2>1 DEF Numbers
<1>9. todo = <<>> /\ bouncing => opts'.mode = "disabled"
  <2>1. Obeyed(<<>>, "mode", opts'.mode) = opts'.mode
    BY DEF Obeyed
  <2> QED BY <1>4, <1>7, <2>1 DEF Sending
<1> QED BY <1>2, <1>4, <1>7, <1>8, <1>9

\* The settings sent are the settings wanted.
LEMMA ApplyNowKeeps ==
    ASSUME NetInv, todo = <<>>, NEW s \in Settings, ApplyNow(s), bouncing' = FALSE,
           UNCHANGED <<ran, lane, emu, core, events>>
    PROVE  NetInv'
<1> USE DEF core
<1>1. /\ s \in Options /\ s.mode \in LinkModes /\ s.host \in Hosts \cup {Default} /\ s.port \in Ports \cup {Default}
  BY OptionsAre
<1>2. todo' = Sent(s.mode, s.host, s.port) /\ minEpoch' = minEpoch + 1 /\ minEpoch \in Nat
  BY DEF ApplyNow, Sent, NetInv, Typed
<1>3. /\ OneNumber(Sent(s.mode, s.host, s.port), minEpoch + 1)
      /\ \A old : /\ Obeyed(Sent(s.mode, s.host, s.port), "mode", old) = s.mode
                  /\ Obeyed(Sent(s.mode, s.host, s.port), "host", old) = s.host
                  /\ Obeyed(Sent(s.mode, s.host, s.port), "port", old) = s.port
  BY <1>1, <1>2, SentIs
<1>4. /\ todo' \in Seq(Command) /\ minEpoch' \in Nat /\ Numbers(Pending, epoch, minEpoch)' /\ Dated'
      /\ \A k, old : Obeyed(Pending', k, old) = Obeyed(todo', k, Obeyed(lane, k, old))
  BY <1>2, <1>3, Sends
<1>5. want' = s /\ applied' = s /\ state' = "Waiting" /\ evidence' = Off
  BY DEF ApplyNow
<1>6. Typed'
  BY <1>4, <1>5, OptionsAre DEF NetInv, Typed
<1>7. Sending'
  BY <1>2, <1>3, <1>4, <1>5 DEF Sending
<1>8. Closing'
  BY DEF NetInv, Closing
<1>9. UpIsThisSession'
  BY <1>5 DEF UpIsThisSession
<1> QED BY <1>4, <1>6, <1>7, <1>8, <1>9 DEF NetInv

LEMMA StartKeeps == ASSUME NetInv, NEW s \in Settings, Start(s) PROVE NetInv'
<1>1. CASE ApplyNow(s) /\ bouncing' = FALSE /\ UNCHANGED ran
  <2>1. todo = <<>> /\ UNCHANGED <<ran, lane, emu, core, events>>
    BY <1>1 DEF Start
  <2> QED BY <1>1, <2>1, ApplyNowKeeps
<1>2. CASE /\ todo' = SentClosing /\ want' = s /\ bouncing' = TRUE /\ ran' = 0
           /\ state' = "Waiting" /\ evidence' = Off /\ minEpoch' = minEpoch + 1
           /\ applied \notin {Off, s} /\ UNCHANGED applied
  <2>1. todo = <<>> /\ UNCHANGED <<lane, emu, opts, epoch, link, connected, wasUp, loaded, events>>
    BY DEF Start, core
  <2>2. OneNumber(SentClosing, minEpoch + 1) /\ \A old : Obeyed(SentClosing, "mode", old) = "disabled"
    BY SentClosingIs DEF NetInv, Typed
  <2>3. /\ todo' \in Seq(Command) /\ minEpoch' \in Nat /\ Numbers(Pending, epoch, minEpoch)' /\ Dated'
        /\ \A k, old : Obeyed(Pending', k, old) = Obeyed(SentClosing, k, Obeyed(lane, k, old))
    BY <1>2, <2>1, <2>2, Sends
  <2>4. Typed'
    BY <1>2, <2>1, <2>3, OptionsAre DEF NetInv, Typed, bounceNeed
  <2>5. Sending'
    BY <1>2, <2>2, <2>3 DEF Sending
  <2>6. Closing'
    <3>1. s # Off
      BY OptionsAre
    <3> QED BY <1>2, <2>1, <3>1 DEF NetInv, Closing
  <2>7. UpIsThisSession'
    BY <1>2 DEF UpIsThisSession
  <2> QED BY <2>3, <2>4, <2>5, <2>6, <2>7 DEF NetInv
<1> QED BY <1>1, <1>2 DEF Start, SentClosing

LEMMA StopKeeps == ASSUME NetInv, Stop PROVE NetInv'
<1>1. /\ todo = <<>> /\ want' = Off /\ applied' = Off /\ bouncing' = FALSE /\ state' = "Off" /\ evidence' = Off
      /\ todo' = Sent(Off.mode, Default, Default) /\ minEpoch' = minEpoch + 1 /\ minEpoch \in Nat
      /\ UNCHANGED <<ran, lane, emu, opts, epoch, link, connected, wasUp, loaded, events>>
  BY DEF Stop, Sent, core, NetInv, Typed
<1>2. Off.mode \in LinkModes /\ Off.host = Default /\ Off.port = Default
  BY DEF Off, LinkModes
<1>3. /\ OneNumber(Sent(Off.mode, Default, Default), minEpoch + 1)
      /\ \A old : /\ Obeyed(Sent(Off.mode, Default, Default), "mode", old) = Off.mode
                  /\ Obeyed(Sent(Off.mode, Default, Default), "host", old) = Default
                  /\ Obeyed(Sent(Off.mode, Default, Default), "port", old) = Default
  BY <1>1, <1>2, SentIs
<1>4. /\ todo' \in Seq(Command) /\ minEpoch' \in Nat /\ Numbers(Pending, epoch, minEpoch)' /\ Dated'
      /\ \A k, old : Obeyed(Pending', k, old) = Obeyed(todo', k, Obeyed(lane, k, old))
  BY <1>1, <1>3, Sends
<1>5. Typed'
  BY <1>1, <1>4, OptionsAre DEF NetInv, Typed
<1>6. Sending'
  BY <1>1, <1>2, <1>3, <1>4 DEF Sending
<1>7. Closing' /\ UpIsThisSession'
  BY <1>1 DEF NetInv, Closing, UpIsThisSession
<1> QED BY <1>4, <1>5, <1>6, <1>7 DEF NetInv

LEMMA AfterFrameKeeps == ASSUME NetInv, AfterFrame PROVE NetInv'
<1>1. want \in Settings
  BY DEF NetInv, Typed, Closing, AfterFrame
<1> QED BY <1>1, ApplyNowKeeps DEF AfterFrame

LEMMA PostKeeps == ASSUME NetInv, Post PROVE NetInv'
<1>1. todo # <<>> /\ lane' = Append(lane, Head(todo)) /\ todo' = Tail(todo)
  BY DEF Post
<1>2. UNCHANGED <<want, applied, state, bouncing, minEpoch, evidence, ran, emu, opts, epoch, link, connected,
                  wasUp, loaded, events>>
  BY DEF Post, ui, core
<1>3. lane \in Seq(Command) /\ todo \in Seq(Command)
  BY DEF NetInv, Typed
<1>4. lane' \in Seq(Command) /\ todo' \in Seq(Command)
  BY <1>1, <1>3
<1>5. Pending' = Pending
  <2>1. <<Head(todo)>> \in Seq(Command) /\ Tail(todo) \in Seq(Command)
    BY <1>1, <1>3
  <2>2. lane' = lane \o <<Head(todo)>>
    BY <1>1, <1>3
  <2>3. todo = <<Head(todo)>> \o Tail(todo)
    BY <1>1, <1>3
  <2>4. (lane \o <<Head(todo)>>) \o Tail(todo) = lane \o (<<Head(todo)>> \o Tail(todo))
    BY <1>3, <2>1, ConcatAssociative
  <2> QED BY <1>1, <2>2, <2>3, <2>4 DEF Pending
<1>6. Typed'
  BY <1>2, <1>4 DEF NetInv, Typed
<1>7. Sending' /\ Numbers(Pending, epoch, minEpoch)'
  BY <1>2, <1>5 DEF NetInv, Sending, Numbers
<1>8. Dated' /\ Closing' /\ UpIsThisSession'
  BY <1>1, <1>2 DEF NetInv, Dated, Closing, UpIsThisSession
<1> QED BY <1>6, <1>7, <1>8 DEF NetInv

LEMMA PinKeeps == ASSUME NetInv, Pin PROVE NetInv'
<1>1. events' = <<>> /\ UNCHANGED <<want, applied, bouncing, minEpoch, ran, todo, lane, emu, opts, epoch, link,
                                    connected, wasUp, loaded>>
  BY DEF Pin, core
<1>2. \A i \in 1 .. Len(events) : events[i] \in Said
  BY DEF NetInv, Typed
<1>3. /\ state' \in {"Off", "Waiting", "Up", "Lost"} /\ evidence' \in Options
      /\ state' = "Up" => evidence' = want
  <2> DEFINE heard == {i \in DOMAIN events : Heard(events[i])}
             last == LastOf(heard)
             before == heard \ {last}
             wasShown == IF before = {} THEN state = "Up" ELSE events[LastOf(before)].kind = "up"
  <2>0. /\ state' = (IF heard = {} THEN [state |-> state, evidence |-> evidence] ELSE Shown(events[last], wasShown)).state
        /\ evidence' = (IF heard = {} THEN [state |-> state, evidence |-> evidence] ELSE Shown(events[last], wasShown)).evidence
    BY Zenon DEF Pin
  <2>1. CASE heard = {}
    <3>1. state' = state /\ evidence' = evidence
      BY <2>0, <2>1
    <3> QED BY <3>1 DEF NetInv, Typed, UpIsThisSession
  <2>2. CASE heard # {}
    <3>1. heard \in SUBSET (1 .. Len(events)) /\ Len(events) \in Nat
      BY DEF NetInv, Typed
    <3>2. PICK i \in heard : i = last
      <4> HIDE DEF heard
      <4> QED BY <2>2, <3>1, LastPosition
    <3>3. i \in 1 .. Len(events) /\ Heard(events[i])
      BY <3>1
    <3> HIDE DEF wasShown, heard
    <3>4. state' = Shown(events[i], wasShown).state /\ evidence' = Shown(events[i], wasShown).evidence
      BY <2>0, <2>2, <3>2
    <3> HIDE DEF last, before
    <3> DEFINE e == events[i]
    <3>5. e \in Said /\ e.kind \in {"up", "down", "open"}
      BY <1>2, <3>3 DEF Heard, Said
    <3>6. e.opts \in Options /\ e.opts = want
      <4>1. e \in Said /\ e.epoch <= minEpoch /\ (e.epoch = minEpoch /\ ~bouncing => e.opts = want)
        BY <1>2, <3>3 DEF NetInv, Dated
      <4>2. e.epoch >= minEpoch /\ ~bouncing
        BY <3>3 DEF Heard
      <4>3. e.epoch \in Nat /\ minEpoch \in Nat /\ e.opts \in Options
        BY <4>1 DEF Said, NetInv, Typed
      <4> QED BY <4>1, <4>2, <4>3
    <3> HIDE DEF e
    <3>7. /\ state' = Shown(e, wasShown).state /\ evidence' = Shown(e, wasShown).evidence
      BY <3>4 DEF e
    <3>8. CASE e.kind = "up"
      BY <3>6, <3>7, <3>8 DEF Shown
    <3>9. CASE e.kind = "down"
      BY <3>7, <3>9, OptionsAre DEF Shown
    <3>10. CASE e.kind = "open"
      BY <3>7, <3>10, OptionsAre DEF Shown
    <3> QED BY <3>5, <3>8, <3>9, <3>10
  <2> QED BY <2>1, <2>2
<1>4. Typed'
  BY <1>1, <1>3 DEF NetInv, Typed
<1>5. Sending' /\ Numbers(Pending, epoch, minEpoch)'
  BY <1>1 DEF NetInv, Sending, Numbers, Pending
<1>6. Dated' /\ Closing' /\ UpIsThisSession'
  BY <1>1, <1>3 DEF NetInv, Dated, Closing, UpIsThisSession
<1> QED BY <1>4, <1>5, <1>6 DEF NetInv

LEMMA DrainKeeps == ASSUME NetInv, Drain PROVE NetInv'
<1>1. /\ emu = "top" /\ emu' = "drained" /\ lane' = <<>>
      /\ opts' = ObeyedOptions(lane) /\ epoch' = Obeyed(lane, "epoch", epoch)
      /\ UNCHANGED <<want, applied, state, bouncing, minEpoch, evidence, ran, todo, link, connected, wasUp,
                     loaded, events>>
  BY DEF Drain, ui
<1>2. /\ opts' \in Options /\ epoch' \in Nat /\ lane' \in Seq(Command)
      /\ Sending' /\ Numbers(Pending, epoch, minEpoch)'
      /\ todo = <<>> /\ bouncing => opts'.mode = "disabled"
  BY <1>1, Reads
<1>3. Typed'
  BY <1>1, <1>2 DEF NetInv, Typed
<1>4. Dated' /\ UpIsThisSession'
  BY <1>1 DEF NetInv, Dated, UpIsThisSession
<1>5. Closing'
  <2>1. bouncing /\ ran >= 1 => todo = <<>>
    BY DEF NetInv, Closing
  <2>2. ran \in Nat /\ (ran >= 2 => ran >= 1)
    BY DEF NetInv, Typed, bounceNeed
  <2> QED BY <1>1, <1>2, <2>1, <2>2 DEF NetInv, Closing
<1> QED BY <1>2, <1>3, <1>4, <1>5 DEF NetInv

LEMMA NoFrameKeeps == ASSUME NetInv, NoFrame PROVE NetInv'
<1>1. emu' = "top" /\ UNCHANGED <<want, applied, state, bouncing, minEpoch, evidence, ran, todo, lane, opts, epoch,
                                  link, connected, wasUp, loaded, events>>
  BY DEF NoFrame, ui, core
<1>2. Typed'
  BY <1>1 DEF NetInv, Typed
<1>3. Sending' /\ Numbers(Pending, epoch, minEpoch)'
  BY <1>1 DEF NetInv, Sending, Numbers, Pending
<1>4. Dated' /\ Closing' /\ UpIsThisSession'
  BY <1>1 DEF NetInv, Dated, Closing, UpIsThisSession
<1> QED BY <1>2, <1>3, <1>4 DEF NetInv

LEMMA BeginFrameKeeps == ASSUME NetInv, BeginFrame PROVE NetInv'
<1>1. /\ emu = "drained" /\ emu' = "frame" /\ loaded
      /\ link' = Applied(opts) /\ connected' = (connected /\ link' = link)
      /\ UNCHANGED <<want, applied, state, bouncing, minEpoch, evidence, ran, todo, lane, opts, epoch,
                     wasUp, loaded, events>>
  BY DEF BeginFrame, ui
<1>2. link' \in Options /\ (opts.mode = "disabled" => link'.mode = "disabled")
  BY <1>1, OptionsAre DEF NetInv, Typed, Applied, Off
<1>3. Typed'
  <2>1. connected' \in BOOLEAN
    BY <1>1
  <2> QED BY <1>1, <1>2, <2>1 DEF NetInv, Typed
<1>4. Sending' /\ Numbers(Pending, epoch, minEpoch)'
  BY <1>1 DEF NetInv, Sending, Numbers, Pending
<1>5. Dated' /\ UpIsThisSession'
  BY <1>1 DEF NetInv, Dated, UpIsThisSession
<1>6. Closing'
  <2>1. ran \in Nat /\ (ran >= 2 => ran >= 1)
    BY DEF NetInv, Typed, bounceNeed
  <2> QED BY <1>1, <1>2, <2>1 DEF NetInv, Closing
<1> QED BY <1>3, <1>4, <1>5, <1>6 DEF NetInv

LEMMA EndFrameKeeps == ASSUME NetInv, EndFrame PROVE NetInv'
<1>1. /\ emu = "frame" /\ emu' = "top"
      /\ wasUp' = IF link.mode = "disabled" THEN "unset" ELSE IF connected' THEN "up" ELSE "down"
      /\ ran' = IF bouncing /\ todo = <<>> /\ ran < bounceNeed THEN ran + 1 ELSE ran
      /\ connected' \in {connected, ~connected}
      /\ UNCHANGED <<want, applied, state, bouncing, minEpoch, evidence, todo, lane, opts, epoch, link, loaded>>
  BY DEF EndFrame, ui
<1>2. /\ lane \in Seq(Command) /\ todo \in Seq(Command) /\ events \in Seq(Said)
      /\ epoch \in Nat /\ minEpoch \in Nat /\ opts \in Options /\ want \in Options
  BY OptionsAre DEF NetInv, Typed
<1> DEFINE Fair(e) == e \in Said /\ e.epoch <= minEpoch /\ (e.epoch = minEpoch /\ ~bouncing => e.opts = want)
           AllFair(q) == q \in Seq(Said) /\ \A i \in 1 .. Len(q) : Fair(q[i])
<1>3. AllFair(events)
  <2>1. \A i \in 1 .. Len(events) : events[i] \in Said
    BY <1>2
  <2> QED BY <1>2, <2>1 DEF NetInv, Dated
<1>4. epoch <= minEpoch /\ (epoch = minEpoch /\ ~bouncing => opts = want)
  <2>1. CASE Pending = <<>>
    <3>1. \A k \in {"mode", "host", "port"} : Obeyed(<<>>, k, opts[k]) = opts[k]
      BY DEF Obeyed
    <3>2. ~bouncing => opts.mode = want.mode /\ opts.host = want.host /\ opts.port = want.port
      BY <2>1, <3>1 DEF NetInv, Sending
    <3>3. epoch = minEpoch
      BY <2>1 DEF NetInv, Numbers
    <3> QED BY <1>2, <3>2, <3>3, OptionsAre
  <2>2. CASE Pending # <<>>
    BY <1>2, <2>2 DEF NetInv, Numbers
  <2> QED BY <2>1, <2>2
<1>5. \A kind \in {"up", "down", "open", "noise"} : Fair(Event(kind))
  <2> TAKE kind \in {"up", "down", "open", "noise"}
  <2>1. Event(kind) \in Said
    BY <1>2 DEF Event, Said
  <2>2. Event(kind).epoch = epoch /\ Event(kind).opts = opts
    BY DEF Event
  <2> QED BY <1>4, <2>1, <2>2
<1> HIDE DEF Fair
<1>6. ASSUME NEW q, AllFair(q), NEW kind \in {"up", "down", "open", "noise"} PROVE AllFair(Pushed(q, Event(kind)))
  <2> DEFINE e == Event(kind)
             p == Pushed(q, e)
  <2>1. e \in Said /\ Fair(e)
    BY <1>5 DEF Fair
  <2> HIDE DEF e
  <2>2. /\ p \in Seq(Said)
        /\ \A i \in 1 .. Len(p) : p[i] = e \/ \E j \in 1 .. Len(q) : p[i] = q[j]
    BY <1>6, <2>1, PushedIs
  <2> HIDE DEF p
  <2>3. AllFair(p)
    BY <1>6, <2>1, <2>2
  <2> QED BY <2>3 DEF e, p
<1>7. EdgeKind \in {"none", "up", "down", "open"}
  BY DEF EdgeKind
<1> HIDE DEF AllFair
<1>8. AllFair(events')
  <2> DEFINE said == IF EdgeKind = "none" THEN events ELSE Pushed(events, Event(EdgeKind))
  <2>1. AllFair(said)
    <3>1. CASE EdgeKind = "none"
      BY <1>3, <3>1
    <3>2. CASE EdgeKind # "none"
      <4>1. EdgeKind \in {"up", "down", "open", "noise"}
        BY <1>7, <3>2
      <4>2. AllFair(Pushed(events, Event(EdgeKind)))
        BY <1>3, <1>6, <4>1
      <4> QED BY <3>2, <4>2
    <3> QED BY <3>1, <3>2
  <2>2. events' = said \/ events' = Pushed(said, Event("noise"))
    BY DEF EndFrame
  <2> HIDE DEF said
  <2>3. AllFair(Pushed(said, Event("noise")))
    BY <1>6, <2>1
  <2> QED BY <2>1, <2>2, <2>3
<1>9. Typed'
  <2>1. ran' \in 0 .. bounceNeed
    BY <1>1 DEF NetInv, Typed, bounceNeed
  <2>2. connected' \in BOOLEAN
    BY <1>1 DEF NetInv, Typed
  <2>3. wasUp' \in {"unset", "down", "up"}
    BY <1>1
  <2>4. events' \in Seq(Said)
    BY <1>8 DEF AllFair
  <2> QED BY <1>1, <2>1, <2>2, <2>3, <2>4 DEF NetInv, Typed
<1>10. Sending' /\ Numbers(Pending, epoch, minEpoch)' /\ UpIsThisSession'
  BY <1>1 DEF NetInv, Sending, Numbers, Pending, UpIsThisSession
<1>11. Dated'
  BY <1>1, <1>8 DEF AllFair, Fair, Dated
<1>12. Closing'
  <2>1. /\ ran \in Nat /\ ran' \in Nat /\ (ran' = ran \/ (ran' = ran + 1 /\ todo = <<>>))
    BY <1>1 DEF NetInv, Typed, bounceNeed
  <2>2. bouncing /\ ran' >= 2 => ran >= 1
    BY <2>1
  <2>3. bouncing /\ ran >= 1 => opts.mode = "disabled" /\ link.mode = "disabled"
    BY <1>1 DEF NetInv, Closing
  <2>4. bouncing /\ todo # <<>> => ran' = 0
    BY <2>1 DEF NetInv, Closing
  <2> QED BY <1>1, <2>2, <2>3, <2>4 DEF NetInv, Closing
<1> QED BY <1>9, <1>10, <1>11, <1>12 DEF NetInv

LEMMA LoadKeeps == ASSUME NetInv, NEW open \in BOOLEAN, Load(open) PROVE NetInv'
<1>1. /\ todo = <<>> /\ emu = "top" /\ lane' = <<>> /\ loaded' = open
      /\ opts' = ObeyedOptions(lane) /\ epoch' = Obeyed(lane, "epoch", epoch)
      /\ link' = (IF open THEN opts' ELSE Off)
      /\ connected' = FALSE /\ wasUp' = "unset"
      /\ events' \in {<<>>, events} /\ ran' \in {0, bounceNeed, ran}
      /\ UNCHANGED <<want, applied, state, bouncing, minEpoch, evidence, todo, emu>>
  BY DEF Load, ui
<1>2. /\ opts' \in Options /\ epoch' \in Nat /\ lane' \in Seq(Command)
      /\ Sending' /\ Numbers(Pending, epoch, minEpoch)'
      /\ todo = <<>> /\ bouncing => opts'.mode = "disabled"
  BY <1>1, Reads
<1>3. link' \in Options /\ (~open => link'.mode = "disabled")
  BY <1>1, <1>2, OptionsAre DEF Off
<1>4. Typed'
  <2>1. ran' \in 0 .. bounceNeed
    BY <1>1 DEF NetInv, Typed, bounceNeed
  <2>2. events' \in Seq(Said)
    <3>1. <<>> \in Seq(Said) /\ events \in Seq(Said)
      BY DEF NetInv, Typed
    <3> QED BY <1>1, <3>1
  <2> QED BY <1>1, <1>2, <1>3, <2>1, <2>2 DEF NetInv, Typed
<1>5. Dated' /\ UpIsThisSession'
  BY <1>1 DEF NetInv, Dated, UpIsThisSession
<1>6. Closing'
  <2>1. bouncing => opts'.mode = "disabled" /\ link'.mode = "disabled"
    BY <1>1, <1>2, <1>3
  <2> QED BY <1>1, <1>3, <2>1 DEF NetInv, Closing
<1> QED BY <1>2, <1>4, <1>5, <1>6 DEF NetInv

LEMMA NextKeeps == NetInv /\ [NetNext]_netVars => NetInv'
<1> SUFFICES ASSUME NetInv, [NetNext]_netVars PROVE NetInv'
  OBVIOUS
<1>1. ASSUME NEW s \in Settings, Start(s) PROVE NetInv'
  BY <1>1, StartKeeps
<1>2. CASE Stop
  BY <1>2, StopKeeps
<1>3. CASE Post
  BY <1>3, PostKeeps
<1>4. CASE AfterFrame
  BY <1>4, AfterFrameKeeps
<1>5. CASE Pin
  BY <1>5, PinKeeps
<1>6. CASE Drain
  BY <1>6, DrainKeeps
<1>7. CASE NoFrame
  BY <1>7, NoFrameKeeps
<1>8. CASE BeginFrame
  BY <1>8, BeginFrameKeeps
<1>9. CASE EndFrame
  BY <1>9, EndFrameKeeps
<1>10. ASSUME NEW open \in BOOLEAN, Load(open) PROVE NetInv'
  BY <1>10, LoadKeeps
<1>11. CASE UNCHANGED netVars
  <2>1. UNCHANGED <<want, applied, state, bouncing, minEpoch, evidence, ran, todo, lane, emu, opts, epoch, link,
                    connected, wasUp, loaded, events>>
    BY <1>11 DEF netVars, ui, core
  <2>2. Typed'
    BY <2>1 DEF NetInv, Typed
  <2>3. Sending' /\ Numbers(Pending, epoch, minEpoch)'
    BY <2>1 DEF NetInv, Sending, Numbers, Pending
  <2>4. Dated' /\ Closing' /\ UpIsThisSession'
    BY <2>1 DEF NetInv, Dated, Closing, UpIsThisSession
  <2> QED BY <2>2, <2>3, <2>4 DEF NetInv
<1> QED
  BY <1>1, <1>2, <1>3, <1>4, <1>5, <1>6, <1>7, <1>8, <1>9, <1>10, <1>11 DEF NetNext

\* A bounce ends with the endpoint it was for only once the link is closed.
LEMMA BounceEnds ==
    ASSUME NetInv, [NetNext]_netVars, bouncing, ~bouncing', want' = want
    PROVE  link.mode = "disabled"
<1>1. ASSUME NEW s \in Settings, Start(s) PROVE link.mode = "disabled"
  <2>1. bouncing' # TRUE
    OBVIOUS
  <2>2. (applied \in {Off, s} \/ ~loaded) /\ want' = s
    BY <1>1, <2>1 DEF Start, ApplyNow
  <2>3. applied \notin {Off, want}
    BY DEF NetInv, Closing
  <2> QED BY <2>2, <2>3 DEF NetInv, Closing
<1>2. CASE Stop
  <2>1. want' = Off /\ want # Off
    BY <1>2 DEF Stop
  <2> QED BY <2>1
<1>3. CASE AfterFrame
  <2>1. ran >= 3 /\ ran \in Nat
    BY <1>3 DEF AfterFrame, bounceNeed, NetInv, Typed
  <2>2. ran >= 2
    BY <2>1
  <2> QED BY <2>2 DEF NetInv, Closing
<1>4. CASE Post \/ Pin \/ Drain \/ NoFrame \/ BeginFrame \/ EndFrame \/ (\E open \in BOOLEAN : Load(open)) \/ UNCHANGED netVars
  <2>1. bouncing' = bouncing
    <3>1. Post => bouncing' = bouncing
      BY DEF Post, ui
    <3>2. Pin => bouncing' = bouncing
      BY DEF Pin
    <3>3. Drain => bouncing' = bouncing
      BY DEF Drain, ui
    <3>4. NoFrame \/ BeginFrame \/ EndFrame => bouncing' = bouncing
      BY DEF NoFrame, BeginFrame, EndFrame, ui
    <3>5. (\E open \in BOOLEAN : Load(open)) => bouncing' = bouncing
      BY DEF Load, ui
    <3>6. UNCHANGED netVars => bouncing' = bouncing
      BY DEF netVars, ui
    <3> QED BY <1>4, <3>1, <3>2, <3>3, <3>4, <3>5, <3>6
  <2> QED BY <2>1
<1> QED BY <1>1, <1>2, <1>3, <1>4 DEF NetNext

LEMMA Always == NetSpec => []NetInv
<1> QED BY InitHolds, NextKeeps, PTL DEF NetSpec

\* Link control holds what its code can hold, and the core's number is never ahead of
\* the window's.
THEOREM NetplayTypeOK == NetSpec => []NetTypeOK
<1>1. NetInv => NetTypeOK
  <2> SUFFICES ASSUME NetInv PROVE NetTypeOK
    OBVIOUS
  <2>1. epoch \in 0 .. minEpoch
    BY DEF NetInv, Typed, Numbers
  <2>2. \A i \in DOMAIN events : events[i].kind \in {"up", "down", "open", "noise"}
    <3>1. \A i \in DOMAIN events : events[i] \in Said
      BY DEF NetInv, Typed
    <3> QED BY <3>1 DEF Said
  <2> QED BY <2>1, <2>2, OptionsAre DEF NetInv, Typed, NetTypeOK
<1> QED BY <1>1, Always, PTL

\* "A LINK_UP from the previous session must not mark the new one up" (netplay_test.cpp),
\* for any number of calls, reloads, edges and log lines: Up is shown only on the word of
\* a core that had the options of the session shown.
THEOREM UpIsThisSessionAlways == NetSpec => []UpIsThisSession
<1>1. NetInv => UpIsThisSession
  BY DEF NetInv
<1> QED BY <1>1, Always, PTL

\* netplay.cpp, afterFrame: the new endpoint is sent only when the core has closed the
\* link to the old one.
THEOREM BounceClosesLinkAlways == NetSpec => BounceClosesLink
<1>1. NetInv /\ [NetNext]_netVars => [bouncing /\ ~bouncing' /\ want' = want => link.mode = "disabled"]_netVars
  BY BounceEnds
<1> QED BY <1>1, Always, PTL DEF NetSpec, BounceClosesLink
=============================================================================
