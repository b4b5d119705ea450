--------------------------- MODULE HandOverProofs ---------------------------
(***************************************************************************)
(* The picture hand-over for any number of games, pictures, events and     *)
(* calls: no slot is written while it is read, no picture of an earlier    *)
(* game is on the screen, pictures never go back, and an input event is    *)
(* timed only when a picture made with it is shown.                        *)
(***************************************************************************)
EXTENDS HandOver, SequenceTheorems, TLAPS

\* The three indices are three different slots, and only the slot being filled
\* holds pixels of two frames.
Exclusive ==
    /\ TypeOK
    /\ write # read /\ ready # write /\ ready # read
    /\ \A i \in Slots : slots[i].whole \/ (i = write /\ emu = "fill")

LEMMA ExclusiveInit == Init => Exclusive
<1> SUFFICES ASSUME Init PROVE Exclusive
  OBVIOUS
<1>1. Nothing \in Pictures
  BY DEF Nothing, Pictures
<1>2. slots \in [Slots -> [epoch : Nat, pic : Pictures, whole : BOOLEAN]]
  BY <1>1 DEF Init
<1>3. \A i \in Slots : slots[i].whole
  BY DEF Init
<1>4. {ready, write, read} \subseteq Slots
  BY DEF Init, Slots
<1>5. TypeOK
  BY <1>1, <1>2, <1>4 DEF Init, TypeOK
<1> QED BY <1>3, <1>5 DEF Exclusive, Init

\* An emulation-thread step keeps the slots apart: the writer fills its own slot
\* and exchanges it only when it is whole.
LEMMA ExclusiveEmu ==
  ASSUME Exclusive, EmuStep
  PROVE  Exclusive'
<1> USE DEF Exclusive, TypeOK, exchange, input, display
<1>1. CASE Poll
  BY <1>1 DEF Poll
<1>2. CASE Emulate
  <2>1. frame' \in Pictures /\ serial' \in Nat
    BY <1>2 DEF Emulate, Pictures
  <2> QED BY <1>2, <2>1 DEF Emulate
<1>3. CASE WriteBuffer
  BY <1>3 DEF WriteBuffer, core
<1>4. CASE Fill
  <2>1. slots' \in [Slots -> [epoch : Nat, pic : Pictures, whole : BOOLEAN]]
    BY <1>4 DEF Fill
  <2>2. \A i \in Slots : i # write => slots'[i] = slots[i]
    BY <1>4 DEF Fill
  <2>3. slots'[write].whole \/ emu' = "fill"
    BY <1>4 DEF Fill
  <2>4. emu' \in {"fill", "publish"} /\ emu = "fill"
    BY <1>4 DEF Fill
  <2> QED BY <1>4, <2>1, <2>2, <2>3, <2>4 DEF Fill, core
<1>5. CASE Publish
  <2>1. frame.serial \in Nat
    BY DEF Pictures
  <2> QED BY <1>5, <2>1 DEF Publish
<1>6. CASE Open
  BY <1>6 DEF Open, Nothing, Pictures
<1>7. CASE Close
  BY <1>7 DEF Close
<1> QED BY <1>1, <1>2, <1>3, <1>4, <1>5, <1>6, <1>7 DEF EmuStep

\* A UI-thread step keeps them apart: the reader exchanges a slot that is whole.
LEMMA ExclusiveUi ==
  ASSUME Exclusive, UiStep \/ PublishInput \/ \E c \in Games \cup {"close"} : Request(c)
  PROVE  Exclusive'
<1> USE DEF Exclusive, TypeOK, exchange, input, core, display
<1>1. CASE AdoptFrameEpoch
  BY <1>1 DEF AdoptFrameEpoch
<1>2. CASE TakeLook
  BY <1>2 DEF TakeLook
<1>3. CASE TakeExchange
  BY <1>3 DEF TakeExchange
<1>4. CASE TakeVerify
  BY <1>4 DEF TakeVerify
<1>5. CASE Upload
  BY <1>5 DEF Upload
<1>6. CASE NotePresented
  BY <1>6 DEF NotePresented
<1>7. CASE PublishInput
  <2>1. PICK motion \in {0, 1} : latest' = latest + motion /\ moved' = moved + motion
    BY <1>7 DEF PublishInput
  <2>2. seq' = seq + 1
    BY <1>7 DEF PublishInput
  <2>3. latest' \in Nat /\ moved' \in Nat /\ seq' \in Nat
    BY <2>1, <2>2
  <2>4. UNCHANGED <<slots, ready, isNew, write, read, epoch, game, serial, frame, lastSent,
                    emuSeq, got, screen, visible, shownEpoch, emu, ui, call, calls>>
    BY <1>7 DEF PublishInput
  <2> QED BY <2>3, <2>4
<1>8. ASSUME NEW c \in Games \cup {"close"}, Request(c) PROVE Exclusive'
  BY <1>8 DEF Request
<1> QED BY <1>1, <1>2, <1>3, <1>4, <1>5, <1>6, <1>7, <1>8 DEF UiStep

LEMMA ExclusiveNext == Exclusive /\ [Next]_vars => Exclusive'
<1>1. Exclusive /\ UNCHANGED vars => Exclusive'
  BY DEF Exclusive, TypeOK, vars, exchange, input, core, display
<1> QED BY <1>1, ExclusiveEmu, ExclusiveUi DEF Next

\* No tearing, for every run of the two threads.
THEOREM NoTearingAlways == Spec => []NoTearing
<1>1. Exclusive => NoTearing
  BY DEF Exclusive, NoTearing, TypeOK
<1> QED BY <1>1, ExclusiveInit, ExclusiveNext, PTL DEF Spec

------------------------------------------------------------------------------

\* A slot stamped with the current epoch, once filled, shows the game that is
\* loaded; so does the picture about to be handed over; and between frames the
\* core's picture is one that was handed over.
Fresh(i) == slots[i].epoch = epoch /\ (i # write \/ emu = "publish")
SameGame ==
    /\ \A i \in Slots : slots[i].epoch <= epoch
    /\ \A i \in Slots : Fresh(i) => slots[i].pic.game = game
    /\ emu = "publish" => slots[write].pic.game = game
    /\ emu \in {"stamp", "fill", "publish"} => frame.game = game
    /\ emu \in {"between", "running"} => frame = Nothing \/ frame.serial = lastSent
    /\ call # NoGame => ui = "waiting"
    /\ ui # "waiting" => shownEpoch = epoch
    /\ shownEpoch <= epoch
    /\ ui = "upload" => slots[read].epoch = epoch
    /\ visible /\ shownEpoch = epoch => screen.game = game

LEMMA SameGameInit == Init => SameGame
<1> SUFFICES ASSUME Init PROVE SameGame
  OBVIOUS
<1>1. \A i \in Slots : slots[i].epoch = 0 /\ slots[i].pic.game = game
  BY DEF Init, Nothing
<1> QED BY <1>1 DEF Init, SameGame, Fresh, Slots

\* Only a call moves the epoch or the game, and it leaves no slot with the new
\* stamp.
LEMMA SameGameEmu ==
  ASSUME Exclusive, SameGame, EmuStep
  PROVE  SameGame'
<1> USE DEF SameGame, Fresh, Exclusive, TypeOK, exchange, input, display
<1>1. CASE Poll
  BY <1>1 DEF Poll
<1>2. CASE Emulate
  <2>1. emu = "running" /\ UNCHANGED <<slots, write, epoch, read, game, lastSent, call, ui, shownEpoch,
                                       visible, screen>>
    BY <1>2 DEF Emulate
  <2>2. emu' = "stamp" => frame'.game = game
    BY <1>2 DEF Emulate
  <2>3. emu' = "between" => frame' = Nothing \/ frame'.serial = lastSent
    BY <1>2 DEF Emulate
  <2>4. emu' \in {"stamp", "between"}
    BY <1>2 DEF Emulate
  <2> QED BY <2>1, <2>2, <2>3, <2>4
<1>3. CASE WriteBuffer
  BY <1>3 DEF WriteBuffer, core
<1>4. CASE Fill
  <2>1. \A i \in Slots : slots'[i].epoch = slots[i].epoch /\ (i # write => slots'[i] = slots[i])
    BY <1>4 DEF Fill
  <2>2. slots'[write].pic = frame /\ emu = "fill" /\ emu' \in {"fill", "publish"}
    BY <1>4 DEF Fill
  <2>3. UNCHANGED <<write, epoch, read, game, lastSent, frame, call, ui, shownEpoch, visible, screen>>
    BY <1>4 DEF Fill, core
  <2>4. \A i \in Slots : Fresh(i)' => slots'[i].pic.game = game
    BY <2>1, <2>2, <2>3
  <2> QED BY <2>1, <2>2, <2>3, <2>4
<1>5. CASE Publish
  BY <1>5 DEF Publish
<1>6. CASE Open
  BY <1>6, HandOverAssumption DEF Open
<1>7. CASE Close
  BY <1>7, HandOverAssumption DEF Close
<1> QED BY <1>1, <1>2, <1>3, <1>4, <1>5, <1>6, <1>7 DEF EmuStep

LEMMA SameGameUi ==
  ASSUME Exclusive, SameGame, UiStep \/ PublishInput \/ \E c \in Games \cup {"close"} : Request(c)
  PROVE  SameGame'
<1> USE DEF SameGame, Fresh, Exclusive, TypeOK, exchange, input, core, display
<1>1. CASE AdoptFrameEpoch
  <2>1. visible' => visible /\ epoch = shownEpoch
    BY <1>1 DEF AdoptFrameEpoch
  <2>2. UNCHANGED <<slots, write, read, epoch, emu, game, lastSent, frame, call, screen>>
    BY <1>1 DEF AdoptFrameEpoch
  <2>3. shownEpoch' = epoch /\ ui' \in {"take", "loop"} /\ call = NoGame
    BY <1>1 DEF AdoptFrameEpoch
  <2> QED BY <2>1, <2>2, <2>3
<1>2. CASE TakeLook
  BY <1>2 DEF TakeLook
<1>3. CASE TakeExchange
  BY <1>3 DEF TakeExchange
<1>4. CASE TakeVerify
  BY <1>4 DEF TakeVerify
<1>5. CASE Upload
  BY <1>5 DEF Upload
<1>6. CASE NotePresented
  BY <1>6 DEF NotePresented
<1>7. CASE PublishInput
  <2>1. UNCHANGED <<exchange, core, screen, visible, shownEpoch, emu, ui, call>>
    BY <1>7 DEF PublishInput
  <2> QED BY <2>1
<1>8. ASSUME NEW c \in Games \cup {"close"}, Request(c) PROVE SameGame'
  BY <1>8 DEF Request
<1> QED BY <1>1, <1>2, <1>3, <1>4, <1>5, <1>6, <1>7, <1>8 DEF UiStep

LEMMA SameGameNext == Exclusive /\ SameGame /\ [Next]_vars => SameGame'
<1>1. Exclusive /\ SameGame /\ UNCHANGED vars => SameGame'
  BY DEF SameGame, Fresh, vars, exchange, input, core, display
<1> QED BY <1>1, SameGameEmu, SameGameUi DEF Next

\* The picture on the screen is one of the game that is loaded, for every run of
\* the two threads.
THEOREM PictureOfThisGameAlways == Spec => []PictureOfThisGame
<1>1. SameGame => PictureOfThisGame
  BY DEF SameGame, PictureOfThisGame
<1> QED BY <1>1, ExclusiveInit, ExclusiveNext, SameGameInit, SameGameNext, PTL DEF Spec

------------------------------------------------------------------------------

\* Pictures on their way, oldest first: the screen, the slot taken, the hand-over
\* slot, the last one sent, the one being filled.
InOrder ==
    /\ screen.serial <= lastSent /\ lastSent <= serial
    /\ frame = Nothing \/ frame.serial <= serial
    /\ emu \in {"stamp", "fill", "publish"} => lastSent < frame.serial
    /\ emu \in {"between", "running"} => frame = Nothing \/ frame.serial = lastSent
    /\ emu = "publish" => slots[write].pic = frame
    /\ isNew => /\ slots[ready].pic.serial = lastSent
                /\ screen.serial < lastSent
    /\ ui = "exchange" => isNew
    /\ ui \in {"verify", "upload"} => /\ screen.serial < slots[read].pic.serial
                                      /\ slots[read].pic.serial <= lastSent
                                      /\ isNew => slots[read].pic.serial < lastSent

LEMMA InOrderInit == Init => InOrder
  BY DEF Init, InOrder, Nothing

LEMMA InOrderEmu ==
  ASSUME Exclusive, InOrder, EmuStep
  PROVE  InOrder'
<1> USE DEF InOrder, Exclusive, TypeOK, Pictures, exchange, input, display
<1>1. CASE Poll
  BY <1>1 DEF Poll
<1>2. CASE Emulate
  <2>1. emu = "running" /\ UNCHANGED <<slots, ready, isNew, write, read, lastSent, ui, screen>>
    BY <1>2 DEF Emulate
  <2>2. CASE UNCHANGED <<serial, frame>>
    BY <1>2, <2>1, <2>2 DEF Emulate
  <2>3. CASE serial' = serial + 1 /\ frame'.serial = serial + 1
    BY <1>2, <2>1, <2>3 DEF Emulate, Nothing
  <2> QED BY <1>2, <2>2, <2>3 DEF Emulate
<1>3. CASE WriteBuffer
  BY <1>3 DEF WriteBuffer, core
<1>4. CASE Fill
  <2>1. \A i \in Slots : i # write => slots'[i] = slots[i]
    BY <1>4 DEF Fill
  <2>2. slots'[write].pic = frame /\ emu = "fill" /\ emu' \in {"fill", "publish"}
    BY <1>4 DEF Fill
  <2>3. UNCHANGED <<ready, isNew, write, read, lastSent, serial, frame, ui, screen>>
    BY <1>4 DEF Fill, core
  <2> QED BY <2>1, <2>2, <2>3
<1>5. CASE Publish
  <2>1. lastSent < frame.serial /\ slots[write].pic = frame
    BY <1>5 DEF Publish
  <2>2. frame.serial <= serial
    BY <2>1 DEF Nothing
  <2>3. ready' = write /\ isNew' /\ lastSent' = frame.serial /\ emu' = "between"
    BY <1>5 DEF Publish
  <2>4. UNCHANGED <<slots, read, screen, ui, frame, serial>>
    BY <1>5 DEF Publish
  <2> QED BY <2>1, <2>2, <2>3, <2>4
<1>6. CASE Open
  BY <1>6 DEF Open
<1>7. CASE Close
  BY <1>7 DEF Close
<1> QED BY <1>1, <1>2, <1>3, <1>4, <1>5, <1>6, <1>7 DEF EmuStep

LEMMA InOrderUi ==
  ASSUME Exclusive, InOrder, UiStep \/ PublishInput \/ \E c \in Games \cup {"close"} : Request(c)
  PROVE  InOrder' /\ (screen' # screen => screen'.serial > screen.serial)
<1> USE DEF InOrder, Exclusive, TypeOK, Pictures, exchange, input, core, display
<1>1. CASE AdoptFrameEpoch
  BY <1>1 DEF AdoptFrameEpoch
<1>2. CASE TakeLook
  BY <1>2 DEF TakeLook
<1>3. CASE TakeExchange
  BY <1>3 DEF TakeExchange
<1>4. CASE TakeVerify
  BY <1>4 DEF TakeVerify
<1>5. CASE Upload
  BY <1>5 DEF Upload
<1>6. CASE NotePresented
  BY <1>6 DEF NotePresented
<1>7. CASE PublishInput
  <2>1. UNCHANGED <<exchange, core, screen, emu, ui>>
    BY <1>7 DEF PublishInput
  <2> QED BY <2>1
<1>8. ASSUME NEW c \in Games \cup {"close"}, Request(c)
      PROVE  InOrder' /\ UNCHANGED screen
  BY <1>8 DEF Request
<1> QED BY <1>1, <1>2, <1>3, <1>4, <1>5, <1>6, <1>7, <1>8 DEF UiStep

LEMMA InOrderNext ==
  ASSUME Exclusive, InOrder, [Next]_vars
  PROVE  InOrder' /\ (screen' # screen => screen'.serial > screen.serial)
<1>1. CASE EmuStep
  <2>1. UNCHANGED screen
    BY <1>1 DEF EmuStep, Poll, Emulate, WriteBuffer, Fill, Publish, Open, Close, display
  <2> QED BY <1>1, <2>1, InOrderEmu
<1>2. CASE UNCHANGED vars
  BY <1>2 DEF InOrder, vars, exchange, core, display
<1> QED BY <1>1, <1>2, InOrderUi DEF Next

\* What is uploaded is newer than all that was uploaded before.
THEOREM NeverBackwardsAlways == Spec => NeverBackwards
<1>1. Exclusive /\ InOrder /\ [Next]_vars => InOrder'
  BY InOrderNext
<1>2. Exclusive /\ InOrder /\ [Next]_vars => [screen' # screen => screen'.serial > screen.serial]_vars
  BY InOrderNext
<1> QED BY <1>1, <1>2, ExclusiveInit, ExclusiveNext, InOrderInit, PTL DEF Spec, NeverBackwards
------------------------------------------------------------------------------

\* A picture that carries the input number s, of n published, was given the motion g:
\* that covers every event up to s in the queue q.
Covers(s, g, n, q) ==
    s <= n /\ \A i \in 1 .. Len(q) : q[i].seq <= s => q[i].moved <= g

Events == [seq : Nat \ {0}, moved : Nat]

\* Every picture, wherever it is, and the core's own input numbers cover the queue.
Credited ==
    /\ queue \in Seq(Events)
    /\ got + latest = moved
    /\ \A i \in 1 .. Len(queue) : queue[i].moved <= moved
    /\ Covers(emuSeq, got, seq, queue)
    /\ Covers(frame.seq, frame.got, seq, queue) /\ Covers(screen.seq, screen.got, seq, queue)
    /\ \A i \in Slots : Covers(slots[i].pic.seq, slots[i].pic.got, seq, queue)

\* An event is a number and an amount of motion.
LEMMA EventTypes ==
  ASSUME NEW q \in Seq(Events)
  PROVE  Len(q) \in Nat /\ \A i \in 1 .. Len(q) : q[i].seq \in Nat \ {0} /\ q[i].moved \in Nat
<1>1. \A i \in 1 .. Len(q) : q[i] \in Events
  OBVIOUS
<1> QED BY <1>1 DEF Events

LEMMA CreditedInit == Init => Credited
  BY DEF Init, Credited, Covers, Nothing, Slots

\* Events that leave the queue leave it covered.
LEMMA FewerCovered ==
  ASSUME NEW q \in Seq(Events), NEW r \in Seq(Events),
         \A i \in 1 .. Len(r) : \E j \in 1 .. Len(q) : r[i] = q[j],
         NEW s, NEW g, NEW n, Covers(s, g, n, q)
  PROVE  Covers(s, g, n, r)
  BY DEF Covers

\* An event published now has a number no picture carries yet.
LEMMA OneMoreCovered ==
  ASSUME NEW q \in Seq(Events), NEW e \in Events, NEW s \in Nat, NEW g \in Nat, NEW n \in Nat,
         e.seq = n + 1, Covers(s, g, n, q)
  PROVE  Covers(s, g, n + 1, Append(q, e))
<1>1. Len(Append(q, e)) = Len(q) + 1 /\ Len(q) \in Nat
  OBVIOUS
<1>2. \A i \in 1 .. Len(q) : Append(q, e)[i] = q[i]
  OBVIOUS
<1>3. Append(q, e)[Len(q) + 1] = e
  OBVIOUS
<1>4. ASSUME NEW i \in 1 .. Len(Append(q, e)), Append(q, e)[i].seq <= s
      PROVE  Append(q, e)[i].moved <= g
  <2>1. CASE i = Len(q) + 1
    BY <1>3, <1>4, <2>1 DEF Covers
  <2>2. CASE i \in 1 .. Len(q)
    BY <1>2, <1>4, <2>2 DEF Covers
  <2> QED BY <1>1, <2>1, <2>2
<1> QED BY <1>4 DEF Covers

\* A frame is given all motion up to the last event published, and its picture
\* carries both numbers from the core to the screen.
LEMMA CreditedEmu ==
  ASSUME Exclusive, Credited, EmuStep
  PROVE  Credited'
<1> USE DEF Credited, Exclusive, TypeOK, exchange, input, display
<1>1. CASE Poll
  <2>1. /\ emuSeq' = seq /\ got' = got + latest /\ latest' = 0
        /\ UNCHANGED <<slots, seq, moved, frame, screen, queue>>
    BY <1>1 DEF Poll
  <2>2. Covers(emuSeq', got', seq', queue')
    BY <2>1 DEF Covers
  <2>3. got' + latest' = moved'
    BY <2>1
  <2> QED BY <2>1, <2>2, <2>3
<1>2. CASE Emulate
  <2>1. UNCHANGED <<slots, seq, latest, moved, emuSeq, got, screen, queue>>
    BY <1>2 DEF Emulate
  <2>2. frame' = frame \/ (frame'.seq = emuSeq /\ frame'.got = got)
    BY <1>2 DEF Emulate
  <2>3. Covers(frame'.seq, frame'.got, seq, queue)
    BY <2>2
  <2> QED BY <2>1, <2>3
<1>3. CASE WriteBuffer
  <2>1. UNCHANGED <<seq, latest, moved, emuSeq, got, frame, screen, queue>>
    BY <1>3 DEF WriteBuffer, core
  <2>2. \A i \in Slots : slots'[i].pic = slots[i].pic
    BY <1>3 DEF WriteBuffer
  <2> QED BY <2>1, <2>2
<1>4. CASE Fill
  <2>1. UNCHANGED <<seq, latest, moved, emuSeq, got, frame, screen, queue>>
    BY <1>4 DEF Fill, core
  <2>2. \A i \in Slots : slots'[i].pic = slots[i].pic \/ slots'[i].pic = frame
    BY <1>4 DEF Fill
  <2>3. \A i \in Slots : Covers(slots'[i].pic.seq, slots'[i].pic.got, seq, queue)
    BY <2>2
  <2> QED BY <2>1, <2>3
<1>5. CASE Publish
  <2>1. UNCHANGED <<slots, seq, latest, moved, emuSeq, got, frame, screen, queue>>
    BY <1>5 DEF Publish
  <2> QED BY <2>1
<1>6. CASE Open
  <2>1. UNCHANGED <<slots, seq, latest, moved, emuSeq, got, screen, queue>> /\ frame' = Nothing
    BY <1>6 DEF Open
  <2>2. Covers(frame'.seq, frame'.got, seq, queue)
    <3>1. \A i \in 1 .. Len(queue) : ~(queue[i].seq <= 0)
      <4>1. queue \in Seq(Events)
        OBVIOUS
      <4> HIDE DEF Exclusive, TypeOK, Credited
      <4> QED BY <4>1, EventTypes
    <3> QED BY <2>1, <3>1 DEF Covers, Nothing
  <2> QED BY <2>1, <2>2
<1>7. CASE Close
  <2>1. UNCHANGED <<slots, seq, latest, moved, emuSeq, got, frame, screen, queue>>
    BY <1>7 DEF Close
  <2> QED BY <2>1
<1> QED BY <1>1, <1>2, <1>3, <1>4, <1>5, <1>6, <1>7 DEF EmuStep

\* The queue gets an event with a new number, or loses events; a picture uploaded
\* was one of the covering ones.
LEMMA CreditedUi ==
  ASSUME Exclusive, Credited, UiStep \/ PublishInput \/ \E c \in Games \cup {"close"} : Request(c)
  PROVE  Credited'
<1> USE DEF Credited, Exclusive, TypeOK, exchange, input, core, display
<1>1. CASE AdoptFrameEpoch
  BY <1>1 DEF AdoptFrameEpoch
<1>2. CASE TakeLook
  BY <1>2 DEF TakeLook
<1>3. CASE TakeExchange
  BY <1>3 DEF TakeExchange
<1>4. CASE TakeVerify
  BY <1>4 DEF TakeVerify
<1>5. CASE Upload
  BY <1>5 DEF Upload
<1>6. CASE NotePresented
  <2>1. PICK n \in 0 .. Len(queue) : queue' = SubSeq(queue, n + 1, Len(queue))
    BY <1>6 DEF NotePresented
  <2>2. UNCHANGED <<slots, seq, latest, moved, emuSeq, got, frame, screen>>
    BY <1>6 DEF NotePresented
  <2>3. /\ queue' \in Seq(Events) /\ Len(queue') = Len(queue) - n
        /\ \A i \in 1 .. Len(queue') : queue'[i] = queue[n + i] /\ n + i \in 1 .. Len(queue)
    <3>1. /\ Len(queue) \in Nat /\ n \in Nat /\ n <= Len(queue)
          /\ \A i \in n + 1 .. Len(queue) : queue[i] \in Events
      <4>1. queue \in Seq(Events)
        OBVIOUS
      <4> HIDE DEF Exclusive, TypeOK, Credited
      <4> QED BY <4>1, <2>1
    <3> HIDE DEF Exclusive, TypeOK, Credited
    <3> DEFINE left == SubSeq(queue, n + 1, Len(queue))
    <3>2. /\ left \in Seq(Events)
          /\ Len(left) = IF n + 1 <= Len(queue) THEN Len(queue) - (n + 1) + 1 ELSE 0
          /\ \A i \in 1 .. Len(queue) - (n + 1) + 1 : left[i] = queue[(n + 1) + i - 1]
      BY <3>1, SubSeqProperties
    <3> HIDE DEF left
    <3>3. Len(left) = Len(queue) - n
      <4>1. CASE n = Len(queue)
        BY <4>1, <3>1, <3>2
      <4>2. CASE n < Len(queue)
        BY <4>2, <3>1, <3>2
      <4> QED BY <3>1, <4>1, <4>2
    <3>4. \A i \in 1 .. Len(left) : left[i] = queue[n + i] /\ n + i \in 1 .. Len(queue)
      <4> SUFFICES ASSUME NEW i \in 1 .. Len(queue) - n
                   PROVE  left[i] = queue[n + i] /\ n + i \in 1 .. Len(queue)
        BY <3>3
      <4>1. i \in 1 .. Len(queue) - (n + 1) + 1 /\ (n + 1) + i - 1 = n + i
        BY <3>1
      <4> QED BY <3>1, <3>2, <4>1
    <3> QED BY <2>1, <3>2, <3>3, <3>4 DEF left
  <2>4. \A i \in 1 .. Len(queue') : \E j \in 1 .. Len(queue) : queue'[i] = queue[j]
    BY <2>3
  <2> DEFINE Kept(s, g) == Covers(s, g, seq, queue) => Covers(s, g, seq, queue')
  <2>5. \A s, g : Kept(s, g)
    BY <2>3, <2>4, FewerCovered
  <2>6. \A i \in 1 .. Len(queue') : queue'[i].moved <= moved
    BY <2>4
  <2> QED BY <2>2, <2>3, <2>5, <2>6
<1>7. CASE PublishInput
  <2>1. PICK motion \in {0, 1} : latest' = latest + motion /\ moved' = moved + motion
    BY <1>7 DEF PublishInput
  <2> DEFINE old == IF Len(queue) >= QueueLimit THEN Tail(queue) ELSE queue
             e == [seq |-> seq + 1, moved |-> moved']
  <2>2. /\ seq' = seq + 1 /\ queue' = Append(old, e)
        /\ UNCHANGED <<slots, emuSeq, got, frame, screen>>
    BY <1>7 DEF PublishInput
  <2>3. old \in Seq(Events) /\ \A i \in 1 .. Len(old) : \E j \in 1 .. Len(queue) : old[i] = queue[j]
    <3>1. CASE Len(queue) >= QueueLimit
      <4>1. Len(queue) > 0
        BY <3>1, HandOverAssumption
      <4>2. /\ Tail(queue) \in Seq(Events) /\ Len(Tail(queue)) = Len(queue) - 1
            /\ \A i \in 1 .. Len(queue) - 1 : Tail(queue)[i] = queue[i + 1]
        BY <4>1
      <4> QED BY <3>1, <4>1, <4>2
    <3>2. CASE ~(Len(queue) >= QueueLimit)
      BY <3>2
    <3> QED BY <3>1, <3>2
  <2>4. moved' \in Nat /\ moved <= moved' /\ got' + latest' = moved'
    <3>1. moved \in Nat /\ latest \in Nat /\ got \in Nat /\ got + latest = moved
      OBVIOUS
    <3>2. got' = got /\ latest' = latest + motion /\ moved' = moved + motion /\ motion \in Nat
      BY <2>1, <2>2
    <3> HIDE DEF Exclusive, TypeOK, Credited
    <3> QED BY <3>1, <3>2
  <2>5. e \in Events /\ e.seq = seq + 1 /\ e.moved = moved'
    BY <2>4 DEF Events
  <2> HIDE DEF old, e
  <2>6. ASSUME NEW s \in Nat, NEW g \in Nat, Covers(s, g, seq, queue)
        PROVE  Covers(s, g, seq', queue')
    <3>1. Covers(s, g, seq, old)
      BY <2>3, <2>6, FewerCovered
    <3>2. Covers(s, g, seq + 1, Append(old, e))
      BY <2>3, <2>5, <3>1, OneMoreCovered
    <3> QED BY <2>2, <3>2
  <2>7. queue' \in Seq(Events) /\ \A i \in 1 .. Len(queue') : queue'[i].moved <= moved'
    <3>1. /\ Append(old, e) \in Seq(Events) /\ Len(Append(old, e)) = Len(old) + 1
          /\ Append(old, e)[Len(old) + 1] = e
          /\ \A i \in 1 .. Len(old) : Append(old, e)[i] = old[i]
      BY <2>3, <2>5
    <3>2. ASSUME NEW i \in 1 .. Len(old) PROVE old[i].moved <= moved'
      <4>1. PICK j \in 1 .. Len(queue) : old[i] = queue[j]
        BY <2>3
      <4>2. queue[j].moved \in Nat /\ queue[j].moved <= moved
        BY EventTypes
      <4>3. moved \in Nat
        OBVIOUS
      <4> HIDE DEF Exclusive, TypeOK, Credited
      <4> QED BY <2>4, <4>1, <4>2, <4>3
    <3>3. ASSUME NEW i \in 1 .. Len(old) + 1 PROVE Append(old, e)[i].moved <= moved'
      <4> HIDE DEF Exclusive, TypeOK, Credited
      <4>1. CASE i = Len(old) + 1
        <5>1. Append(old, e)[i] = e /\ moved' <= moved'
          BY <2>4, <3>1, <4>1
        <5> QED BY <2>5, <5>1
      <4>2. CASE i \in 1 .. Len(old)
        BY <3>1, <3>2, <4>2
      <4> QED BY <2>3, <4>1, <4>2
    <3> QED BY <2>2, <3>1, <3>3
  <2>8. /\ {frame.seq, frame.got, screen.seq, screen.got} \subseteq Nat
        /\ \A i \in Slots : slots[i].pic.seq \in Nat /\ slots[i].pic.got \in Nat
    BY DEF Pictures
  <2>9. /\ Covers(emuSeq', got', seq', queue') /\ Covers(frame'.seq, frame'.got, seq', queue')
        /\ Covers(screen'.seq, screen'.got, seq', queue')
    BY <2>2, <2>6, <2>8
  <2>10. \A i \in Slots : Covers(slots'[i].pic.seq, slots'[i].pic.got, seq', queue')
    BY <2>2, <2>6, <2>8
  <2> QED BY <2>4, <2>7, <2>9, <2>10
<1>8. ASSUME NEW c \in Games \cup {"close"}, Request(c) PROVE Credited'
  BY <1>8 DEF Request
<1> QED BY <1>1, <1>2, <1>3, <1>4, <1>5, <1>6, <1>7, <1>8 DEF UiStep

LEMMA CreditedNext == Exclusive /\ Credited /\ [Next]_vars => Credited'
<1>1. Exclusive /\ Credited /\ UNCHANGED vars => Credited'
  BY DEF Credited, vars, exchange, input, core, display
<1> QED BY <1>1, CreditedEmu, CreditedUi DEF Next

\* Only notePresented times events, and what it pops the shown picture covers.
LEMMA TimedCovered ==
  ASSUME Exclusive, Credited, Next
  PROVE  \A e \in timed' \ timed : screen.got >= e.moved
<1>1. CASE NotePresented
  <2>1. PICK n \in 0 .. Len(queue) : /\ \A i \in 1 .. n : queue[i].seq <= screen.seq
                                     /\ timed' = timed \cup {queue[i] : i \in 1 .. n}
    BY <1>1 DEF NotePresented
  <2>2. \A i \in 1 .. n : queue[i].moved <= screen.got /\ queue[i].moved \in Nat /\ screen.got \in Nat
    <3>1. queue \in Seq(Events) /\ Covers(screen.seq, screen.got, seq, queue) /\ screen.got \in Nat
      BY DEF Credited, Exclusive, TypeOK, Pictures
    <3>2. \A i \in 1 .. n : i \in 1 .. Len(queue)
      BY <3>1, EventTypes
    <3> QED BY <2>1, <3>1, <3>2, EventTypes DEF Covers
  <2> QED BY <2>1, <2>2
<1>2. CASE EmuStep
  BY <1>2 DEF EmuStep, Poll, Emulate, WriteBuffer, Fill, Publish, Open, Close, display
<1>3. CASE PublishInput \/ \E c \in Games \cup {"close"} : Request(c)
  BY <1>3 DEF PublishInput, Request, display
<1>4. CASE AdoptFrameEpoch \/ TakeLook \/ TakeExchange \/ TakeVerify \/ Upload
  BY <1>4 DEF AdoptFrameEpoch, TakeLook, TakeExchange, TakeVerify, Upload, display
<1> QED BY <1>1, <1>2, <1>3, <1>4 DEF Next, UiStep

\* An event is timed as shown only when the picture on the screen was emulated with
\* all the motion made up to it, however many pictures and events were dropped.
THEOREM TimedWhenShownAlways == Spec => TimedWhenShown
<1>1. Exclusive /\ Credited /\ [Next]_vars =>
        [\A e \in timed' \ timed : screen.got >= e.moved]_vars
  BY TimedCovered
<1> QED BY <1>1, ExclusiveInit, ExclusiveNext, CreditedInit, CreditedNext, PTL DEF Spec, TimedWhenShown

\* All motion is either given to the core or waiting for it, once.
THEOREM MotionOnceAlways == Spec => []MotionOnce
<1>1. Credited => MotionOnce
  BY DEF Credited, MotionOnce
<1> QED BY <1>1, ExclusiveInit, ExclusiveNext, CreditedInit, CreditedNext, PTL DEF Spec
=============================================================================
