------------------------------- MODULE HandOver -------------------------------
(***************************************************************************)
(* What the desktop application's two threads hand each other without      *)
(* waiting: finished pictures from the emulation thread to the UI thread   *)
(* (app/src/frame_exchange.h), input the other way                         *)
(* (app/src/input_snapshot.h), and the parts of app.cpp and core_host.cpp  *)
(* that use them.                                                          *)
(*                                                                         *)
(* A step is one atomic operation, one critical section, or the filling or *)
(* reading of one slot.  A picture is the game it shows, its serial, and   *)
(* the input its frame polled.  Opening and closing content is a call() on *)
(* the emulation thread, for which the UI thread waits (EmuThread).        *)
(***************************************************************************)
EXTENDS Naturals, Sequences

CONSTANTS
    Games,
    NoGame,
    QueueLimit,      \* presentQueue_'s length, 64 in the code
    MaxSerial,       \* bound: pictures the core makes
    MaxEvents,       \* bound: input events published
    MaxCalls         \* bound: content opened or closed

ASSUME HandOverAssumption ==
    /\ NoGame \notin Games /\ "close" \notin Games \cup {NoGame}
    /\ QueueLimit \in Nat \ {0} /\ {MaxSerial, MaxEvents, MaxCalls} \subseteq Nat

Slots == 0 .. 2

VARIABLES
    slots,           \* slots_: the stamp, the picture, and whether its pixels are all of one frame
    ready, isNew,    \* ready_: kIndex and kFresh
    write,           \* write_
    read,            \* read_
    epoch,           \* epoch_
    latest, seq,     \* InputSnapshot: the motion not taken yet, events published
    emu,             \* where the emulation thread is
    game,            \* what the core has loaded
    serial,          \* CoreHost::serial_
    frame,           \* CoreHost::frame_
    lastSent,        \* lastSentSerial_
    emuSeq,          \* emuInputSeq_
    got,             \* history: motion the core was given
    ui,              \* where the UI thread is
    call,            \* the call() it waits for
    screen, visible, \* VideoOut: the picture in the texture, and whether it is drawn
    shownEpoch,
    queue,           \* presentQueue_
    moved,           \* history: motion the user made
    timed,           \* history: events notePresented took off the queue
    calls            \* calls so far

exchange == <<slots, ready, isNew, write, read, epoch>>
input == <<latest, seq, moved>>
core == <<game, serial, frame, lastSent, emuSeq, got>>
display == <<screen, visible, shownEpoch, queue, timed>>
vars == <<exchange, input, core, display, emu, ui, call, calls>>

\* No picture yet; serial 0 is never uploaded.
Nothing == [game |-> NoGame, serial |-> 0, seq |-> 0, got |-> 0]

Init ==
    /\ slots = [i \in Slots |-> [epoch |-> 0, pic |-> Nothing, whole |-> TRUE]]
    /\ ready = 1 /\ isNew = FALSE /\ write = 0 /\ read = 2
    /\ epoch = 0
    /\ latest = 0 /\ seq = 0 /\ moved = 0
    /\ emu = "between" /\ game = NoGame /\ serial = 0 /\ frame = Nothing
    /\ lastSent = 0 /\ emuSeq = 0 /\ got = 0
    /\ ui = "loop" /\ call = NoGame /\ calls = 0
    /\ screen = Nothing /\ visible = FALSE /\ shownEpoch = 0
    /\ queue = <<>> /\ timed = {}

------------------------------------------------------------------------------
(* The emulation thread.                                                   *)

\* The core's input poll: InputSnapshot::take.
Poll ==
    /\ emu = "between" /\ game # NoGame
    /\ emu' = "running"
    /\ emuSeq' = seq
    /\ got' = got + latest /\ latest' = 0
    /\ UNCHANGED <<exchange, seq, moved, game, serial, frame, lastSent, display, ui, call, calls>>

\* retro_run makes a picture (CoreHost::videoCb), or repeats the last one.
\* emuRunOneFrame hands over only a picture it has not handed over before.
Emulate ==
    /\ emu = "running"
    /\ \/ /\ serial < MaxSerial
          /\ serial' = serial + 1
          /\ frame' = [game |-> game, serial |-> serial + 1, seq |-> emuSeq, got |-> got]
       \/ UNCHANGED <<serial, frame>>
    /\ emu' = IF frame'.serial # lastSent /\ frame' # Nothing THEN "stamp" ELSE "between"
    /\ UNCHANGED <<exchange, input, game, lastSent, emuSeq, got, display, ui, call, calls>>

\* FrameExchange::writeBuffer.
WriteBuffer ==
    /\ emu = "stamp"
    /\ slots' = [slots EXCEPT ![write].epoch = epoch]
    /\ emu' = "fill"
    /\ UNCHANGED <<ready, isNew, write, read, epoch, input, core, display, ui, call, calls>>

\* The pixels are copied: begun, then complete.
Fill ==
    /\ emu = "fill"
    /\ slots' = [slots EXCEPT ![write].pic = frame, ![write].whole = ~@]
    /\ emu' = IF slots[write].whole THEN "fill" ELSE "publish"
    /\ UNCHANGED <<ready, isNew, write, read, epoch, input, core, display, ui, call, calls>>

\* Mutant: the writer takes back the slot it has just handed over.
PublishKeepingSlot ==
    /\ emu = "publish"
    /\ ready' = write /\ isNew' = TRUE
    /\ lastSent' = frame.serial
    /\ emu' = "between"
    /\ UNCHANGED <<slots, write, read, epoch, input, game, serial, frame, emuSeq, got,
                   display, ui, call, calls>>

\* FrameExchange::publish.
Publish ==
    /\ emu = "publish"
    /\ ready' = write /\ isNew' = TRUE /\ write' = ready
    /\ lastSent' = frame.serial
    /\ emu' = "between"
    /\ UNCHANGED <<slots, read, epoch, input, game, serial, frame, emuSeq, got,
                   display, ui, call, calls>>

\* Mutant: openContentOnCore without FrameExchange::clear.
OpenWithoutClear ==
    /\ emu = "between" /\ call \in Games
    /\ frame' = Nothing
    /\ game' \in {call, NoGame}
    /\ call' = NoGame
    /\ UNCHANGED <<exchange, input, serial, lastSent, emuSeq, got, display, emu, ui, calls>>

\* openContentOnCore: clear, then the load (startSession drops the last picture),
\* which may fail and then leaves nothing loaded.
Open ==
    /\ emu = "between" /\ call \in Games
    /\ epoch' = epoch + 1
    /\ frame' = Nothing
    /\ game' \in {call, NoGame}
    /\ call' = NoGame
    /\ UNCHANGED <<slots, ready, isNew, write, read, input, serial, lastSent, emuSeq, got,
                   display, emu, ui, calls>>

\* closeContent's call.
Close ==
    /\ emu = "between" /\ call = "close"
    /\ epoch' = epoch + 1
    /\ game' = NoGame
    /\ call' = NoGame
    /\ UNCHANGED <<slots, ready, isNew, write, read, input, serial, frame, lastSent, emuSeq,
                   got, display, emu, ui, calls>>

------------------------------------------------------------------------------
(* The UI thread.                                                          *)

\* publishInput after a batch with an event, perf.on: carryMotion keeps what was not taken.
\* A publish without an event changes nothing but the sequence number, which is
\* compared only with the numbers of those that carried one.
PublishInput ==
    /\ ui = "loop" /\ seq < MaxEvents
    /\ \E motion \in {0, 1} :
           /\ latest' = latest + motion
           /\ moved' = moved + motion
    /\ seq' = seq + 1
    /\ queue' = Append(IF Len(queue) >= QueueLimit THEN Tail(queue) ELSE queue,
                       [seq |-> seq + 1, moved |-> moved'])
    /\ UNCHANGED <<exchange, core, screen, visible, shownEpoch, timed, emu, ui, call, calls>>

\* openContent and closeContent, up to the wait.
Request(c) ==
    /\ ui = "loop" /\ calls < MaxCalls
    /\ c = "close" => game # NoGame
    /\ call' = c /\ calls' = calls + 1
    /\ ui' = "waiting"
    /\ UNCHANGED <<exchange, input, core, display, emu>>

\* adoptFrameEpoch: after a call, and in every iteration before the take.
AdoptFrameEpoch ==
    /\ \/ ui = "loop" /\ ui' = "take"
       \/ ui = "waiting" /\ call = NoGame /\ ui' = "loop"
    /\ shownEpoch' = epoch
    /\ visible' = (visible /\ epoch = shownEpoch)
    /\ UNCHANGED <<exchange, input, core, screen, queue, timed, emu, call, calls>>

\* Mutant: the hand-over slot is taken whether or not it is new.
TakeWithoutLook ==
    /\ ui = "take"
    /\ ui' = "exchange"
    /\ UNCHANGED <<exchange, input, core, display, emu, call, calls>>

\* takeNewest: a look at kFresh, the exchange, the comparison of the epochs.
TakeLook ==
    /\ ui = "take"
    /\ ui' = IF isNew THEN "exchange" ELSE "swap"
    /\ UNCHANGED <<exchange, input, core, display, emu, call, calls>>

\* Mutant: the picture is marked taken and the reader keeps its slot.
TakeKeepingSlot ==
    /\ ui = "exchange"
    /\ isNew' = FALSE
    /\ ui' = "verify"
    /\ UNCHANGED <<slots, ready, write, read, epoch, input, core, display, emu, call, calls>>

TakeExchange ==
    /\ ui = "exchange"
    /\ read' = ready /\ ready' = read /\ isNew' = FALSE
    /\ ui' = "verify"
    /\ UNCHANGED <<slots, write, epoch, input, core, display, emu, call, calls>>

TakeVerify ==
    /\ ui = "verify"
    /\ ui' = IF slots[read].epoch = epoch THEN "upload" ELSE "swap"
    /\ UNCHANGED <<exchange, input, core, display, emu, call, calls>>

\* VideoOut::upload reads the slot; shownSeq_ is its inputSeq.
Upload ==
    /\ ui = "upload"
    /\ screen' = slots[read].pic /\ visible' = TRUE
    /\ ui' = "swap"
    /\ UNCHANGED <<exchange, input, core, shownEpoch, queue, timed, emu, call, calls>>

\* Mutant: the whole queue counts as shown.
NotePresentedAll ==
    /\ ui = "swap"
    /\ timed' = timed \cup {queue[i] : i \in 1 .. Len(queue)}
    /\ queue' = <<>>
    /\ ui' = "loop"
    /\ UNCHANGED <<exchange, input, core, screen, visible, shownEpoch, emu, call, calls>>

\* The swap, and notePresented: events are popped while their picture is shown.
NotePresented ==
    /\ ui = "swap"
    /\ \E n \in 0 .. Len(queue) :
           /\ \A i \in 1 .. n : queue[i].seq <= screen.seq
           /\ n < Len(queue) => queue[n + 1].seq > screen.seq
           /\ timed' = timed \cup {queue[i] : i \in 1 .. n}
           /\ queue' = SubSeq(queue, n + 1, Len(queue))
    /\ ui' = "loop"
    /\ UNCHANGED <<exchange, input, core, screen, visible, shownEpoch, emu, call, calls>>

EmuStep == Poll \/ Emulate \/ WriteBuffer \/ Fill \/ Publish \/ Open \/ Close

UiStep ==
    AdoptFrameEpoch \/ TakeLook \/ TakeExchange \/ TakeVerify \/ Upload \/ NotePresented

Next ==
    \/ EmuStep \/ UiStep \/ PublishInput
    \/ \E c \in Games \cup {"close"} : Request(c)

\* The UI loop goes round; a call runs between two frames (EmuThread: Progress),
\* and what the emulation thread has begun it ends.  Frames need not be begun.
Fairness ==
    /\ WF_vars(UiStep)
    /\ WF_vars(Emulate) /\ WF_vars(WriteBuffer) /\ WF_vars(Fill) /\ WF_vars(Publish)
    /\ SF_vars(Open) /\ SF_vars(Close)

Spec == Init /\ [][Next]_vars /\ Fairness

------------------------------------------------------------------------------

Pictures == [game : Games \cup {NoGame}, serial : Nat, seq : Nat, got : Nat]

TypeOK ==
    /\ slots \in [Slots -> [epoch : Nat, pic : Pictures, whole : BOOLEAN]]
    /\ {ready, write, read} \subseteq Slots /\ {isNew, visible} \subseteq BOOLEAN
    /\ {epoch, latest, seq, moved, got, serial, lastSent, emuSeq, shownEpoch, calls} \subseteq Nat
    /\ emu \in {"between", "running", "stamp", "fill", "publish"}
    /\ game \in Games \cup {NoGame} /\ frame \in Pictures
    /\ ui \in {"loop", "take", "exchange", "verify", "upload", "swap", "waiting"}
    /\ call \in Games \cup {NoGame, "close"}
    /\ screen \in Pictures

\* No tearing ("a slot is never written while it is read"): a slot the UI thread
\* holds is not the writer's and holds the pixels of one frame, and so does the
\* hand-over slot, however the two exchanges interleave with the filling.
NoTearing ==
    /\ write # read /\ slots[read].whole
    /\ ready \notin {write, read} /\ slots[ready].whole

\* Once a call to open or close content has returned, no picture of another game
\* is on the screen: whatever was published, taken or being drawn before it
\* ("the previous game's last picture cannot reappear").
PictureOfThisGame == ui # "waiting" /\ visible => screen.game = game

\* Pictures never go back: what is uploaded is newer than everything uploaded
\* before, across loads too (VideoOut::upload relies on it), although the reader
\* skips pictures and slots are reused.
NeverBackwards == [][screen' # screen => screen'.serial > screen.serial]_vars

\* "Delivered exactly once, however many publishes or frames fall in between."
MotionOnce == got + latest = moved

\* An event is timed as shown only when the picture in the texture is that of a
\* frame which was given all motion made up to that event.
TimedWhenShown ==
    [][\A e \in timed' \ timed : screen.got >= e.moved]_vars

\* A picture handed over reaches the screen, or a newer one does, unless content
\* is opened or closed.
NewestShown ==
    \A n \in 1 .. MaxSerial :
        isNew /\ slots[ready].epoch = epoch /\ slots[ready].pic.serial = n
            ~> (visible /\ screen.serial >= n) \/ ui = "waiting"
=============================================================================
