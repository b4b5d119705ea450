# Virtual Jaguar (libretro): TLA+ models

A TLA+ development of the parts of the emulator whose correctness depends on the
order in which things happen: the event queue and the frame loop that runs on it,
the serial link and its speed negotiation, and persistent memory from the guest's
write to the file the frontend keeps, the CD drive's answers and data stream, and the
threads of the desktop application: the one the core runs on, and what it and the user
interface hand each other. Paths are relative to the repository; `src/`
stands for the emulator's own `src/` directory.

## 1. The system

A libretro frontend calls `retro_run` once per frame. The core runs the 68000, GPU
and DSP in slices bounded by timed events until one video field is finished. Around
the machine there are devices with protocols of their own: a UART that may be
connected to other emulators over TCP, a serial EEPROM in the cartridge, a flash
card with a file system, a CD drive. A desktop application runs the same core on a
thread of its own. In the core everything happens on one thread; concurrency comes
from the guest acting inside a slice, from other emulators and the network, from the
frontend acting between frames (reset, save and load of states, options, unloading),
and, in the desktop application, from a second thread.

### Inventory

| Part | State | Operations | What makes it correct |
|---|---|---|---|
| Event queue, `src/core/event.c` | two packed arrays of slots, a count and a cached index each | set, remove, adjust, time to next, handle next, subtract, save, load | a timer set fires once, never early, earliest first, unless removed; a load of any old state leaves a usable list |
| Frame loop, `src/core/jaguar.c` with callbacks in `tom.c`, `jerry.c`, `dac.c`, `gpu.c` | the lists, VC/VP, PIT and I2S periods, sample index | slices, register writes, callbacks, reset | a frame ends; timers neither double nor vanish; the sample buffer is not overrun |
| JERRY UART, `src/jerry/uart.c` | shift and holding registers, receive buffer, flags, divisor | register accesses, two callbacks, poll, link mode, reset, state | bytes in order, none stuck; flags match queued events; no overrun while accelerated |
| Link core, `src/jerry/jlink.c` | receive ring, mode, negotiation variables | open, close, poll, send, receive, tick, hello | see above; both ends agree on the speed; return to stock timing |
| TCP transport and hub, `src/jerry/jlink_tcp.c` | peer slots, pending transmit bytes, listening socket | accept, drop, send to all, forward, retry | every byte reaches every other peer once and in order |
| Discovery, `src/jerry/jlink_disc.c`; netpacket and voice | peer table, datagram sockets | beacon, poll, hello | loss and duplicates do no harm |
| Cartridge EEPROM, `src/jerry/eeprom.c` | 64 words, serial state machine | bit on DI, clock, sample of DO, select | bits make the chip's commands, wherever the guest stops or polls |
| Memory Track, `src/core/memtrack.c`; NVM BIOS, `src/core/nvmbios.c` | flash, command state; FAT, directory, handles, search | unlock and write; file calls | unlock sequence; sound file system, handles follow files |
| CD drive and BUTCH, `src/cd/cdrom.c`; CD unit EEPROM | answer queue, delays, FIFO and seek state, two read heads, interrupt edge; words | DS_DATA, DSCNTRL, FIFO and enable accesses, tick, audio sample; serial commands | no answer stranded, the stream neither stops nor jumps, every request served |
| Save memory and states, `libretro.c` | save buffer, dirty and unpack flags, version gates | load, unload, run, reset, serialize, unserialize | what is saved is what the machine holds; the file reaches the machine; nothing leaks between titles |
| Desktop emulation thread, `app/src/emu_thread.cpp`, `emu_commands.h` | command lanes, thread state, advance budget | post, call, drain, advance, stop, halt pump | no command lost, run twice, or both run and given up; stop returns |
| Desktop hand-over: `app/src/frame_exchange.h`, `input_snapshot.h`, `emu_snapshot.h`; late latch, hold arbiter | triple buffer, input snapshot, event queue, latches | publish, take, push, drain | no torn, stale or older picture; no event lost that the window needs |
| Desktop link control, `app/src/netplay.cpp` with overrides in `core_host.cpp` and link edges in `libretro.c` | wanted and applied settings, bounce, epoch, shown state | start, stop, after frame, core event | the window shows the link the core has |
| Bus arbiter and 68K stalls; GameDrive | cycle debts; bank pages, SPI engine | account, stall; bank, transfer | no cycle lost; engine follows its protocol |
| CPU cores, blitter, object processor, audio filters, input, options, debugger, user interface | data | data transformations | tested against hardware traces or by eye; no protocol to check |

How they interact: every timed device goes through the event queue, and
`HandleNextEvent` calls back into it; guest register writes move events while the
frame loop holds a time it read before; the UART reads the ring that the transport
fills and that polling, callbacks and register reads all start frames from; the
negotiation decides the UART's divisor; EEPROM, flash and NVM BIOS tell the save
buffer through callbacks, and the frontend reads that buffer whenever it likes;
a loaded state replaces all of these at once, with different contents per version;
the CD drive ticks once per half-line and interrupts the GPU, while the 68000 polls the
same registers. In the desktop application the two threads share the frame exchange, the
input snapshot, the command lanes and the queue of core events; link settings travel
as one command per option, and what the core says of the link comes back as events.

The hard behaviours, each listed under `hazards` in `PROJECT.json` at its line:
values read at the head of the frame loop and used after the guest ran; lists that
fill up; events lost or doubled when a register is written twice; states of older
versions; lost and late datagrams and bounded retries; agreements that outlive their
connection; bit protocols stopped half way; a save buffer with several writers and a
reader at any time; operations that fail after their first half; commands posted
across threads; answers hidden by the next command; interrupt edges consumed where
nobody saw them; events of an earlier session.

## 2. Modules

Each module names the C functions it stands for; `map` in `PROJECT.json` gives the
lines.

**EventList**, **EventQueue** - `event.c`. A list is a record of slots, count and
cached index; each C function is one operator on a list, where the C file has one
copy per list. Removal leaves residue in the slot, as in C, because every scan trusts
the count alone. `EventQueue` has one action per function, called in any order.
Loads take the image of a save or one of the `OldImages` of the format before
packing. Times are integers; `eventType`, which nothing reads, is left out.

**TimerBag** - the abstract specification: two bags of timers with absolute due
times. `EventQueue!ImplementsTimerBag` instantiates it with the live slots as the
bag and a history variable as the clock of each list. Its capacity counts the timers of
a bag by numbered copies (`Copies`), two timers of one callback and time being two.

**FrameScheduler** - `JaguarExecuteNew` and everything that touches the queue during
a frame. `phase` is the program counter: `BeginFrame` (`JaguarExecuteNew` up to the
loop with `DACPrepareFrame`), `PickSlice` (head of the loop), the guest's register
writes in phase "guest" (the timers, VP, VC and the GPU's store to CPUINT), and one action
per callback for the dispatch that ends the slice. The halfline callback is in two steps:
between them the object processor runs the GPU, which writes registers and interrupts the
68000 as well (phase "halfline"), and only then the callback queues itself again. What the
list has no room for is dropped. `programmed` and `flooded` are history: which of JERRY's
timers were set up since the reset, and whether GPU interrupts ever left MAIN less room
than its two timers need. Interrupt lines and pixels are left out.

**Uart** - `uart.c` with the ring of `jlink.c`. Registers, callbacks, frontend
entries and states are actions. Bytes are their positions in their stream, which is
what tells order, loss and duplication apart. Which of two queued events comes first
is a free choice: it stands for every divider. What the queue owes the UART is what
`TimerBag` says. `txOrphan` and `rxOrphan` are history: which busy flag was set when a
state from before the UART chunk replaced the queue and left the flag behind.

**JLinkNeg** - the negotiation in `jlink.c` on one server and any number of clients.
A core's variables are one record and the steps of `JLinkNegOnRaw` and `JLinkNegTick`
are functions on it; `Frame` is the head of `retro_run`. Sockets are kept as far as
`JLinkPeerCount` and `JLinkConnected` see them. Datagrams may be lost, and may be
read in any order or late. `Reset` is what `retro_reset` does to it: `UARTReset` puts the
divisor back to 1 and leaves the connection and the negotiation; the history variable
`slowed` remembers the confirmed cores it happened to.

**EepromCommands**, **EepromChip**, **Eeprom** - the commands of the chip and what
they do; an abstract chip that collects bits into frames and carries a frame out; and
the state machine of `eeprom.c` bit by bit. `Eeprom!ImplementsChip` is the refinement:
the bits collected so far are computed from the state, the address and data fields and
their counters.

**SaveRam** - the save buffer, dirty flag and first-frame unpack of `libretro.c` with
the three memories behind it. EEPROM commands come from `EepromCommands`, since
`Eeprom` shows that bits make commands. The frontend reads its file into the buffer
after `retro_load_game` and may write it at any time between frames. Which memory it is
given, and whether the first frame unpacks the buffer, depends on the checksum of the last
ROM image, `mtRom`: it survives unloading and a CD reads no image, so a CD title opened
after the Memory Track cartridge is `Mistaken` for it. A file of another size than the
memory is copied in as far as it fits; what that comes to is left open (`misfit`).

**NvmBios** - `nvmbios.c`: FAT, directory, used count, checksum, handles and the
search position. A call that fails without a change is not a step. Data is left out
except for the blocks a write touches.

**EmuThread** - `emu_thread.{h,cpp}` and `emu_commands.h`. `pc` is where `loop()` is and
`at` where each caller is; a step is one critical section or one atomic access, so the
two loads of the state at the head of `post` and `submit` are two steps, and so are the
two counters of `advance`. A command is a record with its give-up token; its body is
nothing but the budget of an `advance` and the opening or closing of content. `start` is
called while no caller is inside, because it replaces `client_` without a lock. A
give-up predicate may answer anything, which covers every predicate and none. Pacing is
a free choice between a frame and a wait. A notification moves a sleeping loop back to
its predicate, and the notification after an unlock is one step with what was unlocked.

**HandOver** - pictures one way (`frame_exchange.h`), input the other way
(`input_snapshot.h`), and the code on both ends in `app.cpp` and `core_host.cpp`. A step
is one atomic operation, or the filling or reading of a slot, so a picture can be seen
half written. A picture is its game, its serial and the input its frame polled. Opening
and closing content is one call on the emulation thread between frames, for which the
user interface waits, as `EmuThread` shows it may.

**Netplay** - `netplay.cpp` on the one side, the option overrides of `core_host.cpp`, the
frame lane and `netlink_apply` on the way to the core, the link edges of `retro_run` and
`CoreEventQueue` on the way back. Each override is a command of its own. With `Split`
TRUE the lane may be drained between two commands of one call. `want_` and the link the
core has open are settings; the network is the free choice of an edge. `evidence` and
`link` let properties say which settings an event or an open link belongs to.

**CdDrive** - `cdrom.c` as the machine sees it: commands, the answer queue behind DS_DATA
and the flags that make its head visible, seek and refill countdowns, FIFO and audio heads, the
tick of `BUTCHExec` and its interrupt edge with the GPU's latch. Two programs use it: a
68000 with a budget of free moves, resets included, which may poll for an answer besides, and
the interrupt routine of the CD BIOS, modelled from the listing in `cdrom.c` and the accesses
it makes (external). A GPU slice ends where the next event is due, so ticks and the 68000's
accesses may fall anywhere in that routine. The boot stub's hook parks the head once, whatever
the BIOS has the drive doing by then.

**EventQueueProofs**, **FrameSchedulerProofs**, **JLinkNegProofs**, **EmuThreadProofs**,
**HandOverProofs**, **CdDriveProofs**, **LinkProofs** (`Uart` and `Netplay`) and
**SaveMemoryProofs** (`NvmBios`, `SaveRam` and `Eeprom`) - theorems (section 5). The last two
extend several components at once, so `SaveRam`, `Eeprom` and `Netplay` have the component's
name in `SaveInit`, `SaveNext`, `SaveSpec`, `EepromInit`, `EepromNext`, `EepromSpec`,
`NetInit`, `NetNext`, `NetSpec` and so on.

**MCEventQueue**, **MCFrameScheduler**, **MCSaveRam** - values for constants that a
configuration cannot write. The other modules are checked directly.

History variables (marked `history` where they are declared) record what a property
talks about and influence no step. An operator whose comment begins with "Mutant" is a
plausible mistake in the code it names; `mutants` pairs each property with one that
breaks it.

## 3. Runs

| Run | Shows |
|---|---|
| `event_queue` | two slots per list, a registered and an unregistered callback, negative delays, saves, loads of old images: `Packed`, `Callable`, and the bag of timers is implemented |
| `frame` | whatever the guest writes inside a slice or inside the halfline callback, and however often the GPU interrupts: timers stay single (`OneOfEach`), JERRY's are queued exactly while they are set up and on (`JerryTimersArmed`), the PIT and the halfline likewise unless GPU interrupts have flooded MAIN (`TomPitArmed`, `HalflineQueued`; together `TimersAsProgrammed`), no sample event outlives a full buffer, and a frame ends unless the guest writes VC for ever or the full list dropped the halfline |
| `uart` | with states of the versions that carry a UART, link changes and resets: bytes stay in order in both directions, busy flags match queued events, a fast frame never overruns, and a byte in the ring is received although nobody writes |
| `neg` | one client with reconnects, option changes, resets, a lost datagram and a loaded state: handshakes end, a core is fast exactly while confirmed and not reset since, the ends confirm each other unless something was lost, a fresh connection starts at stock timing |
| `eeprom` | every order of select, data, clock and sample implements the abstract chip |
| `save_ram` | two titles of any kinds in a process: the file would hold what the machine holds, the second title finds nothing of the first; a CD title mistaken for the Memory Track cartridge is the exception, and then of the EEPROM only |
| `save_ram_sessions` | three titles of any kinds, resets and states before the first frame: a save file of the right size still reaches the machine, unless the title is mistaken |
| `nvm` | creations, deletions, handles, fragmentation, searches: the file system is sound, handles follow files, writes stay in their file, a search misses nothing |
| `emu` | a caller, the owner and the emulation thread, with halts, give-ups, time-outs, an abandonment and a restart: the core has one user, commands run once and in order or are given up for good, `advance` tells the truth and its frames come after earlier posts, nobody waits for ever |
| `hand_over` | two games opened and closed between pictures and input: no torn picture, none of another game, none older than the one before; an input event is timed when its picture is shown; the newest picture gets shown |
| `netplay` | starts, stops, endpoint changes and a reload while commands wait and frames run between them: the window says "up" only on evidence of its own session, an endpoint change goes through a closed link, and the core's edges reach the window although its queue overflows |
| `cd_drive` | three free moves, resets included, among ticks, samples, polled reads, the boot stub's parking and the interrupt routine: an answer is not stranded (a hidden one waits for the next command after a Goto, or behind a full queue), a playing drive keeps its refill going, heads jump only on a seek, or into silence when parked or reset; a half-full FIFO is served also if the GPU is halted meanwhile, but not if the routine's exit clears the latch of a new edge (`CdDriveClaims`), nor while a table of contents is being read, whose words a slow routine acks before it reads them |

Further configurations hold and are not runs of the project: `EmuThreadTwo` (two
callers), `UartRing` (a ring of two without states, with `HoldDrains`: the holding
register empties), `UartAnyState` (states from before the UART too: `BusyUnlessOrphaned`
and `FastFrameNeverOverruns`) and `JLinkNegHub` (two clients, with `MultiDropStaysStock`). The type
invariant of every module, `DropReturnsToStock` (JLinkNeg), `CommandNeedsUnlock` (MCSaveRam),
`MotionOnce` (HandOver) and `VisibleOnTick` (CdDrive) hold when added to the
configuration of the run.

### Bounds, and why they are enough

* `event_queue`: size 2 gives a full list, a swap of the last event into a hole and a
  removal of the last event itself. The delays -1 and 1 give clamping, ties and both
  orders. Two callbacks are needed for the search order and for a load that drops one.
  The clock is bounded, so the model may stop (`CHECK_DEADLOCK FALSE`).
* `frame`: MAIN holds halfline, PIT and one GPU interrupt, so at size 3 a second interrupt
  drops what comes next, be it the interrupt, the PIT's re-arm or the halfline's. A
  halfline of 2 against periods of 1 puts several slices between halflines and makes ties;
  VP 1 and 2 under VC modulo 3 give fields of two and three half-lines and a guest that
  shortens a field below the counter; two register writes per slice allow off and on
  again, a write of each timer, or two interrupts, and one more inside the halfline callback
  fills the list there.
* `uart`: one byte of ring, 2 writes and 2 arrivals fill the ring, leave one byte in the
  socket and occupy shift and holding register, before and after a save; versions 7 (a
  UART but no divisor) and 17. `UartRing.cfg` has a ring of 2, 3 arrivals and 4 writes,
  `UartAnyState.cfg` version 3 (no UART) as well.
* `neg`: two connections per client are a connection and its successor; two attempts are
  a first and a last one (the code has eight, and nothing depends on the number but the
  end); one loss and one load each happen at every point, resets any number of times.
  `JLinkNegHub.cfg`: two clients are the first number that is not eligible.
* `eeprom`: two address bits are the fewest that encode the extended commands, and two
  data bits make order and width of the data field visible.
* `save_ram*`: one address per bank, since no operation relates two addresses; two words
  tell saved from initial contents (`MCSaveRamClaims.cfg` keeps 0x0000 and 0xFFFF apart). Two
  sessions are a title and the next one, three a Memory Track cartridge, a mistaken CD and
  what either leaves to the one after. Sessions are bounded, so the model may stop.
* `nvm`: three data blocks are the fewest with a fragmented file; two directory slots are
  a hole before a file, and a full directory; two handles are an open file and the one a
  creation needs; two applications with two names each give searches with and without the
  application's own files. The model stops after a
  write to an empty file has landed in the directory (section 6), hence
  `CHECK_DEADLOCK FALSE`.

* `emu`: two commands are a post and the `advance` behind it, an `advance` given up and
  the next one, or two in one lane; two starts are a thread and its successor. Content is
  open at first, and a call may close it. `EmuThreadTwo.cfg` checks the safety properties
  for two callers, for `advance(0)` and with no content at first (6.6 million states).
* `hand_over`: three pictures are one on the screen, one handed over and one being filled;
  two calls are a game closed and another opened (or two opened in a row); two input
  events and a queue of one make the queue drop one.
* `netplay`: two hosts are an old and a new endpoint and the server mode a third; two calls
  are a start and its change; one log line makes the event queue drop on the second. Three
  frames of a bounce are the code's own number.
* `cd_drive`: two sectors of two words are enough for a head to cross a sector and for two
  heads to differ; a queue of two is full behind one unread answer and another; delays of
  one to three ticks leave room for a move before and between. Three free moves are a seek,
  its interruption and a following command, or a command, an enabled interrupt and a halted
  GPU; polled reads and acks and the parking are not counted. `CdDriveClaims` has four.

### Fairness, and why the code justifies it

* `FrameScheduler`: weak fairness on the program counter only. `JaguarExecuteNew` is a
  loop on one thread that waits for nothing, and guest code inside a slice runs for a
  bounded number of cycles, as the GPU does inside the halfline callback (the object
  processor stops waiting for it after a number of steps). No particular callback is
  favoured. That the guest leaves VC alone in the end is a hypothesis of `FrameCompletes`,
  not of the code.
* `Uart`: weak fairness of the two callbacks while their event is queued (the queue
  dispatches what is queued, and `FrameCompletes` says that time goes on), and of
  `UARTPoll`, which `retro_run` calls in every frame. Guest, peer and user are not fair.
* `JLinkNeg`: each core keeps running frames, and `JLinkDiscPoll` empties its socket in
  every one. Connecting, losing and user actions are not fair.
* `EmuThread`: the operating system schedules the loop, the owner and each caller (weak
  fairness), and a frame that begins ends (strong fairness of `EndFrame`, since the halt
  pump may serve the lane any number of times first): the debugger resumes what it halts,
  which `stop()` demands as well. The pump's wait, a few milliseconds, ends. Nothing is
  assumed of the time-outs of `stop`, `callFor` and the idle wait, so `Progress` fails if
  a wake-up is lost although a time-out of 250 ms would hide it in the program.
* `HandOver`: both threads go on (weak fairness of the user interface's step and of each
  step of a frame); a call posted is run between two frames (strong fairness of `Open` and
  `Close`, as the frames may go on between: `loop` drains the lane before each). The user
  opens, closes and types as he likes.
* `Netplay`: the user interface finishes a call, pins a snapshot and looks after a bounce
  in every pass; the emulation thread drains its lane and ends a frame it has begun, and
  begins one again and again (strong fairness, since the drain comes first). Calls and
  edges are not fair.
* `CdDrive`: the half-line event ticks for ever (`frame` shows it stays queued until GPU
  interrupts flood the list, which is `MCFrameHalflineLost`'s subject), a running
  GPU executes the routine, and a program that halts the GPU starts it again, as the
  programs named in the comment at `cdPrevShouldIRQ` do. The 68000 is not fair.
* `EventQueue`, `Eeprom`, `SaveRam` and `NvmBios` state safety only and have no fairness.

## 4. What each property guards against

The comment above each property names the code it is about. In short: `Packed` and
`Callable` are the claims that let `event.c` scan without looking at `valid` and call
without looking for NULL. `OneOfEach` and `JerryTimersArmed` are the Remove-before-Set
discipline of the register writes and the re-arms of the callbacks; `TomPitArmed` and
`HalflineQueued` are the same for the list that GPU interrupts can fill. `BusyIffQueued` is what keeps a half of the UART from
stopping for good. `FastFrameNeverOverruns` is the back-pressure argument above
`UARTKickRx`, where the divisor may change while a frame is in flight. `FatSound`
includes the "this should NEVER happen" of `alloc_blocks`. `BufferAgrees` excuses exactly
the three events that move a bank without the buffer (erase, state load, reset) and a
mistaken title. `NothingLeaks` is the zeroing in `retro_unload_game` and the initialised
flags; `StartsClean` is what it would say if the ROM's checksum were cleared too.
`Delivery` is the compare-and-swap of `submit` and the closing rounds of
`closeAndDrain`; `BudgetBehindPosts` is why `loop` drains the frame lane twice;
`AdvanceHonest` is why `advanceDone_` is bumped before the budget drops and why `start`
clears the budget; `EmuOwnsCore` is `waitFinished`. `NoTearing` is the argument for three
slots and one atomic; `PictureOfThisGame` is what the epochs of the slots are for, and
`NeverBackwards` what a reader that draws a slot again could break. `UpIsThisSession` is what
`minEpoch_` is for, `BounceClosesLink` why it counts three frames, and `EdgesReachWindow`
why `CoreEventQueue` keeps edges when it drops log lines. `WordOnItsWay` is the re-arm on
DSCNTRL, `FifoServed` the edge gate at the end of `BUTCHExec` (`swallowed` remembers the one
loss it does not prevent, the routine's exit), `PlayingKeepsTimer` its
one-tick retry, and `HeadsJumpOnlyBySeek` the redundant-seek test.

## 5. Proofs

All theorems hold for every value of the constants that satisfies the named assumptions
of the modules. They do not depend on the bounds used with TLC.

* `EventQueueProofs`: `TypeCorrect`, `PackedAlways`, `CallableAlways`, from
  `SizeAssumption`, `CallbackAssumption`, `DelayAssumption`, `HomeAssumption` and
  `OldImageAssumption`. The inductive invariant adds to `TypeOK` that valid slots are
  exactly those below the count and that none of them holds NULL. Neither half is
  inductive alone: a removal moves the last live slot, and only the packing says that
  this slot is live and so callable. Lemmas say what each list operation does to a good
  list. The scans need the existence of a least index and of a least time, which is
  proved once with the well-foundedness of the naturals. A load is handled through the
  image: its surviving slots are packed whatever holes or NULLs the image has, and the
  enumeration of the survivors is shown to be a bijection with an initial segment.
  `QueueImplementsTimerBag` is the refinement: every function does one step of the bag to
  the timers in the arrays, or none. The timers of a list are a function from its live
  slots to callbacks and due times, and the bag is that of its values. `OneMore` says what
  a slot more adds to the bag, `Relabelled` that the bag does not see where its timers are
  (a removal moves the last slot, a load packs), and `Filtered` what a save leaves out;
  `CopiesOfSlots` relates the number of copies to the count, which is what the full list
  compares. There is one lemma per function of `event.c` on top of these.
* `FrameSchedulerProofs`: `TimersAlwaysAsProgrammed` and `NoSampleAfterFullAlways`, for all
  periods, field lengths, buffer lengths, numbers of writes and GPU interrupts, and lists of
  at least three slots (`Room`: one for each of JERRY's timers; `EVENT_LIST_SIZE` is 32). The
  argument counts: each list operation adds or takes one event of one callback, or drops one
  at a full list, and the number of live slots is the sum of the numbers of events of the
  callbacks that use the list. So JERRY is never full. Of MAIN two things are invariant:
  `MainSane`, that it holds at most one halfline and at most one PIT event, holds even while
  events are dropped, since what is dropped is only missing; `MainRight`, that both are there,
  holds until an interrupt is raised with fewer than three slots left by other interrupts
  (`flooded`). That it does not hold after that is what `MCFrameHalflineLost` shows.
* `LinkProofs`, for `Uart`: `BusyUnlessOrphanedAlways`, `BusyIffQueuedAlways` and
  `FastFramesNeverOverrun`, for states of every version: flags and events agree except
  for a flag that was set when a state without a UART replaced the queue (`txOrphan`,
  `rxOrphan`), until a reset or the load of a sound state. `StreamsInOrderAlways` is
  under `NewStates` (every loaded state carries the UART chunk): an older state takes the
  guest back but not its UART, so which byte it would have written is not determined.
  The invariant `IInv` claims the same
  soundness of a saved image as of the machine, since a load brings the image back; the
  main lemma is about `KickRx`, the one place that starts a frame. `Ordered`, for the third
  theorem, adds the ends of both streams to the property (nothing is sent that was not
  written, nothing read that did not arrive); its lemmas say what a poll, a loopback push
  and a take do to an ordered ring.
* `LinkProofs`, for `Netplay`: `NetplayTypeOK`, `UpIsThisSessionAlways` and
  `BounceClosesLinkAlways`, for any endpoints, any number of calls, reloads, edges and log
  lines, with the lane drained between two commands of a call or not. Neither property is
  inductive, since commands are on their way to the core and events on their way back.
  `Sending` says what the core will have once it has read what is pending: the settings
  wanted, or a closed link while an endpoint change waits. `Numbers` says that the newest
  epoch is the last of what is pending, and the core has it once nothing is. So an event
  under the newest epoch was said with the settings wanted (`Dated`), which is why ignoring
  older epochs is enough. `Closing` counts with the bounce: the frame counted first may have
  been under way when "disabled" was posted, the second has read it. Lemmas say what
  appending a command and reading a prefix leave of a key's last value.
* `JLinkNegProofs`: `FastIffConfirmedAlways`, for any number of clients, connections,
  losses and attempts. The invariant carries the types of the negotiation states and the
  agreement of divisor and confirmation until a state is loaded, but for the cores in
  `slowed`, which are confirmed and at stock timing. Each step function has a lemma. The interesting one is `ReconcileAgreed`: switching the option off leaves a
  confirmed core at stock timing, and the reconciliation of the same frame repairs it.
  `FreshConnectionAlwaysStartsStock` needs no more than the types and that `Nobody` is
  no node: coming up resets the negotiation, whatever the last connection left.
  `OneSidedOnlyByLossAlways` needs to know how far the handshake is. `Ends` says that
  datagrams and connections belong to clients that did connect; `Handshake` says of the only
  client on its first connection, with nothing lost and no option moved, that nobody has
  heard of a connection the server did not accept, that whoever is heard has seen the
  connection before, and that a confirmed client's hello is in flight or has confirmed the
  server. So an empty network leaves both ends alike. `MultiDropAlwaysStock` says that a
  server with several clients is at stock timing after its frame, until a state is loaded.
* `SaveMemoryProofs`, for `NvmBios`: `FatSoundAlways`, `HandlesFollowFilesAlways`, `SearchReportsAllAlways`,
  `ChecksumRightUnlessFullAlways` and `WritesAlwaysStayInFile`, for every number of blocks,
  directory slots, handles, applications and names, and every block and file size. A chain is
  described by the blocks at its positions (`Path`), so that nothing has to be proved by
  induction along it. `Sound` says that the chains are paths over blocks of their own, that
  every allocated block is in one, and that the used count is their number; it is shown to
  give `FatSound`, and each call to keep it. An allocation takes the lowest free blocks in
  order: the block at a position is the free block of that rank, which is how the loop of
  `alloc_blocks` is reasoned about. Searches need `DueAhead` (what is still to be reported
  lies ahead of the position, and a search of one application's files is that
  application's), and writes that the walk from the start of a file stays on its path as far
  as its size goes.
* `SaveMemoryProofs`, for `SaveRam`: `SaveRamTypeOK`, `BufferAgreesAlways`,
  `FileReachesMachineAlways`, `NothingLeaksAlways` and `CommandNeedsUnlockAlways`, for any
  addresses, words and factory image and any number of sessions and savestates. `RamInv` adds
  to the types which memories are as new between titles and before the first frame
  (`Phases`, `Waiting`: what the first frame will find, with a save file and without) and the
  agreement of buffer and machine also inside a frame, where the flash of a CD title may be
  ahead while it is marked (`InSync`). The checksum is right for every cartridge, so only a
  CD title can be mistaken, and of that one the proof shows that at least the CD unit's EEPROM
  and the flash are new. A savestate that is kept carries the same facts as the
  machine it was taken from, because a load brings it back (`ImageSound`). `Unlocking` ties
  the flash's state to the command writes counted.
* `SaveMemoryProofs`, for `Eeprom`: `EepromTypeOKAlways` and the refinement
  `EepromImplementsChip`, for every width of the address (2 to 16 bits) and of the data (1 to
  16), which `WidthAssumption` takes from the `uint16_t` fields; the code has 6 and 16. The
  invariant `Serial` says that a field that has counted k bits is below 2^k, so the next bit
  is added without losing one, and that the state to be entered belongs to the opcode.
  Each access is then a step of the chip or, for a clock with nothing to shift, none: the
  bits of the fields, put together (`Framed`), are the frame with the next bit appended, and
  cutting the frame gives the fields back (`Cuts`, `Fields`). That the chip reads the same
  numbers from the bits needs that n bits determine a number (`BitsDetermine`). Powers of
  two are reasoned about as numbers of subsets (`PowerIs`, `PowerDoubles`), and the
  digits by a least length for which the claim fails, since neither an induction rule nor
  the exponent is known to the provers. `EepromChip` therefore defines the value of a
  sequence of bits as the number that has them.
* `EmuThreadProofs`: `EmuOwnsCoreAlways`, `DeliveryAlways`, `AdvanceHonestAlways` and
  `BudgetBehindPostsAlways`, for any number of callers, commands, starts and frames. The
  invariant has five parts. `Threads` says which states the owner, the loop and a caller
  inside the core can be in at once; unless the thread was abandoned, a caller is inside only
  while there is no loop or it is gone. `Budget` says that the frames a waiting `advance`
  counts on are done, still in the budget, or were dropped: the loop counts a frame before
  the budget drops, and the invariant holds between the two. `Flow` says where commands are:
  what waits has not run, only the head of a batch has started, a queued command is in a lane
  or in the batch, and those of one caller and lane are in order. `Behind` says which posts are
  still in the frame lane at each point between the two drains. `Threads` also carries that a loop
  being stopped or abandoned has been told so; without that a frame could still begin in it.
* `HandOverProofs`: `NoTearingAlways`, `PictureOfThisGameAlways`, `NeverBackwardsAlways`,
  `TimedWhenShownAlways` and `MotionOnceAlways`, for any games and any number of pictures,
  events and calls. `Exclusive` says that the three
  slot indices differ; `SameGame` adds that a slot with the present stamp holds a picture of
  the present game unless it is being filled, which is why a stale stamp is enough to
  refuse a picture; `InOrder` orders the serials on the screen, in the reader's slot, in the
  hand-over slot and in the core. `Credited` is for input: whatever numbers a picture carries,
  wherever it is, the motion it was emulated with covers every event of the present window
  queue up to its number, and the motion published is with the core or waiting, once.
* `CdDriveProofs`: `WordOnItsWayAlways`, `PlayingKeepsTimerAlways` and `VisibleOnTickAlways`,
  for every queue size, delay, disc and command sequence. The invariant of the first says
  more than the property about a hidden answer (`OnItsWay` and the Goto that hid it); the
  second needs only the types of the countdowns and the positive delays.
  `HeadsJumpOnlyBySeekAlways` needs that the FIFO's head stays in its sector (`Placed`) and
  that every Goto which moves the heads leaves a seek running. `EdgeLatchedAlways` is the
  safety half of `FifoServed`: an edge that counts as delivered is in the latch, or the
  routine's exit cleared it there.

Only model-checked: the liveness properties (`FrameCompletes`, `RxDelivered`,
`HoldDrains`, `Settles`, `DropReturnsToStock`, `Progress`,
`NewestShown`, `EdgesReachWindow`, `FifoServed`), which need fairness.

## 6. Where the code and its documentation differ

`findings` in `PROJECT.json` quotes the lines. Each has a configuration under which TLC
prints a behaviour when run as `tlc -config X.cfg M`. The configurations with several
claims stop at the first; delete its line for the next.

| Configuration (module) | What happens |
|---|---|
| `NvmBiosFull` (NvmBios) | replacing a file by one that does not fit deletes it and leaves the old checksum: the next Initialize formats the card |
| `EmuThreadAbandoned` (EmuThread) | a `stop` that times out between the two loads of the state makes the caller run its command while the detached thread is inside the core; the application itself is safe, as it stops from the thread that calls |
| `NvmBiosEmpty` (NvmBios) | a write to an empty file lands in block 2, which holds directory entries |
| `MCSaveRamClaims` (MCSaveRam) | `SaveBufferInSync`: ERASE and ERAL change the EEPROM and not the save buffer; `NeverStaleTail`: a loaded state replaces the flash without marking the buffer; `BlankWithoutFile`: without a save file the first frame overwrites the blank EEPROM with zeroes; `StartsClean`: a CD title after the Memory Track cartridge is taken for it and starts with the cartridge's EEPROM, and the frontend saves the flash in place of its EEPROMs |
| `EepromDisable` (Eeprom) | the chip select of the next command undoes EWDS |
| `JLinkNegAck` (JLinkNeg) | one lost reply makes the client give up: a confirmed server does not answer retries |
| `JLinkNegSwap` (JLinkNeg) | one poll accepts a new peer and drops the old one, and the old agreement stays |
| `JLinkNegReset` (JLinkNeg) | a console reset in the middle of a session stays confirmed and drops to stock timing, its peer stays fast, and nothing puts that right until the connection ends |
| `JLinkNegLoad` (JLinkNeg) | a loaded divisor survives the next tick |
| `UartOldState` (Uart) | a state from before the UART chunk leaves a busy flag without its event |
| `UartNoTransport` (Uart) | a state loaded after the link closed brings back a divisor and ring bytes |
| `MCFrameClaims` (MCFrameScheduler) | `SameWallClock`: a timer the guest moves inside a slice makes the two lists lose different times; `CpuIntNotInItsSlice`: a GPU interrupt raised in the middle of a slice is delivered at its end; `NeverDispatchesEmpty`: the guest switches off the timer that won the slice, and the dispatch finds an empty list |
| `MCFrameHalflineLost` (MCFrameScheduler) | GPU interrupts queued inside the halfline callback fill the list and the halfline is dropped: `HalflineQueued`, which `frame` checks until MAIN is flooded, does not hold without that condition |
| `NetplayClaims` (Netplay) | `OpenedAsShown`: a frame between the posts of one call opens the link with the old endpoint, and with `Split = FALSE` and `MaxCalls = 3` so does a stop and a start without a frame between; `ConnectedIsShown`: a restart with the same settings waits for an edge that a link already up never gives |
| `CdDriveClaims` (CdDrive) | seven claims of comments in `cdrom.c` about the drive: Found before Stopped, unread answers kept, answers hidden by nothing but a Goto, the FIFO quiet during a seek, the multi-word flag set for a table of contents only, the refill started with play, the table's next word on its way; and `EveryEdgeServed`: a tick inside the interrupt routine, whose exit then clears the latch of an edge already consumed |

## 7. Not modelled

CPU, GPU and DSP interpreters, blitter, object processor, audio filters and pad decoding
transform data and have no order of events to get wrong beyond what `FrameScheduler`
keeps; the 68000 tables are generated. Image readers, HLE boot, option parsing, debugger
and user interface are parsing, input and output. Reply-wait budgets, statistics and port
mapping of the link, voice, and interrupt outputs are left out of the modules above.
`late_latch.h` and `latch_waker.h` measure time; the agent's side channel, the option
table's snapshot and the hold arbiter of the desktop application, the device, speed and
error texts of its link control, and in the CD drive the HLE stream, the subcode
serializer, double speed and its save-state chunk are left out so far.
`CDROMReadFifoByte`, the BIOS-override read of cartridge space, has no caller and is not
modelled.

## 8. Plan

In this order; each step is a module with its run and its theorems.

1. `JLinkHub`: slots, pending bytes, forwarding and retries of `jlink_tcp.c` for several
   peers, against an abstract broadcast of byte streams; it takes over the two-client
   questions of `JLinkNegHub`. Discovery table and netpacket path after it.
2. The CD drive's save state and the HLE stream in `CdDrive`; the CD EEPROM's serial
   protocol; the refusal of a state of another disc after part of it was loaded.
3. The agent's queue and the hold arbiter of the desktop application.
4. States of the NVM BIOS; JERRY PIT 2 and the UART and CD events in `FrameScheduler`.
5. Bus arbiter and `M68KExecuteWithStalls` as a numeric module; GameDrive.
