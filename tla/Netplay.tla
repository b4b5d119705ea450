-------------------------------- MODULE Netplay --------------------------------
(***************************************************************************)
(* Link play as the desktop application drives it: app/src/netplay.cpp on  *)
(* the UI thread asks for a mode and an endpoint through session overrides *)
(* (core_host.cpp), the core re-reads its options at the start of a frame  *)
(* and reports link edges at the end of one (libretro.c), and its events   *)
(* come back through CoreEventQueue (emu_snapshot.h).                      *)
(*                                                                         *)
(* Every override is a command of its own in the emulation thread's lane   *)
(* (EmuThread): a frame may run between two of them.  The core answers the *)
(* event channel (eventsActive); the device, the speed, the statistics and *)
(* the error texts are left out.                                           *)
(*                                                                         *)
(* NetInit, NetNext, NetSpec and NetTypeOK carry the component's name:     *)
(* LinkProofs extends this module beside Uart.                             *)
(***************************************************************************)
EXTENDS Naturals, FiniteSets, SequencesExt

CONSTANTS
    Hosts, Ports,
    Default,         \* the host and the port a cleared override leaves
    Split,           \* whether the lane may be drained between two commands of one call
    MaxLogs,         \* kMaxLogs: log lines CoreEventQueue holds, 512 in the code
    MaxCalls,        \* bound: calls of start and stop
    MaxLoads,        \* bound: content opened or closed
    MaxEdges         \* bound: link edges of the peer's making

ASSUME NetplayAssumption ==
    Split \in BOOLEAN /\ Default \notin Hosts \cup Ports /\ MaxLogs \in Nat \ {0} /\ {MaxCalls, MaxLoads, MaxEdges} \subseteq Nat

\* What the user can ask for: NetSettings, as the options netplay sets.
Off == [mode |-> "disabled", host |-> Default, port |-> Default]
Settings == [mode : {"tcp_server"}, host : {Default}, port : Ports]
            \cup [mode : {"tcp_client"}, host : Hosts, port : Ports]
Options == Settings \cup [mode : {"disabled", "tcp_server", "tcp_client"},
                          host : Hosts \cup {Default}, port : Ports \cup {Default}]

VARIABLES
    want,            \* want_
    applied,         \* applied_ while appliedValid_, else Off
    state,           \* state_
    bouncing,        \* bouncing_; the target is want_
    ran,             \* frameCount() - bounceFrom_, up to bounceNeed_
    minEpoch,        \* minEpoch_, the newest of uiEpoch_
    todo,            \* commands the UI thread is about to post
    lane,            \* the frame lane
    emu,             \* where the emulation thread is
    loaded,
    opts,            \* sessionValues_ (over defaults)
    epoch,           \* CoreHost::epoch_
    link,            \* the link as it was opened; JLinkMode() is its mode
    connected,       \* JLinkConnected()
    wasUp,           \* netlink_was_up: "unset", "down", "up"
    events,          \* uiEvents_
    evidence,        \* history: the options the core had when it said the UP that is shown
    told,            \* history: the last thing the core said of the link under the newest epoch
    calls, loads, edges

ui == <<want, applied, state, bouncing, minEpoch, evidence>>
core == <<opts, epoch, link, connected, wasUp, loaded>>
netVars == <<ui, ran, todo, lane, emu, core, events, told, calls, loads, edges>>

NetInit ==
    /\ want = Off /\ applied = Off /\ state = "Off" /\ bouncing = FALSE /\ ran = 0
    /\ minEpoch = 0 /\ todo = <<>> /\ lane = <<>>
    /\ emu = "top" /\ loaded \in BOOLEAN
    /\ opts = Off /\ epoch = 0 /\ link = Off /\ connected = FALSE /\ wasUp = "unset"
    /\ events = <<>> /\ evidence = Off /\ told = "nothing"
    /\ calls = 0 /\ loads = 0 /\ edges = 0

------------------------------------------------------------------------------
(* The UI thread.                                                          *)

\* Mutant: one frame, as if none could be running when the command is queued.
bounceNeedOne == 1

\* bounceNeed_ when threaded.
bounceNeed == 3

Override(key, value) == [key |-> key, value |-> value]

\* eventEpochBump: the UI thread's number at once, the core's in its turn.
EpochBump == [key |-> "epoch", value |-> minEpoch + 1]

\* Mutant: the epoch is bumped before the settings are sent.
ApplyEpochFirst(s) ==
    /\ todo' = <<EpochBump, Override("mode", s.mode), Override("host", s.host), Override("port", s.port)>>
    /\ want' = s /\ applied' = s
    /\ state' = "Waiting" /\ evidence' = Off
    /\ minEpoch' = minEpoch + 1 /\ told' = "nothing"

\* applyNow: the mode, the host, the port, the new epoch.
ApplyNow(s) ==
    /\ todo' = <<Override("mode", s.mode), Override("host", s.host), Override("port", s.port), EpochBump>>
    /\ want' = s /\ applied' = s
    /\ state' = "Waiting" /\ evidence' = Off
    /\ minEpoch' = minEpoch + 1 /\ told' = "nothing"

\* start: a changed endpoint goes through "disabled" first, if a game is loaded.
Start(s) ==
    /\ todo = <<>> /\ calls < MaxCalls
    /\ calls' = calls + 1
    /\ \/ /\ applied \notin {Off, s} /\ loaded
          /\ todo' = <<Override("mode", "disabled"), EpochBump>>
          /\ want' = s /\ bouncing' = TRUE /\ ran' = 0
          /\ state' = "Waiting" /\ evidence' = Off
          /\ minEpoch' = minEpoch + 1 /\ told' = "nothing"
          /\ UNCHANGED applied
       \/ /\ applied \in {Off, s} \/ ~loaded
          /\ bouncing' = FALSE
          /\ ApplyNow(s)
          /\ UNCHANGED ran
    /\ UNCHANGED <<lane, emu, core, events, loads, edges>>

\* stop and clearAll.
Stop ==
    /\ todo = <<>> /\ calls < MaxCalls /\ want # Off
    /\ calls' = calls + 1
    /\ todo' = <<Override("mode", Off.mode), Override("host", Default), Override("port", Default), EpochBump>>
    /\ want' = Off /\ applied' = Off /\ bouncing' = FALSE
    /\ state' = "Off" /\ evidence' = Off
    /\ minEpoch' = minEpoch + 1 /\ told' = "nothing"
    /\ UNCHANGED <<ran, lane, emu, core, events, loads, edges>>

\* CoreHost::queue posts one command.
Post ==
    /\ todo # <<>>
    /\ lane' = Append(lane, Head(todo)) /\ todo' = Tail(todo)
    /\ UNCHANGED <<ui, ran, emu, core, events, told, calls, loads, edges>>

\* afterFrame.
AfterFrame ==
    /\ todo = <<>> /\ bouncing /\ ran >= bounceNeed
    /\ bouncing' = FALSE
    /\ ApplyNow(want)
    /\ UNCHANGED <<ran, lane, emu, core, events, calls, loads, edges>>

\* The last of some positions.
LastOf(at) == CHOOSE i \in at : \A j \in at : j <= i

\* onUiEvent, onCoreLog, onCoreEvent: what is not ignored.
Heard(e) == e.epoch >= minEpoch /\ want # Off /\ ~bouncing /\ e.kind # "noise"

\* What the window shows after the last event it heard, with wasShown for the link
\* being shown as up before that one.
Shown(e, wasShown) ==
    CASE e.kind = "up"   -> [state |-> "Up", evidence |-> e.opts]
      [] e.kind = "down" -> [state |-> IF wasShown THEN "Lost" ELSE "Waiting", evidence |-> Off]
      [] e.kind = "open" -> [state |-> "Waiting", evidence |-> Off]

\* pinSnapshot.
Pin ==
    /\ todo = <<>> /\ events # <<>>
    /\ LET heard  == {i \in DOMAIN events : Heard(events[i])}
           last   == LastOf(heard)
           before == heard \ {last}
           shown  == IF heard = {} THEN [state |-> state, evidence |-> evidence]
                     ELSE Shown(events[last], IF before = {} THEN state = "Up"
                                              ELSE events[LastOf(before)].kind = "up")
       IN state' = shown.state /\ evidence' = shown.evidence
    /\ events' = <<>>
    /\ UNCHANGED <<want, applied, bouncing, minEpoch, ran, todo, lane, emu, core, told,
                   calls, loads, edges>>

------------------------------------------------------------------------------
(* The emulation thread and the core.                                      *)

\* applyOverride, and the queued half of eventEpochBump: what the commands leave of the
\* old value of a key; the last one that sets it wins.
Obeyed(cmds, key, old) ==
    LET at == {i \in DOMAIN cmds : cmds[i].key = key}
    IN  IF at = {} THEN old ELSE cmds[LastOf(at)].value

ObeyedOptions(cmds) == [key \in DOMAIN opts |-> Obeyed(cmds, key, opts[key])]

Drain ==
    /\ emu = "top" /\ (Split \/ todo = <<>>)
    /\ emu' = "drained"
    /\ opts' = ObeyedOptions(lane)
    /\ epoch' = Obeyed(lane, "epoch", epoch)
    /\ lane' = <<>>
    /\ UNCHANGED <<ui, ran, todo, link, connected, wasUp, loaded, events, told, calls, loads, edges>>

\* Paused, or no frame is due.
NoFrame ==
    /\ emu = "drained" /\ emu' = "top"
    /\ UNCHANGED <<ui, ran, todo, lane, core, events, told, calls, loads, edges>>

\* netlink_apply and UARTSetLinkMode: only a change of mode opens the link, which
\* keeps the endpoint it is opened with.
Applied(o) == IF o.mode = link.mode THEN link ELSE IF o.mode = "disabled" THEN Off ELSE o

\* retro_run as far as check_variables.
BeginFrame ==
    /\ emu = "drained" /\ loaded
    /\ emu' = "frame"
    /\ link' = Applied(opts)
    /\ connected' = (connected /\ link' = link)
    /\ UNCHANGED <<ui, ran, todo, lane, opts, epoch, wasUp, loaded, events, told, calls, loads, edges>>

Event(kind) == [kind |-> kind, epoch |-> epoch, opts |-> opts]
IsLog(e) == e.kind \in {"open", "noise"}

\* Mutant: the queue makes room by dropping whatever is oldest.
PushedDroppingAny(q, e) ==
    IF IsLog(e) /\ Len(q) >= MaxLogs THEN Append(Tail(q), e) ELSE Append(q, e)

\* CoreEventQueue::push: too many lines drop the oldest line, never an event.
Pushed(q, e) ==
    LET logs == {i \in DOMAIN q : IsLog(q[i])}
    IN  IF IsLog(e) /\ Cardinality(logs) >= MaxLogs
        THEN Append(RemoveAt(q, CHOOSE i \in logs : \A j \in logs : i <= j), e)
        ELSE Append(q, e)

\* The edge report at the end of retro_run, among other log lines.
EdgeKind ==
    CASE link.mode = "disabled" -> "none"
      [] link.mode # "disabled" /\ connected' /\ wasUp # "up"   -> "up"
      [] link.mode # "disabled" /\ ~connected' /\ wasUp = "up"  -> "down"
      [] link.mode # "disabled" /\ ~connected' /\ wasUp = "unset" -> "open"
      [] OTHER -> "none"

EndFrame ==
    /\ emu = "frame"
    /\ emu' = "top"
    /\ \/ UNCHANGED <<connected, edges>>
       \/ /\ link.mode # "disabled" /\ edges < MaxEdges
          /\ connected' = ~connected /\ edges' = edges + 1
    /\ wasUp' = IF link.mode = "disabled" THEN "unset" ELSE IF connected' THEN "up" ELSE "down"
    /\ told' = IF EdgeKind = "none" \/ epoch # minEpoch THEN told ELSE EdgeKind
    /\ LET said == IF EdgeKind = "none" THEN events ELSE Pushed(events, Event(EdgeKind))
       IN events' \in {said, Pushed(said, Event("noise"))}
    /\ ran' = IF bouncing /\ todo = <<>> /\ ran < bounceNeed THEN ran + 1 ELSE ran
    /\ UNCHANGED <<ui, todo, lane, opts, epoch, link, loaded, calls, loads>>

\* Content is opened or closed by a call() behind what is in the lane: the core is
\* taken down (retro_deinit closes the link, silently), what it said is dropped,
\* and its frame count starts again.  A load reads the options.
Load(open) ==
    /\ todo = <<>> /\ emu = "top" /\ loads < MaxLoads
    /\ open \/ loaded
    /\ loads' = loads + 1
    /\ opts' = ObeyedOptions(lane)
    /\ epoch' = Obeyed(lane, "epoch", epoch)
    /\ link' = IF open THEN opts' ELSE Off
    /\ lane' = <<>>
    /\ loaded' = open
    /\ connected' = FALSE /\ wasUp' = "unset"
    /\ events' = IF open THEN <<>> ELSE events
    /\ told' = "nothing"
    /\ ran' \in IF open /\ bouncing THEN {0, bounceNeed} ELSE {ran}
    /\ UNCHANGED <<ui, todo, emu, calls, edges>>

NetNext ==
    \/ \E s \in Settings : Start(s)
    \/ Stop \/ Post \/ AfterFrame \/ Pin
    \/ Drain \/ NoFrame \/ BeginFrame \/ EndFrame
    \/ \E open \in BOOLEAN : Load(open)

\* The UI loop goes round; the emulation thread drains its lanes and, unless it is
\* paused for good, runs frames.
NetFairness ==
    /\ WF_netVars(Post) /\ WF_netVars(AfterFrame) /\ WF_netVars(Pin)
    /\ WF_netVars(Drain) /\ WF_netVars(EndFrame) /\ SF_netVars(BeginFrame)

NetSpec == NetInit /\ [][NetNext]_netVars /\ NetFairness

------------------------------------------------------------------------------

NetTypeOK ==
    /\ {want, applied, opts, link, evidence} \subseteq Options
    /\ state \in {"Off", "Waiting", "Up", "Lost"}
    /\ bouncing \in BOOLEAN /\ ran \in 0 .. bounceNeed
    /\ minEpoch \in Nat /\ epoch \in 0 .. minEpoch
    /\ emu \in {"top", "drained", "frame"}
    /\ wasUp \in {"unset", "down", "up"} /\ {loaded, connected} \subseteq BOOLEAN
    /\ \A i \in DOMAIN events : events[i].kind \in {"up", "down", "open", "noise"}

\* "A LINK_UP from the previous session must not mark the new one up"
\* (netplay_test.cpp): Up is shown only on the word of a core that had all the
\* options of the session shown, however far the lane and the queue are behind.
UpIsThisSession == state = "Up" => evidence = want

\* An endpoint change really goes through a closed link: when the new settings
\* are sent, the core has closed what it had open, although a frame may have been
\* running when "disabled" was queued and a reload may restart the count.
BounceClosesLink == [][bouncing /\ ~bouncing' /\ want' = want => link.mode = "disabled"]_netVars

\* Once the user leaves the settings and the content alone, what the core says of
\* the link under the newest epoch is what the window comes to show, until it
\* says something else.
Idle == calls = MaxCalls /\ loads = MaxLoads
EdgesReachWindow ==
    /\ Idle /\ ~bouncing /\ told = "up" ~> state = "Up" \/ told # "up" \/ bouncing
    /\ Idle /\ ~bouncing /\ told = "down" ~> state \in {"Lost", "Waiting"} \/ told # "down" \/ bouncing

------------------------------------------------------------------------------
\* Everything asked has reached the core, another frame would change nothing, and
\* everything said has reached the window.
Quiet ==
    /\ todo = <<>> /\ lane = <<>> /\ ~bouncing /\ events = <<>>
    /\ emu = "top" /\ loaded /\ wasUp # "unset" /\ Applied(opts) = link

\* "A new host or port needs the bounce" (netplay.cpp, start): the link is open
\* to the endpoint the window shows.
OpenedAsShown == Quiet /\ want # Off => link = want

\* The bounce is there because a switch from one connected link to another "would
\* never report the new one": a connected link is shown as one.
ConnectedIsShown == Quiet /\ want # Off /\ wasUp = "up" => state = "Up"
=============================================================================
