------------------------------ MODULE EmuThread ------------------------------
(***************************************************************************)
(* The desktop application's emulation thread: app/src/emu_thread.{h,cpp}  *)
(* and its two command lanes, app/src/emu_commands.h.                      *)
(*                                                                         *)
(* Callers are threads that hand commands over; one owner starts, stops    *)
(* and pauses the thread.  A step is what happens between two points at    *)
(* which another thread can interfere: one critical section of a mutex, or *)
(* one atomic load or store.  Pacing is reduced to "a frame may or may not *)
(* be due"; what commands do to the core, apart from opening or closing    *)
(* the content and advance()'s budget, is left out, and so is the wait     *)
(* hook, which touches none of this state.                                 *)
(***************************************************************************)
EXTENDS Integers, Sequences, SequencesExt

CONSTANTS
    Callers,
    Opened,          \* whether content was opened inline before the first start
    Ns,              \* frame counts callers ask advance() for
    MaxCmds,         \* bound: commands handed over
    MaxStarts        \* bound: calls of start(Threaded)

ASSUME EmuAssumption ==
    Opened \subseteq BOOLEAN /\ Ns \subseteq Nat /\ MaxCmds \in Nat /\ MaxStarts \in Nat

Lanes == {"Frame", "Debug"}
Kinds == {"post", "debugPost", "call", "debugCall", "callFor", "advance"}
Lane(kind) == IF kind \in {"debugPost", "debugCall", "advance"} THEN "Debug" ELSE "Frame"
Ids == 1 .. MaxCmds

VARIABLES
    cmds,            \* every command so far: what was asked, how far it got
    q,               \* q_ and dbg_
    wake, wakeDbg, closed,
    state, stop, finished,
    starting, stopping,    \* where the owner is: inside start() or stop()
    starts,
    pc, batch, budget,     \* where loop() is, the batch it drained, its local budget
    left, done,            \* advanceLeft_, advanceDone_
    paused,
    loaded,          \* what Client::canRun answers
    at, cur,         \* where each caller is, and with which command
    owed,            \* history: frames advance() asked of this thread, less those begun for it
    ahead,           \* history: frame-lane commands queued when a budget was registered, until its first frame
    released         \* history: advances whose frames were dropped because nothing could run

lanes == <<q, wake, wakeDbg, closed>>
life == <<state, stop, finished, starting, stopping, starts>>
loopVars == <<pc, batch, budget>>
frames == <<left, done, loaded, owed, ahead, released>>
callers == <<at, cur>>
vars == <<cmds, lanes, life, loopVars, frames, paused, callers>>

States == {"Inline", "Starting", "Running", "Stopping", "Stopped", "Abandoned"}
\* The drains of loop(): frame lane, debug lane, frame lane again, halt pump, close.
Drains == {"runF", "runD", "runF2", "runH", "runC"}
LoopPoints == Drains \cup {"none", "boot", "ready", "top", "wait", "asleep", "frame",
                           "hwait", "hasleep", "hdrain", "done", "drop", "close", "leave", "gone"}
CallerPoints == {"idle", "advance", "advanceRoute", "entry", "route", "step", "posting",
                 "refused", "core", "waiting", "cas", "check", "recheck", "return"}

Commands == [by : Callers, kind : Kinds, n : Ns \cup {0}, runs : 0 .. 2,
             status : {"new", "queued", "started", "cancelled"}, end : Nat, from : Nat]

TypeOK ==
    /\ cmds \in Seq(Commands) /\ Len(cmds) <= MaxCmds
    /\ q \in [Lanes -> Seq(Ids)] /\ batch \in Seq(Ids)
    /\ {wake, wakeDbg, closed, stop, finished, starting, stopping, budget, paused, loaded}
           \subseteq BOOLEAN
    /\ state \in States /\ starts \in 0 .. MaxStarts
    /\ pc \in LoopPoints
    /\ {left, done} \subseteq Nat /\ owed \in Int
    /\ at \in [Callers -> CallerPoints] /\ cur \in [Callers -> 0 .. MaxCmds]
    /\ ahead \subseteq Ids /\ released \subseteq Ids

Init ==
    /\ cmds = <<>> /\ q = [l \in Lanes |-> <<>>]
    /\ wake = FALSE /\ wakeDbg = FALSE /\ closed = FALSE
    /\ state = "Inline" /\ stop = FALSE /\ finished = FALSE
    /\ starting = FALSE /\ stopping = FALSE /\ starts = 0
    /\ pc = "none" /\ batch = <<>> /\ budget = FALSE
    /\ left = 0 /\ done = 0 /\ paused = FALSE
    /\ loaded \in Opened
    /\ at = [c \in Callers |-> "idle"] /\ cur = [c \in Callers |-> 0]
    /\ owed = 0 /\ ahead = {} /\ released = {}

threaded == state \in {"Running", "Stopping"}
abandoned == state = "Abandoned"

\* A notification reaches a loop that sleeps on the condition variable; it then
\* looks at its predicate again.
Woken(p) == CASE p = "asleep" -> "wait" [] p = "hasleep" -> "hwait" [] OTHER -> p

\* EmuCommands::notify.
Notify == wake' = TRUE /\ wakeDbg' = TRUE /\ pc' = Woken(pc)

------------------------------------------------------------------------------
(* The owner.                                                              *)

\* start(Threaded).  start replaces client_ without a lock, so it is called while
\* no other member is running; false when the operating system has no thread.
Start ==
    /\ state \in {"Inline", "Stopped"} /\ starts < MaxStarts
    /\ \A c \in Callers : at[c] = "idle"
    /\ starts' = starts + 1
    /\ closed' = FALSE /\ wake' = FALSE /\ wakeDbg' = FALSE
    /\ stop' = FALSE /\ finished' = FALSE
    /\ left' = 0 /\ owed' = 0
    /\ \/ state' = "Starting" /\ starting' = TRUE /\ pc' = "boot"
       \/ state' = "Inline" /\ UNCHANGED <<starting, pc>>
    /\ UNCHANGED <<cmds, q, stopping, batch, budget, done, loaded, ahead, released, paused, callers>>

StartReady ==
    /\ starting /\ pc = "ready"
    /\ state' = "Running" /\ starting' = FALSE /\ pc' = "top"
    /\ UNCHANGED <<cmds, lanes, stop, finished, stopping, starts, batch, budget, frames, paused, callers>>

StartInline ==
    /\ state = "Stopped" /\ \A c \in Callers : at[c] = "idle"
    /\ state' = "Inline"
    /\ UNCHANGED <<cmds, lanes, stop, finished, starting, stopping, starts, loopVars, frames, paused,
                   callers>>

Stop ==
    /\ state = "Running"
    /\ state' = "Stopping" /\ stop' = TRUE /\ stopping' = TRUE
    /\ Notify
    /\ UNCHANGED <<cmds, q, closed, finished, starting, starts, batch, budget, frames, paused, callers>>

\* The two ways out of stop()'s wait: finished_, or the time-out that abandons.
StopJoin ==
    /\ stopping /\ finished
    /\ state' = "Stopped" /\ stopping' = FALSE
    /\ UNCHANGED <<cmds, lanes, stop, finished, starting, starts, loopVars, frames, paused, callers>>

StopTimeout ==
    /\ stopping /\ ~finished
    /\ state' = "Abandoned" /\ stopping' = FALSE
    /\ UNCHANGED <<cmds, lanes, stop, finished, starting, starts, loopVars, frames, paused, callers>>

setPaused ==
    /\ ~starting /\ ~stopping
    /\ paused' = ~paused
    /\ Notify
    /\ UNCHANGED <<cmds, q, closed, life, batch, budget, frames, callers>>

\* notifyTick and setFastForward: nothing but the wake-up.
notifyTick ==
    /\ ~starting /\ ~stopping
    /\ Notify
    /\ UNCHANGED <<cmds, q, closed, life, batch, budget, frames, paused, callers>>

------------------------------------------------------------------------------
(* A command's body, on whichever thread runs it.                          *)

\* A budgeted frame that is under way while the halt pump serves the lane.
InFlight == IF pc = "runH" /\ budget THEN 1 ELSE 0

\* What advance() asks for through the debug lane: the count of budgeted frames at
\* which its own are done.
BudgetEnd(n) == done + left + n

\* Open and close go through call() and callFor(); advance()'s body adds to the budget.
RunBody(i) ==
    LET n == cmds[i].n
        isAdvance == cmds[i].kind = "advance"
    IN /\ cmds' = [cmds EXCEPT ![i].runs = @ + 1,
                               ![i].end = IF isAdvance THEN BudgetEnd(n) ELSE 0,
                               ![i].from = IF isAdvance THEN done + InFlight ELSE 0]
       /\ left' = left + n /\ owed' = owed + n
       /\ ahead' = IF isAdvance THEN ahead \cup ToSet(q["Frame"]) ELSE ahead
       /\ loaded' \in IF cmds[i].kind \in {"call", "callFor"} THEN BOOLEAN ELSE {loaded}
       /\ UNCHANGED <<done, released>>

------------------------------------------------------------------------------
(* A caller: post, debugPost, call, debugCall, callFor and advance.        *)

GoTo(c, p) == at' = [at EXCEPT ![c] = p]

Begin(c) ==
    /\ at[c] = "idle" /\ ~starting /\ Len(cmds) < MaxCmds
    /\ \E k \in Kinds : \E n \in IF k = "advance" THEN Ns ELSE {0} :
           /\ cmds' = Append(cmds, [by |-> c, kind |-> k, n |-> n, runs |-> 0, status |-> "new",
                                    end |-> 0, from |-> 0])
           /\ GoTo(c, IF k = "advance" THEN "advance" ELSE "entry")
    /\ cur' = [cur EXCEPT ![c] = Len(cmds) + 1]
    /\ UNCHANGED <<lanes, life, loopVars, frames, paused>>

Kind(c) == cmds[cur[c]].kind

\* advance() has a look of its own before it queues anything: not threaded, it runs
\* its frames here if it can.
AdvanceEntry(c) ==
    /\ \/ at[c] = "advance" /\ GoTo(c, IF abandoned THEN "idle" ELSE "advanceRoute")
       \/ /\ at[c] = "advanceRoute"
          /\ GoTo(c, CASE threaded -> "entry"
                       [] ~threaded /\ loaded /\ cmds[cur[c]].n > 0 -> "step"
                       [] OTHER -> "idle")
    /\ UNCHANGED <<cmds, lanes, life, loopVars, frames, paused, cur>>

\* The first line of post and submit: abandoned() is loaded, and threaded() only later.
CheckAbandoned(c) ==
    /\ at[c] = "entry"
    /\ GoTo(c, IF abandoned THEN "idle" ELSE "route")
    /\ UNCHANGED <<cmds, lanes, life, loopVars, frames, paused, cur>>

\* Not threaded: the caller runs the command.  call() asks its give-up predicate, if
\* it has one, before anything is queued; here the predicate may answer anything, so
\* a call without one is a call whose predicate never answers true.
Route(c) ==
    /\ at[c] = "route"
    /\ \/ threaded /\ GoTo(c, "posting") /\ UNCHANGED cmds
       \/ threaded /\ Kind(c) = "call" /\ GoTo(c, "idle") /\ UNCHANGED cmds
       \/ /\ ~threaded
          /\ cmds' = [cmds EXCEPT ![cur[c]].status = "started"]
          /\ GoTo(c, "core")
    /\ UNCHANGED <<lanes, life, loopVars, frames, paused, cur>>

\* inlineStep: no frame once the thread is running or abandoned.
inlineStep(c) ==
    /\ at[c] = "step"
    /\ GoTo(c, IF threaded \/ abandoned THEN "idle" ELSE "core")
    /\ UNCHANGED <<cmds, lanes, life, loopVars, frames, paused, cur>>

\* Mutant of the notification: a post that leaves the sleeper asleep.
PostUnnoticed(c) ==
    /\ at[c] = "posting" /\ ~closed
    /\ q' = [q EXCEPT ![Lane(Kind(c))] = Append(@, cur[c])]
    /\ cmds' = [cmds EXCEPT ![cur[c]].status = "queued"]
    /\ GoTo(c, IF Kind(c) \in {"post", "debugPost"} THEN "idle" ELSE "waiting")
    /\ UNCHANGED <<wake, wakeDbg, closed, pc, life, batch, budget, frames, paused, cur>>

\* EmuCommands::post, under mu_, and its notification.
Post(c) ==
    LET i == cur[c]
        lane == Lane(Kind(c))
    IN /\ at[c] = "posting"
       /\ IF closed
          THEN GoTo(c, "refused") /\ UNCHANGED <<cmds, lanes, pc>>
          ELSE /\ q' = [q EXCEPT ![lane] = Append(@, i)]
               /\ wake' = TRUE /\ wakeDbg' = (wakeDbg \/ lane = "Debug")
               /\ pc' = Woken(pc)
               /\ cmds' = [cmds EXCEPT ![i].status = "queued"]
               /\ GoTo(c, IF Kind(c) \in {"post", "debugPost"} THEN "idle" ELSE "waiting")
               /\ UNCHANGED closed
       /\ UNCHANGED <<life, batch, budget, frames, paused, cur>>

\* Mutant of waitFinished: a refused command runs on its caller at once.
RunWhenRefused(c) ==
    /\ at[c] = "refused"
    /\ cmds' = [cmds EXCEPT ![cur[c]].status = "started"]
    /\ GoTo(c, "core")
    /\ UNCHANGED <<lanes, life, loopVars, frames, paused, cur>>

\* waitFinished, then the command on the caller unless the thread was abandoned.
\* finished_ and Abandoned are both decided under mu_, so one excludes the other.
WaitFinished(c) ==
    /\ at[c] = "refused"
    /\ \/ abandoned /\ GoTo(c, "idle") /\ UNCHANGED cmds
       \/ /\ finished /\ ~abandoned
          /\ cmds' = [cmds EXCEPT ![cur[c]].status = "started"]
          /\ GoTo(c, "core")
    /\ UNCHANGED <<lanes, life, loopVars, frames, paused, cur>>

\* The caller runs the body.  An advance() whose inline frames ran returns; one
\* whose budget was refused by the queue has registered it here, and goes on.
RunOnCaller(c) ==
    /\ at[c] = "core"
    /\ IF cmds[cur[c]].status = "started"
       THEN /\ RunBody(cur[c])
            /\ GoTo(c, IF Kind(c) = "advance" /\ ~abandoned THEN "check" ELSE "idle")
       ELSE GoTo(c, "idle") /\ UNCHANGED <<cmds, frames>>
    /\ UNCHANGED <<lanes, life, loopVars, paused, cur>>

\* submit() and callFor() waiting for the future: the answer, the abandonment
\* (which callFor does not look for), callFor's time-out.
Answered(c) ==
    /\ at[c] = "waiting" /\ cmds[cur[c]].runs > 0
    /\ GoTo(c, IF Kind(c) = "advance" /\ ~abandoned THEN "check" ELSE "idle")
    /\ UNCHANGED <<cmds, lanes, life, loopVars, frames, paused, cur>>

WaitAbandoned(c) ==
    /\ at[c] = "waiting" /\ cmds[cur[c]].runs = 0 /\ abandoned /\ Kind(c) # "callFor"
    /\ GoTo(c, "idle")
    /\ UNCHANGED <<cmds, lanes, life, loopVars, frames, paused, cur>>

CallForTimeout(c) ==
    /\ at[c] = "waiting" /\ cmds[cur[c]].runs = 0 /\ Kind(c) = "callFor"
    /\ GoTo(c, "idle")
    /\ UNCHANGED <<cmds, lanes, life, loopVars, frames, paused, cur>>

\* The give-up predicate answers true for a task seen queued; the compare-and-swap
\* comes after that, and loses to a drain that came first.
GiveUp(c) ==
    /\ at[c] = "waiting" /\ Kind(c) = "call" /\ cmds[cur[c]].status = "queued"
    /\ GoTo(c, "cas")
    /\ UNCHANGED <<cmds, lanes, life, loopVars, frames, paused, cur>>

Cancel(c) ==
    /\ at[c] = "cas"
    /\ IF cmds[cur[c]].status = "queued"
       THEN cmds' = [cmds EXCEPT ![cur[c]].status = "cancelled"] /\ GoTo(c, "idle")
       ELSE GoTo(c, "waiting") /\ UNCHANGED cmds
    /\ UNCHANGED <<lanes, life, loopVars, frames, paused, cur>>

\* advance()'s wait: its predicate loads advanceDone_, then the rest; the result is
\* a third load.
AdvanceCheck(c) ==
    /\ at[c] = "check"
    /\ GoTo(c, IF done >= cmds[cur[c]].end THEN "return" ELSE "recheck")
    /\ UNCHANGED <<cmds, lanes, life, loopVars, frames, paused, cur>>

AdvanceRecheck(c) ==
    /\ at[c] = "recheck"
    /\ GoTo(c, IF left = 0 \/ finished \/ abandoned THEN "return" ELSE "check")
    /\ UNCHANGED <<cmds, lanes, life, loopVars, frames, paused, cur>>

AdvanceGiveUp(c) ==
    /\ at[c] = "recheck" /\ ~(left = 0 \/ finished \/ abandoned)
    /\ GoTo(c, "idle")
    /\ UNCHANGED <<cmds, lanes, life, loopVars, frames, paused, cur>>

AdvanceReturn(c) ==
    /\ at[c] = "return"
    /\ GoTo(c, "idle")
    /\ UNCHANGED <<cmds, lanes, life, loopVars, frames, paused, cur>>

------------------------------------------------------------------------------
(* The emulation thread: loop().                                           *)

Boot ==
    /\ pc = "boot" /\ pc' = "ready"
    /\ UNCHANGED <<cmds, lanes, life, batch, budget, frames, paused, callers>>

\* EmuCommands::drain takes the whole lane at once and runs it without the lock.
Drain(lane, next) ==
    /\ batch' = q[lane] /\ q' = [q EXCEPT ![lane] = <<>>]
    /\ pc' = next
    /\ UNCHANGED <<cmds, wake, wakeDbg, closed, life, budget, frames, paused, callers>>

DrainFrame == pc = "top" /\ ~stop /\ Drain("Frame", "runF")
DrainDebug == pc = "runF" /\ batch = <<>> /\ Drain("Debug", "runD")
DrainFrameAgain == pc = "runD" /\ batch = <<>> /\ left > 0 /\ Drain("Frame", "runF2")

\* runOne: the drain's compare-and-swap, which skips a cancelled task, then the body.
StartCommand ==
    /\ pc \in Drains /\ batch # <<>>
    /\ \/ /\ cmds[Head(batch)].status = "queued"
          /\ cmds' = [cmds EXCEPT ![Head(batch)].status = "started"] /\ UNCHANGED batch
       \/ /\ cmds[Head(batch)].status = "cancelled"
          /\ batch' = Tail(batch) /\ UNCHANGED cmds
    /\ UNCHANGED <<lanes, life, pc, budget, frames, paused, callers>>

RunCommand ==
    /\ pc \in Drains /\ batch # <<>> /\ cmds[Head(batch)].status = "started"
    /\ RunBody(Head(batch))
    /\ batch' = Tail(batch)
    /\ UNCHANGED <<lanes, life, pc, budget, paused, callers>>

\* Mutant: the frame lane is not drained again for a budget.
DrainedOnce == batch = <<>> /\ pc \in {"runD", "runF2"}

\* Both lanes are drained: end, sleep, or run a frame.  A budget nothing can run is
\* released; one that something can run ignores the pause and the pacing.
Drained ==
    /\ batch = <<>>
    /\ (pc = "runD" /\ left = 0) \/ pc = "runF2"

Break ==
    /\ Drained /\ stop /\ pc' = "close"
    /\ UNCHANGED <<cmds, lanes, life, batch, budget, frames, paused, callers>>

Release ==
    /\ Drained /\ ~stop /\ ~loaded
    /\ released' = IF left > 0 THEN {i \in DOMAIN cmds : cmds[i].kind = "advance" /\ cmds[i].runs > 0}
                               ELSE released
    /\ left' = 0 /\ pc' = "wait"
    /\ UNCHANGED <<cmds, lanes, life, batch, budget, done, loaded, owed, ahead, paused, callers>>

\* Paused, or the frame is not due yet; the last stretch before it is a plain sleep.
NotDue ==
    /\ Drained /\ ~stop /\ loaded /\ left = 0
    /\ pc' = "wait" \/ (~paused /\ pc' = "top")
    /\ UNCHANGED <<cmds, lanes, life, batch, budget, frames, paused, callers>>

StartFrame ==
    /\ Drained /\ ~stop /\ loaded /\ (left > 0 \/ ~paused)
    /\ budget' = (left > 0) /\ pc' = "frame"
    /\ owed' = owed - (IF left > 0 THEN 1 ELSE 0)
    /\ ahead' = IF left > 0 THEN {} ELSE ahead
    /\ UNCHANGED <<cmds, lanes, life, batch, left, done, loaded, released, paused, callers>>

\* waitUntil(deadline): asleep unless something was posted or notified since.
Wait ==
    /\ pc = "wait"
    /\ IF wake \/ q["Frame"] # <<>> \/ q["Debug"] # <<>>
       THEN wake' = FALSE /\ pc' = "top"
       ELSE pc' = "asleep" /\ UNCHANGED wake
    /\ UNCHANGED <<cmds, q, wakeDbg, closed, life, batch, budget, frames, paused, callers>>

WaitTimeout ==
    /\ pc = "asleep" /\ wake' = FALSE /\ pc' = "top"
    /\ UNCHANGED <<cmds, q, wakeDbg, closed, life, batch, budget, frames, paused, callers>>

\* serveDebugLane, called by the halt pump inside a frame: drain, and if there was
\* nothing wait for a debug post and drain once more.  An abandoned thread's pump
\* serves nobody.
ServeDebugLane ==
    \/ pc = "frame" /\ ~abandoned /\ Drain("Debug", IF q["Debug"] = <<>> THEN "hwait" ELSE "runH")
    \/ pc = "hdrain" /\ Drain("Debug", "runH")
    \/ /\ pc = "runH" /\ batch = <<>> /\ pc' = "frame"
       /\ UNCHANGED <<cmds, lanes, life, batch, budget, frames, paused, callers>>

HaltWait ==
    /\ pc = "hwait"
    /\ IF wakeDbg \/ q["Debug"] # <<>>
       THEN wakeDbg' = FALSE /\ pc' = "hdrain"
       ELSE pc' = "hasleep" /\ UNCHANGED wakeDbg
    /\ UNCHANGED <<cmds, q, wake, closed, life, batch, budget, frames, paused, callers>>

HaltTimeout ==
    /\ pc = "hasleep" /\ wakeDbg' = FALSE /\ pc' = "hdrain"
    /\ UNCHANGED <<cmds, q, wake, closed, life, batch, budget, frames, paused, callers>>

\* runFrame returns; a budgeted frame is counted before the budget drops.
EndFrame ==
    /\ pc = "frame" /\ pc' = IF budget THEN "done" ELSE "top"
    /\ UNCHANGED <<cmds, lanes, life, batch, budget, frames, paused, callers>>

\* Mutant: the budget drops before the frame is counted.
AccountFrameBackwards ==
    /\ \/ pc = "done" /\ left' = left - 1 /\ pc' = "drop" /\ UNCHANGED <<done, budget>>
       \/ pc = "drop" /\ done' = done + 1 /\ budget' = FALSE /\ pc' = "top" /\ UNCHANGED left
    /\ UNCHANGED <<cmds, lanes, life, batch, loaded, owed, ahead, released, paused, callers>>

\* Two atomics, in this order: advance() reads advanceDone_ once the budget is 0.
AccountFrame ==
    /\ \/ pc = "done" /\ done' = done + 1 /\ pc' = "drop" /\ UNCHANGED <<left, budget>>
       \/ pc = "drop" /\ left' = left - 1 /\ budget' = FALSE /\ pc' = "top" /\ UNCHANGED done
    /\ UNCHANGED <<cmds, lanes, life, batch, loaded, owed, ahead, released, paused, callers>>

LeaveLoop ==
    /\ pc = "top" /\ stop /\ pc' = "close"
    /\ UNCHANGED <<cmds, lanes, life, batch, budget, frames, paused, callers>>

\* Mutant: closes after one round, whatever arrived while the round ran.
CloseAfterOneRound ==
    /\ \/ /\ pc = "close" /\ pc' = "runC" /\ UNCHANGED closed
          /\ batch' = q["Frame"] \o q["Debug"] /\ q' = [l \in Lanes |-> <<>>]
       \/ pc = "runC" /\ batch = <<>> /\ closed' = TRUE /\ pc' = "leave" /\ UNCHANGED <<q, batch>>
    /\ UNCHANGED <<cmds, wake, wakeDbg, life, budget, frames, paused, callers>>

\* closeAndDrain: rounds over both lanes until one finds them empty, which closes.
CloseAndDrain ==
    /\ pc = "close" \/ (pc = "runC" /\ batch = <<>>)
    /\ batch' = q["Frame"] \o q["Debug"] /\ q' = [l \in Lanes |-> <<>>]
    /\ closed' = (batch' = <<>>) /\ pc' = IF batch' = <<>> THEN "leave" ELSE "runC"
    /\ UNCHANGED <<cmds, wake, wakeDbg, life, budget, frames, paused, callers>>

Finish ==
    /\ pc = "leave" /\ finished' = TRUE /\ pc' = "gone"
    /\ UNCHANGED <<cmds, lanes, state, stop, starting, stopping, starts, batch, budget, frames, paused,
                   callers>>

------------------------------------------------------------------------------

LoopStep ==
    \/ Boot \/ DrainFrame \/ DrainDebug \/ DrainFrameAgain \/ StartCommand \/ RunCommand
    \/ Break \/ Release \/ NotDue \/ StartFrame \/ Wait \/ ServeDebugLane \/ HaltWait
    \/ HaltTimeout \/ EndFrame \/ AccountFrame \/ LeaveLoop \/ CloseAndDrain \/ Finish

CallerStep(c) ==
    \/ AdvanceEntry(c) \/ CheckAbandoned(c) \/ Route(c) \/ inlineStep(c) \/ Post(c)
    \/ WaitFinished(c) \/ RunOnCaller(c) \/ Answered(c) \/ WaitAbandoned(c) \/ Cancel(c)
    \/ AdvanceCheck(c) \/ AdvanceRecheck(c) \/ AdvanceReturn(c)

Next ==
    \/ Start \/ StartReady \/ StartInline \/ Stop \/ StopJoin \/ StopTimeout \/ setPaused \/ notifyTick
    \/ LoopStep \/ WaitTimeout
    \/ \E c \in Callers : \/ Begin(c) \/ CallerStep(c)
                          \/ CallForTimeout(c) \/ GiveUp(c) \/ AdvanceGiveUp(c)

\* Every thread is scheduled, a halt ends and the core returns from its frame.
\* Nothing is assumed of the time-outs of stop(), callFor() and the idle wait.
Fairness ==
    /\ WF_vars(LoopStep) /\ SF_vars(EndFrame)
    /\ WF_vars(StartReady) /\ WF_vars(StopJoin)
    /\ \A c \in Callers : WF_vars(CallerStep(c))

Spec == Init /\ [][Next]_vars /\ Fairness

------------------------------------------------------------------------------

\* While a caller is inside the core the emulation thread is not: it has not been
\* started, or has left its loop for good (waitFinished, submit's run-it-here path).
\* Abandonment is the exception, see AbandonedLeftAlone.
EmuOwnsCore ==
    (\E c \in Callers : at[c] = "core") /\ ~abandoned => pc \in {"none", "gone"}

\* Every accepted command runs exactly once or was given up before it started: a
\* given-up one never runs (its captures may be dead), none is left when the thread
\* has finished, and one caller's commands in one lane run in the order posted.
Delivery ==
    /\ \A i \in DOMAIN cmds : cmds[i].runs <= IF cmds[i].status = "started" THEN 1 ELSE 0
    /\ finished => \A i \in DOMAIN cmds : cmds[i].status # "queued"
    /\ ~abandoned => \A j \in DOMAIN cmds : \A i \in 1 .. j - 1 :
          (/\ cmds[i].by = cmds[j].by /\ Lane(cmds[i].kind) = Lane(cmds[j].kind)
           /\ cmds[j].status = "started") => cmds[i].status # "queued"

\* A frame begun for an advance() comes after every frame-lane command that was
\* queued when the budget was registered (loop's second frame-lane drain).
BudgetBehindPosts ==
    [][StartFrame /\ budget' => \A i \in ahead : cmds[i].status # "queued"]_vars

\* What advance() answers is true: TRUE only after n frames begun after it asked, FALSE
\* only if the frames were dropped or the thread ended; and a thread runs no budgeted
\* frame nobody asked it for, even after a stop with frames still owed.
AdvanceHonest ==
    /\ \A c \in Callers : at[c] = "return" =>
          LET m == cmds[cur[c]]
          IN IF done >= m.end THEN done - m.from >= m.n
             ELSE finished \/ abandoned \/ cur[c] \in released
    /\ owed >= 0

Queued(i) == i \in DOMAIN cmds /\ cmds[i].status = "queued"

\* A queued command is applied or cancelled without the help of a time-out, and no
\* caller waits for ever.
Progress ==
    /\ \A i \in Ids : Queued(i) ~> ~Queued(i)
    /\ \A c \in Callers : (at[c] # "idle") ~> (at[c] = "idle")

\* emu_thread.h: once abandoned, a call returns "without running anything".
AbandonedLeftAlone == (\E c \in Callers : at[c] = "core") => pc \in {"none", "gone"}
=============================================================================
