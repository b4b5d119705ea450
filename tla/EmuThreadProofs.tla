-------------------------- MODULE EmuThreadProofs --------------------------
(***************************************************************************)
(* The safety properties of the emulation thread for any number of         *)
(* callers, commands, starts and frames.                                   *)
(***************************************************************************)
EXTENDS EmuThread, SequenceTheorems, TLAPS

Statuses == {"new", "queued", "started", "cancelled"}
Command == [by : Callers, kind : Kinds, n : Ns \cup {0}, runs : Nat,
            status : Statuses, end : Nat, from : Nat]

\* The types, but for how often a command may run.
Types ==
    /\ cmds \in Seq(Command) /\ Len(cmds) <= MaxCmds
    /\ q \in [Lanes -> Seq(Ids)] /\ batch \in Seq(Ids)
    /\ wake \in BOOLEAN /\ wakeDbg \in BOOLEAN /\ closed \in BOOLEAN
    /\ stop \in BOOLEAN /\ finished \in BOOLEAN /\ starting \in BOOLEAN /\ stopping \in BOOLEAN
    /\ budget \in BOOLEAN /\ paused \in BOOLEAN /\ loaded \in BOOLEAN
    /\ state \in States /\ starts \in 0 .. MaxStarts
    /\ pc \in LoopPoints
    /\ left \in Nat /\ done \in Nat /\ owed \in Int
    /\ at \in [Callers -> CallerPoints] /\ cur \in [Callers -> 0 .. MaxCmds]
    /\ ahead \subseteq Ids /\ released \subseteq Ids

\* Where the owner, the loop and a caller inside the core can be at the same time.
Threads ==
    /\ starting <=> state = "Starting"
    /\ stopping <=> state = "Stopping"
    /\ state = "Starting" => pc \in {"boot", "ready"} /\ \A c \in Callers : at[c] = "idle"
    /\ state \in {"Inline", "Stopped"} => pc \in {"none", "gone"}
    /\ state \in {"Running", "Stopping", "Abandoned"} => pc \notin {"none", "boot", "ready"}
    /\ state \in {"Stopping", "Abandoned"} => stop
    /\ finished => pc = "gone"
    /\ ~abandoned => \A c \in Callers : at[c] = "core" => pc \in {"none", "gone"}

------------------------------------------------------------------------------
(* The budget of advance().                                                *)

Budgeted == {"frame", "hwait", "hasleep", "hdrain", "runH", "done", "drop"}
OnBudget == IF budget THEN 1 ELSE 0
\* Where the count of frames done will be once the budget is used up.
Due == done + left - IF pc = "drop" THEN 1 ELSE 0

Asked(i) == cmds[i].kind = "advance" /\ cmds[i].runs > 0

\* What an advance() that is waiting can count on: its frames are done or still in the
\* budget, or have been dropped.  The loop counts a frame before the budget drops.
Promise(c) ==
    /\ at[c] # "idle" /\ Asked(cur[c]) =>
          cur[c] \in released \/ Due >= cmds[cur[c]].end
    /\ at[c] = "return" => cur[c] \in released \/ finished \/ done >= cmds[cur[c]].end

Budget ==
    /\ budget => pc \in Budgeted /\ left > 0
    /\ pc \in {"done", "drop"} => budget
    /\ owed >= left - OnBudget
    /\ \A i \in DOMAIN cmds : Asked(i) => cmds[i].end - cmds[i].from >= cmds[i].n
    /\ \A c \in Callers : at[c] \in {"check", "recheck", "return"} => Asked(cur[c])
    /\ ~abandoned => \A c \in Callers : Promise(c)

------------------------------------------------------------------------------
(* The commands on their way.                                              *)

\* A command of one caller in one lane comes before another.
Before(cm, i, j) == cm[i].by = cm[j].by /\ Lane(cm[i].kind) = Lane(cm[j].kind) => i < j

\* What waits in the lanes and in the batch has not run; only the head of the batch
\* may have been started; every queued command is there; one caller's commands are
\* in the order of their numbers.
Lined(cm, qq, b) ==
    /\ \A i \in DOMAIN cm : cm[i].runs <= IF cm[i].status = "started" THEN 1 ELSE 0
    /\ \A l \in Lanes : \A k \in DOMAIN qq[l] :
          /\ qq[l][k] \in DOMAIN cm
          /\ cm[qq[l][k]].status \in {"queued", "cancelled"}
          /\ Lane(cm[qq[l][k]].kind) = l
    /\ \A k \in DOMAIN b :
          /\ b[k] \in DOMAIN cm
          /\ cm[b[k]].runs = 0 /\ cm[b[k]].status # "new"
          /\ cm[b[k]].status = "started" => k = 1
    /\ \A i \in DOMAIN cm : cm[i].status = "queued" =>
          \/ \E k \in DOMAIN b : b[k] = i
          \/ \E l \in Lanes : \E k \in DOMAIN qq[l] : qq[l][k] = i
    /\ \A k, m \in DOMAIN b : k < m => Before(cm, b[k], b[m])
    /\ \A l \in Lanes : \A k, m \in DOMAIN qq[l] : k < m => Before(cm, qq[l][k], qq[l][m])
    /\ \A l \in Lanes : \A k \in DOMAIN b : \A m \in DOMAIN qq[l] : Before(cm, b[k], qq[l][m])

Unposted == {"advance", "advanceRoute", "entry", "route", "step", "posting", "refused"}

\* One caller's command never starts while an earlier one of the same lane is queued.
Ordered(cm) ==
    \A j \in DOMAIN cm : \A i \in 1 .. j - 1 :
        (/\ cm[i].by = cm[j].by /\ Lane(cm[i].kind) = Lane(cm[j].kind)
         /\ cm[j].status = "started") => cm[i].status # "queued"

\* The command a caller is at work on is the last it handed over.  Until it is posted
\* it is new; one that a caller runs itself has not run and is nowhere else.
AtWork(c) ==
    at[c] # "idle" =>
        /\ cur[c] \in DOMAIN cmds /\ cmds[cur[c]].by = c
        /\ \A j \in DOMAIN cmds : cmds[j].by = c => j <= cur[c]
        /\ at[c] \in Unposted => cmds[cur[c]].status = "new"
        /\ at[c] = "core" =>
              /\ cmds[cur[c]].status \in {"new", "started"} /\ cmds[cur[c]].runs = 0
              /\ \A k \in DOMAIN batch : batch[k] # cur[c]

Flow ==
    /\ Lined(cmds, q, batch)
    /\ batch # <<>> => pc \in Drains
    /\ (\E l \in Lanes : q[l] # <<>>) => pc \notin {"none", "boot", "ready", "leave", "gone"}
    /\ \A c \in Callers : AtWork(c)
    /\ \A c \in Callers : at[c] = "posting" => pc \notin {"none", "boot", "ready"}
    /\ pc \in {"leave", "gone"} =>
          closed \/ (state = "Inline" /\ \A c \in Callers : at[c] # "posting")
    /\ ~abandoned => Ordered(cmds)

\* What a budget has to wait for: frame-lane commands that were posted.
Waited(cm, a) == \A i \in a : i \in DOMAIN cm /\ cm[i].status # "new" /\ Lane(cm[i].kind) = "Frame"

\* A drain of the frame lane runs nothing that registers a budget; after the second one
\* no command that a budget has to wait for is left in the lane.
Behind ==
    /\ Waited(cmds, ahead)
    /\ pc \in {"runF", "runF2"} => \A k \in DOMAIN batch : Lane(cmds[batch[k]].kind) = "Frame"
    /\ pc = "runF2" /\ ~abandoned => \A k \in DOMAIN q["Frame"] : q["Frame"][k] \notin ahead

IInv == Types /\ Threads /\ Budget /\ Flow /\ Behind

------------------------------------------------------------------------------
(* Threads.                                                                *)

\* A woken loop looks at its predicate again; one that does not sleep goes on.
LEMMA WokenLoop ==
  ASSUME NEW p
  PROVE  \/ p = "asleep" /\ Woken(p) = "wait"
         \/ p = "hasleep" /\ Woken(p) = "hwait"
         \/ p \notin {"asleep", "hasleep"} /\ Woken(p) = p
  BY DEF Woken

\* A step of a caller leaves the owner, and where the loop is, alone; a post may
\* wake the loop.
LEMMA CallerKeeps ==
  ASSUME NEW c, Begin(c) \/ CallerStep(c) \/ CallForTimeout(c) \/ GiveUp(c) \/ AdvanceGiveUp(c)
  PROVE  UNCHANGED <<life, batch, budget, closed>> /\ pc' \in {pc, Woken(pc)}
  BY DEF Begin, CallerStep, CallForTimeout, GiveUp, AdvanceGiveUp, AdvanceEntry, CheckAbandoned,
         Route, inlineStep, Post, WaitFinished, RunOnCaller, Answered, WaitAbandoned, Cancel,
         AdvanceCheck, AdvanceRecheck, AdvanceReturn, lanes, loopVars

\* A step of the loop leaves the callers and the owner alone.  The loop is running
\* before and after; it sets finished_ as it leaves for good.
LEMMA LoopKeeps ==
  ASSUME LoopStep \/ WaitTimeout
  PROVE  /\ UNCHANGED <<state, stop, starting, stopping, starts, callers>>
         /\ pc \notin {"none", "ready", "gone"} /\ pc' \notin {"none", "boot"}
         /\ pc = "boot" <=> pc' = "ready"
         /\ finished' = finished \/ (finished' = TRUE /\ pc' = "gone")
  BY DEF LoopStep, Boot, DrainFrame, DrainDebug, DrainFrameAgain, Drain, StartCommand, RunCommand,
         Break, Release, NotDue, StartFrame, Wait, WaitTimeout, ServeDebugLane, HaltWait,
         HaltTimeout, EndFrame, AccountFrame, LeaveLoop, CloseAndDrain, Finish, life, callers,
         Drains, Drained

\* A caller comes into the core only when no emulation thread runs, or when it has
\* been abandoned.
LEMMA IntoCore ==
  ASSUME Types, Threads, NEW c \in Callers,
         Begin(c) \/ CallerStep(c) \/ CallForTimeout(c) \/ GiveUp(c) \/ AdvanceGiveUp(c)
  PROVE  /\ ~starting
         /\ \A d \in Callers \ {c} : at'[d] = at[d]
         /\ at'[c] = "core" => (at[c] \in {"route", "step"} /\ ~threaded) \/ (finished /\ ~abandoned)
<1>1. at \in [Callers -> CallerPoints] /\ (starting => at[c] = "idle")
  BY DEF Types, Threads
<1>2. \E p : at' = [at EXCEPT ![c] = p]
  BY <1>1 DEF Begin, CallerStep, CallForTimeout, GiveUp, AdvanceGiveUp, AdvanceEntry, CheckAbandoned,
         Route, inlineStep, Post, WaitFinished, RunOnCaller, Answered, WaitAbandoned, Cancel,
         AdvanceCheck, AdvanceRecheck, AdvanceReturn, GoTo
<1>3. ~starting
  BY <1>1 DEF Begin, CallerStep, CallForTimeout, GiveUp, AdvanceGiveUp, AdvanceEntry, CheckAbandoned,
         Route, inlineStep, Post, WaitFinished, RunOnCaller, Answered, WaitAbandoned, Cancel,
         AdvanceCheck, AdvanceRecheck, AdvanceReturn
<1>4. CASE Route(c)
  BY <1>1, <1>2, <1>3, <1>4 DEF Route, GoTo
<1>5. CASE inlineStep(c)
  BY <1>1, <1>2, <1>3, <1>5 DEF inlineStep, GoTo
<1>6. CASE WaitFinished(c)
  BY <1>1, <1>2, <1>3, <1>6 DEF WaitFinished, GoTo
<1>7. CASE ~(Route(c) \/ inlineStep(c) \/ WaitFinished(c))
  <2>1. at'[c] # "core"
    BY <1>1, <1>7 DEF Begin, CallerStep, CallForTimeout, GiveUp, AdvanceGiveUp, AdvanceEntry,
         CheckAbandoned, Post, RunOnCaller, Answered, WaitAbandoned, Cancel,
         AdvanceCheck, AdvanceRecheck, AdvanceReturn, GoTo
  <2> QED BY <1>1, <1>2, <1>3, <2>1
<1> QED BY <1>4, <1>5, <1>6, <1>7

\* No thread runs at first.
LEMMA ThreadsInit == Init => Threads
  BY DEF Init, Threads, abandoned

\* Every step keeps the owner, the loop and the callers in the core where they may be
\* together.
LEMMA ThreadsNext ==
  ASSUME Types, Threads, [Next]_vars
  PROVE  Threads'
<1>0. /\ state \in States /\ pc \in LoopPoints
      /\ {starting, stopping, stop, finished} \subseteq BOOLEAN
  BY DEF Types
<1> USE <1>0 DEF Threads, abandoned, States
<1>1. CASE Start
  BY <1>1 DEF Start, callers
<1>2. CASE StartReady
  BY <1>2 DEF StartReady, callers
<1>3. CASE StartInline
  BY <1>3 DEF StartInline, callers, loopVars
<1>4. CASE Stop
  BY <1>4, WokenLoop DEF Stop, Notify, callers
<1>5. CASE StopJoin
  BY <1>5 DEF StopJoin, callers, loopVars
<1>6. CASE StopTimeout
  BY <1>6 DEF StopTimeout, callers, loopVars
<1>7. CASE setPaused \/ notifyTick
  BY <1>7, WokenLoop DEF setPaused, notifyTick, Notify, callers, life
<1>8. CASE LoopStep \/ WaitTimeout
  <2>1. /\ state' = state /\ stop' = stop /\ starting' = starting /\ stopping' = stopping
        /\ at' = at
        /\ pc \notin {"none", "ready", "gone"} /\ pc' \notin {"none", "boot"}
        /\ pc = "boot" <=> pc' = "ready"
        /\ finished' = finished \/ (finished' = TRUE /\ pc' = "gone")
    BY <1>8, LoopKeeps DEF callers
  <2> QED BY <2>1
<1>9. ASSUME NEW c \in Callers,
             Begin(c) \/ CallerStep(c) \/ CallForTimeout(c) \/ GiveUp(c) \/ AdvanceGiveUp(c)
      PROVE  Threads'
  <2>1. /\ UNCHANGED <<state, stop, finished, starting, stopping>>
        /\ pc' \in {pc, Woken(pc)}
    BY <1>9, CallerKeeps DEF life
  <2>2. /\ ~starting
        /\ \A d \in Callers \ {c} : at'[d] = at[d]
        /\ at'[c] = "core" => (at[c] \in {"route", "step"} /\ ~threaded) \/ (finished /\ ~abandoned)
    BY <1>9, IntoCore
  <2>3. ~threaded => pc \in {"none", "gone"} \/ abandoned
    BY <2>2 DEF threaded
  <2> QED BY <2>1, <2>2, <2>3, WokenLoop
<1>10. CASE UNCHANGED vars
  BY <1>10 DEF vars, callers, life, loopVars
<1> QED BY <1>1, <1>2, <1>3, <1>4, <1>5, <1>6, <1>7, <1>8, <1>9, <1>10 DEF Next

------------------------------------------------------------------------------
(* Commands.                                                               *)

\* Only command i changed, and not who handed it over or what it is.
Edited(cm, cm2, i) ==
    /\ cm2 \in Seq(Command) /\ Len(cm2) = Len(cm) /\ DOMAIN cm2 = DOMAIN cm
    /\ \A j \in DOMAIN cm : j # i => cm2[j] = cm[j]
    /\ cm2[i].by = cm[i].by /\ cm2[i].kind = cm[i].kind /\ cm2[i].n = cm[i].n

\* Command i got another status and nothing else.
Marked(cm, cm2, i, s) ==
    /\ Edited(cm, cm2, i)
    /\ cm2[i].status = s /\ cm2[i].runs = cm[i].runs
    /\ cm2[i].end = cm[i].end /\ cm2[i].from = cm[i].from

\* Command i ran once more.
Ran(cm, cm2, i) ==
    /\ Edited(cm, cm2, i)
    /\ cm2[i].status = cm[i].status /\ cm2[i].runs = cm[i].runs + 1

\* Assigning a status is all that an assignment of a status does.
LEMMA StatusEdit ==
  ASSUME NEW cm \in Seq(Command), NEW i \in DOMAIN cm, NEW s \in Statuses
  PROVE  Marked(cm, [cm EXCEPT ![i].status = s], i, s)
<1> DEFINE e == [cm[i] EXCEPT !.status = s]
           cm2 == [cm EXCEPT ![i] = e]
<1>0. i \in 1 .. Len(cm)
  BY LenProperties
<1>1. cm[i] \in Command /\ e \in Command
  <2>1. cm[i] \in Command
    BY <1>0, ElementOfSeq
  <2> QED BY <2>1 DEF Command
<1>2. cm2 \in Seq(Command) /\ Len(cm2) = Len(cm) /\ DOMAIN cm2 = DOMAIN cm
      /\ \A j \in DOMAIN cm : cm2[j] = IF j = i THEN e ELSE cm[j]
  BY <1>0, <1>1, ExceptSeq, LenProperties
<1>3. /\ e.by = cm[i].by /\ e.kind = cm[i].kind /\ e.n = cm[i].n
      /\ e.status = s /\ e.runs = cm[i].runs /\ e.end = cm[i].end /\ e.from = cm[i].from
  BY <1>1 DEF Command
<1> QED BY <1>2, <1>3 DEF Marked, Edited

\* A command that has just been handed over, at the end.
LEMMA Appended ==
  ASSUME NEW cm \in Seq(Command), NEW e \in Command
  PROVE  /\ Append(cm, e) \in Seq(Command) /\ Len(Append(cm, e)) = Len(cm) + 1
         /\ DOMAIN Append(cm, e) = DOMAIN cm \cup {Len(cm) + 1}
         /\ DOMAIN cm = 1 .. Len(cm) /\ Len(cm) \in Nat
         /\ Append(cm, e)[Len(cm) + 1] = e
         /\ \A j \in DOMAIN cm : Append(cm, e)[j] = cm[j]
<1>1. Len(cm) \in Nat /\ DOMAIN cm = 1 .. Len(cm)
  BY LenProperties
<1>2. /\ Append(cm, e) \in Seq(Command) /\ Len(Append(cm, e)) = Len(cm) + 1
      /\ Append(cm, e)[Len(cm) + 1] = e
      /\ \A j \in 1 .. Len(cm) : Append(cm, e)[j] = cm[j]
  BY AppendProperties
<1>3. DOMAIN Append(cm, e) = 1 .. Len(cm) + 1
  BY <1>2, LenProperties
<1> QED BY <1>1, <1>2, <1>3

------------------------------------------------------------------------------
(* The lanes and the batch.                                                *)

\* Nobody else's place in the lanes is touched when a command is marked: one that was
\* not posted is in none, a queued one may be given up, and the head may be started.
LEMMA LinedMark ==
  ASSUME NEW cm, NEW cm2, NEW qq, NEW b \in Seq(Ids), NEW i \in DOMAIN cm, NEW s,
         Lined(cm, qq, b), Marked(cm, cm2, i, s), cm[i].runs \in Nat,
         \/ cm[i].status = "new" /\ s = "started"
         \/ cm[i].status = "queued" /\ s = "cancelled"
         \/ cm[i].status = "queued" /\ s = "started" /\ b # <<>> /\ i = b[1]
  PROVE  Lined(cm2, qq, b)
<1>1. /\ DOMAIN cm2 = DOMAIN cm
      /\ \A j \in DOMAIN cm : j # i => cm2[j] = cm[j]
      /\ cm2[i].by = cm[i].by /\ cm2[i].kind = cm[i].kind
      /\ cm2[i].status = s /\ cm2[i].runs = cm[i].runs
  BY DEF Marked, Edited
<1>2. \A j, k \in DOMAIN cm : Before(cm2, j, k) <=> Before(cm, j, k)
  BY <1>1 DEF Before
<1>3. \A j \in DOMAIN cm : cm2[j].runs <= IF cm2[j].status = "started" THEN 1 ELSE 0
  BY <1>1 DEF Lined
<1>4. i \in Nat => ~(i < i)
  OBVIOUS
<1>5. ASSUME i = b[1], b # <<>>, cm[i].status = "queued"
      PROVE  /\ \A l \in Lanes : \A k \in DOMAIN qq[l] : qq[l][k] # i
             /\ \A k \in DOMAIN b : b[k] = i => k = 1
  <2>1. 1 \in DOMAIN b /\ i \in Nat /\ DOMAIN b = 1 .. Len(b)
    BY <1>5, LenProperties, EmptySeq, ElementOfSeq DEF Ids
  <2>2. ~ Before(cm, i, i)
    BY <1>4, <2>1 DEF Before
  <2> QED BY <1>5, <2>1, <2>2 DEF Lined
<1>6. ASSUME NEW l \in Lanes, NEW k \in DOMAIN qq[l]
      PROVE  /\ qq[l][k] \in DOMAIN cm2
             /\ cm2[qq[l][k]].status \in {"queued", "cancelled"}
             /\ Lane(cm2[qq[l][k]].kind) = l
  BY <1>1, <1>5 DEF Lined
<1>7. ASSUME NEW k \in DOMAIN b
      PROVE  /\ b[k] \in DOMAIN cm2
             /\ cm2[b[k]].runs = 0 /\ cm2[b[k]].status # "new"
             /\ cm2[b[k]].status = "started" => k = 1
  BY <1>1, <1>5 DEF Lined
<1>8. \A j \in DOMAIN cm : cm2[j].status = "queued" =>
          \/ \E k \in DOMAIN b : b[k] = j
          \/ \E l \in Lanes : \E k \in DOMAIN qq[l] : qq[l][k] = j
  BY <1>1 DEF Lined
<1> QED BY <1>1, <1>2, <1>3, <1>6, <1>7, <1>8 DEF Lined

\* The rest of a batch, once its head has been dealt with.
LEMMA TailOf ==
  ASSUME NEW b \in Seq(Ids), b # <<>>
  PROVE  /\ Tail(b) \in Seq(Ids) /\ Head(b) = b[1] /\ 1 \in DOMAIN b /\ b[1] \in Ids
         /\ \A k \in DOMAIN Tail(b) : k \in Nat /\ k + 1 \in DOMAIN b /\ k + 1 # 1 /\ Tail(b)[k] = b[k + 1]
         /\ \A k \in DOMAIN b : k = 1 \/ (k - 1 \in DOMAIN Tail(b) /\ Tail(b)[k - 1] = b[k])
<1>1. /\ Len(b) \in Nat \ {0} /\ Tail(b) \in Seq(Ids) /\ Len(Tail(b)) = Len(b) - 1
      /\ Head(b) = b[1]
      /\ \A k \in 1 .. Len(Tail(b)) : Tail(b)[k] = b[k + 1]
  BY HeadTailProperties, EmptySeq
<1>2. DOMAIN b = 1 .. Len(b) /\ DOMAIN Tail(b) = 1 .. Len(b) - 1
  BY <1>1, LenProperties
<1>3. b[1] \in Ids
  BY <1>1, ElementOfSeq
<1> QED BY <1>1, <1>2, <1>3

\* A head that was skipped or has run leaves the batch.
LEMMA LinedTail ==
  ASSUME NEW cm, NEW qq, NEW b \in Seq(Ids), b # <<>>, Lined(cm, qq, b),
         cm[b[1]].status # "queued"
  PROVE  Lined(cm, qq, Tail(b)) /\ \A k \in DOMAIN Tail(b) : Tail(b)[k] # b[1]
<1>1. /\ 1 \in DOMAIN b /\ b[1] \in Ids
      /\ \A k \in DOMAIN Tail(b) : k \in Nat /\ k + 1 \in DOMAIN b /\ k + 1 # 1 /\ Tail(b)[k] = b[k + 1]
      /\ \A k \in DOMAIN b : k = 1 \/ (k - 1 \in DOMAIN Tail(b) /\ Tail(b)[k - 1] = b[k])
  BY TailOf
<1>2. ~ Before(cm, b[1], b[1])
  BY <1>1 DEF Before, Ids
<1>3. \A k \in DOMAIN Tail(b) : Tail(b)[k] # b[1]
  <2> SUFFICES ASSUME NEW k \in DOMAIN Tail(b) PROVE Tail(b)[k] # b[1]
    OBVIOUS
  <2>1. 1 < k + 1 /\ k + 1 \in DOMAIN b /\ Tail(b)[k] = b[k + 1]
    BY <1>1
  <2> QED BY <1>1, <1>2, <2>1 DEF Lined
<1>4. \A k \in DOMAIN Tail(b) :
        /\ Tail(b)[k] \in DOMAIN cm
        /\ cm[Tail(b)[k]].runs = 0 /\ cm[Tail(b)[k]].status \notin {"new", "started"}
  BY <1>1 DEF Lined
<1>5. \A i \in DOMAIN cm : cm[i].status = "queued" =>
          \/ \E k \in DOMAIN Tail(b) : Tail(b)[k] = i
          \/ \E l \in Lanes : \E k \in DOMAIN qq[l] : qq[l][k] = i
  <2> SUFFICES ASSUME NEW i \in DOMAIN cm, cm[i].status = "queued", NEW k \in DOMAIN b, b[k] = i
               PROVE  \E m \in DOMAIN Tail(b) : Tail(b)[m] = i
    BY DEF Lined
  <2> WITNESS k - 1 \in DOMAIN Tail(b)
  <2> QED BY <1>1
<1>6. \A k, m \in DOMAIN Tail(b) : k < m => Before(cm, Tail(b)[k], Tail(b)[m])
  <2> SUFFICES ASSUME NEW k \in DOMAIN Tail(b), NEW m \in DOMAIN Tail(b), k < m
               PROVE  Before(cm, Tail(b)[k], Tail(b)[m])
    OBVIOUS
  <2>1. k + 1 < m + 1 /\ k + 1 \in DOMAIN b /\ m + 1 \in DOMAIN b
    BY <1>1
  <2> QED BY <1>1, <2>1 DEF Lined
<1>7. \A l \in Lanes : \A k \in DOMAIN Tail(b) : \A m \in DOMAIN qq[l] : Before(cm, Tail(b)[k], qq[l][m])
  BY <1>1 DEF Lined
<1> QED BY <1>3, <1>4, <1>5, <1>6, <1>7 DEF Lined

\* A command that has left the lanes may run.
LEMMA LinedRan ==
  ASSUME NEW cm, NEW cm2, NEW qq, NEW b, NEW i \in DOMAIN cm, Lined(cm, qq, b), Ran(cm, cm2, i),
         cm[i].status = "started", cm[i].runs = 0, \A k \in DOMAIN b : b[k] # i
  PROVE  Lined(cm2, qq, b)
<1>1. /\ DOMAIN cm2 = DOMAIN cm
      /\ \A j \in DOMAIN cm : j # i => cm2[j] = cm[j]
      /\ cm2[i].by = cm[i].by /\ cm2[i].kind = cm[i].kind
      /\ cm2[i].status = "started" /\ cm2[i].runs = 1
  BY DEF Ran, Edited
<1>2. \A j, k \in DOMAIN cm : Before(cm2, j, k) <=> Before(cm, j, k)
  BY <1>1 DEF Before
<1>3. \A j \in DOMAIN cm : cm2[j].status = cm[j].status /\ cm2[j].kind = cm[j].kind
  BY <1>1
<1>4. \A j \in DOMAIN cm : cm2[j].runs <= IF cm2[j].status = "started" THEN 1 ELSE 0
  BY <1>1 DEF Lined
<1>5. \A k \in DOMAIN b :
          /\ b[k] \in DOMAIN cm2
          /\ cm2[b[k]].runs = 0 /\ cm2[b[k]].status # "new"
          /\ cm2[b[k]].status = "started" => k = 1
  BY <1>1 DEF Lined
<1> QED BY <1>1, <1>2, <1>3, <1>4, <1>5 DEF Lined

\* A post goes behind everything its caller posted before.
LEMMA LinedPost ==
  ASSUME NEW cm \in Seq(Command), NEW cm2, NEW qq \in [Lanes -> Seq(Ids)], NEW b \in Seq(Ids),
         NEW i \in DOMAIN cm, i \in Ids,
         NEW lane \in Lanes, lane = Lane(cm[i].kind),
         Lined(cm, qq, b), Marked(cm, cm2, i, "queued"), cm[i].status = "new",
         \A j \in DOMAIN cm : cm[j].by = cm[i].by => j <= i
  PROVE  Lined(cm2, [qq EXCEPT ![lane] = Append(@, i)], b)
<1> DEFINE qq2 == [qq EXCEPT ![lane] = Append(@, i)]
           n == Len(qq[lane]) + 1
<1>1. /\ DOMAIN cm2 = DOMAIN cm
      /\ \A j \in DOMAIN cm : j # i => cm2[j] = cm[j]
      /\ cm2[i].by = cm[i].by /\ cm2[i].kind = cm[i].kind
      /\ cm2[i].status = "queued" /\ cm2[i].runs = cm[i].runs
  BY DEF Marked, Edited
<1>2. \A j, k \in DOMAIN cm : Before(cm2, j, k) <=> Before(cm, j, k)
  BY <1>1 DEF Before
<1>3. /\ \A l \in Lanes : l # lane => qq2[l] = qq[l]
      /\ n \in Nat /\ DOMAIN qq[lane] = 1 .. n - 1 /\ DOMAIN qq2[lane] = 1 .. n
      /\ qq2[lane][n] = i
      /\ \A k \in 1 .. n - 1 : qq2[lane][k] = qq[lane][k]
  <2>1. qq[lane] \in Seq(Ids) /\ qq2[lane] = Append(qq[lane], i)
    OBVIOUS
  <2>2. /\ Len(qq[lane]) \in Nat /\ Append(qq[lane], i) \in Seq(Ids)
        /\ Len(Append(qq[lane], i)) = n /\ Append(qq[lane], i)[n] = i
        /\ \A k \in 1 .. Len(qq[lane]) : Append(qq[lane], i)[k] = qq[lane][k]
    BY <2>1, AppendProperties, LenProperties
  <2>3. DOMAIN qq[lane] = 1 .. Len(qq[lane]) /\ DOMAIN Append(qq[lane], i) = 1 .. n
    BY <2>1, <2>2, LenProperties
  <2> QED BY <2>1, <2>2, <2>3
<1>4. \A l \in Lanes : \A k \in DOMAIN qq2[l] :
        \/ l = lane /\ k = n /\ qq2[l][k] = i
        \/ k \in DOMAIN qq[l] /\ qq2[l][k] = qq[l][k] /\ (l = lane => k < n)
  BY <1>3
<1>5. \A l \in Lanes : \A k \in DOMAIN qq[l] : k \in DOMAIN qq2[l] /\ qq2[l][k] = qq[l][k]
  BY <1>3
<1> HIDE DEF qq2, n
<1>6. \A j \in DOMAIN cm : cm2[j].runs <= IF cm2[j].status = "started" THEN 1 ELSE 0
  BY <1>1 DEF Lined
<1>7. \A j \in DOMAIN cm : j # i => Before(cm, j, i)
  <2>1. DOMAIN cm \subseteq Nat
    BY LenProperties
  <2> QED BY <2>1 DEF Before
<1>8. \A l \in Lanes : \A k \in DOMAIN qq[l] : qq[l][k] # i /\ qq[l][k] \in DOMAIN cm
  BY DEF Lined
<1>9. \A k \in DOMAIN b : b[k] # i /\ b[k] \in DOMAIN cm
  BY DEF Lined
<1>10. ASSUME NEW l \in Lanes, NEW k \in DOMAIN qq2[l]
       PROVE  /\ qq2[l][k] \in DOMAIN cm2
              /\ cm2[qq2[l][k]].status \in {"queued", "cancelled"}
              /\ Lane(cm2[qq2[l][k]].kind) = l
  <2>1. CASE l = lane /\ qq2[l][k] = i
    BY <1>1, <2>1
  <2>2. CASE k \in DOMAIN qq[l] /\ qq2[l][k] = qq[l][k]
    <3>1. qq[l][k] # i /\ qq[l][k] \in DOMAIN cm
      BY <1>8, <2>2
    <3>2. cm[qq[l][k]].status \in {"queued", "cancelled"} /\ Lane(cm[qq[l][k]].kind) = l
      BY <2>2 DEF Lined
    <3> QED BY <1>1, <2>2, <3>1, <3>2
  <2> QED BY <1>4, <2>1, <2>2
<1>11. ASSUME NEW k \in DOMAIN b
       PROVE  /\ b[k] \in DOMAIN cm2
              /\ cm2[b[k]].runs = 0 /\ cm2[b[k]].status # "new"
              /\ cm2[b[k]].status = "started" => k = 1
  BY <1>1, <1>9 DEF Lined
<1>12. ASSUME NEW j \in DOMAIN cm, cm2[j].status = "queued"
       PROVE  \/ \E k \in DOMAIN b : b[k] = j
              \/ \E l \in Lanes : \E k \in DOMAIN qq2[l] : qq2[l][k] = j
  <2>1. CASE j = i
    BY <1>3, <2>1 DEF qq2, n
  <2>2. CASE j # i
    <3>1. cm[j].status = "queued"
      BY <1>1, <1>12, <2>2
    <3>2. CASE \E k \in DOMAIN b : b[k] = j
      BY <3>2
    <3>3. ASSUME NEW l \in Lanes, NEW k \in DOMAIN qq[l], qq[l][k] = j
          PROVE  \E m \in DOMAIN qq2[l] : qq2[l][m] = j
      BY <1>5, <3>3
    <3> QED BY <3>1, <3>2, <3>3 DEF Lined
  <2> QED BY <2>1, <2>2
<1>13. ASSUME NEW l \in Lanes, NEW k \in DOMAIN qq2[l], NEW m \in DOMAIN qq2[l], k < m
       PROVE  Before(cm2, qq2[l][k], qq2[l][m])
  <2>1. k \in DOMAIN qq[l] /\ qq2[l][k] = qq[l][k]
    BY <1>3, <1>4, <1>13 DEF qq2
  <2>2. CASE qq2[l][m] = i
    BY <1>2, <1>7, <1>8, <2>1, <2>2
  <2>3. CASE m \in DOMAIN qq[l] /\ qq2[l][m] = qq[l][m]
    BY <1>2, <1>8, <1>13, <2>1, <2>3 DEF Lined
  <2> QED BY <1>4, <2>2, <2>3
<1>14. ASSUME NEW l \in Lanes, NEW k \in DOMAIN b, NEW m \in DOMAIN qq2[l]
       PROVE  Before(cm2, b[k], qq2[l][m])
  <2>2. CASE qq2[l][m] = i
    BY <1>2, <1>7, <1>9, <2>2
  <2>3. CASE m \in DOMAIN qq[l] /\ qq2[l][m] = qq[l][m]
    BY <1>2, <1>8, <1>9, <2>3 DEF Lined
  <2> QED BY <1>4, <2>2, <2>3
<1>15. \A k, m \in DOMAIN b : k < m => Before(cm2, b[k], b[m])
  BY <1>2, <1>9 DEF Lined
<1> QED BY <1>1, <1>6, <1>10, <1>11, <1>12, <1>13, <1>14, <1>15 DEF Lined, qq2

\* A drain moves a whole lane into the batch, which was empty.
LEMMA LinedDrain ==
  ASSUME NEW cm \in Seq(Command), NEW qq \in [Lanes -> Seq(Ids)], NEW lane \in Lanes,
         Lined(cm, qq, <<>>)
  PROVE  Lined(cm, [qq EXCEPT ![lane] = <<>>], qq[lane])
<1> DEFINE q2 == [qq EXCEPT ![lane] = <<>>]
<1>1. /\ \A l \in Lanes : l # lane => q2[l] = qq[l]
      /\ q2[lane] = <<>> /\ DOMAIN q2[lane] = {}
  OBVIOUS
<1> HIDE DEF q2
<1>2. \A i \in DOMAIN cm : cm[i].runs \in Nat
  <2> SUFFICES ASSUME NEW i \in DOMAIN cm PROVE cm[i].runs \in Nat
    OBVIOUS
  <2>1. cm[i] \in Command
    BY LenProperties, ElementOfSeq
  <2> QED BY <2>1 DEF Command
<1>3. \A k \in DOMAIN qq[lane] :
          /\ qq[lane][k] \in DOMAIN cm
          /\ cm[qq[lane][k]].runs = 0
          /\ cm[qq[lane][k]].status \in {"queued", "cancelled"}
          /\ Lane(cm[qq[lane][k]].kind) = lane
  BY <1>2 DEF Lined
<1>4. \A l \in Lanes : \A k \in DOMAIN q2[l] : l # lane /\ k \in DOMAIN qq[l] /\ q2[l][k] = qq[l][k]
  BY <1>1
<1>5. ASSUME NEW i \in DOMAIN cm, cm[i].status = "queued"
      PROVE  \/ \E k \in DOMAIN qq[lane] : qq[lane][k] = i
             \/ \E l \in Lanes : \E k \in DOMAIN q2[l] : q2[l][k] = i
  <2>1. PICK l \in Lanes : \E k \in DOMAIN qq[l] : qq[l][k] = i
    BY <1>5 DEF Lined
  <2>2. CASE l = lane
    BY <2>1, <2>2
  <2>3. CASE l # lane
    BY <1>1, <2>1, <2>3
  <2> QED BY <2>2, <2>3
<1>6. \A l \in Lanes : \A k \in DOMAIN qq[lane] : \A m \in DOMAIN q2[l] :
          Before(cm, qq[lane][k], q2[l][m])
  <2> SUFFICES ASSUME NEW l \in Lanes, NEW k \in DOMAIN qq[lane], NEW m \in DOMAIN q2[l]
               PROVE  Before(cm, qq[lane][k], q2[l][m])
    OBVIOUS
  <2>1. l # lane /\ Lane(cm[q2[l][m]].kind) = l
    BY <1>4 DEF Lined
  <2> QED BY <1>3, <2>1 DEF Before
<1>7. \A k, m \in DOMAIN qq[lane] : k < m => Before(cm, qq[lane][k], qq[lane][m])
  BY DEF Lined
<1>8. \A l \in Lanes : \A k, m \in DOMAIN q2[l] : k < m => Before(cm, q2[l][k], q2[l][m])
  BY <1>4 DEF Lined
<1>9. \A l \in Lanes : \A k \in DOMAIN q2[l] :
          /\ q2[l][k] \in DOMAIN cm
          /\ cm[q2[l][k]].status \in {"queued", "cancelled"}
          /\ Lane(cm[q2[l][k]].kind) = l
  BY <1>4 DEF Lined
<1>10. \A i \in DOMAIN cm : cm[i].runs <= IF cm[i].status = "started" THEN 1 ELSE 0
  BY DEF Lined
<1> QED BY <1>3, <1>5, <1>6, <1>7, <1>8, <1>9, <1>10 DEF Lined, q2

\* The closing round takes both lanes, the frame lane first.
LEMMA LinedClose ==
  ASSUME NEW cm \in Seq(Command), NEW qq \in [Lanes -> Seq(Ids)], Lined(cm, qq, <<>>)
  PROVE  Lined(cm, [l \in Lanes |-> <<>>], qq["Frame"] \o qq["Debug"])
<1> DEFINE f == qq["Frame"]
           d == qq["Debug"]
           b == f \o d
           none == [l \in Lanes |-> <<>>]
<1>1. /\ f \in Seq(Ids) /\ d \in Seq(Ids) /\ b \in Seq(Ids)
      /\ Len(f) \in Nat /\ Len(d) \in Nat
      /\ DOMAIN f = 1 .. Len(f) /\ DOMAIN d = 1 .. Len(d) /\ DOMAIN b = 1 .. Len(f) + Len(d)
      /\ \A k \in 1 .. Len(f) + Len(d) : b[k] = IF k <= Len(f) THEN f[k] ELSE d[k - Len(f)]
  <2>1. f \in Seq(Ids) /\ d \in Seq(Ids)
    BY DEF Lanes
  <2> HIDE DEF f, d
  <2>2. /\ b \in Seq(Ids) /\ Len(b) = Len(f) + Len(d)
        /\ \A k \in 1 .. Len(f) + Len(d) : b[k] = IF k <= Len(f) THEN f[k] ELSE d[k - Len(f)]
    BY <2>1, ConcatProperties
  <2> QED BY <2>1, <2>2, LenProperties
<1>2. \A l \in Lanes : none[l] = <<>> /\ DOMAIN none[l] = {}
  OBVIOUS
<1> DEFINE lane(k) == IF k <= Len(f) THEN "Frame" ELSE "Debug"
           pos(k) == IF k <= Len(f) THEN k ELSE k - Len(f)
<1>3. \A k \in DOMAIN b : lane(k) \in Lanes /\ pos(k) \in DOMAIN qq[lane(k)] /\ b[k] = qq[lane(k)][pos(k)]
  BY <1>1 DEF Lanes
<1>4. \A k, m \in DOMAIN b : k < m /\ lane(k) = lane(m) => pos(k) < pos(m)
  BY <1>1
<1>5. /\ \A k \in DOMAIN f : k \in DOMAIN b /\ b[k] = f[k]
      /\ \A k \in DOMAIN d : k + Len(f) \in DOMAIN b /\ b[k + Len(f)] = d[k]
  <2> HIDE DEF f, d, b
  <2>1. \A k \in DOMAIN f : k \in DOMAIN b /\ b[k] = f[k]
    BY <1>1
  <2>2. ASSUME NEW k \in DOMAIN d
        PROVE  k + Len(f) \in DOMAIN b /\ b[k + Len(f)] = d[k]
    <3>1. k \in 1 .. Len(d) /\ k + Len(f) \in 1 .. Len(f) + Len(d)
          /\ ~(k + Len(f) <= Len(f)) /\ (k + Len(f)) - Len(f) = k
      BY <1>1
    <3> QED BY <1>1, <3>1
  <2> QED BY <2>1, <2>2
<1>6. \A i \in DOMAIN cm : cm[i].runs \in Nat
  <2> SUFFICES ASSUME NEW i \in DOMAIN cm PROVE cm[i].runs \in Nat
    OBVIOUS
  <2>1. cm[i] \in Command
    BY LenProperties, ElementOfSeq
  <2> QED BY <2>1 DEF Command
<1>7. ASSUME NEW i \in DOMAIN cm, cm[i].status = "queued"
      PROVE  \E k \in DOMAIN b : b[k] = i
  <2>1. PICK l \in Lanes : \E k \in DOMAIN qq[l] : qq[l][k] = i
    BY <1>7 DEF Lined
  <2>2. CASE l = "Frame"
    BY <1>5, <2>1, <2>2
  <2>3. CASE l = "Debug"
    BY <1>5, <2>1, <2>3
  <2> QED BY <2>2, <2>3 DEF Lanes
<1> HIDE DEF f, d, b, none, lane, pos
<1>8. \A k \in DOMAIN b :
          /\ b[k] \in DOMAIN cm
          /\ cm[b[k]].runs = 0
          /\ cm[b[k]].status \in {"queued", "cancelled"}
          /\ Lane(cm[b[k]].kind) = lane(k)
  BY <1>3, <1>6 DEF Lined
<1>9. ASSUME NEW k \in DOMAIN b, NEW m \in DOMAIN b, k < m
      PROVE  Before(cm, b[k], b[m])
  <2>1. CASE lane(k) = lane(m)
    BY <1>3, <1>4, <1>9, <2>1 DEF Lined
  <2>2. CASE lane(k) # lane(m)
    BY <1>8, <2>2 DEF Before
  <2> QED BY <2>1, <2>2
<1>10. \A i \in DOMAIN cm : cm[i].runs <= IF cm[i].status = "started" THEN 1 ELSE 0
  BY DEF Lined
<1> QED BY <1>2, <1>7, <1>8, <1>9, <1>10 DEF Lined, b, f, d, none

\* A command that has just been handed over is in no lane.
LEMMA LinedBegin ==
  ASSUME NEW cm \in Seq(Command), NEW qq, NEW b, NEW e \in Command, Lined(cm, qq, b),
         e.status = "new", e.runs = 0
  PROVE  Lined(Append(cm, e), qq, b)
<1> DEFINE cm2 == Append(cm, e)
<1>1. /\ DOMAIN cm2 = DOMAIN cm \cup {Len(cm) + 1}
      /\ cm2[Len(cm) + 1] = e
      /\ \A j \in DOMAIN cm : cm2[j] = cm[j]
  BY Appended
<1> HIDE DEF cm2
<1>2. \A j, k \in DOMAIN cm : Before(cm2, j, k) <=> Before(cm, j, k)
  BY <1>1 DEF Before
<1>3. \A j \in DOMAIN cm2 : cm2[j].runs <= IF cm2[j].status = "started" THEN 1 ELSE 0
  BY <1>1 DEF Lined
<1>4. \A l \in Lanes : \A k \in DOMAIN qq[l] : qq[l][k] \in DOMAIN cm
  BY DEF Lined
<1>5. \A k \in DOMAIN b : b[k] \in DOMAIN cm
  BY DEF Lined
<1> QED BY <1>1, <1>2, <1>3, <1>4, <1>5 DEF Lined, cm2

------------------------------------------------------------------------------
(* Types.                                                                  *)

\* The numbers of the commands, and the command a caller is at work on.
LEMMA Numbers ==
  ASSUME Types
  PROVE  /\ DOMAIN cmds = 1 .. Len(cmds) /\ Len(cmds) \in Nat /\ DOMAIN cmds \subseteq Ids
         /\ \A i \in DOMAIN cmds : cmds[i] \in Command /\ cmds[i].n \in Nat /\ cmds[i].runs \in Nat
                                   /\ cmds[i].end \in Nat /\ cmds[i].from \in Nat
<1>1. cmds \in Seq(Command) /\ Len(cmds) <= MaxCmds /\ MaxCmds \in Nat
  BY EmuAssumption DEF Types
<1>2. DOMAIN cmds = 1 .. Len(cmds) /\ Len(cmds) \in Nat
  BY <1>1, LenProperties
<1>3. \A i \in DOMAIN cmds : cmds[i] \in Command
  BY <1>1, <1>2, ElementOfSeq
<1>4. DOMAIN cmds \subseteq Ids
  BY <1>1, <1>2 DEF Ids
<1>5. Ns \subseteq Nat
  BY EmuAssumption
<1>6. \A i \in DOMAIN cmds : /\ cmds[i].n \in Ns \cup {0} /\ cmds[i].runs \in Nat
                           /\ cmds[i].end \in Nat /\ cmds[i].from \in Nat
  BY <1>3 DEF Command
<1>7. ASSUME NEW i \in DOMAIN cmds PROVE cmds[i].n \in Nat
  <2> DEFINE n == cmds[i].n
  <2>1. n \in Ns \cup {0}
    BY <1>6
  <2> HIDE DEF n
  <2>2. n \in Nat
    BY <1>5, <2>1
  <2> QED BY <2>2 DEF n
<1> QED BY <1>2, <1>3, <1>4, <1>6, <1>7

\* What a command's body does: it is counted, and an advance() adds to the budget.
LEMMA BodyDoes ==
  ASSUME Types, NEW i \in DOMAIN cmds, RunBody(i)
  PROVE  /\ cmds' \in Seq(Command) /\ Ran(cmds, cmds', i)
         /\ cmds[i].n \in Nat /\ left' = left + cmds[i].n /\ owed' = owed + cmds[i].n
         /\ cmds[i].kind = "advance" =>
               cmds'[i].end = done + left + cmds[i].n /\ cmds'[i].from = done + InFlight
         /\ cmds[i].kind # "advance" => ahead' = ahead
         /\ cmds[i].kind = "advance" => ahead' = ahead \cup ToSet(q["Frame"])
         /\ ahead' \subseteq Ids /\ loaded' \in BOOLEAN
         /\ UNCHANGED <<done, released>>
<1>1. /\ cmds \in Seq(Command) /\ left \in Nat /\ done \in Nat /\ loaded \in BOOLEAN
      /\ ahead \subseteq Ids /\ q["Frame"] \in Seq(Ids)
  BY DEF Types, Lanes
<1> DEFINE n == cmds[i].n
           x == IF cmds[i].kind = "advance" THEN BudgetEnd(n) ELSE 0
           y == IF cmds[i].kind = "advance" THEN done + InFlight ELSE 0
<1>2. n \in Nat
  BY Numbers
<1>3. InFlight \in Nat /\ x \in Nat /\ y \in Nat
  BY <1>1, <1>2 DEF InFlight, BudgetEnd
<1>4. cmds' = [cmds EXCEPT ![i].runs = @ + 1, ![i].end = x, ![i].from = y]
  BY DEF RunBody
<1> HIDE DEF x, y
<1>6. Ran(cmds, cmds', i) /\ cmds'[i].end = x /\ cmds'[i].from = y
  <2> DEFINE e1 == [cmds[i] EXCEPT !.runs = @ + 1]
             e2 == [e1 EXCEPT !.end = x]
             e3 == [e2 EXCEPT !.from = y]
             c1 == [cmds EXCEPT ![i] = e1]
             c2 == [c1 EXCEPT ![i] = e2]
             c3 == [c2 EXCEPT ![i] = e3]
  <2>0. i \in 1 .. Len(cmds) /\ cmds[i] \in Command /\ DOMAIN cmds = 1 .. Len(cmds)
    BY <1>1, LenProperties, ElementOfSeq
  <2>1. e1 \in Command /\ e2 \in Command /\ e3 \in Command
    <3>1. e1 \in Command
      BY <2>0 DEF Command
    <3> HIDE DEF e1
    <3>2. e2 \in Command
      BY <1>3, <3>1 DEF Command
    <3> HIDE DEF e2
    <3>3. e3 \in Command
      BY <1>3, <3>2 DEF Command
    <3> QED BY <3>1, <3>2, <3>3
  <2>2. /\ e3.by = cmds[i].by /\ e3.kind = cmds[i].kind /\ e3.n = cmds[i].n
        /\ e3.status = cmds[i].status /\ e3.runs = cmds[i].runs + 1 /\ e3.end = x /\ e3.from = y
    BY <2>0 DEF Command
  <2> HIDE DEF e1, e2, e3
  <2>3. c1 \in Seq(Command) /\ Len(c1) = Len(cmds) /\ \A j \in 1 .. Len(cmds) : c1[j] = IF j = i THEN e1 ELSE cmds[j]
    BY <1>1, <2>0, <2>1, ExceptSeq
  <2> HIDE DEF c1
  <2>4. c2 \in Seq(Command) /\ Len(c2) = Len(cmds) /\ \A j \in 1 .. Len(cmds) : c2[j] = IF j = i THEN e2 ELSE cmds[j]
    BY <2>0, <2>1, <2>3, ExceptSeq
  <2> HIDE DEF c2
  <2>5. c3 \in Seq(Command) /\ Len(c3) = Len(cmds) /\ \A j \in 1 .. Len(cmds) : c3[j] = IF j = i THEN e3 ELSE cmds[j]
    BY <2>0, <2>1, <2>4, ExceptSeq
  <2> HIDE DEF c3
  <2>6. DOMAIN c3 = 1 .. Len(cmds)
    BY <2>5, LenProperties
  <2>7. Ran(cmds, c3, i) /\ c3[i].end = x /\ c3[i].from = y
    BY <2>0, <2>2, <2>5, <2>6 DEF Ran, Edited
  <2>8. c1[i] = e1 /\ c2[i] = e2
    BY <2>0, <2>3, <2>4
  <2>9. c3 = [cmds EXCEPT ![i].runs = @ + 1, ![i].end = x, ![i].from = y]
    BY <2>8 DEF c1, c2, c3, e1, e2, e3
  <2> QED BY <1>4, <2>7, <2>9
<1>7. cmds' \in Seq(Command)
  BY <1>6 DEF Ran, Edited
<1>8. ToSet(q["Frame"]) \subseteq Ids
  BY <1>1, LenProperties, ElementOfSeq DEF ToSet
<1>9. /\ left' = left + n /\ owed' = owed + n
      /\ ahead' = IF cmds[i].kind = "advance" THEN ahead \cup ToSet(q["Frame"]) ELSE ahead
      /\ loaded' \in BOOLEAN /\ UNCHANGED <<done, released>>
  BY <1>1 DEF RunBody
<1>10. cmds[i].kind = "advance" => cmds'[i].end = done + left + n /\ cmds'[i].from = done + InFlight
  BY <1>6 DEF x, y, BudgetEnd
<1> HIDE DEF n
<1> QED BY <1>1, <1>2, <1>6, <1>7, <1>8, <1>9, <1>10 DEF n

\* What the invariant says of a caller at work, without the rest of it.
Busy ==
    /\ \A c \in Callers : at[c] # "idle" => cur[c] \in DOMAIN cmds
    /\ pc = "drop" => left > 0
    /\ \A k \in DOMAIN batch : batch[k] \in DOMAIN cmds

\* Both parts of the invariant that the types need.
LEMMA IInvBusy == Budget /\ Flow => Busy
  BY DEF Budget, Flow, AtWork, Lined, Busy

\* The types hold at first.
LEMMA TypesInit == Init => Types
<1> SUFFICES ASSUME Init PROVE Types
  OBVIOUS
<1>1. <<>> \in Seq(Command) /\ <<>> \in Seq(Ids) /\ Len(<<>>) = 0
  BY EmptySeq
<1>2. q \in [Lanes -> Seq(Ids)]
  BY <1>1 DEF Init
<1>3. at \in [Callers -> CallerPoints] /\ cur \in [Callers -> 0 .. MaxCmds]
  BY EmuAssumption DEF Init, CallerPoints
<1>4. /\ cmds \in Seq(Command) /\ Len(cmds) <= MaxCmds
      /\ batch \in Seq(Ids) /\ loaded \in BOOLEAN /\ starts \in 0 .. MaxStarts
  BY <1>1, EmuAssumption DEF Init
<1>5. /\ wake \in BOOLEAN /\ wakeDbg \in BOOLEAN /\ closed \in BOOLEAN
      /\ stop \in BOOLEAN /\ finished \in BOOLEAN /\ starting \in BOOLEAN /\ stopping \in BOOLEAN
      /\ budget \in BOOLEAN /\ paused \in BOOLEAN
  BY Zenon DEF Init
<1>6. /\ state \in States /\ pc \in LoopPoints
      /\ left \in Nat /\ done \in Nat /\ owed \in Int
      /\ ahead \subseteq Ids /\ released \subseteq Ids
  BY DEF Init, States, LoopPoints
<1> QED BY <1>2, <1>3, <1>4, <1>5, <1>6 DEF Types

\* A command that is marked stays a command.
LEMMA MarkedType ==
  ASSUME Types, NEW i \in DOMAIN cmds, NEW s \in Statuses, cmds' = [cmds EXCEPT ![i].status = s]
  PROVE  cmds' \in Seq(Command) /\ Len(cmds') = Len(cmds) /\ Marked(cmds, cmds', i, s)
<1>1. cmds \in Seq(Command)
  BY DEF Types
<1>2. Marked(cmds, [cmds EXCEPT ![i].status = s], i, s)
  BY <1>1, StatusEdit
<1>3. Marked(cmds, cmds', i, s)
  BY <1>2
<1> QED BY <1>3 DEF Marked, Edited

\* A caller keeps the types.
LEMMA CallerTypes ==
  ASSUME Types, Busy, NEW c \in Callers,
         Begin(c) \/ CallerStep(c) \/ CallForTimeout(c) \/ GiveUp(c) \/ AdvanceGiveUp(c)
  PROVE  Types'
<1>0. /\ cmds \in Seq(Command) /\ Len(cmds) <= MaxCmds
      /\ q \in [Lanes -> Seq(Ids)] /\ pc \in LoopPoints
      /\ at \in [Callers -> CallerPoints] /\ cur \in [Callers -> 0 .. MaxCmds]
      /\ left \in Nat /\ done \in Nat /\ owed \in Int
      /\ ahead \subseteq Ids /\ released \subseteq Ids /\ loaded \in BOOLEAN
      /\ MaxCmds \in Nat
  BY EmuAssumption DEF Types
<1>1. at[c] # "idle" => cur[c] \in DOMAIN cmds /\ cur[c] \in Ids
  BY Numbers DEF Busy
<1>2. at' \in [Callers -> CallerPoints]
  BY <1>0 DEF Begin, CallerStep, CallForTimeout, GiveUp, AdvanceGiveUp, AdvanceEntry, CheckAbandoned,
       Route, inlineStep, Post, WaitFinished, RunOnCaller, Answered, WaitAbandoned, Cancel,
       AdvanceCheck, AdvanceRecheck, AdvanceReturn, GoTo, CallerPoints
<1>3. UNCHANGED <<life, batch, budget, closed, paused>> /\ pc' \in LoopPoints
  <2>1. UNCHANGED <<life, batch, budget, closed>> /\ pc' \in {pc, Woken(pc)}
    BY CallerKeeps
  <2>2. UNCHANGED paused
    BY DEF Begin, CallerStep, CallForTimeout, GiveUp, AdvanceGiveUp, AdvanceEntry, CheckAbandoned,
       Route, inlineStep, Post, WaitFinished, RunOnCaller, Answered, WaitAbandoned, Cancel,
       AdvanceCheck, AdvanceRecheck, AdvanceReturn
  <2> QED BY <1>0, <2>1, <2>2, WokenLoop DEF LoopPoints
<1>4. CASE Begin(c)
  <2>1. PICK k \in Kinds, n \in Ns \cup {0} :
           cmds' = Append(cmds, [by |-> c, kind |-> k, n |-> n, runs |-> 0, status |-> "new",
                                 end |-> 0, from |-> 0])
    BY <1>4 DEF Begin
  <2>2. [by |-> c, kind |-> k, n |-> n, runs |-> 0, status |-> "new",
                                 end |-> 0, from |-> 0] \in Command
    BY DEF Command, Statuses
  <2>3. cmds' \in Seq(Command) /\ Len(cmds') = Len(cmds) + 1 /\ Len(cmds) \in Nat
    BY <1>0, <2>1, <2>2, Appended
  <2>4. Len(cmds) < MaxCmds /\ cur' = [cur EXCEPT ![c] = Len(cmds) + 1]
        /\ UNCHANGED <<lanes, frames>>
    BY <1>4 DEF Begin
  <2>5. cur' \in [Callers -> 0 .. MaxCmds]
    BY <1>0, <2>3, <2>4
  <2> QED BY <1>0, <1>2, <1>3, <2>3, <2>4, <2>5 DEF Types, lanes, frames, life
<1>5. CASE Route(c) \/ WaitFinished(c) \/ Cancel(c)
  <2>1. /\ at[c] # "idle" /\ UNCHANGED <<lanes, frames, cur>>
        /\ cmds' = cmds \/ \E s \in Statuses : cmds' = [cmds EXCEPT ![cur[c]].status = s]
    BY <1>5 DEF Route, WaitFinished, Cancel, Statuses
  <2>2. cmds' \in Seq(Command) /\ Len(cmds') = Len(cmds)
    BY <1>0, <1>1, <2>1, MarkedType
  <2> QED BY <1>0, <1>2, <1>3, <2>1, <2>2 DEF Types, lanes, frames, life
<1>6. CASE Post(c)
  <2>1. at[c] # "idle" /\ UNCHANGED <<frames, cur>>
    BY <1>6 DEF Post
  <2>2. CASE UNCHANGED <<cmds, lanes>>
    BY <1>0, <1>2, <1>3, <2>1, <2>2 DEF Types, lanes, frames, life
  <2>3. CASE /\ q' = [q EXCEPT ![Lane(Kind(c))] = Append(@, cur[c])]
             /\ wake' = TRUE /\ wakeDbg' = (wakeDbg \/ Lane(Kind(c)) = "Debug")
             /\ cmds' = [cmds EXCEPT ![cur[c]].status = "queued"]
    <3>1. cmds' \in Seq(Command) /\ Len(cmds') = Len(cmds)
      BY <1>1, <2>1, <2>3, MarkedType DEF Statuses
    <3>2. q' \in [Lanes -> Seq(Ids)]
      <4>1. Lane(Kind(c)) \in Lanes /\ q[Lane(Kind(c))] \in Seq(Ids)
        BY <1>0 DEF Lane, Lanes
      <4>2. Append(q[Lane(Kind(c))], cur[c]) \in Seq(Ids)
        BY <1>1, <2>1, <4>1, AppendProperties
      <4> QED BY <1>0, <2>3, <4>1, <4>2
    <3>3. wake' \in BOOLEAN /\ wakeDbg' \in BOOLEAN
      BY <2>3 DEF Types
    <3> QED BY <1>0, <1>2, <1>3, <2>1, <3>1, <3>2, <3>3 DEF Types, frames, life
  <2> QED BY <1>6, <2>2, <2>3 DEF Post
<1>7. CASE RunOnCaller(c)
  <2>1. at[c] # "idle" /\ UNCHANGED <<lanes, cur>>
    BY <1>7 DEF RunOnCaller
  <2>2. CASE UNCHANGED <<cmds, frames>>
    BY <1>0, <1>2, <1>3, <2>1, <2>2 DEF Types, lanes, frames, life
  <2>3. CASE RunBody(cur[c])
    <3>1. /\ cmds' \in Seq(Command) /\ Ran(cmds, cmds', cur[c])
          /\ cmds[cur[c]].n \in Nat /\ left' = left + cmds[cur[c]].n /\ owed' = owed + cmds[cur[c]].n
          /\ ahead' \subseteq Ids /\ loaded' \in BOOLEAN
          /\ UNCHANGED <<done, released>>
      BY <1>1, <2>1, <2>3, BodyDoes
    <3>2. Len(cmds') = Len(cmds)
      BY <3>1 DEF Ran, Edited
    <3>3. left' \in Nat /\ owed' \in Int /\ done' = done /\ released' = released
      <4>1. PICK k \in Nat : left' = left + k /\ owed' = owed + k
        BY <3>1
      <4>2. left \in Nat /\ owed \in Int
        BY <1>0
      <4> QED BY <3>1, <4>1, <4>2
    <3>4. Len(cmds') <= MaxCmds /\ UNCHANGED <<lanes, cur>> /\ cmds' \in Seq(Command)
          /\ ahead' \subseteq Ids /\ loaded' \in BOOLEAN
      BY <1>0, <2>1, <3>1, <3>2
    <3> HIDE DEF RunBody
    <3> QED BY <1>0, <1>2, <1>3, <3>3, <3>4, SMTT(30) DEF Types, lanes, life
  <2> QED BY <1>7, <2>2, <2>3 DEF RunOnCaller
<1>8. CASE UNCHANGED <<cmds, lanes, frames, cur>>
  BY <1>0, <1>2, <1>3, <1>8 DEF Types, lanes, frames, life
<1> QED BY <1>4, <1>5, <1>6, <1>7, <1>8 DEF CallerStep, CallForTimeout, GiveUp, AdvanceGiveUp, AdvanceEntry,
       CheckAbandoned, inlineStep, Answered, WaitAbandoned, AdvanceCheck, AdvanceRecheck, AdvanceReturn

\* A drain takes a lane; what it leaves is a lane.
LEMMA DrainTypes ==
  ASSUME Types, NEW lane \in Lanes, NEW next \in LoopPoints, Drain(lane, next)
  PROVE  Types'
<1>1. q \in [Lanes -> Seq(Ids)] /\ <<>> \in Seq(Ids)
  BY EmptySeq DEF Types
<1>2. q' \in [Lanes -> Seq(Ids)] /\ batch' \in Seq(Ids)
  BY <1>1 DEF Drain
<1>3. pc' \in LoopPoints
  BY DEF Drain
<1> QED BY <1>2, <1>3 DEF Drain, Types, life, frames, callers

\* The loop keeps the types; a budget that drops was positive.
LEMMA LoopTypes ==
  ASSUME Types, Busy, LoopStep \/ WaitTimeout
  PROVE  Types'
<1>0. /\ cmds \in Seq(Command) /\ Len(cmds) <= MaxCmds
      /\ q \in [Lanes -> Seq(Ids)] /\ batch \in Seq(Ids) /\ pc \in LoopPoints
      /\ left \in Nat /\ done \in Nat /\ owed \in Int
      /\ ahead \subseteq Ids /\ released \subseteq Ids
  BY DEF Types
<1>1. CASE Boot \/ Break \/ NotDue \/ EndFrame \/ LeaveLoop
  <2>1. pc' \in LoopPoints
    BY <1>1 DEF Boot, Break, NotDue, EndFrame, LeaveLoop, LoopPoints
  <2>2. UNCHANGED <<cmds, lanes, life, batch, budget, frames, paused, callers>>
    BY <1>1 DEF Boot, Break, NotDue, EndFrame, LeaveLoop
  <2> QED BY <2>1, <2>2 DEF Types, lanes, life, frames, callers
<1>2. CASE DrainFrame \/ DrainDebug \/ DrainFrameAgain
  BY <1>2, DrainTypes DEF DrainFrame, DrainDebug, DrainFrameAgain, Lanes, LoopPoints, Drains
<1>3. CASE StartCommand
  <2>0. batch # <<>> /\ UNCHANGED <<lanes, life, pc, budget, frames, paused, callers>>
    BY <1>3 DEF StartCommand
  <2>1. Head(batch) \in DOMAIN cmds /\ Tail(batch) \in Seq(Ids)
    BY <1>0, <2>0, TailOf DEF Busy
  <2>2. CASE cmds' = [cmds EXCEPT ![Head(batch)].status = "started"] /\ UNCHANGED batch
    <3>1. cmds' \in Seq(Command) /\ Len(cmds') = Len(cmds)
      BY <2>1, <2>2, MarkedType DEF Statuses
    <3> QED BY <1>0, <2>0, <2>2, <3>1 DEF Types, lanes, life, frames, callers
  <2>3. CASE batch' = Tail(batch) /\ UNCHANGED cmds
    BY <1>0, <2>0, <2>1, <2>3 DEF Types, lanes, life, frames, callers
  <2> QED BY <1>3, <2>2, <2>3 DEF StartCommand
<1>4. CASE RunCommand
  <2>0. /\ batch # <<>> /\ UNCHANGED <<lanes, life, pc, budget, paused, callers>>
        /\ RunBody(Head(batch)) /\ batch' = Tail(batch)
    BY <1>4 DEF RunCommand
  <2>1. Head(batch) \in DOMAIN cmds /\ Tail(batch) \in Seq(Ids)
    BY <1>0, <2>0, TailOf DEF Busy
  <2>2. /\ cmds' \in Seq(Command) /\ Ran(cmds, cmds', Head(batch))
        /\ cmds[Head(batch)].n \in Nat
        /\ left' = left + cmds[Head(batch)].n /\ owed' = owed + cmds[Head(batch)].n
        /\ ahead' \subseteq Ids /\ loaded' \in BOOLEAN
        /\ UNCHANGED <<done, released>>
    BY <2>0, <2>1, BodyDoes
  <2>3. Len(cmds') = Len(cmds)
    BY <2>2 DEF Ran, Edited
  <2>4. left' \in Nat /\ owed' \in Int /\ done' = done /\ released' = released
    <3>1. PICK k \in Nat : left' = left + k /\ owed' = owed + k
      BY <2>2
    <3>2. left \in Nat /\ owed \in Int
      BY <1>0
    <3> QED BY <2>2, <3>1, <3>2
  <2>5. /\ Len(cmds') <= MaxCmds /\ cmds' \in Seq(Command) /\ batch' \in Seq(Ids)
        /\ ahead' \subseteq Ids /\ loaded' \in BOOLEAN
    BY <1>0, <2>0, <2>1, <2>2, <2>3
  <2>6. UNCHANGED <<q, wake, wakeDbg, closed, state, stop, finished, starting, stopping, starts,
                    pc, budget, paused, at, cur>>
    BY <2>0 DEF lanes, life, callers
  <2> HIDE DEF RunBody
  <2> QED BY <2>4, <2>5, <2>6 DEF Types
<1>5. CASE Release
  <2>1. released' \subseteq Ids
    BY <1>0, <1>5, Numbers DEF Release
  <2>2. /\ UNCHANGED <<cmds, lanes, life, batch, budget, done, loaded, owed, ahead, paused, callers>>
        /\ left' \in Nat /\ pc' \in LoopPoints
    BY <1>5 DEF Release, LoopPoints
  <2> QED BY <2>1, <2>2 DEF Types, lanes, life, callers
<1>6. CASE StartFrame
  <2>1. /\ UNCHANGED <<cmds, lanes, life, batch, left, done, loaded, released, paused, callers>>
        /\ budget' \in BOOLEAN /\ pc' \in LoopPoints /\ owed' \in Int /\ ahead' \subseteq Ids
    BY <1>0, <1>6 DEF StartFrame, LoopPoints
  <2> QED BY <2>1 DEF Types, lanes, life, callers
<1>7. CASE Wait \/ WaitTimeout
  <2>1. /\ UNCHANGED <<cmds, q, wakeDbg, closed, life, batch, budget, frames, paused, callers>>
        /\ wake' \in {wake, FALSE} /\ pc' \in LoopPoints
    BY <1>7 DEF Wait, WaitTimeout, LoopPoints
  <2> QED BY <2>1 DEF Types, life, frames, callers
<1>8. CASE HaltWait \/ HaltTimeout
  <2>1. /\ UNCHANGED <<cmds, q, wake, closed, life, batch, budget, frames, paused, callers>>
        /\ wakeDbg' \in {wakeDbg, FALSE} /\ pc' \in LoopPoints
    BY <1>8 DEF HaltWait, HaltTimeout, LoopPoints
  <2> QED BY <2>1 DEF Types, life, frames, callers
<1>9. CASE ServeDebugLane
  <2>1. CASE pc = "frame" /\ ~abandoned /\ Drain("Debug", IF q["Debug"] = <<>> THEN "hwait" ELSE "runH")
    <3>1. (IF q["Debug"] = <<>> THEN "hwait" ELSE "runH") \in LoopPoints
      BY DEF LoopPoints, Drains
    <3> QED BY <2>1, <3>1, DrainTypes DEF Lanes
  <2>2. CASE pc = "hdrain" /\ Drain("Debug", "runH")
    <3>1. "runH" \in LoopPoints
      BY DEF LoopPoints, Drains
    <3> QED BY <2>2, <3>1, DrainTypes DEF Lanes
  <2>3. CASE /\ pc' = "frame"
             /\ UNCHANGED <<cmds, lanes, life, batch, budget, frames, paused, callers>>
    BY <2>3 DEF Types, lanes, life, frames, callers, LoopPoints
  <2> QED BY <1>9, <2>1, <2>2, <2>3 DEF ServeDebugLane
<1>10. CASE AccountFrame
  <2>1. /\ UNCHANGED <<cmds, lanes, life, batch, loaded, owed, ahead, released, paused, callers>>
        /\ pc' \in LoopPoints /\ (budget' = budget \/ budget' = FALSE)
    BY <1>10 DEF AccountFrame, LoopPoints
  <2>2. done' \in Nat
    BY <1>0, <1>10 DEF AccountFrame
  <2>3. left' \in Nat
    BY <1>0, <1>10 DEF AccountFrame, Busy
  <2> QED BY <2>1, <2>2, <2>3 DEF Types, lanes, life, callers
<1>11. CASE CloseAndDrain
  <2>1. /\ UNCHANGED <<cmds, wake, wakeDbg, life, budget, frames, paused, callers>>
        /\ batch' = q["Frame"] \o q["Debug"] /\ q' = [l \in Lanes |-> <<>>]
        /\ closed' \in BOOLEAN /\ pc' \in LoopPoints
    BY <1>11 DEF CloseAndDrain, LoopPoints, Drains
  <2>2. batch' \in Seq(Ids)
    BY <1>0, <2>1, ConcatProperties DEF Lanes
  <2>3. q' \in [Lanes -> Seq(Ids)]
    BY <2>1, EmptySeq
  <2> QED BY <2>1, <2>2, <2>3 DEF Types, life, frames, callers
<1>12. CASE Finish
  BY <1>12 DEF Finish, Types, lanes, frames, callers, LoopPoints
<1> QED BY <1>1, <1>2, <1>3, <1>4, <1>5, <1>6, <1>7, <1>8, <1>9, <1>10, <1>11, <1>12 DEF LoopStep

\* The owner keeps the types.
LEMMA OwnerTypes ==
  ASSUME Types, \/ Start \/ StartReady \/ StartInline \/ Stop \/ StopJoin \/ StopTimeout
                \/ setPaused \/ notifyTick
  PROVE  Types'
<1>0. /\ state \in States /\ starts \in 0 .. MaxStarts /\ pc \in LoopPoints /\ MaxStarts \in Nat
      /\ paused \in BOOLEAN /\ Woken(pc) \in LoopPoints
  BY EmuAssumption, WokenLoop DEF Types, LoopPoints
<1>1. CASE Start
  <2>1. /\ state' \in States /\ (starting' = starting \/ starting' = TRUE)
        /\ pc' \in LoopPoints
    BY <1>0, <1>1 DEF Start, States, LoopPoints
  <2>3. starts' \in 0 .. MaxStarts
    BY <1>0, <1>1 DEF Start
  <2>2. /\ closed' = FALSE /\ wake' = FALSE /\ wakeDbg' = FALSE
        /\ stop' = FALSE /\ finished' = FALSE
        /\ left' \in Nat /\ owed' \in Int
        /\ UNCHANGED <<cmds, q, stopping, batch, budget, done, loaded, ahead, released, paused, callers>>
    BY <1>1 DEF Start
  <2> QED BY <2>1, <2>2, <2>3 DEF Types, callers
<1>2. CASE StartReady
  BY <1>2 DEF StartReady, Types, lanes, frames, callers, States, LoopPoints
<1>3. CASE StartInline \/ StopJoin \/ StopTimeout
  <2>1. /\ state' \in States /\ stopping' \in {stopping, FALSE}
        /\ UNCHANGED <<cmds, lanes, stop, finished, starting, starts, loopVars, frames, paused, callers>>
    BY <1>3 DEF StartInline, StopJoin, StopTimeout, States
  <2> QED BY <2>1 DEF Types, lanes, loopVars, frames, callers
<1>4. CASE Stop
  <2>1. /\ state' \in States /\ stop' = TRUE /\ stopping' = TRUE /\ wake' = TRUE /\ wakeDbg' = TRUE
        /\ pc' \in LoopPoints
        /\ UNCHANGED <<cmds, q, closed, finished, starting, starts, batch, budget, frames, paused, callers>>
    BY <1>0, <1>4 DEF Stop, Notify, States
  <2> QED BY <2>1 DEF Types, frames, callers
<1>5. CASE setPaused \/ notifyTick
  <2>1. /\ wake' = TRUE /\ wakeDbg' = TRUE /\ pc' \in LoopPoints /\ paused' \in BOOLEAN
        /\ UNCHANGED <<cmds, q, closed, life, batch, budget, frames, callers>>
    BY <1>0, <1>5 DEF setPaused, notifyTick, Notify
  <2> QED BY <2>1 DEF Types, life, frames, callers
<1> QED BY <1>1, <1>2, <1>3, <1>4, <1>5

\* Every step keeps the types.
LEMMA TypesNext ==
  ASSUME Types, Busy, [Next]_vars
  PROVE  Types'
<1>1. CASE UNCHANGED vars
  BY <1>1 DEF vars, Types, lanes, life, loopVars, frames, callers
<1> QED BY <1>1, OwnerTypes, LoopTypes, CallerTypes DEF Next

------------------------------------------------------------------------------
(* Flow.                                                                   *)

\* Nothing is on its way at first.
LEMMA FlowInit == Init => Flow
<1> SUFFICES ASSUME Init PROVE Flow
  OBVIOUS
<1>1. /\ cmds = <<>> /\ DOMAIN cmds = {} /\ batch = <<>> /\ DOMAIN batch = {} /\ pc = "none"
      /\ \A l \in Lanes : q[l] = <<>> /\ DOMAIN q[l] = {}
      /\ \A c \in Callers : at[c] = "idle"
  BY DEF Init
<1>2. Lined(cmds, q, batch)
  BY <1>1 DEF Lined
<1>3. Ordered(cmds)
  BY <1>1 DEF Ordered
<1> QED BY <1>1, <1>2, <1>3 DEF Flow, AtWork

\* While no emulation thread runs nothing is queued: the lanes and the batch are empty.
LEMMA NothingQueued ==
  ASSUME Flow, pc \in {"none", "gone"}
  PROVE  /\ batch = <<>> /\ \A l \in Lanes : q[l] = <<>>
         /\ \A i \in DOMAIN cmds : cmds[i].status # "queued"
<1>1. batch = <<>> /\ DOMAIN batch = {}
  BY DEF Flow, Drains
<1>2. \A l \in Lanes : q[l] = <<>> /\ DOMAIN q[l] = {}
  BY DEF Flow
<1> QED BY <1>1, <1>2 DEF Flow, Lined

\* The head of a batch is its caller's earliest queued command of its lane.
LEMMA HeadFirst ==
  ASSUME NEW cm, NEW qq, NEW b \in Seq(Ids), b # <<>>, Lined(cm, qq, b),
         NEW j \in DOMAIN cm, cm[j].status = "queued",
         cm[j].by = cm[b[1]].by, Lane(cm[j].kind) = Lane(cm[b[1]].kind), j \in Nat
  PROVE  ~(j < b[1])
<1>1. 1 \in DOMAIN b /\ b[1] \in Ids /\ DOMAIN b = 1 .. Len(b) /\ Len(b) \in Nat
  BY TailOf, LenProperties
<1>2. j = b[1] \/ Before(cm, b[1], j)
  <2>1. CASE \E k \in DOMAIN b : b[k] = j
    <3>1. PICK k \in DOMAIN b : b[k] = j
      BY <2>1
    <3>2. k = 1 \/ 1 < k
      BY <1>1, <3>1
    <3> QED BY <1>1, <3>1, <3>2 DEF Lined
  <2>2. CASE \E l \in Lanes : \E k \in DOMAIN qq[l] : qq[l][k] = j
    BY <1>1, <2>2 DEF Lined
  <2> QED BY <2>1, <2>2 DEF Lined
<1>3. b[1] \in Nat
  BY <1>1 DEF Ids
<1> QED BY <1>2, <1>3 DEF Before

\* The order is kept by a start that no earlier queued command is waiting before, by a
\* post of the last command of its caller, and by a cancellation.
LEMMA OrderedMark ==
  ASSUME NEW cm \in Seq(Command), NEW cm2, NEW i \in DOMAIN cm, NEW s, Ordered(cm),
         Marked(cm, cm2, i, s),
         s = "started" => \A j \in DOMAIN cm :
             j < i /\ cm[j].by = cm[i].by /\ Lane(cm[j].kind) = Lane(cm[i].kind)
                 => cm[j].status # "queued",
         s = "queued" => \A j \in DOMAIN cm : cm[j].by = cm[i].by => j <= i
  PROVE  Ordered(cm2)
<1>1. /\ DOMAIN cm2 = DOMAIN cm
      /\ \A j \in DOMAIN cm : j # i => cm2[j] = cm[j]
      /\ cm2[i].by = cm[i].by /\ cm2[i].kind = cm[i].kind /\ cm2[i].status = s
  BY DEF Marked, Edited
<1>2. DOMAIN cm = 1 .. Len(cm) /\ Len(cm) \in Nat
  BY LenProperties
<1> SUFFICES ASSUME NEW j \in DOMAIN cm2, NEW k \in 1 .. j - 1,
                    cm2[k].by = cm2[j].by, Lane(cm2[k].kind) = Lane(cm2[j].kind),
                    cm2[j].status = "started"
             PROVE  cm2[k].status # "queued"
  BY DEF Ordered
<1>3. j \in DOMAIN cm /\ k \in DOMAIN cm /\ k < j /\ ~(j <= k) /\ k # j
  BY <1>1, <1>2
<1>4. CASE j = i
  BY <1>1, <1>3, <1>4
<1>5. CASE k = i
  BY <1>1, <1>3, <1>5
<1>6. CASE j # i /\ k # i
  BY <1>1, <1>3, <1>6 DEF Ordered
<1> QED BY <1>4, <1>5, <1>6

\* The order does not depend on what ran.
LEMMA OrderedRan ==
  ASSUME NEW cm \in Seq(Command), NEW cm2, NEW i \in DOMAIN cm, Ordered(cm), Ran(cm, cm2, i)
  PROVE  Ordered(cm2)
<1>1. /\ DOMAIN cm2 = DOMAIN cm
      /\ \A j \in DOMAIN cm : cm2[j].by = cm[j].by /\ cm2[j].kind = cm[j].kind
                              /\ cm2[j].status = cm[j].status
  BY DEF Ran, Edited
<1>2. DOMAIN cm = 1 .. Len(cm) /\ Len(cm) \in Nat
  BY LenProperties
<1>3. \A j \in DOMAIN cm : \A k \in 1 .. j - 1 : k \in DOMAIN cm
  BY <1>2
<1> QED BY <1>1, <1>3 DEF Ordered

\* A caller's state is kept when it stays where it is and another command changes.
LEMMA AtWorkEdited ==
  ASSUME NEW d \in Callers, AtWork(d), NEW i, Edited(cmds, cmds', i),
         at'[d] = at[d], cur'[d] = cur[d],
         at[d] # "idle" => cur[d] # i,
         at[d] = "core" => \A k \in DOMAIN batch' : batch'[k] # cur[d]
  PROVE  AtWork(d)'
<1> SUFFICES ASSUME at[d] # "idle"
             PROVE  /\ cur[d] \in DOMAIN cmds' /\ cmds'[cur[d]].by = d
                    /\ \A j \in DOMAIN cmds' : cmds'[j].by = d => j <= cur[d]
                    /\ at[d] \in Unposted => cmds'[cur[d]].status = "new"
                    /\ at[d] = "core" =>
                          /\ cmds'[cur[d]].status \in {"new", "started"} /\ cmds'[cur[d]].runs = 0
                          /\ \A k \in DOMAIN batch' : batch'[k] # cur[d]
  BY DEF AtWork
<1>1. /\ DOMAIN cmds' = DOMAIN cmds
      /\ \A j \in DOMAIN cmds : cmds'[j].by = cmds[j].by
      /\ \A j \in DOMAIN cmds : j # i => cmds'[j] = cmds[j]
  BY DEF Edited
<1> QED BY <1>1 DEF AtWork

\* What a command and the batch may do without a caller noticing.
LEMMA AtWorkKept ==
  ASSUME NEW d \in Callers, AtWork(d), cmds' = cmds, at'[d] = at[d], cur'[d] = cur[d],
         at[d] = "core" => \A k \in DOMAIN batch' : batch'[k] # cur[d]
  PROVE  AtWork(d)'
  BY DEF AtWork

\* The owner moves no command; a start finds the lanes empty.
LEMMA OwnerFlow ==
  ASSUME Types, Threads, Flow,
         \/ Start \/ StartReady \/ StartInline \/ Stop \/ StopJoin \/ StopTimeout
         \/ setPaused \/ notifyTick
  PROVE  Flow'
<1>1. UNCHANGED <<cmds, q, batch, callers>>
  BY DEF Start, StartReady, StartInline, Stop, StopJoin, StopTimeout, setPaused, notifyTick,
         lanes, loopVars
<1>2. Lined(cmds, q, batch)' /\ (\A c \in Callers : AtWork(c))'
  BY <1>1 DEF Flow, AtWork, callers
<1>3. ~abandoned' => ~abandoned
  BY DEF Start, StartReady, StartInline, Stop, StopJoin, StopTimeout, setPaused, notifyTick,
         abandoned, Threads, life
<1>4. CASE Start
  <2>1. pc \in {"none", "gone"} /\ \A c \in Callers : at[c] = "idle"
    BY <1>4 DEF Start, Threads
  <2>2. batch = <<>> /\ \A l \in Lanes : q[l] = <<>>
    BY <2>1, NothingQueued
  <2>3. pc' = "boot" \/ (pc' = pc /\ state' = "Inline")
    BY <1>4 DEF Start
  <2> QED BY <1>1, <1>2, <1>3, <2>1, <2>2, <2>3 DEF Flow, callers
<1>5. CASE StartReady
  <2>1. pc = "ready" /\ pc' = "top"
    BY <1>5 DEF StartReady
  <2> QED BY <1>1, <1>2, <1>3, <2>1 DEF Flow, callers, Drains
<1>6. CASE StartInline
  <2>1. pc' = pc /\ state' = "Inline" /\ \A c \in Callers : at[c] = "idle"
    BY <1>6 DEF StartInline, loopVars
  <2> QED BY <1>1, <1>2, <1>3, <2>1 DEF Flow, callers
<1>7. CASE StopJoin \/ StopTimeout
  <2>1. pc' = pc /\ closed' = closed /\ state # "Inline"
    BY <1>7 DEF StopJoin, StopTimeout, loopVars, lanes, Threads
  <2> QED BY <1>1, <1>2, <1>3, <2>1 DEF Flow, callers
<1>8. CASE Stop \/ setPaused \/ notifyTick
  <2>1. /\ pc' = Woken(pc) /\ closed' = closed
        /\ state' = state \/ state # "Inline"
    BY <1>8 DEF Stop, setPaused, notifyTick, Notify, life
  <2>2. \/ pc' = pc
        \/ pc \notin Drains \cup {"none", "boot", "ready", "leave", "gone"}
           /\ pc' \notin Drains \cup {"none", "boot", "ready", "leave", "gone"}
    BY <2>1, WokenLoop DEF Drains
  <2> QED BY <1>1, <1>2, <1>3, <2>1, <2>2 DEF Flow, callers
<1> QED BY <1>4, <1>5, <1>6, <1>7, <1>8

\* A drained lane holds nothing a caller is at work on.
LEMMA DrainFlow ==
  ASSUME Types, Flow, NEW lane \in Lanes, NEW next, Drain(lane, next), batch = <<>>,
         next \in Drains \/ (next = "hwait" /\ q[lane] = <<>>),
         pc \notin {"none", "boot", "ready", "leave", "gone"}
  PROVE  Flow'
<1>1. /\ batch' = q[lane] /\ q' = [q EXCEPT ![lane] = <<>>] /\ pc' = next
      /\ UNCHANGED <<cmds, closed, state, at, cur>>
      /\ cmds \in Seq(Command) /\ q \in [Lanes -> Seq(Ids)]
  BY DEF Drain, Types, life, callers
<1>2. Lined(cmds, q, batch)'
  BY <1>1, LinedDrain DEF Flow
<1>3. (\A c \in Callers : AtWork(c))'
  <2> SUFFICES ASSUME NEW c \in Callers PROVE AtWork(c)'
    BY <1>1
  <2>1. at[c] = "core" => \A k \in DOMAIN batch' : batch'[k] # cur[c]
    <3> SUFFICES ASSUME at[c] = "core", NEW k \in DOMAIN q[lane], q[lane][k] = cur[c] PROVE FALSE
      BY <1>1
    <3>1. cmds[cur[c]].status \in {"queued", "cancelled"}
      BY DEF Flow, Lined
    <3> QED BY <3>1 DEF Flow, AtWork
  <2> QED BY <1>1, <2>1, AtWorkKept DEF Flow
<1>4. pc' \notin {"none", "boot", "ready", "leave", "gone"}
  BY <1>1 DEF Drains
<1> QED BY <1>1, <1>2, <1>3, <1>4 DEF Flow, abandoned

\* The loop takes commands only from the head of what it drained, and closes the lanes
\* only when they are empty.
LEMMA LoopFlow ==
  ASSUME Types, Threads, Flow, LoopStep \/ WaitTimeout
  PROVE  Flow'
<1>0. /\ cmds \in Seq(Command) /\ q \in [Lanes -> Seq(Ids)] /\ batch \in Seq(Ids)
      /\ UNCHANGED <<state, at, cur>> /\ pc \notin {"none", "ready", "gone"}
      /\ ~abandoned' => ~abandoned
      /\ DOMAIN cmds \subseteq Ids
  BY LoopKeeps, Numbers DEF Types, callers, abandoned
<1>1. ASSUME UNCHANGED <<cmds, q, batch, closed>>,
             batch = <<>> \/ pc' \in Drains,
             pc' \notin {"none", "boot", "leave", "gone"} \/ (pc' = "gone" /\ pc = "leave"),
             pc' = "ready" => pc = "boot"
      PROVE  Flow'
  <2>1. (\A c \in Callers : AtWork(c))'
    BY <1>0, <1>1 DEF Flow, AtWork
  <2> QED BY <1>0, <1>1, <2>1 DEF Flow
<1>2. CASE Boot \/ Break \/ Release \/ NotDue \/ StartFrame \/ EndFrame \/ AccountFrame \/ LeaveLoop
           \/ Wait \/ WaitTimeout \/ HaltWait \/ HaltTimeout \/ Finish
  <2>1. UNCHANGED <<cmds, q, batch, closed>>
    BY <1>2 DEF Boot, Break, Release, NotDue, StartFrame, EndFrame, AccountFrame, LeaveLoop,
         Wait, WaitTimeout, HaltWait, HaltTimeout, Finish, lanes
  <2>2. pc \in Drains => batch = <<>>
    BY <1>2 DEF Boot, Break, Release, NotDue, StartFrame, EndFrame, AccountFrame, LeaveLoop,
         Wait, WaitTimeout, HaltWait, HaltTimeout, Finish, Drained, Drains
  <2>3. /\ pc' \notin {"none", "boot", "leave", "gone"} \/ (pc' = "gone" /\ pc = "leave")
        /\ pc' = "ready" => pc = "boot"
    BY <1>2 DEF Boot, Break, Release, NotDue, StartFrame, EndFrame, AccountFrame, LeaveLoop,
         Wait, WaitTimeout, HaltWait, HaltTimeout, Finish
  <2> QED BY <1>1, <2>1, <2>2, <2>3 DEF Flow
<1>3. CASE DrainFrame \/ DrainDebug \/ DrainFrameAgain
  <2>1. batch = <<>> /\ pc \notin {"none", "boot", "ready", "leave", "gone"}
    BY <1>3 DEF DrainFrame, DrainDebug, DrainFrameAgain, Flow, Drains
  <2> QED BY <1>3, <2>1, DrainFlow DEF DrainFrame, DrainDebug, DrainFrameAgain, Drains, Lanes
<1>4. CASE ServeDebugLane
  <2>1. CASE pc = "frame" /\ Drain("Debug", IF q["Debug"] = <<>> THEN "hwait" ELSE "runH")
    <3>1. batch = <<>>
      BY <2>1 DEF Flow, Drains
    <3>2. CASE q["Debug"] = <<>>
      BY <2>1, <3>1, <3>2, DrainFlow DEF Lanes
    <3>3. CASE q["Debug"] # <<>>
      <4>1. Drain("Debug", "runH") /\ "runH" \in Drains
        BY <2>1, <3>3 DEF Drains
      <4> QED BY <2>1, <3>1, <4>1, DrainFlow DEF Lanes
    <3> QED BY <3>2, <3>3
  <2>2. CASE pc = "hdrain" /\ Drain("Debug", "runH")
    <3>1. batch = <<>> /\ "runH" \in Drains
      BY <2>2 DEF Flow, Drains
    <3> QED BY <2>2, <3>1, DrainFlow DEF Lanes
  <2>3. CASE /\ batch = <<>> /\ pc' = "frame"
             /\ UNCHANGED <<cmds, lanes, life, batch, budget, frames, paused, callers>>
    BY <1>1, <2>3 DEF lanes
  <2> QED BY <1>4, <2>1, <2>2, <2>3 DEF ServeDebugLane
<1>5. CASE StartCommand
  <2> DEFINE h == batch[1]
  <2>0. /\ pc \in Drains /\ batch # <<>> /\ UNCHANGED <<q, closed, pc>>
        /\ \/ /\ cmds[h].status = "queued"
              /\ cmds' = [cmds EXCEPT ![h].status = "started"] /\ UNCHANGED batch
           \/ /\ cmds[h].status = "cancelled"
              /\ batch' = Tail(batch) /\ UNCHANGED cmds
    BY <1>0, <1>5, TailOf DEF StartCommand, lanes
  <2>1. h \in DOMAIN cmds /\ h \in Ids /\ cmds[h].runs \in Nat /\ 1 \in DOMAIN batch
    BY <1>0, <2>0, TailOf, Numbers DEF Flow, Lined
  <2>2. CASE cmds[h].status = "queued" /\ cmds' = [cmds EXCEPT ![h].status = "started"] /\ UNCHANGED batch
    <3>1. Marked(cmds, cmds', h, "started")
      BY <2>1, <2>2, MarkedType DEF Statuses
    <3>2. Lined(cmds', q, batch)
      BY <1>0, <2>0, <2>1, <2>2, <3>1, LinedMark DEF Flow
    <3>3. ASSUME NEW c \in Callers PROVE AtWork(c)'
      <4>1. Edited(cmds, cmds', h)
        BY <3>1 DEF Marked
      <4>2. CASE at[c] = "idle" \/ cur[c] # h
        <5>1. at[c] = "core" => \A k \in DOMAIN batch' : batch'[k] # cur[c]
          BY <2>2 DEF Flow, AtWork
        <5> QED BY <1>0, <4>1, <4>2, <5>1, AtWorkEdited DEF Flow
      <4>3. CASE at[c] # "idle" /\ cur[c] = h
        <5>1. AtWork(c) /\ at[c] \notin Unposted /\ at[c] # "core"
          BY <2>1, <2>2, <4>3 DEF Flow, AtWork
        <5>2. /\ DOMAIN cmds' = DOMAIN cmds
              /\ \A j \in DOMAIN cmds : cmds'[j].by = cmds[j].by
          BY <4>1 DEF Edited
        <5>3. at'[c] = at[c] /\ cur'[c] = h
          BY <1>0, <4>3
        <5>4. /\ h \in DOMAIN cmds' /\ cmds'[h].by = c
              /\ \A j \in DOMAIN cmds' : cmds'[j].by = c => j <= h
          BY <4>3, <5>1, <5>2 DEF AtWork
        <5> QED BY <5>1, <5>3, <5>4 DEF AtWork
      <4> QED BY <4>2, <4>3
    <3>4. ~abandoned' => Ordered(cmds')
      <4> SUFFICES ASSUME Ordered(cmds) PROVE Ordered(cmds')
        BY <1>0 DEF Flow
      <4>1. \A j \in DOMAIN cmds :
              j < h /\ cmds[j].by = cmds[h].by /\ Lane(cmds[j].kind) = Lane(cmds[h].kind)
                 => cmds[j].status # "queued"
        <5> SUFFICES ASSUME NEW j \in DOMAIN cmds, cmds[j].status = "queued", cmds[j].by = cmds[h].by,
                            Lane(cmds[j].kind) = Lane(cmds[h].kind)
                     PROVE  ~(j < h)
          OBVIOUS
        <5>1. j \in Nat
          BY Numbers DEF Ids
        <5>2. batch \in Seq(Ids) /\ batch # <<>> /\ Lined(cmds, q, batch)
          BY <1>0, <2>0 DEF Flow
        <5> QED BY <5>1, <5>2, HeadFirst
      <4>2. "started" # "queued"
        OBVIOUS
      <4> HIDE DEF h
      <4> QED BY <1>0, <2>1, <3>1, <4>1, <4>2, OrderedMark
    <3> QED BY <1>0, <2>0, <2>2, <3>2, <3>3, <3>4 DEF Flow
  <2>3. CASE cmds[h].status = "cancelled" /\ batch' = Tail(batch) /\ UNCHANGED cmds
    <3>1. Lined(cmds, q, Tail(batch))
      BY <1>0, <2>0, <2>3, LinedTail DEF Flow
    <3>2. \A k \in DOMAIN batch' : \E m \in DOMAIN batch : batch'[k] = batch[m]
      BY <1>0, <2>0, <2>3, TailOf
    <3>3. ASSUME NEW c \in Callers PROVE AtWork(c)'
      <4>1. at[c] = "core" => \A k \in DOMAIN batch' : batch'[k] # cur[c]
        BY <3>2 DEF Flow, AtWork
      <4> QED BY <1>0, <2>3, <4>1, AtWorkKept DEF Flow
    <3> QED BY <1>0, <2>0, <2>3, <3>1, <3>3 DEF Flow
  <2> QED BY <2>0, <2>2, <2>3
<1>6. CASE RunCommand
  <2> DEFINE h == batch[1]
  <2>0. /\ pc \in Drains /\ batch # <<>> /\ UNCHANGED <<q, closed, pc>>
        /\ cmds[h].status = "started" /\ RunBody(h) /\ batch' = Tail(batch)
    BY <1>0, <1>6, TailOf DEF RunCommand, lanes
  <2>1. h \in DOMAIN cmds /\ 1 \in DOMAIN batch /\ cmds[h].runs = 0
    BY <1>0, <2>0, TailOf DEF Flow, Lined
  <2>2. Ran(cmds, cmds', h)
    BY <2>0, <2>1, BodyDoes
  <2>3. Lined(cmds, q, Tail(batch)) /\ \A k \in DOMAIN Tail(batch) : Tail(batch)[k] # h
    BY <1>0, <2>0, LinedTail DEF Flow
  <2>4. Lined(cmds', q, batch')
    <3> HIDE DEF h
    <3> QED BY <2>0, <2>1, <2>2, <2>3, LinedRan
  <2>5. \A k \in DOMAIN batch' : \E m \in DOMAIN batch : batch'[k] = batch[m]
    BY <1>0, <2>0, TailOf
  <2>6. ASSUME NEW c \in Callers PROVE AtWork(c)'
    <3>1. Edited(cmds, cmds', h) /\ cmds'[h].status = cmds[h].status
      BY <2>2 DEF Ran
    <3>2. at[c] = "core" => \A k \in DOMAIN batch' : batch'[k] # cur[c]
      BY <2>5 DEF Flow, AtWork
    <3>3. CASE at[c] = "idle" \/ cur[c] # h
      BY <1>0, <3>1, <3>2, <3>3, AtWorkEdited DEF Flow
    <3>4. CASE at[c] # "idle" /\ cur[c] = h
      <4>1. AtWork(c) /\ at[c] \notin Unposted /\ at[c] # "core"
        BY <2>0, <2>1, <3>4 DEF Flow, AtWork
      <4>2. /\ DOMAIN cmds' = DOMAIN cmds
            /\ \A j \in DOMAIN cmds : cmds'[j].by = cmds[j].by
        BY <3>1 DEF Edited
      <4>3. at'[c] = at[c] /\ cur'[c] = h
        BY <1>0, <3>4
      <4>4. /\ h \in DOMAIN cmds' /\ cmds'[h].by = c
            /\ \A j \in DOMAIN cmds' : cmds'[j].by = c => j <= h
        BY <3>4, <4>1, <4>2 DEF AtWork
      <4> QED BY <4>1, <4>3, <4>4 DEF AtWork
    <3> QED BY <3>3, <3>4
  <2>7. ~abandoned' => Ordered(cmds')
    BY <1>0, <2>1, <2>2, OrderedRan DEF Flow
  <2> QED BY <1>0, <2>0, <2>4, <2>6, <2>7 DEF Flow
<1>7. CASE CloseAndDrain
  <2>1. /\ batch = <<>> /\ UNCHANGED cmds
        /\ batch' = q["Frame"] \o q["Debug"] /\ q' = [l \in Lanes |-> <<>>]
        /\ closed' = (batch' = <<>>) /\ pc' = IF batch' = <<>> THEN "leave" ELSE "runC"
    BY <1>7 DEF CloseAndDrain, Flow, Drains
  <2>2. Lined(cmds, q', batch')
    BY <1>0, <2>1, LinedClose DEF Flow
  <2>3. ASSUME NEW c \in Callers PROVE AtWork(c)'
    <3>1. at[c] = "core" => \A k \in DOMAIN batch' : batch'[k] # cur[c]
      <4> SUFFICES ASSUME at[c] = "core", NEW k \in DOMAIN batch', batch'[k] = cur[c] PROVE FALSE
        OBVIOUS
      <4>1. \E l \in Lanes : \E m \in DOMAIN q[l] : q[l][m] = cur[c]
        <5>1. q["Frame"] \in Seq(Ids) /\ q["Debug"] \in Seq(Ids)
          BY <1>0 DEF Lanes
        <5> DEFINE f == q["Frame"]
                   d == q["Debug"]
        <5>2. batch' = f \o d
          BY <2>1
        <5>3. /\ Len(f) \in Nat /\ Len(d) \in Nat
              /\ DOMAIN f = 1 .. Len(f) /\ DOMAIN d = 1 .. Len(d)
              /\ k \in 1 .. Len(f) + Len(d)
              /\ batch'[k] = IF k <= Len(f) THEN f[k] ELSE d[k - Len(f)]
          <6> HIDE DEF f, d
          <6>1. /\ batch' \in Seq(Ids) /\ Len(batch') = Len(f) + Len(d)
                /\ \A i \in 1 .. Len(f) + Len(d) : batch'[i] = IF i <= Len(f) THEN f[i] ELSE d[i - Len(f)]
            BY <5>1, <5>2, ConcatProperties DEF f, d
          <6> QED BY <5>1, <6>1, LenProperties DEF f, d
        <5>4. (k \in DOMAIN f /\ f[k] = cur[c]) \/ (k - Len(f) \in DOMAIN d /\ d[k - Len(f)] = cur[c])
          <6> HIDE DEF f, d
          <6> QED BY <5>3
        <5> QED BY <5>4 DEF Lanes
      <4>2. cmds[cur[c]].status \in {"queued", "cancelled"}
        BY <4>1 DEF Flow, Lined
      <4> QED BY <4>2 DEF Flow, AtWork
    <3> QED BY <1>0, <2>1, <3>1, AtWorkKept DEF Flow
  <2>4. \A l \in Lanes : q'[l] = <<>>
    BY <2>1
  <2>5. pc' \in {"leave", "gone"} => closed'
    BY <2>1
  <2>6. batch' # <<>> => pc' \in Drains
    BY <2>1 DEF Drains
  <2>7. pc' \notin {"none", "boot", "ready"}
    BY <2>1
  <2> QED BY <1>0, <2>1, <2>2, <2>3, <2>4, <2>5, <2>6, <2>7 DEF Flow
<1> QED BY <1>2, <1>3, <1>4, <1>5, <1>6, <1>7 DEF LoopStep

\* A caller that moves on without touching a command or a lane.
LEMMA MoveFlow ==
  ASSUME Types, Flow, NEW c \in Callers, NEW p,
         at[c] # "idle", at' = [at EXCEPT ![c] = p],
         UNCHANGED <<cmds, lanes, life, loopVars, cur>>,
         p \in Unposted \ {"posting"} => at[c] \in Unposted,
         p = "posting" => at[c] \in Unposted /\ threaded /\ pc \notin {"none", "boot", "ready"},
         p = "core" => at[c] = "step"
  PROVE  Flow'
<1>0. /\ at \in [Callers -> CallerPoints]
      /\ UNCHANGED <<cmds, q, batch, closed, pc, state, cur>>
      /\ at'[c] = p /\ \A d \in Callers : d # c => at'[d] = at[d]
  BY DEF Types, lanes, life, loopVars
<1>1. ASSUME NEW d \in Callers PROVE AtWork(d)'
  <2>1. CASE d # c
    BY <1>0, <2>1 DEF Flow, AtWork
  <2>2. CASE d = c
    <3>1. AtWork(c)
      BY DEF Flow
    <3>2. p = "core" => cmds[cur[c]].status = "new" /\ cmds[cur[c]].runs = 0
                        /\ \A k \in DOMAIN batch : batch[k] # cur[c]
      <4> SUFFICES ASSUME p = "core" PROVE cmds[cur[c]].status = "new" /\ cmds[cur[c]].runs = 0
                                           /\ \A k \in DOMAIN batch : batch[k] # cur[c]
        OBVIOUS
      <4>1. cmds[cur[c]].status = "new" /\ cur[c] \in DOMAIN cmds
        BY <3>1 DEF AtWork, Unposted
      <4>2. cmds[cur[c]].runs <= 0 /\ cmds[cur[c]].runs \in Nat
        BY <4>1, Numbers DEF Flow, Lined
      <4>3. \A k \in DOMAIN batch : batch[k] # cur[c]
        BY <4>1 DEF Flow, Lined
      <4> QED BY <4>1, <4>2, <4>3
    <3>3. p \in Unposted => cmds[cur[c]].status = "new"
      BY <3>1 DEF AtWork
    <3>4. /\ cur[c] \in DOMAIN cmds /\ cmds[cur[c]].by = c
          /\ \A j \in DOMAIN cmds : cmds[j].by = c => j <= cur[c]
      BY <3>1 DEF AtWork
    <3> QED BY <1>0, <2>2, <3>2, <3>3, <3>4 DEF AtWork
  <2> QED BY <2>1, <2>2
<1>2. \A d \in Callers : at'[d] = "posting" => pc \notin {"none", "boot", "ready"}
  BY <1>0 DEF Flow
<1>3. pc \in {"leave", "gone"} =>
          closed \/ (state = "Inline" /\ \A d \in Callers : at'[d] # "posting")
  <2>1. CASE p = "posting"
    BY <2>1 DEF Flow, threaded
  <2>2. CASE p # "posting"
    BY <1>0, <2>2 DEF Flow
  <2> QED BY <2>1, <2>2
<1>4. (~abandoned)' => Ordered(cmds)'
  BY <1>0 DEF Flow, abandoned
<1> QED BY <1>0, <1>1, <1>2, <1>3, <1>4 DEF Flow

\* A caller that changes the status of its command.
LEMMA MarkFlow ==
  ASSUME Types, Flow, NEW c \in Callers, NEW p, NEW s \in Statuses, NEW i \in DOMAIN cmds,
         at[c] # "idle", at' = [at EXCEPT ![c] = p], i = cur[c],
         cmds' = [cmds EXCEPT ![i].status = s],
         UNCHANGED <<lanes, life, loopVars, cur>>,
         \/ /\ cmds[i].status = "new" /\ s = "started" /\ p = "core"
            /\ abandoned \/ pc \in {"none", "gone"}
         \/ cmds[i].status = "queued" /\ s = "cancelled" /\ p = "idle"
  PROVE  Flow'
<1>0. /\ at \in [Callers -> CallerPoints] /\ cmds \in Seq(Command) /\ batch \in Seq(Ids)
      /\ UNCHANGED <<q, batch, closed, pc, state, cur>>
      /\ at'[c] = p /\ \A d \in Callers : d # c => at'[d] = at[d]
      /\ cmds[i].runs \in Nat /\ p \notin Unposted
  BY Numbers DEF Types, lanes, life, loopVars, Unposted
<1>1. Marked(cmds, cmds', i, s)
  BY MarkedType
<1>2. Lined(cmds, q, batch)
  BY DEF Flow
<1>3. Lined(cmds', q, batch)
  BY <1>0, <1>1, <1>2, LinedMark
<1>4. Edited(cmds, cmds', i)
  BY <1>1 DEF Marked
<1>5. ASSUME NEW d \in Callers PROVE AtWork(d)'
  <2>1. CASE d # c
    <3>1. at[d] # "idle" => cur[d] # i
      BY <2>1 DEF Flow, AtWork
    <3>2. at[d] = "core" => \A k \in DOMAIN batch' : batch'[k] # cur[d]
      BY <1>0 DEF Flow, AtWork
    <3> QED BY <1>0, <1>4, <2>1, <3>1, <3>2, AtWorkEdited DEF Flow
  <2>2. CASE d = c
    <3>1. AtWork(c)
      BY DEF Flow
    <3>2. /\ DOMAIN cmds' = DOMAIN cmds
          /\ \A j \in DOMAIN cmds : cmds'[j].by = cmds[j].by
      BY <1>4 DEF Edited
    <3>3. p = "core" => /\ cmds'[i].status = "started" /\ cmds'[i].runs = 0
                        /\ \A k \in DOMAIN batch : batch[k] # i
      <4> SUFFICES ASSUME p = "core"
                   PROVE  /\ cmds'[i].status = "started" /\ cmds'[i].runs = 0
                          /\ \A k \in DOMAIN batch : batch[k] # i
        OBVIOUS
      <4>1. cmds[i].status = "new" /\ s = "started"
        OBVIOUS
      <4>2. cmds[i].runs <= 0
        BY <4>1 DEF Flow, Lined
      <4>3. \A k \in DOMAIN batch : batch[k] # i
        BY <4>1 DEF Flow, Lined
      <4> QED BY <1>0, <1>1, <4>1, <4>2, <4>3 DEF Marked
    <3>4. at'[d] = p /\ cur'[d] = i /\ batch' = batch
      BY <1>0, <2>2
    <3>5. /\ i \in DOMAIN cmds' /\ cmds'[i].by = d
          /\ \A j \in DOMAIN cmds' : cmds'[j].by = d => j <= i
      BY <2>2, <3>1, <3>2 DEF AtWork
    <3>6. p \notin Unposted
      BY DEF Unposted
    <3> QED BY <3>3, <3>4, <3>5, <3>6 DEF AtWork
  <2> QED BY <2>1, <2>2
<1>6. ~abandoned => Ordered(cmds')
  <2> SUFFICES ASSUME ~abandoned, Ordered(cmds) PROVE Ordered(cmds')
    BY DEF Flow
  <2>1. s # "queued"
    OBVIOUS
  <2>2. s = "started" => \A j \in DOMAIN cmds : cmds[j].status # "queued"
    BY NothingQueued
  <2> QED BY <1>0, <1>1, <2>1, <2>2, OrderedMark
<1>7. \A d \in Callers : at'[d] = "posting" => at[d] = "posting"
  BY <1>0 DEF Unposted
<1>8. abandoned' = abandoned
  BY <1>0 DEF abandoned
<1> QED BY <1>0, <1>3, <1>5, <1>6, <1>7, <1>8 DEF Flow

\* An accepted post: the lanes are open, so the loop is still to come round to it.
LEMMA PostFlow ==
  ASSUME Types, Threads, Flow, NEW c \in Callers, Post(c)
  PROVE  Flow'
<1> DEFINE i == cur[c]
           lane == Lane(Kind(c))
<1>0. /\ at \in [Callers -> CallerPoints] /\ cmds \in Seq(Command) /\ batch \in Seq(Ids)
      /\ q \in [Lanes -> Seq(Ids)] /\ closed \in BOOLEAN
      /\ at[c] = "posting" /\ UNCHANGED <<life, batch, budget, frames, paused, cur>>
  BY DEF Post, Types
<1>1. CASE closed
  <2>1. at' = [at EXCEPT ![c] = "refused"] /\ UNCHANGED <<cmds, lanes, life, loopVars, cur>>
    BY <1>1 DEF Post, GoTo, loopVars
  <2> QED BY <1>0, <2>1, MoveFlow DEF Unposted
<1>2. CASE ~closed
  <2>0. AtWork(c) /\ Lined(cmds, q, batch)
    BY DEF Flow
  <2>1. /\ i \in DOMAIN cmds /\ i \in Ids /\ cmds[i].status = "new" /\ cmds[i].by = c
        /\ \A j \in DOMAIN cmds : cmds[j].by = c => j <= i
    BY <1>0, <2>0, Numbers DEF AtWork, Unposted
  <2>2. /\ q' = [q EXCEPT ![lane] = Append(@, i)]
        /\ cmds' = [cmds EXCEPT ![i].status = "queued"]
        /\ UNCHANGED <<closed, state>> /\ pc' = Woken(pc)
        /\ \E p \in {"idle", "waiting"} : at' = [at EXCEPT ![c] = p]
    BY <1>2 DEF Post, GoTo, life
  <2>3. lane \in Lanes /\ lane = Lane(cmds[i].kind)
    BY DEF Lane, Lanes, Kind
  <2> HIDE DEF i, lane
  <2>4. Marked(cmds, cmds', i, "queued")
    BY <2>1, <2>2, MarkedType DEF Statuses
  <2>5. Edited(cmds, cmds', i)
    BY <2>4 DEF Marked
  <2>6. Lined(cmds', q', batch)
    BY <1>0, <2>0, <2>1, <2>2, <2>3, <2>4, LinedPost
  <2>7. ASSUME NEW d \in Callers PROVE AtWork(d)'
    <3>1. CASE d # c
      <4>1. at[d] # "idle" => cur[d] # i
        BY <2>1, <3>1 DEF Flow, AtWork
      <4>2. at[d] = "core" => \A k \in DOMAIN batch' : batch'[k] # cur[d]
        BY <1>0 DEF Flow, AtWork
      <4>3. at'[d] = at[d]
        BY <1>0, <2>2, <3>1
      <4> QED BY <1>0, <2>5, <4>1, <4>2, <4>3, AtWorkEdited DEF Flow
    <3>2. CASE d = c
      <4>1. at'[c] \in {"idle", "waiting"}
        BY <1>0, <2>2
      <4>2. /\ DOMAIN cmds' = DOMAIN cmds
            /\ \A j \in DOMAIN cmds : cmds'[j].by = cmds[j].by
        BY <2>5, <2>1 DEF Edited
      <4> QED BY <1>0, <2>0, <3>2, <4>1, <4>2 DEF AtWork, Unposted
    <3> QED BY <3>1, <3>2
  <2>8. ~abandoned => Ordered(cmds')
    <3> SUFFICES ASSUME Ordered(cmds) PROVE Ordered(cmds')
      BY DEF Flow
    <3>1. \A j \in DOMAIN cmds : cmds[j].by = cmds[i].by => j <= i
      BY <2>1
    <3>2. "queued" # "started"
      OBVIOUS
    <3> QED BY <1>0, <2>1, <2>4, <3>1, <3>2, OrderedMark
  <2>9. pc \notin {"none", "boot", "ready", "leave", "gone"}
    BY <1>0, <1>2 DEF Flow
  <2>10. \/ pc' = pc
         \/ /\ pc \notin Drains
            /\ pc' \notin Drains \cup {"none", "boot", "ready", "leave", "gone"}
    BY <2>2, WokenLoop DEF Drains
  <2>11. pc' \notin {"none", "boot", "ready", "leave", "gone"} /\ (pc \in Drains => pc' \in Drains)
    BY <2>9, <2>10
  <2>12. abandoned' = abandoned
    BY <2>2 DEF abandoned
  <2> QED BY <1>0, <2>6, <2>7, <2>8, <2>11, <2>12 DEF Flow
<1> QED BY <1>0, <1>1, <1>2

\* A new command comes after all that its caller handed over.
LEMMA BeginFlow ==
  ASSUME Types, Flow, NEW c \in Callers, Begin(c)
  PROVE  Flow'
<1>0. /\ at \in [Callers -> CallerPoints] /\ cur \in [Callers -> 0 .. MaxCmds]
      /\ cmds \in Seq(Command) /\ at[c] = "idle"
      /\ UNCHANGED <<q, batch, closed, pc, state>>
      /\ cur' = [cur EXCEPT ![c] = Len(cmds) + 1]
  BY DEF Types, Begin, lanes, life, loopVars
<1>1. PICK k \in Kinds, n \in Ns \cup {0} :
         /\ cmds' = Append(cmds, [by |-> c, kind |-> k, n |-> n, runs |-> 0, status |-> "new",
                                  end |-> 0, from |-> 0])
         /\ at' = [at EXCEPT ![c] = IF k = "advance" THEN "advance" ELSE "entry"]
  BY DEF Begin, GoTo
<1> DEFINE e == [by |-> c, kind |-> k, n |-> n, runs |-> 0, status |-> "new", end |-> 0, from |-> 0]
           new == Len(cmds) + 1
<1>2. e \in Command /\ e.status = "new" /\ e.runs = 0 /\ e.by = c
  BY DEF Command, Statuses
<1> HIDE DEF e
<1>3. cmds' = Append(cmds, e)
  BY <1>1 DEF e
<1>4. /\ DOMAIN cmds' = DOMAIN cmds \cup {new} /\ DOMAIN cmds = 1 .. Len(cmds) /\ Len(cmds) \in Nat
      /\ cmds'[new] = e
      /\ \A j \in DOMAIN cmds : cmds'[j] = cmds[j]
  BY <1>0, <1>2, <1>3, Appended
<1>5. Lined(cmds', q, batch)
  BY <1>0, <1>2, <1>3, LinedBegin DEF Flow
<1>6. ASSUME NEW d \in Callers PROVE AtWork(d)'
  <2>1. CASE d # c
    <3>1. at'[d] = at[d] /\ cur'[d] = cur[d]
      BY <1>0, <1>1, <2>1
    <3>2. \A j \in DOMAIN cmds' : cmds'[j].by = d => j \in DOMAIN cmds /\ cmds[j].by = d
      BY <1>2, <1>4, <2>1
    <3> QED BY <1>0, <1>4, <3>1, <3>2 DEF Flow, AtWork
  <2>2. CASE d = c
    <3>1. at'[c] \in {"advance", "entry"} /\ cur'[c] = new
      BY <1>0, <1>1
    <3>2. \A j \in DOMAIN cmds' : j <= new
      BY <1>4
    <3>3. /\ new \in DOMAIN cmds' /\ cmds'[new].by = c /\ cmds'[new].status = "new"
      BY <1>2, <1>4
    <3> QED BY <2>2, <3>1, <3>2, <3>3 DEF AtWork
  <2> QED BY <2>1, <2>2
<1>7. ~abandoned => Ordered(cmds')
  <2> SUFFICES ASSUME Ordered(cmds), NEW j \in DOMAIN cmds', NEW i \in 1 .. j - 1,
                      cmds'[i].by = cmds'[j].by, Lane(cmds'[i].kind) = Lane(cmds'[j].kind),
                      cmds'[j].status = "started"
               PROVE  cmds'[i].status # "queued"
    BY DEF Flow, Ordered
  <2>1. j \in DOMAIN cmds
    BY <1>2, <1>4
  <2>2. i \in DOMAIN cmds
    BY <1>4, <2>1
  <2> QED BY <1>4, <2>1, <2>2 DEF Ordered
<1>8. \A d \in Callers : at'[d] = "posting" => at[d] = "posting"
  BY <1>0, <1>1
<1>9. abandoned' = abandoned
  BY <1>0 DEF abandoned
<1> QED BY <1>0, <1>5, <1>6, <1>7, <1>8, <1>9 DEF Flow

\* A body that runs on its caller is that of a command nobody else has.
LEMMA RunOnCallerFlow ==
  ASSUME Types, Flow, NEW c \in Callers, RunOnCaller(c)
  PROVE  Flow'
<1> DEFINE i == cur[c]
<1>0. /\ at \in [Callers -> CallerPoints] /\ cmds \in Seq(Command)
      /\ at[c] = "core" /\ UNCHANGED <<q, batch, closed, pc, state, cur>>
      /\ AtWork(c) /\ Lined(cmds, q, batch)
      /\ abandoned' = abandoned
  BY DEF RunOnCaller, Types, Flow, lanes, life, loopVars, abandoned
<1>1. i \in DOMAIN cmds /\ cmds[i].by = c /\ cmds[i].runs = 0 /\ \A k \in DOMAIN batch : batch[k] # i
  BY <1>0 DEF AtWork
<1>2. PICK p \in {"idle", "check"} : at' = [at EXCEPT ![c] = p]
  BY DEF RunOnCaller, GoTo
<1>3. CASE cmds[i].status = "started"
  <2>1. Ran(cmds, cmds', i)
    BY <1>1, <1>3, BodyDoes DEF RunOnCaller
  <2> HIDE DEF i
  <2>2. Lined(cmds', q, batch)
    BY <1>0, <1>1, <1>3, <2>1, LinedRan
  <2>3. Edited(cmds, cmds', i)
    BY <2>1 DEF Ran
  <2>4. ASSUME NEW d \in Callers PROVE AtWork(d)'
    <3>1. CASE d # c
      <4>1. at[d] # "idle" => cur[d] # i
        BY <1>1, <3>1 DEF Flow, AtWork
      <4>2. at[d] = "core" => \A k \in DOMAIN batch' : batch'[k] # cur[d]
        BY <1>0 DEF Flow, AtWork
      <4>3. at'[d] = at[d]
        BY <1>0, <1>2, <3>1
      <4> QED BY <1>0, <2>3, <4>1, <4>2, <4>3, AtWorkEdited DEF Flow
    <3>2. CASE d = c
      <4>1. at'[c] \in {"idle", "check"}
        BY <1>0, <1>2
      <4>2. /\ DOMAIN cmds' = DOMAIN cmds
            /\ \A j \in DOMAIN cmds : cmds'[j].by = cmds[j].by
        BY <1>1, <2>3 DEF Edited
      <4> QED BY <1>0, <3>2, <4>1, <4>2 DEF AtWork, Unposted
    <3> QED BY <3>1, <3>2
  <2>5. ~abandoned' => Ordered(cmds')
    BY <1>0, <1>1, <2>1, OrderedRan DEF Flow
  <2>6. \A d \in Callers : at'[d] = "posting" => at[d] = "posting"
    BY <1>0, <1>2
  <2> QED BY <1>0, <2>2, <2>4, <2>5, <2>6 DEF Flow
<1>4. CASE cmds[i].status # "started"
  <2>1. UNCHANGED <<cmds, lanes, life, loopVars, cur>> /\ at' = [at EXCEPT ![c] = "idle"]
    BY <1>4 DEF RunOnCaller, GoTo
  <2> QED BY <1>0, <2>1, MoveFlow DEF Unposted
<1> QED BY <1>3, <1>4

\* A caller posts, runs or gives up its own last command and no other.
LEMMA CallerFlow ==
  ASSUME Types, Threads, Flow, NEW c \in Callers,
         Begin(c) \/ CallerStep(c) \/ CallForTimeout(c) \/ GiveUp(c) \/ AdvanceGiveUp(c)
  PROVE  Flow'
<1>0. /\ AtWork(c) /\ ~starting /\ state \in States
      /\ cur[c] \in DOMAIN cmds \/ at[c] = "idle"
  BY IntoCore DEF Types, Flow, AtWork
<1>1. ~threaded => abandoned \/ pc \in {"none", "gone"}
  BY <1>0 DEF threaded, abandoned, Threads, States
<1>2. threaded => pc \notin {"none", "boot", "ready"}
  BY DEF threaded, Threads
<1>3. CASE AdvanceEntry(c) \/ CheckAbandoned(c)
  <2>1. /\ at[c] \in Unposted /\ UNCHANGED <<cmds, lanes, life, loopVars, cur>>
        /\ \E p \in {"idle", "advanceRoute", "entry", "step", "route"} : at' = [at EXCEPT ![c] = p]
    BY <1>3 DEF AdvanceEntry, CheckAbandoned, GoTo, Unposted
  <2> QED BY <2>1, MoveFlow DEF Unposted
<1>4. CASE inlineStep(c)
  <2>1. /\ at[c] = "step" /\ UNCHANGED <<cmds, lanes, life, loopVars, cur>>
        /\ \E p \in {"idle", "core"} : at' = [at EXCEPT ![c] = p]
    BY <1>4 DEF inlineStep, GoTo
  <2> QED BY <2>1, MoveFlow DEF Unposted
<1>5. CASE Answered(c) \/ WaitAbandoned(c) \/ CallForTimeout(c) \/ GiveUp(c)
           \/ AdvanceCheck(c) \/ AdvanceRecheck(c) \/ AdvanceGiveUp(c) \/ AdvanceReturn(c)
  <2>1. /\ at[c] # "idle" /\ UNCHANGED <<cmds, lanes, life, loopVars, cur>>
        /\ \E p \in {"idle", "check", "recheck", "return", "cas"} : at' = [at EXCEPT ![c] = p]
    BY <1>5 DEF Answered, WaitAbandoned, CallForTimeout, GiveUp, AdvanceCheck, AdvanceRecheck,
         AdvanceGiveUp, AdvanceReturn, GoTo
  <2> QED BY <2>1, MoveFlow DEF Unposted
<1>6. CASE Route(c)
  <2>0. at[c] = "route" /\ UNCHANGED <<lanes, life, loopVars, cur>>
    BY <1>6 DEF Route
  <2>1. CASE threaded /\ at' = [at EXCEPT ![c] = "posting"] /\ UNCHANGED cmds
    BY <1>2, <2>0, <2>1, MoveFlow DEF Unposted
  <2>2. CASE at' = [at EXCEPT ![c] = "idle"] /\ UNCHANGED cmds
    BY <2>0, <2>2, MoveFlow DEF Unposted
  <2>3. CASE ~threaded /\ cmds' = [cmds EXCEPT ![cur[c]].status = "started"] /\ at' = [at EXCEPT ![c] = "core"]
    <3>1. cmds[cur[c]].status = "new" /\ cur[c] \in DOMAIN cmds
      BY <1>0, <2>0 DEF AtWork, Unposted
    <3> QED BY <1>1, <2>0, <2>3, <3>1, MarkFlow DEF Statuses
  <2> QED BY <1>6, <2>1, <2>2, <2>3 DEF Route, GoTo
<1>7. CASE WaitFinished(c)
  <2>0. at[c] = "refused" /\ UNCHANGED <<lanes, life, loopVars, cur>>
    BY <1>7 DEF WaitFinished
  <2>1. CASE at' = [at EXCEPT ![c] = "idle"] /\ UNCHANGED cmds
    BY <2>0, <2>1, MoveFlow DEF Unposted
  <2>2. CASE finished /\ cmds' = [cmds EXCEPT ![cur[c]].status = "started"] /\ at' = [at EXCEPT ![c] = "core"]
    <3>1. cmds[cur[c]].status = "new" /\ cur[c] \in DOMAIN cmds
      BY <1>0, <2>0 DEF AtWork, Unposted
    <3>2. pc = "gone"
      BY <2>2 DEF Threads
    <3> QED BY <2>0, <2>2, <3>1, <3>2, MarkFlow DEF Statuses
  <2> QED BY <1>7, <2>1, <2>2 DEF WaitFinished, GoTo
<1>8. CASE Cancel(c)
  <2>0. at[c] = "cas" /\ UNCHANGED <<lanes, life, loopVars, cur>>
    BY <1>8 DEF Cancel
  <2>1. CASE at' = [at EXCEPT ![c] = "waiting"] /\ UNCHANGED cmds
    BY <2>0, <2>1, MoveFlow DEF Unposted
  <2>2. CASE /\ cmds[cur[c]].status = "queued" /\ cmds' = [cmds EXCEPT ![cur[c]].status = "cancelled"]
             /\ at' = [at EXCEPT ![c] = "idle"]
    BY <1>0, <2>0, <2>2, MarkFlow DEF Statuses
  <2> QED BY <1>8, <2>1, <2>2 DEF Cancel, GoTo
<1>9. CASE Begin(c)
  BY <1>9, BeginFlow
<1>10. CASE Post(c)
  BY <1>10, PostFlow
<1>11. CASE RunOnCaller(c)
  BY <1>11, RunOnCallerFlow
<1> QED BY <1>3, <1>4, <1>5, <1>6, <1>7, <1>8, <1>9, <1>10, <1>11 DEF CallerStep

\* Every step keeps the commands on their way.
LEMMA FlowNext ==
  ASSUME Types, Threads, Flow, [Next]_vars
  PROVE  Flow'
<1>1. CASE UNCHANGED vars
  <2>1. UNCHANGED <<cmds, q, batch, closed, pc, state, at, cur>>
    BY <1>1 DEF vars, lanes, life, loopVars, callers
  <2> QED BY <2>1 DEF Flow, AtWork, abandoned
<1> QED BY <1>1, OwnerFlow, LoopFlow, CallerFlow DEF Next

------------------------------------------------------------------------------
(* Behind.                                                                 *)

\* No budget is registered at first.
LEMMA BehindInit == Init => Behind
<1> SUFFICES ASSUME Init PROVE Behind
  OBVIOUS
<1>1. ahead = {} /\ pc = "none"
  BY DEF Init
<1> QED BY <1>1 DEF Behind, Waited

\* A posted command stays posted.
LEMMA WaitedMarked ==
  ASSUME NEW cm, NEW cm2, NEW i, NEW s, NEW a, Waited(cm, a), Marked(cm, cm2, i, s), s # "new"
  PROVE  Waited(cm2, a)
  BY DEF Waited, Marked, Edited

\* A command that ran was posted.
LEMMA WaitedRan ==
  ASSUME NEW cm, NEW cm2, NEW i, NEW a, Waited(cm, a), Ran(cm, cm2, i)
  PROVE  Waited(cm2, a)
  BY DEF Waited, Ran, Edited

\* An advance() waits for what the frame lane holds as its body runs; nothing else
\* changes what is waited for.
LEMMA BodyWaits ==
  ASSUME Types, Flow, Waited(cmds, ahead), NEW i \in DOMAIN cmds, RunBody(i)
  PROVE  Waited(cmds', ahead') /\ (Lane(cmds[i].kind) = "Frame" => ahead' = ahead)
<1>1. /\ Ran(cmds, cmds', i)
      /\ cmds[i].kind # "advance" => ahead' = ahead
      /\ cmds[i].kind = "advance" => ahead' = ahead \cup ToSet(q["Frame"])
  BY BodyDoes
<1>2. \A j \in ToSet(q["Frame"]) : \E k \in DOMAIN q["Frame"] : q["Frame"][k] = j
  BY DEF ToSet
<1>3. Waited(cmds, ToSet(q["Frame"]))
  BY <1>2 DEF Flow, Lined, Waited, Lanes
<1>4. Waited(cmds, ahead')
  BY <1>1, <1>3 DEF Waited
<1> QED BY <1>1, <1>4, WaitedRan DEF Lane

\* The owner changes nothing that a budget waits for.
LEMMA OwnerBehind ==
  ASSUME Types, Threads, Behind,
         \/ Start \/ StartReady \/ StartInline \/ Stop \/ StopJoin \/ StopTimeout
         \/ setPaused \/ notifyTick
  PROVE  Behind'
<1>1. UNCHANGED <<cmds, q, batch, ahead>>
  BY DEF Start, StartReady, StartInline, Stop, StopJoin, StopTimeout, setPaused, notifyTick,
         lanes, loopVars, frames
<1>2. ~abandoned' => ~abandoned
  BY DEF Start, StartReady, StartInline, Stop, StopJoin, StopTimeout, setPaused, notifyTick,
         abandoned, Threads, life
<1>3. pc' \in {"runF", "runF2"} => pc' = pc
  BY WokenLoop DEF Start, StartReady, StartInline, Stop, StopJoin, StopTimeout, setPaused,
         notifyTick, Notify, loopVars
<1> QED BY <1>1, <1>2, <1>3 DEF Behind

\* The loop empties the frame lane between a registration and its frame.
LEMMA LoopBehind ==
  ASSUME Types, Threads, Flow, Behind, LoopStep \/ WaitTimeout
  PROVE  Behind'
<1>0. /\ cmds \in Seq(Command) /\ q \in [Lanes -> Seq(Ids)] /\ batch \in Seq(Ids)
      /\ abandoned' = abandoned /\ "Frame" \in Lanes
  BY LoopKeeps DEF Types, abandoned, Lanes
<1>1. CASE Boot \/ Break \/ Release \/ NotDue \/ EndFrame \/ AccountFrame \/ LeaveLoop
           \/ Wait \/ WaitTimeout \/ HaltWait \/ HaltTimeout \/ Finish
  <2>1. UNCHANGED <<cmds, ahead>> /\ pc' \notin {"runF", "runF2"}
    BY <1>1 DEF Boot, Break, Release, NotDue, EndFrame, AccountFrame, LeaveLoop,
         Wait, WaitTimeout, HaltWait, HaltTimeout, Finish, frames
  <2> QED BY <2>1 DEF Behind
<1>2. CASE StartFrame
  <2>1. UNCHANGED cmds /\ pc' = "frame" /\ ahead' \subseteq ahead
    BY <1>2 DEF StartFrame
  <2> QED BY <2>1 DEF Behind, Waited
<1>3. CASE CloseAndDrain \/ ServeDebugLane \/ DrainDebug
  <2>1. UNCHANGED <<cmds, ahead>> /\ pc' \notin {"runF", "runF2"}
    BY <1>3 DEF CloseAndDrain, ServeDebugLane, DrainDebug, Drain, frames
  <2> QED BY <2>1 DEF Behind
<1>4. CASE DrainFrame \/ DrainFrameAgain
  <2>1. /\ UNCHANGED <<cmds, ahead>>
        /\ batch' = q["Frame"] /\ q' = [q EXCEPT !["Frame"] = <<>>]
    BY <1>4 DEF DrainFrame, DrainFrameAgain, Drain, frames
  <2>2. q'["Frame"] = <<>> /\ DOMAIN q'["Frame"] = {}
    BY <1>0, <2>1
  <2>3. \A k \in DOMAIN batch' : Lane(cmds[batch'[k]].kind) = "Frame"
    BY <1>0, <2>1 DEF Flow, Lined
  <2> QED BY <2>1, <2>2, <2>3 DEF Behind
<1>5. CASE StartCommand
  <2> DEFINE h == batch[1]
  <2>0. /\ batch # <<>> /\ UNCHANGED <<q, pc, ahead>>
        /\ \/ cmds' = [cmds EXCEPT ![h].status = "started"] /\ UNCHANGED batch
           \/ batch' = Tail(batch) /\ UNCHANGED cmds
    BY <1>0, <1>5, TailOf DEF StartCommand, lanes, frames
  <2>1. h \in DOMAIN cmds
    BY <1>0, <2>0, TailOf DEF Flow, Lined
  <2> HIDE DEF h
  <2>2. CASE cmds' = [cmds EXCEPT ![h].status = "started"] /\ UNCHANGED batch
    <3>1. Marked(cmds, cmds', h, "started")
      BY <2>1, <2>2, MarkedType DEF Statuses
    <3>2. Waited(cmds', ahead)
      BY <3>1, WaitedMarked DEF Behind
    <3>3. \A k \in DOMAIN batch : cmds'[batch[k]].kind = cmds[batch[k]].kind
      BY <3>1 DEF Marked, Edited, Flow, Lined
    <3> QED BY <1>0, <2>0, <2>2, <3>2, <3>3 DEF Behind
  <2>3. CASE batch' = Tail(batch) /\ UNCHANGED cmds
    <3>1. \A k \in DOMAIN batch' : \E m \in DOMAIN batch : batch'[k] = batch[m]
      BY <1>0, <2>0, <2>3, TailOf
    <3> QED BY <1>0, <2>0, <2>3, <3>1 DEF Behind
  <2> QED BY <2>0, <2>2, <2>3
<1>6. CASE RunCommand
  <2> DEFINE h == batch[1]
  <2>0. /\ batch # <<>> /\ UNCHANGED <<q, pc>> /\ RunBody(h) /\ batch' = Tail(batch)
    BY <1>0, <1>6, TailOf DEF RunCommand, lanes
  <2>1. h \in DOMAIN cmds /\ 1 \in DOMAIN batch
    BY <1>0, <2>0, TailOf DEF Flow, Lined
  <2>2. Waited(cmds', ahead') /\ (Lane(cmds[h].kind) = "Frame" => ahead' = ahead)
    BY <2>0, <2>1, BodyWaits DEF Behind
  <2>3. Ran(cmds, cmds', h)
    BY <2>0, <2>1, BodyDoes
  <2>4. \A k \in DOMAIN batch' : \E m \in DOMAIN batch : batch'[k] = batch[m]
    BY <1>0, <2>0, TailOf
  <2>5. \A k \in DOMAIN batch : cmds'[batch[k]].kind = cmds[batch[k]].kind
    BY <2>3 DEF Ran, Edited, Flow, Lined
  <2>6. pc = "runF2" => ahead' = ahead
    BY <2>1, <2>2 DEF Behind
  <2> QED BY <1>0, <2>0, <2>2, <2>4, <2>5, <2>6 DEF Behind
<1> QED BY <1>1, <1>2, <1>3, <1>4, <1>5, <1>6 DEF LoopStep

\* A post goes behind the budgets registered before it.
LEMMA CallerBehind ==
  ASSUME Types, Threads, Flow, Behind, NEW c \in Callers,
         Begin(c) \/ CallerStep(c) \/ CallForTimeout(c) \/ GiveUp(c) \/ AdvanceGiveUp(c)
  PROVE  Behind'
<1>0. /\ cmds \in Seq(Command) /\ q \in [Lanes -> Seq(Ids)]
      /\ abandoned' = abandoned /\ batch' = batch
      /\ pc' \in {"runF", "runF2"} => pc' = pc
      /\ AtWork(c)
  BY CallerKeeps, WokenLoop DEF Types, abandoned, life, Flow
<1>1. \A k \in DOMAIN batch : batch[k] \in DOMAIN cmds
  BY DEF Flow, Lined
<1>2. CASE Begin(c)
  <2>1. PICK k \in Kinds, n \in Ns \cup {0} :
           cmds' = Append(cmds, [by |-> c, kind |-> k, n |-> n, runs |-> 0, status |-> "new",
                                 end |-> 0, from |-> 0])
    BY <1>2 DEF Begin
  <2>2. [by |-> c, kind |-> k, n |-> n, runs |-> 0, status |-> "new", end |-> 0, from |-> 0] \in Command
    BY DEF Command, Statuses
  <2>3. DOMAIN cmds \subseteq DOMAIN cmds' /\ \A j \in DOMAIN cmds : cmds'[j] = cmds[j]
    BY <1>0, <2>1, <2>2, Appended
  <2>4. UNCHANGED <<q, ahead>>
    BY <1>2 DEF Begin, lanes, frames
  <2> QED BY <1>0, <1>1, <2>3, <2>4 DEF Behind, Waited
<1>3. CASE Route(c) \/ WaitFinished(c) \/ Cancel(c)
  <2>1. /\ UNCHANGED <<q, ahead>> /\ at[c] # "idle"
        /\ cmds' = cmds \/ \E s \in {"started", "cancelled"} : cmds' = [cmds EXCEPT ![cur[c]].status = s]
    BY <1>3 DEF Route, WaitFinished, Cancel, lanes, frames
  <2>2. CASE cmds' = cmds
    BY <1>0, <2>1, <2>2 DEF Behind
  <2>3. ASSUME NEW s \in {"started", "cancelled"}, cmds' = [cmds EXCEPT ![cur[c]].status = s]
        PROVE  Behind'
    <3>1. Marked(cmds, cmds', cur[c], s)
      BY <1>0, <2>1, <2>3, MarkedType DEF AtWork, Statuses
    <3>2. Waited(cmds', ahead)
      BY <3>1, WaitedMarked DEF Behind
    <3>3. \A k \in DOMAIN batch : cmds'[batch[k]].kind = cmds[batch[k]].kind
      BY <1>1, <3>1 DEF Marked, Edited
    <3> QED BY <1>0, <2>1, <3>2, <3>3 DEF Behind
  <2> QED BY <2>1, <2>2, <2>3
<1>4. CASE Post(c)
  <2>0. at[c] = "posting" /\ UNCHANGED ahead
    BY <1>4 DEF Post, frames
  <2>1. CASE UNCHANGED <<cmds, q>>
    BY <1>0, <2>0, <2>1 DEF Behind
  <2>2. CASE /\ q' = [q EXCEPT ![Lane(Kind(c))] = Append(@, cur[c])]
             /\ cmds' = [cmds EXCEPT ![cur[c]].status = "queued"]
    <3>1. /\ cur[c] \in DOMAIN cmds /\ cmds[cur[c]].status = "new" /\ cur[c] \in Ids
      BY <1>0, <2>0, Numbers DEF AtWork, Unposted
    <3>2. Marked(cmds, cmds', cur[c], "queued")
      BY <2>2, <3>1, MarkedType DEF Statuses
    <3>3. Waited(cmds', ahead)
      BY <3>2, WaitedMarked DEF Behind
    <3>4. \A k \in DOMAIN batch : cmds'[batch[k]].kind = cmds[batch[k]].kind
      BY <1>1, <3>2 DEF Marked, Edited
    <3>5. cur[c] \notin ahead
      BY <3>1 DEF Behind, Waited
    <3>6. \A k \in DOMAIN q'["Frame"] :
             q'["Frame"][k] = cur[c] \/ (k \in DOMAIN q["Frame"] /\ q'["Frame"][k] = q["Frame"][k])
      <4>1. q["Frame"] \in Seq(Ids) /\ (q'["Frame"] = q["Frame"] \/ q'["Frame"] = Append(q["Frame"], cur[c]))
        BY <1>0, <2>2 DEF Lanes
      <4> DEFINE f == q["Frame"]
      <4>2. /\ DOMAIN f = 1 .. Len(f) /\ Len(f) \in Nat
            /\ DOMAIN Append(f, cur[c]) = 1 .. Len(f) + 1
            /\ Append(f, cur[c])[Len(f) + 1] = cur[c]
            /\ \A k \in 1 .. Len(f) : Append(f, cur[c])[k] = f[k]
        <5> HIDE DEF f
        <5>1. f \in Seq(Ids)
          BY <4>1 DEF f
        <5>2. /\ Append(f, cur[c]) \in Seq(Ids) /\ Len(Append(f, cur[c])) = Len(f) + 1
              /\ Append(f, cur[c])[Len(f) + 1] = cur[c]
              /\ \A k \in 1 .. Len(f) : Append(f, cur[c])[k] = f[k]
          BY <3>1, <5>1, AppendProperties
        <5> QED BY <5>1, <5>2, LenProperties
      <4> QED BY <4>1, <4>2
    <3> QED BY <1>0, <2>0, <3>3, <3>4, <3>5, <3>6 DEF Behind
  <2> QED BY <1>4, <2>1, <2>2 DEF Post, lanes
<1>5. CASE RunOnCaller(c)
  <2>0. at[c] = "core" /\ UNCHANGED <<q, pc>>
    BY <1>5 DEF RunOnCaller, lanes, loopVars
  <2>1. pc \in {"runF", "runF2"} => abandoned
    BY <2>0 DEF Threads
  <2>2. CASE UNCHANGED <<cmds, ahead>>
    BY <1>0, <2>0, <2>2 DEF Behind
  <2>3. CASE RunBody(cur[c])
    <3>1. cur[c] \in DOMAIN cmds
      BY <1>0, <2>0 DEF AtWork
    <3>2. Waited(cmds', ahead') /\ Ran(cmds, cmds', cur[c])
      BY <2>3, <3>1, BodyWaits, BodyDoes DEF Behind
    <3>3. \A k \in DOMAIN batch : cmds'[batch[k]].kind = cmds[batch[k]].kind
      BY <1>1, <3>2 DEF Ran, Edited
    <3> QED BY <1>0, <2>0, <2>1, <3>2, <3>3 DEF Behind
  <2> QED BY <1>5, <2>2, <2>3 DEF RunOnCaller, frames
<1>6. CASE UNCHANGED <<cmds, lanes, frames>>
  BY <1>0, <1>6 DEF Behind, lanes, frames
<1> QED BY <1>2, <1>3, <1>4, <1>5, <1>6 DEF CallerStep, CallForTimeout, GiveUp, AdvanceGiveUp, AdvanceEntry,
       CheckAbandoned, inlineStep, Answered, WaitAbandoned, AdvanceCheck, AdvanceRecheck, AdvanceReturn

\* Every step keeps what budgets wait for where the loop will find it.
LEMMA BehindNext ==
  ASSUME Types, Threads, Flow, Behind, [Next]_vars
  PROVE  Behind'
<1>1. CASE UNCHANGED vars
  <2>1. UNCHANGED <<cmds, q, batch, pc, ahead, state>>
    BY <1>1 DEF vars, lanes, life, loopVars, frames
  <2> QED BY <2>1 DEF Behind, abandoned
<1> QED BY <1>1, OwnerBehind, LoopBehind, CallerBehind DEF Next

------------------------------------------------------------------------------
(* Budget.                                                                 *)

\* No budget is registered at first, and no frame is owed.
LEMMA BudgetInit == Init => Budget
<1> SUFFICES ASSUME Init PROVE Budget
  OBVIOUS
<1>1. /\ DOMAIN cmds = {} /\ pc = "none" /\ ~budget /\ left = 0 /\ owed = 0
      /\ \A c \in Callers : at[c] = "idle"
  BY DEF Init
<1> QED BY <1>1 DEF Budget, Promise, OnBudget

\* A promise is kept by whatever does not take frames away or change what was asked.
LEMMA PromiseKept ==
  ASSUME Types, NEW c \in Callers, Promise(c), at'[c] = at[c], cur'[c] = cur[c],
         at[c] # "idle" => /\ cur[c] \in DOMAIN cmds
                           /\ Asked(cur[c])' => Asked(cur[c])
                           /\ cmds'[cur[c]].end = cmds[cur[c]].end,
         left' \in Nat, done' \in Nat,
         Due <= Due', done <= done',
         finished => finished', released \subseteq released'
  PROVE  Promise(c)'
<1>1. done \in Nat /\ Due \in Int /\ Due' \in Int
  BY DEF Types, Due
<1>2. at[c] # "idle" => cmds[cur[c]].end \in Nat
  BY Numbers
<1>3. CASE at[c] = "idle"
  BY <1>3 DEF Promise
<1>4. CASE at[c] # "idle"
  <2> DEFINE e == cmds[cur[c]].end
  <2>1. e \in Nat /\ cmds'[cur'[c]].end = e
    BY <1>2, <1>4
  <2>2. Asked(cur[c])' => cur[c] \in released \/ Due >= e
    BY <1>4 DEF Promise
  <2>3. at[c] = "return" => cur[c] \in released \/ finished \/ done >= e
    BY DEF Promise
  <2> HIDE DEF e
  <2>4. Due >= e => Due' >= e
    BY <1>1, <2>1
  <2>5. done >= e => done' >= e
    BY <1>1, <2>1
  <2>6. cur[c] \in released => cur'[c] \in released'
    OBVIOUS
  <2> QED BY <2>1, <2>2, <2>3, <2>4, <2>5, <2>6 DEF Promise
<1> QED BY <1>3, <1>4

\* Marking a command changes nothing it asked for.
LEMMA AskedMarked ==
  ASSUME NEW i, NEW s, Marked(cmds, cmds', i, s)
  PROVE  /\ DOMAIN cmds' = DOMAIN cmds
         /\ \A j \in DOMAIN cmds : /\ Asked(j)' <=> Asked(j)
                                   /\ cmds'[j].end = cmds[j].end /\ cmds'[j].from = cmds[j].from
                                   /\ cmds'[j].n = cmds[j].n
<1>1. DOMAIN cmds' = DOMAIN cmds
  BY DEF Marked, Edited
<1>2. \A j \in DOMAIN cmds : /\ cmds'[j].kind = cmds[j].kind /\ cmds'[j].runs = cmds[j].runs
                             /\ cmds'[j].end = cmds[j].end /\ cmds'[j].from = cmds[j].from
                             /\ cmds'[j].n = cmds[j].n
  BY DEF Marked, Edited
<1> QED BY <1>1, <1>2 DEF Asked

\* A body: the frames it asks for are in the budget, after the one under way.
LEMMA BodyBudget ==
  ASSUME Types, Budget, NEW i \in DOMAIN cmds, RunBody(i)
  PROVE  /\ \A j \in DOMAIN cmds' : Asked(j)' => cmds'[j].end - cmds'[j].from >= cmds'[j].n
         /\ DOMAIN cmds' = DOMAIN cmds
         /\ \A j \in DOMAIN cmds : Asked(j) => Asked(j)'
         /\ \A j \in DOMAIN cmds \ {i} : (Asked(j)' <=> Asked(j)) /\ cmds'[j].end = cmds[j].end
         /\ Asked(i)' => cmds'[i].end = done + left'
         /\ cmds[i].kind = "advance" => Asked(i)'
         /\ left' \in Nat /\ left' >= left /\ owed' \in Int /\ owed' - left' = owed - left
         /\ UNCHANGED <<done, released>>
<1>0. left \in Nat /\ done \in Nat /\ owed \in Int /\ cmds[i].runs \in Nat
  BY Numbers DEF Types
<1>1. /\ Ran(cmds, cmds', i)
      /\ cmds[i].n \in Nat /\ left' = left + cmds[i].n /\ owed' = owed + cmds[i].n
      /\ cmds[i].kind = "advance" =>
            cmds'[i].end = done + left + cmds[i].n /\ cmds'[i].from = done + InFlight
      /\ UNCHANGED <<done, released>>
  BY BodyDoes
<1>2. /\ DOMAIN cmds' = DOMAIN cmds
      /\ \A j \in DOMAIN cmds : j # i => cmds'[j] = cmds[j]
      /\ cmds'[i].kind = cmds[i].kind /\ cmds'[i].n = cmds[i].n
      /\ cmds'[i].runs = cmds[i].runs + 1
  BY <1>1 DEF Ran, Edited
<1>3. InFlight \in Nat /\ InFlight <= left
  BY <1>0 DEF InFlight, Budget
<1>4. Asked(i)' <=> cmds[i].kind = "advance"
  BY <1>0, <1>2 DEF Asked
<1>5. Asked(i)' => cmds'[i].end = done + left' /\ cmds'[i].end - cmds'[i].from >= cmds'[i].n
  <2> SUFFICES ASSUME cmds[i].kind = "advance"
               PROVE  cmds'[i].end = done + left' /\ cmds'[i].end - cmds'[i].from >= cmds'[i].n
    BY <1>4
  <2>1. cmds'[i].end = done + left + cmds[i].n /\ cmds'[i].from = done + InFlight
        /\ cmds'[i].n = cmds[i].n
    BY <1>1, <1>2
  <2> QED BY <1>0, <1>1, <1>3, <2>1
<1>6. \A j \in DOMAIN cmds \ {i} : (Asked(j)' <=> Asked(j)) /\ cmds'[j].end = cmds[j].end
                                   /\ cmds'[j].from = cmds[j].from /\ cmds'[j].n = cmds[j].n
  BY <1>2 DEF Asked
<1>7. \A j \in DOMAIN cmds' : Asked(j)' => cmds'[j].end - cmds'[j].from >= cmds'[j].n
  BY <1>2, <1>5, <1>6 DEF Budget
<1>8. \A j \in DOMAIN cmds : Asked(j) => Asked(j)'
  BY <1>4, <1>6 DEF Asked
<1>9. left' \in Nat /\ left' >= left /\ owed' \in Int /\ owed' - left' = owed - left
  BY <1>0, <1>1
<1> QED BY <1>1, <1>2, <1>4, <1>5, <1>6, <1>7, <1>8, <1>9

\* The owner leaves the budget alone, but for a start, which finds nobody waiting.
LEMMA OwnerBudget ==
  ASSUME Types, Threads, Budget,
         \/ Start \/ StartReady \/ StartInline \/ Stop \/ StopJoin \/ StopTimeout
         \/ setPaused \/ notifyTick
  PROVE  Budget'
<1>0. /\ UNCHANGED <<cmds, at, cur, budget, done, released>>
      /\ left \in Nat /\ done \in Nat /\ owed \in Int
  BY DEF Start, StartReady, StartInline, Stop, StopJoin, StopTimeout, setPaused, notifyTick,
         loopVars, frames, callers, Types
<1>1. ~abandoned' => ~abandoned
  BY DEF Start, StartReady, StartInline, Stop, StopJoin, StopTimeout, setPaused, notifyTick,
         abandoned, Threads, life
<1>2. \A i \in DOMAIN cmds : Asked(i)' <=> Asked(i)
  BY <1>0 DEF Asked
<1>3. CASE Start
  <2>1. /\ pc \in {"none", "gone"} /\ \A c \in Callers : at[c] = "idle"
        /\ pc' \in {"none", "gone", "boot"} /\ left' = 0 /\ owed' = 0
    BY <1>3 DEF Start, Threads
  <2>2. ~budget
    BY <2>1 DEF Budget, Budgeted
  <2> QED BY <1>0, <1>2, <2>1, <2>2 DEF Budget, Promise, OnBudget
<1>4. CASE ~Start
  <2>1. /\ UNCHANGED <<left, owed, finished>>
        /\ \/ pc' = pc \/ (pc = "ready" /\ pc' = "top")
           \/ (pc = "asleep" /\ pc' = "wait") \/ (pc = "hasleep" /\ pc' = "hwait")
    BY <1>4, WokenLoop DEF StartReady, StartInline, Stop, StopJoin, StopTimeout, setPaused,
         notifyTick, Notify, loopVars, frames, life
  <2>2. /\ Due' = Due /\ OnBudget' = OnBudget
        /\ pc' \in {"done", "drop"} => pc' = pc
        /\ pc \in Budgeted => pc' \in Budgeted
    BY <1>0, <2>1 DEF Due, OnBudget, Budgeted
  <2>3. ~abandoned' => \A c \in Callers : Promise(c)'
    BY <1>0, <1>1, <2>1, <2>2 DEF Budget, Promise, Asked
  <2>4. \A c \in Callers : at'[c] \in {"check", "recheck", "return"} => Asked(cur[c])'
    BY <1>0 DEF Budget, Asked
  <2> QED BY <1>0, <1>2, <2>1, <2>2, <2>3, <2>4 DEF Budget, Asked
<1> QED BY <1>3, <1>4

\* The loop takes from the budget what it begins, and counts a frame before it drops it.
LEMMA LoopBudget ==
  ASSUME Types, Threads, Flow, Budget, LoopStep \/ WaitTimeout
  PROVE  Budget'
<1>0. /\ UNCHANGED <<at, cur>> /\ (~abandoned' => ~abandoned)
      /\ (finished => finished')
      /\ left \in Nat /\ done \in Nat /\ owed \in Int /\ budget \in BOOLEAN
      /\ Due \in Int
      /\ cmds \in Seq(Command) /\ batch \in Seq(Ids)
      /\ \A c \in Callers : at[c] # "idle" => cur[c] \in DOMAIN cmds
  <2>1. UNCHANGED <<state, at, cur>> /\ (finished' = finished \/ finished' = TRUE)
    BY LoopKeeps DEF callers
  <2>2. \A c \in Callers : at[c] # "idle" => cur[c] \in DOMAIN cmds
    BY DEF Flow, AtWork
  <2>3. /\ left \in Nat /\ done \in Nat /\ owed \in Int /\ budget \in BOOLEAN
        /\ cmds \in Seq(Command) /\ batch \in Seq(Ids)
    BY DEF Types
  <2>4. Due \in Int
    BY <2>3 DEF Due
  <2> QED BY <2>1, <2>2, <2>3, <2>4 DEF abandoned
\* The commands as they are: what remains is where the loop is and what is in the budget.
<1>1. ASSUME cmds' = cmds, left' \in Nat, done' \in Nat,
             budget' => pc' \in Budgeted /\ left' > 0,
             pc' \in {"done", "drop"} => budget',
             owed' >= left' - OnBudget',
             Due <= Due', done <= done', released \subseteq released'
      PROVE  Budget'
  <2>1. \A i \in DOMAIN cmds : Asked(i)' <=> Asked(i)
    BY <1>1 DEF Asked
  <2>2. \A c \in Callers : at[c] # "idle" => (Asked(cur[c])' <=> Asked(cur[c]))
    BY <1>0, <1>1 DEF Asked
  <2>3. ~abandoned' => \A c \in Callers : Promise(c)'
    <3> SUFFICES ASSUME ~abandoned, NEW c \in Callers PROVE Promise(c)'
      BY <1>0
    <3>1. Promise(c)
      BY DEF Budget
    <3>2. at[c] # "idle" => /\ cur[c] \in DOMAIN cmds
                            /\ Asked(cur[c])' => Asked(cur[c])
                            /\ cmds'[cur[c]].end = cmds[cur[c]].end
      BY <1>0, <1>1, <2>2
    <3> QED BY <1>0, <1>1, <3>1, <3>2, PromiseKept
  <2>4. \A c \in Callers : at'[c] \in {"check", "recheck", "return"} => Asked(cur[c])'
    BY <1>0, <2>2 DEF Budget
  <2>5. \A i \in DOMAIN cmds' : Asked(i)' => cmds'[i].end - cmds'[i].from >= cmds'[i].n
    BY <1>1, <2>1 DEF Budget
  <2> QED BY <1>1, <2>3, <2>4, <2>5 DEF Budget
<1>2. CASE Boot \/ DrainFrame \/ DrainDebug \/ DrainFrameAgain \/ Break \/ NotDue \/ Wait \/ WaitTimeout
           \/ ServeDebugLane \/ HaltWait \/ HaltTimeout \/ EndFrame \/ LeaveLoop \/ CloseAndDrain \/ Finish
  <2>1. UNCHANGED <<cmds, left, done, owed, released, budget>>
    BY <1>2 DEF Boot, DrainFrame, DrainDebug, DrainFrameAgain, Drain, Break, NotDue, Wait, WaitTimeout,
         ServeDebugLane, HaltWait, HaltTimeout, EndFrame, LeaveLoop, CloseAndDrain, Finish, frames
  <2>2. pc \notin {"drop", "done"} /\ pc' # "drop" /\ (pc' = "done" => budget)
    BY <1>2 DEF Boot, DrainFrame, DrainDebug, DrainFrameAgain, Drain, Break, NotDue, Wait, WaitTimeout,
         ServeDebugLane, HaltWait, HaltTimeout, EndFrame, LeaveLoop, CloseAndDrain, Finish, Drained
  <2>3. pc \in Budgeted /\ budget => pc' \in Budgeted
    BY <1>2 DEF Boot, DrainFrame, DrainDebug, DrainFrameAgain, Drain, Break, NotDue, Wait, WaitTimeout,
         ServeDebugLane, HaltWait, HaltTimeout, EndFrame, LeaveLoop, CloseAndDrain, Finish, Drained, Budgeted
  <2>4. Due' = Due /\ OnBudget' = OnBudget
    BY <2>1, <2>2 DEF Due, OnBudget
  <2> QED BY <1>0, <1>1, <2>1, <2>2, <2>3, <2>4 DEF Budget
<1>3. CASE StartFrame
  <2>1. /\ UNCHANGED <<cmds, left, done, released>> /\ pc \in {"runD", "runF2"} /\ pc' = "frame"
        /\ budget' = (left > 0) /\ owed' = owed - (IF left > 0 THEN 1 ELSE 0)
    BY <1>3 DEF StartFrame, Drained
  <2>2. ~budget
    BY <2>1 DEF Budget, Budgeted
  <2>3. owed >= left
    BY <1>0, <2>2 DEF Budget, OnBudget
  <2>4. Due' = Due
    BY <2>1 DEF Due
  <2>5. CASE left > 0
    <3>1. owed' = owed - 1 /\ budget' = TRUE
      BY <2>1, <2>5
    <3>2. OnBudget' = 1
      BY <3>1 DEF OnBudget
    <3>3. owed' >= left' - OnBudget'
      BY <1>0, <2>1, <2>3, <3>1, <3>2
    <3> QED BY <1>0, <1>1, <2>1, <2>4, <2>5, <3>3 DEF Budgeted
  <2>6. CASE ~(left > 0)
    <3>0. owed' = owed
      BY <1>0, <2>1, <2>6
    <3>1. ~budget'
      BY <2>1, <2>6
    <3>2. OnBudget' = 0
      BY <3>1 DEF OnBudget
    <3>3. owed' >= left' - OnBudget'
      BY <1>0, <2>1, <2>3, <3>0, <3>2
    <3> QED BY <1>0, <1>1, <2>1, <2>4, <3>1, <3>3
  <2> QED BY <2>5, <2>6
<1>4. CASE AccountFrame
  <2>1. /\ UNCHANGED <<cmds, owed, released>>
        /\ \/ pc = "done" /\ done' = done + 1 /\ pc' = "drop" /\ UNCHANGED <<left, budget>>
           \/ pc = "drop" /\ left' = left - 1 /\ budget' = FALSE /\ pc' = "top" /\ UNCHANGED done
    BY <1>4 DEF AccountFrame
  <2>2. budget /\ left > 0
    BY <2>1 DEF Budget
  <2>3. owed >= left - 1
    BY <2>2 DEF Budget, OnBudget
  <2>4. CASE pc = "done" /\ done' = done + 1 /\ pc' = "drop" /\ UNCHANGED <<left, budget>>
    <3>1. Due' = Due /\ done <= done'
      BY <1>0, <2>4 DEF Due
    <3>2. OnBudget' = 1
      BY <2>2, <2>4 DEF OnBudget
    <3>3. owed' >= left' - OnBudget'
      BY <2>1, <2>3, <2>4, <3>2
    <3> QED BY <1>0, <1>1, <2>1, <2>2, <2>4, <3>1, <3>3 DEF Budgeted
  <2>5. CASE pc = "drop" /\ left' = left - 1 /\ budget' = FALSE /\ pc' = "top" /\ UNCHANGED done
    <3>1. Due' = Due /\ done <= done' /\ left' \in Nat
      BY <1>0, <2>2, <2>5 DEF Due
    <3>2. OnBudget' = 0
      BY <2>5 DEF OnBudget
    <3>3. owed' >= left' - OnBudget'
      BY <1>0, <2>1, <2>3, <2>5, <3>2
    <3> QED BY <1>0, <1>1, <2>1, <2>5, <3>1, <3>3
  <2> QED BY <2>1, <2>4, <2>5
<1>5. CASE Release
  <2>1. /\ UNCHANGED <<cmds, done, owed, budget>> /\ pc \in {"runD", "runF2"} /\ pc' = "wait" /\ left' = 0
        /\ released' = IF left > 0 THEN {i \in DOMAIN cmds : cmds[i].kind = "advance" /\ cmds[i].runs > 0}
                                   ELSE released
    BY <1>5 DEF Release, Drained
  <2>2. ~budget
    BY <2>1 DEF Budget, Budgeted
  <2>3. owed' >= left' - OnBudget'
    BY <1>0, <2>1, <2>2 DEF Budget, OnBudget
  <2>4. CASE left = 0
    <3>1. Due' = Due
      BY <2>1, <2>4 DEF Due
    <3> QED BY <1>0, <1>1, <2>1, <2>2, <2>3, <2>4, <3>1
  <2>5. CASE left > 0
    <3>1. \A i \in DOMAIN cmds : (Asked(i)' <=> Asked(i)) /\ (Asked(i) => i \in released')
      BY <2>1, <2>5 DEF Asked
    <3>2. \A c \in Callers : at[c] # "idle" => (Asked(cur[c])' <=> Asked(cur[c]))
      BY <1>0, <2>1 DEF Asked
    <3>3. \A c \in Callers : at[c] = "return" => Asked(cur[c])
      BY DEF Budget
    <3>4. \A c \in Callers : Promise(c)'
      BY <1>0, <3>1, <3>2, <3>3 DEF Promise
    <3>5. \A c \in Callers : at'[c] \in {"check", "recheck", "return"} => Asked(cur[c])'
      BY <1>0, <3>2 DEF Budget
    <3>6. \A i \in DOMAIN cmds' : Asked(i)' => cmds'[i].end - cmds'[i].from >= cmds'[i].n
      BY <2>1, <3>1 DEF Budget
    <3> QED BY <2>1, <2>2, <2>3, <3>4, <3>5, <3>6 DEF Budget
  <2> QED BY <1>0, <2>4, <2>5
<1>6. CASE StartCommand
  <2> DEFINE h == batch[1]
  <2>0. /\ batch # <<>> /\ UNCHANGED <<pc, budget, left, done, owed, released, state>>
        /\ cmds' = [cmds EXCEPT ![h].status = "started"] \/ UNCHANGED cmds
    BY <1>0, <1>6, TailOf DEF StartCommand, frames, life
  <2>1. h \in DOMAIN cmds
    BY <1>0, <2>0, TailOf DEF Flow, Lined
  <2> HIDE DEF h
  <2>2. Due' = Due /\ OnBudget' = OnBudget
    BY <2>0 DEF Due, OnBudget
  <2>3. CASE UNCHANGED cmds
    BY <1>0, <1>1, <2>0, <2>2, <2>3 DEF Budget
  <2>4. CASE cmds' = [cmds EXCEPT ![h].status = "started"]
    <3>1. Marked(cmds, cmds', h, "started")
      BY <2>1, <2>4, MarkedType DEF Statuses
    <3>2. /\ DOMAIN cmds' = DOMAIN cmds
          /\ \A j \in DOMAIN cmds : /\ Asked(j)' <=> Asked(j)
                                    /\ cmds'[j].end = cmds[j].end /\ cmds'[j].from = cmds[j].from
                                    /\ cmds'[j].n = cmds[j].n
      BY <3>1, AskedMarked
    <3>3. \A c \in Callers : at[c] # "idle" => (Asked(cur[c])' <=> Asked(cur[c]))
      BY <1>0, <3>2 DEF Asked
    <3>4. ~abandoned' => \A c \in Callers : Promise(c)'
      BY <1>0, <2>0, <2>2, <3>2, <3>3 DEF Budget, Promise
    <3>5. \A c \in Callers : at'[c] \in {"check", "recheck", "return"} => Asked(cur[c])'
      BY <1>0, <3>3 DEF Budget
    <3>6. \A i \in DOMAIN cmds' : Asked(i)' => cmds'[i].end - cmds'[i].from >= cmds'[i].n
      BY <3>2 DEF Budget
    <3> QED BY <2>0, <2>2, <3>4, <3>5, <3>6 DEF Budget
  <2> QED BY <2>0, <2>3, <2>4
<1>7. CASE RunCommand
  <2>0. /\ batch # <<>> /\ UNCHANGED <<pc, budget, state, finished>> /\ pc \in Drains
        /\ RunBody(batch[1])
    BY <1>0, <1>7, TailOf DEF RunCommand, life
  <2>1. PICK h \in DOMAIN cmds : h = batch[1]
    BY <1>0, <2>0, TailOf DEF Flow, Lined
  <2>2. cmds[h].runs = 0 /\ ~Asked(h)
    BY <1>0, <2>0, <2>1, TailOf DEF Flow, Lined, Asked
  <2>3. RunBody(h)
    BY <2>0, <2>1
  <2>4. /\ \A j \in DOMAIN cmds' : Asked(j)' => cmds'[j].end - cmds'[j].from >= cmds'[j].n
        /\ DOMAIN cmds' = DOMAIN cmds
        /\ \A j \in DOMAIN cmds : Asked(j) => Asked(j)'
        /\ \A j \in DOMAIN cmds \ {h} : (Asked(j)' <=> Asked(j)) /\ cmds'[j].end = cmds[j].end
        /\ Asked(h)' => cmds'[h].end = done + left'
        /\ left' \in Nat /\ left' >= left /\ owed' \in Int /\ owed' - left' = owed - left
        /\ UNCHANGED <<done, released>>
    BY <2>3, BodyBudget
  <2>5. Due <= Due' /\ Due' = done + left' /\ Due' \in Int
    BY <1>0, <2>0, <2>4 DEF Due, Drains
  <2>6. OnBudget' = OnBudget /\ OnBudget \in Nat
    BY <2>0 DEF OnBudget
  <2>7. owed' >= left' - OnBudget'
    BY <1>0, <2>4, <2>6 DEF Budget
  <2>8. ~abandoned' => \A c \in Callers : Promise(c)'
    <3> SUFFICES ASSUME ~abandoned, NEW c \in Callers PROVE Promise(c)'
      BY <1>0
    <3>1. Promise(c)
      BY DEF Budget
    <3>2. CASE at[c] = "idle" \/ cur[c] # h
      <4>1. at[c] # "idle" => /\ cur[c] \in DOMAIN cmds
                              /\ Asked(cur[c])' => Asked(cur[c])
                              /\ cmds'[cur[c]].end = cmds[cur[c]].end
        BY <1>0, <2>4, <3>2 DEF Asked
      <4>2. /\ at'[c] = at[c] /\ cur'[c] = cur[c] /\ released \subseteq released'
            /\ finished => finished'
        BY <1>0, <2>4
      <4>3. left' \in Nat /\ done' \in Nat /\ Due <= Due' /\ done <= done'
        <5>1. done' = done /\ left' \in Nat
          BY <2>4
        <5>2. Due <= Due'
          BY <2>5
        <5>3. done \in Nat
          BY <1>0
        <5> QED BY <5>1, <5>2, <5>3
      <4> QED BY <3>1, <4>1, <4>2, <4>3, PromiseKept
    <3>3. CASE at[c] # "idle" /\ cur[c] = h
      <4>1. at[c] # "return"
        BY <2>2, <3>3 DEF Budget, Asked
      <4>2. Asked(cur[c])' => cmds'[cur[c]].end = done + left'
        BY <1>0, <2>4, <3>3 DEF Asked
      <4>3. Due' >= done + left'
        BY <2>5
      <4> QED BY <1>0, <2>5, <4>1, <4>2, <4>3 DEF Promise
    <3> QED BY <3>2, <3>3
  <2>9. \A c \in Callers : at'[c] \in {"check", "recheck", "return"} => Asked(cur[c])'
    BY <1>0, <2>4 DEF Budget, Asked
  <2>10. budget' => pc' \in Budgeted /\ left' > 0
    BY <1>0, <2>0, <2>4 DEF Budget
  <2> QED BY <2>0, <2>4, <2>7, <2>8, <2>9, <2>10 DEF Budget
<1> QED BY <1>2, <1>3, <1>4, <1>5, <1>6, <1>7 DEF LoopStep

\* A caller that moves without running anything: nothing it or anybody asked for changes.
LEMMA MoveBudget ==
  ASSUME Types, Flow, Budget, NEW c \in Callers, NEW p,
         at[c] # "idle", at' = [at EXCEPT ![c] = p],
         UNCHANGED <<frames, cur, life, budget>>, pc' = pc \/ pc' = Woken(pc),
         DOMAIN cmds \subseteq DOMAIN cmds',
         DOMAIN cmds' = DOMAIN cmds,
         \A j \in DOMAIN cmds : /\ Asked(j)' <=> Asked(j)
                                /\ cmds'[j].end = cmds[j].end /\ cmds'[j].from = cmds[j].from
                                /\ cmds'[j].n = cmds[j].n,
         p \in {"check", "recheck", "return"} => Asked(cur[c]),
         p = "return" /\ ~abandoned => cur[c] \in released \/ finished \/ done >= cmds[cur[c]].end
  PROVE  Budget'
<1>0. /\ at'[c] = p /\ \A d \in Callers : d # c => at'[d] = at[d]
      /\ UNCHANGED <<left, done, owed, released, cur, budget, finished, state>>
      /\ \A d \in Callers : at[d] # "idle" => cur[d] \in DOMAIN cmds
      /\ at \in [Callers -> CallerPoints]
  BY DEF Types, frames, life, Flow, AtWork
<1>1. \/ pc' = pc
      \/ (pc = "asleep" /\ pc' = "wait") \/ (pc = "hasleep" /\ pc' = "hwait")
  BY WokenLoop
<1>2. /\ Due' = Due /\ OnBudget' = OnBudget
      /\ pc' \in {"done", "drop"} => pc' = pc
      /\ pc \in Budgeted => pc' \in Budgeted
  BY <1>0, <1>1 DEF Due, OnBudget, Budgeted
<1>3. \A d \in Callers : at[d] # "idle" => (Asked(cur[d])' <=> Asked(cur[d]))
  BY <1>0 DEF Asked
<1>4. \A d \in Callers : at'[d] \in {"check", "recheck", "return"} => Asked(cur[d])'
  BY <1>0, <1>3 DEF Budget
<1>5. ~abandoned' => \A d \in Callers : Promise(d)'
  <2> SUFFICES ASSUME ~abandoned, NEW d \in Callers PROVE Promise(d)'
    BY <1>0 DEF abandoned
  <2>1. Promise(d) /\ (d = c => at[d] # "idle" /\ at'[d] = p)
    BY <1>0 DEF Budget
  <2>2. at'[d] # "idle" => at[d] # "idle"
    BY <1>0
  <2> QED BY <1>0, <1>2, <1>3, <2>1, <2>2 DEF Promise
<1>6. \A i \in DOMAIN cmds' : Asked(i)' => cmds'[i].end - cmds'[i].from >= cmds'[i].n
  BY DEF Budget
<1>7. owed' >= left' - OnBudget'
  BY <1>0, <1>2 DEF Budget
<1> QED BY <1>0, <1>2, <1>4, <1>5, <1>6, <1>7 DEF Budget

\* A refused advance() adds to the budget on its caller.
LEMMA RunOnCallerBudget ==
  ASSUME Types, Threads, Flow, Budget, NEW c \in Callers, RunOnCaller(c), RunBody(cur[c])
  PROVE  Budget'
<1>0. /\ at \in [Callers -> CallerPoints] /\ at[c] = "core"
      /\ UNCHANGED <<cur, budget, pc, state, finished>>
      /\ left \in Nat /\ done \in Nat /\ owed \in Int /\ budget \in BOOLEAN
      /\ \A d \in Callers : at[d] # "idle" => cur[d] \in DOMAIN cmds /\ cmds[cur[d]].by = d
  BY DEF Types, RunOnCaller, life, loopVars, Flow, AtWork
<1>1. PICK i \in DOMAIN cmds : i = cur[c]
  BY <1>0
<1>2. RunBody(i)
  BY <1>1
<1>3. /\ \A j \in DOMAIN cmds' : Asked(j)' => cmds'[j].end - cmds'[j].from >= cmds'[j].n
      /\ DOMAIN cmds' = DOMAIN cmds
      /\ \A j \in DOMAIN cmds : Asked(j) => Asked(j)'
      /\ \A j \in DOMAIN cmds \ {i} : (Asked(j)' <=> Asked(j)) /\ cmds'[j].end = cmds[j].end
      /\ Asked(i)' => cmds'[i].end = done + left'
      /\ cmds[i].kind = "advance" => Asked(i)'
      /\ left' \in Nat /\ left' >= left /\ owed' \in Int /\ owed' - left' = owed - left
      /\ UNCHANGED <<done, released>>
  BY <1>2, BodyBudget
<1>4. at' = [at EXCEPT ![c] = IF cmds[i].kind = "advance" /\ ~abandoned THEN "check" ELSE "idle"]
  <2>1. at' = [at EXCEPT ![c] = IF Kind(c) = "advance" /\ ~abandoned THEN "check" ELSE "idle"]
        \/ cmds' = cmds
    BY DEF RunOnCaller, GoTo
  <2>2. cmds[i].runs = 0 /\ Ran(cmds, cmds', i)
    BY <1>0, <1>1, <1>2, BodyDoes DEF Flow, AtWork
  <2>3. cmds'[i].runs = 1
    BY <2>2 DEF Ran
  <2>4. cmds' # cmds
    BY <2>2, <2>3
  <2> QED BY <1>1, <2>1, <2>4 DEF Kind
<1>5. /\ \A d \in Callers : d # c => at'[d] = at[d]
      /\ at'[c] = "idle" \/ (at'[c] = "check" /\ cmds[i].kind = "advance")
  BY <1>0, <1>4
<1>6. \A d \in Callers : d # c /\ at[d] # "idle" => cur[d] # i
  BY <1>0, <1>1
<1>7. \A d \in Callers : at'[d] \in {"check", "recheck", "return"} => Asked(cur[d])'
  BY <1>0, <1>1, <1>3, <1>5, <1>6 DEF Budget, Asked
<1>8. ~abandoned' => \A d \in Callers : Promise(d)'
  <2> SUFFICES ASSUME ~abandoned, NEW d \in Callers PROVE Promise(d)'
    BY <1>0 DEF abandoned
  <2>1. pc \in {"none", "gone"}
    BY <1>0 DEF Threads
  <2>2. done' = done /\ left' \in Nat /\ left' >= left
    BY <1>3
  <2>3. Due = done + left /\ Due' = done + left' /\ Due \in Int /\ Due' \in Int
    BY <1>0, <2>1, <2>2 DEF Due
  <2>4. CASE d # c
    <3>1. Promise(d)
      BY DEF Budget
    <3>2. at[d] # "idle" => /\ cur[d] \in DOMAIN cmds
                            /\ Asked(cur[d])' => Asked(cur[d])
                            /\ cmds'[cur[d]].end = cmds[cur[d]].end
      BY <1>0, <1>3, <1>6, <2>4 DEF Asked
    <3>3. at'[d] = at[d] /\ cur'[d] = cur[d] /\ released \subseteq released' /\ (finished => finished')
      BY <1>0, <1>3, <1>5, <2>4
    <3>4. left' \in Nat /\ done' \in Nat /\ Due <= Due' /\ done <= done'
      BY <1>0, <2>2, <2>3
    <3> QED BY <3>1, <3>2, <3>3, <3>4, PromiseKept
  <2>5. CASE d = c
    <3>1. at'[c] # "return"
      BY <1>5
    <3>2. Asked(cur[c])' => cmds'[cur[c]].end = done + left'
      BY <1>0, <1>1, <1>3 DEF Asked
    <3>3. Due' >= done + left'
      BY <2>3
    <3> QED BY <1>0, <2>5, <3>1, <3>2, <3>3 DEF Promise
  <2> QED BY <2>4, <2>5
<1>9. OnBudget' = OnBudget /\ OnBudget \in Nat
  BY <1>0 DEF OnBudget
<1>10. owed' >= left' - OnBudget'
  <2>1. owed >= left - OnBudget
    BY DEF Budget
  <2>2. left' \in Nat /\ owed' \in Int /\ owed' - left' = owed - left
    BY <1>3
  <2>3. left \in Nat /\ owed \in Int
    BY <1>0
  <2> DEFINE b == OnBudget
             b2 == OnBudget'
  <2>4. b \in Nat /\ b2 = b /\ owed >= left - b
    BY <1>9, <2>1
  <2> HIDE DEF b, b2
  <2> DEFINE l == left
             l2 == left'
             o == owed
             o2 == owed'
  <2>6. l \in Int /\ l2 \in Int /\ o \in Int /\ o2 \in Int /\ o2 - l2 = o - l /\ o >= l - b /\ b2 = b /\ b \in Int
    <3>1. l \in Int /\ o \in Int
      BY <2>3
    <3>2. l2 \in Int
      BY <2>2
    <3>3. o2 \in Int
      BY <2>2
    <3>4. o2 - l2 = o - l
      BY <2>2
    <3>5. b2 = b
      BY <2>4
    <3>6. b \in Int
      BY <2>4
    <3>7. o >= l - b
      BY <2>4
    <3> QED BY <3>1, <3>2, <3>3, <3>4, <3>5, <3>6, <3>7
  <2> HIDE DEF l, l2, o, o2
  <2>7. o2 >= l2 - b2
    BY <2>6
  <2>5. owed' >= left' - b2
    BY <2>7 DEF o2, l2
  <2> QED BY <2>5 DEF b2
<1>11. budget' => pc' \in Budgeted /\ left' > 0
  <2>1. left' \in Nat /\ left' >= left
    BY <1>3
  <2>2. left > 0 => left' > 0
    BY <1>0, <2>1
  <2> QED BY <1>0, <2>2 DEF Budget
<1>12. pc' \in {"done", "drop"} => budget'
  BY <1>0 DEF Budget
<1> QED BY <1>3, <1>7, <1>8, <1>10, <1>11, <1>12 DEF Budget

\* A new command has asked for nothing yet.
LEMMA BeginBudget ==
  ASSUME Types, Flow, Budget, NEW c \in Callers, Begin(c)
  PROVE  Budget'
<1>0. /\ at \in [Callers -> CallerPoints] /\ cur \in [Callers -> 0 .. MaxCmds]
      /\ cmds \in Seq(Command) /\ at[c] = "idle"
      /\ UNCHANGED <<left, done, owed, released, budget, pc, state, finished>>
      /\ cur' = [cur EXCEPT ![c] = Len(cmds) + 1]
      /\ \A d \in Callers : at[d] # "idle" => cur[d] \in DOMAIN cmds
  BY DEF Types, Begin, lanes, life, loopVars, frames, Flow, AtWork
<1>1. PICK k \in Kinds, n \in Ns \cup {0} :
         /\ cmds' = Append(cmds, [by |-> c, kind |-> k, n |-> n, runs |-> 0, status |-> "new",
                                  end |-> 0, from |-> 0])
         /\ at' = [at EXCEPT ![c] = IF k = "advance" THEN "advance" ELSE "entry"]
  BY DEF Begin, GoTo
<1> DEFINE e == [by |-> c, kind |-> k, n |-> n, runs |-> 0, status |-> "new", end |-> 0, from |-> 0]
           new == Len(cmds) + 1
<1>2. e \in Command /\ e.runs = 0
  BY DEF Command, Statuses
<1> HIDE DEF e
<1>3. cmds' = Append(cmds, e)
  BY <1>1 DEF e
<1>4. /\ DOMAIN cmds' = DOMAIN cmds \cup {new}
      /\ cmds'[new] = e
      /\ \A j \in DOMAIN cmds : cmds'[j] = cmds[j]
  BY <1>0, <1>2, <1>3, Appended
<1>5. cur'[c] = new /\ \A d \in Callers : d # c => cur'[d] = cur[d] /\ at'[d] = at[d]
  BY <1>0, <1>1
<1>6. at'[c] \in {"advance", "entry"}
  BY <1>0, <1>1
<1> HIDE DEF new
<1>7. \A j \in DOMAIN cmds : Asked(j)' <=> Asked(j)
  BY <1>2, <1>4 DEF Asked
<1>8. OnBudget' = OnBudget /\ Due' = Due
  BY <1>0 DEF OnBudget, Due
<1>9. \A d \in Callers : d # c /\ at[d] # "idle" => (Asked(cur[d])' <=> Asked(cur[d])) /\ cmds'[cur'[d]] = cmds[cur[d]]
  BY <1>0, <1>4, <1>5 DEF Asked
<1>10. ~Asked(cur[c])'
  BY <1>2, <1>4, <1>5 DEF Asked
<1>11. ~abandoned' => \A d \in Callers : Promise(d)'
  BY <1>0, <1>5, <1>6, <1>8, <1>9, <1>10 DEF Budget, Promise, abandoned
<1>12. \A d \in Callers : at'[d] \in {"check", "recheck", "return"} => Asked(cur[d])'
  BY <1>5, <1>6, <1>9 DEF Budget
<1>13. \A i \in DOMAIN cmds' : Asked(i)' => cmds'[i].end - cmds'[i].from >= cmds'[i].n
  <2> SUFFICES ASSUME NEW i \in DOMAIN cmds', Asked(i)' PROVE cmds'[i].end - cmds'[i].from >= cmds'[i].n
    OBVIOUS
  <2>1. i \in DOMAIN cmds
    BY <1>2, <1>4 DEF Asked
  <2> QED BY <1>4, <1>7, <2>1 DEF Budget
<1>14. owed' >= left' - OnBudget'
  BY <1>0, <1>8 DEF Budget
<1> QED BY <1>0, <1>11, <1>12, <1>13, <1>14 DEF Budget

\* A caller returns from advance() only when the promise came true.
LEMMA CallerBudget ==
  ASSUME Types, Threads, Flow, Budget, NEW c \in Callers,
         Begin(c) \/ CallerStep(c) \/ CallForTimeout(c) \/ GiveUp(c) \/ AdvanceGiveUp(c)
  PROVE  Budget'
<1>0. /\ AtWork(c)
      /\ at[c] # "idle" => cur[c] \in DOMAIN cmds /\ cmds[cur[c]].runs \in Nat
                           /\ cmds[cur[c]].end \in Nat
      /\ UNCHANGED <<life, budget>> /\ (pc' = pc \/ pc' = Woken(pc))
      /\ left \in Nat /\ done \in Nat
  BY CallerKeeps, Numbers DEF Types, Flow, AtWork
<1>1. \A j \in DOMAIN cmds : cmds' = cmds => (Asked(j)' <=> Asked(j))
  BY DEF Asked
<1>2. CASE AdvanceEntry(c) \/ CheckAbandoned(c) \/ inlineStep(c) \/ WaitAbandoned(c)
           \/ CallForTimeout(c) \/ GiveUp(c) \/ AdvanceGiveUp(c) \/ AdvanceReturn(c)
  <2>1. /\ at[c] # "idle" /\ UNCHANGED <<frames, cur, cmds>>
        /\ \E p \in CallerPoints \ {"check", "recheck", "return"} : at' = [at EXCEPT ![c] = p]
    BY <1>2 DEF AdvanceEntry, CheckAbandoned, inlineStep, WaitAbandoned, CallForTimeout, GiveUp,
         AdvanceGiveUp, AdvanceReturn, GoTo, CallerPoints
  <2>2. PICK p \in CallerPoints \ {"check", "recheck", "return"} : at' = [at EXCEPT ![c] = p]
    BY <2>1
  <2> QED BY <1>0, <1>1, <2>1, <2>2, MoveBudget
<1>3. CASE Answered(c)
  <2>1. /\ at[c] = "waiting" /\ cmds[cur[c]].runs > 0 /\ UNCHANGED <<frames, cur, cmds>>
        /\ at' = [at EXCEPT ![c] = IF Kind(c) = "advance" /\ ~abandoned THEN "check" ELSE "idle"]
    BY <1>3 DEF Answered, GoTo
  <2>2. CASE Kind(c) = "advance" /\ at' = [at EXCEPT ![c] = "check"]
    <3>1. Asked(cur[c])
      BY <2>1, <2>2 DEF Asked, Kind
    <3> QED BY <1>0, <1>1, <2>1, <2>2, <3>1, MoveBudget
  <2>3. CASE at' = [at EXCEPT ![c] = "idle"]
    BY <1>0, <1>1, <2>1, <2>3, MoveBudget
  <2> QED BY <2>1, <2>2, <2>3
<1>4. CASE AdvanceCheck(c)
  <2>1. /\ at[c] = "check" /\ UNCHANGED <<frames, cur, cmds>>
        /\ at' = [at EXCEPT ![c] = IF done >= cmds[cur[c]].end THEN "return" ELSE "recheck"]
        /\ Asked(cur[c])
    BY <1>4 DEF AdvanceCheck, GoTo, Budget
  <2>2. CASE done >= cmds[cur[c]].end /\ at' = [at EXCEPT ![c] = "return"]
    BY <1>0, <1>1, <2>1, <2>2, MoveBudget
  <2>3. CASE at' = [at EXCEPT ![c] = "recheck"]
    BY <1>0, <1>1, <2>1, <2>3, MoveBudget
  <2> QED BY <2>1, <2>2, <2>3
<1>5. CASE AdvanceRecheck(c)
  <2>1. /\ at[c] = "recheck" /\ UNCHANGED <<frames, cur, cmds>>
        /\ at' = [at EXCEPT ![c] = IF left = 0 \/ finished \/ abandoned THEN "return" ELSE "check"]
        /\ Asked(cur[c])
    BY <1>5 DEF AdvanceRecheck, GoTo, Budget
  <2>2. CASE (left = 0 \/ finished \/ abandoned) /\ at' = [at EXCEPT ![c] = "return"]
    <3>1. ~abandoned => cur[c] \in released \/ finished \/ done >= cmds[cur[c]].end
      <4> SUFFICES ASSUME ~abandoned, left = 0, cur[c] \notin released
                   PROVE  done >= cmds[cur[c]].end
        BY <2>2
      <4>1. Due >= cmds[cur[c]].end
        BY <2>1 DEF Budget, Promise
      <4>2. Due \in Int /\ Due <= done
        BY <1>0 DEF Due
      <4> DEFINE e == cmds[cur[c]].end
      <4>3. e \in Nat /\ Due >= e
        BY <1>0, <2>1, <4>1
      <4> HIDE DEF e
      <4>4. done >= e
        BY <1>0, <4>2, <4>3
      <4> QED BY <4>4 DEF e
    <3> QED BY <1>0, <1>1, <2>1, <2>2, <3>1, MoveBudget
  <2>3. CASE at' = [at EXCEPT ![c] = "check"]
    BY <1>0, <1>1, <2>1, <2>3, MoveBudget
  <2> QED BY <2>1, <2>2, <2>3
<1>6. CASE Route(c) \/ WaitFinished(c) \/ Cancel(c) \/ Post(c)
  <2>1. /\ at[c] # "idle" /\ UNCHANGED <<frames, cur>>
        /\ cmds' = cmds \/ \E s \in Statuses : cmds' = [cmds EXCEPT ![cur[c]].status = s]
        /\ \E p \in CallerPoints \ {"check", "recheck", "return"} : at' = [at EXCEPT ![c] = p]
    BY <1>6 DEF Route, WaitFinished, Cancel, Post, GoTo, CallerPoints, Statuses
  <2>2. PICK p \in CallerPoints \ {"check", "recheck", "return"} : at' = [at EXCEPT ![c] = p]
    BY <2>1
  <2>3. /\ DOMAIN cmds' = DOMAIN cmds
        /\ \A j \in DOMAIN cmds : /\ Asked(j)' <=> Asked(j)
                                  /\ cmds'[j].end = cmds[j].end /\ cmds'[j].from = cmds[j].from
                                  /\ cmds'[j].n = cmds[j].n
    <3>1. CASE cmds' = cmds
      BY <1>1, <3>1
    <3>2. ASSUME NEW s \in Statuses, cmds' = [cmds EXCEPT ![cur[c]].status = s]
          PROVE  Marked(cmds, cmds', cur[c], s)
      BY <1>0, <2>1, <3>2, MarkedType
    <3> QED BY <2>1, <3>1, <3>2, AskedMarked
  <2> QED BY <1>0, <2>1, <2>2, <2>3, MoveBudget
<1>7. CASE RunOnCaller(c)
  <2>1. CASE RunBody(cur[c])
    BY <1>7, <2>1, RunOnCallerBudget
  <2>2. CASE GoTo(c, "idle") /\ UNCHANGED <<cmds, frames>>
    <3>1. at[c] # "idle" /\ UNCHANGED cur
      BY <1>7 DEF RunOnCaller
    <3> QED BY <1>0, <1>1, <2>2, <3>1, MoveBudget DEF GoTo
  <2> QED BY <1>7, <2>1, <2>2 DEF RunOnCaller
<1>8. CASE Begin(c)
  BY <1>8, BeginBudget
<1> QED BY <1>2, <1>3, <1>4, <1>5, <1>6, <1>7, <1>8 DEF CallerStep

\* Every step keeps the budget.
LEMMA BudgetNext ==
  ASSUME Types, Threads, Flow, Budget, [Next]_vars
  PROVE  Budget'
<1>1. CASE UNCHANGED vars
  <2>1. UNCHANGED <<cmds, at, cur, budget, pc, left, done, owed, released, finished, state>>
    BY <1>1 DEF vars, life, loopVars, frames, callers
  <2>2. OnBudget' = OnBudget /\ Due' = Due
    BY <2>1 DEF OnBudget, Due
  <2> QED BY <2>1, <2>2 DEF Budget, Promise, Asked, abandoned
<1> QED BY <1>1, OwnerBudget, LoopBudget, CallerBudget DEF Next

------------------------------------------------------------------------------
(* What holds in every run, for any callers, commands, starts and frames.  *)

\* The invariant: a step needs every part of it, and keeps every part.
THEOREM EmuInvariant == Spec => []IInv
<1>1. Init => IInv
  BY TypesInit, ThreadsInit, BudgetInit, FlowInit, BehindInit DEF IInv
<1>2. IInv /\ [Next]_vars => IInv'
  BY IInvBusy, TypesNext, ThreadsNext, BudgetNext, FlowNext, BehindNext DEF IInv
<1> QED BY <1>1, <1>2, PTL DEF Spec

\* Every state is well typed; no command has run twice.
THEOREM EmuTypeOK == Spec => []TypeOK
<1>1. IInv => TypeOK
  <2> SUFFICES ASSUME IInv PROVE TypeOK
    OBVIOUS
  <2>1. ASSUME NEW i \in DOMAIN cmds PROVE cmds[i] \in Commands
    <3>1. cmds[i] \in Command
      BY Numbers DEF IInv
    <3>2. cmds[i].runs \in Nat /\ cmds[i].runs <= 1
      <4>1. cmds[i].runs \in Nat
        BY Numbers DEF IInv
      <4>2. cmds[i].runs <= IF cmds[i].status = "started" THEN 1 ELSE 0
        BY DEF IInv, Flow, Lined
      <4> QED BY <4>1, <4>2
    <3>3. cmds[i].runs \in 0 .. 2
      BY <3>2
    <3> QED BY <3>1, <3>3 DEF Command, Commands, Statuses
  <2>2. cmds \in Seq(Commands)
    <3>1. Len(cmds) \in Nat /\ DOMAIN cmds = 1 .. Len(cmds) /\ cmds \in [1 .. Len(cmds) -> Command]
      BY LenProperties DEF IInv, Types
    <3>2. cmds \in [1 .. Len(cmds) -> Commands]
      BY <2>1, <3>1
    <3> QED BY <3>1, <3>2
  <2> QED BY <2>2 DEF IInv, Types, TypeOK
<1> QED BY <1>1, EmuInvariant, PTL

\* A caller is inside the core only while no emulation thread is, until one is abandoned.
THEOREM EmuOwnsCoreAlways == Spec => []EmuOwnsCore
<1>1. IInv => EmuOwnsCore
  BY DEF IInv, Threads, EmuOwnsCore
<1> QED BY <1>1, EmuInvariant, PTL

\* Accepted commands run at most once, in the order their caller posted them, and none
\* is left when the thread has finished.
THEOREM DeliveryAlways == Spec => []Delivery
<1>1. IInv => Delivery
  <2> SUFFICES ASSUME IInv PROVE Delivery
    OBVIOUS
  <2>1. \A i \in DOMAIN cmds : cmds[i].runs <= IF cmds[i].status = "started" THEN 1 ELSE 0
    BY DEF IInv, Flow, Lined
  <2>2. finished => \A i \in DOMAIN cmds : cmds[i].status # "queued"
    BY NothingQueued DEF IInv, Threads
  <2>3. ~abandoned => Ordered(cmds)
    BY DEF IInv, Flow
  <2> QED BY <2>1, <2>2, <2>3 DEF Delivery, Ordered
<1> QED BY <1>1, EmuInvariant, PTL

\* What advance() returns is true, and no budgeted frame runs that nobody asked for.
THEOREM AdvanceHonestAlways == Spec => []AdvanceHonest
<1>1. IInv => AdvanceHonest
  <2> SUFFICES ASSUME IInv PROVE AdvanceHonest
    OBVIOUS
  <2>1. left \in Nat /\ done \in Nat /\ owed \in Int /\ budget \in BOOLEAN
    BY DEF IInv, Types
  <2>2. owed >= 0
    <3>1. owed >= left - OnBudget /\ (budget => left > 0)
      BY DEF IInv, Budget
    <3>2. CASE budget
      <4>1. OnBudget = 1
        BY <3>2 DEF OnBudget
      <4> QED BY <2>1, <3>1, <3>2, <4>1
    <3>3. CASE ~budget
      <4>1. OnBudget = 0
        BY <3>3 DEF OnBudget
      <4> QED BY <2>1, <3>1, <4>1
    <3> QED BY <3>2, <3>3
  <2>3. ASSUME NEW c \in Callers, at[c] = "return"
        PROVE  LET m == cmds[cur[c]]
               IN IF done >= m.end THEN done - m.from >= m.n
                  ELSE finished \/ abandoned \/ cur[c] \in released
    <3>1. Asked(cur[c]) /\ cur[c] \in DOMAIN cmds
      BY <2>3 DEF IInv, Budget, Flow, AtWork
    <3> DEFINE e == cmds[cur[c]].end
               f == cmds[cur[c]].from
               n == cmds[cur[c]].n
    <3>2. e - f >= n
      BY <3>1 DEF IInv, Budget
    <3>3. e \in Nat /\ f \in Nat /\ n \in Nat
      BY <3>1, Numbers DEF IInv
    <3>4. abandoned \/ cur[c] \in released \/ finished \/ done >= e
      BY <2>3 DEF IInv, Budget, Promise
    <3> HIDE DEF e, f, n
    <3>5. done >= e => done - f >= n
      BY <2>1, <3>2, <3>3
    <3> QED BY <3>4, <3>5 DEF e, f, n
  <2> QED BY <2>2, <2>3 DEF AdvanceHonest
<1> QED BY <1>1, EmuInvariant, PTL

\* A budgeted frame begins only after the commands that were queued when it was asked
\* for.  An abandoned thread is told to stop, so it begins no frame at all.
THEOREM BudgetBehindPostsAlways == Spec => BudgetBehindPosts
<1>1. IInv /\ [Next]_vars => [StartFrame /\ budget' => \A i \in ahead : cmds[i].status # "queued"]_vars
  <2> SUFFICES ASSUME IInv, StartFrame, budget', NEW i \in ahead, cmds[i].status = "queued" PROVE FALSE
    BY DEF vars
  <2>1. left > 0 /\ ~stop /\ batch = <<>> /\ left \in Nat
    BY DEF StartFrame, Drained, IInv, Types
  <2>2. pc = "runF2"
    BY <2>1 DEF StartFrame, Drained
  <2>3. ~abandoned
    BY <2>1 DEF IInv, Threads, abandoned
  <2>4. i \in DOMAIN cmds /\ Lane(cmds[i].kind) = "Frame"
    BY DEF IInv, Behind, Waited
  <2>5. DOMAIN batch = {}
    BY <2>1
  <2>6. PICK l \in Lanes : \E k \in DOMAIN q[l] : q[l][k] = i
    BY <2>4, <2>5 DEF IInv, Flow, Lined
  <2>7. l = "Frame"
    BY <2>4, <2>6 DEF IInv, Flow, Lined
  <2> QED BY <2>2, <2>3, <2>6, <2>7 DEF IInv, Behind
<1> QED BY <1>1, EmuInvariant, PTL DEF Spec, BudgetBehindPosts
=============================================================================
