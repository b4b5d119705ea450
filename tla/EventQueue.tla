----------------------------- MODULE EventQueue -----------------------------
(***************************************************************************)
(* The two event lists of src/core/event.c and every function that changes *)
(* them, called in any order by any client.  The emulator runs on one      *)
(* thread, so a function is one step.  What a fired callback does to the   *)
(* queue is again calls of these functions and follows as further steps.   *)
(***************************************************************************)
EXTENDS EventList

CONSTANTS
    Home,         \* the lists a callback's clients arm it on
    Delays,       \* the times callers pass, negative ones included
    Slices,       \* the elapsed times passed to SubtractEventTimes
    MaxClock,     \* bound on the wall clock of a list
    MaxLate,      \* bound on how overdue an event may become
    OldImages     \* save-state images written by the code before packing

ASSUME DelayAssumption == Delays \subseteq Int /\ Slices \subseteq Nat
ASSUME BoundAssumption == MaxClock \in Nat /\ MaxLate \in Nat

Lists == {"MAIN", "JERRY"}

ASSUME HomeAssumption == Home \in [Callbacks -> SUBSET Lists]

Images == [slot : [Slots -> Slot], next : Slots]

ASSUME OldImageAssumption == OldImages \subseteq [Lists -> Images]

VARIABLES
    list,    \* the two lists
    clock    \* history: the time each list has counted down so far

vars == <<list, clock>>

TypeOK ==
    /\ list \in [Lists -> EventLists]
    /\ clock \in [Lists -> Nat]

Init ==
    /\ list = [l \in Lists |-> ZeroList]
    /\ clock = [l \in Lists |-> 0]

-----------------------------------------------------------------------------

InitializeEventList ==
    /\ list' = [l \in Lists |-> Cleared(list[l])]
    /\ UNCHANGED clock

SetCallbackTime(cb, t, l) ==
    /\ list' = [list EXCEPT ![l] = Pushed(list[l], cb, t)]
    /\ UNCHANGED clock

\* Both RemoveCallback and AdjustCallbackTime search MAIN before JERRY and stop
\* at the first slot that holds the callback.
HolderOf(cb) == IF Matching(list["MAIN"], cb) # {} THEN "MAIN" ELSE "JERRY"

RemoveCallback(cb) ==
    LET l == HolderOf(cb)
        M == Matching(list[l], cb)
    IN  /\ list' = IF M = {} THEN list
                   ELSE [list EXCEPT ![l] = RemovedAt(list[l], FirstOf(M))]
        /\ UNCHANGED clock

AdjustCallbackTime(cb, t) ==
    LET l == HolderOf(cb)
        M == Matching(list[l], cb)
    IN  /\ list' = IF M = {} THEN list
                   ELSE [list EXCEPT ![l] = RetimedAt(list[l], FirstOf(M), t)]
        /\ UNCHANGED clock

GetTimeToNextEvent(l) ==
    /\ list' = [list EXCEPT ![l] = Peeked(list[l])]
    /\ UNCHANGED clock

\* An empty list only has its cached index rewritten; no callback runs.
HandleNextEvent(l) ==
    IF list[l].count = 0
    THEN GetTimeToNextEvent(l)
    ELSE /\ clock[l] + TimeToNextEvent(list[l]) <= MaxClock
         /\ list' = [list EXCEPT ![l] = Dispatched(list[l])]
         /\ clock' = [clock EXCEPT ![l] = @ + TimeToNextEvent(list[l])]

SubtractEventTimes(d, l) ==
    /\ clock[l] + d <= MaxClock
    /\ \A i \in Scanned(list[l]) : list[l].slot[i].time - d >= -MaxLate
    /\ list' = [list EXCEPT ![l] = Elapsed(list[l], d)]
    /\ clock' = [clock EXCEPT ![l] = @ + d]

\* EventStateLoad overwrites everything it does not keep, so what it leaves
\* depends on the image alone: it is enough to load the image EventStateSave
\* makes of the present state, and the images of the older format.
EventStateLoad(img) ==
    /\ list' = [l \in Lists |-> LoadedList(img[l])]
    /\ UNCHANGED clock

EventStateSave == [l \in Lists |-> SavedImage(list[l])]

Next ==
    \/ InitializeEventList
    \/ \E cb \in Callbacks, t \in Delays : \E l \in Home[cb] : SetCallbackTime(cb, t, l)
    \/ \E cb \in Callbacks : RemoveCallback(cb)
    \/ \E cb \in Callbacks, t \in Delays : AdjustCallbackTime(cb, t)
    \/ \E l \in Lists : GetTimeToNextEvent(l)
    \/ \E l \in Lists : HandleNextEvent(l)
    \/ \E d \in Slices, l \in Lists : SubtractEventTimes(d, l)
    \/ EventStateLoad(EventStateSave)
    \/ \E img \in OldImages : EventStateLoad(img)

Spec == Init /\ [][Next]_vars

-----------------------------------------------------------------------------

\* Packing: the valid slots of either array are exactly the ones the count
\* covers, whatever sequence of insertions, swap-removals and loads led there
\* (the invariant stated above eventCount in event.c).
Packed == \A l \in Lists : IsPacked(list[l])

\* HandleNextEvent calls what it finds in a live slot without looking: no live
\* slot may ever hold NULL, not even after loading a save whose callbacks do
\* not resolve.
Callable == \A l \in Lists : IsCallable(list[l])

-----------------------------------------------------------------------------
(* The timers the lists hold, as TimerBag sees them.  The mapping reads the *)
(* valid flags of the whole physical array and never the count: an event    *)
(* the count does not cover, or residue the count takes for an event, shows *)
(* up as a step TimerBag does not have.                                     *)

\* The bag of the values of a function.
BagOfValues(f) ==
    [e \in {f[i] : i \in DOMAIN f} |-> Cardinality({i \in DOMAIN f : f[i] = e})]

HeldTimers(L, now) ==
    [i \in {i \in Slots : L.slot[i].valid} |->
        [cb |-> L.slot[i].cb, due |-> now + L.slot[i].time]]

ImageTimers(img) ==
    [i \in {i \in Slots : img.slot[i].valid /\ img.slot[i].cb # NoCallback} |->
        [cb |-> img.slot[i].cb, left |-> img.slot[i].time]]

Pending == [l \in Lists |-> BagOfValues(HeldTimers(list[l], clock[l]))]

OldTimers == {[l \in Lists |-> BagOfValues(ImageTimers(img[l]))] : img \in OldImages}

Abstract == INSTANCE TimerBag WITH
    Capacity <- Size,
    Foreign  <- OldTimers,
    pending  <- Pending,
    now      <- clock

\* Every function of event.c does to the physical arrays what TimerBag says of
\* the timers: none lost, none duplicated, none resurrected from residue, none
\* fired early or out of order, and only unregistered ones lost by a save.
ImplementsTimerBag == Abstract!Spec
=============================================================================
