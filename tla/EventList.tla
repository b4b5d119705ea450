----------------------------- MODULE EventList -----------------------------
(***************************************************************************)
(* One event list of src/core/event.c: a physical array of Size slots, the *)
(* number of live events and the cached index of the next one.  The C file *)
(* writes every function twice, once for eventList/eventCount/nextEvent    *)
(* and once for the JERRY triple; here a function is one operator on a     *)
(* list value L and the two copies are two uses of it.                     *)
(*                                                                         *)
(* Removal does not clear a slot: only `valid` drops and the callback and  *)
(* time stay behind as residue.  The residue is kept in the model because  *)
(* every scan of the C code trusts the count alone.  The eventType field   *)
(* is written and never read, and is left out.  A time (a double, in       *)
(* microseconds) is an integer here.                                       *)
(***************************************************************************)
EXTENDS Integers, FiniteSets

CONSTANTS
    Size,        \* EVENT_LIST_SIZE
    Callbacks,   \* the callback functions that get scheduled
    Registered,  \* those that callback_registry gives a save-state id
    NoCallback,  \* the NULL callback
    Never        \* the 1e30 an empty list answers

ASSUME SizeAssumption == Size \in Nat \ {0}
ASSUME CallbackAssumption == /\ NoCallback \notin Callbacks
                             /\ Registered \subseteq Callbacks
ASSUME NeverAssumption == Never \in Nat

Slots == 0 .. Size - 1

Slot == [valid : BOOLEAN, cb : Callbacks \cup {NoCallback}, time : Int]

EventLists == [slot : [Slots -> Slot], count : 0 .. Size, next : Slots]

\* A list before InitializeEventList ran for the first time: static storage.
ZeroList == [slot  |-> [i \in Slots |-> [valid |-> FALSE, cb |-> NoCallback, time |-> 0]],
             count |-> 0,
             next  |-> 0]

ClampDueEventTime(t) == IF t < 0 THEN 0 ELSE t

\* The slots every scan visits.
Scanned(L) == 0 .. L.count - 1

-----------------------------------------------------------------------------
(* Operations on one list. *)

\* Valid and time are reset; callbacks and the cached index stay as they were.
Cleared(L) ==
    [slot  |-> [i \in Slots |-> [valid |-> FALSE, cb |-> L.slot[i].cb, time |-> 0]],
     count |-> 0,
     next  |-> L.next]

\* A full list drops the event without telling the caller.
Pushed(L, cb, t) ==
    IF L.count < Size
    THEN [L EXCEPT !.slot[L.count] = [valid |-> TRUE, cb |-> cb, time |-> ClampDueEventTime(t)],
                   !.count = L.count + 1]
    ELSE L

Matching(L, cb) == {i \in Scanned(L) : L.slot[i].cb = cb}

FirstOf(S) == CHOOSE i \in S : \A j \in S : i <= j

\* Mutant of RemovedAt: the slot itself is invalidated and the last one is not
\* moved into it.
RemovedLeavingHole(L, i) ==
    [slot  |-> [L.slot EXCEPT ![i].valid = FALSE],
     count |-> L.count - 1,
     next  |-> L.next]

\* Swap the last live slot into the hole, then shrink the live region.
RemovedAt(L, i) ==
    LET last  == L.count - 1
        moved == [L.slot EXCEPT ![i] = L.slot[last]]
    IN  [slot  |-> [moved EXCEPT ![last].valid = FALSE],
         count |-> last,
         next  |-> L.next]

RetimedAt(L, i, t) == [L EXCEPT !.slot[i].time = ClampDueEventTime(t)]

EarliestSlots(L) ==
    {i \in Scanned(L) : \A j \in Scanned(L) : L.slot[i].time <= L.slot[j].time}

\* The strict < of the scan lets the lowest index win a tie; 0 if nothing is live.
EarliestSlot(L) ==
    IF L.count = 0 THEN 0 ELSE FirstOf(EarliestSlots(L))

TimeToNextEvent(L) ==
    IF L.count = 0 THEN Never ELSE ClampDueEventTime(L.slot[EarliestSlot(L)].time)

\* The side effect of GetTimeToNextEvent.
Peeked(L) == [L EXCEPT !.next = EarliestSlot(L)]

\* Only live slots count down; residue keeps the time it was removed with.
Elapsed(L, d) ==
    [L EXCEPT !.slot = [i \in Slots |-> IF i \in Scanned(L)
                                        THEN [L.slot[i] EXCEPT !.time = L.slot[i].time - d]
                                        ELSE L.slot[i]]]

\* Mutant of Dispatched: the event is removed first and the survivors miss the
\* time that passed.
DispatchedNoElapse(L) == RemovedAt(Peeked(L), EarliestSlot(L))

\* HandleNextEvent up to the call of the callback, on a list that is not empty.
Dispatched(L) ==
    LET P == Peeked(L)
    IN  RemovedAt(Elapsed(P, ClampDueEventTime(P.slot[P.next].time)), P.next)

-----------------------------------------------------------------------------
(* Save states. *)

\* An image holds every physical slot.  A callback without an id is stored as
\* id 0, which reads back as NULL.
SavedImage(L) ==
    [slot |-> [i \in Slots |-> [L.slot[i] EXCEPT !.cb = IF @ \in Registered THEN @ ELSE NoCallback]],
     next |-> L.next]

\* Mutant of Survivors: the valid byte of the image is believed on its own.
SurvivorsByFlag(img) == {i \in Slots : img.slot[i].valid}

\* A slot whose callback does not resolve is dropped.
Survivors(img) == {i \in Slots : img.slot[i].valid /\ img.slot[i].cb # NoCallback}

Below(i, S) == {j \in S : j < i}

Rank(i, S) == Cardinality(Below(i, S))

\* The survivors are packed towards index 0 in their old order, over the slots
\* they move to.
LoadedList(img) ==
    LET Keep == Survivors(img)
        w    == Cardinality(Keep)
        From(k) == CHOOSE i \in Keep : Rank(i, Keep) = k
    IN  [slot  |-> [k \in Slots |-> IF k < w THEN img.slot[From(k)]
                                             ELSE [img.slot[k] EXCEPT !.valid = FALSE]],
         count |-> w,
         next  |-> img.next]

-----------------------------------------------------------------------------

\* The valid slots are exactly the ones the count covers.
IsPacked(L) == \A i \in Slots : L.slot[i].valid <=> i < L.count

\* Residue is never read once the list is packed (EventQueueProofs), and the
\* cached index is derived again before every use: modules that use the queue
\* forget both.
Scrubbed(L) ==
    [slot  |-> [i \in Slots |-> IF i \in Scanned(L) THEN L.slot[i] ELSE ZeroList.slot[i]],
     count |-> L.count,
     next  |-> 0]

\* RemoveCallback restricted to one list.
Removed(L, cb) ==
    IF Matching(L, cb) = {} THEN L ELSE RemovedAt(L, FirstOf(Matching(L, cb)))

\* How many live events call cb.
PendingCount(L, cb) == Cardinality(Matching(L, cb))

\* Whatever the count covers can be called.
IsCallable(L) == \A i \in Scanned(L) : L.slot[i].cb # NoCallback
=============================================================================
