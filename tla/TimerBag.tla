------------------------------ MODULE TimerBag ------------------------------
(***************************************************************************)
(* What the event queue promises its clients: two bags of timers, each     *)
(* with its own wall clock.  A timer is a callback and the absolute time   *)
(* at which it is due; a bag holds at most Capacity of them and may hold   *)
(* the same timer twice.  Nothing here knows about slots, counts, cached   *)
(* indices or relative times.                                              *)
(***************************************************************************)
EXTENDS Integers, FiniteSets, Bags

CONSTANTS
    Capacity,    \* timers a bag can hold
    Callbacks,
    Registered,  \* callbacks that survive a save and a load
    Delays,
    Slices,
    Foreign      \* bags of [cb, left] that an older save may bring back

VARIABLES
    pending,     \* for either list the bag of timers
    now          \* for either list its wall clock

vars == <<pending, now>>

Lists == {"MAIN", "JERRY"}

\* The timers of a bag, each copy by its own number.
Copies(B) == UNION {{e} \X (1 .. B[e]) : e \in BagToSet(B)}

Later(a, b) == IF a > b THEN a ELSE b

Timers(cb, l) == {e \in BagToSet(pending[l]) : e.cb = cb}

Holder(cb) == IF Timers(cb, "MAIN") # {} THEN "MAIN" ELSE "JERRY"

Due(l, t) == now[l] + Later(t, 0)

Init ==
    /\ pending = [l \in Lists |-> EmptyBag]
    /\ now \in [Lists -> {0}]

Arm(cb, t, l) ==
    /\ Cardinality(Copies(pending[l])) < Capacity
    /\ pending' = [pending EXCEPT ![l] = @ (+) SetToBag({[cb |-> cb, due |-> Due(l, t)]})]
    /\ UNCHANGED now

\* One timer of the callback goes; if it has several, any of them.
Cancel(cb) ==
    LET l == Holder(cb)
    IN  /\ \E e \in Timers(cb, l) : pending' = [pending EXCEPT ![l] = @ (-) SetToBag({e})]
        /\ UNCHANGED now

Retime(cb, t) ==
    LET l == Holder(cb)
    IN  /\ \E e \in Timers(cb, l) :
              pending' = [pending EXCEPT ![l] = (@ (-) SetToBag({e}))
                                                  (+) SetToBag({[cb |-> cb, due |-> Due(l, t)]})]
        /\ UNCHANGED now

\* The timer that fires is one that is due first, and it never fires early.
Fire(l) ==
    \E e \in BagToSet(pending[l]) :
        /\ \A f \in BagToSet(pending[l]) : e.due <= f.due
        /\ pending' = [pending EXCEPT ![l] = @ (-) SetToBag({e})]
        /\ now' = [now EXCEPT ![l] = Later(@, e.due)]

Advance(d, l) ==
    /\ now' = [now EXCEPT ![l] = @ + d]
    /\ UNCHANGED pending

Clear ==
    /\ pending' = [l \in Lists |-> EmptyBag]
    /\ UNCHANGED now

\* A save followed by a load loses exactly the timers without an id.
Reload ==
    /\ pending' = [l \in Lists |->
                     [e \in {e \in BagToSet(pending[l]) : e.cb \in Registered} |-> pending[l][e]]]
    /\ UNCHANGED now

\* An older save brings its own timers, relative to the present clock.
Rebased(B, l) ==
    LET E(e) == [cb |-> e.cb, due |-> now[l] + e.left]
    IN  [d \in {E(e) : e \in BagToSet(B)} |->
           B[CHOOSE e \in BagToSet(B) : E(e) = d]]

Import ==
    \E F \in Foreign :
        /\ pending' = [l \in Lists |-> Rebased(F[l], l)]
        /\ UNCHANGED now

Next ==
    \/ \E cb \in Callbacks, t \in Delays, l \in Lists : Arm(cb, t, l)
    \/ \E cb \in Callbacks : Cancel(cb)
    \/ \E cb \in Callbacks, t \in Delays : Retime(cb, t)
    \/ \E l \in Lists : Fire(l)
    \/ \E d \in Slices, l \in Lists : Advance(d, l)
    \/ Clear
    \/ Reload
    \/ Import

Spec == Init /\ [][Next]_vars
=============================================================================
