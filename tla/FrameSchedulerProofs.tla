------------------------ MODULE FrameSchedulerProofs ------------------------
(***************************************************************************)
(* Whatever the guest writes to its timers and however many interrupts the *)
(* GPU raises, each timer stays single and none that is off is queued;     *)
(* those of JERRY stay armed as programmed, and so do those of MAIN until  *)
(* the GPU's interrupts have filled it; no sample event outlives a full    *)
(* buffer.  For every period, frame length, list size of at least three    *)
(* and number of register writes.                                          *)
(*                                                                         *)
(* The argument counts: every list operation adds or takes one event of    *)
(* one callback, or drops one at a full list, and the number of live slots *)
(* is the sum of the numbers of events of the callbacks that use the list. *)
(* So JERRY, with three timers, is never full, and MAIN with its two only  *)
(* when GPU interrupts hold all but one of its slots.                      *)
(***************************************************************************)
EXTENDS FrameScheduler, FiniteSetTheorems, TLAPS

\* A slot for each of JERRY's three timers; the code's lists have 32.
Room == 3 <= Size

One(b) == IF b THEN 1 ELSE 0

-----------------------------------------------------------------------------
(* What the operations of a list do to its numbers of events.              *)

\* A set of naturals has a least element.
LEMMA LeastMember ==
    ASSUME NEW S \in SUBSET Nat, S # {}
    PROVE  \E i \in S : \A j \in S : i <= j
<1>1. \E i \in S : \A j \in S : ~(<<j, i>> \in OpToRel(<, Nat))
  BY NatLessThanWellFounded, WFMin, Zenon
<1>2. \E i \in S : \A j \in S : ~(j < i)
  BY <1>1, Zenon DEF OpToRel
<1> QED
  BY <1>2

\* FirstOf returns it.
LEMMA FirstOfMember ==
    ASSUME NEW S \in SUBSET Nat, S # {}
    PROVE  FirstOf(S) \in S /\ \A j \in S : FirstOf(S) <= j
BY LeastMember DEF FirstOf

\* The live slots are finitely many slots, and so are those of one callback.
LEMMA MatchingFinite ==
    ASSUME NEW L \in EventLists, NEW cb
    PROVE  /\ L.count \in 0 .. Size /\ Scanned(L) \subseteq Slots
           /\ Matching(L, cb) \subseteq Scanned(L) /\ Matching(L, cb) \in SUBSET Nat
           /\ IsFiniteSet(Matching(L, cb))
           /\ PendingCount(L, cb) \in Nat
           /\ PendingCount(L, cb) = 0 <=> Matching(L, cb) = {}
<1>1. L.count \in 0 .. Size /\ Size \in Nat \ {0}
  BY SizeAssumption DEF EventLists
<1>2. IsFiniteSet(Scanned(L)) /\ Scanned(L) \subseteq Slots
  <2>1. IsFiniteSet(0 .. L.count - 1)
    BY <1>1, FS_Interval
  <2> QED
    BY <1>1, <2>1 DEF Scanned, Slots
<1>3. Matching(L, cb) \subseteq Scanned(L) /\ Matching(L, cb) \in SUBSET Nat
  BY <1>1 DEF Matching, Scanned
<1>4. IsFiniteSet(Matching(L, cb))
  BY <1>2, <1>3, FS_Subset
<1> QED
  BY <1>1, <1>2, <1>3, <1>4, FS_CardinalityType, FS_EmptySet DEF PendingCount

\* Two lists with the same callbacks in the same live slots have the same numbers.
LEMMA SameNumbers ==
    ASSUME NEW L \in EventLists, NEW R \in EventLists, R.count = L.count,
           \A i \in Scanned(L) : R.slot[i].cb = L.slot[i].cb
    PROVE  \A cb : PendingCount(R, cb) = PendingCount(L, cb)
<1>1. \A cb : Matching(R, cb) = Matching(L, cb)
  BY DEF Matching, Scanned
<1> QED
  BY <1>1 DEF PendingCount

\* SetCallbackTime adds one event while there is room.
LEMMA PushedNumbers ==
    ASSUME NEW L \in EventLists, L.count < Size, NEW cb \in Callbacks, NEW t \in Int
    PROVE  /\ Pushed(L, cb, t) \in EventLists
           /\ Pushed(L, cb, t).count = L.count + 1
           /\ \A c : PendingCount(Pushed(L, cb, t), c) = PendingCount(L, c) + One(c = cb)
<1> DEFINE e == [valid |-> TRUE, cb |-> cb, time |-> ClampDueEventTime(t)]
           R == Pushed(L, cb, t)
<1>1. e \in Slot /\ e.cb = cb
  BY DEF Slot, ClampDueEventTime
<1>2. L.count \in Slots /\ L.count \in Nat /\ Size \in Nat
  BY SizeAssumption DEF EventLists, Slots
<1>3. R = [slot |-> [L.slot EXCEPT ![L.count] = e], count |-> L.count + 1, next |-> L.next]
  BY DEF Pushed, EventLists
<1> HIDE DEF e, R
<1>4. R \in EventLists /\ R.count = L.count + 1
  BY <1>1, <1>2, <1>3, SizeAssumption DEF EventLists
<1>5. \A k \in Slots : R.slot[k] = IF k = L.count THEN e ELSE L.slot[k]
  BY <1>2, <1>3 DEF EventLists
<1>6. ASSUME NEW c PROVE PendingCount(R, c) = PendingCount(L, c) + One(c = cb)
  <2>1. /\ Scanned(R) = Scanned(L) \cup {L.count} /\ L.count \notin Scanned(L)
        /\ Scanned(L) \subseteq Slots
    BY <1>2, <1>4, MatchingFinite DEF Scanned
  <2>2. Matching(R, c) = IF c = cb THEN Matching(L, c) \cup {L.count} ELSE Matching(L, c)
    BY <1>1, <1>2, <1>5, <2>1 DEF Matching
  <2>3. IsFiniteSet(Matching(L, c)) /\ L.count \notin Matching(L, c) /\ Cardinality(Matching(L, c)) \in Nat
    BY <2>1, MatchingFinite DEF PendingCount
  <2>4. CASE c = cb
    <3>1. Cardinality(Matching(R, c)) = Cardinality(Matching(L, c)) + 1
      BY <2>2, <2>3, <2>4, FS_AddElement
    <3> QED
      BY <2>4, <3>1 DEF PendingCount, One
  <2>5. CASE c # cb
    BY <2>2, <2>3, <2>5 DEF PendingCount, One
  <2> QED
    BY <2>4, <2>5
<1> QED
  BY <1>4, <1>6 DEF R

\* Swap-removal takes exactly the event of its slot.
LEMMA RemovedAtNumbers ==
    ASSUME NEW L \in EventLists, NEW i \in Scanned(L)
    PROVE  /\ RemovedAt(L, i) \in EventLists
           /\ RemovedAt(L, i).count = L.count - 1
           /\ \A c : /\ PendingCount(RemovedAt(L, i), c) = PendingCount(L, c) - One(c = L.slot[i].cb)
                     /\ c = L.slot[i].cb => PendingCount(L, c) > 0
<1> DEFINE last  == L.count - 1
           moved == [L.slot EXCEPT ![i] = L.slot[last]]
           R     == RemovedAt(L, i)
<1>1. /\ last \in Slots /\ i \in Slots /\ L.count \in Nat /\ L.count <= Size /\ i <= last /\ Size \in Nat
      /\ \A k \in Slots : L.slot[k] \in Slot
  BY SizeAssumption DEF EventLists, Slots, Scanned
<1>2. R = [slot |-> [moved EXCEPT ![last].valid = FALSE], count |-> last, next |-> L.next]
  BY DEF RemovedAt
<1>3. moved \in [Slots -> Slot] /\ \A k \in Slots : moved[k] = IF k = i THEN L.slot[last] ELSE L.slot[k]
  BY <1>1 DEF EventLists
<1> HIDE DEF moved, R
<1>4. [moved[last] EXCEPT !.valid = FALSE] \in Slot
  BY <1>1, <1>3 DEF Slot
<1>5. R.slot = [moved EXCEPT ![last] = [moved[last] EXCEPT !.valid = FALSE]]
  BY <1>2
<1>6. R \in EventLists /\ R.count = last
  <2>1. R.slot \in [Slots -> Slot]
    BY <1>1, <1>3, <1>4, <1>5
  <2>2. last \in 0 .. Size /\ L.next \in Slots
    BY <1>1 DEF EventLists, Slots
  <2>3. R = [slot |-> R.slot, count |-> last, next |-> L.next]
    BY <1>2
  <2> QED
    BY <2>1, <2>2, <2>3 DEF EventLists
<1>7. \A k \in Scanned(R) : /\ k \in Slots /\ k # last
                            /\ R.slot[k].cb = IF k = i THEN L.slot[last].cb ELSE L.slot[k].cb
  BY <1>1, <1>3, <1>5, <1>6 DEF Scanned, Slots
<1>8. Scanned(L) = Scanned(R) \cup {last} /\ last \notin Scanned(R) /\ (i # last => i \in Scanned(R))
  BY <1>1, <1>6 DEF Scanned
<1>9. ASSUME NEW c
      PROVE  /\ PendingCount(R, c) = PendingCount(L, c) - One(c = L.slot[i].cb)
             /\ c = L.slot[i].cb => PendingCount(L, c) > 0
  <2> DEFINE M == Matching(L, c)
             N == Matching(R, c)
             K == M \ {last}
  <2>1. IsFiniteSet(M) /\ Cardinality(M) \in Nat /\ (M = {} <=> Cardinality(M) = 0)
    BY MatchingFinite, FS_EmptySet DEF PendingCount
  <2>2. i \in M <=> c = L.slot[i].cb
    BY DEF Matching
  <2>3. CASE i = last
    <3>1. N = K
      BY <1>7, <1>8, <2>3 DEF Matching
    <3>2. Cardinality(K) = IF last \in M THEN Cardinality(M) - 1 ELSE Cardinality(M)
      BY <2>1, FS_RemoveElement
    <3>3. Cardinality(N) = Cardinality(M) - One(i \in M) /\ (i \in M => M # {})
      BY <2>1, <2>3, <3>1, <3>2 DEF One
    <3> QED
      BY <2>1, <2>2, <3>3 DEF PendingCount, One
  <2>4. CASE i # last
    <3>1. N = (K \ {i}) \cup (IF last \in M THEN {i} ELSE {})
      BY <1>7, <1>8, <2>4 DEF Matching
    <3>2. IsFiniteSet(K) /\ Cardinality(K) = Cardinality(M) - One(last \in M)
      <4>1. /\ IsFiniteSet(K)
            /\ Cardinality(K) = IF last \in M THEN Cardinality(M) - 1 ELSE Cardinality(M)
        BY <2>1, FS_RemoveElement
      <4> QED
        BY <2>1, <4>1 DEF One
    <3>3. i \in K <=> i \in M
      BY <2>4
    <3>4. last \in M => M # {}
      OBVIOUS
    <3>5. IsFiniteSet(K \ {i}) /\ Cardinality(K \ {i}) = Cardinality(M) - One(last \in M) - One(i \in M)
      <4> HIDE DEF K
      <4>1. IsFiniteSet(K \ {i}) /\ Cardinality(K \ {i}) = IF i \in K THEN Cardinality(K) - 1 ELSE Cardinality(K)
        BY <3>2, FS_RemoveElement
      <4> QED
        BY <2>1, <3>2, <3>3, <4>1 DEF One
    <3>6. Cardinality(N) = Cardinality(M) - One(i \in M)
      <4> HIDE DEF K, M, N
      <4>1. CASE last \in M
        <5>1. Cardinality(N) = Cardinality(K \ {i}) + 1
          BY <3>1, <3>5, <4>1, FS_AddElement
        <5> QED
          BY <2>1, <3>5, <4>1, <5>1 DEF One
      <4>2. CASE last \notin M
        <5>1. N = K \ {i}
          BY <3>1, <4>2
        <5> QED
          BY <2>1, <3>5, <4>2, <5>1 DEF One
      <4> QED
        BY <4>1, <4>2
    <3> QED
      BY <2>1, <2>2, <3>6 DEF PendingCount, One
  <2> QED
    BY <2>3, <2>4
<1> QED
  BY <1>6, <1>9 DEF R

\* Among the live slots of a list that is not empty one has the least time.
\* Times are integers of either sign, so the argument is by the number of slots
\* looked at: a first n at which the minimum is missing cannot exist.
LEMMA EarliestExists ==
    ASSUME NEW L \in EventLists, L.count > 0
    PROVE  EarliestSlots(L) # {}
<1> DEFINE HasMin(n) == \E i \in 0 .. n - 1 : \A j \in 0 .. n - 1 : L.slot[i].time <= L.slot[j].time
           Bad == {n \in 1 .. L.count : ~HasMin(n)}
<1>t. L.count \in 0 .. Size /\ Size \in Nat /\ \A i \in Slots : L.slot[i].time \in Int
  BY SizeAssumption DEF EventLists, Slot
<1>1. CASE Bad = {}
  BY <1>1, <1>t DEF EarliestSlots, Scanned
<1>2. CASE Bad # {}
  <2>1. PICK n \in Bad : \A k \in Bad : n <= k
    <3>1. Bad \in SUBSET Nat
      BY <1>t
    <3> QED
      BY <3>1, <1>2, LeastMember
  <2>2. n # 1
    BY <2>1, <1>t DEF Slots
  <2>3. n - 1 \in 1 .. L.count /\ n - 1 \notin Bad
    BY <2>1, <2>2, <1>t
  <2>4. PICK i \in 0 .. n - 2 : \A j \in 0 .. n - 2 : L.slot[i].time <= L.slot[j].time
    BY <2>3
  <2>5. L.slot[i].time \in Int /\ L.slot[n - 1].time \in Int
    BY <2>1, <2>4, <1>t DEF Slots
  <2>6. \A j \in 0 .. n - 1 : j \in 0 .. n - 2 \/ j = n - 1
    BY <2>1
  <2>7. \A j \in 0 .. n - 1 : L.slot[j].time \in Int
    BY <2>1, <1>t DEF Slots
  <2>8. HasMin(n)
    <3>1. CASE L.slot[i].time <= L.slot[n - 1].time
      BY <3>1, <2>1, <2>4, <2>6
    <3>2. CASE L.slot[n - 1].time < L.slot[i].time
      BY <3>2, <2>1, <2>4, <2>5, <2>6, <2>7
    <3> QED
      BY <3>1, <3>2, <2>5
  <2> QED
    BY <2>1, <2>8
<1> QED
  BY <1>1, <1>2

\* GetTimeToNextEvent caches a live slot, and none of the others is due earlier.
LEMMA EarliestSlotLive ==
    ASSUME NEW L \in EventLists, L.count > 0
    PROVE  /\ EarliestSlot(L) \in Scanned(L)
           /\ \A j \in Scanned(L) : L.slot[EarliestSlot(L)].time <= L.slot[j].time
<1>1. EarliestSlots(L) \in SUBSET Nat /\ EarliestSlots(L) # {}
  BY EarliestExists DEF EarliestSlots, Scanned, EventLists
<1>2. EarliestSlot(L) \in EarliestSlots(L)
  BY <1>1, FirstOfMember DEF EarliestSlot, EventLists
<1> QED
  BY <1>2 DEF EarliestSlots

\* The time to the next event is never negative, and its slot is live.
LEMMA NextTime ==
    ASSUME NEW L \in EventLists
    PROVE  TimeToNextEvent(L) \in Nat
<1>1. CASE L.count = 0
  BY <1>1, NeverAssumption DEF TimeToNextEvent
<1>2. CASE L.count # 0
  <2>1. L.count > 0
    BY <1>2, MatchingFinite
  <2>2. EarliestSlot(L) \in Slots
    BY <2>1, EarliestSlotLive, MatchingFinite
  <2>3. L.slot[EarliestSlot(L)].time \in Int
    BY <2>2 DEF EventLists, Slot
  <2> QED
    BY <1>2, <2>3 DEF TimeToNextEvent, ClampDueEventTime
<1> QED
  BY <1>1, <1>2

\* SubtractEventTimes touches the times alone.
LEMMA ElapsedNumbers ==
    ASSUME NEW L \in EventLists, NEW d \in Int
    PROVE  /\ Elapsed(L, d) \in EventLists
           /\ Elapsed(L, d).count = L.count
           /\ \A i \in Scanned(L) : Elapsed(L, d).slot[i].cb = L.slot[i].cb
           /\ \A c : PendingCount(Elapsed(L, d), c) = PendingCount(L, c)
<1> DEFINE R == Elapsed(L, d)
<1>1. R = [slot |-> R.slot, count |-> L.count, next |-> L.next]
  BY DEF Elapsed, EventLists
<1>2. \A k \in Slots : L.slot[k] \in Slot
  BY DEF EventLists
<1>3. /\ R.slot \in [Slots -> Slot]
      /\ \A k \in Slots : R.slot[k].cb = L.slot[k].cb
  BY <1>2 DEF Elapsed, EventLists, Slot
<1>4. R \in EventLists /\ R.count = L.count
  BY <1>1, <1>3 DEF EventLists
<1>5. \A i \in Scanned(L) : R.slot[i].cb = L.slot[i].cb
  BY <1>3, MatchingFinite
<1> HIDE DEF R
<1>6. \A c : PendingCount(R, c) = PendingCount(L, c)
  BY <1>4, <1>5, SameNumbers
<1> QED
  BY <1>4, <1>5, <1>6 DEF R

\* Forgetting the residue changes no live slot.
LEMMA ScrubbedNumbers ==
    ASSUME NEW L \in EventLists
    PROVE  /\ Scrubbed(L) \in EventLists
           /\ Scrubbed(L).count = L.count
           /\ \A c : PendingCount(Scrubbed(L), c) = PendingCount(L, c)
<1> DEFINE R == Scrubbed(L)
<1>1. /\ \A k \in Slots : L.slot[k] \in Slot /\ ZeroList.slot[k] \in Slot
      /\ 0 \in Slots /\ L.count \in 0 .. Size
  BY SizeAssumption DEF EventLists, Slot, ZeroList, Slots
<1>2. R \in EventLists /\ R.count = L.count
  BY <1>1 DEF Scrubbed, EventLists
<1>3. \A i \in Scanned(L) : R.slot[i].cb = L.slot[i].cb
  BY MatchingFinite DEF Scrubbed
<1> HIDE DEF R
<1>4. \A c : PendingCount(R, c) = PendingCount(L, c)
  BY <1>2, <1>3, SameNumbers
<1> QED
  BY <1>2, <1>4 DEF R

\* HandleNextEvent takes the one event it is about to call.
LEMMA DispatchedNumbers ==
    ASSUME NEW L \in EventLists, L.count > 0
    PROVE  /\ Dispatched(L) \in EventLists
           /\ Dispatched(L).count = L.count - 1
           /\ \A c : /\ PendingCount(Dispatched(L), c) = PendingCount(L, c) - One(c = NextCallback(L))
                     /\ c = NextCallback(L) => PendingCount(L, c) > 0
<1> DEFINE P == Peeked(L)
           d == ClampDueEventTime(P.slot[P.next].time)
           E == Elapsed(P, d)
<1>1. EarliestSlot(L) \in Scanned(L) /\ EarliestSlot(L) \in Slots
  BY EarliestSlotLive, MatchingFinite
<1>2. P = [slot |-> L.slot, count |-> L.count, next |-> EarliestSlot(L)]
  BY DEF Peeked, EventLists
<1>3. P \in EventLists /\ P.count = L.count
  BY <1>1, <1>2 DEF EventLists
<1>4. \A c : PendingCount(P, c) = PendingCount(L, c)
  <2>1. \A i \in Scanned(L) : P.slot[i].cb = L.slot[i].cb
    BY <1>2
  <2> HIDE DEF P
  <2> QED
    BY <1>3, <2>1, SameNumbers
<1>5. d \in Int
  BY <1>1, <1>2 DEF ClampDueEventTime, EventLists, Slot
<1> HIDE DEF d, P
<1>6. /\ E \in EventLists /\ E.count = L.count
      /\ \A i \in Scanned(L) : E.slot[i].cb = P.slot[i].cb
      /\ \A c : PendingCount(E, c) = PendingCount(L, c)
  BY <1>3, <1>4, <1>5, ElapsedNumbers DEF Scanned
<1>7. P.next \in Scanned(E) /\ E.slot[P.next].cb = NextCallback(L)
  BY <1>1, <1>2, <1>6 DEF Scanned, NextCallback
<1> HIDE DEF E
<1>8. Dispatched(L) = RemovedAt(E, P.next)
  BY DEF Dispatched, E, P, d
<1> QED
  BY <1>6, <1>7, <1>8, RemovedAtNumbers

\* RemoveCallback takes one event of its callback, if there is one.
LEMMA RemovedNumbers ==
    ASSUME NEW L \in EventLists, NEW cb
    PROVE  /\ Removed(L, cb) \in EventLists
           /\ Removed(L, cb).count = L.count - One(PendingCount(L, cb) > 0)
           /\ \A c : PendingCount(Removed(L, cb), c)
                        = PendingCount(L, c) - One(c = cb /\ PendingCount(L, cb) > 0)
<1>0. /\ PendingCount(L, cb) \in Nat /\ L.count \in Nat
      /\ PendingCount(L, cb) = 0 <=> Matching(L, cb) = {}
      /\ \A c : PendingCount(L, c) \in Nat
  BY MatchingFinite, SizeAssumption
<1>1. CASE Matching(L, cb) = {}
  BY <1>0, <1>1 DEF Removed, One
<1>2. CASE Matching(L, cb) # {}
  <2> DEFINE i == FirstOf(Matching(L, cb))
  <2>1. i \in Matching(L, cb)
    BY <1>2, MatchingFinite, FirstOfMember
  <2>2. i \in Scanned(L) /\ L.slot[i].cb = cb
    BY <2>1 DEF Matching
  <2>3. Removed(L, cb) = RemovedAt(L, i)
    BY <1>2 DEF Removed
  <2> HIDE DEF i
  <2>4. PendingCount(L, cb) > 0
    BY <1>0, <1>2
  <2>5. /\ RemovedAt(L, i) \in EventLists
        /\ RemovedAt(L, i).count = L.count - 1
        /\ \A c : PendingCount(RemovedAt(L, i), c) = PendingCount(L, c) - One(c = cb)
    BY <2>2, RemovedAtNumbers
  <2> QED
    BY <2>3, <2>4, <2>5 DEF One
<1> QED
  BY <1>1, <1>2

\* TOMResetPIT, JERRYResetPIT1 and the SCLK write leave one event or, with period 0,
\* none; Remove before Set keeps a slot free for it.
LEMMA RearmedNumbers ==
    ASSUME NEW L \in EventLists, NEW cb \in Callbacks, NEW period \in Nat,
           PendingCount(L, cb) <= 1, L.count - PendingCount(L, cb) < Size
    PROVE  /\ Rearmed(L, cb, period) \in EventLists
           /\ Rearmed(L, cb, period).count = L.count - PendingCount(L, cb) + One(period # 0)
           /\ PendingCount(Rearmed(L, cb, period), cb) = One(period # 0)
           /\ \A c : c # cb => PendingCount(Rearmed(L, cb, period), c) = PendingCount(L, c)
<1> DEFINE R == Removed(L, cb)
           S == IF period = 0 THEN R ELSE Pushed(R, cb, period)
<1>1. L.count \in Nat /\ \A c : PendingCount(L, c) \in Nat
  BY MatchingFinite, SizeAssumption
<1>2. One(PendingCount(L, cb) > 0) = PendingCount(L, cb)
  BY <1>1 DEF One
<1>3. /\ R \in EventLists
      /\ R.count = L.count - PendingCount(L, cb)
      /\ PendingCount(R, cb) = 0
      /\ \A c : c # cb => PendingCount(R, c) = PendingCount(L, c)
  <2>1. R \in EventLists /\ R.count = L.count - PendingCount(L, cb)
    BY <1>2, RemovedNumbers
  <2>2. PendingCount(R, cb) = PendingCount(L, cb) - One(PendingCount(L, cb) > 0)
    BY RemovedNumbers DEF One
  <2>3. ASSUME NEW c, c # cb PROVE PendingCount(R, c) = PendingCount(L, c)
    <3>1. PendingCount(R, c) = PendingCount(L, c) - One(c = cb /\ PendingCount(L, cb) > 0)
      BY RemovedNumbers
    <3>2. One(c = cb /\ PendingCount(L, cb) > 0) = 0
      BY <2>3 DEF One
    <3> QED
      BY <1>1, <3>1, <3>2
  <2> QED
    BY <1>1, <1>2, <2>1, <2>2, <2>3
<1> HIDE DEF R
<1>4. /\ S \in EventLists
      /\ S.count = L.count - PendingCount(L, cb) + One(period # 0)
      /\ PendingCount(S, cb) = One(period # 0)
      /\ \A c : c # cb => PendingCount(S, c) = PendingCount(L, c)
  <2>1. CASE period = 0
    BY <1>1, <1>3, <2>1 DEF One
  <2>2. CASE period # 0
    <3>1. /\ S \in EventLists /\ S.count = R.count + 1
          /\ \A c : PendingCount(S, c) = PendingCount(R, c) + One(c = cb)
      BY <1>3, <2>2, PushedNumbers
    <3>2. ASSUME NEW c, c # cb PROVE PendingCount(S, c) = PendingCount(L, c)
      <4>1. One(c = cb) = 0 /\ PendingCount(S, c) = PendingCount(R, c) + One(c = cb)
        BY <3>1, <3>2 DEF One
      <4> QED
        BY <1>1, <1>3, <3>2, <4>1
    <3>3. PendingCount(S, cb) = 1
      BY <1>3, <3>1 DEF One
    <3> QED
      BY <1>3, <2>2, <3>1, <3>2, <3>3 DEF One
  <2> QED
    BY <2>1, <2>2
<1>5. Rearmed(L, cb, period) = Scrubbed(S)
  BY DEF Rearmed, R
<1> HIDE DEF S
<1> QED
  BY <1>4, <1>5, ScrubbedNumbers
\* With no event of its own in a full list a timer is not armed, and nothing else moves.
LEMMA RearmedFull ==
    ASSUME NEW L \in EventLists, NEW cb, NEW period \in Nat,
           PendingCount(L, cb) = 0, ~(L.count < Size)
    PROVE  /\ Rearmed(L, cb, period) \in EventLists
           /\ Rearmed(L, cb, period).count = L.count
           /\ \A c : PendingCount(Rearmed(L, cb, period), c) = PendingCount(L, c)
<1>1. Removed(L, cb) = L
  BY MatchingFinite DEF Removed
<1>2. Pushed(L, cb, period) = L
  BY DEF Pushed
<1>3. Rearmed(L, cb, period) = Scrubbed(L)
  BY <1>1, <1>2 DEF Rearmed
<1> QED
  BY <1>3, ScrubbedNumbers

-----------------------------------------------------------------------------
(* What each list holds.                                                   *)

MainTimers == {"Halfline", "TOMPIT", "GPUCPUINT"}
JerryTimers == {"JERRYPIT1", "JERRYI2S", "DSPSample"}

\* MAIN, always: at most h halflines, at most one PIT event and none of a PIT whose
\* period pit is off, GPU interrupts, and nothing else.
MainSane(L, pit, h) ==
    /\ L \in EventLists
    /\ PendingCount(L, "Halfline") <= h
    /\ PendingCount(L, "TOMPIT") <= One(pit # 0)
    /\ \A cb \in JerryTimers : PendingCount(L, cb) = 0
    /\ L.count = PendingCount(L, "Halfline") + PendingCount(L, "TOMPIT") + PendingCount(L, "GPUCPUINT")

\* MAIN while the GPU has left room for the two timers: both are there.
MainRight(L, pit, h) ==
    /\ PendingCount(L, "Halfline") = h
    /\ PendingCount(L, "TOMPIT") = One(pit # 0)
    /\ PendingCount(L, "GPUCPUINT") <= Size - 2

\* JERRY: a events of the PIT, b of the I2S clock, at most one of the sample clock
\* and none with n = NumSamples pairs in the buffer, and nothing else.
JerryRight(L, a, b, n) ==
    /\ L \in EventLists
    /\ \A cb \in MainTimers : PendingCount(L, cb) = 0
    /\ PendingCount(L, "JERRYPIT1") = a
    /\ PendingCount(L, "JERRYI2S") = b
    /\ PendingCount(L, "DSPSample") <= 1
    /\ n = NumSamples => PendingCount(L, "DSPSample") = 0
    /\ L.count = a + b + PendingCount(L, "DSPSample")

\* All three look at the numbers alone.
LEMMA RightBySameNumbers ==
    ASSUME NEW L, NEW R \in EventLists, R.count = L.count,
           \A cb : PendingCount(R, cb) = PendingCount(L, cb)
    PROVE  /\ \A pit, h : MainSane(L, pit, h) => MainSane(R, pit, h)
           /\ \A pit, h : MainRight(L, pit, h) => MainRight(R, pit, h)
           /\ \A a, b, n : JerryRight(L, a, b, n) => JerryRight(R, a, b, n)
<1>1. \A pit, h : MainSane(L, pit, h) => MainSane(R, pit, h)
  BY DEF MainSane
<1>2. \A pit, h : MainRight(L, pit, h) => MainRight(R, pit, h)
  BY DEF MainRight
<1>3. \A a, b, n : JerryRight(L, a, b, n) => JerryRight(R, a, b, n)
  BY DEF JerryRight
<1> QED
  BY <1>1, <1>2, <1>3

\* Forgetting the residue keeps them.
LEMMA RightScrubbed ==
    ASSUME NEW L \in EventLists
    PROVE  /\ \A pit, h : MainSane(L, pit, h) => MainSane(Scrubbed(L), pit, h)
           /\ \A pit, h : MainRight(L, pit, h) => MainRight(Scrubbed(L), pit, h)
           /\ \A a, b, n : JerryRight(L, a, b, n) => JerryRight(Scrubbed(L), a, b, n)
<1>1. /\ Scrubbed(L) \in EventLists /\ Scrubbed(L).count = L.count
      /\ \A cb : PendingCount(Scrubbed(L), cb) = PendingCount(L, cb)
  BY ScrubbedNumbers
<1> QED
  BY <1>1, RightBySameNumbers

\* Counting down keeps them too.
LEMMA RightElapsed ==
    ASSUME NEW L \in EventLists, NEW d \in Int
    PROVE  /\ \A pit, h : MainSane(L, pit, h) => MainSane(Scrubbed(Elapsed(L, d)), pit, h)
           /\ \A pit, h : MainRight(L, pit, h) => MainRight(Scrubbed(Elapsed(L, d)), pit, h)
           /\ \A a, b, n : JerryRight(L, a, b, n) => JerryRight(Scrubbed(Elapsed(L, d)), a, b, n)
<1>1. /\ Elapsed(L, d) \in EventLists /\ Elapsed(L, d).count = L.count
      /\ \A cb : PendingCount(Elapsed(L, d), cb) = PendingCount(L, cb)
  BY ElapsedNumbers
<1> DEFINE R == Scrubbed(Elapsed(L, d))
<1>2. /\ R \in EventLists /\ R.count = L.count
      /\ \A cb : PendingCount(R, cb) = PendingCount(L, cb)
  BY <1>1, ScrubbedNumbers
<1> HIDE DEF R
<1>3. /\ \A pit, h : MainSane(L, pit, h) => MainSane(R, pit, h)
      /\ \A pit, h : MainRight(L, pit, h) => MainRight(R, pit, h)
      /\ \A a, b, n : JerryRight(L, a, b, n) => JerryRight(R, a, b, n)
  BY <1>2, RightBySameNumbers
<1> QED
  BY <1>3 DEF R

\* The names are six callbacks, pairwise different.
LEMMA Names ==
    /\ MainTimers \subseteq Callbacks /\ JerryTimers \subseteq Callbacks
    /\ Callbacks = MainTimers \cup JerryTimers
BY TimerNames DEF MainTimers, JerryTimers

\* JaguarReset leaves both lists right, with or without the boot ROM.
LEMMA ResetRight ==
    ASSUME Room, NEW bios \in BOOLEAN
    PROVE  /\ ResetLists(bios) \in [Lists -> EventLists]
           /\ MainSane(ResetLists(bios)["MAIN"], 0, 1)
           /\ MainRight(ResetLists(bios)["MAIN"], 0, 1)
           /\ \A n : JerryRight(ResetLists(bios)["JERRY"], 0, IF bios THEN 0 ELSE 1, n)
<1>1. /\ ZeroList \in EventLists /\ ZeroList.count = 0
      /\ \A cb : PendingCount(ZeroList, cb) = 0
  <2>1. ZeroList \in EventLists /\ ZeroList.count = 0
    BY SizeAssumption DEF ZeroList, EventLists, Slots, Slot
  <2>2. \A cb : Matching(ZeroList, cb) = {}
    BY <2>1 DEF Matching, Scanned
  <2> QED
    BY <2>1, <2>2, MatchingFinite
<1> DEFINE Armed(cb, t) == Scrubbed(Pushed(ZeroList, cb, t))
<1>2. ASSUME NEW cb \in Callbacks, NEW t \in Int
      PROVE  /\ Armed(cb, t) \in EventLists /\ Armed(cb, t).count = 1
             /\ \A c : PendingCount(Armed(cb, t), c) = One(c = cb)
  <2>1. /\ Pushed(ZeroList, cb, t) \in EventLists
        /\ Pushed(ZeroList, cb, t).count = 1
        /\ \A c : PendingCount(Pushed(ZeroList, cb, t), c) = One(c = cb)
    <3>1. /\ Pushed(ZeroList, cb, t) \in EventLists
          /\ Pushed(ZeroList, cb, t).count = 0 + 1
          /\ \A c : PendingCount(Pushed(ZeroList, cb, t), c) = 0 + One(c = cb)
      BY <1>1, PushedNumbers, SizeAssumption
    <3> QED
      BY <3>1 DEF One
  <2> QED
    BY <2>1, ScrubbedNumbers
<1> HIDE DEF Armed
<1>3. ResetLists(bios)["MAIN"] = Armed("Halfline", HalflinePeriod)
  BY DEF ResetLists, Lists, Armed
<1>4. ResetLists(bios)["JERRY"] = IF bios THEN ZeroList ELSE Armed("JERRYI2S", DefaultI2S)
  BY DEF ResetLists, Lists, Armed
<1>5. /\ "Halfline" \in Callbacks /\ "JERRYI2S" \in Callbacks
      /\ HalflinePeriod \in Int /\ DefaultI2S \in Int
  BY TimerNames, PeriodAssumption, ResetAssumption
<1> DEFINE H == Armed("Halfline", HalflinePeriod)
           I == Armed("JERRYI2S", DefaultI2S)
<1>6. /\ H \in EventLists /\ H.count = 1 /\ \A c : PendingCount(H, c) = One(c = "Halfline")
      /\ I \in EventLists /\ I.count = 1 /\ \A c : PendingCount(I, c) = One(c = "JERRYI2S")
  BY <1>2, <1>5
<1> HIDE DEF H, I
<1>7. MainSane(H, 0, 1) /\ MainRight(H, 0, 1)
  BY <1>6, SizeAssumption DEF MainSane, MainRight, One, JerryTimers, Room
<1>8. ASSUME NEW n PROVE JerryRight(I, 0, 1, n) /\ JerryRight(ZeroList, 0, 0, n)
  BY <1>1, <1>6 DEF JerryRight, One, JerryTimers, MainTimers
<1>9. ResetLists(bios) \in [Lists -> EventLists]
  <2>1. DOMAIN ResetLists(bios) = Lists /\ ResetLists(bios) = [l \in Lists |-> ResetLists(bios)[l]]
    BY DEF ResetLists
  <2>2. \A l \in Lists : ResetLists(bios)[l] \in EventLists
    BY <1>1, <1>3, <1>4, <1>6 DEF Lists, H, I
  <2> QED
    BY <2>1, <2>2
<1> QED
  BY <1>3, <1>4, <1>7, <1>8, <1>9 DEF H, I

\* Numbers are naturals; JERRY always has room, and MAIN has while it is right.
LEMMA RightNumbers ==
    ASSUME Room, NEW L, L \in EventLists
    PROVE  /\ L.count \in Nat /\ Size \in Nat /\ L.count <= Size
           /\ \A cb : PendingCount(L, cb) \in Nat
           /\ \A pit, h : MainSane(L, pit, h) /\ MainRight(L, pit, h) => L.count <= Size - 2 + h + One(pit # 0)
           /\ \A a, b, n : JerryRight(L, a, b, n) => a \in Nat /\ b \in Nat
<1>1. L.count \in Nat /\ Size \in Nat /\ L.count <= Size /\ \A cb : PendingCount(L, cb) \in Nat
  BY MatchingFinite, SizeAssumption
<1>2. ASSUME NEW pit, NEW h, MainSane(L, pit, h), MainRight(L, pit, h)
      PROVE  L.count <= Size - 2 + h + One(pit # 0)
  <2>1. h \in Nat /\ One(pit # 0) \in Nat
    BY <1>1, <1>2 DEF MainRight
  <2> QED
    BY <1>1, <1>2, <2>1 DEF MainSane, MainRight
<1>3. ASSUME NEW a, NEW b, NEW n, JerryRight(L, a, b, n) PROVE a \in Nat /\ b \in Nat
  BY <1>1, <1>3 DEF JerryRight
<1> QED
  BY <1>1, <1>2, <1>3

\* TOMResetPIT, whatever the old and the new period and however full the list.
LEMMA MainRearmed ==
    ASSUME Room, NEW L, NEW q, NEW h \in {0, 1}, MainSane(L, q, h), NEW p \in Nat
    PROVE  /\ MainSane(Rearmed(L, "TOMPIT", p), p, h)
           /\ MainRight(L, q, h) => MainRight(Rearmed(L, "TOMPIT", p), p, h)
<1> DEFINE R == Rearmed(L, "TOMPIT", p)
<1>1. L \in EventLists /\ "TOMPIT" \in Callbacks
  BY Names DEF MainSane, MainTimers
<1>2. /\ L.count \in Nat /\ Size \in Nat /\ L.count <= Size
      /\ \A cb : PendingCount(L, cb) \in Nat
  BY <1>1, RightNumbers
<1>3. PendingCount(L, "TOMPIT") <= 1
  BY <1>2 DEF MainSane, One
<1>4. CASE L.count - PendingCount(L, "TOMPIT") < Size
  <2>1. /\ R \in EventLists
        /\ R.count = L.count - PendingCount(L, "TOMPIT") + One(p # 0)
        /\ PendingCount(R, "TOMPIT") = One(p # 0)
        /\ \A c : c # "TOMPIT" => PendingCount(R, c) = PendingCount(L, c)
    BY <1>1, <1>3, <1>4, RearmedNumbers
  <2> HIDE DEF R
  <2>2. MainSane(R, p, h)
    <3>1. One(p # 0) \in Nat
      BY DEF One
    <3> QED
      BY <1>2, <2>1, <3>1 DEF MainSane, JerryTimers
  <2>3. MainRight(L, q, h) => MainRight(R, p, h)
    BY <2>1 DEF MainRight
  <2> QED
    BY <2>2, <2>3 DEF R
<1>5. CASE ~(L.count - PendingCount(L, "TOMPIT") < Size)
  <2>1. PendingCount(L, "TOMPIT") = 0 /\ L.count = Size
    BY <1>2, <1>3, <1>5
  <2>2. /\ R \in EventLists /\ R.count = L.count
        /\ \A c : PendingCount(R, c) = PendingCount(L, c)
    BY <1>1, <1>2, <2>1, RearmedFull
  <2> HIDE DEF R
  <2>3. MainSane(R, p, h)
    <3>1. One(p # 0) \in Nat
      BY DEF One
    <3> QED
      BY <1>2, <2>1, <2>2, <3>1 DEF MainSane
  <2>4. ~MainRight(L, q, h)
    <3>1. SUFFICES ASSUME MainRight(L, q, h) PROVE FALSE
      OBVIOUS
    <3>2. L.count = PendingCount(L, "Halfline") + 0 + PendingCount(L, "GPUCPUINT")
      BY <2>1 DEF MainSane
    <3>3. PendingCount(L, "Halfline") <= 1 /\ PendingCount(L, "GPUCPUINT") <= Size - 2
      BY <3>1 DEF MainRight
    <3> QED
      BY <1>2, <2>1, <3>2, <3>3
  <2> QED
    BY <2>3, <2>4 DEF R
<1> QED
  BY <1>4, <1>5

\* A GPU interrupt: queued, or dropped at a full list.  It leaves room for the
\* timers while fewer than Size - 2 others are queued.
LEMMA MainRaised ==
    ASSUME Room, NEW L, NEW pit, NEW h, MainSane(L, pit, h), NEW t \in Int
    PROVE  /\ MainSane(Scrubbed(Pushed(L, "GPUCPUINT", t)), pit, h)
           /\ MainRight(L, pit, h) /\ ~(PendingCount(L, "GPUCPUINT") > Size - 3)
                => MainRight(Scrubbed(Pushed(L, "GPUCPUINT", t)), pit, h)
<1> DEFINE R == Pushed(L, "GPUCPUINT", t)
<1>1. L \in EventLists /\ "GPUCPUINT" \in Callbacks
  BY Names DEF MainSane, MainTimers
<1>2. /\ L.count \in Nat /\ Size \in Nat
      /\ \A cb : PendingCount(L, cb) \in Nat
  BY <1>1, RightNumbers
<1>3. CASE L.count < Size
  <2>1. /\ R \in EventLists /\ R.count = L.count + 1
        /\ \A c : PendingCount(R, c) = PendingCount(L, c) + One(c = "GPUCPUINT")
    BY <1>1, <1>3, PushedNumbers
  <2> HIDE DEF R
  <2>2. PendingCount(R, "GPUCPUINT") = PendingCount(L, "GPUCPUINT") + 1
    BY <2>1 DEF One
  <2>3. ASSUME NEW c, c # "GPUCPUINT" PROVE PendingCount(R, c) = PendingCount(L, c)
    <3>1. One(c = "GPUCPUINT") = 0
      BY <2>3 DEF One
    <3> QED
      BY <1>2, <2>1, <3>1
  <2>4. MainSane(R, pit, h)
    BY <1>2, <2>1, <2>2, <2>3 DEF MainSane, JerryTimers
  <2>5. MainRight(L, pit, h) /\ ~(PendingCount(L, "GPUCPUINT") > Size - 3) => MainRight(R, pit, h)
    BY <1>2, <2>2, <2>3 DEF MainRight
  <2> QED
    BY <2>1, <2>4, <2>5, RightScrubbed DEF R
<1>4. CASE ~(L.count < Size)
  <2>1. R = L
    BY <1>4 DEF Pushed
  <2> QED
    BY <1>1, <2>1, RightScrubbed
<1> QED
  BY <1>3, <1>4

\* HandleNextEvent takes one event, on MAIN never one of JERRY's timers and the
\* other way round.
LEMMA RightDispatched ==
    ASSUME NEW L \in EventLists, L.count > 0
    PROVE  LET D == Dispatched(L)
               n == NextCallback(L)
           IN  /\ \A pit, h : MainSane(L, pit, h) => n \notin JerryTimers
               /\ \A a, b, k : JerryRight(L, a, b, k) => n \notin MainTimers
               /\ D \in EventLists /\ D.count = L.count - 1
               /\ PendingCount(L, n) > 0
               /\ PendingCount(D, n) = PendingCount(L, n) - 1
               /\ \A c : c # n => PendingCount(D, c) = PendingCount(L, c)
<1> DEFINE D == Dispatched(L)
           n == NextCallback(L)
<1>1. /\ D \in EventLists /\ D.count = L.count - 1
      /\ \A c : /\ PendingCount(D, c) = PendingCount(L, c) - One(c = n)
                /\ c = n => PendingCount(L, c) > 0
  BY DispatchedNumbers
<1>2. \A c : PendingCount(L, c) \in Nat
  BY MatchingFinite
<1> HIDE DEF D, n
<1>3. PendingCount(D, n) = PendingCount(L, n) - 1
  BY <1>1 DEF One
<1>4. ASSUME NEW c, c # n PROVE PendingCount(D, c) = PendingCount(L, c)
  <2>1. One(c = n) = 0
    BY <1>4 DEF One
  <2> QED
    BY <1>1, <1>2, <2>1
<1>5. PendingCount(L, n) > 0
  BY <1>1
<1>6. \A pit, h : MainSane(L, pit, h) => n \notin JerryTimers
  BY <1>5 DEF MainSane
<1>7. \A a, b, k : JerryRight(L, a, b, k) => n \notin MainTimers
  BY <1>5 DEF JerryRight
<1> QED
  BY <1>1, <1>3, <1>4, <1>5, <1>6, <1>7 DEF D, n

\* HalflineCallback runs with its event taken out.
LEMMA MainHalfline ==
    ASSUME Room, NEW L, L.count > 0, NEW pit, MainSane(L, pit, 1), NextCallback(L) = "Halfline"
    PROVE  /\ MainSane(Scrubbed(Dispatched(L)), pit, 0)
           /\ MainRight(L, pit, 1) => MainRight(Scrubbed(Dispatched(L)), pit, 0)
<1> DEFINE D == Dispatched(L)
<1>1. /\ L \in EventLists /\ L.count \in Nat
      /\ \A c : PendingCount(L, c) \in Nat
  BY RightNumbers DEF MainSane
<1>2. /\ D \in EventLists /\ D.count = L.count - 1
      /\ PendingCount(L, "Halfline") > 0
      /\ PendingCount(D, "Halfline") = PendingCount(L, "Halfline") - 1
      /\ \A c : c # "Halfline" => PendingCount(D, c) = PendingCount(L, c)
  BY <1>1, RightDispatched
<1> HIDE DEF D
<1>3. MainSane(D, pit, 0)
  BY <1>1, <1>2 DEF MainSane, JerryTimers
<1>4. MainRight(L, pit, 1) => MainRight(D, pit, 0)
  BY <1>2 DEF MainRight
<1> QED
  BY <1>2, <1>3, <1>4, RightScrubbed DEF D

\* ... and puts it back at its end, unless the list has been filled meanwhile.
LEMMA MainHalflineBack ==
    ASSUME Room, NEW L, NEW pit, MainSane(L, pit, 0)
    PROVE  /\ MainSane(Scrubbed(Pushed(L, "Halfline", HalflinePeriod)), pit, 1)
           /\ MainRight(L, pit, 0) => MainRight(Scrubbed(Pushed(L, "Halfline", HalflinePeriod)), pit, 1)
<1> DEFINE R == Pushed(L, "Halfline", HalflinePeriod)
<1>1. L \in EventLists /\ "Halfline" \in Callbacks /\ HalflinePeriod \in Int
  BY Names, PeriodAssumption DEF MainSane, MainTimers
<1>2. /\ L.count \in Nat /\ Size \in Nat
      /\ \A c : PendingCount(L, c) \in Nat
      /\ MainRight(L, pit, 0) => L.count <= Size - 2 + 0 + One(pit # 0)
  BY <1>1, RightNumbers
<1>3. PendingCount(L, "Halfline") = 0
  BY <1>2 DEF MainSane
<1>4. CASE L.count < Size
  <2>1. /\ R \in EventLists /\ R.count = L.count + 1
        /\ \A c : PendingCount(R, c) = PendingCount(L, c) + One(c = "Halfline")
    BY <1>1, <1>4, PushedNumbers
  <2> HIDE DEF R
  <2>2. PendingCount(R, "Halfline") = 1
    BY <1>3, <2>1 DEF One
  <2>3. ASSUME NEW c, c # "Halfline" PROVE PendingCount(R, c) = PendingCount(L, c)
    <3>1. One(c = "Halfline") = 0
      BY <2>3 DEF One
    <3> QED
      BY <1>2, <2>1, <3>1
  <2>4. MainSane(R, pit, 1)
    BY <1>2, <1>3, <2>1, <2>2, <2>3 DEF MainSane, JerryTimers
  <2>5. MainRight(L, pit, 0) => MainRight(R, pit, 1)
    BY <2>2, <2>3 DEF MainRight
  <2> QED
    BY <2>1, <2>4, <2>5, RightScrubbed DEF R
<1>5. CASE ~(L.count < Size)
  <2>1. R = L
    BY <1>5 DEF Pushed
  <2>2. MainSane(L, pit, 1)
    BY <1>3 DEF MainSane
  <2>3. ~MainRight(L, pit, 0)
    BY <1>2, <1>5 DEF One
  <2> QED
    BY <1>1, <2>1, <2>2, <2>3, RightScrubbed
<1> QED
  BY <1>4, <1>5

\* TOMPITCallback arms the PIT again with the period the registers hold: the event
\* it was called for has left it a slot.
LEMMA MainPit ==
    ASSUME Room, NEW L, L.count > 0, NEW pit \in Nat, MainSane(L, pit, 1), NextCallback(L) = "TOMPIT"
    PROVE  /\ MainSane(Scrubbed(Rearmed(Dispatched(L), "TOMPIT", pit)), pit, 1)
           /\ MainRight(L, pit, 1) => MainRight(Scrubbed(Rearmed(Dispatched(L), "TOMPIT", pit)), pit, 1)
<1> DEFINE D == Dispatched(L)
           R == Rearmed(D, "TOMPIT", pit)
<1>1. /\ L \in EventLists /\ L.count \in Nat /\ Size \in Nat /\ L.count <= Size
      /\ \A cb : PendingCount(L, cb) \in Nat
  BY RightNumbers DEF MainSane
<1>2. /\ D \in EventLists /\ D.count = L.count - 1
      /\ PendingCount(L, "TOMPIT") > 0
      /\ PendingCount(D, "TOMPIT") = PendingCount(L, "TOMPIT") - 1
      /\ \A c : c # "TOMPIT" => PendingCount(D, c) = PendingCount(L, c)
  BY <1>1, RightDispatched
<1> HIDE DEF D
<1>3. PendingCount(D, "TOMPIT") = 0 /\ pit # 0 /\ PendingCount(L, "TOMPIT") = 1
  BY <1>1, <1>2 DEF MainSane, One
<1>4. "TOMPIT" \in Callbacks /\ D.count - PendingCount(D, "TOMPIT") < Size
  BY <1>1, <1>2, <1>3, Names DEF MainTimers
<1>5. /\ R \in EventLists
      /\ R.count = D.count - PendingCount(D, "TOMPIT") + One(pit # 0)
      /\ PendingCount(R, "TOMPIT") = One(pit # 0)
      /\ \A c : c # "TOMPIT" => PendingCount(R, c) = PendingCount(D, c)
  BY <1>2, <1>3, <1>4, RearmedNumbers
<1> HIDE DEF R
<1>6. MainSane(R, pit, 1)
  BY <1>1, <1>2, <1>3, <1>5 DEF MainSane, One, JerryTimers
<1>7. MainRight(L, pit, 1) => MainRight(R, pit, 1)
  BY <1>2, <1>5 DEF MainRight
<1> QED
  BY <1>5, <1>6, <1>7, RightScrubbed DEF R, D

\* GPUCPUINTCallback only takes the interrupt.
LEMMA MainCpuInt ==
    ASSUME Room, NEW L, L.count > 0, NEW pit, MainSane(L, pit, 1), NextCallback(L) = "GPUCPUINT"
    PROVE  /\ MainSane(Scrubbed(Dispatched(L)), pit, 1)
           /\ MainRight(L, pit, 1) => MainRight(Scrubbed(Dispatched(L)), pit, 1)
<1> DEFINE D == Dispatched(L)
<1>1. /\ L \in EventLists /\ L.count \in Nat /\ Size \in Nat
      /\ \A cb : PendingCount(L, cb) \in Nat
  BY RightNumbers DEF MainSane
<1>2. /\ D \in EventLists /\ D.count = L.count - 1
      /\ PendingCount(D, "GPUCPUINT") = PendingCount(L, "GPUCPUINT") - 1
      /\ \A c : c # "GPUCPUINT" => PendingCount(D, c) = PendingCount(L, c)
  BY <1>1, RightDispatched
<1> HIDE DEF D
<1>3. MainSane(D, pit, 1)
  BY <1>1, <1>2 DEF MainSane, JerryTimers
<1>4. MainRight(L, pit, 1) => MainRight(D, pit, 1)
  BY <1>1, <1>2 DEF MainRight
<1> QED
  BY <1>2, <1>3, <1>4, RightScrubbed DEF D

\* A JERRY list is right by what its three numbers are.
LEMMA JerryByNumbers ==
    ASSUME Room, NEW L \in EventLists, NEW a, NEW b, NEW n, JerryRight(L, a, b, n),
           a \in {0, 1}, b \in {0, 1}
    PROVE  /\ L.count \in Nat /\ Size \in Nat /\ L.count <= 3
           /\ \A c : PendingCount(L, c) \in Nat
           /\ \A cb \in JerryTimers : /\ cb \in Callbacks /\ PendingCount(L, cb) <= 1
                                      /\ L.count - PendingCount(L, cb) < Size
<1>1. L.count \in Nat /\ Size \in Nat /\ \A c : PendingCount(L, c) \in Nat
  BY RightNumbers
<1>2. /\ PendingCount(L, "JERRYPIT1") = a /\ PendingCount(L, "JERRYI2S") = b
      /\ PendingCount(L, "DSPSample") \in {0, 1} /\ L.count = a + b + PendingCount(L, "DSPSample")
  BY <1>1 DEF JerryRight
<1>3. L.count <= 3 /\ \A cb \in JerryTimers : PendingCount(L, cb) <= 1 /\ L.count - PendingCount(L, cb) <= 2
  BY <1>2 DEF JerryTimers
<1> QED
  BY <1>1, <1>3, Names DEF Room

\* The JERRY PIT, its I2S clock and the sample event are armed again by Remove and
\* Set; arming the PIT with p or the sample event leaves what n says true.
LEMMA JerryRearmed ==
    ASSUME Room, NEW L, NEW a \in {0, 1}, NEW b \in {0, 1}, NEW n, JerryRight(L, a, b, n), NEW p \in Nat
    PROVE  /\ JerryRight(Rearmed(L, "JERRYPIT1", p), One(p # 0), b, n)
           /\ p # 0 => JerryRight(Rearmed(L, "JERRYI2S", p), a, 1, n)
           /\ \A m : m # NumSamples => JerryRight(Rearmed(L, "DSPSample", p), a, b, m)
<1>0. L \in EventLists
  BY DEF JerryRight
<1>1. /\ L.count \in Nat /\ Size \in Nat
      /\ \A c : PendingCount(L, c) \in Nat
      /\ \A cb \in JerryTimers : /\ cb \in Callbacks /\ PendingCount(L, cb) <= 1
                                 /\ L.count - PendingCount(L, cb) < Size
  BY <1>0, JerryByNumbers
<1>2. ASSUME NEW cb \in JerryTimers
      PROVE  /\ Rearmed(L, cb, p) \in EventLists
             /\ Rearmed(L, cb, p).count = L.count - PendingCount(L, cb) + One(p # 0)
             /\ PendingCount(Rearmed(L, cb, p), cb) = One(p # 0)
             /\ \A c : c # cb => PendingCount(Rearmed(L, cb, p), c) = PendingCount(L, c)
  BY <1>0, <1>1, RearmedNumbers
<1>3. One(p # 0) \in {0, 1} /\ (p # 0 => One(p # 0) = 1)
  BY DEF One
<1>4. /\ PendingCount(L, "JERRYPIT1") = a /\ PendingCount(L, "JERRYI2S") = b
      /\ PendingCount(L, "DSPSample") \in {0, 1} /\ L.count = a + b + PendingCount(L, "DSPSample")
  BY <1>1 DEF JerryRight
<1>5. JerryRight(Rearmed(L, "JERRYPIT1", p), One(p # 0), b, n)
  <2> DEFINE S == Rearmed(L, "JERRYPIT1", p)
  <2>1. /\ S \in EventLists /\ S.count = L.count - a + One(p # 0)
        /\ PendingCount(S, "JERRYPIT1") = One(p # 0)
        /\ \A c : c # "JERRYPIT1" => PendingCount(S, c) = PendingCount(L, c)
    BY <1>2, <1>4 DEF JerryTimers
  <2> HIDE DEF S
  <2>2. S.count = One(p # 0) + b + PendingCount(S, "DSPSample")
    <3>1. PendingCount(S, "DSPSample") = PendingCount(L, "DSPSample")
      BY <2>1
    <3> DEFINE k == One(p # 0)
               m == PendingCount(L, "DSPSample")
    <3>2. k \in {0, 1} /\ m \in {0, 1} /\ S.count = a + b + m - a + k
      BY <1>3, <1>4, <2>1
    <3> HIDE DEF k, m
    <3>3. S.count = k + b + m
      BY <3>2
    <3> QED
      BY <3>1, <3>3 DEF k, m
  <2> QED
    BY <2>1, <2>2 DEF JerryRight, MainTimers, S
<1>6. ASSUME p # 0 PROVE JerryRight(Rearmed(L, "JERRYI2S", p), a, 1, n)
  <2> DEFINE S == Rearmed(L, "JERRYI2S", p)
  <2>1. /\ S \in EventLists /\ S.count = L.count - b + 1
        /\ PendingCount(S, "JERRYI2S") = 1
        /\ \A c : c # "JERRYI2S" => PendingCount(S, c) = PendingCount(L, c)
    BY <1>2, <1>3, <1>4, <1>6 DEF JerryTimers
  <2> HIDE DEF S
  <2>2. S.count = a + 1 + PendingCount(S, "DSPSample")
    <3>1. PendingCount(S, "DSPSample") = PendingCount(L, "DSPSample")
      BY <2>1
    <3> DEFINE m == PendingCount(L, "DSPSample")
    <3>2. m \in {0, 1} /\ S.count = a + b + m - b + 1
      BY <1>4, <2>1
    <3> HIDE DEF m
    <3>3. S.count = a + 1 + m
      BY <3>2
    <3> QED
      BY <3>1, <3>3 DEF m
  <2> QED
    BY <2>1, <2>2 DEF JerryRight, MainTimers, S
<1>7. ASSUME NEW m, m # NumSamples PROVE JerryRight(Rearmed(L, "DSPSample", p), a, b, m)
  <2> DEFINE S == Rearmed(L, "DSPSample", p)
  <2>1. /\ S \in EventLists /\ S.count = L.count - PendingCount(L, "DSPSample") + One(p # 0)
        /\ PendingCount(S, "DSPSample") = One(p # 0)
        /\ \A c : c # "DSPSample" => PendingCount(S, c) = PendingCount(L, c)
    BY <1>2 DEF JerryTimers
  <2> HIDE DEF S
  <2>2. S.count = a + b + PendingCount(S, "DSPSample") /\ PendingCount(S, "DSPSample") <= 1
    BY <1>3, <1>4, <2>1
  <2> QED
    BY <1>7, <2>1, <2>2 DEF JerryRight, MainTimers, S
<1> QED
  BY <1>5, <1>6, <1>7

\* What is left after a dispatch on JERRY: right, short of the event that was taken.
LEMMA JerryTaken ==
    ASSUME Room, NEW L, L.count > 0, NEW a \in {0, 1}, NEW b \in {0, 1}, NEW n, JerryRight(L, a, b, n)
    PROVE  LET D == Dispatched(L)
           IN  /\ NextCallback(L) = "JERRYPIT1" => a = 1 /\ JerryRight(D, 0, b, n)
               /\ NextCallback(L) = "JERRYI2S" => b = 1 /\ JerryRight(D, a, 0, n)
               /\ NextCallback(L) = "DSPSample" => /\ n # NumSamples /\ PendingCount(D, "DSPSample") = 0
                                                   /\ \A m : JerryRight(D, a, b, m)
<1> DEFINE D == Dispatched(L)
           k == NextCallback(L)
<1>1. L \in EventLists
  BY DEF JerryRight
<1>2. \A c : PendingCount(L, c) \in Nat
  BY <1>1, RightNumbers
<1>3. /\ PendingCount(L, "JERRYPIT1") = a /\ PendingCount(L, "JERRYI2S") = b
      /\ PendingCount(L, "DSPSample") \in {0, 1} /\ L.count = a + b + PendingCount(L, "DSPSample")
  BY <1>2 DEF JerryRight
<1>4. /\ D \in EventLists /\ D.count = L.count - 1
      /\ PendingCount(L, k) > 0
      /\ PendingCount(D, k) = PendingCount(L, k) - 1
      /\ \A c : c # k => PendingCount(D, c) = PendingCount(L, c)
  BY <1>1, RightDispatched
<1> HIDE DEF D, k
<1>5. ASSUME k = "JERRYPIT1" PROVE a = 1 /\ JerryRight(D, 0, b, n)
  <2>1. a = 1 /\ PendingCount(D, "JERRYPIT1") = 0 /\ D.count = 0 + b + PendingCount(D, "DSPSample")
    BY <1>3, <1>4, <1>5
  <2> QED
    BY <1>4, <1>5, <2>1 DEF JerryRight, MainTimers
<1>6. ASSUME k = "JERRYI2S" PROVE b = 1 /\ JerryRight(D, a, 0, n)
  <2>1. b = 1 /\ PendingCount(D, "JERRYI2S") = 0 /\ D.count = a + 0 + PendingCount(D, "DSPSample")
    BY <1>3, <1>4, <1>6
  <2> QED
    BY <1>4, <1>6, <2>1 DEF JerryRight, MainTimers
<1>7. ASSUME k = "DSPSample"
      PROVE  n # NumSamples /\ PendingCount(D, "DSPSample") = 0 /\ \A m : JerryRight(D, a, b, m)
  <2>1. PendingCount(D, "DSPSample") = 0 /\ D.count = a + b + PendingCount(D, "DSPSample")
    BY <1>3, <1>4, <1>7
  <2>2. n # NumSamples
    BY <1>4, <1>7 DEF JerryRight
  <2> QED
    BY <1>4, <1>7, <2>1, <2>2 DEF JerryRight, MainTimers
<1> QED
  BY <1>5, <1>6, <1>7 DEF D, k

\* SetCallbackTime on JERRY for a timer with no event queued.
LEMMA JerryPushed ==
    ASSUME Room, NEW L, NEW a \in {0, 1}, NEW b \in {0, 1}, NEW n, JerryRight(L, a, b, n), NEW t \in Int
    PROVE  /\ b = 0 => JerryRight(Pushed(L, "JERRYI2S", t), a, 1, n)
           /\ PendingCount(L, "DSPSample") = 0 /\ n # NumSamples => JerryRight(Pushed(L, "DSPSample", t), a, b, n)
<1>0. L \in EventLists
  BY DEF JerryRight
<1>1. /\ L.count \in Nat /\ Size \in Nat
      /\ \A c : PendingCount(L, c) \in Nat
      /\ \A cb \in JerryTimers : /\ cb \in Callbacks
                                 /\ L.count - PendingCount(L, cb) < Size
  BY <1>0, JerryByNumbers
<1>2. /\ PendingCount(L, "JERRYPIT1") = a /\ PendingCount(L, "JERRYI2S") = b
      /\ PendingCount(L, "DSPSample") \in {0, 1} /\ L.count = a + b + PendingCount(L, "DSPSample")
  BY <1>1 DEF JerryRight
<1>3. ASSUME NEW cb \in JerryTimers, PendingCount(L, cb) = 0
      PROVE  /\ Pushed(L, cb, t) \in EventLists
             /\ Pushed(L, cb, t).count = L.count + 1
             /\ PendingCount(Pushed(L, cb, t), cb) = 1
             /\ \A c : c # cb => PendingCount(Pushed(L, cb, t), c) = PendingCount(L, c)
  <2> DEFINE R == Pushed(L, cb, t)
  <2>1. /\ R \in EventLists /\ R.count = L.count + 1
        /\ \A c : PendingCount(R, c) = PendingCount(L, c) + One(c = cb)
    BY <1>0, <1>1, <1>3, PushedNumbers
  <2> HIDE DEF R
  <2>2. PendingCount(R, cb) = 1
    BY <1>3, <2>1 DEF One
  <2>3. ASSUME NEW c, c # cb PROVE PendingCount(R, c) = PendingCount(L, c)
    <3>1. One(c = cb) = 0
      BY <2>3 DEF One
    <3> QED
      BY <1>1, <2>1, <3>1
  <2> QED
    BY <2>1, <2>2, <2>3 DEF R
<1>4. ASSUME b = 0 PROVE JerryRight(Pushed(L, "JERRYI2S", t), a, 1, n)
  <2> DEFINE R == Pushed(L, "JERRYI2S", t)
  <2>1. /\ R \in EventLists /\ R.count = L.count + 1 /\ PendingCount(R, "JERRYI2S") = 1
        /\ \A c : c # "JERRYI2S" => PendingCount(R, c) = PendingCount(L, c)
    BY <1>2, <1>3, <1>4 DEF JerryTimers
  <2> HIDE DEF R
  <2>2. R.count = a + 1 + PendingCount(R, "DSPSample")
    BY <1>2, <1>4, <2>1
  <2> QED
    BY <2>1, <2>2 DEF JerryRight, MainTimers, R
<1>5. ASSUME PendingCount(L, "DSPSample") = 0, n # NumSamples
      PROVE  JerryRight(Pushed(L, "DSPSample", t), a, b, n)
  <2> DEFINE R == Pushed(L, "DSPSample", t)
  <2>1. /\ R \in EventLists /\ R.count = L.count + 1 /\ PendingCount(R, "DSPSample") = 1
        /\ \A c : c # "DSPSample" => PendingCount(R, c) = PendingCount(L, c)
    BY <1>3, <1>5 DEF JerryTimers
  <2> HIDE DEF R
  <2>2. R.count = a + b + PendingCount(R, "DSPSample")
    BY <1>2, <1>5, <2>1
  <2> QED
    BY <1>5, <2>1, <2>2 DEF JerryRight, MainTimers, R
<1> QED
  BY <1>4, <1>5

-----------------------------------------------------------------------------
(* The invariant and its steps. *)

\* How many events of each timer the registers and the phase call for.
HalflineWant == One(phase # "halfline")
PitWant == One("JERRYPIT1" \in programmed /\ jerryPit # 0)
I2sWant == One("JERRYI2S" \in programmed)

ListsRight ==
    /\ list \in [Lists -> EventLists]
    /\ MainSane(list["MAIN"], tomPit, HalflineWant)
    /\ ~flooded => MainRight(list["MAIN"], tomPit, HalflineWant)
    /\ JerryRight(list["JERRY"], PitWant, I2sWant, samples)

IInv == TypeOK /\ ListsRight

\* The numbers called for are 0 or 1.
LEMMA Wanted ==
    /\ HalflineWant \in {0, 1} /\ PitWant \in {0, 1} /\ I2sWant \in {0, 1}
    /\ HalflineWant' \in {0, 1} /\ PitWant' \in {0, 1} /\ I2sWant' \in {0, 1}
    /\ phase # "halfline" => HalflineWant = 1
    /\ phase = "halfline" => HalflineWant = 0
    /\ phase' # "halfline" => HalflineWant' = 1
    /\ phase' = "halfline" => HalflineWant' = 0
BY DEF HalflineWant, PitWant, I2sWant, One

\* At a dispatch of cb the winner is the list cb is used on.
LEMMA WinnerOf ==
    ASSUME IInv, NEW cb \in MainTimers \cup JerryTimers, Dispatches(cb)
    PROVE  /\ winner = IF cb \in MainTimers THEN "MAIN" ELSE "JERRY"
           /\ list[winner].count > 0 /\ NextCallback(list[winner]) = cb
           /\ phase = "guest" /\ HalflineWant = 1
<1>1. /\ winner \in Lists /\ list[winner] \in EventLists
      /\ NextCallback(list[winner]) = cb /\ list[winner].count > 0
  BY DEF IInv, TypeOK, Dispatches
<1>2. /\ winner = "MAIN" => cb \notin JerryTimers
      /\ winner = "JERRY" => cb \notin MainTimers
  BY <1>1, RightDispatched DEF IInv, ListsRight
<1>3. phase = "guest" /\ HalflineWant = 1
  BY Wanted DEF Dispatches, SliceDone
<1> QED
  BY <1>1, <1>2, <1>3 DEF Lists, MainTimers, JerryTimers

\* What a dispatch leaves when the winner's list is set to S.
LEMMA Settled ==
    ASSUME IInv, NEW S, NEW left, Settle(S, left), tomPit' = tomPit, jerryPit' = jerryPit,
           winner = "MAIN" => /\ MainSane(Scrubbed(S), tomPit, HalflineWant')
                              /\ ~flooded => MainRight(Scrubbed(S), tomPit, HalflineWant')
                              /\ samples' = samples,
           winner = "JERRY" => /\ JerryRight(Scrubbed(S), PitWant, I2sWant, samples')
                               /\ HalflineWant' = HalflineWant
    PROVE  ListsRight'
<1>1. /\ winner \in Lists /\ timeDelta \in Int
      /\ \A l \in Lists : list[l] \in EventLists
      /\ "MAIN" \in Lists /\ "JERRY" \in Lists
  BY DEF IInv, TypeOK, Lists
<1>2. /\ list' = [l \in Lists |-> Scrubbed(IF l = winner THEN S ELSE Elapsed(list[l], timeDelta))]
      /\ programmed' = programmed /\ flooded' = flooded
  BY DEF Settle, since
<1>3. /\ list'["MAIN"] = IF winner = "MAIN" THEN Scrubbed(S) ELSE Scrubbed(Elapsed(list["MAIN"], timeDelta))
      /\ list'["JERRY"] = IF winner = "JERRY" THEN Scrubbed(S) ELSE Scrubbed(Elapsed(list["JERRY"], timeDelta))
  BY <1>1, <1>2
<1>4. PitWant' = PitWant /\ I2sWant' = I2sWant
  BY <1>2 DEF PitWant, I2sWant
<1>5. /\ MainSane(list'["MAIN"], tomPit', HalflineWant')
      /\ ~flooded' => MainRight(list'["MAIN"], tomPit', HalflineWant')
  <2>1. CASE winner = "MAIN"
    BY <1>2, <1>3, <2>1
  <2>2. CASE winner # "MAIN"
    <3>1. winner = "JERRY"
      BY <1>1, <2>2 DEF Lists
    <3>2. /\ MainSane(list["MAIN"], tomPit, HalflineWant)
          /\ ~flooded => MainRight(list["MAIN"], tomPit, HalflineWant)
      BY DEF IInv, ListsRight
    <3>3. /\ MainSane(Scrubbed(Elapsed(list["MAIN"], timeDelta)), tomPit, HalflineWant)
          /\ ~flooded => MainRight(Scrubbed(Elapsed(list["MAIN"], timeDelta)), tomPit, HalflineWant)
      BY <1>1, <3>2, RightElapsed
    <3> QED
      BY <1>2, <1>3, <2>2, <3>1, <3>3
  <2> QED
    BY <2>1, <2>2
<1>6. JerryRight(list'["JERRY"], PitWant', I2sWant', samples')
  <2>1. CASE winner = "JERRY"
    BY <1>3, <1>4, <2>1
  <2>2. CASE winner # "JERRY"
    <3>1. winner = "MAIN"
      BY <1>1, <2>2 DEF Lists
    <3>2. JerryRight(Scrubbed(Elapsed(list["JERRY"], timeDelta)), PitWant, I2sWant, samples)
      BY <1>1, RightElapsed DEF IInv, ListsRight
    <3> QED
      BY <1>3, <1>4, <2>2, <3>1, <3>2
  <2> QED
    BY <2>1, <2>2
<1>7. list' \in [Lists -> EventLists]
  <2>1. list'["MAIN"] \in EventLists /\ list'["JERRY"] \in EventLists
    BY <1>5, <1>6 DEF MainSane, JerryRight
  <2>2. list' = [l \in Lists |-> list'[l]]
    BY <1>2
  <2> QED
    BY <2>1, <2>2 DEF Lists
<1> QED
  BY <1>5, <1>6, <1>7 DEF ListsRight

LEMMA InitRight ==
    ASSUME Room, Init
    PROVE  IInv
<1>1. PICK bios \in BOOLEAN : /\ list = ResetLists(bios)
                              /\ jerryPit = ResetPit(bios)
                              /\ programmed = ResetProgrammed(bios)
  BY DEF Init
<1>2. ListsRight
  <2>1. HalflineWant = 1 /\ tomPit = 0
    BY Wanted DEF Init
  <2>2. PitWant = 0 /\ I2sWant = IF bios THEN 0 ELSE 1
    BY <1>1 DEF PitWant, I2sWant, ResetPit, ResetProgrammed, OnDemand, One
  <2> QED
    BY <1>1, <2>1, <2>2, ResetRight DEF ListsRight
<1>3. TypeOK
  <2>1. jerryPit \in PitPeriods
    BY <1>1, ResetAssumption DEF ResetPit
  <2>2. /\ vc \in 0 .. VCMod - 1 /\ vp \in VPs /\ tomPit \in PitPeriods /\ i2s \in SclkPeriods
        /\ samples \in 0 .. NumSamples /\ ops \in 0 .. MaxOps \cup 0 .. MaxInline
    BY ResetAssumption, FieldAssumption, PeriodAssumption, BoundAssumption DEF Init
  <2>3. list \in [Lists -> EventLists]
    BY <1>2 DEF ListsRight
  <2>4. phase \in {"idle", "pick", "guest", "halfline"} /\ winner \in Lists /\ frameDone \in BOOLEAN
    BY DEF Init, Lists
  <2>5. timeDelta \in Nat /\ gpuSpent \in 0 .. timeDelta
    BY DEF Init
  <2>6. programmed \subseteq OnDemand /\ flooded \in BOOLEAN
    BY <1>1 DEF Init, ResetProgrammed
  <2> QED
    BY <2>1, <2>2, <2>3, <2>4, <2>5, <2>6 DEF TypeOK
<1> QED
  BY <1>2, <1>3 DEF IInv

\* Between frames: a reset and the start of a frame.
LEMMA OutsideRight ==
    ASSUME Room, IInv, BeginFrame \/ \E bios \in BOOLEAN : JaguarReset(bios)
    PROVE  IInv'
<1>1. CASE BeginFrame
  <2>1. list' = [list EXCEPT !["JERRY"] = Rearmed(list["JERRY"], "DSPSample", HalfSample)]
    BY <1>1 DEF BeginFrame
  <2>2. /\ list'["MAIN"] = list["MAIN"]
        /\ list'["JERRY"] = Rearmed(list["JERRY"], "DSPSample", HalfSample)
    BY <2>1 DEF IInv, TypeOK, Lists
  <2>3. /\ samples' = 0 /\ 0 # NumSamples /\ HalfSample \in Nat
        /\ tomPit' = tomPit /\ jerryPit' = jerryPit /\ programmed' = programmed /\ flooded' = flooded
        /\ HalflineWant' = 1 /\ HalflineWant = 1 /\ PitWant' = PitWant /\ I2sWant' = I2sWant
    BY <1>1, PeriodAssumption, Wanted DEF BeginFrame, machine, since, PitWant, I2sWant
  <2>4. JerryRight(list'["JERRY"], PitWant', I2sWant', samples')
    <3>1. /\ JerryRight(list["JERRY"], PitWant, I2sWant, samples)
          /\ PitWant \in {0, 1} /\ I2sWant \in {0, 1}
      BY Wanted DEF IInv, ListsRight
    <3>2. \A m : m # NumSamples =>
                    JerryRight(Rearmed(list["JERRY"], "DSPSample", HalfSample), PitWant, I2sWant, m)
      <4> HIDE DEF PitWant, I2sWant
      <4>1. HalfSample \in Nat
        BY <2>3
      <4> QED
        BY <3>1, <4>1, JerryRearmed, Zenon
    <3> QED
      BY <2>2, <2>3, <3>2
  <2>5. list'["JERRY"] \in EventLists
    BY <2>4 DEF JerryRight
  <2>6. ListsRight'
    BY <2>1, <2>2, <2>3, <2>4, <2>5 DEF ListsRight, IInv, TypeOK, Lists
  <2>7. TypeOK'
    <3>1. list' \in [Lists -> EventLists]
      BY <2>6 DEF ListsRight
    <3>2. samples' \in 0 .. NumSamples /\ frameDone' = FALSE /\ phase' = "pick"
      BY <1>1, PeriodAssumption DEF BeginFrame
    <3> QED
      BY <1>1, <3>1, <3>2 DEF TypeOK, IInv, BeginFrame, slice, machine, since
  <2> QED
    BY <2>6, <2>7 DEF IInv
<1>2. CASE \E bios \in BOOLEAN : JaguarReset(bios)
  <2>1. PICK bios \in BOOLEAN : JaguarReset(bios)
    BY <1>2
  <2>2. ListsRight'
    <3>1. HalflineWant' = 1 /\ tomPit' = 0
      BY <2>1, Wanted DEF JaguarReset
    <3>2. PitWant' = 0 /\ I2sWant' = IF bios THEN 0 ELSE 1
      BY <2>1 DEF JaguarReset, PitWant, I2sWant, ResetPit, ResetProgrammed, OnDemand, One
    <3>3. list' = ResetLists(bios)
      BY <2>1 DEF JaguarReset
    <3> QED
      BY <3>1, <3>2, <3>3, ResetRight DEF ListsRight
  <2>3. jerryPit' \in PitPeriods /\ programmed' \subseteq OnDemand /\ flooded' \in BOOLEAN
    BY <2>1, ResetAssumption DEF ResetPit, JaguarReset, ResetProgrammed
  <2>4. vc' \in 0 .. VCMod - 1 /\ vp' \in VPs /\ tomPit' \in PitPeriods /\ i2s' \in SclkPeriods
    BY <2>1, ResetAssumption, FieldAssumption DEF JaguarReset
  <2>5. TypeOK'
    BY <2>1, <2>2, <2>3, <2>4 DEF TypeOK, IInv, JaguarReset, ListsRight, slice
  <2> QED
    BY <2>2, <2>5 DEF IInv
<1> QED
  BY <1>1, <1>2

\* The loop head looks and changes neither list.
LEMMA PickRight ==
    ASSUME IInv, PickSlice
    PROVE  IInv'
<1>1. ListsRight'
  <2>1. /\ list' = list /\ tomPit' = tomPit /\ samples' = samples /\ flooded' = flooded
        /\ HalflineWant' = HalflineWant /\ PitWant' = PitWant /\ I2sWant' = I2sWant
    BY Wanted DEF PickSlice, machine, since, PitWant, I2sWant
  <2> QED
    BY <2>1 DEF IInv, ListsRight
<1>2. timeDelta' \in Nat /\ gpuSpent' = 0
  BY NextTime DEF PickSlice, IInv, TypeOK, Lists
<1>3. TypeOK'
  BY <1>1, <1>2, BoundAssumption DEF TypeOK, IInv, PickSlice, ListsRight, field, machine, Lists, since
<1> QED
  BY <1>1, <1>3 DEF IInv

\* The second half of the halfline callback.
LEMMA HalflineRight ==
    ASSUME Room, IInv, HalflineRearm
    PROVE  IInv'
<1> DEFINE L == list["MAIN"]
           R == Scrubbed(Pushed(list["MAIN"], "Halfline", HalflinePeriod))
<1>1. /\ list \in [Lists -> EventLists] /\ "MAIN" \in Lists /\ "JERRY" \in Lists
      /\ list' = [list EXCEPT !["MAIN"] = R]
  BY DEF IInv, TypeOK, Lists, HalflineRearm
<1>2. /\ HalflineWant = 0 /\ HalflineWant' = 1 /\ tomPit' = tomPit /\ samples' = samples
      /\ flooded' = flooded /\ PitWant' = PitWant /\ I2sWant' = I2sWant
  BY Wanted DEF HalflineRearm, machine, since, PitWant, I2sWant
<1>3. MainSane(L, tomPit, 0) /\ (~flooded => MainRight(L, tomPit, 0))
  BY <1>2 DEF IInv, ListsRight
<1>4. MainSane(R, tomPit, 1) /\ (~flooded => MainRight(R, tomPit, 1))
  BY <1>3, MainHalflineBack
<1> HIDE DEF R
<1>5. R \in EventLists /\ list'["MAIN"] = R /\ list'["JERRY"] = list["JERRY"]
  BY <1>1, <1>4 DEF MainSane
<1>6. ListsRight'
  BY <1>1, <1>2, <1>4, <1>5 DEF ListsRight, IInv
<1>7. TypeOK'
  BY <1>6, BoundAssumption DEF TypeOK, IInv, HalflineRearm, ListsRight, field, machine, since
<1> QED
  BY <1>6, <1>7 DEF IInv

\* A guest write that changes the MAIN list to L, or the JERRY list to L.
LEMMA GuestRight ==
    ASSUME IInv, GuestStep, NEW L, vp' \in VPs, tomPit' \in PitPeriods, jerryPit' \in PitPeriods,
           i2s' \in SclkPeriods, gpuSpent' \in 0 .. timeDelta, vc' \in 0 .. VCMod - 1,
           programmed' \subseteq OnDemand, flooded' \in BOOLEAN,
           \/ /\ list' = [list EXCEPT !["MAIN"] = L]
              /\ MainSane(L, tomPit', HalflineWant)
              /\ ~flooded' => MainRight(L, tomPit', HalflineWant)
              /\ jerryPit' = jerryPit /\ programmed' = programmed
           \/ /\ list' = [list EXCEPT !["JERRY"] = L] /\ JerryRight(L, PitWant', I2sWant', samples)
              /\ tomPit' = tomPit /\ flooded' = flooded
    PROVE  IInv'
<1>0. /\ list \in [Lists -> EventLists] /\ "MAIN" \in Lists /\ "JERRY" \in Lists
      /\ samples' = samples /\ HalflineWant' = HalflineWant
  BY DEF IInv, TypeOK, Lists, GuestStep, HalflineWant
<1>1. L \in EventLists
  BY DEF MainSane, JerryRight
<1>2. ListsRight'
  <2>1. CASE /\ list' = [list EXCEPT !["MAIN"] = L]
             /\ MainSane(L, tomPit', HalflineWant)
             /\ ~flooded' => MainRight(L, tomPit', HalflineWant)
             /\ jerryPit' = jerryPit /\ programmed' = programmed
    <3>1. list'["MAIN"] = L /\ list'["JERRY"] = list["JERRY"] /\ list' \in [Lists -> EventLists]
      BY <1>0, <1>1, <2>1
    <3>2. PitWant' = PitWant /\ I2sWant' = I2sWant
      BY <2>1 DEF PitWant, I2sWant
    <3> QED
      BY <1>0, <2>1, <3>1, <3>2 DEF ListsRight, IInv
  <2>2. CASE /\ list' = [list EXCEPT !["JERRY"] = L] /\ JerryRight(L, PitWant', I2sWant', samples)
             /\ tomPit' = tomPit /\ flooded' = flooded
    <3>1. list'["JERRY"] = L /\ list'["MAIN"] = list["MAIN"] /\ list' \in [Lists -> EventLists]
      BY <1>0, <1>1, <2>2
    <3> QED
      BY <1>0, <2>2, <3>1 DEF ListsRight, IInv
  <2> QED
    BY <2>1, <2>2
<1>3. ops' \in 0 .. MaxOps \cup 0 .. MaxInline
  BY BoundAssumption DEF IInv, TypeOK, GuestStep
<1>4. TypeOK'
  BY <1>2, <1>3 DEF TypeOK, IInv, GuestStep, ListsRight
<1> QED
  BY <1>2, <1>4 DEF IInv

\* Whatever the guest writes.
LEMMA GuestKeeps ==
    ASSUME Room, IInv, Guest
    PROVE  IInv'
<1>0. /\ MainSane(list["MAIN"], tomPit, HalflineWant)
      /\ ~flooded => MainRight(list["MAIN"], tomPit, HalflineWant)
      /\ JerryRight(list["JERRY"], PitWant, I2sWant, samples)
  BY DEF IInv, ListsRight
<1>1. /\ vp \in VPs /\ tomPit \in PitPeriods /\ jerryPit \in PitPeriods /\ i2s \in SclkPeriods
      /\ timeDelta \in Nat /\ gpuSpent \in 0 .. timeDelta /\ vc \in 0 .. VCMod - 1
      /\ list \in [Lists -> EventLists] /\ "MAIN" \in Lists /\ "JERRY" \in Lists
      /\ PitPeriods \subseteq Nat /\ SclkPeriods \subseteq Nat \ {0}
      /\ programmed \subseteq OnDemand /\ flooded \in BOOLEAN
  BY PeriodAssumption DEF IInv, TypeOK, Lists
<1>2. HalflineWant \in {0, 1} /\ PitWant \in {0, 1} /\ I2sWant \in {0, 1}
  BY Wanted
<1>3. ASSUME NEW p \in PitPeriods, WriteTOMPIT(p) PROVE IInv'
  <2>1. /\ MainSane(Rearmed(list["MAIN"], "TOMPIT", p), p, HalflineWant)
        /\ ~flooded => MainRight(Rearmed(list["MAIN"], "TOMPIT", p), p, HalflineWant)
    BY <1>0, <1>1, <1>2, MainRearmed
  <2>2. /\ tomPit' = p /\ list' = [list EXCEPT !["MAIN"] = Rearmed(list["MAIN"], "TOMPIT", p)]
        /\ GuestStep /\ gpuSpent' = gpuSpent /\ vc' = vc /\ vp' = vp /\ jerryPit' = jerryPit /\ i2s' = i2s
        /\ programmed' = programmed /\ flooded' = flooded
    BY <1>3 DEF WriteTOMPIT, since
  <2> HIDE DEF IInv
  <2> QED
    BY <1>1, <2>1, <2>2, GuestRight
<1>4. ASSUME NEW p \in PitPeriods, WriteJERRYPIT1(p) PROVE IInv'
  <2>1. JerryRight(Rearmed(list["JERRY"], "JERRYPIT1", p), One(p # 0), I2sWant, samples)
    BY <1>0, <1>1, <1>2, JerryRearmed
  <2>2. /\ jerryPit' = p /\ list' = [list EXCEPT !["JERRY"] = Rearmed(list["JERRY"], "JERRYPIT1", p)]
        /\ GuestStep /\ gpuSpent' = gpuSpent /\ vc' = vc /\ vp' = vp /\ tomPit' = tomPit /\ i2s' = i2s
        /\ programmed' = programmed \cup {"JERRYPIT1"} /\ flooded' = flooded
    BY <1>4 DEF WriteJERRYPIT1
  <2>3. PitWant' = One(p # 0) /\ I2sWant' = I2sWant /\ programmed' \subseteq OnDemand
    BY <1>1, <2>2 DEF PitWant, I2sWant, OnDemand, One
  <2> QED
    BY <1>1, <2>1, <2>2, <2>3, GuestRight
<1>5. ASSUME NEW p \in SclkPeriods, WriteSCLK(p) PROVE IInv'
  <2>0. p \in Nat /\ p # 0
    BY <1>1
  <2>1. JerryRight(Rearmed(list["JERRY"], "JERRYI2S", p), PitWant, 1, samples)
    BY <1>0, <1>2, <2>0, JerryRearmed
  <2>2. /\ i2s' = p /\ list' = [list EXCEPT !["JERRY"] = Rearmed(list["JERRY"], "JERRYI2S", p)]
        /\ GuestStep /\ gpuSpent' = gpuSpent /\ vc' = vc /\ vp' = vp /\ tomPit' = tomPit /\ jerryPit' = jerryPit
        /\ programmed' = programmed \cup {"JERRYI2S"} /\ flooded' = flooded
    BY <1>5 DEF WriteSCLK
  <2>3. PitWant' = PitWant /\ I2sWant' = 1 /\ programmed' \subseteq OnDemand
    BY <1>1, <2>2 DEF PitWant, I2sWant, OnDemand, One
  <2> QED
    BY <1>1, <2>1, <2>2, <2>3, GuestRight
<1>6. ASSUME list' = list, GuestStep, vp' \in VPs, vc' \in 0 .. VCMod - 1, gpuSpent' = gpuSpent,
             tomPit' = tomPit, jerryPit' = jerryPit, i2s' = i2s,
             programmed' = programmed, flooded' = flooded
      PROVE  IInv'
  <2>1. list' = [list EXCEPT !["MAIN"] = list["MAIN"]]
    BY <1>1, <1>6
  <2> QED
    BY <1>0, <1>1, <1>6, <2>1, GuestRight
<1>v. ASSUME NEW v \in VPs, WriteVP(v) PROVE IInv'
  BY <1>1, <1>6, <1>v DEF WriteVP, since
<1>c. ASSUME NEW v \in 0 .. VCMod - 1, WriteVC(v) PROVE IInv'
  BY <1>1, <1>6, <1>c DEF WriteVC, since, machine
<1>7. ASSUME NEW b \in Nat, NEW u \in Nat, RaiseCPUINT(b, u), gpuSpent' \in 0 .. timeDelta PROVE IInv'
  <2> DEFINE R == Scrubbed(Pushed(list["MAIN"], "GPUCPUINT", b + u))
             many == PendingCount(list["MAIN"], "GPUCPUINT") > Size - 3
  <2>1. /\ list' = [list EXCEPT !["MAIN"] = R] /\ GuestStep
        /\ vc' = vc /\ vp' = vp /\ tomPit' = tomPit /\ jerryPit' = jerryPit /\ i2s' = i2s
        /\ programmed' = programmed /\ (flooded' <=> flooded \/ many) /\ flooded' \in BOOLEAN
    BY <1>7 DEF RaiseCPUINT, machine
  <2>2. /\ MainSane(R, tomPit, HalflineWant)
        /\ MainRight(list["MAIN"], tomPit, HalflineWant) /\ ~many => MainRight(R, tomPit, HalflineWant)
    BY <1>0, MainRaised
  <2> HIDE DEF R, many
  <2>3. ~flooded' => MainRight(R, tomPit, HalflineWant)
    BY <1>0, <2>1, <2>2
  <2> QED
    BY <1>1, <1>7, <2>1, <2>2, <2>3, GuestRight
<1>8. ASSUME NEW b \in 1 .. MaxExec, NEW u \in 0 .. b, RaiseInSlice(b, u) PROVE IInv'
  <2>1. b \in Nat /\ u \in Nat /\ gpuSpent' \in 0 .. timeDelta
    BY <1>1, <1>8, BoundAssumption DEF RaiseInSlice
  <2> QED
    BY <1>7, <1>8, <2>1 DEF RaiseInSlice
<1>9. ASSUME NEW u \in 0 .. GpuStep, RaiseInline(u) PROVE IInv'
  <2>1. GpuStep \in Nat /\ u \in Nat /\ gpuSpent' \in 0 .. timeDelta
    BY <1>1, <1>9, PeriodAssumption DEF RaiseInline
  <2> QED
    BY <1>7, <1>9, <2>1 DEF RaiseInline
<1> QED
  BY <1>3, <1>4, <1>5, <1>v, <1>c, <1>8, <1>9 DEF Guest


\* A dispatch, whichever callback it finds.
LEMMA DispatchKeeps ==
    ASSUME Room, IInv, EndSlice
    PROVE  ListsRight'
<1> DEFINE M == list["MAIN"]
           L == list["JERRY"]
           D == Dispatched(list["JERRY"])
<1>0. /\ M \in EventLists /\ L \in EventLists /\ winner \in Lists
      /\ MainSane(M, tomPit, HalflineWant) /\ (~flooded => MainRight(M, tomPit, HalflineWant))
      /\ JerryRight(L, PitWant, I2sWant, samples)
      /\ tomPit \in Nat /\ jerryPit \in Nat /\ i2s \in Nat /\ SamplePeriod \in Nat
      /\ samples \in 0 .. NumSamples /\ NumSamples \in Nat
  BY PeriodAssumption DEF IInv, ListsRight, TypeOK, Lists, SamplePeriod
<1>w. PitWant \in {0, 1} /\ I2sWant \in {0, 1}
  BY Wanted
<1>1. CASE DispatchEmpty
  <2>1. HalflineWant = 1 /\ HalflineWant' = 1
    BY <1>1, Wanted DEF DispatchEmpty, SliceDone
  <2>2. /\ MainSane(Scrubbed(M), tomPit, 1) /\ (~flooded => MainRight(Scrubbed(M), tomPit, 1))
        /\ JerryRight(Scrubbed(L), PitWant, I2sWant, samples)
    BY <1>0, <2>1, RightScrubbed
  <2>3. Settle(list[winner], 0) /\ tomPit' = tomPit /\ jerryPit' = jerryPit /\ samples' = samples
    BY <1>1 DEF DispatchEmpty, machine
  <2>4. /\ winner = "MAIN" => /\ MainSane(Scrubbed(list[winner]), tomPit, HalflineWant')
                              /\ ~flooded => MainRight(Scrubbed(list[winner]), tomPit, HalflineWant')
                              /\ samples' = samples
        /\ winner = "JERRY" => /\ JerryRight(Scrubbed(list[winner]), PitWant, I2sWant, samples')
                               /\ HalflineWant' = HalflineWant
    BY <2>1, <2>2, <2>3
  <2> QED
    BY <2>3, <2>4, Settled, Zenon
<1> HIDE DEF M, L, D
<1>2. CASE HalflineCallback
  <2>1. /\ winner = "MAIN" /\ M.count > 0 /\ NextCallback(M) = "Halfline" /\ HalflineWant = 1
    BY <1>2, WinnerOf DEF HalflineCallback, MainTimers, M
  <2>2. /\ MainSane(Scrubbed(Dispatched(M)), tomPit, 0)
        /\ ~flooded => MainRight(Scrubbed(Dispatched(M)), tomPit, 0)
    BY <1>0, <2>1, MainHalfline
  <2>3. Settle(Dispatched(M), MaxInline) /\ phase' = "halfline" /\ UNCHANGED <<machine, samples>>
    BY <1>2, <2>1 DEF HalflineCallback, M
  <2>4. HalflineWant' = 0 /\ tomPit' = tomPit /\ jerryPit' = jerryPit /\ samples' = samples
    BY <2>3, Wanted DEF machine
  <2> QED
    BY <2>1, <2>2, <2>3, <2>4, Settled
<1>3. CASE TOMPITCallback
  <2> DEFINE S == Rearmed(Dispatched(M), "TOMPIT", tomPit)
  <2>1. /\ winner = "MAIN" /\ M.count > 0 /\ NextCallback(M) = "TOMPIT" /\ HalflineWant = 1
    BY <1>3, WinnerOf DEF TOMPITCallback, MainTimers, M
  <2>2. MainSane(Scrubbed(S), tomPit, 1) /\ (~flooded => MainRight(Scrubbed(S), tomPit, 1))
    BY <1>0, <2>1, MainPit
  <2>3. Settle(S, 0) /\ phase' = "pick" /\ UNCHANGED <<machine, samples>>
    BY <1>3, <2>1 DEF TOMPITCallback, M
  <2>4. HalflineWant' = 1 /\ tomPit' = tomPit /\ jerryPit' = jerryPit /\ samples' = samples
    BY <2>3, Wanted DEF machine
  <2> HIDE DEF S
  <2> QED
    BY <2>1, <2>2, <2>3, <2>4, Settled
<1>4. CASE GPUCPUINTCallback
  <2>1. /\ winner = "MAIN" /\ M.count > 0 /\ NextCallback(M) = "GPUCPUINT" /\ HalflineWant = 1
    BY <1>4, WinnerOf DEF GPUCPUINTCallback, MainTimers, M
  <2>2. /\ MainSane(Scrubbed(Dispatched(M)), tomPit, 1)
        /\ ~flooded => MainRight(Scrubbed(Dispatched(M)), tomPit, 1)
    BY <1>0, <2>1, MainCpuInt
  <2>3. Settle(Dispatched(M), 0) /\ phase' = "pick" /\ UNCHANGED <<machine, samples>>
    BY <1>4, <2>1 DEF GPUCPUINTCallback, M
  <2>4. HalflineWant' = 1 /\ tomPit' = tomPit /\ jerryPit' = jerryPit /\ samples' = samples
    BY <2>3, Wanted DEF machine
  <2> QED
    BY <2>1, <2>2, <2>3, <2>4, Settled
<1>5. ASSUME NEW S, Settle(S, 0), phase' = "pick", UNCHANGED machine, winner = "JERRY",
             JerryRight(S, PitWant, I2sWant, samples'), HalflineWant = 1
      PROVE  ListsRight'
  <2>1. JerryRight(Scrubbed(S), PitWant, I2sWant, samples')
    <3>1. S \in EventLists
      BY <1>5 DEF JerryRight
    <3> QED
      BY <1>5, <3>1, RightScrubbed
  <2>2. HalflineWant' = 1 /\ tomPit' = tomPit /\ jerryPit' = jerryPit
    BY <1>5, Wanted DEF machine
  <2> QED
    BY <1>5, <2>1, <2>2, Settled
<1>6. CASE JERRYPIT1Callback
  <2> DEFINE S == Rearmed(D, "JERRYPIT1", jerryPit)
  <2>1. winner = "JERRY" /\ L.count > 0 /\ NextCallback(L) = "JERRYPIT1" /\ HalflineWant = 1
    BY <1>6, WinnerOf DEF JERRYPIT1Callback, JerryTimers, MainTimers, L
  <2>2. PitWant = 1 /\ JerryRight(D, 0, I2sWant, samples)
    BY <1>0, <1>w, <2>1, JerryTaken DEF D, L
  <2>3. One(jerryPit # 0) = PitWant
    BY <2>2 DEF PitWant, One
  <2>4. JerryRight(S, One(jerryPit # 0), I2sWant, samples)
    BY <1>0, <1>w, <2>2, JerryRearmed
  <2>5. Settle(S, 0) /\ phase' = "pick" /\ UNCHANGED machine /\ samples' = samples
    BY <1>6, <2>1 DEF JERRYPIT1Callback, D
  <2> HIDE DEF S
  <2> QED
    BY <1>5, <2>1, <2>3, <2>4, <2>5
<1>7. CASE JERRYI2SCallback
  <2> DEFINE S == Pushed(D, "JERRYI2S", i2s)
  <2>1. winner = "JERRY" /\ L.count > 0 /\ NextCallback(L) = "JERRYI2S" /\ HalflineWant = 1
    BY <1>7, WinnerOf DEF JERRYI2SCallback, JerryTimers, MainTimers, L
  <2>2. I2sWant = 1 /\ JerryRight(D, PitWant, 0, samples)
    BY <1>0, <1>w, <2>1, JerryTaken DEF D, L
  <2>3. JerryRight(S, PitWant, 1, samples)
    BY <1>0, <1>w, <2>2, JerryPushed
  <2>4. Settle(S, 0) /\ phase' = "pick" /\ UNCHANGED machine /\ samples' = samples
    BY <1>7, <2>1 DEF JERRYI2SCallback, D
  <2> HIDE DEF S
  <2> QED
    BY <1>5, <2>1, <2>2, <2>3, <2>4
<1>8. CASE DSPSampleCallback
  <2> DEFINE S == IF samples + 1 >= NumSamples THEN D ELSE Pushed(D, "DSPSample", SamplePeriod)
  <2>1. winner = "JERRY" /\ L.count > 0 /\ NextCallback(L) = "DSPSample" /\ HalflineWant = 1
    BY <1>8, WinnerOf DEF DSPSampleCallback, JerryTimers, MainTimers, L
  <2>2. PendingCount(D, "DSPSample") = 0 /\ \A m : JerryRight(D, PitWant, I2sWant, m)
    BY <1>0, <1>w, <2>1, JerryTaken DEF D, L
  <2>3. JerryRight(S, PitWant, I2sWant, samples + 1)
    <3>1. CASE samples + 1 >= NumSamples
      BY <2>2, <3>1
    <3>2. CASE ~(samples + 1 >= NumSamples)
      <4>1. samples + 1 # NumSamples
        BY <1>0, <3>2
      <4>2. JerryRight(Pushed(D, "DSPSample", SamplePeriod), PitWant, I2sWant, samples + 1)
        BY <1>0, <1>w, <2>2, <4>1, JerryPushed
      <4> QED
        BY <3>2, <4>2
    <3> QED
      BY <3>1, <3>2
  <2>4. Settle(S, 0) /\ phase' = "pick" /\ UNCHANGED machine /\ samples' = samples + 1
    BY <1>8, <2>1 DEF DSPSampleCallback, D
  <2> HIDE DEF S
  <2> QED
    BY <1>5, <2>1, <2>3, <2>4
<1> QED
  BY <1>1, <1>2, <1>3, <1>4, <1>6, <1>7, <1>8 DEF EndSlice

\* The other variables a dispatch sets: the field's, the samples, the slice's.
LEMMA DispatchTypes ==
    ASSUME Room, IInv, EndSlice
    PROVE  TypeOK'
<1>0. /\ vc \in 0 .. VCMod - 1 /\ frameDone \in BOOLEAN
      /\ samples \in 0 .. NumSamples /\ NumSamples \in Nat /\ VCMod \in Nat \ {0}
  BY PeriodAssumption, FieldAssumption DEF IInv, TypeOK
<1>1. list' \in [Lists -> EventLists]
  BY DispatchKeeps DEF ListsRight
<1>2. /\ vc' \in 0 .. VCMod - 1 /\ frameDone' \in BOOLEAN
      /\ phase' \in {"idle", "pick", "guest", "halfline"}
  <2>1. CASE HalflineCallback
    <3>1. NextVC \in 0 .. VCMod - 1 /\ 0 \in 0 .. VCMod - 1
      BY <1>0 DEF NextVC
    <3> QED
      BY <1>0, <2>1, <3>1 DEF HalflineCallback
  <2>2. ASSUME UNCHANGED field, phase' = "pick"
        PROVE  /\ vc' \in 0 .. VCMod - 1 /\ frameDone' \in BOOLEAN
               /\ phase' \in {"idle", "pick", "guest", "halfline"}
    BY <1>0, <2>2 DEF field
  <2> QED
    BY <2>1, <2>2 DEF EndSlice, DispatchEmpty, TOMPITCallback, JERRYPIT1Callback, JERRYI2SCallback,
                      DSPSampleCallback, GPUCPUINTCallback
<1>3. samples' \in 0 .. NumSamples
  <2>1. CASE DSPSampleCallback
    <3>1. winner = "JERRY" /\ list["JERRY"].count > 0 /\ NextCallback(list["JERRY"]) = "DSPSample"
      BY <2>1, WinnerOf DEF DSPSampleCallback, MainTimers, JerryTimers
    <3>2. samples # NumSamples
      BY <3>1, Wanted, JerryTaken DEF IInv, ListsRight
    <3> QED
      BY <1>0, <2>1, <3>2 DEF DSPSampleCallback
  <2>2. CASE samples' = samples
    BY <1>0, <2>2
  <2> QED
    BY <2>1, <2>2 DEF EndSlice, DispatchEmpty, HalflineCallback, TOMPITCallback, JERRYPIT1Callback,
                      JERRYI2SCallback, GPUCPUINTCallback
<1>4. ASSUME NEW S, NEW n \in {0, MaxInline}, Settle(S, n)
      PROVE  /\ winner' \in Lists /\ timeDelta' \in Nat /\ gpuSpent' \in 0 .. timeDelta'
             /\ ops' \in 0 .. MaxOps \cup 0 .. MaxInline
             /\ programmed' \subseteq OnDemand /\ flooded' \in BOOLEAN
  BY <1>4, BoundAssumption DEF Settle, Lists, since, IInv, TypeOK
<1>5. /\ winner' \in Lists /\ timeDelta' \in Nat /\ gpuSpent' \in 0 .. timeDelta'
      /\ ops' \in 0 .. MaxOps \cup 0 .. MaxInline
      /\ programmed' \subseteq OnDemand /\ flooded' \in BOOLEAN
  BY <1>4 DEF EndSlice, DispatchEmpty, HalflineCallback, TOMPITCallback, JERRYPIT1Callback,
              JERRYI2SCallback, DSPSampleCallback, GPUCPUINTCallback
<1>6. vp' = vp /\ tomPit' = tomPit /\ jerryPit' = jerryPit /\ i2s' = i2s
  BY DEF EndSlice, machine, DispatchEmpty, HalflineCallback, TOMPITCallback, JERRYPIT1Callback,
         JERRYI2SCallback, DSPSampleCallback, GPUCPUINTCallback
<1> QED
  BY <1>1, <1>2, <1>3, <1>5, <1>6 DEF IInv, TypeOK

LEMMA StepRight ==
    ASSUME Room, IInv, [Next]_vars
    PROVE  IInv'
<1>1. CASE EndSlice
  BY <1>1, DispatchKeeps, DispatchTypes DEF IInv
<1>2. CASE UNCHANGED vars
  <2>1. /\ HalflineWant' = HalflineWant /\ PitWant' = PitWant /\ I2sWant' = I2sWant
    BY <1>2 DEF vars, machine, since, HalflineWant, PitWant, I2sWant
  <2>2. ListsRight'
    BY <1>2, <2>1 DEF vars, machine, since, IInv, ListsRight
  <2>3. TypeOK'
    BY <1>2 DEF vars, slice, field, machine, since, IInv, TypeOK
  <2> QED
    BY <2>2, <2>3 DEF IInv
<1> QED
  BY <1>1, <1>2, OutsideRight, PickRight, GuestKeeps, HalflineRight DEF Next

-----------------------------------------------------------------------------

\* The lists hold what the registers say, at every point of every frame, whatever
\* the guest writes and in whatever order the timers fire.
THEOREM FrameInvariant == Room => (Spec => []IInv)
<1> SUFFICES ASSUME Room PROVE Spec => []IInv
  OBVIOUS
<1>1. Init => IInv
  BY InitRight
<1>2. IInv /\ [Next]_vars => IInv'
  BY StepRight
<1> QED
  BY <1>1, <1>2, PTL DEF Spec

\* Each timer is queued at most once and never while it is off, JERRY's timers as
\* they are programmed, and MAIN's too (the halfline that ends the frame, and the
\* PIT) until GPU interrupts have filled MAIN but for one slot: register writes,
\* DACPrepareFrame, the callbacks and any number of GPU interrupts in any order.
THEOREM TimersAlwaysAsProgrammed == Room => (Spec => []TimersAsProgrammed)
<1> SUFFICES ASSUME Room PROVE Spec => []TimersAsProgrammed
  OBVIOUS
<1>1. ASSUME IInv PROVE TimersAsProgrammed
  <2>0. /\ list["MAIN"] \in EventLists /\ list["JERRY"] \in EventLists
        /\ MainSane(list["MAIN"], tomPit, HalflineWant)
        /\ ~flooded => MainRight(list["MAIN"], tomPit, HalflineWant)
        /\ JerryRight(list["JERRY"], PitWant, I2sWant, samples)
        /\ HalflineWant \in {0, 1}
        /\ \A l \in Lists, cb \in Callbacks : PendingCount(list[l], cb) \in Nat
        /\ \A l \in Lists, cb \in Callbacks : PendingCount(list[l], cb) = 0 <=> ~Pending(l, cb)
    BY <1>1, Wanted, MatchingFinite DEF IInv, ListsRight, Lists, TypeOK, Pending
  <2>n. "MAIN" \in Lists /\ "JERRY" \in Lists /\ Callbacks = MainTimers \cup JerryTimers
    BY Names DEF Lists
  <2>1. OneOfEach
    <3>1. \A cb \in Callbacks \ {"GPUCPUINT"} : PendingCount(list["MAIN"], cb) <= 1
      <4>1. PendingCount(list["MAIN"], "Halfline") <= 1 /\ PendingCount(list["MAIN"], "TOMPIT") <= 1
        BY <2>0, <2>n DEF MainSane, One, MainTimers
      <4> QED
        BY <2>0, <2>n, <4>1 DEF MainSane, MainTimers
    <3>2. \A cb \in Callbacks \ {"GPUCPUINT"} : PendingCount(list["JERRY"], cb) <= 1
      <4>1. /\ PendingCount(list["JERRY"], "JERRYPIT1") <= 1
            /\ PendingCount(list["JERRY"], "JERRYI2S") <= 1
            /\ PendingCount(list["JERRY"], "DSPSample") <= 1
        BY <2>0 DEF JerryRight, PitWant, I2sWant, One
      <4> QED
        BY <2>0, <2>n, <4>1 DEF JerryRight, JerryTimers
    <3> QED
      BY <3>1, <3>2 DEF OneOfEach, Lists
  <2>2. JerryTimersArmed
    BY <2>0, <2>n DEF JerryTimersArmed, JerryRight, PitWant, I2sWant, One, JerryTimers
  <2>3. tomPit = 0 => ~Pending("MAIN", "TOMPIT")
    BY <2>0, <2>n DEF MainSane, One, MainTimers
  <2>4. ~flooded => TomPitArmed
    BY <2>0, <2>n DEF TomPitArmed, MainRight, One, MainTimers
  <2>5. ~flooded => HalflineQueued
    BY <2>0, <2>n DEF HalflineQueued, MainRight, HalflineWant, One, MainTimers
  <2> QED
    BY <2>1, <2>2, <2>3, <2>4, <2>5 DEF TimersAsProgrammed
<1> QED
  BY <1>1, FrameInvariant, PTL

\* No sample event is left once sampleBuffer is full, so DSPSampleCallback never
\* writes past its end, even while events are being dropped.
THEOREM NoSampleAfterFullAlways == Room => (Spec => []NoSampleAfterFull)
<1> SUFFICES ASSUME Room PROVE Spec => []NoSampleAfterFull
  OBVIOUS
<1>1. ASSUME IInv PROVE NoSampleAfterFull
  <2>1. list["JERRY"] \in EventLists /\ JerryRight(list["JERRY"], PitWant, I2sWant, samples)
    BY <1>1 DEF IInv, ListsRight, JerryRight
  <2> QED
    BY <2>1, MatchingFinite DEF NoSampleAfterFull, Pending, JerryRight
<1> QED
  BY <1>1, FrameInvariant, PTL
=============================================================================
