-------------------------- MODULE EventQueueProofs --------------------------
(***************************************************************************)
(* Type correctness, the packing invariant and the callability of live     *)
(* slots of EventQueue, and that it implements TimerBag, for every size of *)
(* the lists and every set of callbacks, delays and old images.            *)
(***************************************************************************)
EXTENDS EventQueue, FiniteSetTheorems, FunctionTheorems, TLAPS

\* A list value the queue may hold.
GoodList(L) == L \in EventLists /\ IsPacked(L) /\ IsCallable(L)

\* A set of naturals has a least element (the scans of event.c stop at the
\* first match, which exists).
LEMMA LeastMember ==
    ASSUME NEW S \in SUBSET Nat, S # {}
    PROVE  \E i \in S : \A j \in S : i <= j
<1>1. \E i \in S : \A j \in S : ~(<<j, i>> \in OpToRel(<, Nat))
  BY NatLessThanWellFounded, WFMin, Zenon
<1>2. \E i \in S : \A j \in S : ~(j < i)
  BY <1>1, Zenon DEF OpToRel
<1> QED
  BY <1>2

\* FirstOf returns it.
LEMMA FirstOfMember ==
    ASSUME NEW S \in SUBSET Nat, S # {}
    PROVE  FirstOf(S) \in S /\ \A j \in S : FirstOf(S) <= j
BY LeastMember DEF FirstOf

\* Among the live slots of a list that is not empty one has the least time.
\* Times are integers of either sign, so the argument is by the number of slots
\* looked at: a first n at which the minimum is missing cannot exist.
LEMMA EarliestExists ==
    ASSUME NEW L \in EventLists, L.count > 0
    PROVE  EarliestSlots(L) # {}
<1> DEFINE HasMin(n) == \E i \in 0 .. n - 1 : \A j \in 0 .. n - 1 : L.slot[i].time <= L.slot[j].time
           Bad == {n \in 1 .. L.count : ~HasMin(n)}
<1>t. L.count \in 0 .. Size /\ Size \in Nat /\ \A i \in Slots : L.slot[i].time \in Int
  BY SizeAssumption DEF EventLists, Slot
<1>1. CASE Bad = {}
  BY <1>1, <1>t DEF EarliestSlots, Scanned
<1>2. CASE Bad # {}
  <2>1. PICK n \in Bad : \A k \in Bad : n <= k
    <3>1. Bad \in SUBSET Nat
      BY <1>t
    <3> QED
      BY <3>1, <1>2, LeastMember
  <2>2. n # 1
    BY <2>1, <1>t DEF Slots
  <2>3. n - 1 \in 1 .. L.count /\ n - 1 \notin Bad
    BY <2>1, <2>2, <1>t
  <2>4. PICK i \in 0 .. n - 2 : \A j \in 0 .. n - 2 : L.slot[i].time <= L.slot[j].time
    BY <2>3
  <2>5. L.slot[i].time \in Int /\ L.slot[n - 1].time \in Int
    BY <2>1, <2>4, <1>t DEF Slots
  <2>6. \A j \in 0 .. n - 1 : j \in 0 .. n - 2 \/ j = n - 1
    BY <2>1
  <2>7. \A j \in 0 .. n - 1 : L.slot[j].time \in Int
    BY <2>1, <1>t DEF Slots
  <2>8. HasMin(n)
    <3>1. CASE L.slot[i].time <= L.slot[n - 1].time
      BY <3>1, <2>1, <2>4, <2>6
    <3>2. CASE L.slot[n - 1].time < L.slot[i].time
      BY <3>2, <2>1, <2>4, <2>5, <2>6, <2>7
    <3> QED
      BY <3>1, <3>2, <2>5
  <2> QED
    BY <2>1, <2>8
<1> QED
  BY <1>1, <1>2

\* GetTimeToNextEvent caches a live slot, and none of the others is due earlier.
LEMMA EarliestSlotLive ==
    ASSUME NEW L \in EventLists, L.count > 0
    PROVE  /\ EarliestSlot(L) \in Scanned(L)
           /\ \A j \in Scanned(L) : L.slot[EarliestSlot(L)].time <= L.slot[j].time
<1>1. EarliestSlots(L) \in SUBSET Nat /\ EarliestSlots(L) # {}
  BY EarliestExists DEF EarliestSlots, Scanned, EventLists
<1>2. EarliestSlot(L) \in EarliestSlots(L)
  BY <1>1, FirstOfMember DEF EarliestSlot, EventLists
<1> QED
  BY <1>2 DEF EarliestSlots
-----------------------------------------------------------------------------
(* What each operation does to a list that is typed, packed and callable.  *)

\* InitializeEventList: no slot is valid and the count is zero.
LEMMA ClearedGood ==
    ASSUME NEW L \in EventLists
    PROVE  GoodList(Cleared(L))
<1> DEFINE R == Cleared(L)
<1>1. \A i \in Slots : L.slot[i].cb \in Callbacks \cup {NoCallback}
  BY DEF EventLists, Slot
<1>2. \A i \in Slots : [valid |-> FALSE, cb |-> L.slot[i].cb, time |-> 0] \in Slot
  BY <1>1 DEF Slot
<1>3. R \in EventLists
  BY <1>2, SizeAssumption DEF Cleared, EventLists
<1>4. \A i \in Slots : ~(i < 0)
  BY SizeAssumption DEF Slots
<1> QED
  BY <1>3, <1>4 DEF GoodList, Cleared, IsPacked, IsCallable, Scanned

\* SetCallbackTime: the new slot is the first one past the count, or none.
LEMMA PushedGood ==
    ASSUME NEW L, GoodList(L), NEW cb \in Callbacks, NEW t \in Int
    PROVE  GoodList(Pushed(L, cb, t))
<1>1. CASE L.count < Size
  <2> DEFINE e == [valid |-> TRUE, cb |-> cb, time |-> ClampDueEventTime(t)]
  <2>1. e \in Slot
    BY DEF Slot, ClampDueEventTime
  <2>2. L.count \in Slots
    BY <1>1, SizeAssumption DEF GoodList, EventLists, Slots
  <2>3. Pushed(L, cb, t) = [slot |-> [L.slot EXCEPT ![L.count] = e], count |-> L.count + 1, next |-> L.next]
    BY <1>1 DEF Pushed, GoodList, EventLists
  <2> HIDE DEF e
  <2>4. Pushed(L, cb, t) \in EventLists
    BY <2>1, <2>2, <2>3, <1>1, SizeAssumption DEF GoodList, EventLists
  <2>5. e.valid = TRUE /\ e.cb # NoCallback
    BY CallbackAssumption DEF e
  <2>6. IsPacked(Pushed(L, cb, t))
    BY <2>2, <2>3, <2>5, SizeAssumption DEF GoodList, EventLists, IsPacked, Slots
  <2>7. IsCallable(Pushed(L, cb, t))
    BY <2>2, <2>3, <2>5, SizeAssumption DEF GoodList, EventLists, IsCallable, Slots, Scanned
  <2> QED
    BY <2>4, <2>6, <2>7 DEF GoodList
<1>2. CASE ~(L.count < Size)
  BY <1>2 DEF Pushed
<1> QED
  BY <1>1, <1>2

\* The heart of the swap-removal: the hole is filled before the count drops.
LEMMA RemovedAtGood ==
    ASSUME NEW L, GoodList(L), NEW i \in Scanned(L)
    PROVE  GoodList(RemovedAt(L, i))
<1> DEFINE last == L.count - 1
           R == RemovedAt(L, i)
<1>1. last \in Slots /\ i \in Slots /\ L.count \in Nat /\ i <= last
  BY SizeAssumption DEF GoodList, EventLists, Slots, Scanned
<1>2. R = [slot |-> [[L.slot EXCEPT ![i] = L.slot[last]] EXCEPT ![last].valid = FALSE],
           count |-> last, next |-> L.next]
  BY DEF RemovedAt
<1>3. \A k \in Slots : L.slot[k] \in Slot
  BY DEF GoodList, EventLists
<1>4. /\ R.slot \in [Slots -> Slot]
      /\ \A k \in Slots : R.slot[k] =
           IF k = last THEN [L.slot[last] EXCEPT !.valid = FALSE]
           ELSE IF k = i THEN L.slot[last] ELSE L.slot[k]
  <2> DEFINE moved == [L.slot EXCEPT ![i] = L.slot[last]]
  <2>1. moved \in [Slots -> Slot] /\ \A k \in Slots : moved[k] = IF k = i THEN L.slot[last] ELSE L.slot[k]
    BY <1>1, <1>3 DEF GoodList, EventLists
  <2>2. moved[last] = L.slot[last]
    BY <1>1, <2>1
  <2>3. [moved[last] EXCEPT !.valid = FALSE] \in Slot
    BY <1>1, <2>1 DEF Slot
  <2>4. R.slot = [moved EXCEPT ![last] = [moved[last] EXCEPT !.valid = FALSE]]
    BY <1>2
  <2> HIDE DEF moved
  <2> QED
    BY <2>1, <2>2, <2>3, <2>4, <1>1
<1>5. R \in EventLists
  BY <1>1, <1>2, <1>4, SizeAssumption DEF GoodList, EventLists, Slots
<1>6. R.slot[last].valid = FALSE
  BY <1>1, <1>3, <1>4 DEF Slot
<1>7. IsPacked(R)
  BY <1>1, <1>2, <1>3, <1>4, <1>6 DEF IsPacked, GoodList, Slots
<1>8. IsCallable(R)
  <2> SUFFICES ASSUME NEW k \in Scanned(R) PROVE R.slot[k].cb # NoCallback
    BY DEF IsCallable
  <2>1. k \in Slots /\ k # last /\ k \in Scanned(L) /\ last \in Scanned(L)
    BY <1>1, <1>2, SizeAssumption DEF Scanned, Slots
  <2> QED
    BY <2>1, <1>4 DEF IsCallable, GoodList
<1> QED
  BY <1>5, <1>7, <1>8 DEF GoodList

\* AdjustCallbackTime touches one time and nothing else.
LEMMA RetimedAtGood ==
    ASSUME NEW L, GoodList(L), NEW i \in Scanned(L), NEW t \in Int
    PROVE  GoodList(RetimedAt(L, i, t))
<1> DEFINE R == RetimedAt(L, i, t)
<1>1. i \in Slots /\ ClampDueEventTime(t) \in Int
  BY SizeAssumption DEF GoodList, EventLists, Slots, Scanned, ClampDueEventTime
<1>2. R = [slot |-> R.slot, count |-> L.count, next |-> L.next]
  BY DEF RetimedAt, GoodList, EventLists
<1>3. /\ R.slot \in [Slots -> Slot]
      /\ \A k \in Slots : R.slot[k].valid = L.slot[k].valid /\ R.slot[k].cb = L.slot[k].cb
  BY <1>1 DEF RetimedAt, GoodList, EventLists, Slot
<1>4. Scanned(L) \subseteq Slots
  BY SizeAssumption DEF GoodList, EventLists, Slots, Scanned
<1> QED
  BY <1>2, <1>3, <1>4 DEF GoodList, EventLists, IsPacked, IsCallable, Scanned

\* GetTimeToNextEvent touches the cached index alone.
LEMMA PeekedGood ==
    ASSUME NEW L, GoodList(L)
    PROVE  /\ GoodList(Peeked(L))
           /\ Peeked(L).count = L.count
           /\ Peeked(L).slot = L.slot
           /\ L.count > 0 => Peeked(L).next \in Scanned(L)
<1>1. L.count \in 0 .. Size /\ Size \in Nat \ {0}
  BY SizeAssumption DEF GoodList, EventLists
<1>2. EarliestSlot(L) \in Slots /\ (L.count > 0 => EarliestSlot(L) \in Scanned(L))
  <2>1. CASE L.count = 0
    BY <2>1, <1>1 DEF EarliestSlot, Slots
  <2>2. CASE L.count > 0
    BY <2>2, <1>1, EarliestSlotLive DEF GoodList, Scanned, Slots
  <2> QED
    BY <2>1, <2>2, <1>1
<1>3. Peeked(L) = [slot |-> L.slot, count |-> L.count, next |-> EarliestSlot(L)]
  BY DEF Peeked, GoodList, EventLists
<1> QED
  BY <1>2, <1>3 DEF GoodList, EventLists, IsPacked, IsCallable, Scanned

\* SubtractEventTimes touches the times alone.
LEMMA ElapsedGood ==
    ASSUME NEW L, GoodList(L), NEW d \in Int
    PROVE  /\ GoodList(Elapsed(L, d))
           /\ Elapsed(L, d).count = L.count
           /\ Elapsed(L, d).next = L.next
<1> DEFINE R == Elapsed(L, d)
<1>1. R = [slot |-> R.slot, count |-> L.count, next |-> L.next]
  BY DEF Elapsed, GoodList, EventLists
<1>2. \A k \in Slots : L.slot[k] \in Slot
  BY DEF GoodList, EventLists
<1>3. /\ R.slot \in [Slots -> Slot]
      /\ \A k \in Slots : R.slot[k].valid = L.slot[k].valid /\ R.slot[k].cb = L.slot[k].cb
  BY <1>2 DEF Elapsed, GoodList, EventLists, Slot
<1>4. Scanned(L) \subseteq Slots
  BY SizeAssumption DEF GoodList, EventLists, Slots, Scanned
<1> QED
  BY <1>1, <1>3, <1>4 DEF GoodList, EventLists, IsPacked, IsCallable, Scanned

\* HandleNextEvent: the times go down, then the event is swapped out.
LEMMA DispatchedGood ==
    ASSUME NEW L, GoodList(L), L.count > 0
    PROVE  GoodList(Dispatched(L)) /\ TimeToNextEvent(L) \in Nat
<1> DEFINE P == Peeked(L)
           d == ClampDueEventTime(P.slot[P.next].time)
<1>1. GoodList(P) /\ P.next \in Scanned(L) /\ P.count = L.count /\ P.slot = L.slot
  BY PeekedGood
<1>2. P.next \in Slots
  BY <1>1, SizeAssumption DEF GoodList, EventLists, Slots, Scanned
<1>3. P.slot[P.next].time \in Int
  BY <1>1, <1>2 DEF GoodList, EventLists, Slot
<1>4. d \in Nat
  BY <1>3 DEF ClampDueEventTime
<1>5. GoodList(Elapsed(P, d)) /\ Elapsed(P, d).count = L.count
  BY <1>1, <1>4, ElapsedGood
<1>6. P.next \in Scanned(Elapsed(P, d))
  BY <1>1, <1>5 DEF Scanned
<1>7. GoodList(Dispatched(L))
  BY <1>5, <1>6, RemovedAtGood DEF Dispatched
<1>8. P.next = EarliestSlot(L)
  BY DEF Peeked, GoodList, EventLists
<1>9. TimeToNextEvent(L) = d
  BY <1>1, <1>8 DEF TimeToNextEvent
<1> QED
  BY <1>4, <1>7, <1>9

-----------------------------------------------------------------------------
(* Loading: the survivors of an image have the ranks 0 .. w - 1.           *)

\* A set of slots, the part of it below a slot included, is finite.
LEMMA SlotSetFinite ==
    ASSUME NEW S \in SUBSET Slots
    PROVE  IsFiniteSet(S) /\ Cardinality(S) \in 0 .. Size
<1>1. IsFiniteSet(0 .. Size - 1) /\ Cardinality(0 .. Size - 1) = Size
  BY FS_Interval, SizeAssumption
<1>2. IsFiniteSet(S) /\ Cardinality(S) <= Cardinality(0 .. Size - 1)
  BY <1>1, FS_Subset DEF Slots
<1> QED
  BY <1>1, <1>2, FS_CardinalityType, SizeAssumption

\* One slot further, the rank grows by one exactly behind a survivor.
LEMMA RankStep ==
    ASSUME NEW S \in SUBSET Slots, NEW i \in Nat
    PROVE  /\ Rank(i, S) \in Nat
           /\ Rank(i + 1, S) = IF i \in S THEN Rank(i, S) + 1 ELSE Rank(i, S)
<1>1. Below(i, S) \in SUBSET Slots
  BY DEF Below
<1>2. IsFiniteSet(Below(i, S)) /\ Cardinality(Below(i, S)) \in Nat
  BY <1>1, SlotSetFinite
<1>3. \A j \in S : j \in Nat
  BY SizeAssumption DEF Slots
<1>4. Below(i + 1, S) = IF i \in S THEN Below(i, S) \cup {i} ELSE Below(i, S)
  BY <1>3 DEF Below
<1>5. i \notin Below(i, S)
  BY DEF Below
<1> QED
  BY <1>2, <1>4, <1>5, FS_AddElement DEF Rank

\* Rank is where a survivor lands.  Every target index below w is hit: the
\* first survivor whose rank reaches k has rank exactly k.
LEMMA RankOnto ==
    ASSUME NEW S \in SUBSET Slots, NEW k \in Nat, k < Cardinality(S)
    PROVE  \E i \in S : Rank(i, S) = k
<1> DEFINE High == {i \in Nat : k < Rank(i, S)}
<1>1. \A i \in Nat : Rank(i, S) \in Nat
  BY RankStep
<1>2. Below(Size, S) = S /\ Below(0, S) = {}
  <2>1. \A j \in S : j < Size /\ ~(j < 0)
    BY SizeAssumption DEF Slots
  <2> QED
    BY <2>1 DEF Below
<1>3. Size \in High /\ High \in SUBSET Nat
  BY <1>2, SizeAssumption DEF Rank
<1>4. PICK m \in High : \A n \in High : m <= n
  BY <1>3, LeastMember
<1>5. m # 0
  BY <1>2, <1>4, FS_EmptySet DEF Rank
<1>6. m - 1 \in Nat /\ m - 1 \notin High
  BY <1>4, <1>5
<1>7. Rank(m - 1, S) <= k /\ k < Rank(m, S) /\ Rank(m - 1, S) \in Nat
  BY <1>1, <1>4, <1>6
<1>8. Rank(m, S) = IF m - 1 \in S THEN Rank(m - 1, S) + 1 ELSE Rank(m - 1, S)
  <2>1. (m - 1) + 1 = m
    BY <1>4
  <2> QED
    BY <2>1, <1>6, RankStep
<1> QED
  BY <1>7, <1>8

\* EventStateLoad packs the survivors of any image to the front.
LEMMA LoadedListGood ==
    ASSUME NEW img \in Images
    PROVE  GoodList(LoadedList(img))
<1> DEFINE Keep == Survivors(img)
           w == Cardinality(Keep)
           From(k) == CHOOSE i \in Keep : Rank(i, Keep) = k
           R == LoadedList(img)
<1>1. Keep \in SUBSET Slots /\ w \in 0 .. Size
  BY SlotSetFinite DEF Survivors
<1>2. \A k \in Slots : k < w => From(k) \in Keep
  BY <1>1, RankOnto, SizeAssumption DEF Slots
<1>3. R = [slot  |-> [k \in Slots |-> IF k < w THEN img.slot[From(k)]
                                              ELSE [img.slot[k] EXCEPT !.valid = FALSE]],
           count |-> w, next  |-> img.next]
  BY DEF LoadedList
<1>4. /\ img.next \in Slots
      /\ \A k \in Slots : img.slot[k] \in Slot
      /\ \A i \in Keep : i \in Slots /\ img.slot[i].valid = TRUE /\ img.slot[i].cb # NoCallback
  BY DEF Images, Survivors, Slot
<1> HIDE DEF Keep, w, From, R
<1>5. \A k \in Slots : R.slot[k] = IF k < w THEN img.slot[From(k)] ELSE [img.slot[k] EXCEPT !.valid = FALSE]
  BY <1>3
<1>6. \A k \in Slots : /\ R.slot[k] \in Slot
                       /\ R.slot[k].valid <=> k < w
                       /\ k < w => R.slot[k].cb # NoCallback
  <2> SUFFICES ASSUME NEW k \in Slots
               PROVE  /\ R.slot[k] \in Slot
                      /\ R.slot[k].valid <=> k < w
                      /\ k < w => R.slot[k].cb # NoCallback
    OBVIOUS
  <2>1. CASE k < w
    BY <2>1, <1>2, <1>4, <1>5
  <2>2. CASE ~(k < w)
    <3>1. [img.slot[k] EXCEPT !.valid = FALSE] \in Slot /\ [img.slot[k] EXCEPT !.valid = FALSE].valid = FALSE
      BY <1>4 DEF Slot
    <3> QED
      BY <2>2, <3>1, <1>5
  <2> QED
    BY <2>1, <2>2
<1>7. R \in EventLists
  BY <1>1, <1>3, <1>4, <1>6 DEF EventLists
<1>8. R.count = w /\ Scanned(R) \subseteq Slots /\ \A k \in Scanned(R) : k < w
  BY <1>1, <1>3, SizeAssumption DEF Scanned, Slots
<1> QED
  BY <1>6, <1>7, <1>8 DEF GoodList, IsPacked, IsCallable, R

\* What EventStateSave writes, EventStateLoad accepts.
LEMMA SavedImageType ==
    ASSUME NEW L \in EventLists
    PROVE  SavedImage(L) \in Images
<1>1. \A i \in Slots : L.slot[i] \in Slot
  BY DEF EventLists
<1>2. \A i \in Slots : [L.slot[i] EXCEPT !.cb = IF @ \in Registered THEN @ ELSE NoCallback] \in Slot
  BY <1>1 DEF Slot
<1> QED
  BY <1>2 DEF SavedImage, Images, EventLists

-----------------------------------------------------------------------------

IInv == list \in [Lists -> EventLists] /\ Packed /\ Callable /\ clock \in [Lists -> Nat]

\* The invariant, list by list.
LEMMA IInvLists == IInv <=> /\ list \in [Lists -> EventLists]
                            /\ \A l \in Lists : GoodList(list[l])
                            /\ clock \in [Lists -> Nat]
BY DEF IInv, Packed, Callable, GoodList

\* The initial state satisfies it.
LEMMA IInvInit == Init => IInv
<1>1. GoodList(ZeroList)
  BY SizeAssumption DEF GoodList, ZeroList, EventLists, Slots, Slot, IsPacked, IsCallable, Scanned
<1> QED
  BY <1>1, IInvLists DEF Init, GoodList

\* Every operation keeps it: one step for each, citing the operation's lemma.
LEMMA IInvNext == IInv /\ [Next]_vars => IInv'
<1> SUFFICES ASSUME IInv, [Next]_vars PROVE IInv'
  OBVIOUS
<1>i. /\ list \in [Lists -> EventLists]
      /\ \A l \in Lists : GoodList(list[l])
      /\ clock \in [Lists -> Nat]
  BY IInvLists
<1>g. SUFFICES /\ list' \in [Lists -> EventLists]
               /\ \A l \in Lists : GoodList(list'[l])
               /\ clock' \in [Lists -> Nat]
  BY DEF IInv, Packed, Callable, GoodList
<1>u. ASSUME NEW l \in Lists, NEW L, GoodList(L), list' = [list EXCEPT ![l] = L]
      PROVE  list' \in [Lists -> EventLists] /\ \A m \in Lists : GoodList(list'[m])
  BY <1>i, <1>u DEF GoodList
<1>n. ASSUME NEW l \in Lists, NEW cb
      PROVE  /\ HolderOf(cb) \in Lists
             /\ Matching(list[l], cb) # {} => FirstOf(Matching(list[l], cb)) \in Scanned(list[l])
  <2>1. Matching(list[l], cb) \in SUBSET Nat
    BY <1>i DEF Matching, Scanned, EventLists
  <2>2. Matching(list[l], cb) # {} => FirstOf(Matching(list[l], cb)) \in Matching(list[l], cb)
    BY <2>1, FirstOfMember
  <2> QED
    BY <2>2 DEF Matching, HolderOf, Lists
<1>1. CASE InitializeEventList
  BY <1>1, <1>i, ClearedGood DEF InitializeEventList, GoodList
<1>2. ASSUME NEW cb \in Callbacks, NEW t \in Delays, NEW l \in Home[cb], SetCallbackTime(cb, t, l)
      PROVE  <1>g!1
  <2>1. t \in Int /\ l \in Lists
    BY DelayAssumption, HomeAssumption
  <2>2. GoodList(Pushed(list[l], cb, t))
    BY <2>1, <1>i, PushedGood
  <2> QED
    BY <2>1, <2>2, <1>2, <1>i, <1>u DEF SetCallbackTime
<1>3. ASSUME NEW cb \in Callbacks, RemoveCallback(cb)
      PROVE  <1>g!1
  <2> DEFINE l == HolderOf(cb)
             M == Matching(list[l], cb)
  <2>1. l \in Lists
    BY <1>n DEF Lists
  <2>2. CASE M = {}
    BY <2>2, <1>3, <1>i DEF RemoveCallback
  <2>3. CASE M # {}
    <3>1. GoodList(RemovedAt(list[l], FirstOf(M)))
      BY <2>1, <2>3, <1>i, <1>n, RemovedAtGood
    <3> QED
      BY <3>1, <2>1, <2>3, <1>3, <1>i, <1>u DEF RemoveCallback
  <2> QED
    BY <2>2, <2>3
<1>4. ASSUME NEW cb \in Callbacks, NEW t \in Delays, AdjustCallbackTime(cb, t)
      PROVE  <1>g!1
  <2> DEFINE l == HolderOf(cb)
             M == Matching(list[l], cb)
  <2>1. l \in Lists /\ t \in Int
    BY <1>n, DelayAssumption DEF Lists
  <2>2. CASE M = {}
    BY <2>2, <1>4, <1>i DEF AdjustCallbackTime
  <2>3. CASE M # {}
    <3>1. GoodList(RetimedAt(list[l], FirstOf(M), t))
      BY <2>1, <2>3, <1>i, <1>n, RetimedAtGood
    <3> QED
      BY <3>1, <2>1, <2>3, <1>4, <1>i, <1>u DEF AdjustCallbackTime
  <2> QED
    BY <2>2, <2>3
<1>5. ASSUME NEW l \in Lists, GetTimeToNextEvent(l)
      PROVE  <1>g!1
  BY <1>5, <1>i, <1>u, PeekedGood DEF GetTimeToNextEvent
<1>6. ASSUME NEW l \in Lists, HandleNextEvent(l)
      PROVE  <1>g!1
  <2>1. CASE list[l].count = 0
    BY <2>1, <1>5, <1>6 DEF HandleNextEvent
  <2>2. CASE list[l].count # 0
    <3>1. GoodList(Dispatched(list[l])) /\ TimeToNextEvent(list[l]) \in Nat
      BY <2>2, <1>i, DispatchedGood DEF EventLists
    <3>2. /\ list' = [list EXCEPT ![l] = Dispatched(list[l])]
          /\ clock' = [clock EXCEPT ![l] = @ + TimeToNextEvent(list[l])]
      BY <2>2, <1>6 DEF HandleNextEvent
    <3>3. clock' \in [Lists -> Nat]
      BY <3>1, <3>2, <1>i
    <3> QED
      BY <3>1, <3>2, <3>3, <1>u
  <2> QED
    BY <2>1, <2>2
<1>7. ASSUME NEW d \in Slices, NEW l \in Lists, SubtractEventTimes(d, l)
      PROVE  <1>g!1
  <2>1. d \in Nat
    BY DelayAssumption
  <2>2. GoodList(Elapsed(list[l], d))
    BY <2>1, <1>i, ElapsedGood
  <2>3. clock' \in [Lists -> Nat]
    BY <2>1, <1>7, <1>i DEF SubtractEventTimes
  <2> QED
    BY <2>2, <2>3, <1>7, <1>u DEF SubtractEventTimes
<1>8. ASSUME NEW img \in [Lists -> Images], EventStateLoad(img)
      PROVE  <1>g!1
  BY <1>8, <1>i, LoadedListGood DEF EventStateLoad, GoodList
<1>9. EventStateSave \in [Lists -> Images]
  BY <1>i, SavedImageType DEF EventStateSave
<1>10. CASE UNCHANGED vars
  BY <1>10, <1>i DEF vars
<1> QED
  BY <1>1, <1>2, <1>3, <1>4, <1>5, <1>6, <1>7, <1>8, <1>9, <1>10, OldImageAssumption DEF Next

\* event.c never leaves the types of its slots, counts and cached indices.
THEOREM TypeCorrect == Spec => []TypeOK
<1>1. IInv => TypeOK
  BY DEF IInv, TypeOK
<1> QED
  BY <1>1, IInvInit, IInvNext, PTL DEF Spec

\* The packing invariant event.c states above eventCount, for lists of any size.
THEOREM PackedAlways == Spec => []Packed
<1>1. IInv => Packed
  BY DEF IInv
<1> QED
  BY <1>1, IInvInit, IInvNext, PTL DEF Spec

\* HandleNextEvent never calls NULL, whatever images were loaded before.
THEOREM CallableAlways == Spec => []Callable
<1>1. IInv => Callable
  BY DEF IInv
<1> QED
  BY <1>1, IInvInit, IInvNext, PTL DEF Spec

-----------------------------------------------------------------------------
(* Bags of the values of a function on slots.                              *)

CountOf(f, e) == Cardinality({i \in DOMAIN f : f[i] = e})

\* A bag with one timer more, and with one less.
Plus(B, e) == [x \in DOMAIN B \cup {e} |-> IF x # e THEN B[x]
                                           ELSE IF e \in DOMAIN B THEN B[e] + 1 ELSE 1]
Minus(B, e) == [x \in {x \in DOMAIN B : x # e \/ B[e] > 1} |-> IF x = e THEN B[e] - 1 ELSE B[x]]

IsBag(B) == B \in [DOMAIN B -> Nat \ {0}]

\* TimerBag counts as this module does.
LEMMA SameCardinality ==
    ASSUME NEW S
    PROVE  Abstract!Cardinality(S) = Cardinality(S)
  BY DEF Abstract!Cardinality, Cardinality

\* TimerBag's sum and difference with a bag of one timer.
LEMMA AbstractPlus ==
    ASSUME NEW B, IsBag(B), NEW e
    PROVE  Abstract!(+)(B, Abstract!SetToBag({e})) = Plus(B, e)
<1>1. \A x \in DOMAIN B : B[x] \in Nat
  BY DEF IsBag
<1> QED
  BY <1>1 DEF Abstract!(+), Abstract!SetToBag, Plus

LEMMA AbstractMinus ==
    ASSUME NEW B, IsBag(B), NEW e \in DOMAIN B
    PROVE  Abstract!(-)(B, Abstract!SetToBag({e})) = Minus(B, e)
<1> DEFINE D == [x \in DOMAIN B |-> IF x \in {e} THEN B[x] - 1 ELSE B[x]]
<1>1. \A x \in DOMAIN B : B[x] \in Nat /\ B[x] > 0
  BY DEF IsBag
<1>2. DOMAIN D = DOMAIN B /\ \A x \in DOMAIN B : D[x] = IF x = e THEN B[x] - 1 ELSE B[x]
  OBVIOUS
<1>3. Abstract!(-)(B, Abstract!SetToBag({e})) = [x \in {x \in DOMAIN D : D[x] > 0} |-> D[x]]
  BY DEF Abstract!(-), Abstract!SetToBag
<1> HIDE DEF D
<1>4. {x \in DOMAIN D : D[x] > 0} = {x \in DOMAIN B : x # e \/ B[e] > 1}
  BY <1>1, <1>2
<1> QED
  BY <1>2, <1>3, <1>4 DEF Minus

LEMMA BagIs ==
    ASSUME NEW f, DOMAIN f \in SUBSET Slots
    PROVE  /\ \A e : CountOf(f, e) \in Nat /\ (CountOf(f, e) = 0 <=> \A i \in DOMAIN f : f[i] # e)
           /\ DOMAIN BagOfValues(f) = {f[i] : i \in DOMAIN f}
           /\ \A e \in DOMAIN BagOfValues(f) : BagOfValues(f)[e] = CountOf(f, e)
           /\ IsBag(BagOfValues(f))
<1>1. ASSUME NEW e
      PROVE  CountOf(f, e) \in Nat /\ (CountOf(f, e) = 0 <=> \A i \in DOMAIN f : f[i] # e)
  <2>1. {i \in DOMAIN f : f[i] = e} \in SUBSET Slots
    OBVIOUS
  <2>2. CountOf(f, e) \in Nat /\ IsFiniteSet({i \in DOMAIN f : f[i] = e})
    BY <2>1, SlotSetFinite DEF CountOf
  <2>3. CountOf(f, e) = 0 <=> {i \in DOMAIN f : f[i] = e} = {}
    BY <2>2, FS_EmptySet DEF CountOf
  <2> QED
    BY <2>2, <2>3
<1>2. BagOfValues(f) = [e \in {f[i] : i \in DOMAIN f} |-> CountOf(f, e)]
  BY DEF BagOfValues, CountOf
<1>3. \A e \in {f[i] : i \in DOMAIN f} : CountOf(f, e) \in Nat \ {0}
  BY <1>1
<1> QED
  BY <1>1, <1>2, <1>3 DEF IsBag

\* A bag is determined by how often each timer is in it.
LEMMA SameCounts ==
    ASSUME NEW f, NEW g, DOMAIN f \in SUBSET Slots, DOMAIN g \in SUBSET Slots,
           \A e : CountOf(f, e) = CountOf(g, e)
    PROVE  BagOfValues(f) = BagOfValues(g)
<1>1. \A e : (\E i \in DOMAIN f : f[i] = e) <=> (\E i \in DOMAIN g : g[i] = e)
  <2>1. \A e : CountOf(f, e) = 0 <=> \A i \in DOMAIN f : f[i] # e
    BY BagIs
  <2>2. \A e : CountOf(g, e) = 0 <=> \A i \in DOMAIN g : g[i] # e
    BY BagIs
  <2> QED
    BY <2>1, <2>2
<1>2. {f[i] : i \in DOMAIN f} = {g[i] : i \in DOMAIN g}
  BY <1>1, Zenon
<1> QED
  BY <1>2 DEF BagOfValues, CountOf

\* One slot more holds one timer more.
LEMMA OneMore ==
    ASSUME NEW f, NEW g, NEW j \in Slots, DOMAIN f \in SUBSET Slots, j \notin DOMAIN f,
           DOMAIN g = DOMAIN f \cup {j}, \A i \in DOMAIN f : g[i] = f[i]
    PROVE  /\ BagOfValues(g) = Plus(BagOfValues(f), g[j])
           /\ BagOfValues(f) = Minus(BagOfValues(g), g[j])
<1> DEFINE F == BagOfValues(f)
           G == BagOfValues(g)
<1>1. DOMAIN g \in SUBSET Slots
  OBVIOUS
<1>2. ASSUME NEW e
      PROVE  CountOf(g, e) = IF e = g[j] THEN CountOf(f, e) + 1 ELSE CountOf(f, e)
  <2>1. {i \in DOMAIN f : f[i] = e} \in SUBSET Slots /\ j \notin {i \in DOMAIN f : f[i] = e}
    OBVIOUS
  <2>2. {i \in DOMAIN g : g[i] = e} =
            IF e = g[j] THEN {i \in DOMAIN f : f[i] = e} \cup {j} ELSE {i \in DOMAIN f : f[i] = e}
    OBVIOUS
  <2> QED
    BY <2>1, <2>2, SlotSetFinite, FS_AddElement DEF CountOf
<1>3. /\ DOMAIN F = {f[i] : i \in DOMAIN f} /\ \A e \in DOMAIN F : F[e] = CountOf(f, e)
      /\ DOMAIN G = {g[i] : i \in DOMAIN g} /\ \A e \in DOMAIN G : G[e] = CountOf(g, e)
      /\ \A e : CountOf(f, e) \in Nat /\ (CountOf(f, e) = 0 <=> e \notin DOMAIN F)
  <2>1. /\ DOMAIN G = {g[i] : i \in DOMAIN g} /\ \A e \in DOMAIN G : G[e] = CountOf(g, e)
    BY <1>1, BagIs
  <2>2. /\ DOMAIN F = {f[i] : i \in DOMAIN f} /\ \A e \in DOMAIN F : F[e] = CountOf(f, e)
        /\ \A e : CountOf(f, e) \in Nat /\ (CountOf(f, e) = 0 <=> \A i \in DOMAIN f : f[i] # e)
    BY BagIs
  <2> HIDE DEF F, G
  <2>3. \A e : e \in DOMAIN F <=> \E i \in DOMAIN f : f[i] = e
    BY <2>2
  <2> QED
    BY <2>1, <2>2, <2>3
<1>4. F = [e \in DOMAIN F |-> F[e]] /\ G = [e \in DOMAIN G |-> G[e]]
  BY DEF BagOfValues
<1>5. DOMAIN G = DOMAIN F \cup {g[j]}
  BY <1>3
<1> HIDE DEF F, G
<1>6. \A e \in DOMAIN G : G[e] = IF e # g[j] THEN F[e] ELSE IF g[j] \in DOMAIN F THEN F[g[j]] + 1 ELSE 1
  BY <1>2, <1>3, <1>5
<1>7. G = Plus(F, g[j])
  BY <1>4, <1>5, <1>6 DEF Plus
<1>8. DOMAIN F = {x \in DOMAIN G : x # g[j] \/ G[g[j]] > 1}
  BY <1>2, <1>3, <1>5
<1>9. \A e \in DOMAIN F : F[e] = IF e = g[j] THEN G[g[j]] - 1 ELSE G[e]
  BY <1>2, <1>3, <1>5
<1>10. F = Minus(G, g[j])
  BY <1>4, <1>8, <1>9 DEF Minus
<1> QED
  BY <1>7, <1>10 DEF F, G

\* Moving timers to other slots keeps the bag.
LEMMA Relabelled ==
    ASSUME NEW f, NEW g, DOMAIN f \in SUBSET Slots, DOMAIN g \in SUBSET Slots,
           NEW p \in Bijection(DOMAIN g, DOMAIN f), \A i \in DOMAIN g : g[i] = f[p[i]]
    PROVE  BagOfValues(g) = BagOfValues(f)
<1> SUFFICES ASSUME NEW e PROVE CountOf(f, e) = CountOf(g, e)
  BY SameCounts
<1> DEFINE F == {i \in DOMAIN f : f[i] = e}
           G == {i \in DOMAIN g : g[i] = e}
           r == [i \in G |-> p[i]]
<1>1. /\ p \in [DOMAIN g -> DOMAIN f] /\ \A i, k \in DOMAIN g : p[i] = p[k] => i = k
      /\ \A t \in DOMAIN f : \E i \in DOMAIN g : p[i] = t
  <2>1. p \in Injection(DOMAIN g, DOMAIN f) /\ p \in Surjection(DOMAIN g, DOMAIN f)
    BY DEF Bijection
  <2> QED
    BY <2>1 DEF Injection, Surjection, IsInjective
<1>2. r \in [G -> F] /\ \A i, k \in G : r[i] = r[k] => i = k
  BY <1>1
<1>3. \A t \in F : \E i \in G : r[i] = t
  BY <1>1
<1>4. r \in Bijection(G, F)
  <2> HIDE DEF r, F, G
  <2>1. r \in Injection(G, F)
    BY <1>2 DEF Injection, IsInjective
  <2>2. r \in Surjection(G, F)
    BY <1>2, <1>3 DEF Surjection
  <2> QED
    BY <2>1, <2>2 DEF Bijection
<1>5. IsFiniteSet(G)
  BY SlotSetFinite
<1> QED
  BY <1>4, <1>5, FS_Bijection DEF CountOf, ExistsBijection

-----------------------------------------------------------------------------
(* The bags TimerBag talks about: copies, losses, new clocks, packing.     *)

\* The copies of the timers in a bag are as many as the slots that hold them.
LEMMA CopiesOfSlots ==
    ASSUME NEW f, DOMAIN f \in SUBSET Slots
    PROVE  Cardinality(Abstract!Copies(BagOfValues(f))) = Cardinality(DOMAIN f)
<1> DEFINE B == BagOfValues(f)
           C == Abstract!Copies(B)
           Fibre(e) == {i \in DOMAIN f : f[i] = e}
           Number(e) == CHOOSE b : b \in Bijection(1 .. CountOf(f, e), Fibre(e))
           p == [c \in C |-> Number(c[1])[c[2]]]
<1>1. /\ DOMAIN B = {f[i] : i \in DOMAIN f} /\ \A e \in DOMAIN B : B[e] = CountOf(f, e)
      /\ \A e : CountOf(f, e) \in Nat
  BY BagIs
<1>2. \A c : c \in C <=> \E e \in DOMAIN B : \E k \in 1 .. CountOf(f, e) : c = <<e, k>>
  BY <1>1 DEF Abstract!Copies, Abstract!BagToSet
<1>3. ASSUME NEW e
      PROVE  Number(e) \in Bijection(1 .. CountOf(f, e), Fibre(e))
  <2>1. Fibre(e) \in SUBSET Slots
    OBVIOUS
  <2>2. ExistsBijection(1 .. CountOf(f, e), Fibre(e))
    BY <2>1, SlotSetFinite, FS_CardinalityType DEF CountOf
  <2> QED
    BY <2>2 DEF ExistsBijection
<1>4. ASSUME NEW e
      PROVE  /\ \A k \in 1 .. CountOf(f, e) : Number(e)[k] \in Fibre(e)
             /\ \A k, m \in 1 .. CountOf(f, e) : Number(e)[k] = Number(e)[m] => k = m
             /\ \A i \in Fibre(e) : \E k \in 1 .. CountOf(f, e) : Number(e)[k] = i
  <2>1. /\ Number(e) \in Injection(1 .. CountOf(f, e), Fibre(e))
        /\ Number(e) \in Surjection(1 .. CountOf(f, e), Fibre(e))
    BY <1>3 DEF Bijection
  <2> HIDE DEF Number, Fibre
  <2> QED
    BY <2>1 DEF Injection, Surjection, IsInjective
<1> HIDE DEF Number, C, B
<1>5. \A e : \A k \in 1 .. CountOf(f, e) : Number(e)[k] \in DOMAIN f /\ f[Number(e)[k]] = e
  BY <1>4
<1>6. p \in [C -> DOMAIN f]
  BY <1>2, <1>5
<1>7. ASSUME NEW c \in C, NEW d \in C, p[c] = p[d]
      PROVE  c = d
  <2>1. PICK e, k : e \in DOMAIN B /\ k \in 1 .. CountOf(f, e) /\ c = <<e, k>>
    BY <1>2
  <2>2. PICK x, m : x \in DOMAIN B /\ m \in 1 .. CountOf(f, x) /\ d = <<x, m>>
    BY <1>2
  <2>3. Number(e)[k] = Number(x)[m]
    BY <1>7, <2>1, <2>2
  <2>4. e = x
    BY <1>5, <2>1, <2>2, <2>3
  <2> QED
    BY <1>4, <2>1, <2>2, <2>3, <2>4
<1>8. ASSUME NEW i \in DOMAIN f
      PROVE  \E c \in C : p[c] = i
  <2>1. f[i] \in DOMAIN B /\ i \in Fibre(f[i])
    BY <1>1
  <2>2. PICK k \in 1 .. CountOf(f, f[i]) : Number(f[i])[k] = i
    BY <1>4, <2>1
  <2>3. <<f[i], k>> \in C
    BY <1>2, <2>1, <2>2
  <2> QED
    BY <2>2, <2>3
<1>9. p \in Bijection(C, DOMAIN f)
  <2> HIDE DEF p
  <2>1. p \in Injection(C, DOMAIN f)
    BY <1>6, <1>7 DEF Injection, IsInjective
  <2>2. p \in Surjection(C, DOMAIN f)
    BY <1>6, <1>8 DEF Surjection
  <2> QED
    BY <2>1, <2>2 DEF Bijection
<1>10. ExistsBijection(DOMAIN f, C)
  BY <1>9, Fun_ExistsBijSymmetric DEF ExistsBijection
<1> QED
  BY <1>10, SlotSetFinite, FS_Bijection DEF C, B

\* Dropping the slots of some callbacks drops their timers and no other.
LEMMA Filtered ==
    ASSUME NEW f, NEW g, DOMAIN f \in SUBSET Slots,
           DOMAIN g = {i \in DOMAIN f : f[i].cb \in Registered}, \A i \in DOMAIN g : g[i] = f[i]
    PROVE  BagOfValues(g) = [e \in {e \in DOMAIN BagOfValues(f) : e.cb \in Registered} |-> BagOfValues(f)[e]]
<1>1. {g[i] : i \in DOMAIN g} = {e \in {f[i] : i \in DOMAIN f} : e.cb \in Registered}
  OBVIOUS
<1>2. ASSUME NEW e \in {g[i] : i \in DOMAIN g}
      PROVE  {i \in DOMAIN g : g[i] = e} = {i \in DOMAIN f : f[i] = e}
  <2>1. e.cb \in Registered
    BY <1>1
  <2> QED
    BY <2>1
<1> QED
  BY <1>1, <1>2 DEF BagOfValues

\* Making relative times absolute keeps the bag.
Absolute(B, n) ==
    [d \in {[cb |-> e.cb, due |-> n + e.left] : e \in DOMAIN B} |->
        B[CHOOSE e \in DOMAIN B : [cb |-> e.cb, due |-> n + e.left] = d]]

LEMMA RebasedTimers ==
    ASSUME NEW f, NEW g, DOMAIN f \in SUBSET Slots, NEW X, NEW n \in Int,
           \A i \in DOMAIN f : f[i] \in [cb : X, left : Int],
           DOMAIN g = DOMAIN f,
           \A i \in DOMAIN g : g[i] = [cb |-> f[i].cb, due |-> n + f[i].left]
    PROVE  BagOfValues(g) = Absolute(BagOfValues(f), n)
<1> DEFINE B == BagOfValues(f)
           At(e) == [cb |-> e.cb, due |-> n + e.left]
<1>1. /\ DOMAIN B = {f[i] : i \in DOMAIN f} /\ \A e \in DOMAIN B : B[e] = CountOf(f, e)
  BY BagIs
<1>2. \A e \in DOMAIN B : e \in [cb : X, left : Int]
  BY <1>1
<1>3. ASSUME NEW e \in DOMAIN B, NEW x \in DOMAIN B, At(e) = At(x)
      PROVE  e = x
  <2>1. e.cb = x.cb /\ n + e.left = n + x.left
    BY <1>3
  <2>2. e.left \in Int /\ x.left \in Int
    BY <1>2
  <2>3. e.left = x.left
    BY <2>1, <2>2
  <2>4. e = [cb |-> e.cb, left |-> e.left] /\ x = [cb |-> x.cb, left |-> x.left]
    BY <1>2
  <2> QED
    BY <2>1, <2>3, <2>4
<1>4. {g[i] : i \in DOMAIN g} = {At(e) : e \in DOMAIN B}
  BY <1>1
<1>5. ASSUME NEW e \in DOMAIN B
      PROVE  /\ Cardinality({i \in DOMAIN g : g[i] = At(e)}) = B[e]
             /\ (CHOOSE x \in DOMAIN B : At(x) = At(e)) = e
  <2>1. \A i \in DOMAIN f : f[i] \in DOMAIN B /\ g[i] = At(f[i])
    BY <1>1
  <2>2. \A i \in DOMAIN f : g[i] = At(e) <=> f[i] = e
    BY <1>3, <2>1
  <2>3. {i \in DOMAIN g : g[i] = At(e)} = {i \in DOMAIN f : f[i] = e}
    BY <2>2
  <2>4. (CHOOSE x \in DOMAIN B : At(x) = At(e)) = e
    <3> HIDE DEF At, B
    <3> QED
      BY <1>3
  <2> QED
    BY <1>1, <2>3, <2>4 DEF CountOf
<1> HIDE DEF B
<1>6. BagOfValues(g) = [d \in {At(e) : e \in DOMAIN B} |-> Cardinality({i \in DOMAIN g : g[i] = d})]
  BY <1>4 DEF BagOfValues
<1>7. \A d \in {At(e) : e \in DOMAIN B} :
          Cardinality({i \in DOMAIN g : g[i] = d}) = B[CHOOSE x \in DOMAIN B : At(x) = d]
  <2> HIDE DEF At
  <2> QED
    BY <1>5
<1>8. BagOfValues(g) = [d \in {At(e) : e \in DOMAIN B} |-> B[CHOOSE x \in DOMAIN B : At(x) = d]]
  <2> HIDE DEF At
  <2> QED
    BY <1>6, <1>7
<1> QED
  BY <1>8 DEF B, Absolute

\* The slots of a loaded list hold the timers of the survivors.
LEMMA LoadedTimers ==
    ASSUME NEW img \in Images, NEW n, NEW f, DOMAIN f = Survivors(img),
           \A i \in DOMAIN f : f[i] = [cb |-> img.slot[i].cb, due |-> n + img.slot[i].time]
    PROVE  BagOfValues(HeldTimers(LoadedList(img), n)) = BagOfValues(f)
<1> DEFINE Keep == Survivors(img)
           w == Cardinality(Keep)
           From(k) == CHOOSE i \in Keep : Rank(i, Keep) = k
           R == LoadedList(img)
           p == [k \in 0 .. w - 1 |-> From(k)]
           g == HeldTimers(R, n)
<1>1. Keep \in SUBSET Slots /\ w \in 0 .. Size /\ IsFiniteSet(Keep) /\ w \in Nat
  BY SlotSetFinite, SizeAssumption DEF Survivors
<1>2. \A k \in 0 .. w - 1 : k \in Slots /\ k < w /\ From(k) \in Keep /\ Rank(From(k), Keep) = k
  BY <1>1, RankOnto, SizeAssumption DEF Slots
<1>3. R = [slot  |-> [k \in Slots |-> IF k < w THEN img.slot[From(k)]
                                              ELSE [img.slot[k] EXCEPT !.valid = FALSE]],
           count |-> w, next  |-> img.next]
  BY DEF LoadedList
<1>4. \A k \in Slots : img.slot[k] \in Slot
  BY DEF Images
<1>5. \A i \in Keep : img.slot[i].valid = TRUE
  BY <1>4 DEF Survivors, Slot
<1> HIDE DEF From, Keep, R, w
<1>6. \A k \in Slots : R.slot[k] = IF k < w THEN img.slot[From(k)] ELSE [img.slot[k] EXCEPT !.valid = FALSE]
  BY <1>3
<1>7. \A k \in Slots : R.slot[k].valid <=> k < w
  <2> SUFFICES ASSUME NEW k \in Slots PROVE R.slot[k].valid <=> k < w
    OBVIOUS
  <2>1. CASE k < w
    <3>1. k \in 0 .. w - 1
      BY <1>1, <2>1, SizeAssumption DEF Slots
    <3> QED
      BY <1>2, <1>5, <1>6, <2>1, <3>1
  <2>2. CASE ~(k < w)
    <3>1. [img.slot[k] EXCEPT !.valid = FALSE].valid = FALSE
      BY <1>4 DEF Slot
    <3> QED
      BY <1>6, <2>2, <3>1
  <2> QED
    BY <2>1, <2>2
<1>8. {i \in Slots : R.slot[i].valid} = 0 .. w - 1
  <2>1. \A k \in Slots : k < w <=> k \in 0 .. w - 1
    BY <1>1, SizeAssumption DEF Slots
  <2> QED
    BY <1>2, <1>7, <2>1
<1>9. g = [k \in 0 .. w - 1 |-> [cb |-> R.slot[k].cb, due |-> n + R.slot[k].time]]
  BY <1>8 DEF HeldTimers
<1>10. DOMAIN g = 0 .. w - 1 /\ DOMAIN g \in SUBSET Slots
  BY <1>2, <1>9
<1>11. \A k \in DOMAIN g : g[k] = f[p[k]]
  <2> SUFFICES ASSUME NEW k \in 0 .. w - 1 PROVE g[k] = f[p[k]]
    BY <1>10
  <2>1. R.slot[k] = img.slot[From(k)] /\ p[k] = From(k) /\ From(k) \in DOMAIN f
    BY <1>2, <1>6 DEF Keep
  <2> HIDE DEF g, p
  <2>2. g[k] = [cb |-> R.slot[k].cb, due |-> n + R.slot[k].time]
    BY <1>9
  <2> QED
    BY <2>1, <2>2
<1>12. p \in Injection(0 .. w - 1, Keep)
  <2>1. p \in [0 .. w - 1 -> Keep]
    BY <1>2
  <2>2. \A k, m \in 0 .. w - 1 : p[k] = p[m] => k = m
    BY <1>2
  <2> HIDE DEF p
  <2> QED
    BY <2>1, <2>2 DEF Injection, IsInjective
<1>13. Cardinality(0 .. w - 1) = w
  BY <1>1, FS_Interval
<1>14. p \in Surjection(0 .. w - 1, Keep)
  <2> HIDE DEF p
  <2> QED
    BY <1>1, <1>12, <1>13, FS_Injection DEF w
<1>15. p \in Bijection(DOMAIN g, DOMAIN f)
  <2> HIDE DEF p, g
  <2> QED
    BY <1>10, <1>12, <1>14 DEF Bijection, Keep
<1> HIDE DEF p, g
<1>16. BagOfValues(g) = BagOfValues(f)
  BY <1>1, <1>10, <1>11, <1>15, Relabelled DEF Keep
<1> QED
  BY <1>16 DEF g, R

-----------------------------------------------------------------------------
(* What each operation of a list does to the timers it holds.              *)

\* The timers of a packed list are those of its live slots.
LEMMA TimersAreLive ==
    ASSUME NEW L, GoodList(L), NEW n \in Int
    PROVE  /\ HeldTimers(L, n) = [i \in Scanned(L) |-> [cb |-> L.slot[i].cb, due |-> n + L.slot[i].time]]
           /\ DOMAIN HeldTimers(L, n) = Scanned(L) /\ Scanned(L) \in SUBSET Slots
           /\ Cardinality(Scanned(L)) = L.count
           /\ L.count \in Nat /\ L.count <= Size /\ Size \in Nat
           /\ \A i \in Scanned(L) : /\ i \in Slots /\ L.slot[i] \in Slot
                                    /\ L.slot[i].time \in Int /\ L.slot[i].cb \in Callbacks
           /\ \A i \in Slots : L.slot[i].valid <=> i \in Scanned(L)
<1>1. /\ L.count \in Nat /\ L.count <= Size /\ Size \in Nat /\ \A i \in Slots : L.slot[i] \in Slot
      /\ \A i \in Slots : L.slot[i].valid <=> i < L.count
      /\ \A i \in Scanned(L) : L.slot[i].cb # NoCallback
  BY SizeAssumption DEF GoodList, EventLists, IsPacked, IsCallable
<1>2. \A i \in Slots : i < L.count <=> i \in Scanned(L)
  BY <1>1 DEF Slots, Scanned
<1>3. Scanned(L) \in SUBSET Slots
  BY <1>1 DEF Slots, Scanned
<1>4. {i \in Slots : L.slot[i].valid} = Scanned(L)
  BY <1>1, <1>2, <1>3
<1>5. Cardinality(Scanned(L)) = L.count
  <2>1. L.count - 1 \in Int /\ 0 \in Int
    BY <1>1
  <2>2. Cardinality(0 .. L.count - 1) = IF 0 > L.count - 1 THEN 0 ELSE L.count - 1 - 0 + 1
    BY <2>1, FS_Interval
  <2> QED
    BY <1>1, <2>2 DEF Scanned
<1>6. \A i \in Scanned(L) : /\ i \in Slots /\ L.slot[i] \in Slot
                            /\ L.slot[i].time \in Int /\ L.slot[i].cb \in Callbacks
  BY <1>1, <1>3 DEF Slot
<1>7. HeldTimers(L, n) = [i \in Scanned(L) |-> [cb |-> L.slot[i].cb, due |-> n + L.slot[i].time]]
  BY <1>4 DEF HeldTimers
<1> QED
  BY <1>1, <1>2, <1>3, <1>5, <1>6, <1>7

\* An insertion adds the timer it was asked for.
LEMMA PushedTimers ==
    ASSUME NEW L, GoodList(L), L.count < Size, NEW cb \in Callbacks, NEW t \in Int, NEW n \in Int
    PROVE  BagOfValues(HeldTimers(Pushed(L, cb, t), n)) =
               Plus(BagOfValues(HeldTimers(L, n)), [cb |-> cb, due |-> n + ClampDueEventTime(t)])
<1> DEFINE R == Pushed(L, cb, t)
           e == [valid |-> TRUE, cb |-> cb, time |-> ClampDueEventTime(t)]
           f == HeldTimers(L, n)
           g == HeldTimers(R, n)
<1>1. GoodList(R)
  BY PushedGood
<1>2. /\ L.count \in Nat /\ Size \in Nat /\ DOMAIN f = 0 .. L.count - 1 /\ DOMAIN f \in SUBSET Slots
      /\ \A i \in DOMAIN f : i \in Slots /\ f[i] = [cb |-> L.slot[i].cb, due |-> n + L.slot[i].time]
  BY TimersAreLive DEF Scanned
<1>3. L.count \in Slots /\ L.slot \in [Slots -> Slot]
  BY <1>2 DEF Slots, GoodList, EventLists
<1>4. R.count = L.count + 1 /\ R.slot = [L.slot EXCEPT ![L.count] = e]
  BY DEF Pushed, GoodList, EventLists
<1>5. /\ DOMAIN g = 0 .. L.count
      /\ \A i \in DOMAIN g : g[i] = [cb |-> R.slot[i].cb, due |-> n + R.slot[i].time]
  <2>1. g = [i \in Scanned(R) |-> [cb |-> R.slot[i].cb, due |-> n + R.slot[i].time]]
    BY <1>1, TimersAreLive
  <2>2. Scanned(R) = 0 .. L.count
    BY <1>2, <1>4 DEF Scanned
  <2> QED
    BY <2>1, <2>2
<1>6. R.slot[L.count] = e /\ \A i \in DOMAIN f : R.slot[i] = L.slot[i]
  BY <1>2, <1>3, <1>4
<1> HIDE DEF R, f, g
<1>7. L.count \notin DOMAIN f /\ DOMAIN g = DOMAIN f \cup {L.count}
  BY <1>2, <1>5
<1>8. g[L.count] = [cb |-> cb, due |-> n + ClampDueEventTime(t)] /\ \A i \in DOMAIN f : g[i] = f[i]
  <2>1. L.count \in DOMAIN g /\ \A i \in DOMAIN f : i \in DOMAIN g
    BY <1>7
  <2>2. R.slot[L.count].cb = cb /\ R.slot[L.count].time = ClampDueEventTime(t)
    BY <1>6
  <2> QED
    BY <1>2, <1>5, <1>6, <2>1, <2>2
<1>9. BagOfValues(g) = Plus(BagOfValues(f), g[L.count])
  <2>1. DOMAIN f \in SUBSET Slots /\ L.count \in Slots /\ \A i \in DOMAIN f : g[i] = f[i]
    BY <1>2, <1>3, <1>8
  <2> QED
    BY <1>7, <2>1, OneMore
<1> QED
  BY <1>8, <1>9 DEF R, f, g

\* The timers of all slots but one.
Others(L, i, n) == [j \in Scanned(L) \ {i} |-> HeldTimers(L, n)[j]]

LEMMA OthersAre ==
    ASSUME NEW L, GoodList(L), NEW i \in Scanned(L), NEW n \in Int
    PROVE  /\ BagOfValues(Others(L, i, n)) = Minus(BagOfValues(HeldTimers(L, n)), HeldTimers(L, n)[i])
           /\ HeldTimers(L, n)[i] \in DOMAIN BagOfValues(HeldTimers(L, n))
           /\ HeldTimers(L, n)[i] = [cb |-> L.slot[i].cb, due |-> n + L.slot[i].time]
<1> DEFINE f == Others(L, i, n)
           g == HeldTimers(L, n)
<1>1. /\ DOMAIN g = Scanned(L) /\ Scanned(L) \in SUBSET Slots /\ i \in Slots
      /\ g[i] = [cb |-> L.slot[i].cb, due |-> n + L.slot[i].time]
  BY TimersAreLive
<1>2. DOMAIN f = Scanned(L) \ {i} /\ \A j \in DOMAIN f : g[j] = f[j]
  BY DEF Others
<1> HIDE DEF f, g
<1>3. i \notin DOMAIN f /\ DOMAIN g = DOMAIN f \cup {i} /\ DOMAIN f \in SUBSET Slots
  BY <1>1, <1>2
<1>4. BagOfValues(f) = Minus(BagOfValues(g), g[i])
  BY <1>1, <1>2, <1>3, OneMore
<1>5. g[i] \in DOMAIN BagOfValues(g)
  <2>1. g[i] \in {g[j] : j \in DOMAIN g}
    BY <1>1
  <2> QED
    BY <2>1 DEF BagOfValues
<1> QED
  BY <1>1, <1>4, <1>5 DEF f, g

\* A swap-removal takes the timer of its slot and no other.
LEMMA RemovedTimers ==
    ASSUME NEW L, GoodList(L), NEW i \in Scanned(L), NEW n \in Int
    PROVE  BagOfValues(HeldTimers(RemovedAt(L, i), n)) =
               Minus(BagOfValues(HeldTimers(L, n)), HeldTimers(L, n)[i])
<1> DEFINE last == L.count - 1
           R == RemovedAt(L, i)
           f == Others(L, i, n)
           g == HeldTimers(R, n)
           p == [k \in 0 .. last - 1 |-> IF k = i THEN last ELSE k]
<1>1. /\ L.count \in Nat /\ L.count <= Size /\ Size \in Nat /\ i \in 0 .. last /\ last \in Nat
      /\ Scanned(L) = 0 .. last /\ Scanned(L) \in SUBSET Slots
      /\ L.slot \in [Slots -> Slot] /\ last \in Slots
  <2>1. /\ L.count \in Nat /\ L.count <= Size /\ Size \in Nat /\ Scanned(L) \in SUBSET Slots
        /\ L.slot \in [Slots -> Slot]
    BY TimersAreLive DEF GoodList, EventLists
  <2> QED
    BY <2>1 DEF Scanned, Slots
<1>2. GoodList(R) /\ R.count = last
      /\ R.slot = [[L.slot EXCEPT ![i] = L.slot[last]] EXCEPT ![last].valid = FALSE]
  BY RemovedAtGood DEF RemovedAt
<1>3. \A k \in 0 .. last - 1 : k \in Slots /\ R.slot[k] = L.slot[p[k]] /\ p[k] \in Scanned(L) \ {i}
  BY <1>1, <1>2
<1>4. g = [k \in 0 .. last - 1 |-> [cb |-> R.slot[k].cb, due |-> n + R.slot[k].time]]
  <2>1. Scanned(R) = 0 .. last - 1
    BY <1>2 DEF Scanned
  <2>2. g = [k \in Scanned(R) |-> [cb |-> R.slot[k].cb, due |-> n + R.slot[k].time]]
    <3> HIDE DEF R
    <3> QED
      BY <1>2, TimersAreLive
  <2> QED
    BY <2>1, <2>2
<1>5. /\ DOMAIN f = Scanned(L) \ {i}
      /\ \A j \in DOMAIN f : f[j] = [cb |-> L.slot[j].cb, due |-> n + L.slot[j].time]
  BY TimersAreLive DEF Others
<1>6. p \in Injection(0 .. last - 1, Scanned(L) \ {i})
  <2>1. p \in [0 .. last - 1 -> Scanned(L) \ {i}]
    BY <1>3
  <2>2. \A k, m \in 0 .. last - 1 : p[k] = p[m] => k = m
    BY <1>1
  <2> HIDE DEF p
  <2> QED
    BY <2>1, <2>2 DEF Injection, IsInjective
<1>7. p \in Surjection(0 .. last - 1, Scanned(L) \ {i})
  <2>1. p \in [0 .. last - 1 -> Scanned(L) \ {i}]
    BY <1>3
  <2>2. ASSUME NEW j \in Scanned(L) \ {i}
        PROVE  \E k \in 0 .. last - 1 : p[k] = j
    <3>1. CASE j = last
      <4>1. i \in 0 .. last - 1 /\ p[i] = j
        BY <1>1, <3>1
      <4> QED
        BY <4>1
    <3>2. CASE j # last
      <4>1. j \in 0 .. last - 1 /\ p[j] = j
        BY <1>1, <3>2
      <4> QED
        BY <4>1
    <3> QED
      BY <3>1, <3>2
  <2> HIDE DEF p
  <2> QED
    BY <2>1, <2>2 DEF Surjection
<1>8. DOMAIN g = 0 .. last - 1 /\ \A k \in DOMAIN g : g[k] = f[p[k]]
  <2> HIDE DEF f, g, p
  <2> QED
    BY <1>3, <1>4, <1>5
<1>9. DOMAIN g \in SUBSET Slots /\ DOMAIN f \in SUBSET Slots
  BY <1>1, <1>3, <1>4, <1>5
<1> HIDE DEF f, g, p
<1>10. p \in Bijection(DOMAIN g, DOMAIN f)
  BY <1>5, <1>6, <1>7, <1>8 DEF Bijection
<1>11. BagOfValues(g) = BagOfValues(f)
  BY <1>8, <1>9, <1>10, Relabelled
<1> QED
  BY <1>11, OthersAre DEF f, g

\* A new time replaces the timer of its slot.
LEMMA RetimedTimers ==
    ASSUME NEW L, GoodList(L), NEW i \in Scanned(L), NEW t \in Int, NEW n \in Int
    PROVE  BagOfValues(HeldTimers(RetimedAt(L, i, t), n)) =
               Plus(Minus(BagOfValues(HeldTimers(L, n)), HeldTimers(L, n)[i]),
                    [cb |-> L.slot[i].cb, due |-> n + ClampDueEventTime(t)])
<1> DEFINE R == RetimedAt(L, i, t)
           f == Others(L, i, n)
           g == HeldTimers(R, n)
<1>1. GoodList(R)
  BY RetimedAtGood
<1>2. /\ L.slot \in [Slots -> Slot] /\ Scanned(L) \in SUBSET Slots /\ i \in Slots
      /\ \A j \in Scanned(L) \ {i} : f[j] = [cb |-> L.slot[j].cb, due |-> n + L.slot[j].time]
  BY TimersAreLive DEF GoodList, EventLists, Others
<1>3. R.count = L.count /\ R.slot = [L.slot EXCEPT ![i].time = ClampDueEventTime(t)]
  BY DEF RetimedAt, GoodList, EventLists
<1>4. /\ R.slot[i].cb = L.slot[i].cb /\ R.slot[i].time = ClampDueEventTime(t)
      /\ \A j \in Scanned(L) \ {i} : R.slot[j] = L.slot[j]
  BY <1>2, <1>3 DEF Slot
<1>5. g = [k \in Scanned(L) |-> [cb |-> R.slot[k].cb, due |-> n + R.slot[k].time]]
  <2>1. Scanned(R) = Scanned(L)
    BY <1>3 DEF Scanned
  <2>2. g = [k \in Scanned(R) |-> [cb |-> R.slot[k].cb, due |-> n + R.slot[k].time]]
    <3> HIDE DEF R
    <3> QED
      BY <1>1, TimersAreLive
  <2> QED
    BY <2>1, <2>2
<1>6. DOMAIN f = Scanned(L) \ {i}
  BY DEF Others
<1> HIDE DEF f, g, R
<1>7. /\ g[i] = [cb |-> L.slot[i].cb, due |-> n + ClampDueEventTime(t)]
      /\ \A j \in DOMAIN f : g[j] = f[j]
  BY <1>2, <1>4, <1>5, <1>6
<1>8. i \notin DOMAIN f /\ DOMAIN g = DOMAIN f \cup {i} /\ DOMAIN f \in SUBSET Slots
  BY <1>2, <1>5, <1>6
<1>9. BagOfValues(g) = Plus(BagOfValues(f), g[i])
  BY <1>2, <1>7, <1>8, OneMore
<1>10. BagOfValues(f) = Minus(BagOfValues(HeldTimers(L, n)), HeldTimers(L, n)[i])
  BY OthersAre DEF f
<1> QED
  BY <1>7, <1>9, <1>10 DEF g, R

\* Time that passes moves no timer.
LEMMA ElapsedTimers ==
    ASSUME NEW L, GoodList(L), NEW d \in Int, NEW n \in Int
    PROVE  HeldTimers(Elapsed(L, d), n + d) = HeldTimers(L, n)
<1> DEFINE R == Elapsed(L, d)
<1>1. GoodList(R) /\ R.count = L.count
  BY ElapsedGood
<1>2. R.slot = [i \in Slots |-> IF i \in Scanned(L) THEN [L.slot[i] EXCEPT !.time = L.slot[i].time - d]
                                ELSE L.slot[i]]
  BY DEF Elapsed, GoodList, EventLists
<1>3. \A i \in Scanned(L) : i \in Slots /\ L.slot[i] \in Slot /\ L.slot[i].time \in Int
  BY TimersAreLive
<1>4. \A i \in Scanned(L) : R.slot[i].cb = L.slot[i].cb /\ R.slot[i].time = L.slot[i].time - d
  BY <1>2, <1>3 DEF Slot
<1>5. HeldTimers(R, n + d) =
          [i \in Scanned(L) |-> [cb |-> R.slot[i].cb, due |-> (n + d) + R.slot[i].time]]
  <2> DEFINE m == n + d
  <2>1. m \in Int /\ Scanned(R) = Scanned(L)
    BY <1>1 DEF Scanned
  <2> HIDE DEF m, R
  <2>2. HeldTimers(R, m) = [i \in Scanned(R) |-> [cb |-> R.slot[i].cb, due |-> m + R.slot[i].time]]
    BY <1>1, <2>1, TimersAreLive
  <2>3. HeldTimers(R, m) = [i \in Scanned(L) |-> [cb |-> R.slot[i].cb, due |-> m + R.slot[i].time]]
    BY <2>1, <2>2
  <2> QED
    BY <2>3 DEF m
<1>6. HeldTimers(L, n) = [i \in Scanned(L) |-> [cb |-> L.slot[i].cb, due |-> n + L.slot[i].time]]
  BY TimersAreLive
<1>7. \A i \in Scanned(L) : (n + d) + (L.slot[i].time - d) = n + L.slot[i].time
  BY <1>3
<1> HIDE DEF R
<1>8. \A i \in Scanned(L) : [cb |-> R.slot[i].cb, due |-> (n + d) + R.slot[i].time]
                              = [cb |-> L.slot[i].cb, due |-> n + L.slot[i].time]
  <2> TAKE i \in Scanned(L)
  <2>1. R.slot[i].cb = L.slot[i].cb /\ R.slot[i].time = L.slot[i].time - d
    BY <1>4
  <2>2. (n + d) + R.slot[i].time = n + L.slot[i].time
    BY <1>7, <2>1
  <2> QED
    BY <2>1, <2>2
<1> QED
  BY <1>5, <1>6, <1>8 DEF R

\* A cleared list holds no timer.
LEMMA ClearedTimers ==
    ASSUME NEW L, NEW n
    PROVE  BagOfValues(HeldTimers(Cleared(L), n)) = Abstract!EmptyBag
<1>1. \A i \in Slots : Cleared(L).slot[i].valid = FALSE
  BY DEF Cleared
<1>2. DOMAIN HeldTimers(Cleared(L), n) = {}
  BY <1>1 DEF HeldTimers
<1> QED
  BY <1>2 DEF BagOfValues, Abstract!EmptyBag, Abstract!SetToBag

\* A dispatch takes a timer that is due first; the clock goes to where it was due,
\* or stays where that is past.
LEMMA DispatchedTimers ==
    ASSUME NEW L, GoodList(L), L.count > 0, NEW n \in Int
    PROVE  LET e == HeldTimers(L, n)[EarliestSlot(L)]
               B == BagOfValues(HeldTimers(L, n))
               m == n + TimeToNextEvent(L)
           IN  /\ BagOfValues(HeldTimers(Dispatched(L), m)) = Minus(B, e)
               /\ e \in DOMAIN B /\ \A x \in DOMAIN B : e.due <= x.due
               /\ m = IF n > e.due THEN n ELSE e.due
<1> DEFINE s == EarliestSlot(L)
           d == TimeToNextEvent(L)
           P == Peeked(L)
           E == Elapsed(P, d)
           e == HeldTimers(L, n)[s]
           B == BagOfValues(HeldTimers(L, n))
<1>1. L \in EventLists /\ L.count \in Nat
  BY DEF GoodList, EventLists
<1>2. s \in Scanned(L) /\ \A j \in Scanned(L) : L.slot[s].time <= L.slot[j].time
  BY <1>1, EarliestSlotLive
<1>3. GoodList(P) /\ P.count = L.count /\ P.slot = L.slot /\ P.next = s
  BY <1>1, PeekedGood DEF Peeked, EventLists
<1>4. d = ClampDueEventTime(L.slot[s].time) /\ d \in Int
  BY DispatchedGood DEF TimeToNextEvent
<1>5. Dispatched(L) = RemovedAt(E, s)
  BY <1>3, <1>4 DEF Dispatched
<1>6. GoodList(E) /\ E.count = L.count
  BY <1>3, <1>4, ElapsedGood
<1>7. HeldTimers(E, n + d) = HeldTimers(L, n)
  <2>1. HeldTimers(P, n) = HeldTimers(L, n)
    BY <1>3 DEF HeldTimers
  <2>2. HeldTimers(E, n + d) = HeldTimers(P, n)
    BY <1>3, <1>4, ElapsedTimers
  <2> QED
    BY <2>1, <2>2
<1>8. s \in Scanned(E) /\ n + d \in Int
  BY <1>2, <1>4, <1>6 DEF Scanned
<1> HIDE DEF E, s, d
<1>9. BagOfValues(HeldTimers(Dispatched(L), n + d)) = Minus(B, e)
  <2>1. BagOfValues(HeldTimers(RemovedAt(E, s), n + d)) =
            Minus(BagOfValues(HeldTimers(E, n + d)), HeldTimers(E, n + d)[s])
    BY <1>6, <1>8, RemovedTimers
  <2> QED
    BY <1>5, <1>7, <2>1
<1>10. e \in DOMAIN B /\ e = [cb |-> L.slot[s].cb, due |-> n + L.slot[s].time]
  BY <1>2, OthersAre
<1>11. ASSUME NEW x \in DOMAIN B
       PROVE  e.due <= x.due
  <2>1. DOMAIN B = {HeldTimers(L, n)[i] : i \in DOMAIN HeldTimers(L, n)}
    BY DEF BagOfValues
  <2>2. PICK i \in Scanned(L) : x = HeldTimers(L, n)[i]
    BY <2>1, TimersAreLive
  <2>3. x.due = n + L.slot[i].time /\ L.slot[i].time \in Int /\ L.slot[s].time \in Int
    BY <1>2, <2>2, TimersAreLive
  <2>4. e.due = n + L.slot[s].time
    BY <1>10
  <2> QED
    BY <1>2, <2>3, <2>4
<1>12. n + d = IF n > e.due THEN n ELSE e.due
  <2>1. e.due = n + L.slot[s].time /\ L.slot[s].time \in Int
    BY <1>2, <1>10, TimersAreLive
  <2> QED
    BY <1>4, <2>1 DEF ClampDueEventTime
<1> QED
  BY <1>9, <1>10, <1>11, <1>12 DEF s, d

\* A callback is in a list exactly when the bag has a timer of it.
LEMMA MatchingTimers ==
    ASSUME NEW L, GoodList(L), NEW n \in Int, NEW cb
    PROVE  {e \in DOMAIN BagOfValues(HeldTimers(L, n)) : e.cb = cb} # {} <=> Matching(L, cb) # {}
<1>1. DOMAIN BagOfValues(HeldTimers(L, n)) = {HeldTimers(L, n)[i] : i \in Scanned(L)}
  BY TimersAreLive DEF BagOfValues
<1>2. \A i \in Scanned(L) : HeldTimers(L, n)[i].cb = L.slot[i].cb
  BY TimersAreLive
<1> QED
  BY <1>1, <1>2 DEF Matching

-----------------------------------------------------------------------------
(* Every function of event.c is a step of TimerBag, or none.               *)

\* The bags of the two lists, one by one.
LEMMA PendingIs ==
    ASSUME IInv, NEW l \in Lists
    PROVE  /\ Pending[l] = BagOfValues(HeldTimers(list[l], clock[l]))
           /\ IsBag(Pending[l]) /\ GoodList(list[l]) /\ clock[l] \in Int
           /\ DOMAIN Pending = Lists
<1>1. GoodList(list[l]) /\ clock[l] \in Int
  BY IInvLists
<1>2. DOMAIN HeldTimers(list[l], clock[l]) \in SUBSET Slots
  BY <1>1, TimersAreLive
<1> QED
  BY <1>1, <1>2, BagIs DEF Pending

\* A change of one list is a change of its bag.
LEMMA PendingChanged ==
    ASSUME IInv, NEW l \in Lists, NEW L, NEW n,
           list' = [list EXCEPT ![l] = L], clock' = [clock EXCEPT ![l] = n]
    PROVE  Pending' = [Pending EXCEPT ![l] = BagOfValues(HeldTimers(L, n))]
<1>1. list \in [Lists -> EventLists] /\ clock \in [Lists -> Nat]
  BY IInvLists
<1>2. Pending' = [k \in Lists |-> BagOfValues(HeldTimers(list'[k], clock'[k]))]
  BY DEF Pending
<1>3. \A k \in Lists : BagOfValues(HeldTimers(list'[k], clock'[k])) =
          IF k = l THEN BagOfValues(HeldTimers(L, n)) ELSE BagOfValues(HeldTimers(list[k], clock[k]))
  BY <1>1
<1> QED
  BY <1>2, <1>3 DEF Pending

LEMMA PendingChangedNow ==
    ASSUME IInv, NEW l \in Lists, NEW L, list' = [list EXCEPT ![l] = L], UNCHANGED clock
    PROVE  Pending' = [Pending EXCEPT ![l] = BagOfValues(HeldTimers(L, clock[l]))]
<1>1. clock' = [clock EXCEPT ![l] = clock[l]]
  BY IInvLists
<1> QED
  BY <1>1, PendingChanged

\* SetCallbackTime arms a timer, or drops it because the list is full.
LEMMA ArmStep ==
    ASSUME IInv, NEW cb \in Callbacks, NEW t \in Delays, NEW l \in Lists, SetCallbackTime(cb, t, l)
    PROVE  Abstract!Arm(cb, t, l) \/ UNCHANGED Abstract!vars
<1>0. /\ Pending[l] = BagOfValues(HeldTimers(list[l], clock[l])) /\ IsBag(Pending[l])
      /\ GoodList(list[l]) /\ clock[l] \in Int /\ t \in Int
  BY PendingIs, DelayAssumption
<1>1. list' = [list EXCEPT ![l] = Pushed(list[l], cb, t)] /\ clock' = clock
  BY DEF SetCallbackTime
<1>2. CASE list[l].count < Size
  <2> DEFINE new == [cb |-> cb, due |-> Abstract!Due(l, t)]
  <2>1. new = [cb |-> cb, due |-> clock[l] + ClampDueEventTime(t)]
    BY <1>0 DEF Abstract!Due, Abstract!Later, ClampDueEventTime
  <2>2. Cardinality(Abstract!Copies(Pending[l])) < Size
    <3>1. /\ DOMAIN HeldTimers(list[l], clock[l]) \in SUBSET Slots
          /\ Cardinality(DOMAIN HeldTimers(list[l], clock[l])) = list[l].count
      BY <1>0, TimersAreLive
    <3> QED
      BY <1>0, <1>2, <3>1, CopiesOfSlots
  <2>3. BagOfValues(HeldTimers(Pushed(list[l], cb, t), clock[l])) = Plus(Pending[l], new)
    BY <1>0, <1>2, <2>1, PushedTimers
  <2> HIDE DEF new
  <2>4. Pending' = [Pending EXCEPT ![l] = Plus(Pending[l], new)]
    BY <1>1, <2>3, PendingChangedNow
  <2>5. Plus(Pending[l], new) = Abstract!(+)(Pending[l], Abstract!SetToBag({new}))
    BY <1>0, AbstractPlus
  <2>6. Abstract!Arm(cb, t, l)
    BY <1>1, <2>2, <2>4, <2>5, SameCardinality DEF Abstract!Arm, new
  <2> QED
    BY <2>6
<1>3. CASE ~(list[l].count < Size)
  <2>1. Pushed(list[l], cb, t) = list[l]
    BY <1>3 DEF Pushed
  <2>2. list' = list
    BY <1>1, <2>1, IInvLists
  <2>3. Pending' = Pending
    BY <1>1, <2>2 DEF Pending
  <2> QED
    BY <1>1, <2>3 DEF Abstract!vars
<1> QED
  BY <1>2, <1>3

\* Where both sides look for a callback, and what they find.
LEMMA HolderIs ==
    ASSUME IInv, NEW cb
    PROVE  /\ HolderOf(cb) = Abstract!Holder(cb) /\ HolderOf(cb) \in Lists
           /\ LET l == HolderOf(cb)
                  M == Matching(list[l], cb)
                  i == FirstOf(M)
                  e == HeldTimers(list[l], clock[l])[i]
              IN  M # {} => /\ i \in Scanned(list[l]) /\ list[l].slot[i].cb = cb
                            /\ e \in Abstract!Timers(cb, l) /\ e \in DOMAIN Pending[l]
<1>1. ASSUME NEW l \in Lists
      PROVE  Abstract!Timers(cb, l) # {} <=> Matching(list[l], cb) # {}
  BY PendingIs, MatchingTimers DEF Abstract!Timers, Abstract!BagToSet
<1>2. HolderOf(cb) = Abstract!Holder(cb) /\ HolderOf(cb) \in Lists
  BY <1>1 DEF HolderOf, Abstract!Holder, Lists
<1> DEFINE l == HolderOf(cb)
           M == Matching(list[l], cb)
           i == FirstOf(M)
           e == HeldTimers(list[l], clock[l])[i]
<1>3. ASSUME M # {}
      PROVE  /\ i \in Scanned(list[l]) /\ list[l].slot[i].cb = cb
             /\ e \in Abstract!Timers(cb, l) /\ e \in DOMAIN Pending[l]
  <2>1. GoodList(list[l]) /\ clock[l] \in Int /\ Pending[l] = BagOfValues(HeldTimers(list[l], clock[l]))
    BY <1>2, PendingIs
  <2>2. M \in SUBSET Nat
    BY <2>1 DEF Matching, Scanned, GoodList, EventLists
  <2>3. i \in M
    BY <1>3, <2>2, FirstOfMember
  <2>4. i \in Scanned(list[l]) /\ list[l].slot[i].cb = cb
    BY <2>3 DEF Matching
  <2>5. e \in DOMAIN Pending[l] /\ e.cb = list[l].slot[i].cb
    <3> HIDE DEF i, M, l
    <3>1. /\ e \in DOMAIN BagOfValues(HeldTimers(list[l], clock[l]))
          /\ e = [cb |-> list[l].slot[i].cb, due |-> clock[l] + list[l].slot[i].time]
      BY <2>1, <2>4, OthersAre
    <3> HIDE DEF e
    <3> QED
      BY <2>1, <3>1
  <2> HIDE DEF l, M, i, e
  <2>6. e \in Abstract!Timers(cb, l)
    BY <2>4, <2>5 DEF Abstract!Timers, Abstract!BagToSet
  <2> QED
    BY <2>4, <2>5, <2>6
<1> QED
  BY <1>2, <1>3

\* RemoveCallback cancels one timer of the callback, if there is one.
LEMMA CancelStep ==
    ASSUME IInv, NEW cb \in Callbacks, RemoveCallback(cb)
    PROVE  Abstract!Cancel(cb) \/ UNCHANGED Abstract!vars
<1> DEFINE l == HolderOf(cb)
           M == Matching(list[l], cb)
           i == FirstOf(M)
           e == HeldTimers(list[l], clock[l])[i]
<1>1. CASE M = {}
  BY <1>1 DEF RemoveCallback, Abstract!vars, Pending
<1>2. CASE M # {}
  <2>1. list' = [list EXCEPT ![l] = RemovedAt(list[l], i)] /\ clock' = clock
    BY <1>2 DEF RemoveCallback
  <2>2. /\ l = Abstract!Holder(cb) /\ l \in Lists
        /\ i \in Scanned(list[l]) /\ e \in Abstract!Timers(cb, l) /\ e \in DOMAIN Pending[l]
    BY <1>2, HolderIs
  <2> HIDE DEF l, M, i
  <2>3. /\ Pending[l] = BagOfValues(HeldTimers(list[l], clock[l])) /\ IsBag(Pending[l])
        /\ GoodList(list[l]) /\ clock[l] \in Int
    BY <2>2, PendingIs
  <2>4. BagOfValues(HeldTimers(RemovedAt(list[l], i), clock[l])) = Minus(Pending[l], e)
    BY <2>2, <2>3, RemovedTimers
  <2>5. Pending' = [Pending EXCEPT ![l] = Minus(Pending[l], e)]
    BY <2>1, <2>2, <2>4, PendingChangedNow
  <2> HIDE DEF e
  <2>6. Minus(Pending[l], e) = Abstract!(-)(Pending[l], Abstract!SetToBag({e}))
    BY <2>2, <2>3, AbstractMinus
  <2> QED
    BY <2>1, <2>2, <2>5, <2>6 DEF Abstract!Cancel
<1> QED
  BY <1>1, <1>2

\* AdjustCallbackTime gives one timer of the callback a new time, if there is one.
LEMMA RetimeStep ==
    ASSUME IInv, NEW cb \in Callbacks, NEW t \in Delays, AdjustCallbackTime(cb, t)
    PROVE  Abstract!Retime(cb, t) \/ UNCHANGED Abstract!vars
<1> DEFINE l == HolderOf(cb)
           M == Matching(list[l], cb)
           i == FirstOf(M)
           e == HeldTimers(list[l], clock[l])[i]
<1>1. CASE M = {}
  BY <1>1 DEF AdjustCallbackTime, Abstract!vars, Pending
<1>2. CASE M # {}
  <2>1. list' = [list EXCEPT ![l] = RetimedAt(list[l], i, t)] /\ clock' = clock
    BY <1>2 DEF AdjustCallbackTime
  <2>2. /\ l = Abstract!Holder(cb) /\ l \in Lists /\ list[l].slot[i].cb = cb
        /\ i \in Scanned(list[l]) /\ e \in Abstract!Timers(cb, l) /\ e \in DOMAIN Pending[l]
    BY <1>2, HolderIs
  <2> HIDE DEF l, M, i
  <2>3. /\ Pending[l] = BagOfValues(HeldTimers(list[l], clock[l])) /\ IsBag(Pending[l])
        /\ GoodList(list[l]) /\ clock[l] \in Int /\ t \in Int
    BY <2>2, PendingIs, DelayAssumption
  <2> DEFINE new == [cb |-> cb, due |-> Abstract!Due(l, t)]
  <2>4. new = [cb |-> list[l].slot[i].cb, due |-> clock[l] + ClampDueEventTime(t)]
    BY <2>2, <2>3 DEF Abstract!Due, Abstract!Later, ClampDueEventTime
  <2>5. BagOfValues(HeldTimers(RetimedAt(list[l], i, t), clock[l])) = Plus(Minus(Pending[l], e), new)
    BY <2>2, <2>3, <2>4, RetimedTimers
  <2>6. Pending' = [Pending EXCEPT ![l] = Plus(Minus(Pending[l], e), new)]
    BY <2>1, <2>2, <2>5, PendingChangedNow
  <2> HIDE DEF e, new
  <2>7. Minus(Pending[l], e) = Abstract!(-)(Pending[l], Abstract!SetToBag({e}))
    BY <2>2, <2>3, AbstractMinus
  <2>8. IsBag(Minus(Pending[l], e))
    <3>1. \A x \in DOMAIN Pending[l] : Pending[l][x] \in Nat /\ Pending[l][x] > 0
      BY <2>3 DEF IsBag
    <3> QED
      BY <3>1 DEF Minus, IsBag
  <2>9. Plus(Minus(Pending[l], e), new) =
            Abstract!(+)(Abstract!(-)(Pending[l], Abstract!SetToBag({e})), Abstract!SetToBag({new}))
    BY <2>7, <2>8, AbstractPlus
  <2> QED
    BY <2>1, <2>2, <2>6, <2>9 DEF Abstract!Retime, new
<1> QED
  BY <1>1, <1>2

\* GetTimeToNextEvent changes no timer.
LEMMA PeekStep ==
    ASSUME IInv, NEW l \in Lists, GetTimeToNextEvent(l)
    PROVE  UNCHANGED Abstract!vars
<1>1. list' = [list EXCEPT ![l] = Peeked(list[l])] /\ clock' = clock
  BY DEF GetTimeToNextEvent
<1>2. HeldTimers(Peeked(list[l]), clock[l]) = HeldTimers(list[l], clock[l])
  <2>1. Peeked(list[l]).slot = list[l].slot
    BY PendingIs, PeekedGood
  <2> QED
    BY <2>1 DEF HeldTimers
<1>3. Pending' = [Pending EXCEPT ![l] = Pending[l]]
  BY <1>1, <1>2, PendingChangedNow, PendingIs
<1>4. Pending' = Pending
  BY <1>3 DEF Pending
<1> QED
  BY <1>1, <1>4 DEF Abstract!vars

\* HandleNextEvent fires a timer that is due first.
LEMMA FireStep ==
    ASSUME IInv, NEW l \in Lists, HandleNextEvent(l)
    PROVE  Abstract!Fire(l) \/ UNCHANGED Abstract!vars
<1>1. CASE list[l].count = 0
  BY <1>1, PeekStep DEF HandleNextEvent
<1>2. CASE list[l].count # 0
  <2> DEFINE e == HeldTimers(list[l], clock[l])[EarliestSlot(list[l])]
             m == clock[l] + TimeToNextEvent(list[l])
  <2>1. list' = [list EXCEPT ![l] = Dispatched(list[l])] /\ clock' = [clock EXCEPT ![l] = m]
    BY <1>2, IInvLists DEF HandleNextEvent
  <2>2. /\ Pending[l] = BagOfValues(HeldTimers(list[l], clock[l])) /\ IsBag(Pending[l])
        /\ GoodList(list[l]) /\ clock[l] \in Int
    BY PendingIs
  <2>3. list[l].count > 0
    BY <1>2, <2>2 DEF GoodList, EventLists
  <2>4. /\ BagOfValues(HeldTimers(Dispatched(list[l]), m)) = Minus(Pending[l], e)
        /\ e \in DOMAIN Pending[l] /\ \A x \in DOMAIN Pending[l] : e.due <= x.due
        /\ m = IF clock[l] > e.due THEN clock[l] ELSE e.due
    BY <2>2, <2>3, DispatchedTimers
  <2> HIDE DEF e, m
  <2>5. Pending' = [Pending EXCEPT ![l] = Minus(Pending[l], e)]
    <3>1. Pending' = [Pending EXCEPT ![l] = BagOfValues(HeldTimers(Dispatched(list[l]), m))]
      BY <2>1, PendingChanged
    <3> QED
      BY <2>4, <3>1
  <2>6. Minus(Pending[l], e) = Abstract!(-)(Pending[l], Abstract!SetToBag({e}))
    BY <2>2, <2>4, AbstractMinus
  <2>7. clock' = [clock EXCEPT ![l] = Abstract!Later(clock[l], e.due)]
    BY <2>1, <2>4 DEF Abstract!Later
  <2> QED
    BY <2>4, <2>5, <2>6, <2>7 DEF Abstract!Fire, Abstract!BagToSet
<1> QED
  BY <1>1, <1>2

\* SubtractEventTimes lets time pass.
LEMMA AdvanceStep ==
    ASSUME IInv, NEW d \in Slices, NEW l \in Lists, SubtractEventTimes(d, l)
    PROVE  Abstract!Advance(d, l)
<1>1. list' = [list EXCEPT ![l] = Elapsed(list[l], d)] /\ clock' = [clock EXCEPT ![l] = clock[l] + d]
  BY IInvLists DEF SubtractEventTimes
<1>2. GoodList(list[l]) /\ clock[l] \in Int /\ d \in Int
      /\ Pending[l] = BagOfValues(HeldTimers(list[l], clock[l]))
  BY PendingIs, DelayAssumption
<1>3. HeldTimers(Elapsed(list[l], d), clock[l] + d) = HeldTimers(list[l], clock[l])
  BY <1>2, ElapsedTimers
<1>4. Pending' = [Pending EXCEPT ![l] = Pending[l]]
  <2> DEFINE m == clock[l] + d
  <2>1. clock' = [clock EXCEPT ![l] = m] /\ HeldTimers(Elapsed(list[l], d), m) = HeldTimers(list[l], clock[l])
    BY <1>1, <1>3
  <2> HIDE DEF m
  <2>2. Pending' = [Pending EXCEPT ![l] = BagOfValues(HeldTimers(Elapsed(list[l], d), m))]
    BY <1>1, <2>1, PendingChanged
  <2> QED
    BY <1>2, <2>1, <2>2
<1>5. Pending' = Pending
  BY <1>4 DEF Pending
<1> QED
  BY <1>1, <1>5 DEF Abstract!Advance

\* InitializeEventList clears both bags.
LEMMA ClearStep ==
    ASSUME IInv, InitializeEventList
    PROVE  Abstract!Clear
<1>1. clock' = clock /\ \A l \in Lists : list'[l] = Cleared(list[l])
  BY DEF InitializeEventList
<1>2. Pending' = [l \in Lists |-> Abstract!EmptyBag]
  BY <1>1, ClearedTimers DEF Pending
<1> QED
  BY <1>1, <1>2 DEF Abstract!Clear, Lists, Abstract!Lists

\* Saving and loading loses the timers without an id and no other.
LEMMA ReloadStep ==
    ASSUME IInv, EventStateLoad(EventStateSave)
    PROVE  Abstract!Reload
<1>1. clock' = clock /\ \A l \in Lists : list'[l] = LoadedList(SavedImage(list[l]))
  BY DEF EventStateLoad, EventStateSave
<1>2. ASSUME NEW l \in Lists
      PROVE  BagOfValues(HeldTimers(LoadedList(SavedImage(list[l])), clock[l])) =
                 [e \in {e \in DOMAIN Pending[l] : e.cb \in Registered} |-> Pending[l][e]]
  <2> DEFINE L == list[l]
             n == clock[l]
             img == SavedImage(L)
             f == HeldTimers(L, n)
             g == [i \in {i \in DOMAIN f : f[i].cb \in Registered} |-> f[i]]
  <2>1. GoodList(L) /\ n \in Int /\ Pending[l] = BagOfValues(f) /\ L \in EventLists
    BY PendingIs DEF GoodList
  <2> HIDE DEF L, n
  <2>2. /\ DOMAIN f = Scanned(L) /\ Scanned(L) \in SUBSET Slots
        /\ \A i \in Scanned(L) : f[i] = [cb |-> L.slot[i].cb, due |-> n + L.slot[i].time]
        /\ \A i \in Slots : L.slot[i].valid <=> i \in Scanned(L)
        /\ \A i \in Slots : L.slot[i] \in Slot
    BY <2>1, TimersAreLive DEF GoodList, EventLists
  <2>3. img \in Images
    BY <2>1, SavedImageType
  <2>4. \A i \in Slots : /\ img.slot[i].valid = L.slot[i].valid /\ img.slot[i].time = L.slot[i].time
                         /\ img.slot[i].cb = IF L.slot[i].cb \in Registered THEN L.slot[i].cb ELSE NoCallback
    BY <2>2 DEF SavedImage, Slot
  <2>5. Survivors(img) = {i \in Scanned(L) : L.slot[i].cb \in Registered}
    BY <2>2, <2>4, CallbackAssumption DEF Survivors
  <2> HIDE DEF img, f
  <2>6. DOMAIN g = {i \in DOMAIN f : f[i].cb \in Registered} /\ \A i \in DOMAIN g : g[i] = f[i]
    OBVIOUS
  <2>7. DOMAIN g = Survivors(img)
    BY <2>2, <2>5, <2>6
  <2>8. \A i \in DOMAIN g : g[i] = [cb |-> img.slot[i].cb, due |-> n + img.slot[i].time]
    BY <2>2, <2>4, <2>5, <2>6, <2>7
  <2> HIDE DEF g
  <2>9. BagOfValues(HeldTimers(LoadedList(img), n)) = BagOfValues(g)
    BY <2>3, <2>7, <2>8, LoadedTimers
  <2>10. BagOfValues(g) = [e \in {e \in DOMAIN BagOfValues(f) : e.cb \in Registered} |-> BagOfValues(f)[e]]
    BY <2>2, <2>6, Filtered
  <2> QED
    BY <2>1, <2>9, <2>10 DEF img, L, n
<1>3. Pending' = [l \in Lists |-> [e \in {e \in DOMAIN Pending[l] : e.cb \in Registered} |-> Pending[l][e]]]
  BY <1>1, <1>2 DEF Pending
<1> QED
  BY <1>1, <1>3 DEF Abstract!Reload, Lists, Abstract!Lists, Abstract!BagToSet

\* An image of the older format brings its own timers.
LEMMA ImportStep ==
    ASSUME IInv, NEW img \in OldImages, EventStateLoad(img)
    PROVE  Abstract!Import
<1> DEFINE F == [l \in Lists |-> BagOfValues(ImageTimers(img[l]))]
<1>1. clock' = clock /\ \A l \in Lists : list'[l] = LoadedList(img[l])
  BY DEF EventStateLoad
<1>2. F \in OldTimers
  BY DEF OldTimers
<1>3. ASSUME NEW l \in Lists
      PROVE  BagOfValues(HeldTimers(LoadedList(img[l]), clock[l])) = Abstract!Rebased(F[l], l)
  <2> DEFINE g == [i \in Survivors(img[l]) |->
                      [cb |-> img[l].slot[i].cb, due |-> clock[l] + img[l].slot[i].time]]
             f == ImageTimers(img[l])
  <2>1. img[l] \in Images /\ clock[l] \in Int /\ \A i \in Slots : img[l].slot[i] \in Slot
    BY OldImageAssumption, PendingIs DEF Images
  <2>2. /\ DOMAIN f = Survivors(img[l]) /\ Survivors(img[l]) \in SUBSET Slots
        /\ \A i \in DOMAIN f : f[i] = [cb |-> img[l].slot[i].cb, left |-> img[l].slot[i].time]
    BY DEF ImageTimers, Survivors
  <2> HIDE DEF f
  <2> DEFINE X == Callbacks \cup {NoCallback}
             n == clock[l]
  <2>3. ASSUME NEW i \in DOMAIN f
        PROVE  f[i] \in [cb : X, left : Int]
    <3>1. img[l].slot[i].cb \in X /\ img[l].slot[i].time \in Int
      BY <2>1, <2>2 DEF Slot
    <3> QED
      BY <2>2, <3>1
  <2>4. DOMAIN g = DOMAIN f /\ \A i \in DOMAIN g : g[i] = [cb |-> f[i].cb, due |-> clock[l] + f[i].left]
    BY <2>2
  <2>5. \A i \in DOMAIN g : g[i] = [cb |-> img[l].slot[i].cb, due |-> clock[l] + img[l].slot[i].time]
    OBVIOUS
  <2>6. DOMAIN g = Survivors(img[l])
    OBVIOUS
  <2> HIDE DEF g
  <2>7. BagOfValues(HeldTimers(LoadedList(img[l]), clock[l])) = BagOfValues(g)
    BY <2>1, <2>5, <2>6, LoadedTimers
  <2>8. BagOfValues(g) = Absolute(BagOfValues(f), clock[l])
    <3>1. n \in Int /\ DOMAIN f \in SUBSET Slots /\ DOMAIN g = DOMAIN f
          /\ \A i \in DOMAIN g : g[i] = [cb |-> f[i].cb, due |-> n + f[i].left]
      BY <2>1, <2>2, <2>4
    <3> HIDE DEF X, n
    <3>2. BagOfValues(g) = Absolute(BagOfValues(f), n)
      BY <2>3, <3>1, RebasedTimers
    <3> QED
      BY <3>2 DEF n
  <2>9. F[l] = BagOfValues(f)
    BY DEF f
  <2> QED
    BY <2>7, <2>8, <2>9 DEF Absolute, Abstract!Rebased, Abstract!BagToSet
<1> HIDE DEF F
<1>4. Pending' = [l \in Lists |-> Abstract!Rebased(F[l], l)]
  BY <1>1, <1>3 DEF Pending
<1> QED
  BY <1>1, <1>2, <1>4 DEF Abstract!Import, Lists, Abstract!Lists

\* No list holds a timer at the start.
LEMMA TimersInit == Init => Abstract!Init
<1> SUFFICES ASSUME Init PROVE Abstract!Init
  OBVIOUS
<1>1. \A l \in Lists : DOMAIN HeldTimers(list[l], clock[l]) = {}
  BY DEF Init, ZeroList, HeldTimers
<1>2. Pending = [l \in Lists |-> Abstract!EmptyBag]
  BY <1>1 DEF Pending, BagOfValues, Abstract!EmptyBag, Abstract!SetToBag
<1>3. clock \in [Lists -> {0}]
  BY DEF Init
<1> QED
  BY <1>2, <1>3 DEF Abstract!Init, Lists, Abstract!Lists

\* Every function of event.c takes a step of TimerBag, or none.
LEMMA TimersNext == IInv /\ [Next]_vars => [Abstract!Next]_(Abstract!vars)
<1> SUFFICES ASSUME IInv, [Next]_vars PROVE Abstract!Next \/ UNCHANGED Abstract!vars
  OBVIOUS
<1>l. Lists = Abstract!Lists
  BY DEF Lists, Abstract!Lists
<1>1. CASE InitializeEventList
  BY <1>1, ClearStep DEF Abstract!Next
<1>2. ASSUME NEW cb \in Callbacks, NEW t \in Delays, NEW l \in Home[cb], SetCallbackTime(cb, t, l)
      PROVE  Abstract!Next \/ UNCHANGED Abstract!vars
  <2>1. l \in Lists
    BY HomeAssumption
  <2>2. Abstract!Arm(cb, t, l) \/ UNCHANGED Abstract!vars
    BY <1>2, <2>1, ArmStep
  <2> QED
    BY <1>l, <2>1, <2>2 DEF Abstract!Next
<1>3. ASSUME NEW cb \in Callbacks, RemoveCallback(cb)
      PROVE  Abstract!Next \/ UNCHANGED Abstract!vars
  BY <1>3, CancelStep DEF Abstract!Next
<1>4. ASSUME NEW cb \in Callbacks, NEW t \in Delays, AdjustCallbackTime(cb, t)
      PROVE  Abstract!Next \/ UNCHANGED Abstract!vars
  BY <1>4, RetimeStep DEF Abstract!Next
<1>5. ASSUME NEW l \in Lists, GetTimeToNextEvent(l)
      PROVE  UNCHANGED Abstract!vars
  BY <1>5, PeekStep
<1>6. ASSUME NEW l \in Lists, HandleNextEvent(l)
      PROVE  Abstract!Next \/ UNCHANGED Abstract!vars
  BY <1>l, <1>6, FireStep DEF Abstract!Next
<1>7. ASSUME NEW d \in Slices, NEW l \in Lists, SubtractEventTimes(d, l)
      PROVE  Abstract!Next
  BY <1>l, <1>7, AdvanceStep DEF Abstract!Next
<1>8. CASE EventStateLoad(EventStateSave)
  BY <1>8, ReloadStep DEF Abstract!Next
<1>9. ASSUME NEW img \in OldImages, EventStateLoad(img)
      PROVE  Abstract!Next
  BY <1>9, ImportStep DEF Abstract!Next
<1>10. CASE UNCHANGED vars
  BY <1>10 DEF vars, Abstract!vars, Pending
<1> QED
  BY <1>1, <1>2, <1>3, <1>4, <1>5, <1>6, <1>7, <1>8, <1>9, <1>10 DEF Next

\* The lists implement TimerBag: for lists of any size, any callbacks, delays and
\* old images, no sequence of calls loses, duplicates, revives or reorders a timer.
THEOREM QueueImplementsTimerBag == Spec => ImplementsTimerBag
  BY IInvInit, IInvNext, TimersInit, TimersNext, PTL DEF Spec, ImplementsTimerBag, Abstract!Spec
=============================================================================
