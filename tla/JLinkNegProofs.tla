--------------------------- MODULE JLinkNegProofs ---------------------------
(***************************************************************************)
(* Until a state is loaded the divisor and the negotiation agree on every  *)
(* core at every moment, for any number of clients, connections, losses    *)
(* and attempts; a fresh connection and a server with several clients are  *)
(* at stock timing; one-sided speed on a first connection takes a loss.    *)
(***************************************************************************)
EXTENDS JLinkNeg, FiniteSetTheorems, TLAPS

\* One core's part of FastIffConfirmed, due only while `own` says that the divisor
\* is this core's own; only a core that counts its peer as confirmed can be slow.
Agreed(s, own, slow) ==
    /\ s \in NegStates
    /\ slow => s.confirmed
    /\ own => (s.effective > 1 <=> s.confirmed /\ ~slow)

\* Inductive: the states have their type, and agree until the first load.
IInv ==
    /\ neg \in [Nodes -> NegStates]
    /\ loads \in Nat
    /\ \A n \in Nodes : Agreed(neg[n], loads = 0, n \in slowed)

\* What JLinkClose leaves behind agrees.
LEMMA StockAgreed ==
    \A connected, own, slow \in BOOLEAN : ~slow => Agreed(Stock(connected), own, slow)
  BY NegAssumption DEF Agreed, Stock, NegStates

\* Turning the option off may leave a confirmed core at stock timing; nothing
\* else about it changes.
LEMMA SetIntentType ==
  ASSUME NEW s \in NegStates, NEW own \in BOOLEAN, NEW slow \in BOOLEAN, NEW on \in BOOLEAN,
         Agreed(s, own, slow)
  PROVE  /\ SetIntent(s, on) \in NegStates
         /\ on => Agreed(SetIntent(s, on), own, slow)
         /\ ~on => SetIntent(s, on).effective = 1 /\ (slow => SetIntent(s, on).confirmed)
  BY NegAssumption DEF SetIntent, NegStates, Agreed

\* An accepted hello sets both halves of a core that is not confirmed, so not slow.
LEMMA OnRawAgreed ==
  ASSUME NEW s \in NegStates, NEW own \in BOOLEAN, NEW slow \in BOOLEAN, Agreed(s, own, slow)
  PROVE  Agreed(OnRaw(s), own, slow)
  BY NegAssumption DEF OnRaw, Agreed, NegStates

\* The reconciliation restores agreement on a core that is not eligible and keeps it
\* on one that is; a core it resets is no longer slow.
LEMMA ReconcileAgreed ==
  ASSUME NEW s \in NegStates, NEW own \in BOOLEAN, NEW slow \in BOOLEAN,
         NEW eligible \in BOOLEAN, NEW connected \in BOOLEAN,
         Agreed(s, own, slow) \/ (~eligible /\ s.effective = 1 /\ (slow => s.confirmed))
  PROVE  Agreed(Reconcile(s, eligible, connected), own,
                slow /\ Reconcile(s, eligible, connected).confirmed)
<1> DEFINE resets == \/ eligible /\ ~s.wasConnected
                     \/ ~eligible /\ (s.confirmed \/ s.attempts > 0 \/ s.gaveUp)
           R      == Reconcile(s, eligible, connected)
<1> SUFFICES Agreed(R, own, slow /\ R.confirmed)
  OBVIOUS
<1>1. CASE resets
  <2>1. R = Stock(connected) /\ ~R.confirmed
    BY <1>1 DEF Reconcile, Stock
  <2> HIDE DEF R
  <2>2. Agreed(R, own, FALSE)
    BY <2>1, StockAgreed
  <2>3. R \in NegStates /\ (own => (R.effective > 1 <=> R.confirmed))
    BY <2>2 DEF Agreed
  <2> QED BY <2>1, <2>3, Zenon DEF Agreed
<1>2. CASE ~resets
  <2>1. /\ R \in NegStates /\ R.confirmed = s.confirmed /\ R.effective = s.effective
    BY <1>2 DEF Reconcile, NegStates
  <2>2. Agreed(s, own, slow)
    <3>1. CASE ~eligible /\ s.effective = 1 /\ (slow => s.confirmed)
      <4>1. ~s.confirmed /\ ~slow /\ ~(s.effective > 1) /\ s \in NegStates
        BY <1>2, <3>1
      <4> QED BY <4>1, Zenon DEF Agreed
    <3> QED BY <3>1
  <2> HIDE DEF R
  <2>3. (slow => s.confirmed) /\ (own => (R.effective > 1 <=> s.confirmed /\ ~slow))
    BY <2>1, <2>2 DEF Agreed
  <2> QED BY <2>1, <2>3, Zenon DEF Agreed
<1> QED BY <1>1, <1>2

\* Counting an attempt or giving up touches neither half.
LEMMA RetryAgreed ==
  ASSUME NEW s \in NegStates, NEW own \in BOOLEAN, NEW slow \in BOOLEAN, Agreed(s, own, slow)
  PROVE  Agreed(Retry(s), own, slow) /\ Retry(s).confirmed = s.confirmed
<1>1. CASE s.attempts < MaxAttempts
  BY <1>1, NegAssumption DEF Retry, Agreed, NegStates
<1>2. CASE ~(s.attempts < MaxAttempts)
  BY <1>2, NegAssumption DEF Retry, Agreed, NegStates
<1> QED BY <1>1, <1>2

\* The initial states satisfy the invariant.
LEMMA IInvInit == Init => IInv
<1>1. Stock(FALSE) \in NegStates /\ Stock(FALSE).effective = 1 /\ ~Stock(FALSE).confirmed
  BY NegAssumption DEF Stock, NegStates
<1> QED
  <2> SUFFICES ASSUME Init PROVE IInv
    OBVIOUS
  <2>1. neg \in [Nodes -> NegStates] /\ loads \in Nat
    BY <1>1 DEF Init
  <2>2. ASSUME NEW n \in Nodes PROVE Agreed(neg[n], loads = 0, n \in slowed)
    <3>1. neg[n] = Stock(FALSE) /\ n \notin slowed
      BY DEF Init
    <3>2. neg[n].effective = 1 /\ neg[n] \in NegStates /\ ~neg[n].confirmed
      BY <1>1, <3>1, Zenon
    <3>3. ~(neg[n].effective > 1)
      BY <3>2
    <3> QED BY <3>1, <3>2, <3>3, Zenon DEF Agreed
  <2> QED BY <2>1, <2>2 DEF IInv

\* A frame keeps every core in agreement.
LEMMA FrameAgreed ==
  ASSUME IInv, NEW n \in Nodes, NEW on \in BOOLEAN, NEW got, Frame(n, on, got)
  PROVE  IInv'
<1> DEFINE own   == loads = 0
           slow  == n \in slowed
           el    == Eligible(n, on)
           s0    == SetIntent(neg[n], on)
           hears == got # {} /\ el /\ ~s0.confirmed
           s1    == IF hears THEN OnRaw(s0) ELSE s0
           s2    == Reconcile(s1, el, Connected(n))
           due   == /\ n \in Clients /\ el /\ ~s2.confirmed /\ ~s2.gaveUp
                    /\ s2.attempts > 0 => InFlight(n) \subseteq got
           s3    == IF due THEN Retry(s2) ELSE s2
<1>1. /\ neg' = [neg EXCEPT ![n] = s3] /\ loads' = loads
      /\ slowed' = IF s3.confirmed THEN slowed ELSE slowed \ {n}
  BY DEF Frame
<1>0. own \in BOOLEAN /\ slow \in BOOLEAN
  OBVIOUS
<1>2. /\ neg[n] \in NegStates /\ Agreed(neg[n], own, slow)
      /\ el \in BOOLEAN /\ Connected(n) \in BOOLEAN
      /\ el => on
  <2>1. neg[n] \in NegStates /\ Agreed(neg[n], own, slow)
    BY DEF IInv
  <2>2. el \in BOOLEAN /\ (el => on)
    BY DEF Eligible
  <2>3. Connected(n) \in BOOLEAN
    BY DEF Connected
  <2> QED BY <2>1, <2>2, <2>3
<1> HIDE DEF own, slow
<1>3. /\ s0 \in NegStates
      /\ on => Agreed(s0, own, slow)
      /\ ~on => s0.effective = 1 /\ (slow => s0.confirmed)
  BY <1>0, <1>2, SetIntentType
<1>4. s1 \in NegStates /\ (Agreed(s1, own, slow) \/ (~el /\ s1.effective = 1 /\ (slow => s1.confirmed)))
  BY <1>0, <1>2, <1>3, OnRawAgreed DEF Agreed
<1>5. Agreed(s2, own, slow /\ s2.confirmed)
  <2> DEFINE cn == Connected(n)
  <2>1. el \in BOOLEAN /\ cn \in BOOLEAN
    BY <1>2
  <2> HIDE DEF s1, el, cn
  <2>2. Agreed(Reconcile(s1, el, cn), own, slow /\ Reconcile(s1, el, cn).confirmed)
    BY <2>1, <1>0, <1>4, ReconcileAgreed
  <2> QED BY <2>2 DEF cn
<1>6. Agreed(s3, own, slow /\ s3.confirmed)
  <2> HIDE DEF s2
  <2> DEFINE still == slow /\ s2.confirmed
  <2>1. still \in BOOLEAN /\ Agreed(s2, own, still) /\ s2 \in NegStates
    BY <1>0, <1>5 DEF Agreed
  <2> HIDE DEF still
  <2>2. Agreed(s3, own, still) /\ s3.confirmed = s2.confirmed
    BY <1>0, <2>1, RetryAgreed
  <2> QED BY <2>2 DEF still
<1> HIDE DEF s3
<1>7. ASSUME NEW k \in Nodes PROVE Agreed(neg'[k], loads' = 0, k \in slowed')
  <2>1. CASE k = n
    <3>1. neg'[k] = s3 /\ (k \in slowed' <=> slow /\ s3.confirmed)
      BY <1>1, <2>1 DEF IInv, slow
    <3> QED BY <1>1, <1>6, <3>1 DEF Agreed, own
  <2>2. CASE k # n
    <3>1. neg'[k] = neg[k] /\ (k \in slowed' <=> k \in slowed)
      BY <1>1, <2>2 DEF IInv
    <3> QED BY <1>1, <3>1 DEF IInv, Agreed
  <2> QED BY <2>1, <2>2
<1> QED BY <1>1, <1>6, <1>7 DEF IInv, Agreed

\* So does a close, which is what Stock is, and a reset.
LEMMA CloseAgreed ==
  ASSUME IInv, NEW n \in Nodes, neg' = [neg EXCEPT ![n] = Stock(FALSE)], slowed' = slowed \ {n},
         loads' = loads
  PROVE  IInv'
<1>1. Agreed(neg'[n], loads' = 0, n \in slowed')
  <2>1. neg'[n] = Stock(FALSE) /\ n \notin slowed'
    BY DEF IInv
  <2>2. Stock(FALSE) \in NegStates /\ Stock(FALSE).effective = 1 /\ ~Stock(FALSE).confirmed
    BY NegAssumption DEF Stock, NegStates
  <2>3. neg'[n].effective = 1 /\ neg'[n] \in NegStates /\ ~neg'[n].confirmed
    BY <2>1, <2>2, Zenon
  <2>4. ~(neg'[n].effective > 1)
    <3>1. \A e : e = 1 => ~(e > 1)
      OBVIOUS
    <3> QED BY <2>3, <3>1, Zenon
  <2> QED BY <2>1, <2>3, <2>4, Zenon DEF Agreed
<1>2. ASSUME NEW k \in Nodes, k # n PROVE Agreed(neg'[k], loads' = 0, k \in slowed')
  BY <1>2 DEF IInv, Agreed
<1> QED BY <1>1, <1>2 DEF IInv, Agreed

LEMMA ResetAgreed ==
  ASSUME IInv, NEW n \in Nodes, Reset(n)
  PROVE  IInv'
<1>1. /\ neg' = [neg EXCEPT ![n].effective = 1] /\ loads' = loads
      /\ slowed' = IF neg[n].confirmed THEN slowed \cup {n} ELSE slowed
  BY DEF Reset
<1>2. /\ neg'[n] \in NegStates /\ neg'[n].effective = 1
      /\ neg'[n].confirmed = neg[n].confirmed
  BY <1>1, NegAssumption DEF IInv, NegStates
<1>3. n \in slowed' <=> neg[n].confirmed
  BY <1>1 DEF IInv, Agreed
<1>4. Agreed(neg'[n], loads' = 0, n \in slowed')
  BY <1>2, <1>3 DEF Agreed
<1>5. ASSUME NEW k \in Nodes, k # n PROVE Agreed(neg'[k], loads' = 0, k \in slowed')
  BY <1>1, <1>5 DEF IInv, Agreed
<1> QED BY <1>1, <1>4, <1>5 DEF IInv, Agreed

\* Every step keeps the invariant; a load leaves it nothing to say but the types.
LEMMA IInvNext ==
  ASSUME IInv, [Next]_vars
  PROVE  IInv'
<1>1. ASSUME NEW n \in Nodes, ReadsNothing(n) PROVE IInv'
  BY <1>1, FrameAgreed, NegAssumption DEF ReadsNothing
<1>2. ASSUME NEW n \in Nodes, NEW m \in net, Reads(n, m) PROVE IInv'
  BY <1>2, FrameAgreed, NegAssumption DEF Reads
<1>3. ASSUME NEW c \in Clients, Connect(c) \/ LinkLost(c) PROVE IInv'
  BY <1>3 DEF Connect, LinkLost, IInv
<1>4. ASSUME NEW c \in Clients, ClientClose(c) PROVE IInv'
  BY <1>4, CloseAgreed DEF ClientClose, Nodes
<1>5. ASSUME NEW reads \in BOOLEAN, ServerPoll(reads) PROVE IInv'
  BY <1>5 DEF ServerPoll, IInv
<1>6. CASE ServerClose
  BY <1>6, CloseAgreed DEF ServerClose, Nodes
<1>7. ASSUME NEW m \in net, Lose(m) PROVE IInv'
  BY <1>7 DEF Lose, IInv
<1>8. ASSUME NEW n \in Nodes, NEW d \in {1, SpeedupMax}, StateLoad(n, d) PROVE IInv'
  <2>1. neg' = [neg EXCEPT ![n].effective = d] /\ loads' = loads + 1 /\ slowed' = slowed
    BY <1>8 DEF StateLoad
  <2>2. neg' \in [Nodes -> NegStates] /\ \A k \in Nodes : neg'[k].confirmed = neg[k].confirmed
    BY <2>1, NegAssumption DEF IInv, NegStates
  <2> QED BY <2>1, <2>2 DEF IInv, Agreed
<1>9. CASE UNCHANGED vars
  BY <1>9 DEF vars, IInv
<1>10. ASSUME NEW n \in Nodes, Reset(n) PROVE IInv'
  BY <1>10, ResetAgreed
<1> QED BY <1>1, <1>2, <1>3, <1>4, <1>5, <1>6, <1>7, <1>8, <1>9, <1>10 DEF Next

\* A core runs fast exactly while it counts its peer as confirmed and was not reset
\* since it did, until a save state is loaded.
THEOREM FastIffConfirmedAlways == Spec => []FastIffConfirmed
<1>1. Init => IInv
  BY IInvInit
<1>2. IInv /\ [Next]_vars => IInv'
  BY IInvNext
<1>3. IInv => FastIffConfirmed
  BY DEF IInv, Agreed, FastIffConfirmed
<1> QED BY <1>1, <1>2, <1>3, PTL DEF Spec

-----------------------------------------------------------------------------
(* A fresh connection.                                                        *)

\* What a frame's own variables need of types, loads or not.
Typed == neg \in [Nodes -> NegStates] /\ intent \in [Nodes -> BOOLEAN]

\* The initial states have these types.
LEMMA TypedInit == Init => Typed
BY IInvInit, NegAssumption DEF Init, IInv, Typed

\* Every step keeps them.
LEMMA TypedNext == IInv /\ Typed /\ [Next]_vars => Typed'
<1> SUFFICES ASSUME IInv, Typed, [Next]_vars PROVE Typed'
  OBVIOUS
<1>1. neg' \in [Nodes -> NegStates]
  BY IInvNext DEF IInv
<1>2. intent' \in [Nodes -> BOOLEAN]
  <2>1. ASSUME NEW n \in Nodes, NEW on \in Options, NEW got, Frame(n, on, got)
        PROVE  intent' \in [Nodes -> BOOLEAN]
    BY <2>1, NegAssumption DEF Frame, Typed
  <2>2. CASE \E n \in Nodes : ReadsNothing(n) \/ \E m \in net : Reads(n, m)
    BY <2>1, <2>2 DEF ReadsNothing, Reads
  <2>3. CASE UNCHANGED intent
    BY <2>3 DEF Typed
  <2> QED BY <2>2, <2>3 DEF Next, Connect, LinkLost, ClientClose, ServerPoll, ServerClose, Lose,
                            StateLoad, Reset, vars
<1> QED BY <1>1, <1>2 DEF Typed

\* Nothing before the reconciliation touches wasConnected, nothing after it the
\* divisor.
LEMMA FreshFrame ==
  ASSUME Typed, NEW n \in Nodes, NEW on \in BOOLEAN, NEW got, Frame(n, on, got),
         ~neg[n].wasConnected, Eligible(n, on)
  PROVE  neg'[n].effective = 1
<1> DEFINE s0    == SetIntent(neg[n], on)
           hears == got # {} /\ Eligible(n, on) /\ ~s0.confirmed
           s1    == IF hears THEN OnRaw(s0) ELSE s0
           s2    == Reconcile(s1, Eligible(n, on), Connected(n))
           due   == /\ n \in Clients /\ Eligible(n, on) /\ ~s2.confirmed /\ ~s2.gaveUp
                    /\ s2.attempts > 0 => InFlight(n) \subseteq got
           s3    == IF due THEN Retry(s2) ELSE s2
<1>1. neg' = [neg EXCEPT ![n] = s3]
  BY DEF Frame
<1>2. s0 \in NegStates /\ ~s0.wasConnected
  BY NegAssumption DEF Typed, SetIntent, NegStates
<1>3. ~s1.wasConnected
  BY <1>2 DEF OnRaw
<1> HIDE DEF s0, s1
<1>4. s2 = Stock(Connected(n))
  BY <1>3 DEF Reconcile
<1> HIDE DEF s2
<1>5. s3.effective = 1
  BY <1>4 DEF Stock, Retry
<1> HIDE DEF s3
<1> QED BY <1>1, <1>5 DEF Typed

\* A step that ends the frame of a core with a fresh connection is that frame.
LEMMA FreshStep ==
  ASSUME Typed, Next, NEW n \in Nodes, last' = n, ~neg[n].wasConnected, Eligible(n, intent'[n])
  PROVE  neg'[n].effective = 1
<1>1. ASSUME NEW k \in Nodes, NEW on \in Options, NEW got, Frame(k, on, got)
      PROVE  neg'[n].effective = 1
  <2>1. k = n /\ on \in BOOLEAN
    BY <1>1, NegAssumption DEF Frame
  <2>2. intent'[n] = on
    BY <1>1, <2>1 DEF Frame, Typed
  <2> QED BY <1>1, <2>1, <2>2, FreshFrame
<1>2. CASE \E k \in Nodes : ReadsNothing(k) \/ \E m \in net : Reads(k, m)
  BY <1>1, <1>2 DEF ReadsNothing, Reads
<1>3. last' # Nobody
  BY NodeAssumption
<1> QED BY <1>2, <1>3 DEF Next, Connect, LinkLost, ClientClose, ServerPoll, ServerClose, Lose,
                          StateLoad, Reset

\* Whatever an earlier connection, a lost datagram or a loaded state left behind,
\* the frame that finds a fresh connection ends at stock timing.
THEOREM FreshConnectionAlwaysStartsStock == Spec => FreshConnectionStartsStock
<1>1. Typed /\ [Next]_vars
        => [\A n \in Nodes :
              last' = n /\ ~neg[n].wasConnected /\ Eligible(n, intent'[n])
                => neg'[n].effective = 1]_vars
  BY FreshStep
<1>2. IInv /\ Typed /\ [Next]_vars => IInv' /\ Typed'
  BY IInvNext, TypedNext
<1>3. Init => IInv /\ Typed
  BY IInvInit, TypedInit
<1>4. Spec => [](IInv /\ Typed)
  BY <1>2, <1>3, PTL DEF Spec
<1> QED BY <1>1, <1>4, PTL DEF Spec, FreshConnectionStartsStock

-----------------------------------------------------------------------------
(* Both ends of a first connection.                                           *)

Hello(c)  == [from |-> c, to |-> Server]
Answer(c) == [from |-> Server, to |-> c]

\* Every datagram belongs to a client that connected once, and so does every
\* connection the server knows; one it has accepted no longer waits.
Ends ==
    /\ epoch \in [Clients -> 0 .. MaxEpoch] /\ lost \in 0 .. MaxLost /\ steady \in BOOLEAN
    /\ \A m \in net : \E c \in Clients : epoch[c] > 0 /\ m \in {Hello(c), Answer(c)}
    /\ \A conn \in slots \cup backlog :
          \E c \in Clients : \E e \in 1 .. epoch[c] : conn = <<c, e>>
    /\ slots \cap backlog = {}
    /\ \A c \in up : c \in Clients /\ epoch[c] > 0
    /\ \A c \in Clients : epoch[c] = 0 => ~neg[c].confirmed

\* How far the handshake of the only client is: it has been seen connected before
\* anything is said; the server has not heard of a connection it did not accept;
\* whoever hears the server hears it after it has seen the connection; and a
\* confirmed client has told the server so.
Handshake(c) ==
    /\ net # {} \/ neg[c].confirmed => neg[c].wasConnected /\ intent[c]
    /\ <<c, 1>> \in backlog => Answer(c) \notin net /\ ~neg[c].confirmed
    /\ <<c, 1>> \in slots =>
         /\ Answer(c) \in net \/ neg[c].confirmed
              => neg[Server].wasConnected /\ intent[Server]
         /\ neg[c].confirmed => neg[Server].confirmed \/ Hello(c) \in net

Undisturbed(c) == lost = 0 /\ steady /\ OnlyClient(c) /\ c \in up

Handshakes == \A c \in Clients : Undisturbed(c) => Handshake(c)

\* What a frame does to the handshake: the core remembers whether it was connected,
\* is confirmed afterwards only on a connection it had seen before, and answers
\* whatever it hears while it is eligible and not confirmed.
LEMMA FrameHears ==
  ASSUME neg \in [Nodes -> NegStates],
         NEW n \in Nodes, NEW on \in BOOLEAN, NEW got, Frame(n, on, got)
  PROVE  /\ neg'[n].wasConnected = Connected(n)
         /\ neg'[n].confirmed <=> /\ Eligible(n, on) /\ neg[n].wasConnected
                                  /\ neg[n].confirmed \/ got # {}
         /\ \A k \in Nodes \ {n} : neg'[k] = neg[k]
<1> DEFINE el    == Eligible(n, on)
           cn    == Connected(n)
           s0    == SetIntent(neg[n], on)
           hears == got # {} /\ el /\ ~s0.confirmed
           s1    == IF hears THEN OnRaw(s0) ELSE s0
           s2    == Reconcile(s1, el, cn)
           due   == /\ n \in Clients /\ el /\ ~s2.confirmed /\ ~s2.gaveUp
                    /\ s2.attempts > 0 => InFlight(n) \subseteq got
           s3    == IF due THEN Retry(s2) ELSE s2
<1>1. neg' = [neg EXCEPT ![n] = s3]
  BY DEF Frame
<1>2. /\ el \in BOOLEAN /\ cn \in BOOLEAN
      /\ neg[n] \in NegStates
  BY DEF Eligible, Connected
<1> HIDE DEF el, cn
<1>3. /\ s0 \in NegStates
      /\ s0.confirmed = neg[n].confirmed /\ s0.wasConnected = neg[n].wasConnected
  BY <1>2, NegAssumption DEF SetIntent, NegStates
<1> HIDE DEF s0
<1>4. /\ s1 \in NegStates /\ s1.wasConnected = neg[n].wasConnected
      /\ s1.confirmed <=> neg[n].confirmed \/ (got # {} /\ el)
  BY <1>2, <1>3, NegAssumption DEF OnRaw, NegStates
<1> HIDE DEF s1
<1>5. /\ s2 \in NegStates /\ s2.wasConnected = cn
      /\ s2.confirmed <=> s1.confirmed /\ el /\ s1.wasConnected
  BY <1>2, <1>4, NegAssumption DEF Reconcile, Stock, NegStates
<1> HIDE DEF s2
<1>6. s3.wasConnected = s2.wasConnected /\ s3.confirmed = s2.confirmed
  BY <1>5 DEF Retry, NegStates
<1> HIDE DEF s3
<1>7. neg'[n] = s3
  BY <1>1
<1>8. neg'[n].wasConnected = cn
  BY <1>5, <1>6, <1>7
<1>9. neg'[n].confirmed <=> el /\ neg[n].wasConnected /\ (neg[n].confirmed \/ got # {})
  BY <1>4, <1>5, <1>6, <1>7
<1> QED BY <1>1, <1>8, <1>9 DEF el, cn

\* What it sends: nothing unless it is eligible, answers to the senders it heard,
\* and on a client a hello to the server.
LEMMA FrameSends ==
  ASSUME neg \in [Nodes -> NegStates],
         NEW n \in Nodes, NEW on \in BOOLEAN, NEW got, Frame(n, on, got)
  PROVE  /\ net \ got \subseteq net'
         /\ \A m \in net' \ (net \ got) :
              /\ Eligible(n, on)
              /\ \/ n \in Clients /\ m = Hello(n)
                 \/ \E g \in got : m = [from |-> n, to |-> g.from]
         /\ Eligible(n, on) /\ ~neg[n].confirmed
              => \A g \in got : [from |-> n, to |-> g.from] \in net'
<1> DEFINE el    == Eligible(n, on)
           s0    == SetIntent(neg[n], on)
           hears == got # {} /\ el /\ ~s0.confirmed
           s1    == IF hears THEN OnRaw(s0) ELSE s0
           s2    == Reconcile(s1, el, Connected(n))
           due   == /\ n \in Clients /\ el /\ ~s2.confirmed /\ ~s2.gaveUp
                    /\ s2.attempts > 0 => InFlight(n) \subseteq got
           reply == IF hears THEN Reply(n, got) ELSE {}
           hello == IF due /\ s2.attempts < MaxAttempts THEN {Hello(n)} ELSE {}
<1>1. net' = (net \ got) \cup reply \cup hello
  BY DEF Frame, Hello
<1>2. s0.confirmed = neg[n].confirmed
  BY DEF SetIntent, NegStates
<1>3. ASSUME NEW m \in reply PROVE el /\ \E g \in got : m = [from |-> n, to |-> g.from]
  BY DEF Reply
<1>4. ASSUME NEW m \in hello PROVE el /\ n \in Clients /\ m = Hello(n)
  <2> HIDE DEF el, s2
  <2> QED OBVIOUS
<1>5. ASSUME el, ~neg[n].confirmed, NEW g \in got PROVE [from |-> n, to |-> g.from] \in reply
  BY <1>2, <1>5 DEF Reply
<1> HIDE DEF reply, hello, el
<1>6. \A m \in net' \ (net \ got) : m \in reply \/ m \in hello
  BY <1>1
<1>7. net \ got \subseteq net' /\ reply \subseteq net'
  BY <1>1
<1>8. ASSUME NEW m \in net' \ (net \ got)
      PROVE  el /\ ((n \in Clients /\ m = Hello(n)) \/ \E g \in got : m = [from |-> n, to |-> g.from])
  BY <1>3, <1>4, <1>6
<1>9. ASSUME el, ~neg[n].confirmed, NEW g \in got PROVE [from |-> n, to |-> g.from] \in net'
  BY <1>5, <1>7, <1>9
<1> QED BY <1>7, <1>8, <1>9 DEF el

\* A core reads datagrams sent to it.
Addressed(n, got) == \A g \in got : g \in net /\ g.to = n

\* A frame is the only step that reads datagrams; it reads those sent to it.
LEMMA FrameCases ==
  ASSUME Next
  PROVE  \/ \E n \in Nodes : \E on \in BOOLEAN : \E got : Frame(n, on, got) /\ Addressed(n, got)
         \/ \E c \in Clients : Connect(c) \/ LinkLost(c) \/ ClientClose(c)
         \/ \E reads \in BOOLEAN : ServerPoll(reads)
         \/ ServerClose
         \/ \E m \in net : Lose(m)
         \/ \E n \in Nodes : \E d \in {1, SpeedupMax} : StateLoad(n, d)
         \/ \E n \in Nodes : Reset(n)
<1>1. ASSUME NEW n \in Nodes, ReadsNothing(n)
      PROVE  \E on \in BOOLEAN : \E got : Frame(n, on, got) /\ Addressed(n, got)
  <2>1. PICK on \in Options : Frame(n, on, {})
    BY <1>1 DEF ReadsNothing
  <2>2. on \in BOOLEAN /\ Addressed(n, {})
    BY NegAssumption DEF Addressed
  <2> QED BY <2>1, <2>2
<1>2. ASSUME NEW n \in Nodes, NEW m \in net, Reads(n, m)
      PROVE  \E on \in BOOLEAN : \E got : Frame(n, on, got) /\ Addressed(n, got)
  <2>1. PICK on \in Options : Frame(n, on, {m})
    BY <1>2 DEF Reads
  <2>2. on \in BOOLEAN /\ Addressed(n, {m})
    BY <1>2, NegAssumption DEF Addressed, Reads
  <2> QED BY <2>1, <2>2
<1> QED BY <1>1, <1>2 DEF Next

\* Whoever is eligible has a connection.
LEMMA EligibleUp ==
  ASSUME Ends, NEW n \in Nodes, NEW on \in BOOLEAN, Eligible(n, on)
  PROVE  /\ n \in Clients => n \in up /\ epoch[n] > 0
         /\ n = Server => slots # {}
  BY NodeAssumption, FS_EmptySet DEF Eligible, PeerCount, Ends

\* Nobody has connected and nothing is in flight at first.
LEMMA EndsInit == Init => Ends
  BY NegAssumption DEF Init, Ends, Stock, Nodes

\* A frame sends only between a connected client and the server.
LEMMA EndsFrame ==
  ASSUME Typed, Ends, NEW n \in Nodes, NEW on \in BOOLEAN, NEW got,
         Frame(n, on, got), Addressed(n, got)
  PROVE  Ends'
<1>1. /\ UNCHANGED <<epoch, up, backlog, slots, lost>>
      /\ steady' \in BOOLEAN
  BY DEF Frame, tcp
<1>2. neg \in [Nodes -> NegStates]
  BY DEF Typed
<1>3. ASSUME NEW m \in net'
      PROVE  \E c \in Clients : epoch[c] > 0 /\ m \in {Hello(c), Answer(c)}
  <2>1. CASE m \in net
    BY <2>1 DEF Ends
  <2>2. CASE m \notin net
    <3>1. Eligible(n, on)
      BY <1>2, <2>2, FrameSends
    <3>2. CASE n \in Clients /\ m = Hello(n)
      BY <3>1, <3>2, EligibleUp
    <3>3. CASE \E g \in got : m = [from |-> n, to |-> g.from]
      <4>1. PICK g \in got : m = [from |-> n, to |-> g.from]
        BY <3>3
      <4>2. g \in net /\ g.to = n
        BY DEF Addressed
      <4>3. PICK c \in Clients : epoch[c] > 0 /\ g \in {Hello(c), Answer(c)}
        BY <4>2 DEF Ends
      <4>4. CASE g = Hello(c)
        BY <4>1, <4>2, <4>3, <4>4 DEF Hello, Answer
      <4>5. CASE g = Answer(c)
        BY <4>1, <4>2, <4>3, <4>5 DEF Hello, Answer
      <4> QED BY <4>3, <4>4, <4>5
    <3> QED BY <1>2, <2>2, <3>2, <3>3, FrameSends
  <2> QED BY <2>1, <2>2
<1>4. ASSUME NEW c \in Clients, epoch[c] = 0 PROVE ~neg'[c].confirmed
  <2>1. c \in Nodes /\ ~neg[c].confirmed
    BY <1>4 DEF Ends, Nodes
  <2>2. CASE c = n
    BY <1>2, <1>4, <2>1, <2>2, FrameHears, EligibleUp
  <2>3. CASE c # n
    BY <1>2, <2>1, <2>3, FrameHears
  <2> QED BY <2>2, <2>3
<1> QED BY <1>1, <1>3, <1>4 DEF Ends

\* Every step keeps the ends of datagrams and connections.
LEMMA EndsNext ==
  ASSUME Typed, Ends, [Next]_vars
  PROVE  Ends'
<1>1. ASSUME NEW n \in Nodes, NEW on \in BOOLEAN, NEW got, Frame(n, on, got), Addressed(n, got)
      PROVE  Ends'
  BY <1>1, EndsFrame
<1>2. ASSUME NEW c \in Clients, Connect(c) PROVE Ends'
  <2>1. /\ epoch[c] \in 0 .. MaxEpoch /\ epoch[c] < MaxEpoch
        /\ epoch' = [epoch EXCEPT ![c] = epoch[c] + 1]
        /\ UNCHANGED <<slots, neg, net, lost, steady>>
        /\ backlog' = backlog \cup {<<c, epoch[c] + 1>>}
        /\ up' = up \cup {c}
    BY <1>2 DEF Connect, Ends
  <2>2. epoch' \in [Clients -> 0 .. MaxEpoch]
    BY <2>1, NegAssumption DEF Ends
  <2>3. \A d \in Clients : epoch[d] \in Nat /\ epoch'[d] = IF d = c THEN epoch[d] + 1 ELSE epoch[d]
    BY <2>1, NegAssumption DEF Ends
  <2>4. \A m \in net' : \E d \in Clients : epoch'[d] > 0 /\ m \in {Hello(d), Answer(d)}
    BY <2>1, <2>3 DEF Ends
  <2>5. ASSUME NEW conn \in slots' \cup backlog'
        PROVE  \E d \in Clients : \E e \in 1 .. epoch'[d] : conn = <<d, e>>
    <3>1. CASE conn = <<c, epoch[c] + 1>>
      BY <2>3, <3>1
    <3>2. CASE conn \in slots \cup backlog
      <4>1. PICK d \in Clients : \E e \in 1 .. epoch[d] : conn = <<d, e>>
        BY <3>2 DEF Ends
      <4>2. PICK e \in 1 .. epoch[d] : conn = <<d, e>>
        BY <4>1
      <4>3. e \in 1 .. epoch'[d]
        BY <2>3
      <4> QED BY <4>2, <4>3
    <3> QED BY <2>1, <3>1, <3>2
  <2>6. <<c, epoch[c] + 1>> \notin slots
    <3> SUFFICES ASSUME <<c, epoch[c] + 1>> \in slots PROVE FALSE
      OBVIOUS
    <3>1. PICK d \in Clients : \E e \in 1 .. epoch[d] : <<c, epoch[c] + 1>> = <<d, e>>
      BY DEF Ends
    <3> QED BY <2>3, <3>1
  <2>7. slots' \cap backlog' = {}
    BY <2>1, <2>6 DEF Ends
  <2>8. \A d \in up' : d \in Clients /\ epoch'[d] > 0
    BY <2>1, <2>3 DEF Ends
  <2>9. \A d \in Clients : epoch'[d] = 0 => ~neg'[d].confirmed
    BY <2>1, <2>3 DEF Ends
  <2> QED BY <2>1, <2>2, <2>4, <2>5, <2>7, <2>8, <2>9 DEF Ends
<1>3. ASSUME NEW c \in Clients, LinkLost(c) PROVE Ends'
  BY <1>3 DEF LinkLost, Ends
<1>4. ASSUME NEW c \in Clients, ClientClose(c) PROVE Ends'
  BY <1>4 DEF ClientClose, Ends, Typed, Stock, Nodes
<1>5. ASSUME NEW reads \in BOOLEAN, ServerPoll(reads) PROVE Ends'
  <2>1. /\ slots' \subseteq slots \cup backlog /\ backlog' = {}
        /\ UNCHANGED <<epoch, up, neg, net, lost, steady>>
    BY <1>5 DEF ServerPoll
  <2> QED BY <2>1 DEF Ends
<1>6. CASE ServerClose
  <2>1. /\ slots' = {} /\ backlog' = {}
        /\ UNCHANGED <<epoch, up, net, lost, steady>>
        /\ neg' = [neg EXCEPT ![Server] = Stock(FALSE)]
    BY <1>6 DEF ServerClose
  <2>2. \A c \in Clients : neg'[c] = neg[c]
    BY <2>1, NodeAssumption DEF Typed, Nodes
  <2> QED BY <2>1, <2>2 DEF Ends
<1>7. ASSUME NEW m \in net, Lose(m) PROVE Ends'
  BY <1>7, NegAssumption DEF Lose, Ends, tcp
<1>8. ASSUME NEW n \in Nodes, NEW d \in {1, SpeedupMax}, StateLoad(n, d) PROVE Ends'
  <2>1. /\ UNCHANGED <<epoch, up, backlog, slots, net, lost, steady>>
        /\ neg' = [neg EXCEPT ![n].effective = d]
    BY <1>8 DEF StateLoad, tcp
  <2>2. \A c \in Clients : neg'[c].confirmed = neg[c].confirmed
    BY <2>1 DEF Typed, Nodes, NegStates
  <2> QED BY <2>1, <2>2 DEF Ends
<1>9. ASSUME NEW n \in Nodes, Reset(n) PROVE Ends'
  <2>1. /\ UNCHANGED <<epoch, up, backlog, slots, net, lost, steady>>
        /\ neg' = [neg EXCEPT ![n].effective = 1]
    BY <1>9 DEF Reset, tcp
  <2>2. \A c \in Clients : neg'[c].confirmed = neg[c].confirmed
    BY <2>1 DEF Typed, Nodes, NegStates
  <2> QED BY <2>1, <2>2 DEF Ends
<1>10. CASE UNCHANGED vars
  BY <1>10 DEF vars, Ends
<1> QED BY <1>1, <1>2, <1>3, <1>4, <1>5, <1>6, <1>7, <1>8, <1>9, <1>10, FrameCases

\* The only client's is the only connection the server can know.
LEMMA OnlyConnection ==
  ASSUME Ends, NEW c \in Clients, OnlyClient(c)
  PROVE  /\ slots \cup backlog \subseteq {<<c, 1>>}
         /\ net \subseteq {Hello(c), Answer(c)}
         /\ up \subseteq {c}
<1>1. \A d \in Clients : epoch[d] = IF d = c THEN 1 ELSE 0
  BY DEF OnlyClient
<1>2. ASSUME NEW conn \in slots \cup backlog PROVE conn = <<c, 1>>
  <2>1. PICK d \in Clients : \E e \in 1 .. epoch[d] : conn = <<d, e>>
    BY DEF Ends
  <2>2. PICK e \in 1 .. epoch[d] : conn = <<d, e>>
    BY <2>1
  <2>3. d = c
    BY <1>1, <2>2
  <2> QED BY <1>1, <2>2, <2>3
<1>3. ASSUME NEW m \in net PROVE m \in {Hello(c), Answer(c)}
  <2>1. PICK d \in Clients : epoch[d] > 0 /\ m \in {Hello(d), Answer(d)}
    BY DEF Ends
  <2>2. d = c
    BY <1>1, <2>1
  <2> QED BY <2>1, <2>2
<1>4. ASSUME NEW d \in up PROVE d = c
  BY <1>1 DEF Ends
<1> QED BY <1>2, <1>3, <1>4

\* No client is up at first.
LEMMA HandshakesInit == Init => Handshakes
  BY DEF Init, Handshakes, Undisturbed

\* The client's frame: it hears an answer only from a server that has seen it, and
\* tells the server when it does.
LEMMA HandshakeClientFrame ==
  ASSUME Typed, Ends, NEW c \in Clients, NEW on \in BOOLEAN, NEW got,
         Frame(c, on, got), Addressed(c, got), on = intent[c],
         OnlyClient(c), c \in up, Handshake(c)
  PROVE  Handshake(c)'
<1>1. /\ c \in Nodes /\ Server \in Nodes /\ c # Server
      /\ neg \in [Nodes -> NegStates] /\ intent \in [Nodes -> BOOLEAN]
  BY NodeAssumption DEF Nodes, Typed
<1>2. /\ UNCHANGED <<epoch, up, backlog, slots>>
      /\ intent' = [intent EXCEPT ![c] = on]
  BY DEF Frame, tcp
<1>3. Eligible(c, on) <=> on
  BY <1>1 DEF Eligible, PeerCount
<1>4. neg'[c].wasConnected /\ neg'[Server] = neg[Server]
  BY <1>1, FrameHears DEF Connected
<1>5. intent'[c] = on /\ intent'[Server] = intent[Server]
  BY <1>1, <1>2
<1>6. ASSUME NEW m \in net' PROVE m \in net \/ (on /\ m = Hello(c))
  <2> SUFFICES ASSUME m \notin net PROVE on /\ m = Hello(c)
    OBVIOUS
  <2>1. on
    BY <1>1, <1>3, FrameSends
  <2>2. CASE \E g \in got : m = [from |-> c, to |-> g.from]
    <3>1. PICK g \in got : m = [from |-> c, to |-> g.from]
      BY <2>2
    <3>2. g \in {Hello(c), Answer(c)} /\ g.to = c
      BY OnlyConnection DEF Addressed
    <3>3. g.from = Server
      BY <1>1, <3>2 DEF Hello, Answer
    <3> QED BY <2>1, <3>1, <3>3 DEF Hello
  <2>3. m = Hello(c) \/ \E g \in got : m = [from |-> c, to |-> g.from]
    BY <1>1, FrameSends
  <2> QED BY <2>1, <2>2, <2>3
<1>7. \A g \in got : g = Answer(c) /\ g \in net
  <2>1. ASSUME NEW g \in got PROVE g = Answer(c) /\ g \in net
    <3>1. g \in net /\ g \in {Hello(c), Answer(c)} /\ g.to = c
      BY OnlyConnection DEF Addressed
    <3> QED BY <1>1, <3>1 DEF Hello
  <2> QED BY <2>1
<1>8. Answer(c) \in net' => Answer(c) \in net
  BY <1>1, <1>6 DEF Answer, Hello
<1>9. neg'[c].confirmed => on /\ (neg[c].confirmed \/ (got # {} /\ Answer(c) \in net))
  BY <1>1, <1>3, <1>7, FrameHears
<1>10. net' # {} \/ neg'[c].confirmed => intent'[c]
  <2>1. net' # {} => net # {} \/ on
    BY <1>6
  <2>2. net # {} => on
    BY DEF Handshake
  <2> QED BY <1>5, <1>9, <2>1, <2>2
<1>11. <<c, 1>> \in backlog => Answer(c) \notin net' /\ ~neg'[c].confirmed
  BY <1>8, <1>9 DEF Handshake
<1>12. ASSUME <<c, 1>> \in slots
       PROVE  /\ Answer(c) \in net' \/ neg'[c].confirmed
                    => neg'[Server].wasConnected /\ intent'[Server]
              /\ neg'[c].confirmed => neg'[Server].confirmed \/ Hello(c) \in net'
  <2>1. Answer(c) \in net \/ neg[c].confirmed => neg[Server].wasConnected /\ intent[Server]
    BY <1>12 DEF Handshake
  <2>2. ASSUME neg'[c].confirmed PROVE neg[Server].confirmed \/ Hello(c) \in net'
    <3>1. CASE neg[c].confirmed
      <4>1. neg[Server].confirmed \/ Hello(c) \in net
        BY <1>12, <3>1 DEF Handshake
      <4>2. Hello(c) \notin got
        BY <1>1, <1>7 DEF Hello, Answer
      <4>3. net \ got \subseteq net'
        BY <1>1, FrameSends
      <4> QED BY <4>1, <4>2, <4>3
    <3>2. CASE ~neg[c].confirmed
      <4>1. PICK g \in got : g = Answer(c)
        BY <1>7, <1>9, <2>2, <3>2
      <4>2. [from |-> c, to |-> g.from] \in net'
        BY <1>1, <1>3, <1>9, <2>2, <3>2, FrameSends
      <4> QED BY <4>1, <4>2 DEF Answer, Hello
    <3> QED BY <3>1, <3>2
  <2> QED BY <1>4, <1>5, <1>8, <1>9, <2>1, <2>2
<1> QED BY <1>2, <1>4, <1>10, <1>11, <1>12 DEF Handshake, Hello, Answer

\* The server's frame: it answers only on a connection it has accepted, and keeps
\* what the client told it on one it has seen.
LEMMA HandshakeServerFrame ==
  ASSUME Typed, Ends, NEW c \in Clients, NEW on \in BOOLEAN, NEW got,
         Frame(Server, on, got), Addressed(Server, got), on = intent[Server],
         OnlyClient(c), Handshake(c)
  PROVE  Handshake(c)'
<1>1. /\ c \in Nodes /\ Server \in Nodes /\ c # Server /\ Server \notin Clients
      /\ neg \in [Nodes -> NegStates] /\ intent \in [Nodes -> BOOLEAN]
  BY NodeAssumption DEF Nodes, Typed
<1>2. /\ UNCHANGED <<epoch, up, backlog, slots>>
      /\ intent' = [intent EXCEPT ![Server] = on]
  BY DEF Frame, tcp
<1>3. slots \cup backlog \subseteq {<<c, 1>>}
  BY OnlyConnection
<1>4. neg'[c] = neg[c] /\ intent'[c] = intent[c] /\ intent'[Server] = intent[Server]
  BY <1>1, <1>2, FrameHears
<1>5. net \ got \subseteq net' /\ \A m \in net' : m \in net \/ (Eligible(Server, on) /\ got # {})
  BY <1>1, FrameSends
<1>6. Eligible(Server, on) => on /\ slots = {<<c, 1>>}
  BY <1>1, <1>3, EligibleUp DEF Eligible
<1>7. net' # {} => net # {}
  BY <1>5 DEF Addressed
<1>8. <<c, 1>> \in backlog => Answer(c) \notin net' /\ ~neg'[c].confirmed
  <2> SUFFICES ASSUME <<c, 1>> \in backlog PROVE Answer(c) \notin net' /\ ~neg'[c].confirmed
    OBVIOUS
  <2>1. slots # {<<c, 1>>}
    BY DEF Ends
  <2> QED BY <1>4, <1>5, <1>6, <2>1 DEF Handshake
<1>9. ASSUME <<c, 1>> \in slots
      PROVE  /\ Answer(c) \in net' \/ neg'[c].confirmed
                   => neg'[Server].wasConnected /\ intent'[Server]
             /\ neg'[c].confirmed => neg'[Server].confirmed \/ Hello(c) \in net'
  <2>1. slots = {<<c, 1>>} /\ slots # {}
    BY <1>3, <1>9
  <2>2. neg'[Server].wasConnected
    BY <1>1, <2>1, FrameHears DEF Connected
  <2>3. Answer(c) \in net' \/ neg'[c].confirmed => on
    BY <1>4, <1>5, <1>6, <1>9 DEF Handshake
  <2>4. ASSUME neg[c].confirmed PROVE neg'[Server].confirmed \/ Hello(c) \in net'
    <3>1. /\ neg[Server].wasConnected /\ on
          /\ neg[Server].confirmed \/ Hello(c) \in net
      BY <1>9, <2>4 DEF Handshake
    <3>2. Eligible(Server, on)
      BY <1>1, <2>1, <3>1, FS_Singleton DEF Eligible, PeerCount
    <3> QED BY <1>1, <1>5, <3>1, <3>2, FrameHears
  <2> QED BY <1>4, <2>2, <2>3, <2>4
<1> QED BY <1>2, <1>4, <1>7, <1>8, <1>9 DEF Handshake, Hello, Answer

\* Every step keeps the handshake of an undisturbed client.
LEMMA HandshakesNext ==
  ASSUME Typed, Ends, Handshakes, [Next]_vars
  PROVE  Handshakes'
<1> SUFFICES ASSUME NEW c \in Clients, Undisturbed(c)' PROVE Handshake(c)'
  BY DEF Handshakes
<1>0. Undisturbed(c) => Handshake(c)
  BY DEF Handshakes
<1>1. ASSUME NEW n \in Nodes, NEW on \in BOOLEAN, NEW got, Frame(n, on, got), Addressed(n, got)
      PROVE  Handshake(c)'
  <2>1. /\ UNCHANGED <<epoch, up, backlog, slots, lost>>
        /\ steady' = (steady /\ on = intent[n])
        /\ intent' = [intent EXCEPT ![n] = on]
    BY <1>1 DEF Frame, tcp
  <2>2. Undisturbed(c) /\ on = intent[n]
    BY <2>1 DEF Undisturbed, OnlyClient
  <2>3. OnlyClient(c) /\ c \in up /\ Handshake(c)
    BY <1>0, <2>2 DEF Undisturbed
  <2>4. CASE n = c
    BY <1>1, <2>2, <2>3, <2>4, HandshakeClientFrame
  <2>5. CASE n = Server
    BY <1>1, <2>2, <2>3, <2>5, HandshakeServerFrame
  <2>6. CASE n \notin {c, Server}
    <3>1. n \in Clients /\ n \notin up
      BY <2>3, <2>6, OnlyConnection DEF Nodes
    <3>2. ~Eligible(n, on)
      BY <3>1, EligibleUp
    <3>3. got = {}
      <4> SUFFICES ASSUME NEW g \in got PROVE FALSE
        OBVIOUS
      <4>1. g \in {Hello(c), Answer(c)} /\ g.to = n
        BY <1>1, <2>3, OnlyConnection DEF Addressed
      <4> QED BY <2>6, <4>1 DEF Hello, Answer
    <3>4. neg \in [Nodes -> NegStates] /\ c \in Nodes /\ Server \in Nodes
      BY DEF Typed, Nodes
    <3>5. net \subseteq net' /\ net' \subseteq net
      BY <1>1, <3>2, <3>3, <3>4, FrameSends
    <3>6. neg'[c] = neg[c] /\ neg'[Server] = neg[Server]
      BY <1>1, <2>6, <3>4, FrameHears
    <3>7. intent'[c] = intent[c] /\ intent'[Server] = intent[Server]
      BY <2>1, <2>6, <3>4 DEF Typed
    <3>8. net' = net
      BY <3>5
    <3> QED BY <2>1, <2>3, <3>6, <3>7, <3>8 DEF Handshake
  <2> QED BY <2>4, <2>5, <2>6
<1>2. ASSUME NEW d \in Clients, Connect(d) PROVE Handshake(c)'
  <2>1. /\ epoch' = [epoch EXCEPT ![d] = epoch[d] + 1]
        /\ UNCHANGED <<slots, neg, net>>
    BY <1>2 DEF Connect
  <2>2. \A k \in Clients : epoch[k] \in Nat /\ epoch'[k] = IF k = d THEN epoch[k] + 1 ELSE epoch[k]
    BY <2>1, NegAssumption DEF Ends
  <2>3. \A k \in Clients : epoch'[k] = IF k = c THEN 1 ELSE 0
    BY DEF Undisturbed, OnlyClient
  <2>4. d = c
    BY <2>2, <2>3
  <2>5. \A k \in Clients : epoch[k] = 0
    BY <2>2, <2>3, <2>4
  <2>6. net = {} /\ ~neg[c].confirmed
    BY <2>5 DEF Ends
  <2>7. slots = {}
    <3> SUFFICES ASSUME NEW conn \in slots PROVE FALSE
      OBVIOUS
    <3>1. PICK k \in Clients : \E e \in 1 .. epoch[k] : conn = <<k, e>>
      BY DEF Ends
    <3> QED BY <2>5, <3>1
  <2> QED BY <2>1, <2>6, <2>7 DEF Handshake
<1>3. ASSUME NEW d \in Clients, LinkLost(d) \/ ClientClose(d) PROVE Handshake(c)'
  <2>1. up' = up \ {d} /\ d \in up /\ epoch' = epoch
    BY <1>3 DEF LinkLost, ClientClose
  <2>2. OnlyClient(c) /\ c \in up'
    BY <2>1 DEF Undisturbed, OnlyClient
  <2> QED BY <2>1, <2>2, OnlyConnection
<1>4. ASSUME NEW reads \in BOOLEAN, ServerPoll(reads) PROVE Handshake(c)'
  <2>1. /\ slots' \subseteq slots \cup backlog /\ backlog' = {}
        /\ UNCHANGED <<epoch, up, intent, neg, net, lost, steady>>
    BY <1>4 DEF ServerPoll
  <2>2. Handshake(c)
    BY <1>0, <2>1 DEF Undisturbed, OnlyClient
  <2> QED BY <2>1, <2>2 DEF Handshake
<1>5. CASE ServerClose
  <2>1. /\ slots' = {} /\ backlog' = {}
        /\ UNCHANGED <<epoch, up, intent, net, lost, steady>>
        /\ neg' = [neg EXCEPT ![Server] = Stock(FALSE)]
    BY <1>5 DEF ServerClose
  <2>2. neg'[c] = neg[c]
    BY <2>1, NodeAssumption DEF Typed, Nodes
  <2>3. Handshake(c)
    BY <1>0, <2>1 DEF Undisturbed, OnlyClient
  <2> QED BY <2>1, <2>2, <2>3 DEF Handshake
<1>6. ASSUME NEW m \in net, Lose(m) PROVE Handshake(c)'
  <2>1. lost' = lost + 1 /\ lost' = 0
    BY <1>6 DEF Lose, Undisturbed
  <2> QED BY <2>1, NegAssumption DEF Ends
<1>7. ASSUME NEW n \in Nodes, NEW d \in {1, SpeedupMax}, StateLoad(n, d) PROVE Handshake(c)'
  <2>1. /\ UNCHANGED <<epoch, up, backlog, slots, intent, net, lost, steady>>
        /\ neg' = [neg EXCEPT ![n].effective = d]
    BY <1>7 DEF StateLoad, tcp
  <2>2. \A k \in Nodes : /\ neg'[k].confirmed = neg[k].confirmed
                         /\ neg'[k].wasConnected = neg[k].wasConnected
    BY <2>1 DEF Typed, NegStates
  <2>3. Handshake(c) /\ c \in Nodes /\ Server \in Nodes
    BY <1>0, <2>1 DEF Undisturbed, OnlyClient, Nodes
  <2> QED BY <2>1, <2>2, <2>3 DEF Handshake
<1>8. ASSUME NEW n \in Nodes, Reset(n) PROVE Handshake(c)'
  <2>1. /\ UNCHANGED <<epoch, up, backlog, slots, intent, net, lost, steady>>
        /\ neg' = [neg EXCEPT ![n].effective = 1]
    BY <1>8 DEF Reset, tcp
  <2>2. \A k \in Nodes : /\ neg'[k].confirmed = neg[k].confirmed
                         /\ neg'[k].wasConnected = neg[k].wasConnected
    BY <2>1 DEF Typed, NegStates
  <2>3. Handshake(c) /\ c \in Nodes /\ Server \in Nodes
    BY <1>0, <2>1 DEF Undisturbed, OnlyClient, Nodes
  <2> QED BY <2>1, <2>2, <2>3 DEF Handshake
<1>9. CASE UNCHANGED vars
  BY <1>0, <1>9 DEF vars, tcp, Handshake, Undisturbed, OnlyClient, Hello, Answer
<1> QED BY <1>1, <1>2, <1>3, <1>4, <1>5, <1>6, <1>7, <1>8, <1>9, FrameCases

\* Two consoles that nobody else calls agree on their first connection as soon as
\* nothing is in flight, unless a datagram was lost: any number of attempts, any
\* order of frames, polls and datagrams, and whatever is loaded.
THEOREM OneSidedOnlyByLossAlways == Spec => []OneSidedOnlyByLoss
<1>1. Init => IInv /\ Typed /\ Ends /\ Handshakes
  BY IInvInit, TypedInit, EndsInit, HandshakesInit
<1>2. IInv /\ Typed /\ Ends /\ Handshakes /\ [Next]_vars
        => IInv' /\ Typed' /\ Ends' /\ Handshakes'
  BY IInvNext, TypedNext, EndsNext, HandshakesNext
<1>3. Handshakes => OneSidedOnlyByLoss
  BY DEF Handshakes, Undisturbed, Handshake, OneSidedOnlyByLoss, QuietAgreement
<1> QED BY <1>1, <1>2, <1>3, PTL DEF Spec

-----------------------------------------------------------------------------
(* A hub.                                                                     *)

\* A frame of the server with several connections ends unconfirmed.
HubUnconfirmed == last = Server /\ Cardinality(slots) > 1 => ~neg[Server].confirmed

\* Only a frame of the server matters: every other step names another core or none.
LEMMA HubStep == Typed /\ HubUnconfirmed /\ [Next]_vars => HubUnconfirmed'
<1> SUFFICES ASSUME Typed, HubUnconfirmed, [Next]_vars PROVE HubUnconfirmed'
  OBVIOUS
<1>1. ASSUME NEW n \in Nodes, NEW on \in BOOLEAN, NEW got, Frame(n, on, got)
      PROVE  HubUnconfirmed'
  <2>1. slots' = slots /\ last' = n /\ neg \in [Nodes -> NegStates]
    BY <1>1 DEF Frame, tcp, Typed
  <2>2. ASSUME n = Server, Cardinality(slots) > 1 PROVE ~neg'[n].confirmed
    <3>1. ~Eligible(n, on)
      BY <2>2 DEF Eligible, PeerCount
    <3> QED BY <1>1, <2>1, <3>1, FrameHears
  <2> QED BY <2>1, <2>2 DEF HubUnconfirmed
<1>2. last' = Nobody => HubUnconfirmed'
  BY NodeAssumption DEF HubUnconfirmed, Nodes
<1>3. CASE UNCHANGED vars
  BY <1>3 DEF vars, tcp, HubUnconfirmed
<1> QED BY <1>1, <1>2, <1>3, FrameCases
        DEF Connect, LinkLost, ClientClose, ServerPoll, ServerClose, Lose, StateLoad, Reset

\* A server with several consoles runs at stock timing after its frame, for any
\* number of them, until a state is loaded.
THEOREM MultiDropAlwaysStock == Spec => [](loads = 0 => MultiDropStaysStock)
<1>1. Init => IInv /\ Typed /\ HubUnconfirmed
  BY IInvInit, TypedInit, NodeAssumption DEF Init, HubUnconfirmed, Nodes
<1>2. IInv /\ Typed /\ HubUnconfirmed /\ [Next]_vars => IInv' /\ Typed' /\ HubUnconfirmed'
  BY IInvNext, TypedNext, HubStep
<1>3. IInv /\ HubUnconfirmed => (loads = 0 => MultiDropStaysStock)
  BY DEF IInv, Agreed, NegStates, HubUnconfirmed, MultiDropStaysStock, Nodes
<1> QED BY <1>1, <1>2, <1>3, PTL DEF Spec
=============================================================================
