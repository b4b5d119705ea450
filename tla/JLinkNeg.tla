------------------------------ MODULE JLinkNeg ------------------------------
(***************************************************************************)
(* Wire-speed negotiation of src/jerry/jlink.c: one core runs as TCP       *)
(* server, the others dial it, and hello datagrams on the discovery port   *)
(* decide whether a core divides its character time.  The client says      *)
(* hello until it hears one; the server answers the first it hears.        *)
(*                                                                         *)
(* The TCP side (src/jerry/jlink_tcp.c) is kept as far as the negotiation  *)
(* sees it: which connections sit in the server's slots, which still wait  *)
(* to be accepted, and whether a client's socket is up.  Every core is a   *)
(* machine of its own, so no datagram comes back to its sender.            *)
(***************************************************************************)
EXTENDS Integers, FiniteSets

CONSTANTS
    Server, Clients,
    Options,         \* settings of netlink_speed that users choose: is it "auto"?
    SpeedupMax,      \* UART_WIRE_SPEEDUP_MAX
    MaxAttempts,     \* JLINK_NEG_MAX_ATTEMPTS
    MaxEpoch,        \* bound: connections a client makes
    MaxLost,         \* bound: datagrams the network loses
    MaxLoads         \* bound: save states loaded

ASSUME NegAssumption ==
    /\ Options \subseteq BOOLEAN
    /\ SpeedupMax \in Nat /\ SpeedupMax > 1
    /\ MaxAttempts \in Nat \ {0}
    /\ MaxEpoch \in Nat /\ MaxLost \in Nat /\ MaxLoads \in Nat

Nodes == Clients \cup {Server}
Nobody == "nobody"
ASSUME NodeAssumption == Server \notin Clients /\ IsFiniteSet(Clients) /\ Nobody \notin Nodes
Connections == Clients \X (1 .. MaxEpoch)
NoConnection == <<Server, 0>>
Datagrams == [from : Nodes, to : Nodes]

NegStates == [confirmed : BOOLEAN, attempts : 0 .. MaxAttempts, gaveUp : BOOLEAN,
              wasConnected : BOOLEAN, effective : 1 .. SpeedupMax]

VARIABLES
    epoch,       \* connections each client has made so far
    up,          \* clients whose socket is connected
    backlog,     \* connections the server's kernel holds for accept
    slots,       \* connections in tcpPeers
    intent,      \* uartWireSpeedupIntent of each core
    neg,         \* the jlinkNeg... variables and uartWireSpeedupEffective of each core
    net,         \* datagrams in flight
    lost, loads, \* the bounds in use
    earned,      \* history: the connection whose hello the server confirmed
    steady,      \* history: no core ever changed its option
    slowed,      \* history: the cores reset since they were confirmed
    last         \* history: the core whose JLinkFrameTick was the last step

tcp == <<epoch, up, backlog, slots>>
vars == <<epoch, up, backlog, slots, intent, neg, net, lost, loads, earned, steady, slowed, last>>

TypeOK ==
    /\ epoch \in [Clients -> 0 .. MaxEpoch] /\ up \subseteq Clients
    /\ backlog \subseteq Connections /\ slots \subseteq Connections
    /\ intent \in [Nodes -> BOOLEAN]
    /\ neg \in [Nodes -> NegStates]
    /\ net \subseteq Datagrams
    /\ lost \in 0 .. MaxLost /\ loads \in 0 .. MaxLoads
    /\ earned \in Connections \cup {NoConnection}
    /\ steady \in BOOLEAN /\ slowed \subseteq Nodes /\ last \in Nodes \cup {Nobody}

-----------------------------------------------------------------------------
(* What the negotiation asks the transport. *)

PeerCount(n) == IF n = Server THEN Cardinality(slots) ELSE IF n \in up THEN 1 ELSE 0

Connected(n) == n \in up \/ (n = Server /\ slots # {})

\* Discovery is active in both TCP modes.
Eligible(n, on) == on /\ PeerCount(n) = 1

\* The connection a client has now is alive; every older one of its is not.
Alive(conn) == conn[1] \in up /\ conn[2] = epoch[conn[1]]

-----------------------------------------------------------------------------
(* The steps of one core's negotiation, as functions on its state.         *)

\* JLinkClose.
Stock(connected) ==
    [confirmed |-> FALSE, attempts |-> 0, gaveUp |-> FALSE, wasConnected |-> connected,
     effective |-> 1]

\* UARTSetWireSpeedupIntent.
SetIntent(s, on) == IF on THEN s ELSE [s EXCEPT !.effective = 1]

\* JLinkNegOnRaw, on a core that is eligible.
OnRaw(s) == IF s.confirmed THEN s
            ELSE [confirmed |-> TRUE, attempts |-> s.attempts, gaveUp |-> s.gaveUp,
                  wasConnected |-> s.wasConnected, effective |-> SpeedupMax]

\* Mutant of Reconcile: what was agreed is kept when the session is not eligible.
ReconcileFreshOnly(s, eligible, connected) ==
    IF eligible /\ ~s.wasConnected THEN Stock(TRUE) ELSE [s EXCEPT !.wasConnected = connected]

\* Mutant of Reconcile: a fresh connection is not told from an old one.
ReconcileTrusting(s, eligible, connected) ==
    IF ~eligible /\ (s.confirmed \/ s.attempts > 0 \/ s.gaveUp)
    THEN Stock(connected)
    ELSE [s EXCEPT !.wasConnected = connected]

\* JLinkNegTick up to the retry timer.  A session that is not eligible is reset
\* only if there is something to reset; a fresh connection always is.
Reconcile(s, eligible, connected) ==
    IF \/ eligible /\ ~s.wasConnected
       \/ ~eligible /\ (s.confirmed \/ s.attempts > 0 \/ s.gaveUp)
    THEN Stock(connected)
    ELSE [s EXCEPT !.wasConnected = connected]

\* Mutant of Retry: the attempts are not counted.
RetryForever(s) == [s EXCEPT !.attempts = 1]

\* The rest of JLinkNegTick on a client whose retry timer has run out.
Retry(s) ==
    IF s.attempts < MaxAttempts THEN [s EXCEPT !.attempts = @ + 1] ELSE [s EXCEPT !.gaveUp = TRUE]

-----------------------------------------------------------------------------

\* Mutant of Reply: only the server answers.
ReplyServerOnly(n, got) == {[from |-> n, to |-> m.from] : m \in {x \in got : n = Server}}

\* Whoever confirms answers, the client too: the server needs that answer when it
\* spent the first hello on a connection it had not seen yet.
Reply(n, got) == {[from |-> n, to |-> m.from] : m \in got}

InFlight(n) == {m \in net : n \in {m.from, m.to}}

\* The head of retro_run on core n: check_variables finds the option at `on`,
\* JLinkDiscPoll reads the datagrams in `got` (at most one; whatever follows an
\* accepted one in the same frame is ignored), JLinkNegTick reconciles.  The
\* retry timer, JLINK_NEG_RETRY_MS, is long against a round trip: it runs out
\* only once nothing of this core's is in flight.
Frame(n, on, got) ==
    LET el     == Eligible(n, on)
        s0     == SetIntent(neg[n], on)
        hears  == got # {} /\ el /\ ~s0.confirmed
        s1     == IF hears THEN OnRaw(s0) ELSE s0
        s2     == Reconcile(s1, el, Connected(n))
        due    == /\ n \in Clients /\ el /\ ~s2.confirmed /\ ~s2.gaveUp
                  /\ s2.attempts > 0 => InFlight(n) \subseteq got
        s3     == IF due THEN Retry(s2) ELSE s2
        reply  == IF hears THEN Reply(n, got) ELSE {}
        hello  == IF due /\ s2.attempts < MaxAttempts
                  THEN {[from |-> n, to |-> Server]} ELSE {}
    IN  /\ neg' = [neg EXCEPT ![n] = s3]
        /\ intent' = [intent EXCEPT ![n] = on]
        /\ net' = (net \ got) \cup reply \cup hello
        /\ earned' = IF hears /\ n = Server THEN CHOOSE conn \in slots : TRUE ELSE earned
        /\ steady' = (steady /\ on = intent[n])
        /\ slowed' = IF s3.confirmed THEN slowed ELSE slowed \ {n}
        /\ last' = n
        /\ UNCHANGED <<tcp, lost, loads>>

\* A nonblocking connect completes: the server's kernel has the connection, the
\* server itself has not accepted it.
Connect(c) ==
    /\ c \notin up /\ epoch[c] < MaxEpoch
    /\ up' = up \cup {c}
    /\ epoch' = [epoch EXCEPT ![c] = @ + 1]
    /\ backlog' = backlog \cup {<<c, epoch[c] + 1>>}
    /\ last' = Nobody
    /\ UNCHANGED <<slots, intent, neg, net, lost, loads, earned, steady, slowed>>

\* jlink_tcp_drop_peer on the client: the connection is gone, nothing else changes.
LinkLost(c) ==
    /\ c \in up
    /\ up' = up \ {c}
    /\ last' = Nobody
    /\ UNCHANGED <<epoch, backlog, slots, intent, neg, net, lost, loads, earned, steady, slowed>>

\* JLinkPoll on the server: accept what waits, then drop the connections whose
\* recv fails, unless a full ring kept it from reading.
ServerPoll(reads) ==
    LET all == slots \cup backlog
    IN  /\ slots' = IF reads THEN {conn \in all : Alive(conn)} ELSE all
        /\ backlog' = {}
        /\ last' = Nobody
        /\ UNCHANGED <<epoch, up, intent, neg, net, lost, loads, earned, steady, slowed>>

ClientClose(c) ==
    /\ c \in up
    /\ up' = up \ {c}
    /\ neg' = [neg EXCEPT ![c] = Stock(FALSE)]
    /\ slowed' = slowed \ {c}
    /\ last' = Nobody
    /\ UNCHANGED <<epoch, backlog, slots, intent, net, lost, loads, earned, steady>>

\* The listening socket goes with the slots and is opened again.
ServerClose ==
    /\ slots' = {} /\ backlog' = {}
    /\ neg' = [neg EXCEPT ![Server] = Stock(FALSE)]
    /\ slowed' = slowed \ {Server}
    /\ last' = Nobody
    /\ UNCHANGED <<epoch, up, intent, net, lost, loads, earned, steady>>

Lose(m) ==
    /\ lost < MaxLost
    /\ net' = net \ {m} /\ lost' = lost + 1
    /\ last' = Nobody
    /\ UNCHANGED <<tcp, intent, neg, loads, earned, steady, slowed>>

\* UARTWireSpeedupStateLoad: the divisor comes from a state this core once saved.
StateLoad(n, d) ==
    /\ loads < MaxLoads
    /\ loads' = loads + 1
    /\ neg' = [neg EXCEPT ![n].effective = d]
    /\ last' = Nobody
    /\ UNCHANGED <<tcp, intent, net, lost, earned, steady, slowed>>

\* retro_reset: UARTReset puts the divisor back to 1 and leaves the connection and
\* everything JLinkNegTick keeps as they are.
Reset(n) ==
    /\ neg' = [neg EXCEPT ![n].effective = 1]
    /\ slowed' = IF neg[n].confirmed THEN slowed \cup {n} ELSE slowed
    /\ last' = Nobody
    /\ UNCHANGED <<tcp, intent, net, lost, loads, earned, steady>>

-----------------------------------------------------------------------------

Init ==
    /\ epoch = [c \in Clients |-> 0] /\ up = {} /\ backlog = {} /\ slots = {}
    /\ intent \in [Nodes -> Options]
    /\ neg = [n \in Nodes |-> Stock(FALSE)]
    /\ net = {} /\ lost = 0 /\ loads = 0
    /\ earned = NoConnection /\ steady = TRUE /\ slowed = {} /\ last = Nobody

Reads(n, m) == m.to = n /\ \E on \in Options : Frame(n, on, {m})

ReadsNothing(n) == \E on \in Options : Frame(n, on, {})

Next ==
    \/ \E n \in Nodes : ReadsNothing(n) \/ \E m \in net : Reads(n, m)
    \/ \E c \in Clients : Connect(c) \/ LinkLost(c) \/ ClientClose(c)
    \/ \E reads \in BOOLEAN : ServerPoll(reads)
    \/ ServerClose
    \/ \E m \in net : Lose(m)
    \/ \E n \in Nodes : \E d \in {1, SpeedupMax} : StateLoad(n, d)
    \/ \E n \in Nodes : Reset(n)

\* Every core keeps running frames, and JLinkDiscPoll empties the socket in each.
Fairness ==
    \A n \in Nodes : /\ WF_vars(ReadsNothing(n))
                     /\ WF_vars(\E m \in net : Reads(n, m))

Spec == Init /\ [][Next]_vars /\ Fairness

-----------------------------------------------------------------------------

\* The divisor follows the negotiation: a core runs fast exactly while it counts a
\* peer as confirmed and was not reset since it did, through option changes, drops,
\* reconnects and late datagrams.  A reset parts them for the rest of the connection
\* and no longer (SameSpeed); so may a loaded state (LoadedSpeedupReconciled).
FastIffConfirmed ==
    loads = 0 => \A n \in Nodes : neg[n].effective > 1 <=> neg[n].confirmed /\ n \notin slowed

\* A hub with several consoles stays at stock timing (comment above
\* JLinkNegEligible): there is no agreement among more than two.
MultiDropStaysStock ==
    last = Server /\ Cardinality(slots) > 1 => neg[Server].effective = 1

\* A client that stays connected and stays in "auto" comes to an end: confirmed
\* or given up.  It does not say hello for ever.
Settles ==
    \A c \in Clients : <>[](c \in up /\ intent[c]) => <>(neg[c].confirmed \/ neg[c].gaveUp)

\* A core whose link went down is back at stock timing before long, unless it
\* comes up again or a state is loaded meanwhile.
DropReturnsToStock ==
    \A c \in Clients :
        (c \notin up /\ loads = 0) ~> (neg[c].effective = 1 \/ c \in up \/ loads > 0)

\* A fresh connection starts clean, whatever an earlier connection or a loaded
\* state left behind (comment in JLinkNegTick), even if a hello came in with it.
FreshConnectionStartsStock ==
    [][\A n \in Nodes :
        last' = n /\ ~neg[n].wasConnected /\ Eligible(n, intent'[n]) => neg'[n].effective = 1]_vars

\* Client c made one connection and no other client made any.
OnlyClient(c) == \A d \in Clients : epoch[d] = IF d = c THEN 1 ELSE 0

\* On the first connection of client c both ends agree once nothing is in flight, if
\* no option was changed and no datagram lost.
QuietAgreement(c) ==
    /\ neg[c].confirmed /\ steady /\ lost = 0 /\ net = {}
    /\ slots = {<<c, 1>>} /\ c \in up /\ epoch[c] = 1
    => neg[Server].confirmed

\* docs/netlink-design.md: a one-sided speedup is bounded to datagrams that do not
\* cross over.  On the first connection of two consoles, with every option left
\* alone: once nothing is in flight and nothing was lost, a confirmed client has a
\* confirmed server at the other end.
OneSidedOnlyByLoss == \A c \in Clients : OnlyClient(c) => QuietAgreement(c)

\* The same sentence, with other consoles about.  One that joined and left has set
\* the server back to stock timing, and the client that stayed never says hello again.
OneSidedOnlyByLossInHub == \A c \in Clients : QuietAgreement(c)

\* uart.c, in UARTReset: a reset drops any prior negotiation, the link being about
\* to be torn down and reopened.  So two cores that both count this connection as
\* confirmed, with no option changed, run at the same speed.
SameSpeed ==
    \A c \in Clients :
        /\ OnlyClient(c) /\ slots = {<<c, 1>>} /\ steady /\ loads = 0
        /\ neg[c].confirmed /\ neg[Server].confirmed
        => neg[c].effective = neg[Server].effective

\* jlink.c, above JLinkNegTick: a restored divisor survives only as long as the
\* reconciliation keeps agreeing, so a frame ends fast only if confirmed.
LoadedSpeedupReconciled == last \in Nodes => (neg[last].effective > 1 => neg[last].confirmed)

\* The same comment: what was agreed holds only for the SAME connection that
\* earned it.
AgreementIsWithThisPeer == last = Server /\ neg[Server].confirmed => earned \in slots

\* jlink.c, in JLinkNegOnRaw: a lost reply is fine because the client resends.
\* So a client that gave up on a server which did confirm this connection must
\* have lost as many datagrams as it sent hellos.
RetrySurvivesLoss ==
    \A c \in Clients :
        /\ neg[c].gaveUp /\ neg[Server].confirmed
        /\ earned = <<c, epoch[c]>>
        => lost >= MaxAttempts
=============================================================================
