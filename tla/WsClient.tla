------------------------------ MODULE WsClient ------------------------------
(***************************************************************************)
(* The websocket clients of the chat window (internal/transport/ws): the   *)
(* connection, the closed flag and the event channel of each, and the      *)
(* goroutines that run in Connect, Send, Disconnect and readLoop.          *)
(*                                                                         *)
(* Goroutines are records in the bag `go`; ChatConnection adds the ones    *)
(* that wait for events or for a connect.  A lock section of the code is   *)
(* one step, and everything that blocks (dialing, reading, a full channel) *)
(* separates steps.  The relay end of a socket answers a subscription at   *)
(* once and may cut the connection at any time.                            *)
(***************************************************************************)
EXTENDS Naturals, Sequences, FiniteSets, Bags

CONSTANTS
    Client,    \* the clients a window creates: one per relay it switches to
    Socket,    \* identities of connections, reused when nothing holds them
    EventCap,  \* capacity of the event channel (32 in the code)
    MaxFaults  \* bound on failed dials, refusals and cut connections

ASSUME WsClientAssumption ==
    /\ IsFiniteSet(Socket) /\ Socket \subseteq Nat \ {0}
    /\ EventCap \in Nat \ {0}
    /\ MaxFaults \in Nat

VARIABLES
    sock,    \* [Socket -> [state, inbox]]: "open", "cut" by the peer, "closed" by us
    spent,   \* connections whose first challenge the relay has seen answered
    conn,    \* [Client -> c.conn; NoSocket is nil]
    closed,  \* [Client -> c.closed]
    shut,    \* [Client -> whether close(c.events) ran]
    events,  \* [Client -> what c.events buffers]
    go,      \* bag of goroutines
    faults   \* faults left

wsVars == <<sock, spent, conn, closed, shut, events, go, faults>>

NoSocket == 0

NewRoutine(kind, c, pc, k, out) ==
    [kind |-> kind, client |-> c, pc |-> pc, conn |-> k, out |-> out]
Routines == BagToSet(go)

\* Goroutine g takes a step, or ends, and the goroutines of `next` go on.
Continues(g, next) == go' = (go (-) SetToBag({g})) (+) SetToBag(next)

IsOpen(k) == k # NoSocket /\ sock[k].state = "open"
IsCut(k) == k # NoSocket /\ sock[k].state = "cut"
Shut(s, k) == IF k = NoSocket THEN s ELSE [s EXCEPT ![k] = [state |-> "closed", inbox |-> <<>>]]
Held == {conn[c] : c \in Client} \union {g.conn : g \in Routines}
Unused == {k \in Socket \ Held : ~IsOpen(k)}

WsInit ==
    /\ sock = [k \in Socket |-> [state |-> "closed", inbox |-> <<>>]]
    /\ spent = {}
    /\ conn = [c \in Client |-> NoSocket]
    /\ closed = [c \in Client |-> FALSE]
    /\ shut = [c \in Client |-> FALSE]
    /\ events = [c \in Client |-> <<>>]
    /\ faults = MaxFaults

\* What Connect's caller does next: connectCmd returns the result, sendCmd
\* goes on to send when the connect succeeded.
Returned(g, out) ==
    IF g.kind = "send" /\ out = "ok"
    THEN NewRoutine("send", g.client, "write", NoSocket, "reconnected")
    ELSE NewRoutine(g.kind, g.client, "done", NoSocket, out)

\* Goroutine g is blocked, for as long as it takes: a read loop also while
\* nobody has noticed yet that its connection is cut.
Waiting(g) ==
    \/ g.pc \in {"dial", "backoff"}
    \/ g.pc = "read" /\ (IsCut(g.conn) \/ (IsOpen(g.conn) /\ sock[g.conn].inbox = <<>>))
    \/ g.pc = "event" /\ Len(events[g.client]) = EventCap /\ ~shut[g.client]
    \/ g.kind = "wait" /\ g.pc = "start" /\ events[g.client] = <<>> /\ ~shut[g.client]

\* Bound: the delay before a reconnect, a second or more, outlasts what the
\* other goroutines do without blocking, a handshake included.
Dials(g) == g.pc = "dial" \/ (g.pc = "backoff" /\ \A h \in Routines : Waiting(h))

\* Connect: the dial fails, or the relay refuses the token.
DialFails(g) ==
    /\ Dials(g) /\ faults > 0
    /\ faults' = faults - 1
    /\ \E out \in {"fail", "auth"} : Continues(g, {Returned(g, out)})
    /\ UNCHANGED <<sock, spent, conn, closed, shut, events>>

\* Connect: the new connection replaces c.conn before its handshake, and the
\* one it replaces is closed.
Dial(g) ==
    /\ Dials(g) /\ Unused # {}
    /\ LET k == CHOOSE x \in Unused : \A y \in Unused : x <= y IN
         /\ sock' = [Shut(sock, conn[g.client]) EXCEPT
                       ![k] = [state |-> "open", inbox |-> <<"challenge">>]]
         /\ spent' = spent \ {k}
         /\ conn' = [conn EXCEPT ![g.client] = k]
         /\ Continues(g, {[g EXCEPT !.pc = "challenge", !.conn = k]})
    /\ closed' = [closed EXCEPT ![g.client] = FALSE]
    /\ UNCHANGED <<shut, events, faults>>

\* A handshake step reads `word` from the connection that Connect dialed.
Reads(g, word) ==
    /\ IsOpen(g.conn) /\ sock[g.conn].inbox # <<>> /\ Head(sock[g.conn].inbox) = word
Consumed(k) == [sock EXCEPT ![k].inbox = Tail(@)]

ReadChallenge(g) ==
    /\ g.pc = "challenge" /\ Reads(g, "challenge")
    /\ sock' = Consumed(g.conn)
    /\ Continues(g, {[g EXCEPT !.pc = "subscribe"]})
    /\ UNCHANGED <<spent, conn, closed, shut, events, faults>>

\* Connect can write its subscription to c.conn, which another Connect may
\* have replaced.  The proof is good if that is the connection g dialed and
\* the relay still holds the challenge it opened it with.
CanSubscribe(g) == g.pc = "subscribe" /\ ~closed[g.client] /\ IsOpen(conn[g.client])
ProofIsGood(g) == conn[g.client] = g.conn /\ g.conn \notin spent
Answers(k, words) ==
    /\ sock' = [sock EXCEPT ![k].inbox = @ \o words]
    /\ spent' = spent \union {k}

\* The relay acks the subscription, or answers a wrong proof with an error and
\* another challenge.
WriteSubscribe(g) ==
    /\ CanSubscribe(g)
    /\ Answers(conn[g.client], IF ProofIsGood(g) THEN <<"ack">> ELSE <<"error", "challenge">>)
    /\ Continues(g, {[g EXCEPT !.pc = "ack"]})
    /\ UNCHANGED <<conn, closed, shut, events, faults>>

\* The relay does not list the device: an error isPermanentConnectError knows.
Refuse(g) ==
    /\ CanSubscribe(g) /\ ProofIsGood(g) /\ faults > 0
    /\ faults' = faults - 1
    /\ Answers(conn[g.client], <<"refusal", "challenge">>)
    /\ Continues(g, {[g EXCEPT !.pc = "ack"]})
    /\ UNCHANGED <<conn, closed, shut, events>>

\* Connect succeeds and starts a read loop: it takes any ack for the one of
\* its subscription, that of a publication included.
ReadSubscribeAck(g) ==
    /\ g.pc = "ack" /\ Reads(g, "ack")
    /\ sock' = Consumed(g.conn)
    /\ Continues(g, {Returned(g, "ok"), NewRoutine("loop", g.client, "top", NoSocket, "none")})
    /\ UNCHANGED <<spent, conn, closed, shut, events, faults>>

\* Mutant of HandshakeFails: no read deadline while the connection is open.
HandshakeWaits(g) ==
    /\ \/ g.pc = "challenge" /\ ~Reads(g, "challenge")
       \/ g.pc = "subscribe" /\ (closed[g.client] \/ ~IsOpen(conn[g.client]))
       \/ g.pc = "ack" /\ ~Reads(g, "ack")
    /\ ~IsOpen(g.conn) \/ sock[g.conn].inbox # <<>>
    /\ sock' = Shut(sock, g.conn)
    /\ Continues(g, {Returned(g, "fail")})
    /\ UNCHANGED <<spent, conn, closed, shut, events, faults>>

\* Connect gives up: its connection is gone, another message came, or none
\* within the deadline.  It closes the connection and leaves it in c.conn.
HandshakeFails(g) ==
    /\ \/ g.pc = "challenge" /\ ~Reads(g, "challenge")
       \/ g.pc = "subscribe" /\ (closed[g.client] \/ ~IsOpen(conn[g.client]))
       \/ g.pc = "ack" /\ ~Reads(g, "ack")
    /\ sock' = Shut(sock, g.conn)
    /\ Continues(g, {Returned(g, IF g.pc = "ack" /\ Reads(g, "refusal") THEN "perm" ELSE "fail")})
    /\ UNCHANGED <<spent, conn, closed, shut, events, faults>>

\* readLoop takes c.conn anew for every message.
LoopTop(g) ==
    /\ g.kind = "loop" /\ g.pc = "top"
    /\ IF closed[g.client] \/ conn[g.client] = NoSocket
       THEN Continues(g, {})
       ELSE Continues(g, {[g EXCEPT !.pc = "read", !.conn = conn[g.client]]})
    /\ UNCHANGED <<sock, spent, conn, closed, shut, events, faults>>

LoopReads(g) ==
    /\ g.kind = "loop" /\ g.pc = "read" /\ IsOpen(g.conn) /\ sock[g.conn].inbox # <<>>
    /\ sock' = Consumed(g.conn)
    /\ Continues(g, {[g EXCEPT !.pc = "event", !.conn = NoSocket,
                             !.out = IF Head(sock[g.conn].inbox) = "ack" THEN "ack" ELSE "other"]})
    /\ UNCHANGED <<spent, conn, closed, shut, events, faults>>

\* Mutant of LoopFails: a superseded loop reports its error too.
LoopFailsLoudly(g) ==
    /\ g.kind = "loop" /\ g.pc = "read" /\ ~IsOpen(g.conn)
    /\ conn' = [conn EXCEPT ![g.client] = IF @ = g.conn THEN NoSocket ELSE @]
    /\ Continues(g, {[g EXCEPT !.pc = "event", !.conn = NoSocket, !.out = "err"]})
    /\ UNCHANGED <<sock, spent, closed, shut, events, faults>>

\* Mutant of LoopFails: it clears c.conn before it compares.
LoopFailsSilently(g) ==
    /\ g.kind = "loop" /\ g.pc = "read" /\ ~IsOpen(g.conn)
    /\ conn' = [conn EXCEPT ![g.client] = IF @ = g.conn THEN NoSocket ELSE @]
    /\ Continues(g, {})
    /\ UNCHANGED <<sock, spent, closed, shut, events, faults>>

\* readLoop gets an error: only the loop of the current connection reports it.
LoopFails(g) ==
    /\ g.kind = "loop" /\ g.pc = "read" /\ ~IsOpen(g.conn)
    /\ conn' = [conn EXCEPT ![g.client] = IF @ = g.conn THEN NoSocket ELSE @]
    /\ IF conn[g.client] = g.conn /\ ~closed[g.client]
       THEN Continues(g, {[g EXCEPT !.pc = "event", !.conn = NoSocket, !.out = "err"]})
       ELSE Continues(g, {})
    /\ UNCHANGED <<sock, spent, closed, shut, events, faults>>

\* sendEvent: a send on the closed channel panics and is recovered.
SendEvent(g) ==
    /\ g.kind = "loop" /\ g.pc = "event"
    /\ \/ shut[g.client] /\ UNCHANGED events
       \/ /\ ~shut[g.client] /\ Len(events[g.client]) < EventCap
          /\ events' = [events EXCEPT ![g.client] = Append(@, g.out)]
    /\ Continues(g, IF g.out = "err" THEN {} ELSE {[g EXCEPT !.pc = "top", !.out = "none"]})
    /\ UNCHANGED <<sock, spent, conn, closed, shut, faults>>

\* Disconnect closes the connection that is current when it runs.
Disconnect(g) ==
    /\ g.kind = "idle"
    /\ IF closed[g.client]
       THEN UNCHANGED <<sock, conn>>
       ELSE /\ sock' = Shut(sock, conn[g.client])
            /\ conn' = [conn EXCEPT ![g.client] = NoSocket]
    /\ Continues(g, {})
    /\ UNCHANGED <<spent, closed, shut, events, faults>>

\* The relay cuts a connection, or the network does.
Cut(k) ==
    /\ IsOpen(k) /\ faults > 0
    /\ faults' = faults - 1
    /\ sock' = [sock EXCEPT ![k].state = "cut"]
    /\ UNCHANGED <<spent, conn, closed, shut, events, go>>
=============================================================================
