-------------------------- MODULE ChatConnection ---------------------------
(***************************************************************************)
(* The chat window (internal/ui/chat) and its websocket clients: connect,  *)
(* reconnect after an error, disconnect when idle, reconnect on send, and  *)
(* switch to another relay.                                                *)
(*                                                                         *)
(* Update handles one message at a time; every command runs in a goroutine *)
(* of its own and ends in a message, in no fixed order.  A goroutine whose *)
(* pc is "done" is a message Update has yet to handle.  The backoff before *)
(* a reconnect and the idle timeout are left to chance, but for two bounds *)
(* that stand for their length: see Dials and IdleTimeout.                 *)
(***************************************************************************)
EXTENDS WsClient

CONSTANTS
    First,       \* the client of the relay the window starts with
    MaxSends     \* bound on messages the user sends

ASSUME ChatConnectionAssumption ==
    /\ First \in Client
    /\ MaxSends \in Nat

VARIABLES
    client,      \* m.client
    connecting, connected, idle, authFailed,  \* m.conn
    unopened,    \* clients of relays the window has not switched to
    sends        \* messages the user may still send

uiVars == <<client, connecting, connected, idle, authFailed, unopened, sends>>
windowVars == <<wsVars, uiVars>>

Reconnect(c) == NewRoutine("connect", c, "backoff", NoSocket, "none")
ConnectRoutine(c) == NewRoutine("connect", c, "dial", NoSocket, "none")
WaitRoutine(c) == NewRoutine("wait", c, "start", NoSocket, "none")

\* New and Model.Init.
WindowInit ==
    /\ WsInit
    /\ go = SetToBag({ConnectRoutine(First), WaitRoutine(First)})
    /\ client = First
    /\ unopened = Client \ {First}
    /\ connecting = TRUE /\ connected = FALSE
    /\ idle = FALSE /\ authFailed = FALSE
    /\ sends = MaxSends

markConnected ==
    connecting' = FALSE /\ connected' = TRUE /\ idle' = FALSE /\ authFailed' = FALSE

\* An unauthorized or unpublished device stops the window; every other error
\* starts another connect, and no wait for events.
handleConnectionError(g, out) ==
    /\ connected' = FALSE /\ idle' = FALSE /\ connecting' = (out = "fail")
    /\ authFailed' = IF out = "fail" THEN authFailed ELSE (out = "auth")
    /\ Continues(g, IF out = "fail" THEN {Reconnect(client)} ELSE {})

\* handleConnectResultMsg.
HandleConnectResult(g) ==
    /\ g.kind = "connect" /\ g.pc = "done"
    /\ IF g.client # client
       THEN Continues(g, {}) /\ UNCHANGED <<connecting, connected, idle, authFailed>>
       ELSE IF g.out = "ok"
       THEN markConnected /\ Continues(g, {WaitRoutine(client)})
       ELSE handleConnectionError(g, g.out)
    /\ UNCHANGED <<sock, spent, conn, closed, shut, events, faults, client, unopened, sends>>

\* waitForEvent: takes an event, or finds the channel closed and empty.
TakeEvent(g) ==
    /\ g.kind = "wait" /\ g.pc = "start"
    /\ \/ /\ events[g.client] # <<>>
          /\ events' = [events EXCEPT ![g.client] = Tail(@)]
          /\ Continues(g, {[g EXCEPT !.pc = "done", !.out = Head(events[g.client])]})
       \/ /\ events[g.client] = <<>> /\ shut[g.client]
          /\ Continues(g, {[g EXCEPT !.pc = "done", !.out = "err"]})
          /\ UNCHANGED events
    /\ UNCHANGED <<sock, spent, conn, closed, shut, faults, uiVars>>

\* handleClientEventMsg, with handleIncomingAck.
HandleEvent(g) ==
    /\ g.kind = "wait" /\ g.pc = "done"
    /\ \/ /\ g.client # client
          /\ Continues(g, {}) /\ UNCHANGED <<connecting, connected, idle, authFailed>>
       \/ /\ g.client = client /\ g.out = "err"
          /\ handleConnectionError(g, "fail")
       \/ /\ g.client = client /\ g.out # "err"
          /\ IF g.out = "ack" /\ connecting
             THEN markConnected
             ELSE UNCHANGED <<connecting, connected, idle, authFailed>>
          /\ Continues(g, {WaitRoutine(client)})
    /\ UNCHANGED <<sock, spent, conn, closed, shut, events, faults, client, unopened, sends>>

\* handleTypingTickMsg after the idle timeout: markIdleDisconnected, and a
\* Disconnect in a goroutine.  Bound: by then only a send that the user has
\* just made is still running.
IdleTimeout ==
    /\ connected
    /\ \A g \in Routines : g.kind = "send" \/ (Waiting(g) /\ g.kind # "connect")
    /\ connecting' = FALSE /\ connected' = FALSE /\ idle' = TRUE /\ authFailed' = FALSE
    /\ go' = go (+) SetToBag({NewRoutine("idle", client, "start", NoSocket, "none")})
    /\ UNCHANGED <<sock, spent, conn, closed, shut, events, faults, client, unopened, sends>>

\* guardCanSend, and handleEnterKey with a body.
UserSends ==
    /\ sends > 0 /\ ~authFailed /\ (idle \/ connected)
    /\ sends' = sends - 1
    /\ go' = go (+) SetToBag({NewRoutine("send", client, "start", NoSocket, "none")})
    /\ UNCHANGED <<sock, spent, conn, closed, shut, events, faults,
                   client, connecting, connected, idle, authFailed, unopened>>

\* sendCmd reads m.conn.idleDisconnected and m.client when it runs.
StartSend(g) ==
    /\ g.kind = "send" /\ g.pc = "start"
    /\ Continues(g, {[g EXCEPT !.client = client, !.pc = IF idle THEN "dial" ELSE "write"]})
    /\ UNCHANGED <<sock, spent, conn, closed, shut, events, faults, uiVars>>

\* Client.Send of the current client: the relay acks a publication on any
\* connection, subscribed or not, and a write to a cut one may go unnoticed.
SendWrites(g) ==
    /\ g.kind = "send" /\ g.pc = "write"
    /\ LET k == conn[client]
           sent == NewRoutine("send", client, "done", NoSocket, g.out)
           failed == NewRoutine("send", client, "done", NoSocket, "fail") IN
       \/ /\ ~closed[client] /\ IsOpen(k)
          /\ sock' = [sock EXCEPT ![k].inbox = Append(@, "ack")]
          /\ Continues(g, {sent})
       \/ /\ ~closed[client] /\ IsCut(k)
          /\ \E result \in {sent, failed} : Continues(g, {result})
          /\ UNCHANGED sock
       \/ /\ closed[client] \/ ~(IsOpen(k) \/ IsCut(k))
          /\ Continues(g, {failed})
          /\ UNCHANGED sock
    /\ UNCHANGED <<spent, conn, closed, shut, events, faults, uiVars>>

\* handleSendResultMsg: a failed send changes nothing about the connection.
HandleSendResult(g) ==
    /\ g.kind = "send" /\ g.pc = "done"
    /\ Continues(g, {})
    /\ IF g.out = "reconnected"
       THEN markConnected
       ELSE UNCHANGED <<connecting, connected, idle, authFailed>>
    /\ UNCHANGED <<sock, spent, conn, closed, shut, events, faults, client, unopened, sends>>

\* switchRelay: a new client, the old one closed, idleDisconnected as it was.
\* Bound: a switch counts as a fault.
SwitchRelay(c) ==
    /\ c \in unopened /\ faults > 0
    /\ faults' = faults - 1
    /\ unopened' = unopened \ {c}
    /\ client' = c
    /\ connecting' = TRUE /\ connected' = FALSE /\ authFailed' = FALSE
    /\ closed' = [closed EXCEPT ![client] = TRUE]
    /\ shut' = [shut EXCEPT ![client] = ~closed[client] \/ @]
    /\ sock' = IF closed[client] THEN sock ELSE Shut(sock, conn[client])
    /\ conn' = [conn EXCEPT ![client] = IF closed[client] THEN @ ELSE NoSocket]
    /\ go' = go (+) SetToBag({ConnectRoutine(c), WaitRoutine(c)})
    /\ UNCHANGED <<spent, events, idle, sends>>

ConnectStep(g) ==
    /\ \/ Dial(g) \/ ReadChallenge(g) \/ WriteSubscribe(g)
       \/ ReadSubscribeAck(g) \/ HandshakeFails(g)
    /\ UNCHANGED uiVars
LoopStep(g) ==
    /\ LoopTop(g) \/ LoopReads(g) \/ LoopFails(g) \/ SendEvent(g)
    /\ UNCHANGED uiVars
RunsDisconnect(g) == Disconnect(g) /\ UNCHANGED uiVars
SendStep(g) == StartSend(g) \/ SendWrites(g)
UpdateStep(g) == HandleConnectResult(g) \/ HandleEvent(g) \/ HandleSendResult(g)
Fault ==
    /\ \/ \E g \in Routines : DialFails(g) \/ Refuse(g)
       \/ \E k \in Socket : Cut(k)
    /\ UNCHANGED uiVars

GoStep(g) ==
    \/ ConnectStep(g) \/ LoopStep(g) \/ RunsDisconnect(g)
    \/ SendStep(g) \/ TakeEvent(g) \/ UpdateStep(g)

WindowNext ==
    \/ \E g \in Routines : GoStep(g)
    \/ IdleTimeout \/ UserSends \/ (\E c \in Client : SwitchRelay(c))
    \/ Fault

WindowSpec == WindowInit /\ [][WindowNext]_windowVars

\* Go runs every goroutine that can run, Update gets every message, dials
\* are made.  Nothing obliges the user, the idle timer or the network.
Fairness ==
    /\ \A c \in Client : WF_windowVars(\E g \in Routines : g.client = c /\ ConnectStep(g))
    /\ WF_windowVars(\E g \in Routines : LoopStep(g))
    /\ WF_windowVars(\E g \in Routines : RunsDisconnect(g))
    /\ WF_windowVars(\E g \in Routines : SendStep(g))
    /\ WF_windowVars(\E g \in Routines : TakeEvent(g))
    /\ WF_windowVars(\E g \in Routines : UpdateStep(g))

FairSpec == WindowSpec /\ Fairness

-----------------------------------------------------------------------------
\* Two goroutines take a connection away and tell the window nothing: a
\* Disconnect, and a send whose own Connect fails.
TakesAway(g) == g.kind = "idle" \/ (g.kind = "send" /\ g.pc \in {"challenge", "subscribe", "ack"})

\* A connection that is lost under a window that shows itself connected is
\* noticed: of the read loops that overlap, one reports it, a wait is there to
\* take the report whatever errors, idle disconnects, sends and relay switches
\* came before, and the window stops showing it or has another.  That is, when
\* nobody is about to take the connection away: a window that is connected by
\* then keeps showing it, with no read loop.
LossIsNoticed ==
    (connected /\ IsCut(conn[client]))
        ~> (~connected \/ IsOpen(conn[client]) \/ \E g \in Routines : TakesAway(g))

\* A window that is idle dials again because the user sends, as its status
\* says: no read loop of the connection that Disconnect closed reports an
\* error (model_test.go:1653, no reconnect loop).  Faults and switches aside,
\* and second sends: of two that dial at once, one may break the connection of
\* the other, which the window then answers with a connect of its own.
IdleUntilSent ==
    [][idle /\ ~idle' /\ faults = MaxFaults /\ MaxSends <= sends + 1 =>
          \E g \in Routines : g.kind = "send" /\ g.out = "reconnected"]_windowVars

\* Every send ends with a result for its message, so that none stays pending:
\* also when its connection is replaced or closed under it.
SendsAreAnswered ==
    (\E g \in Routines : g.kind = "send") ~> (\A g \in Routines : g.kind # "send")

=============================================================================
