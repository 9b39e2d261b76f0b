---------------------------- MODULE RelayServer ----------------------------
(***************************************************************************)
(* The relay's websocket service: internal/relay/server.go, websocket.go   *)
(* and the queue half of the QueueStore.                                   *)
(*                                                                         *)
(* Each websocket connection is a wsSession served by one goroutine        *)
(* (wsSession.run).  The goroutines share the subscriber registry          *)
(* (Server.mailboxes, guarded by Server.mu) and the queue store (one       *)
(* transaction per call).  Between two critical sections a goroutine holds *)
(* nothing, so an action of this module is one critical section, one store *)
(* transaction or one write to a connection, and pc[s] says where the      *)
(* goroutine of s is.                                                      *)
(*                                                                         *)
(* Abstractions.  A published envelope is an element of Envelope: the      *)
(* relay gives each a fresh ID, so each element is published at most once. *)
(* The answer to a challenge, the device proof and the ownership lookup    *)
(* are one verdict on the request (module RelayDirectory has the           *)
(* ownership lookup).  The stored slice of a mailbox is the set of its     *)
(* envelopes together with the position each was appended at.              *)
(***************************************************************************)
EXTENDS Naturals, Sequences, FiniteSets

CONSTANTS
    Session,            \* websocket connections over the life of the relay
    Mailbox,            \* device mailbox names
    Envelope,           \* published envelopes, one element per fresh ID
    NoMailbox,          \* sess.mailbox == ""
    NoEnvelope,         \* a handler that is not publishing
    Recipient,          \* Envelope.RecipientMailbox
    Size,               \* envelopeSize
    QueueTTL,           \* Options.QueueTTL
    ChallengeTTL,       \* subscribeChallengeTTL
    MaxMessageBytes,    \* Options.MaxMessageBytes
    MaxQueuedMessages,  \* Options.MaxQueuedMessages
    MaxQueuedBytes,     \* Options.MaxQueuedBytes
    StoreMayFail,       \* TRUE for bbolt, FALSE for MemoryQueueStore
    Durable,            \* TRUE for bbolt: queues survive a restart
    Slow,               \* connections whose client may stop reading
    MaxTime,            \* bound on the clock
    MaxSubscribes       \* bound on successful subscribes, per connection

ASSUME ConstantsAssumption ==
    /\ NoMailbox \notin Mailbox
    /\ NoEnvelope \notin Envelope
    /\ Recipient \in [Envelope -> Mailbox]
    /\ Size \in [Envelope -> Nat]
    /\ QueueTTL \in Nat \ {0}
    /\ ChallengeTTL \in Nat \ {0}
    /\ MaxMessageBytes \in Nat
    /\ MaxQueuedMessages \in Nat
    /\ MaxQueuedBytes \in Nat
    /\ StoreMayFail \in BOOLEAN
    /\ Durable \in BOOLEAN
    /\ Slow \subseteq Session
    /\ MaxTime \in Nat
    /\ MaxSubscribes \in [Session -> Nat]

VARIABLES
    now,        \* time.Now()
    conn,       \* [Session -> state of the TCP connection]
    pc,         \* [Session -> where the session's goroutine is]
    mailbox,    \* [Session -> sess.mailbox]
    challenge,  \* [Session -> expiry of sess.challenge; 0 is nil]
    subs,       \* [Mailbox -> Server.mailboxes[m].subs]
    hand,       \* [Session -> the envelope handlePublish is working on]
    targets,    \* [Session -> publish's snapshot of subscribers left to send to]
    backlog,    \* [Session -> drained envelopes not yet written]
    queue,      \* [Mailbox -> stored envelopes]
    pos,        \* [Envelope -> append position in the store; 0 if never stored]
    appended,   \* number of appends so far
    expiresAt,  \* [Envelope -> ExpiresAt set by finalizePublishedEnvelope]
    outcome,    \* [Envelope -> the publisher's view]
    sent,       \* [Session -> subscribe acks and envelopes written to a live connection]
    grants,     \* [Session -> mailboxes it was accepted for, in order]
    lost        \* envelopes written to a dead connection, or dropped by a crash

clientVars  == <<conn, challenge, grants>>
publishVars == <<hand, targets, expiresAt, outcome>>
storeVars   == <<queue, pos, appended>>
wireVars    == <<sent, lost>>
vars == <<now, conn, pc, mailbox, challenge, subs, hand, targets, backlog,
          queue, pos, appended, expiresAt, outcome, sent, grants, lost>>

\* stalled: a write missed its deadline, and the connection takes no more.
ConnStates == {"idle", "open", "stalled", "closed"}
PCs == {"idle", "read", "register", "drain", "ack", "backlog",
        "enqueue", "fanout", "reply", "done"}
Outcomes == {"new", "held", "acked", "refused", "unanswered"}
Message == [type : {"ack"}, mailbox : Mailbox]
             \union [type : {"incoming"}, envelope : Envelope]

AckMsg(m)      == [type |-> "ack", mailbox |-> m]
IncomingMsg(e) == [type |-> "incoming", envelope |-> e]

\* e was written to the live connection of s.
Delivered(s, e) == \E i \in 1..Len(sent[s]) : sent[s][i] = IncomingMsg(e)

Init ==
    /\ now = 0
    /\ conn = [s \in Session |-> "idle"]
    /\ pc = [s \in Session |-> "idle"]
    /\ mailbox = [s \in Session |-> NoMailbox]
    /\ challenge = [s \in Session |-> 0]
    /\ subs = [m \in Mailbox |-> {}]
    /\ hand = [s \in Session |-> NoEnvelope]
    /\ targets = [s \in Session |-> {}]
    /\ backlog = [s \in Session |-> {}]
    /\ queue = [m \in Mailbox |-> {}]
    /\ pos = [e \in Envelope |-> 0]
    /\ appended = 0
    /\ expiresAt = [e \in Envelope |-> 0]
    /\ outcome = [e \in Envelope |-> "new"]
    /\ sent = [s \in Session |-> <<>>]
    /\ grants = [s \in Session |-> <<>>]
    /\ lost = {}

\* ReadJSON returns a valid request: a stalled connection can still be read.
Reading(s) == pc[s] = "read" /\ conn[s] \in {"open", "stalled"}

Goto(s, label) == pc' = [pc EXCEPT ![s] = label]

(***************************************************************************)
(* wsSession.send: WriteJSON on the connection.  A write error is logged   *)
(* and otherwise ignored, so a message to a dead connection just vanishes. *)
(***************************************************************************)
send(s, msg) ==
    sent' = IF conn[s] = "open" THEN [sent EXCEPT ![s] = Append(@, msg)] ELSE sent

sendEnvelope(s, e) ==
    /\ send(s, IncomingMsg(e))
    /\ lost' = IF conn[s] = "open" THEN lost ELSE lost \union {e}

(***************************************************************************)
(* Connections.                                                            *)
(***************************************************************************)

\* handleWebSocket and the start of run: the session gets its challenge.
Open(s) ==
    /\ conn[s] = "idle"
    /\ conn' = [conn EXCEPT ![s] = "open"]
    /\ challenge' = [challenge EXCEPT ![s] = now + ChallengeTTL]
    /\ Goto(s, "read")
    /\ UNCHANGED <<now, mailbox, subs, backlog, publishVars, storeVars, wireVars, grants>>

\* The client closes the connection, or the network loses it.
Drop(s) ==
    /\ conn[s] \in {"open", "stalled"}
    /\ conn' = [conn EXCEPT ![s] = "closed"]
    /\ UNCHANGED <<now, pc, mailbox, challenge, subs, backlog, grants,
                   publishVars, storeVars, wireVars>>

\* The client stops reading and a write to it misses its 10 second deadline:
\* the websocket library fails every later write, while run reads on.
Stall(s) ==
    /\ s \in Slow
    /\ conn[s] = "open"
    /\ conn' = [conn EXCEPT ![s] = "stalled"]
    /\ UNCHANGED <<now, pc, mailbox, challenge, subs, backlog, grants,
                   publishVars, storeVars, wireVars>>

\* Server.unregister, under Server.mu.
unregister(s) ==
    subs' = IF mailbox[s] = NoMailbox THEN subs
            ELSE [subs EXCEPT ![mailbox[s]] = @ \ {s}]

\* Mutant of Close: run returns without unregistering.
CloseQuietly(s) ==
    /\ pc[s] = "read"
    /\ conn[s] = "closed"
    /\ Goto(s, "done")
    /\ UNCHANGED <<now, mailbox, subs, backlog, clientVars, publishVars, storeVars, wireVars>>

\* ReadJSON fails, run returns and its deferred close unregisters.
Close(s) ==
    /\ pc[s] = "read"
    /\ conn[s] = "closed"
    /\ unregister(s)
    /\ Goto(s, "done")
    /\ UNCHANGED <<now, mailbox, backlog, clientVars, publishVars, storeVars, wireVars>>

(***************************************************************************)
(* handleSubscribe.                                                        *)
(***************************************************************************)

\* Mutant of SubscribeReject: the rejected session is registered all the same.
SubscribeRejectRegisters(s) ==
    /\ Reading(s)
    /\ challenge' = [challenge EXCEPT ![s] = now + ChallengeTTL]
    /\ \E m \in Mailbox : mailbox' = [mailbox EXCEPT ![s] = m]
    /\ Goto(s, "register")
    /\ UNCHANGED <<now, conn, subs, backlog, grants, publishVars, storeVars, wireVars>>

\* verifySubscribeRequest fails: an error and a fresh challenge go out.
SubscribeReject(s) ==
    /\ Reading(s)
    /\ challenge' = [challenge EXCEPT ![s] = now + ChallengeTTL]
    /\ UNCHANGED <<now, conn, pc, mailbox, subs, backlog, grants,
                   publishVars, storeVars, wireVars>>

\* verifySubscribeRequest succeeds: the old subscription ends and the
\* session takes the new mailbox.
SubscribeAccept(s, m) ==
    /\ Reading(s)
    /\ challenge[s] # 0
    /\ challenge[s] > now
    /\ Len(grants[s]) < MaxSubscribes[s]
    /\ unregister(s)
    /\ challenge' = [challenge EXCEPT ![s] = 0]
    /\ mailbox' = [mailbox EXCEPT ![s] = m]
    /\ grants' = [grants EXCEPT ![s] = Append(@, m)]
    /\ Goto(s, "register")
    /\ UNCHANGED <<now, conn, backlog, publishVars, storeVars, wireVars>>

\* register, first half: under Server.mu the session joins the subscribers.
Register(s) ==
    /\ pc[s] = "register"
    /\ subs' = [subs EXCEPT ![mailbox[s]] = @ \union {s}]
    /\ Goto(s, "drain")
    /\ UNCHANGED <<now, mailbox, backlog, clientVars, publishVars, storeVars, wireVars>>

\* filterExpired: what is left of a stored queue at this time.
FilterExpired(q) == {e \in q : expiresAt[e] > now}

\* Mutant of Drain: the stored queue is read but not deleted.
DrainCopies(s) ==
    /\ pc[s] = "drain"
    /\ backlog' = [backlog EXCEPT ![s] = FilterExpired(queue[mailbox[s]])]
    /\ Goto(s, "ack")
    /\ UNCHANGED <<now, mailbox, subs, storeVars, clientVars, publishVars, wireVars>>

\* register, second half: QueueStore.Drain in one transaction.
Drain(s) ==
    /\ pc[s] = "drain"
    /\ backlog' = [backlog EXCEPT ![s] = FilterExpired(queue[mailbox[s]])]
    /\ queue' = [queue EXCEPT ![mailbox[s]] = {}]
    /\ Goto(s, "ack")
    /\ UNCHANGED <<now, mailbox, subs, pos, appended, clientVars, publishVars, wireVars>>

\* Drain returns an error: register gives up without leaving the
\* subscribers, and handleSubscribe forgets the mailbox.
DrainFails(s) ==
    /\ StoreMayFail
    /\ pc[s] = "drain"
    /\ mailbox' = [mailbox EXCEPT ![s] = NoMailbox]
    /\ Goto(s, "read")
    /\ UNCHANGED <<now, subs, backlog, clientVars, publishVars, storeVars, wireVars>>

\* Mutant of SubscribeAck: the handler returns without writing the backlog.
SubscribeAckOnly(s) ==
    /\ pc[s] = "ack"
    /\ send(s, AckMsg(mailbox[s]))
    /\ Goto(s, "read")
    /\ UNCHANGED <<now, mailbox, subs, backlog, clientVars, publishVars, storeVars, lost>>

\* The subscribe ack goes out.
SubscribeAck(s) ==
    /\ pc[s] = "ack"
    /\ send(s, AckMsg(mailbox[s]))
    /\ Goto(s, IF backlog[s] = {} THEN "read" ELSE "backlog")
    /\ UNCHANGED <<now, mailbox, subs, backlog, clientVars, publishVars, storeVars, lost>>

\* Mutant of BacklogHead: the backlog is written newest first.
BacklogNewest(s) ==
    CHOOSE e \in backlog[s] : \A f \in backlog[s] : pos[e] >= pos[f]

\* Head of the backlog slice: the drained envelope appended first.
BacklogHead(s) ==
    CHOOSE e \in backlog[s] : \A f \in backlog[s] : pos[e] <= pos[f]

\* One iteration of the loop that writes the backlog; after the last one
\* handleSubscribe returns.
SendBacklog(s) ==
    /\ pc[s] = "backlog"
    /\ sendEnvelope(s, BacklogHead(s))
    /\ backlog' = [backlog EXCEPT ![s] = @ \ {BacklogHead(s)}]
    /\ Goto(s, IF backlog[s] = {BacklogHead(s)} THEN "read" ELSE "backlog")
    /\ UNCHANGED <<now, mailbox, subs, clientVars, publishVars, storeVars>>

(***************************************************************************)
(* handlePublish.                                                          *)
(***************************************************************************)

\* The envelope is oversized, or the sender is over its rate limit.
RefusePublish(s, e) ==
    /\ Reading(s)
    /\ outcome[e] = "new"
    /\ outcome' = [outcome EXCEPT ![e] = "refused"]
    /\ UNCHANGED <<now, pc, mailbox, subs, backlog, hand, targets, expiresAt,
                   clientVars, storeVars, wireVars>>

\* finalizePublishedEnvelope, and publish up to the unlock: under Server.mu
\* it snapshots the recipient's subscribers.
Publish(s, e) ==
    /\ Reading(s)
    /\ outcome[e] = "new"
    /\ Size[e] <= MaxMessageBytes
    /\ outcome' = [outcome EXCEPT ![e] = "held"]
    /\ expiresAt' = [expiresAt EXCEPT ![e] = now + QueueTTL]
    /\ hand' = [hand EXCEPT ![s] = e]
    /\ targets' = [targets EXCEPT ![s] = subs[Recipient[e]]]
    /\ Goto(s, IF subs[Recipient[e]] = {} THEN "enqueue" ELSE "fanout")
    /\ UNCHANGED <<now, mailbox, subs, backlog, clientVars, storeVars, wireVars>>

\* totalBytes of validateQueueLimits: the bytes of the queue q, told apart by
\* their envelope and their place in it, and counted.
BytesOf(q) == UNION {{e} \X (1..Size[e]) : e \in q}
TotalBytes(q) == Cardinality(BytesOf(q))

\* Mutant of WithinLimits: the bytes of the new envelope are not counted.
WithinLimitsBefore(q, e) ==
    /\ Cardinality(q) + 1 <= MaxQueuedMessages
    /\ TotalBytes(q) <= MaxQueuedBytes

\* validateQueueLimits: one more envelope fits the queue q.
WithinLimits(q, e) ==
    /\ Cardinality(q) + 1 <= MaxQueuedMessages
    /\ TotalBytes(q) + Size[e] <= MaxQueuedBytes

\* Mutant of Enqueue: the new envelope replaces the stored queue.
EnqueueReplaces(s) ==
    LET e == hand[s]
        m == Recipient[e]
    IN  /\ pc[s] = "enqueue"
        /\ WithinLimits(FilterExpired(queue[m]), e)
        /\ queue' = [queue EXCEPT ![m] = {e}]
        /\ appended' = appended + 1
        /\ pos' = [pos EXCEPT ![e] = appended + 1]
        /\ Goto(s, "reply")
        /\ UNCHANGED <<now, mailbox, subs, backlog, clientVars, publishVars, wireVars>>

\* QueueStore.Enqueue in one transaction.
Enqueue(s) ==
    LET e == hand[s]
        m == Recipient[e]
        q == FilterExpired(queue[m])
    IN  /\ pc[s] = "enqueue"
        /\ WithinLimits(q, e)
        /\ queue' = [queue EXCEPT ![m] = q \union {e}]
        /\ appended' = appended + 1
        /\ pos' = [pos EXCEPT ![e] = appended + 1]
        /\ Goto(s, "reply")
        /\ UNCHANGED <<now, mailbox, subs, backlog, clientVars, publishVars, wireVars>>

\* Enqueue fails (the queue is full, or the store reports an error): the
\* stored queue stays as it was and the publisher gets an error.
EnqueueFails(s) ==
    /\ pc[s] = "enqueue"
    /\ \/ StoreMayFail
       \/ ~WithinLimits(FilterExpired(queue[Recipient[hand[s]]]), hand[s])
    /\ outcome' = [outcome EXCEPT ![hand[s]] = "refused"]
    /\ hand' = [hand EXCEPT ![s] = NoEnvelope]
    /\ Goto(s, "read")
    /\ UNCHANGED <<now, mailbox, subs, backlog, targets, expiresAt,
                   clientVars, storeVars, wireVars>>

\* Mutant of Fanout: what was sent live is stored as well.
FanoutAndStore(s, t) ==
    /\ pc[s] = "fanout"
    /\ t \in targets[s]
    /\ sendEnvelope(t, hand[s])
    /\ targets' = [targets EXCEPT ![s] = @ \ {t}]
    /\ Goto(s, IF targets[s] = {t} THEN "enqueue" ELSE "fanout")
    /\ UNCHANGED <<now, mailbox, subs, backlog, hand, expiresAt, outcome,
                   clientVars, storeVars>>

\* Mutant of Fanout: the loop does not end after the last subscriber.
FanoutForever(s, t) ==
    /\ pc[s] = "fanout"
    /\ t \in targets[s]
    /\ sendEnvelope(t, hand[s])
    /\ targets' = [targets EXCEPT ![s] = @ \ {t}]
    /\ UNCHANGED <<now, pc, mailbox, subs, backlog, hand, expiresAt, outcome,
                   clientVars, storeVars>>

\* One iteration of publish's loop over the snapshot, in map order.
Fanout(s, t) ==
    /\ pc[s] = "fanout"
    /\ t \in targets[s]
    /\ sendEnvelope(t, hand[s])
    /\ targets' = [targets EXCEPT ![s] = @ \ {t}]
    /\ Goto(s, IF targets[s] = {t} THEN "reply" ELSE "fanout")
    /\ UNCHANGED <<now, mailbox, subs, backlog, hand, expiresAt, outcome,
                   clientVars, storeVars>>

\* The publish ack goes out; whether the publisher still reads it makes no
\* difference to the relay.
PublishAck(s) ==
    /\ pc[s] = "reply"
    /\ outcome' = [outcome EXCEPT ![hand[s]] = "acked"]
    /\ hand' = [hand EXCEPT ![s] = NoEnvelope]
    /\ Goto(s, "read")
    /\ UNCHANGED <<now, mailbox, subs, backlog, targets, expiresAt,
                   clientVars, storeVars, wireVars>>

(***************************************************************************)
(* Time, and a restart of the relay process: goroutines, registry and      *)
(* connections are gone; a bbolt store keeps its queues.                   *)
(***************************************************************************)
Tick ==
    /\ now < MaxTime
    /\ now' = now + 1
    /\ UNCHANGED <<pc, mailbox, subs, backlog, clientVars, publishVars, storeVars, wireVars>>

\* Envelopes that exist only in a handler's memory.
InHandlers ==
    {e \in Envelope : \E s \in Session :
        e \in backlog[s] \/ (e = hand[s] /\ pc[s] \in {"enqueue", "fanout"})}

Restart ==
    /\ \E s \in Session : pc[s] \notin {"idle", "done"}
    /\ conn' = [s \in Session |-> IF conn[s] = "idle" THEN "idle" ELSE "closed"]
    /\ pc' = [s \in Session |-> IF pc[s] = "idle" THEN "idle" ELSE "done"]
    /\ mailbox' = [s \in Session |-> NoMailbox]
    /\ challenge' = [s \in Session |-> 0]
    /\ subs' = [m \in Mailbox |-> {}]
    /\ hand' = [s \in Session |-> NoEnvelope]
    /\ targets' = [s \in Session |-> {}]
    /\ backlog' = [s \in Session |-> {}]
    /\ queue' = IF Durable THEN queue ELSE [m \in Mailbox |-> {}]
    /\ lost' = lost \union InHandlers
                 \union {e \in Envelope : ~Durable /\ e \in queue[Recipient[e]]}
    /\ outcome' = [e \in Envelope |->
                     IF outcome[e] = "held" THEN "unanswered" ELSE outcome[e]]
    /\ UNCHANGED <<now, pos, appended, expiresAt, sent, grants>>

\* A step of the goroutine of s that waits for nobody.
HandlerStep(s) ==
    \/ Register(s) \/ Drain(s) \/ DrainFails(s) \/ SubscribeAck(s)
    \/ SendBacklog(s)
    \/ Enqueue(s) \/ EnqueueFails(s) \/ PublishAck(s)
    \/ \E t \in Session : Fanout(s, t)
    \/ Close(s)

\* What the clients and the network may do.
ClientStep(s) ==
    \/ Open(s) \/ Stall(s) \/ Drop(s) \/ SubscribeReject(s)
    \/ \E m \in Mailbox : SubscribeAccept(s, m)
    \/ \E e \in Envelope : Publish(s, e) \/ RefusePublish(s, e)

Next == Tick \/ Restart \/ \E s \in Session : HandlerStep(s) \/ ClientStep(s)

Spec == Init /\ [][Next]_vars

(***************************************************************************)
(* The Go scheduler runs every runnable goroutine, and a write to a        *)
(* connection ends within its 10 second deadline, so each handler keeps    *)
(* moving.  Nothing is assumed of clients, the network or the clock.       *)
(***************************************************************************)
FairSpec == Spec /\ \A s \in Session : WF_vars(HandlerStep(s))

-----------------------------------------------------------------------------
(***************************************************************************)
(* Properties.                                                             *)
(***************************************************************************)

\* Every variable has its type: the fields of wsSession, Server.mailboxes
\* and the stored queues hold what their Go types say.
TypeOK ==
    /\ now \in Nat
    /\ conn \in [Session -> ConnStates]
    /\ pc \in [Session -> PCs]
    /\ mailbox \in [Session -> Mailbox \union {NoMailbox}]
    /\ challenge \in [Session -> Nat]
    /\ subs \in [Mailbox -> SUBSET Session]
    /\ hand \in [Session -> Envelope \union {NoEnvelope}]
    /\ targets \in [Session -> SUBSET Session]
    /\ backlog \in [Session -> SUBSET Envelope]
    /\ queue \in [Mailbox -> SUBSET Envelope]
    /\ pos \in [Envelope -> Nat]
    /\ appended \in Nat
    /\ expiresAt \in [Envelope -> Nat]
    /\ outcome \in [Envelope -> Outcomes]
    /\ sent \in [Session -> Seq(Message)]
    /\ grants \in [Session -> Seq(Mailbox)]
    /\ lost \in SUBSET Envelope

\* An envelope the relay acked has not silently disappeared between publish,
\* Enqueue, Drain and the write loops: it is stored, drained by a handler
\* that is still writing, written to a live connection, past its ExpiresAt,
\* or its copy went to a dead connection or died with the process.
AckedIsAccountedFor ==
    \A e \in Envelope : outcome[e] = "acked" =>
        \/ e \in queue[Recipient[e]]
        \/ \E s \in Session : e \in backlog[s]
        \/ \E s \in Session : Delivered(s, e)
        \/ expiresAt[e] <= now
        \/ e \in lost

\* An envelope written to a subscriber is not in the store, whichever way
\* publish, Enqueue and Drain interleave: nothing delivered is retained.
DeliveredIsNotRetained ==
    \A e \in Envelope, m \in Mailbox, s \in Session :
        e \in queue[m] => ~Delivered(s, e)

\* No connection is written the same envelope twice, although a session can
\* be in a publisher's snapshot and drain the same mailbox concurrently.
NoDuplicateDelivery ==
    \A s \in Session : \A i, j \in 1..Len(sent[s]) :
        sent[s][i].type = "incoming" /\ sent[s][i] = sent[s][j] => i = j

\* A connection is written an envelope only if it was accepted for the
\* recipient mailbox, although publish sends to a snapshot taken before
\* a concurrent unregister or re-subscribe.
DeliveredToGrantedOnly ==
    \A s \in Session, e \in Envelope :
        Delivered(s, e) => \E i \in 1..Len(grants[s]) : grants[s][i] = Recipient[e]

\* Enqueue keeps every stored queue within MaxQueuedMessages and
\* MaxQueuedBytes, although handlers race to it after publish's unlock.
QueueWithinLimits ==
    \A m \in Mailbox : queue[m] # {} =>
        /\ Cardinality(queue[m]) <= MaxQueuedMessages
        /\ TotalBytes(queue[m]) <= MaxQueuedBytes

\* What a connection receives out of one mailbox's store arrives in the order
\* it was stored, over all its subscriptions to that mailbox and whatever
\* arrives live in between.
StoredOrderIsKept ==
    \A s \in Session : \A i, j \in 1..Len(sent[s]) :
        /\ i < j
        /\ sent[s][i].type = "incoming" /\ pos[sent[s][i].envelope] > 0
        /\ sent[s][j].type = "incoming" /\ pos[sent[s][j].envelope] > 0
        /\ Recipient[sent[s][i].envelope] = Recipient[sent[s][j].envelope]
        => pos[sent[s][i].envelope] < pos[sent[s][j].envelope]

\* A handler that took a request returns to its read loop or ends: no
\* subscribe or publish can be stuck in register, Drain, Enqueue or a loop.
HandlersReturn ==
    \A s \in Session : (pc[s] \notin {"idle", "read", "done"}) ~> (pc[s] \in {"read", "done"})

\* A subscriber its session no longer knows of: what a failed Drain leaves,
\* since register joined the subscribers and handleSubscribe then forgot the
\* mailbox.
Ghost(s, m) == s \in subs[m] /\ mailbox[s] # m

\* The session of a dead connection leaves the subscribers of every mailbox,
\* so that later envelopes are queued instead of being written to nobody:
\* unless a Drain of it failed, whose ghost nothing ever removes.
DeadSubscribersLeave ==
    \A s \in Session :
        (conn[s] = "closed") ~> (\A m \in Mailbox : s \in subs[m] => Ghost(s, m))

\* Once a session has registered, what its mailbox has stored leaves the
\* store: it is delivered, or expires, or its copy dies with a connection.
\* Only a Drain that fails and a restart of the relay leave it stored, and
\* then the session has no mailbox.
StoredReachesSubscriber ==
    \A s \in Session, e \in Envelope :
        (pc[s] = "drain" /\ e \in queue[mailbox[s]])
            ~> \/ \E t \in Session : Delivered(t, e)
               \/ expiresAt[e] <= now
               \/ e \in lost
               \/ mailbox[s] = NoMailbox /\ e \in queue[Recipient[e]]

(***************************************************************************)
(* The relay keeps the promise of RelayCustody.                            *)
(***************************************************************************)
Handling(e, label) == \E s \in Session : hand[s] = e /\ pc[s] = label

StageOf(e) ==
    IF outcome[e] = "new" THEN "client"
    ELSE IF outcome[e] = "refused" THEN "refused"
    ELSE IF e \in queue[Recipient[e]] THEN "stored"
    ELSE IF \E s \in Session : e \in backlog[s] THEN "leaving"
    ELSE IF Handling(e, "enqueue") THEN "handler"
    ELSE IF Handling(e, "fanout") THEN "fanout"
    ELSE "settled"

Receivers(e) == {s \in Session : Delivered(s, e)}

Custody == INSTANCE RelayCustody WITH
    stage     <- [e \in Envelope |-> StageOf(e)],
    receivers <- [e \in Envelope |-> Receivers(e)]

\* Every step of publish, register, the store and the write loops moves each
\* envelope as RelayCustody allows: what is stored has no receiver, what is
\* drained goes to one connection at most, what is settled stays settled.
KeepsCustody == Custody!Spec
=============================================================================
