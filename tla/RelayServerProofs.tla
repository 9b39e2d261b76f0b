------------------------- MODULE RelayServerProofs -------------------------
(***************************************************************************)
(* Proofs about RelayServer, for any number of connections, mailboxes and  *)
(* envelopes, any limits, either kind of store, and any amount of time.    *)
(***************************************************************************)
EXTENDS RelayServer, WellFoundedInduction, FiniteSetTheorems, TLAPS

-----------------------------------------------------------------------------
(***************************************************************************)
(* Facts about the helpers.                                                *)
(***************************************************************************)
LessThan == {ss \in Nat \X Nat : ss[1] < ss[2]}

\* A non-empty set of numbers has a least element.
LEMMA LeastElement ==
    ASSUME NEW T, T \subseteq Nat, T # {}
    PROVE  \E x \in T : \A y \in T : x <= y
<1>1. IsWellFoundedOn(LessThan, Nat)
  BY NatLessThanWellFounded, Zenon DEF OpToRel, LessThan
<1>2. \E x \in T : \A y \in T : ~ (<<y, x>> \in LessThan)
  BY <1>1, WFMin, Zenon
<1>3. PICK x \in T : \A y \in T : ~ (<<y, x>> \in LessThan)
  BY <1>2
<1>4. \A y \in T : y < x => <<y, x>> \in LessThan
  <2> TAKE y \in T
  <2>1. <<y, x>> \in Nat \X Nat /\ <<y, x>>[1] = y /\ <<y, x>>[2] = x
    OBVIOUS
  <2> QED
    BY <2>1 DEF LessThan
<1>5. \A y \in T : ~ (y < x)
  BY <1>3, <1>4
<1> QED
  BY <1>3, <1>5

\* A non-empty backlog has a head.
LEMMA HeadInBacklog ==
    ASSUME TypeOK, NEW s \in Session, backlog[s] # {}
    PROVE  BacklogHead(s) \in backlog[s]
<1> DEFINE Positions == {pos[e] : e \in backlog[s]}
<1>1. backlog[s] \subseteq Envelope /\ Positions \subseteq Nat /\ Positions # {}
  BY DEF TypeOK
<1>2. PICK x \in Positions : \A y \in Positions : x <= y
  BY <1>1, LeastElement
<1>3. \E e \in backlog[s] : \A f \in backlog[s] : pos[e] <= pos[f]
  BY <1>2
<1> QED
  BY <1>3 DEF BacklogHead

\* Acks and envelopes are messages.
LEMMA MessageTypes ==
    /\ \A e \in Envelope : IncomingMsg(e) \in Message
    /\ \A m \in Mailbox : AckMsg(m) \in Message
BY DEF IncomingMsg, AckMsg, Message

\* A write appends to what the connection was sent, or is lost.
LEMMA SendType ==
    ASSUME TypeOK, NEW s \in Session, NEW msg \in Message, send(s, msg)
    PROVE  sent' \in [Session -> Seq(Message)]
BY DEF send, TypeOK

-----------------------------------------------------------------------------
(***************************************************************************)
(* Types, together with what the place of a handler says of its variables. *)
(***************************************************************************)
ControlInv ==
    \A s \in Session :
        /\ conn[s] = "idle" <=> pc[s] = "idle"
        /\ pc[s] \in {"register", "drain", "ack", "backlog"} => mailbox[s] \in Mailbox
        /\ pc[s] \in {"enqueue", "fanout", "reply"} <=> hand[s] # NoEnvelope
        /\ pc[s] = "fanout" <=> targets[s] # {}
        /\ pc[s] = "backlog" => backlog[s] # {}
        /\ backlog[s] # {} => pc[s] \in {"ack", "backlog"}

TypeInv == TypeOK /\ ControlInv

\* The relay starts with every field of its type.
LEMMA TypeInit == Init => TypeInv
BY ConstantsAssumption
DEF Init, TypeInv, TypeOK, ControlInv, ConnStates, PCs, Outcomes, Message

\* Connections and subscribe requests.
LEMMA TypeSubscribe ==
    ASSUME TypeInv, NEW s \in Session,
           \/ Open(s) \/ Stall(s) \/ Drop(s) \/ Close(s) \/ SubscribeReject(s)
           \/ \E m \in Mailbox : SubscribeAccept(s, m)
           \/ Register(s) \/ DrainFails(s)
    PROVE  TypeInv'
<1> USE ConstantsAssumption DEF TypeInv, Goto, publishVars, storeVars, wireVars
<1>1. CASE Open(s)
  <2>1. TypeOK'
    BY <1>1 DEF Open, TypeOK, ConnStates, PCs
  <2>2. ControlInv'
    BY <1>1 DEF Open, TypeOK, ControlInv
  <2> QED
    BY <2>1, <2>2
<1>2. CASE Stall(s) \/ Drop(s)
  <2>1. PICK c \in {"stalled", "closed"} : conn' = [conn EXCEPT ![s] = c]
    BY <1>2 DEF Stall, Drop
  <2>2. /\ conn[s] # "idle"
        /\ UNCHANGED <<now, pc, mailbox, challenge, subs, hand, targets, backlog, queue,
                       pos, appended, expiresAt, outcome, sent, grants, lost>>
    BY <1>2 DEF Stall, Drop
  <2>3. TypeOK'
    BY <2>1, <2>2 DEF TypeOK, ConnStates
  <2>4. ControlInv'
    BY <2>1, <2>2 DEF TypeOK, ControlInv
  <2> QED
    BY <2>3, <2>4
<1>3. CASE Close(s)
  BY <1>3 DEF Close, unregister, clientVars, TypeOK, ControlInv, PCs
<1>4. CASE SubscribeReject(s)
  BY <1>4 DEF SubscribeReject, TypeOK, ControlInv
<1>5. ASSUME NEW m \in Mailbox, SubscribeAccept(s, m) PROVE TypeInv'
  <2>1. TypeOK'
    BY <1>5 DEF SubscribeAccept, unregister, TypeOK, PCs
  <2>2. ControlInv'
    BY <1>5 DEF SubscribeAccept, Reading, TypeOK, ControlInv
  <2> QED
    BY <2>1, <2>2
<1>6. CASE Register(s)
  BY <1>6, SMTT(60) DEF Register, clientVars, TypeOK, ControlInv, PCs
<1>7. CASE DrainFails(s)
  BY <1>7 DEF DrainFails, clientVars, TypeOK, ControlInv, PCs
<1> QED
  BY <1>1, <1>2, <1>3, <1>4, <1>5, <1>6, <1>7

\* The backlog on its way to the connection.
LEMMA TypeBacklog ==
    ASSUME TypeInv, NEW s \in Session, Drain(s) \/ SubscribeAck(s) \/ SendBacklog(s)
    PROVE  TypeInv'
<1> USE DEF TypeInv, Goto, clientVars, publishVars, storeVars
<1>1. CASE Drain(s)
  BY <1>1 DEF Drain, FilterExpired, wireVars, TypeOK, ControlInv, PCs
<1>2. CASE SubscribeAck(s)
  <2>1. sent' \in [Session -> Seq(Message)]
    BY <1>2, MessageTypes, SendType DEF SubscribeAck, ControlInv
  <2> QED
    BY <1>2, <2>1 DEF SubscribeAck, TypeOK, ControlInv, PCs
<1>3. CASE SendBacklog(s)
  <2>1. BacklogHead(s) \in backlog[s] /\ BacklogHead(s) \in Envelope
    BY <1>3, HeadInBacklog DEF SendBacklog, ControlInv, TypeOK
  <2>2. sent' \in [Session -> Seq(Message)]
    BY <1>3, <2>1, MessageTypes, SendType DEF SendBacklog, sendEnvelope
  <2>3. TypeOK'
    BY <1>3, <2>1, <2>2 DEF SendBacklog, sendEnvelope, TypeOK, PCs
  <2>4. ControlInv'
    BY <1>3, <2>1 DEF SendBacklog, TypeOK, ControlInv
  <2> QED
    BY <2>3, <2>4
<1> QED
  BY <1>1, <1>2, <1>3

\* Publishing.
LEMMA TypePublish ==
    ASSUME TypeInv, NEW s \in Session,
           \/ \E e \in Envelope : Publish(s, e) \/ RefusePublish(s, e)
           \/ Enqueue(s) \/ EnqueueFails(s) \/ PublishAck(s)
           \/ \E t \in Session : Fanout(s, t)
    PROVE  TypeInv'
<1> USE ConstantsAssumption DEF TypeInv, Goto, clientVars
<1>1. ASSUME NEW e \in Envelope, RefusePublish(s, e) PROVE TypeInv'
  BY <1>1 DEF RefusePublish, Reading, storeVars, wireVars, TypeOK, ControlInv, Outcomes
<1>2. ASSUME NEW e \in Envelope, Publish(s, e) PROVE TypeInv'
  <2>1. Recipient[e] \in Mailbox /\ subs[Recipient[e]] \in SUBSET Session
    BY DEF TypeOK
  <2>2. TypeOK'
    <3>1. /\ targets' \in [Session -> SUBSET Session]
          /\ hand' \in [Session -> Envelope \union {NoEnvelope}]
          /\ pc' \in [Session -> PCs]
      BY <1>2, <2>1 DEF Publish, TypeOK, PCs
    <3>2. /\ expiresAt' \in [Envelope -> Nat]
          /\ outcome' \in [Envelope -> Outcomes]
      BY <1>2, SMTT(60) DEF Publish, TypeOK, Outcomes
    <3> QED
      BY <1>2, <3>1, <3>2 DEF Publish, storeVars, wireVars, TypeOK
  <2>3. ControlInv'
    <3>1. UNCHANGED <<conn, mailbox, backlog>> /\ pc[s] = "read" /\ e # NoEnvelope
      BY <1>2 DEF Publish, Reading
    <3>2. pc' = [pc EXCEPT ![s] = IF subs[Recipient[e]] = {} THEN "enqueue" ELSE "fanout"]
      BY <1>2 DEF Publish
    <3>3. /\ hand' = [hand EXCEPT ![s] = e]
          /\ targets' = [targets EXCEPT ![s] = subs[Recipient[e]]]
      BY <1>2 DEF Publish
    <3>4. /\ DOMAIN pc = Session /\ DOMAIN hand = Session /\ DOMAIN targets = Session
      BY DEF TypeOK
    <3>5. /\ pc'[s] \in {"enqueue", "fanout"} /\ hand'[s] = e
          /\ pc'[s] = "fanout" <=> targets'[s] # {}
      BY <3>2, <3>3, <3>4
    <3>6. \A u \in Session \ {s} :
            pc'[u] = pc[u] /\ hand'[u] = hand[u] /\ targets'[u] = targets[u]
      BY <3>2, <3>3, <3>4
    <3> QED
      BY <3>1, <3>5, <3>6 DEF ControlInv
  <2> QED
    BY <2>2, <2>3
<1>3. CASE Enqueue(s)
  <2>1. hand[s] \in Envelope
    BY <1>3 DEF Enqueue, TypeOK, ControlInv
  <2>2. TypeOK'
    BY <1>3, <2>1 DEF Enqueue, FilterExpired, publishVars, wireVars, TypeOK, PCs
  <2>3. ControlInv'
    BY <1>3 DEF Enqueue, publishVars, TypeOK, ControlInv
  <2> QED
    BY <2>2, <2>3
<1>4. CASE EnqueueFails(s)
  BY <1>4 DEF EnqueueFails, storeVars, wireVars, TypeOK, ControlInv, Outcomes, PCs
<1>5. CASE PublishAck(s)
  BY <1>5 DEF PublishAck, storeVars, wireVars, TypeOK, ControlInv, Outcomes, PCs
<1>6. ASSUME NEW t \in Session, Fanout(s, t) PROVE TypeInv'
  <2>1. hand[s] \in Envelope
    BY <1>6 DEF Fanout, TypeOK, ControlInv
  <2>2. sent' \in [Session -> Seq(Message)]
    BY <1>6, <2>1, MessageTypes, SendType DEF Fanout, sendEnvelope
  <2>3. TypeOK'
    BY <1>6, <2>1, <2>2 DEF Fanout, sendEnvelope, storeVars, TypeOK, PCs
  <2>4. targets[s] \ {t} = {} <=> targets[s] = {t}
    BY <1>6 DEF Fanout
  <2>5. targets' = [targets EXCEPT ![s] = targets[s] \ {t}]
    BY <1>6 DEF Fanout
  <2>6. pc' = [pc EXCEPT ![s] = IF targets[s] \ {t} = {} THEN "reply" ELSE "fanout"]
    BY <1>6, <2>4 DEF Fanout
  <2>7. /\ UNCHANGED <<conn, mailbox, backlog, hand>>
        /\ pc[s] = "fanout"
        /\ pc'[s] \in {"reply", "fanout"}
        /\ pc'[s] = "fanout" <=> targets'[s] # {}
        /\ \A u \in Session \ {s} : pc'[u] = pc[u] /\ targets'[u] = targets[u]
    <3>1. UNCHANGED <<conn, mailbox, backlog, hand>> /\ pc[s] = "fanout"
      BY <1>6 DEF Fanout
    <3>2. DOMAIN pc = Session /\ DOMAIN targets = Session
      BY DEF TypeOK
    <3> QED
      BY <2>5, <2>6, <3>1, <3>2
  <2>8. ControlInv'
    BY <2>7 DEF ControlInv
  <2> QED
    BY <2>3, <2>8
<1> QED
  BY <1>1, <1>2, <1>3, <1>4, <1>5, <1>6

\* Time passes, the relay restarts, or nothing happens.
LEMMA TypeOther ==
    ASSUME TypeInv, Tick \/ Restart \/ UNCHANGED vars
    PROVE  TypeInv'
<1> USE ConstantsAssumption DEF TypeInv
<1>1. CASE Tick
  BY <1>1 DEF Tick, clientVars, publishVars, storeVars, wireVars, TypeOK, ControlInv
<1>2. CASE Restart
  <2>1. lost' \in SUBSET Envelope
    BY <1>2 DEF Restart, InHandlers, TypeOK
  <2> QED
    BY <1>2, <2>1 DEF Restart, TypeOK, ControlInv, ConnStates, PCs, Outcomes
<1>3. CASE UNCHANGED vars
  BY <1>3 DEF vars, TypeOK, ControlInv
<1> QED
  BY <1>1, <1>2, <1>3

\* Every step of a handler, a client, the clock or a restart keeps the types.
LEMMA TypeInvariant == Spec => []TypeInv
<1>1. TypeInv /\ [Next]_vars => TypeInv'
  BY TypeSubscribe, TypeBacklog, TypePublish, TypeOther DEF Next, HandlerStep, ClientStep
<1> QED
  BY <1>1, TypeInit, PTL DEF Spec

\* The fields of wsSession, Server.mailboxes and the queues keep their types.
THEOREM TypeCorrect == Spec => []TypeOK
<1>1. TypeInv => TypeOK
  BY DEF TypeInv
<1> QED
  BY <1>1, TypeInvariant, PTL

-----------------------------------------------------------------------------
(***************************************************************************)
(* What a step does to the messages a connection was sent.                 *)
(***************************************************************************)

\* A write of an envelope delivers it if the connection is live.
LEMMA EnvelopeWrite ==
    ASSUME TypeOK, NEW s \in Session, NEW e \in Envelope, send(s, IncomingMsg(e)),
           NEW t \in Session, NEW f \in Envelope
    PROVE  Delivered(t, f)' <=> Delivered(t, f) \/ (t = s /\ f = e /\ conn[s] = "open")
<1>1. IncomingMsg(e) = IncomingMsg(f) <=> e = f
  BY DEF IncomingMsg
<1>2. sent[t] \in Seq(Message) /\ IncomingMsg(e) \in Message
  BY MessageTypes DEF TypeOK
<1>3. CASE t = s /\ conn[s] = "open"
  <2>1. sent'[t] = Append(sent[t], IncomingMsg(e))
    BY <1>3 DEF send, TypeOK
  <2> QED
    BY <1>1, <1>2, <1>3, <2>1, SMTT(30) DEF Delivered
<1>4. CASE t # s \/ conn[s] # "open"
  <2>1. sent'[t] = sent[t]
    BY <1>4 DEF send, TypeOK
  <2> QED
    BY <1>4, <2>1 DEF Delivered
<1> QED
  BY <1>3, <1>4

\* A write of an ack delivers no envelope.
LEMMA AckWrite ==
    ASSUME TypeOK, NEW s \in Session, NEW m \in Mailbox, send(s, AckMsg(m)),
           NEW t \in Session, NEW f \in Envelope
    PROVE  Delivered(t, f)' <=> Delivered(t, f)
<1>1. AckMsg(m) # IncomingMsg(f)
  BY DEF AckMsg, IncomingMsg
<1>2. sent[t] \in Seq(Message) /\ AckMsg(m) \in Message
  BY MessageTypes DEF TypeOK
<1>3. CASE t = s /\ conn[s] = "open"
  <2>1. sent'[t] = Append(sent[t], AckMsg(m))
    BY <1>3 DEF send, TypeOK
  <2> QED
    BY <1>1, <1>2, <2>1 DEF Delivered
<1>4. CASE t # s \/ conn[s] # "open"
  <2>1. sent'[t] = sent[t]
    BY <1>4 DEF send, TypeOK
  <2> QED
    BY <2>1 DEF Delivered
<1> QED
  BY <1>3, <1>4

\* Only SubscribeAck, SendBacklog and Fanout write.
QuietStep ==
    \/ Tick \/ Restart \/ UNCHANGED vars
    \/ \E s \in Session :
         \/ Open(s) \/ Stall(s) \/ Drop(s) \/ Close(s) \/ SubscribeReject(s)
         \/ \E m \in Mailbox : SubscribeAccept(s, m)
         \/ Register(s) \/ Drain(s) \/ DrainFails(s)
         \/ \E e \in Envelope : Publish(s, e) \/ RefusePublish(s, e)
         \/ Enqueue(s) \/ EnqueueFails(s) \/ PublishAck(s)

\* Only SubscribeAck, SendBacklog and Fanout write to a connection.
LEMMA QuietStepsWriteNothing == QuietStep => sent' = sent
BY ZenonT(60)
DEF QuietStep, Tick, Restart, vars, Open, Stall, Drop, Close, SubscribeReject,
       SubscribeAccept, Register, Drain, DrainFails, Publish, RefusePublish,
       Enqueue, EnqueueFails, PublishAck, wireVars

\* A step writes an ack, writes an envelope, or writes nothing.
LEMMA NextIsQuietOrWrites ==
    [Next]_vars <=> \/ QuietStep
                    \/ \E s \in Session : SubscribeAck(s) \/ SendBacklog(s)
                    \/ \E s, t \in Session : Fanout(s, t)
BY DEF Next, HandlerStep, ClientStep, QuietStep

-----------------------------------------------------------------------------
(***************************************************************************)
(* Envelopes go to connections that were accepted for their recipient.     *)
(* The invariant follows the grant from the request to every place an      *)
(* envelope is sent from: the subscribers, the snapshots of publishers,    *)
(* and the backlogs.                                                       *)
(***************************************************************************)
Granted(s, m) == \E i \in 1..Len(grants[s]) : grants[s][i] = m

RegistryGranted ==
    /\ \A s \in Session : mailbox[s] # NoMailbox => Granted(s, mailbox[s])
    /\ \A m \in Mailbox : \A s \in subs[m] : Granted(s, m)

SnapshotsGranted == \A s \in Session : \A t \in targets[s] : Granted(t, Recipient[hand[s]])

QueuesFiled ==
    /\ \A m \in Mailbox : \A e \in queue[m] : Recipient[e] = m
    /\ \A s \in Session : \A e \in backlog[s] : Recipient[e] = mailbox[s]

GrantInv ==
    TypeInv /\ RegistryGranted /\ SnapshotsGranted /\ QueuesFiled /\ DeliveredToGrantedOnly

\* A grant is never taken back.
LEMMA GrantsStay ==
    ASSUME TypeOK, [Next]_vars, NEW s \in Session, NEW m \in Mailbox, Granted(s, m)
    PROVE  Granted(s, m)'
<1>1. CASE UNCHANGED grants
  BY <1>1 DEF Granted
<1>2. ASSUME NEW t \in Session, NEW n \in Mailbox, SubscribeAccept(t, n)
      PROVE Granted(s, m)'
  <2>1. grants[s] \in Seq(Mailbox)
    BY DEF TypeOK
  <2>2. grants'[s] = grants[s] \/ grants'[s] = Append(grants[s], n)
    BY <1>2 DEF SubscribeAccept, TypeOK
  <2> QED
    BY <2>1, <2>2 DEF Granted
<1> QED
  BY <1>1, <1>2, ZenonT(60)
  DEF Next, HandlerStep, ClientStep, Tick, Restart, vars, clientVars, Open, Stall, Drop, Close,
      SubscribeReject, Register, Drain, DrainFails, SubscribeAck, SendBacklog, Publish,
      RefusePublish, Enqueue, EnqueueFails, Fanout, PublishAck

\* A step keeps every registered session one that was accepted for the mailbox.
LEMMA RegistryStep ==
    ASSUME GrantInv, [Next]_vars
    PROVE  RegistryGranted'
<1> USE DEF GrantInv, TypeInv
<1>1. \A s \in Session, m \in Mailbox : Granted(s, m) => Granted(s, m)'
  BY GrantsStay
<1>2. CASE mailbox' = mailbox /\ subs' = subs
  BY <1>1, <1>2 DEF RegistryGranted, TypeOK
<1>3. ASSUME NEW s \in Session, Close(s) PROVE RegistryGranted'
  BY <1>1, <1>3 DEF Close, unregister, RegistryGranted, TypeOK
<1>4. ASSUME NEW s \in Session, NEW m \in Mailbox, SubscribeAccept(s, m)
      PROVE RegistryGranted'
  <2>1. Granted(s, m)'
    <3>1. grants'[s] = Append(grants[s], m) /\ grants[s] \in Seq(Mailbox)
      BY <1>4 DEF SubscribeAccept, TypeOK
    <3> QED
      BY <3>1 DEF Granted
  <2>2. mailbox' = [mailbox EXCEPT ![s] = m]
    BY <1>4 DEF SubscribeAccept
  <2>3. \A n \in Mailbox : subs'[n] \subseteq subs[n]
    BY <1>4 DEF SubscribeAccept, unregister, TypeOK
  <2> QED
    BY <1>1, <2>1, <2>2, <2>3 DEF RegistryGranted, TypeOK
<1>5. ASSUME NEW s \in Session, Register(s) PROVE RegistryGranted'
  <2>1. mailbox[s] \in Mailbox /\ Granted(s, mailbox[s])
    BY <1>5, ConstantsAssumption DEF Register, ControlInv, RegistryGranted
  <2> QED
    BY <1>1, <1>5, <2>1 DEF Register, RegistryGranted, TypeOK
<1>6. ASSUME NEW s \in Session, DrainFails(s) PROVE RegistryGranted'
  BY <1>1, <1>6 DEF DrainFails, RegistryGranted, TypeOK
<1>7. CASE Restart
  BY <1>1, <1>7 DEF Restart, RegistryGranted, TypeOK
<1> QED
  BY <1>2, <1>3, <1>4, <1>5, <1>6, <1>7
  DEF Next, HandlerStep, ClientStep, Tick, vars, Open, Stall, Drop, SubscribeReject, Drain,
      SubscribeAck, SendBacklog, Publish, RefusePublish, Enqueue, EnqueueFails, Fanout,
      PublishAck

\* A step keeps every publisher's snapshot among the accepted sessions.
LEMMA SnapshotsStep ==
    ASSUME GrantInv, [Next]_vars
    PROVE  SnapshotsGranted'
<1> USE DEF GrantInv, TypeInv
<1>1. \A s \in Session, m \in Mailbox : Granted(s, m) => Granted(s, m)'
  BY GrantsStay
<1>2. \A s \in Session : targets[s] # {} => Recipient[hand[s]] \in Mailbox
  BY ConstantsAssumption DEF TypeOK, ControlInv
<1>3. CASE targets' = targets /\ hand' = hand
  BY <1>1, <1>2, <1>3 DEF SnapshotsGranted, TypeOK
<1>4. ASSUME NEW s \in Session, NEW e \in Envelope, Publish(s, e)
      PROVE SnapshotsGranted'
  <2>1. Recipient[e] \in Mailbox
    BY ConstantsAssumption
  <2>2. \A t \in subs[Recipient[e]] : Granted(t, Recipient[e])' /\ t \in Session
    BY <1>1, <2>1 DEF RegistryGranted, TypeOK
  <2>3. /\ targets' = [targets EXCEPT ![s] = subs[Recipient[e]]]
        /\ hand' = [hand EXCEPT ![s] = e]
    BY <1>4 DEF Publish
  <2> QED
    BY <1>1, <1>2, <2>2, <2>3 DEF SnapshotsGranted, TypeOK
<1>5. ASSUME NEW s \in Session, NEW t \in Session, Fanout(s, t) PROVE SnapshotsGranted'
  BY <1>1, <1>2, <1>5 DEF Fanout, SnapshotsGranted, TypeOK
<1>6. ASSUME NEW s \in Session, EnqueueFails(s) \/ PublishAck(s) PROVE SnapshotsGranted'
  <2>1. targets[s] = {} /\ targets' = targets
    BY <1>6 DEF EnqueueFails, PublishAck, ControlInv
  <2>2. hand' = [hand EXCEPT ![s] = NoEnvelope]
    BY <1>6 DEF EnqueueFails, PublishAck
  <2> QED
    BY <1>1, <1>2, <2>1, <2>2 DEF SnapshotsGranted, TypeOK
<1>7. CASE Restart
  BY <1>7 DEF Restart, SnapshotsGranted
<1> QED
  BY <1>3, <1>4, <1>5, <1>6, <1>7
  DEF Next, HandlerStep, ClientStep, Tick, vars, publishVars, Open, Stall, Drop, Close,
      SubscribeReject, SubscribeAccept, Register, Drain, DrainFails, SubscribeAck,
      SendBacklog, RefusePublish, Enqueue

\* A step keeps every stored or drained envelope with its recipient mailbox.
LEMMA QueuesStep ==
    ASSUME GrantInv, [Next]_vars
    PROVE  QueuesFiled'
<1> USE DEF GrantInv, TypeInv
<1>1. \A s \in Session : backlog[s] # {} => pc[s] \in {"ack", "backlog"}
  BY DEF ControlInv
<1>2. CASE queue' = queue /\ backlog' = backlog /\ mailbox' = mailbox
  BY <1>2 DEF QueuesFiled
<1>3. ASSUME NEW s \in Session, NEW m \in Mailbox, SubscribeAccept(s, m)
      PROVE QueuesFiled'
  BY <1>1, <1>3 DEF SubscribeAccept, Reading, storeVars, QueuesFiled, TypeOK
<1>4. ASSUME NEW s \in Session, DrainFails(s) PROVE QueuesFiled'
  BY <1>1, <1>4 DEF DrainFails, storeVars, QueuesFiled, TypeOK
<1>5. ASSUME NEW s \in Session, Drain(s) PROVE QueuesFiled'
  <2>1. mailbox[s] \in Mailbox
    BY <1>5 DEF Drain, ControlInv
  <2>2. \A e \in FilterExpired(queue[mailbox[s]]) : Recipient[e] = mailbox[s]
    BY <2>1 DEF FilterExpired, QueuesFiled
  <2> QED
    BY <1>5, <2>1, <2>2 DEF Drain, QueuesFiled, TypeOK
<1>6. ASSUME NEW s \in Session, SendBacklog(s) PROVE QueuesFiled'
  BY <1>6 DEF SendBacklog, storeVars, QueuesFiled, TypeOK
<1>7. ASSUME NEW s \in Session, Enqueue(s) PROVE QueuesFiled'
  <2>1. hand[s] \in Envelope
    BY <1>7 DEF Enqueue, ControlInv, TypeOK
  <2>2. Recipient[hand[s]] \in Mailbox
    BY <2>1, ConstantsAssumption
  <2>3. queue' = [queue EXCEPT ![Recipient[hand[s]]] =
                    FilterExpired(queue[Recipient[hand[s]]]) \union {hand[s]}]
    BY <1>7 DEF Enqueue
  <2> QED
    BY <1>7, <2>2, <2>3 DEF Enqueue, FilterExpired, QueuesFiled, TypeOK
<1>8. CASE Restart
  BY <1>8 DEF Restart, QueuesFiled, TypeOK
<1> QED
  BY <1>2, <1>3, <1>4, <1>5, <1>6, <1>7, <1>8
  DEF Next, HandlerStep, ClientStep, Tick, vars, storeVars, Open, Stall, Drop, Close,
      SubscribeReject, Register, SubscribeAck, Publish, RefusePublish, EnqueueFails,
      Fanout, PublishAck

\* A step writes an envelope to an accepted session only.
LEMMA DeliveredToGrantedStep ==
    ASSUME GrantInv, [Next]_vars
    PROVE  DeliveredToGrantedOnly'
<1> USE DEF GrantInv, TypeInv
<1>1. \A s \in Session, m \in Mailbox : Granted(s, m) => Granted(s, m)'
  BY GrantsStay
<1>2. \A e \in Envelope : Recipient[e] \in Mailbox
  BY ConstantsAssumption
<1>3. CASE \A t \in Session, f \in Envelope : Delivered(t, f)' => Delivered(t, f)
  BY <1>1, <1>2, <1>3 DEF DeliveredToGrantedOnly, Granted
<1>4. CASE QuietStep
  <2>1. \A t \in Session, f \in Envelope : Delivered(t, f)' => Delivered(t, f)
    BY <1>4, QuietStepsWriteNothing DEF Delivered
  <2> QED
    BY <1>3, <2>1
<1>5. ASSUME NEW s \in Session, SubscribeAck(s) PROVE DeliveredToGrantedOnly'
  <2>1. mailbox[s] \in Mailbox /\ send(s, AckMsg(mailbox[s]))
    BY <1>5 DEF SubscribeAck, ControlInv
  <2>2. \A t \in Session, f \in Envelope : Delivered(t, f)' => Delivered(t, f)
    BY <2>1, AckWrite
  <2> QED
    BY <1>3, <2>2
<1>6. ASSUME NEW s \in Session, NEW e \in Envelope, send(s, IncomingMsg(e)),
             Granted(s, Recipient[e])
      PROVE DeliveredToGrantedOnly'
  <2>1. \A t \in Session, f \in Envelope :
          Delivered(t, f)' => Delivered(t, f) \/ (t = s /\ f = e)
    BY <1>6, EnvelopeWrite, SMTT(30)
  <2> QED
    BY <1>1, <1>2, <1>6, <2>1 DEF DeliveredToGrantedOnly, Granted
<1>7. ASSUME NEW s \in Session, SendBacklog(s) PROVE DeliveredToGrantedOnly'
  <2>1. BacklogHead(s) \in backlog[s] /\ BacklogHead(s) \in Envelope
    BY <1>7, HeadInBacklog DEF SendBacklog, ControlInv, TypeOK
  <2>2. mailbox[s] \in Mailbox /\ mailbox[s] # NoMailbox
    BY <1>7, ConstantsAssumption DEF SendBacklog, ControlInv
  <2>3. Granted(s, Recipient[BacklogHead(s)])
    BY <2>1, <2>2 DEF QueuesFiled, RegistryGranted
  <2> QED
    BY <1>6, <1>7, <2>1, <2>3 DEF SendBacklog, sendEnvelope
<1>8. ASSUME NEW s \in Session, NEW t \in Session, Fanout(s, t)
      PROVE DeliveredToGrantedOnly'
  <2>1. hand[s] \in Envelope /\ Granted(t, Recipient[hand[s]])
    BY <1>8 DEF Fanout, ControlInv, TypeOK, SnapshotsGranted
  <2> QED
    BY <1>6, <1>8, <2>1 DEF Fanout, sendEnvelope
<1> QED
  BY <1>4, <1>5, <1>7, <1>8, NextIsQuietOrWrites

\* Registry, snapshots, queues and backlogs never leave the accepted sessions.
LEMMA GrantInvariant == Spec => []GrantInv
<1>1. Init => RegistryGranted /\ SnapshotsGranted /\ QueuesFiled /\ DeliveredToGrantedOnly
  BY DEF Init, RegistryGranted, SnapshotsGranted, QueuesFiled, DeliveredToGrantedOnly,
         Delivered
<1>2. GrantInv /\ [Next]_vars
        => RegistryGranted' /\ SnapshotsGranted' /\ QueuesFiled' /\ DeliveredToGrantedOnly'
  BY RegistryStep, SnapshotsStep, QueuesStep, DeliveredToGrantedStep
<1> QED
  BY <1>1, <1>2, TypeInvariant, PTL DEF Spec, GrantInv

\* A connection is written an envelope only if it was accepted for the
\* recipient mailbox, however stale the snapshot it was sent from.
THEOREM DeliveredToGrantedCorrect == Spec => []DeliveredToGrantedOnly
<1>1. GrantInv => DeliveredToGrantedOnly
  BY DEF GrantInv
<1> QED
  BY <1>1, GrantInvariant, PTL

-----------------------------------------------------------------------------
(***************************************************************************)
(* Custody.  An envelope is in one place at a time - with its client, in   *)
(* the hand of one publisher, in a stored queue, in one backlog - and no   *)
(* place it can still be sent from has sent it to that connection before.  *)
(***************************************************************************)
Unsent(e) == \A t \in Session : ~Delivered(t, e)

Unstored(e) ==
    /\ \A m \in Mailbox : e \notin queue[m]
    /\ \A s \in Session : e \notin backlog[s]

NewEnvelopes ==
    \A e \in Envelope : outcome[e] = "new" => Unsent(e) /\ Unstored(e)

HeldEnvelopes ==
    \A s \in Session : hand[s] # NoEnvelope =>
        /\ outcome[hand[s]] = "held"
        /\ \A t \in Session : hand[t] = hand[s] => t = s
        /\ pc[s] \in {"enqueue", "fanout"} => Unstored(hand[s])
        /\ pc[s] = "enqueue" => Unsent(hand[s])
        /\ \A t \in targets[s] : ~Delivered(t, hand[s])

StoredEnvelopes ==
    \A m \in Mailbox : \A e \in queue[m] :
        Unsent(e) /\ \A s \in Session : e \notin backlog[s]

DrainedEnvelopes ==
    \A s \in Session : \A e \in backlog[s] :
        Unsent(e) /\ \A t \in Session : e \in backlog[t] => t = s

CustodyInv ==
    /\ GrantInv
    /\ NewEnvelopes /\ HeldEnvelopes /\ StoredEnvelopes /\ DrainedEnvelopes

\* Where an envelope was before a step that put it somewhere.
LEMMA EnqueuedFromHand ==
    ASSUME TypeInv, [Next]_vars, NEW m \in Mailbox, NEW e \in queue'[m]
    PROVE  \/ e \in queue[m]
           \/ \E s \in Session : Enqueue(s) /\ e = hand[s]
<1>1. CASE queue' = queue
  BY <1>1
<1>2. ASSUME NEW s \in Session, Drain(s) PROVE e \in queue[m]
  BY <1>2 DEF Drain, TypeInv, TypeOK
<1>3. ASSUME NEW s \in Session, Enqueue(s)
      PROVE e \in queue[m] \/ e = hand[s]
  BY <1>3 DEF Enqueue, FilterExpired, TypeInv, TypeOK
<1>4. CASE Restart
  BY <1>4 DEF Restart
<1> QED
  BY <1>1, <1>2, <1>3, <1>4, SMTT(60)
  DEF Next, HandlerStep, ClientStep, Tick, vars, storeVars, Open, Stall, Drop, Close,
      SubscribeReject, SubscribeAccept, Register, DrainFails, SubscribeAck, SendBacklog,
      Publish, RefusePublish, EnqueueFails, Fanout, PublishAck

\* What is in a backlog after a step was there before, or was stored.
LEMMA DrainedFromQueue ==
    ASSUME TypeInv, [Next]_vars, NEW s \in Session, NEW e \in backlog'[s]
    PROVE  \/ e \in backlog[s]
           \/ Drain(s) /\ e \in queue[mailbox[s]]
<1>1. CASE backlog' = backlog
  BY <1>1
<1>2. ASSUME NEW t \in Session, Drain(t)
      PROVE e \in backlog[s] \/ (t = s /\ e \in queue[mailbox[s]])
  BY <1>2 DEF Drain, FilterExpired, TypeInv, TypeOK
<1>3. ASSUME NEW t \in Session, SendBacklog(t) PROVE e \in backlog[s]
  BY <1>3 DEF SendBacklog, TypeInv, TypeOK
<1>4. CASE Restart
  BY <1>4 DEF Restart
<1> QED
  BY <1>1, <1>2, <1>3, <1>4, SMTT(60)
  DEF Next, HandlerStep, ClientStep, Tick, vars, Open, Stall, Drop, Close, SubscribeReject,
      SubscribeAccept, Register, DrainFails, SubscribeAck, Publish, RefusePublish,
      Enqueue, EnqueueFails, Fanout, PublishAck

\* What a handler holds after a step it held before, or a client published it.
LEMMA HeldFromClient ==
    ASSUME TypeInv, [Next]_vars, NEW s \in Session, hand'[s] # NoEnvelope
    PROVE  \/ hand'[s] = hand[s]
           \/ hand'[s] \in Envelope /\ Publish(s, hand'[s])
<1>1. CASE hand' = hand
  BY <1>1
<1>2. ASSUME NEW t \in Session, NEW e \in Envelope, Publish(t, e)
      PROVE hand'[s] = hand[s] \/ (t = s /\ hand'[s] = e)
  BY <1>2 DEF Publish, TypeInv, TypeOK
<1>3. ASSUME NEW t \in Session, EnqueueFails(t) \/ PublishAck(t)
      PROVE hand'[s] = hand[s]
  BY <1>3 DEF EnqueueFails, PublishAck, TypeInv, TypeOK
<1>4. ~Restart
  BY DEF Restart
<1> QED
  BY <1>1, <1>2, <1>3, <1>4
  DEF Next, HandlerStep, ClientStep, Tick, vars, publishVars, Open, Stall, Drop, Close,
      SubscribeReject, SubscribeAccept, Register, Drain, DrainFails, SubscribeAck,
      SendBacklog, RefusePublish, Enqueue, Fanout

\* What a step delivers came out of a backlog or out of a publisher's hand.
LEMMA DeliveredFromBacklogOrHand ==
    ASSUME TypeInv, [Next]_vars, NEW t \in Session, NEW e \in Envelope, Delivered(t, e)'
    PROVE  \/ Delivered(t, e)
           \/ SendBacklog(t) /\ e = BacklogHead(t) /\ e \in backlog[t] /\ e \notin backlog'[t]
           \/ \E s \in Session : Fanout(s, t) /\ e = hand[s]
<1>1. CASE QuietStep
  BY <1>1, QuietStepsWriteNothing DEF Delivered
<1>2. ASSUME NEW s \in Session, SubscribeAck(s) PROVE Delivered(t, e)
  <2>1. mailbox[s] \in Mailbox /\ send(s, AckMsg(mailbox[s]))
    BY <1>2 DEF SubscribeAck, TypeInv, ControlInv
  <2> QED
    BY <2>1, AckWrite DEF TypeInv
<1>3. ASSUME NEW s \in Session, SendBacklog(s)
      PROVE \/ Delivered(t, e)
            \/ s = t /\ e = BacklogHead(t) /\ e \in backlog[t] /\ e \notin backlog'[t]
  <2>1. BacklogHead(s) \in backlog[s] /\ BacklogHead(s) \in Envelope
    BY <1>3, HeadInBacklog DEF SendBacklog, TypeInv, ControlInv, TypeOK
  <2>2. Delivered(t, e) \/ (t = s /\ e = BacklogHead(s))
    BY <1>3, <2>1, EnvelopeWrite DEF SendBacklog, sendEnvelope, TypeInv
  <2>3. backlog'[s] = backlog[s] \ {BacklogHead(s)}
    BY <1>3 DEF SendBacklog, TypeInv, TypeOK
  <2> QED
    BY <2>1, <2>2, <2>3
<1>4. ASSUME NEW s \in Session, NEW u \in Session, Fanout(s, u)
      PROVE Delivered(t, e) \/ (u = t /\ e = hand[s])
  <2>1. hand[s] \in Envelope
    BY <1>4 DEF Fanout, TypeInv, ControlInv, TypeOK
  <2> QED
    BY <1>4, <2>1, EnvelopeWrite DEF Fanout, sendEnvelope, TypeInv
<1> QED
  BY <1>1, <1>2, <1>3, <1>4, NextIsQuietOrWrites

\* Only handlePublish and a restart change what publishers see, and only
\* Publish sets deadlines.
LEMMA PublishersRecord ==
    [Next]_vars =>
        \/ outcome' = outcome /\ expiresAt' = expiresAt
        \/ \E s \in Session : PublishAck(s) \/ EnqueueFails(s)
        \/ \E s \in Session, e \in Envelope : Publish(s, e) \/ RefusePublish(s, e)
        \/ Restart
BY ZenonT(60)
DEF Next, HandlerStep, ClientStep, Tick, vars, publishVars, Open, Stall, Drop, Close,
    SubscribeReject, SubscribeAccept, Register, Drain, DrainFails, SubscribeAck,
    SendBacklog, Enqueue, Fanout

\* An envelope is published once: only Publish and RefusePublish take it up.
LEMMA NewStep ==
    ASSUME CustodyInv, [Next]_vars
    PROVE  NewEnvelopes'
<1> USE DEF CustodyInv, GrantInv, TypeInv
<1> SUFFICES ASSUME NEW e \in Envelope, outcome'[e] = "new"
             PROVE Unsent(e)' /\ Unstored(e)'
  BY DEF NewEnvelopes
<1>1. outcome[e] = "new"
  <2>1. CASE outcome' = outcome
    BY <2>1
  <2>2. ASSUME NEW s \in Session, PublishAck(s) \/ EnqueueFails(s) PROVE outcome[e] = "new"
    BY <2>2 DEF PublishAck, EnqueueFails, TypeOK
  <2>3. ASSUME NEW s \in Session, NEW f \in Envelope, Publish(s, f) \/ RefusePublish(s, f)
        PROVE outcome[e] = "new"
    BY <2>3 DEF Publish, RefusePublish, TypeOK
  <2>4. CASE Restart
    BY <2>4 DEF Restart, TypeOK
  <2> QED
    BY <2>1, <2>2, <2>3, <2>4, PublishersRecord
<1>2. Unsent(e) /\ Unstored(e)
  BY <1>1 DEF NewEnvelopes
<1>3. \A s \in Session : pc[s] \in {"enqueue", "fanout"} => hand[s] # e
  BY <1>1 DEF HeldEnvelopes, ControlInv
<1>4. \A m \in Mailbox : e \notin queue'[m]
  BY <1>2, <1>3, EnqueuedFromHand DEF Unstored, Enqueue
<1>5. \A s \in Session : e \notin backlog'[s]
  BY <1>2, DrainedFromQueue DEF Unstored, Drain, ControlInv
<1>6. \A t \in Session : ~Delivered(t, e)'
  BY <1>2, <1>3, DeliveredFromBacklogOrHand DEF Unsent, Unstored, Fanout
<1> QED
  BY <1>4, <1>5, <1>6 DEF Unsent, Unstored

\* A stored envelope stays unsent until it is drained.
LEMMA StoredStep ==
    ASSUME CustodyInv, [Next]_vars
    PROVE  StoredEnvelopes'
<1> USE DEF CustodyInv, GrantInv, TypeInv
<1> SUFFICES ASSUME NEW m \in Mailbox, NEW e \in queue'[m]
             PROVE Unsent(e)' /\ \A s \in Session : e \notin backlog'[s]
  BY DEF StoredEnvelopes
<1>1. ASSUME NEW s \in Session, Enqueue(s), e = hand[s]
      PROVE Unsent(e)' /\ \A t \in Session : e \notin backlog'[t]
  <2>1. hand[s] # NoEnvelope /\ pc[s] = "enqueue"
    BY <1>1 DEF Enqueue, ControlInv
  <2>2. Unsent(e) /\ Unstored(e)
    BY <1>1, <2>1 DEF HeldEnvelopes
  <2>3. sent' = sent /\ backlog' = backlog
    BY <1>1 DEF Enqueue, wireVars
  <2> QED
    BY <2>2, <2>3 DEF Unsent, Unstored, Delivered
<1>2. CASE e \in queue[m]
  <2>1. /\ e \in Envelope
        /\ Unsent(e)
        /\ \A s \in Session : e \notin backlog[s]
        /\ Recipient[e] = m
    BY <1>2 DEF StoredEnvelopes, QueuesFiled, TypeOK
  <2>2. \A s \in Session : pc[s] = "fanout" => hand[s] # e
    BY <1>2 DEF HeldEnvelopes, ControlInv, Unstored
  <2>3. \A t \in Session : ~Delivered(t, e)'
    BY <2>1, <2>2, DeliveredFromBacklogOrHand DEF Unsent, Fanout
  <2>4. ASSUME NEW s \in Session, Drain(s), e \in queue[mailbox[s]] PROVE FALSE
    <3>1. mailbox[s] = m
      BY <2>1, <2>4 DEF Drain, ControlInv, QueuesFiled
    <3> QED
      BY <2>4, <3>1 DEF Drain, TypeOK
  <2>5. \A s \in Session : e \notin backlog'[s]
    BY <2>1, <2>4, DrainedFromQueue
  <2> QED
    BY <2>3, <2>5 DEF Unsent
<1> QED
  BY <1>1, <1>2, EnqueuedFromHand

\* A drained envelope stays unsent and in one backlog until it is written.
LEMMA DrainedStep ==
    ASSUME CustodyInv, [Next]_vars
    PROVE  DrainedEnvelopes'
<1> USE DEF CustodyInv, GrantInv, TypeInv
<1> SUFFICES ASSUME NEW s \in Session, NEW e \in backlog'[s]
             PROVE Unsent(e)' /\ \A t \in Session : e \in backlog'[t] => t = s
  BY DEF DrainedEnvelopes
<1>1. CASE Drain(s) /\ e \in queue[mailbox[s]]
  <2>1. mailbox[s] \in Mailbox
    BY <1>1 DEF Drain, ControlInv
  <2>2. Unsent(e) /\ \A t \in Session : e \notin backlog[t]
    BY <1>1, <2>1 DEF StoredEnvelopes
  <2>3. sent' = sent /\ \A t \in Session \ {s} : backlog'[t] = backlog[t]
    BY <1>1 DEF Drain, wireVars, TypeOK
  <2> QED
    BY <2>2, <2>3 DEF Unsent, Delivered
<1>2. CASE e \in backlog[s]
  <2>1. e \in Envelope /\ Unsent(e) /\ \A t \in Session : e \in backlog[t] => t = s
    BY <1>2 DEF DrainedEnvelopes, TypeOK
  <2>2. \A t \in Session : pc[t] = "fanout" => hand[t] # e
    BY <1>2 DEF HeldEnvelopes, ControlInv, Unstored
  <2>3. \A t \in Session : ~Delivered(t, e)'
    BY <2>1, <2>2, DeliveredFromBacklogOrHand DEF Unsent, Fanout
  <2>4. \A t \in Session : Drain(t) => e \notin queue[mailbox[t]]
    BY <1>2 DEF StoredEnvelopes, Drain, ControlInv
  <2>5. \A t \in Session : e \in backlog'[t] => t = s
    BY <2>1, <2>4, DrainedFromQueue
  <2> QED
    BY <2>3, <2>5 DEF Unsent
<1> QED
  BY <1>1, <1>2, DrainedFromQueue

\* While a handler keeps its envelope, nobody else answers for it.
LEMMA HandlerKeeps ==
    ASSUME CustodyInv, [Next]_vars, NEW s \in Session,
           hand[s] # NoEnvelope, hand'[s] = hand[s]
    PROVE  /\ outcome'[hand[s]] = "held"
           /\ pc'[s] \in {"enqueue", "fanout"} => pc'[s] = pc[s]
           /\ targets'[s] \subseteq targets[s]
<1> USE DEF CustodyInv, GrantInv, TypeInv, Goto
<1>1. /\ hand[s] \in Envelope
      /\ outcome[hand[s]] = "held"
      /\ \A t \in Session : hand[t] = hand[s] => t = s
      /\ pc[s] \in {"enqueue", "fanout", "reply"}
  BY DEF TypeOK, ControlInv, HeldEnvelopes
<1>2. outcome'[hand[s]] = "held"
  <2>1. CASE outcome' = outcome
    BY <1>1, <2>1
  <2>2. ASSUME NEW t \in Session, NEW e \in Envelope, Publish(t, e) \/ RefusePublish(t, e)
        PROVE outcome'[hand[s]] = "held"
    BY <1>1, <2>2 DEF Publish, RefusePublish, TypeOK
  <2>3. ASSUME NEW t \in Session, EnqueueFails(t) \/ PublishAck(t)
        PROVE outcome'[hand[s]] = "held"
    <3>1. hand'[t] = NoEnvelope /\ outcome' = [outcome EXCEPT ![hand[t]] = outcome'[hand[t]]]
      BY <1>1, <2>3 DEF EnqueueFails, PublishAck, TypeOK, ControlInv
    <3>2. hand[t] # hand[s]
      BY <1>1, <3>1
    <3> QED
      BY <1>1, <3>1, <3>2 DEF TypeOK
  <2>4. ~Restart
    BY DEF Restart
  <2> QED
    BY <2>1, <2>2, <2>3, <2>4
    DEF Next, HandlerStep, ClientStep, Tick, vars, publishVars, Open, Stall, Drop, Close,
        SubscribeReject, SubscribeAccept, Register, Drain, DrainFails, SubscribeAck,
        SendBacklog, Enqueue, Fanout
<1>3. pc'[s] \in {"enqueue", "fanout"} => pc'[s] = pc[s]
  <2>1. ASSUME NEW t \in Session, t # s, HandlerStep(t) \/ ClientStep(t)
        PROVE pc'[s] = pc[s]
    BY <2>1
    DEF HandlerStep, ClientStep, clientVars, Open, Stall, Drop, Close, SubscribeReject,
        SubscribeAccept, Register, Drain, DrainFails, SubscribeAck, SendBacklog, Publish,
        RefusePublish, Enqueue, EnqueueFails, Fanout, PublishAck, TypeOK
  <2>2. ASSUME Enqueue(s) \/ EnqueueFails(s) \/ PublishAck(s)
        PROVE pc'[s] \notin {"enqueue", "fanout"}
    BY <2>2 DEF Enqueue, EnqueueFails, PublishAck, TypeOK
  <2>3. ASSUME NEW t \in Session, Fanout(s, t)
        PROVE pc[s] = "fanout" /\ pc'[s] \in {"reply", "fanout"}
    BY <2>3 DEF Fanout, TypeOK
  <2>4. ASSUME HandlerStep(s) \/ ClientStep(s)
        PROVE \/ Stall(s) \/ Drop(s)
              \/ Enqueue(s) \/ EnqueueFails(s) \/ PublishAck(s)
              \/ \E t \in Session : Fanout(s, t)
    BY <1>1, <2>4
    DEF HandlerStep, ClientStep, Open, Close, SubscribeReject, SubscribeAccept, Register,
        Drain, DrainFails, SubscribeAck, SendBacklog, Publish, RefusePublish, Reading,
        ControlInv
  <2>5. Stall(s) \/ Drop(s) \/ Tick \/ UNCHANGED vars => pc' = pc
    BY DEF Stall, Drop, Tick, vars
  <2>6. ~Restart
    BY DEF Restart
  <2> QED
    BY <2>1, <2>2, <2>3, <2>4, <2>5, <2>6 DEF Next
<1>4. targets'[s] \subseteq targets[s]
  <2>1. CASE targets' = targets
    BY <2>1
  <2>2. ASSUME NEW t \in Session, NEW e \in Envelope, Publish(t, e)
        PROVE targets'[s] \subseteq targets[s]
    <3>1. t # s
      BY <1>1, <2>2 DEF Publish, Reading
    <3> QED
      BY <2>2, <3>1 DEF Publish, TypeOK
  <2>3. ASSUME NEW t \in Session, NEW u \in Session, Fanout(t, u)
        PROVE targets'[s] \subseteq targets[s]
    BY <2>3 DEF Fanout, TypeOK
  <2>4. ~Restart
    BY DEF Restart
  <2> QED
    BY <2>1, <2>2, <2>3, <2>4, ZenonT(60)
    DEF Next, HandlerStep, ClientStep, Tick, vars, publishVars, Open, Stall, Drop, Close,
        SubscribeReject, SubscribeAccept, Register, Drain, DrainFails, SubscribeAck,
        SendBacklog, RefusePublish, Enqueue, EnqueueFails, PublishAck
<1> QED
  BY <1>2, <1>3, <1>4

\* A held envelope is in one hand, unstored until Enqueue has stored it, and
\* unsent to the subscribers that are still in the publisher's snapshot.
LEMMA HeldStep ==
    ASSUME CustodyInv, [Next]_vars
    PROVE  HeldEnvelopes'
<1> USE DEF CustodyInv, GrantInv, TypeInv
<1> SUFFICES ASSUME NEW s \in Session, NEW h, h # NoEnvelope, hand'[s] = h
             PROVE /\ outcome'[h] = "held"
                   /\ \A t \in Session : hand'[t] = h => t = s
                   /\ pc'[s] \in {"enqueue", "fanout"} => Unstored(h)'
                   /\ pc'[s] = "enqueue" => Unsent(h)'
                   /\ \A t \in targets'[s] : ~Delivered(t, h)'
  BY DEF HeldEnvelopes, Unstored, Unsent, Delivered
<1>1. CASE h \in Envelope /\ Publish(s, h)
  <2>1. Unsent(h) /\ Unstored(h) /\ outcome[h] = "new"
    BY <1>1 DEF Publish, NewEnvelopes
  <2>2. /\ UNCHANGED <<sent, queue, backlog>>
        /\ outcome'[h] = "held"
        /\ hand' = [hand EXCEPT ![s] = h]
        /\ targets'[s] \subseteq Session
    BY <1>1, ConstantsAssumption DEF Publish, storeVars, wireVars, TypeOK
  <2>3. \A t \in Session : hand[t] # h
    BY <2>1, ConstantsAssumption DEF HeldEnvelopes
  <2>4. Unsent(h)' /\ Unstored(h)'
    BY <2>1, <2>2 DEF Unsent, Unstored, Delivered
  <2> QED
    BY <2>2, <2>3, <2>4 DEF Unsent, TypeOK
<1>2. CASE hand[s] = h
  <2>1. /\ h \in Envelope /\ outcome[h] = "held"
        /\ \A t \in Session : hand[t] = h => t = s
    BY <1>2 DEF TypeOK, HeldEnvelopes
  <2>2. /\ outcome'[h] = "held"
        /\ pc'[s] \in {"enqueue", "fanout"} => pc'[s] = pc[s]
        /\ targets'[s] \subseteq targets[s]
    BY <1>2, HandlerKeeps
  <2>3. \A t \in Session : hand'[t] = h => t = s
    BY <2>1, HeldFromClient, ConstantsAssumption DEF Publish
  <2>4. ASSUME pc'[s] \in {"enqueue", "fanout"} PROVE Unstored(h)'
    <3>1. Unstored(h)
      BY <1>2, <2>2, <2>4 DEF HeldEnvelopes
    <3>2. ~Enqueue(s)
      BY <2>4 DEF Enqueue, Goto, TypeOK
    <3>3. \A m \in Mailbox : h \notin queue'[m]
      BY <2>1, <3>1, <3>2, EnqueuedFromHand DEF Unstored
    <3>4. \A t \in Session : h \notin backlog'[t]
      BY <3>1, DrainedFromQueue DEF Unstored, Drain, ControlInv
    <3> QED
      BY <3>3, <3>4 DEF Unstored
  <2>5. ASSUME pc'[s] = "enqueue" PROVE Unsent(h)'
    <3>1. Unsent(h) /\ Unstored(h) /\ pc[s] = "enqueue"
      BY <1>2, <2>2, <2>5 DEF HeldEnvelopes
    <3>2. \A t, u \in Session : Fanout(u, t) => hand[u] # h
      BY <2>1, <3>1 DEF Fanout
    <3>3. \A t \in Session : ~Delivered(t, h)'
      BY <2>1, <3>1, <3>2, DeliveredFromBacklogOrHand DEF Unsent, Unstored
    <3> QED
      BY <3>3 DEF Unsent
  <2>6. ASSUME NEW t \in targets'[s] PROVE ~Delivered(t, h)'
    <3>1. t \in targets[s] /\ t \in Session
      BY <2>2 DEF TypeOK
    <3>2. ~Delivered(t, h) /\ Unstored(h)
      BY <1>2, <3>1 DEF HeldEnvelopes, ControlInv
    <3>3. ~Fanout(s, t)
      BY <2>6 DEF Fanout, TypeOK
    <3> QED
      BY <2>1, <3>1, <3>2, <3>3, DeliveredFromBacklogOrHand DEF Unstored
  <2> QED
    BY <2>2, <2>3, <2>4, <2>5, <2>6
<1> QED
  BY <1>1, <1>2, HeldFromClient

\* At any time an envelope has one place: client, hand, store, or one backlog.
LEMMA CustodyInvariant == Spec => []CustodyInv
<1>1. Init => NewEnvelopes /\ HeldEnvelopes /\ StoredEnvelopes /\ DrainedEnvelopes
  BY DEF Init, NewEnvelopes, HeldEnvelopes, StoredEnvelopes, DrainedEnvelopes,
         Unsent, Unstored, Delivered
<1>2. CustodyInv /\ [Next]_vars
        => NewEnvelopes' /\ HeldEnvelopes' /\ StoredEnvelopes' /\ DrainedEnvelopes'
  BY NewStep, HeldStep, StoredStep, DrainedStep
<1> QED
  BY <1>1, <1>2, GrantInvariant, PTL DEF Spec, CustodyInv

\* What was written to a subscriber is not in the store, whichever way
\* publish, Enqueue and Drain interleave.
THEOREM DeliveredIsNotRetainedCorrect == Spec => []DeliveredIsNotRetained
<1>1. CustodyInv => DeliveredIsNotRetained
  BY DEF CustodyInv, StoredEnvelopes, Unsent, DeliveredIsNotRetained
<1> QED
  BY <1>1, CustodyInvariant, PTL

-----------------------------------------------------------------------------
(***************************************************************************)
(* No connection gets an envelope twice.  Custody already says that what   *)
(* is about to be written was not written to that connection before.       *)
(***************************************************************************)
NoDuplicateInv == CustodyInv /\ NoDuplicateDelivery

\* A message appended to a connection's messages keeps them distinct, if it
\* is an ack or was not among them.
LEMMA AppendKeepsDistinct ==
    ASSUME TypeOK, NoDuplicateDelivery, NEW s \in Session, NEW msg \in Message, send(s, msg),
           msg.type = "incoming" => \A i \in 1..Len(sent[s]) : sent[s][i] # msg
    PROVE  NoDuplicateDelivery'
<1>1. sent \in [Session -> Seq(Message)]
  BY DEF TypeOK
<1>2. SUFFICES ASSUME NEW t \in Session, NEW i \in 1..Len(sent'[t]), NEW j \in 1..Len(sent'[t]),
                      sent'[t][i].type = "incoming", sent'[t][i] = sent'[t][j]
               PROVE i = j
  BY DEF NoDuplicateDelivery
<1>3. CASE sent'[t] = sent[t]
  BY <1>2, <1>3 DEF NoDuplicateDelivery
<1>4. CASE t = s /\ sent'[t] = Append(sent[t], msg)
  <2>1. \A k \in 1..Len(sent'[t]) :
          \/ k \in 1..Len(sent[t]) /\ sent'[t][k] = sent[t][k]
          \/ k = Len(sent[t]) + 1 /\ sent'[t][k] = msg
    BY <1>1, <1>4
  <2> QED
    BY <1>2, <1>4, <2>1 DEF NoDuplicateDelivery
<1> QED
  BY <1>1, <1>3, <1>4 DEF send

\* A step that writes to a connection writes nothing it was written before.
LEMMA NoDuplicateStep ==
    ASSUME NoDuplicateInv, [Next]_vars
    PROVE  NoDuplicateDelivery'
<1> USE DEF NoDuplicateInv, CustodyInv, GrantInv, TypeInv
<1>1. CASE QuietStep
  BY <1>1, QuietStepsWriteNothing DEF NoDuplicateDelivery
<1>2. ASSUME NEW s \in Session, SubscribeAck(s) PROVE NoDuplicateDelivery'
  <2>1. mailbox[s] \in Mailbox /\ send(s, AckMsg(mailbox[s]))
    BY <1>2 DEF SubscribeAck, ControlInv
  <2>2. AckMsg(mailbox[s]) \in Message /\ AckMsg(mailbox[s]).type = "ack"
    BY <2>1, MessageTypes DEF AckMsg
  <2> QED
    BY <2>1, <2>2, AppendKeepsDistinct
<1>3. ASSUME NEW s \in Session, NEW e \in Envelope, send(s, IncomingMsg(e)), ~Delivered(s, e)
      PROVE NoDuplicateDelivery'
  <2>1. IncomingMsg(e) \in Message
    BY MessageTypes
  <2> QED
    BY <1>3, <2>1, AppendKeepsDistinct DEF Delivered
<1>4. ASSUME NEW s \in Session, SendBacklog(s) PROVE NoDuplicateDelivery'
  <2>1. BacklogHead(s) \in backlog[s] /\ BacklogHead(s) \in Envelope
    BY <1>4, HeadInBacklog DEF SendBacklog, ControlInv, TypeOK
  <2>2. ~Delivered(s, BacklogHead(s))
    BY <2>1 DEF DrainedEnvelopes, Unsent
  <2> QED
    BY <1>3, <1>4, <2>1, <2>2 DEF SendBacklog, sendEnvelope
<1>5. ASSUME NEW s \in Session, NEW t \in Session, Fanout(s, t) PROVE NoDuplicateDelivery'
  <2>1. hand[s] \in Envelope /\ hand[s] # NoEnvelope
    BY <1>5, ConstantsAssumption DEF Fanout, ControlInv, TypeOK
  <2>2. ~Delivered(t, hand[s])
    BY <1>5, <2>1 DEF Fanout, HeldEnvelopes
  <2> QED
    BY <1>3, <1>5, <2>1, <2>2 DEF Fanout, sendEnvelope
<1> QED
  BY <1>1, <1>2, <1>4, <1>5, NextIsQuietOrWrites

\* No connection is written the same envelope twice, although it may be in a
\* publisher's snapshot and drain the same mailbox at once.
THEOREM NoDuplicateDeliveryCorrect == Spec => []NoDuplicateDelivery
<1>1. Init => NoDuplicateDelivery
  BY DEF Init, NoDuplicateDelivery
<1>2. CustodyInv /\ NoDuplicateDelivery /\ [Next]_vars => NoDuplicateDelivery'
  BY NoDuplicateStep DEF NoDuplicateInv
<1> QED
  BY <1>1, <1>2, CustodyInvariant, PTL DEF Spec

-----------------------------------------------------------------------------
(***************************************************************************)
(* Nothing the relay acked disappears.  What is accounted for stays so,    *)
(* and a publisher acks only what it has stored or written.                *)
(***************************************************************************)
Accounted(e) ==
    \/ e \in queue[Recipient[e]]
    \/ \E s \in Session : e \in backlog[s]
    \/ \E s \in Session : Delivered(s, e)
    \/ expiresAt[e] <= now
    \/ e \in lost

RepliesAreAccounted == \A s \in Session : pc[s] = "reply" => Accounted(hand[s])

AccountInv == CustodyInv /\ RepliesAreAccounted /\ AckedIsAccountedFor

\* Messages are only ever added, and deadlines only pass.
LEMMA RecordsStay ==
    ASSUME CustodyInv, [Next]_vars, NEW e \in Envelope
    PROVE  /\ \A s \in Session : Delivered(s, e) => Delivered(s, e)'
           /\ outcome[e] # "new" /\ expiresAt[e] <= now => expiresAt'[e] <= now'
           /\ e \in lost => e \in lost'
<1> USE DEF CustodyInv, GrantInv, TypeInv
<1>1. ASSUME NEW s \in Session, Delivered(s, e) PROVE Delivered(s, e)'
  <2>1. CASE QuietStep
    BY <1>1, <2>1, QuietStepsWriteNothing DEF Delivered
  <2>2. ASSUME NEW t \in Session, NEW msg \in Message, send(t, msg)
        PROVE Delivered(s, e)'
    BY <1>1, <2>2 DEF send, Delivered, TypeOK
  <2>3. ASSUME NEW t \in Session, SubscribeAck(t) PROVE Delivered(s, e)'
    BY <2>2, <2>3, MessageTypes DEF SubscribeAck, ControlInv
  <2>4. ASSUME NEW t \in Session, SendBacklog(t) PROVE Delivered(s, e)'
    BY <2>2, <2>4, HeadInBacklog, MessageTypes
    DEF SendBacklog, sendEnvelope, ControlInv, TypeOK
  <2>5. ASSUME NEW t \in Session, NEW u \in Session, Fanout(t, u) PROVE Delivered(s, e)'
    BY <2>2, <2>5, MessageTypes DEF Fanout, sendEnvelope, ControlInv, TypeOK
  <2> QED
    BY <2>1, <2>3, <2>4, <2>5, NextIsQuietOrWrites
<1>2. now' \in Nat /\ now <= now'
  <2>1. CASE Tick
    BY <2>1 DEF Tick, TypeOK
  <2>2. CASE now' = now
    BY <2>2 DEF TypeOK
  <2>3. Tick \/ now' = now
    BY ZenonT(60)
    DEF Next, HandlerStep, ClientStep, Restart, vars, Open, Stall, Drop, Close, SubscribeReject,
        SubscribeAccept, Register, Drain, DrainFails, SubscribeAck, SendBacklog, Publish,
        RefusePublish, Enqueue, EnqueueFails, Fanout, PublishAck
  <2> QED
    BY <2>1, <2>2, <2>3
<1>3. outcome[e] # "new" => expiresAt'[e] = expiresAt[e]
  <2>1. CASE expiresAt' = expiresAt
    BY <2>1
  <2>2. ASSUME NEW s \in Session, NEW f \in Envelope, Publish(s, f), outcome[e] # "new"
        PROVE expiresAt'[e] = expiresAt[e]
    BY <2>2 DEF Publish, TypeOK
  <2>3. /\ \A s \in Session : PublishAck(s) \/ EnqueueFails(s) => expiresAt' = expiresAt
        /\ \A s \in Session, f \in Envelope : RefusePublish(s, f) => expiresAt' = expiresAt
        /\ Restart => expiresAt' = expiresAt
    BY DEF PublishAck, EnqueueFails, RefusePublish, Restart
  <2> QED
    BY <2>1, <2>2, <2>3, PublishersRecord
<1>4. lost \subseteq lost'
  BY ZenonT(60)
  DEF Next, HandlerStep, ClientStep, Tick, Restart, vars, wireVars, Open, Stall, Drop, Close,
         SubscribeReject, SubscribeAccept, Register, Drain, DrainFails, SubscribeAck,
         SendBacklog, sendEnvelope, Publish, RefusePublish, Enqueue, EnqueueFails, Fanout,
         PublishAck
<1> QED
  BY <1>1, <1>2, <1>3, <1>4 DEF TypeOK

\* An envelope the relay took stays accounted for.
LEMMA AccountedStays ==
    ASSUME CustodyInv, [Next]_vars, NEW e \in Envelope, outcome[e] # "new", Accounted(e)
    PROVE  Accounted(e)'
<1> USE DEF CustodyInv, GrantInv, TypeInv
<1>1. Recipient[e] \in Mailbox /\ expiresAt[e] \in Nat /\ now \in Nat
  BY ConstantsAssumption DEF TypeOK
<1>2. CASE (\E s \in Session : Delivered(s, e)) \/ expiresAt[e] <= now \/ e \in lost
  BY <1>2, RecordsStay DEF Accounted
<1>3. CASE e \in queue[Recipient[e]] /\ ~(expiresAt[e] <= now)
  <2>1. CASE queue' = queue
    BY <1>3, <2>1 DEF Accounted
  <2>2. ASSUME NEW s \in Session, Drain(s) PROVE Accounted(e)'
    <3>1. CASE mailbox[s] = Recipient[e]
      BY <1>1, <1>3, <2>2, <3>1 DEF Drain, FilterExpired, Accounted, TypeOK
    <3>2. CASE mailbox[s] # Recipient[e]
      BY <1>1, <1>3, <2>2, <3>2 DEF Drain, Accounted, TypeOK
    <3> QED
      BY <3>1, <3>2
  <2>3. ASSUME NEW s \in Session, Enqueue(s) PROVE Accounted(e)'
    <3>1. queue' = [queue EXCEPT ![Recipient[hand[s]]] =
                      FilterExpired(queue[Recipient[hand[s]]]) \union {hand[s]}]
      BY <2>3 DEF Enqueue
    <3>2. e \in FilterExpired(queue[Recipient[e]])
      BY <1>1, <1>3 DEF FilterExpired
    <3> QED
      BY <1>1, <1>3, <3>1, <3>2 DEF Accounted, TypeOK
  <2>4. CASE Restart
    BY <1>3, <2>4 DEF Restart, Accounted
  <2> QED
    BY <2>1, <2>2, <2>3, <2>4
    DEF Next, HandlerStep, ClientStep, Tick, vars, storeVars, Open, Stall, Drop, Close,
        SubscribeReject, SubscribeAccept, Register, DrainFails, SubscribeAck, SendBacklog,
        Publish, RefusePublish, EnqueueFails, Fanout, PublishAck
<1>4. ASSUME NEW s \in Session, e \in backlog[s] PROVE Accounted(e)'
  <2>1. CASE backlog' = backlog
    BY <1>4, <2>1 DEF Accounted
  <2>2. ASSUME NEW t \in Session, Drain(t) PROVE Accounted(e)'
    <3>1. t # s
      BY <1>4, <2>2 DEF Drain, ControlInv
    <3> QED
      BY <1>4, <2>2, <3>1 DEF Drain, Accounted, TypeOK
  <2>3. ASSUME NEW t \in Session, SendBacklog(t) PROVE Accounted(e)'
    <3>1. BacklogHead(t) \in backlog[t] /\ BacklogHead(t) \in Envelope
      BY <2>3, HeadInBacklog DEF SendBacklog, ControlInv, TypeOK
    <3>2. CASE t = s /\ e = BacklogHead(s)
      <4>1. CASE conn[s] = "open"
        <5>1. Delivered(s, e)'
          BY <2>3, <3>1, <3>2, <4>1, EnvelopeWrite DEF SendBacklog, sendEnvelope
        <5> QED
          BY <5>1 DEF Accounted
      <4>2. CASE conn[s] # "open"
        BY <2>3, <3>2, <4>2 DEF SendBacklog, sendEnvelope, Accounted
      <4> QED
        BY <4>1, <4>2
    <3>3. CASE ~(t = s /\ e = BacklogHead(s))
      <4>1. backlog'[s] = IF t = s THEN backlog[s] \ {BacklogHead(s)} ELSE backlog[s]
        BY <2>3 DEF SendBacklog, TypeOK
      <4>2. e \in backlog'[s]
        BY <1>4, <3>3, <4>1
      <4> QED
        BY <4>2 DEF Accounted
    <3> QED
      BY <3>2, <3>3
  <2>4. CASE Restart
    <3>1. e \in lost'
      BY <1>4, <2>4 DEF Restart, InHandlers
    <3> QED
      BY <3>1 DEF Accounted
  <2> QED
    BY <2>1, <2>2, <2>3, <2>4
    DEF Next, HandlerStep, ClientStep, Tick, vars, Open, Stall, Drop, Close, SubscribeReject,
        SubscribeAccept, Register, DrainFails, SubscribeAck, Publish, RefusePublish,
        Enqueue, EnqueueFails, Fanout, PublishAck
<1> QED
  BY <1>2, <1>3, <1>4 DEF Accounted

\* publish returns to its handler only when the envelope is accounted for.
LEMMA RepliesStep ==
    ASSUME AccountInv, [Next]_vars
    PROVE  RepliesAreAccounted'
<1> USE DEF AccountInv, CustodyInv, GrantInv, TypeInv
<1> SUFFICES ASSUME NEW s \in Session, NEW h, hand'[s] = h, pc'[s] = "reply"
             PROVE Accounted(h)'
  BY DEF RepliesAreAccounted, Accounted, Delivered
<1>1. CASE pc[s] = "reply" /\ hand[s] = h
  <2>1. h \in Envelope /\ outcome[h] # "new" /\ Accounted(h)
    BY <1>1 DEF ControlInv, HeldEnvelopes, RepliesAreAccounted, TypeOK
  <2> QED
    BY <2>1, AccountedStays
<1>2. CASE Enqueue(s)
  <2>1. hand[s] \in Envelope /\ h = hand[s]
    BY <1>2 DEF Enqueue, publishVars, ControlInv, TypeOK
  <2>2. h \in queue'[Recipient[h]]
    BY <1>2, <2>1, ConstantsAssumption DEF Enqueue, TypeOK
  <2> QED
    BY <2>2 DEF Accounted
<1>3. ASSUME NEW t \in Session, Fanout(s, t) PROVE Accounted(h)'
  <2>1. hand[s] \in Envelope /\ h = hand[s]
    BY <1>3 DEF Fanout, ControlInv, TypeOK
  <2>2. CASE conn[t] = "open"
    <3>1. Delivered(t, h)'
      BY <1>3, <2>1, <2>2, EnvelopeWrite DEF Fanout, sendEnvelope
    <3> QED
      BY <3>1 DEF Accounted
  <2>3. CASE conn[t] # "open"
    BY <1>3, <2>1, <2>3 DEF Fanout, sendEnvelope, Accounted
  <2> QED
    BY <2>2, <2>3
<1>4. \/ pc[s] = "reply" /\ hand[s] = h
      \/ Enqueue(s)
      \/ \E t \in Session : Fanout(s, t)
  <2>1. ASSUME NEW t \in Session, t # s, HandlerStep(t) \/ ClientStep(t)
        PROVE pc'[s] = pc[s] /\ hand'[s] = hand[s]
    BY <2>1
    DEF HandlerStep, ClientStep, clientVars, publishVars, Goto, Open, Stall, Drop, Close,
        SubscribeReject, SubscribeAccept, Register, Drain, DrainFails, SubscribeAck,
        SendBacklog, Publish, RefusePublish, Enqueue, EnqueueFails, Fanout, PublishAck,
        TypeOK
  <2>2. ASSUME HandlerStep(s) \/ ClientStep(s), ~Stall(s), ~Drop(s), ~Enqueue(s),
               \A t \in Session : ~Fanout(s, t)
        PROVE pc'[s] # "reply"
    BY <2>2
    DEF HandlerStep, ClientStep, Goto, Open, Close, SubscribeReject, SubscribeAccept,
        Register, Drain, DrainFails, SubscribeAck, SendBacklog, Publish, RefusePublish,
        EnqueueFails, PublishAck, Reading, TypeOK
  <2>3. Stall(s) \/ Drop(s) \/ Tick \/ UNCHANGED vars => pc' = pc /\ hand' = hand
    BY DEF Stall, Drop, Tick, vars, publishVars
  <2>4. Restart => pc'[s] # "reply"
    BY DEF Restart
  <2> QED
    BY <2>1, <2>2, <2>3, <2>4 DEF Next
<1> QED
  BY <1>1, <1>2, <1>3, <1>4

\* A step that acks a publish, or follows one, leaves the envelope accounted for.
LEMMA AckedStep ==
    ASSUME AccountInv, [Next]_vars
    PROVE  AckedIsAccountedFor'
<1> USE DEF AccountInv, CustodyInv, GrantInv, TypeInv
<1> SUFFICES ASSUME NEW e \in Envelope, outcome'[e] = "acked" PROVE Accounted(e)'
  BY DEF AckedIsAccountedFor, Accounted
<1>1. CASE outcome[e] = "acked"
  BY <1>1, AccountedStays DEF AckedIsAccountedFor, Accounted
<1>2. ASSUME NEW s \in Session, PublishAck(s), hand[s] = e PROVE Accounted(e)'
  <2>1. outcome[e] # "new" /\ Accounted(e)
    BY <1>2, ConstantsAssumption DEF PublishAck, HeldEnvelopes, RepliesAreAccounted
  <2> QED
    BY <2>1, AccountedStays
<1>3. outcome[e] = "acked" \/ \E s \in Session : PublishAck(s) /\ hand[s] = e
  <2>1. CASE outcome' = outcome
    BY <2>1
  <2>2. ASSUME NEW s \in Session, PublishAck(s) PROVE outcome[e] = "acked" \/ hand[s] = e
    BY <2>2 DEF PublishAck, TypeOK
  <2>3. ASSUME NEW s \in Session, EnqueueFails(s) PROVE outcome[e] = "acked"
    BY <2>3 DEF EnqueueFails, TypeOK
  <2>4. ASSUME NEW s \in Session, NEW f \in Envelope, Publish(s, f) \/ RefusePublish(s, f)
        PROVE outcome[e] = "acked"
    BY <2>4 DEF Publish, RefusePublish, TypeOK
  <2>5. CASE Restart
    BY <2>5 DEF Restart, TypeOK
  <2> QED
    BY <2>1, <2>2, <2>3, <2>4, <2>5, PublishersRecord
<1> QED
  BY <1>1, <1>2, <1>3

\* An acked envelope is stored, drained by a handler that is still writing,
\* written to a live connection, expired, or it died with a connection or
\* with the process.
THEOREM AckedIsAccountedForCorrect == Spec => []AckedIsAccountedFor
<1>1. Init => RepliesAreAccounted /\ AckedIsAccountedFor
  BY DEF Init, RepliesAreAccounted, AckedIsAccountedFor
<1>2. CustodyInv /\ RepliesAreAccounted /\ AckedIsAccountedFor /\ [Next]_vars
        => RepliesAreAccounted' /\ AckedIsAccountedFor'
  BY RepliesStep, AckedStep DEF AccountInv
<1> QED
  BY <1>1, <1>2, CustodyInvariant, PTL DEF Spec

-----------------------------------------------------------------------------
(***************************************************************************)
(* RelayServer implements RelayCustody, and delivers what it stored in the *)
(* order it was stored.  The custody invariant says where an envelope can   *)
(* be; what is added here is that an envelope the relay refused is in no   *)
(* store, what a step does to the stage of one envelope, and how the       *)
(* places in the store, the backlogs and the deliveries are ordered.       *)
(***************************************************************************)

(***************************************************************************)
(* What is refused is not stored.                                          *)
(***************************************************************************)
RefusedUnstored == \A e \in Envelope : outcome[e] = "refused" => Unstored(e)

StageInv == CustodyInv /\ RefusedUnstored

\* The publisher's view of an envelope the relay has taken: it is refused
\* later only by the Enqueue of the handler that holds it.
LEMMA OutcomeStep ==
    ASSUME CustodyInv, [Next]_vars, NEW e \in Envelope, outcome[e] # "new"
    PROVE  /\ outcome'[e] # "new"
           /\ outcome[e] = "refused" => outcome'[e] = "refused"
           /\ outcome'[e] = "refused" =>
                \/ outcome[e] = "refused"
                \/ \E s \in Session : EnqueueFails(s) /\ hand[s] = e
<1> USE DEF CustodyInv, GrantInv, TypeInv
<1>1. CASE outcome' = outcome
  BY <1>1
<1>2. ASSUME NEW s \in Session, PublishAck(s)
      PROVE  outcome'[e] \in {outcome[e], "acked"} /\ (hand[s] = e => outcome[e] = "held")
                /\ (hand[s] # e => outcome'[e] = outcome[e])
  <2>1. hand[s] # NoEnvelope /\ outcome[hand[s]] = "held"
    BY <1>2 DEF PublishAck, ControlInv, HeldEnvelopes
  <2> QED
    BY <1>2, <2>1 DEF PublishAck, TypeOK
<1>3. ASSUME NEW s \in Session, EnqueueFails(s)
      PROVE  IF hand[s] = e THEN outcome'[e] = "refused" ELSE outcome'[e] = outcome[e]
  BY <1>3 DEF EnqueueFails, TypeOK
<1>4. ASSUME NEW s \in Session, NEW f \in Envelope, Publish(s, f) \/ RefusePublish(s, f)
      PROVE  outcome'[e] = outcome[e]
  BY <1>4 DEF Publish, RefusePublish, TypeOK
<1>5. CASE Restart
  BY <1>5 DEF Restart, TypeOK
<1> QED
  BY <1>1, <1>2, <1>3, <1>4, <1>5, PublishersRecord

\* What a handler is about to store or send it was holding before the step,
\* or a client has just published it.
LEMMA HandlingStep ==
    ASSUME CustodyInv, [Next]_vars, NEW e \in Envelope, outcome[e] # "new",
           NEW s \in Session, hand'[s] = e, pc'[s] \in {"enqueue", "fanout"}
    PROVE  hand[s] = e /\ pc[s] = pc'[s]
<1> USE DEF CustodyInv, GrantInv, TypeInv
<1>1. e # NoEnvelope
  BY ConstantsAssumption
<1>2. hand[s] = e
  BY <1>1, HeldFromClient DEF Publish
<1> QED
  BY <1>1, <1>2, HandlerKeeps

\* An envelope that is in no store and in no publisher's hand before Enqueue
\* stays out of every store.
LEMMA UnstoredStays ==
    ASSUME CustodyInv, [Next]_vars, NEW e \in Envelope, Unstored(e),
           \A s \in Session : pc[s] = "enqueue" => hand[s] # e
    PROVE  Unstored(e)'
<1> USE DEF CustodyInv, GrantInv, TypeInv
<1>1. \A m \in Mailbox : e \notin queue'[m]
  BY EnqueuedFromHand DEF Unstored, Enqueue
<1>2. \A s \in Session : e \notin backlog'[s]
  BY DrainedFromQueue DEF Unstored, Drain, ControlInv
<1> QED
  BY <1>1, <1>2 DEF Unstored

\* A refused envelope stays out of every store.
LEMMA RefusedStep ==
    ASSUME StageInv, [Next]_vars
    PROVE  RefusedUnstored'
<1> USE DEF StageInv, CustodyInv, GrantInv, TypeInv
<1> SUFFICES ASSUME NEW e \in Envelope, outcome'[e] = "refused" PROVE Unstored(e)'
  BY DEF RefusedUnstored
<1>1. CASE outcome[e] = "new"
  BY <1>1, UnstoredStays DEF NewEnvelopes, HeldEnvelopes, ControlInv
<1>2. CASE outcome[e] = "refused"
  BY <1>2, UnstoredStays DEF RefusedUnstored, HeldEnvelopes, ControlInv
<1>3. ASSUME NEW s \in Session, EnqueueFails(s), hand[s] = e PROVE Unstored(e)'
  <2>1. Unstored(e)
    BY <1>3 DEF EnqueueFails, HeldEnvelopes, ControlInv
  <2>2. UNCHANGED <<queue, backlog>>
    BY <1>3 DEF EnqueueFails, storeVars
  <2> QED
    BY <2>1, <2>2 DEF Unstored
<1> QED
  BY <1>1, <1>2, <1>3, OutcomeStep

\* The custody invariant, and no refused envelope in a store.
LEMMA StageInvariant == Spec => []StageInv
<1>1. Init => RefusedUnstored
  BY DEF Init, RefusedUnstored, Unstored
<1>2. CustodyInv /\ RefusedUnstored /\ [Next]_vars => RefusedUnstored'
  BY RefusedStep DEF StageInv
<1> QED
  BY <1>1, <1>2, CustodyInvariant, PTL DEF Spec, StageInv


-----------------------------------------------------------------------------
(***************************************************************************)
(* What a step does to the stage and the receivers of one envelope.        *)
(***************************************************************************)
SameReceivers(e) == Receivers(e)' = Receivers(e)

\* A write happens only from a backlog or from the hand of a handler that
\* passes the envelope on.
LEMMA NotWritten ==
    ASSUME CustodyInv, [Next]_vars, NEW e \in Envelope,
           \A s \in Session : e \notin backlog[s], ~Handling(e, "fanout")
    PROVE  SameReceivers(e)
<1> USE DEF CustodyInv, GrantInv, TypeInv
<1>1. \A t \in Session : Delivered(t, e)' => Delivered(t, e)
  BY DeliveredFromBacklogOrHand DEF Handling, Fanout
<1>2. \A t \in Session : Delivered(t, e) => Delivered(t, e)'
  BY RecordsStay
<1> QED
  BY <1>1, <1>2 DEF SameReceivers, Receivers

\* With the client: the relay takes the envelope or refuses it.
LEMMA ClientStage ==
    ASSUME StageInv, [Next]_vars, NEW e \in Envelope, StageOf(e) = "client"
    PROVE  /\ StageOf(e)' \in {"client", "handler", "fanout", "refused"}
           /\ SameReceivers(e)
<1> USE DEF StageInv, CustodyInv, GrantInv, TypeInv
<1>1. outcome[e] = "new" /\ Unstored(e) /\ ~Handling(e, "fanout") /\ ~Handling(e, "enqueue")
  BY DEF StageOf, NewEnvelopes, HeldEnvelopes, Handling, ControlInv
<1>2. SameReceivers(e)
  BY <1>1, NotWritten DEF Unstored
<1>3. CASE outcome'[e] \in {"new", "refused"}
  BY <1>2, <1>3 DEF StageOf
<1>4. ASSUME NEW s \in Session, Publish(s, e) PROVE StageOf(e)' \in {"handler", "fanout"}
  <2>1. outcome'[e] = "held" /\ UNCHANGED <<queue, backlog>>
    BY <1>4 DEF Publish, storeVars, TypeOK
  <2>2. hand'[s] = e /\ pc'[s] \in {"enqueue", "fanout"}
    BY <1>4 DEF Publish, Goto, TypeOK
  <2>3. Unstored(e)'
    BY <1>1, <2>1 DEF Unstored
  <2>4. Recipient[e] \in Mailbox
    BY ConstantsAssumption
  <2>5. Handling(e, "enqueue")' \/ Handling(e, "fanout")'
    BY <2>2 DEF Handling
  <2> QED
    BY <2>1, <2>3, <2>4, <2>5 DEF StageOf, Unstored
<1>5. ASSUME NEW s \in Session, PublishAck(s) \/ EnqueueFails(s) PROVE outcome'[e] = "new"
  BY <1>1, <1>5 DEF PublishAck, EnqueueFails, HeldEnvelopes, ControlInv, TypeOK
<1>6. ASSUME NEW s \in Session, NEW f \in Envelope, f # e, Publish(s, f)
      PROVE outcome'[e] = "new"
  BY <1>1, <1>6 DEF Publish, TypeOK
<1>7. ASSUME NEW s \in Session, NEW f \in Envelope, RefusePublish(s, f)
      PROVE outcome'[e] \in {"new", "refused"}
  BY <1>1, <1>7 DEF RefusePublish, TypeOK
<1>8. CASE Restart
  BY <1>1, <1>3, <1>8 DEF Restart, TypeOK
<1>9. CASE outcome' = outcome
  BY <1>1, <1>3, <1>9
<1> QED
  BY <1>2, <1>3, <1>4, <1>5, <1>6, <1>7, <1>8, <1>9, PublishersRecord

\* Stored: a subscriber drains it, or it leaves the store past its deadline
\* (a store in memory also forgets it in a restart).
LEMMA StoredStage ==
    ASSUME StageInv, [Next]_vars, NEW e \in Envelope, StageOf(e) = "stored"
    PROVE  /\ StageOf(e)' \in {"stored", "leaving", "settled"}
           /\ StageOf(e)' = "settled" /\ Durable => expiresAt[e] <= now
           /\ SameReceivers(e)
<1> USE DEF StageInv, CustodyInv, GrantInv, TypeInv
<1>1. /\ outcome[e] # "new" /\ outcome[e] # "refused"
      /\ Recipient[e] \in Mailbox /\ e \in queue[Recipient[e]]
  BY ConstantsAssumption DEF StageOf
<1>2. /\ \A s \in Session : e \notin backlog[s]
      /\ \A s \in Session : pc[s] \in {"enqueue", "fanout"} => hand[s] # e
  BY <1>1, ConstantsAssumption DEF StoredEnvelopes, HeldEnvelopes, Unstored
<1>3. SameReceivers(e)
  BY <1>2, NotWritten DEF Handling
<1>4. outcome'[e] # "new" /\ outcome'[e] # "refused"
  BY <1>1, <1>2, OutcomeStep DEF EnqueueFails
<1>5. ~Handling(e, "enqueue")' /\ ~Handling(e, "fanout")'
  BY <1>1, <1>2, HandlingStep DEF Handling
<1>6. StageOf(e)' \in {"stored", "leaving", "settled"}
  BY <1>4, <1>5 DEF StageOf
<1>7. ASSUME StageOf(e)' = "settled", Durable PROVE expiresAt[e] <= now
  <2>1. e \notin queue'[Recipient[e]] /\ \A s \in Session : e \notin backlog'[s]
    BY <1>4, <1>7, Zenon DEF StageOf
  <2>2. expiresAt[e] \in Nat /\ now \in Nat
    BY DEF TypeOK
  <2>3. ASSUME NEW s \in Session, Drain(s) PROVE expiresAt[e] <= now
    BY <1>1, <2>1, <2>2, <2>3 DEF Drain, FilterExpired, TypeOK
  <2>4. ASSUME NEW s \in Session, Enqueue(s) PROVE expiresAt[e] <= now
    <3>1. queue' = [queue EXCEPT ![Recipient[hand[s]]] =
                      FilterExpired(queue[Recipient[hand[s]]]) \union {hand[s]}]
      BY <2>4 DEF Enqueue
    <3> QED
      BY <1>1, <2>1, <2>2, <3>1 DEF FilterExpired, TypeOK
  <2>5. ~Restart
    BY <1>1, <1>7, <2>1 DEF Restart
  <2>6. queue' # queue
    BY <1>1, <2>1
  <2> QED
    BY <2>3, <2>4, <2>5, <2>6, ZenonT(60)
    DEF Next, HandlerStep, ClientStep, Tick, vars, storeVars, Open, Stall, Drop, Close,
        SubscribeReject, SubscribeAccept, Register, DrainFails, SubscribeAck, SendBacklog,
        Publish, RefusePublish, EnqueueFails, Fanout, PublishAck
<1> QED
  BY <1>3, <1>6, <1>7


\* Drained: the one session that holds the envelope writes it, or drops it.
LEMMA LeavingStage ==
    ASSUME StageInv, [Next]_vars, NEW e \in Envelope, StageOf(e) = "leaving"
    PROVE  \/ StageOf(e)' = "leaving" /\ SameReceivers(e)
           \/ /\ StageOf(e)' = "settled"
              /\ SameReceivers(e) \/ \E s \in Session \ Receivers(e) :
                                       Receivers(e)' = Receivers(e) \union {s}
<1> USE DEF StageInv, CustodyInv, GrantInv, TypeInv
<1>1. /\ outcome[e] # "new" /\ outcome[e] # "refused"
      /\ \E s \in Session : e \in backlog[s]
  BY DEF StageOf
<1>2. PICK s \in Session : e \in backlog[s]
  BY <1>1
<1>3. /\ Unsent(e) /\ \A t \in Session : e \in backlog[t] => t = s
      /\ \A t \in Session : pc[t] \in {"enqueue", "fanout"} => hand[t] # e
  BY <1>2, ConstantsAssumption DEF DrainedEnvelopes, HeldEnvelopes, Unstored
<1>4. /\ outcome'[e] # "new" /\ outcome'[e] # "refused"
      /\ ~Handling(e, "enqueue")' /\ ~Handling(e, "fanout")'
  BY <1>1, <1>3, OutcomeStep, HandlingStep DEF EnqueueFails, Handling
<1>5. Recipient[e] \in Mailbox /\ e \notin queue'[Recipient[e]]
  <2>1. Recipient[e] \in Mailbox /\ e \notin queue[Recipient[e]]
    BY <1>2, ConstantsAssumption DEF StoredEnvelopes
  <2> QED
    BY <1>3, <2>1, EnqueuedFromHand DEF Enqueue
<1>6. Receivers(e) = {} /\ Receivers(e)' \subseteq {s}
  <2>1. \A t \in Session : Delivered(t, e)' => t = s
    BY <1>3, DeliveredFromBacklogOrHand DEF Unsent, Fanout
  <2> QED
    BY <1>3, <2>1 DEF Receivers, Unsent
<1>7. CASE \E t \in Session : e \in backlog'[t]
  <2>1. StageOf(e)' = "leaving"
    BY <1>4, <1>5, <1>7 DEF StageOf
  <2>2. Unsent(e)'
    BY <1>7, DrainedStep DEF DrainedEnvelopes, Unsent
  <2> QED
    BY <1>6, <2>1, <2>2 DEF SameReceivers, Receivers, Unsent
<1>8. CASE ~ \E t \in Session : e \in backlog'[t]
  <2>1. StageOf(e)' = "settled"
    BY <1>4, <1>5, <1>8 DEF StageOf
  <2> QED
    BY <1>6, <2>1 DEF SameReceivers
<1> QED
  BY <1>7, <1>8

\* In the hand of a handler whose recipient has no subscriber: the envelope
\* is stored, refused, or dies with the process.
LEMMA HandlerStage ==
    ASSUME StageInv, [Next]_vars, NEW e \in Envelope, StageOf(e) = "handler"
    PROVE  /\ StageOf(e)' \in {"handler", "stored", "refused", "settled"}
           /\ SameReceivers(e)
<1> USE DEF StageInv, CustodyInv, GrantInv, TypeInv
<1>1. outcome[e] # "new" /\ \E s \in Session : hand[s] = e /\ pc[s] = "enqueue"
  BY DEF StageOf, Handling
<1>2. PICK s \in Session : hand[s] = e /\ pc[s] = "enqueue"
  BY <1>1
<1>3. Unstored(e) /\ \A t \in Session : hand[t] = e => t = s
  BY <1>2, ConstantsAssumption DEF HeldEnvelopes
<1>4. SameReceivers(e)
  BY <1>2, <1>3, NotWritten DEF Unstored, Handling
<1>5. outcome'[e] # "new" /\ ~Handling(e, "fanout")'
  BY <1>1, <1>2, <1>3, OutcomeStep, HandlingStep DEF Handling
<1>6. \A t \in Session : e \notin backlog'[t]
  BY <1>3, DrainedFromQueue DEF Unstored, Drain, ControlInv
<1> QED
  BY <1>4, <1>5, <1>6 DEF StageOf

\* In the hand of a handler that passes the envelope to its snapshot of
\* subscribers: one more of them gets it, or the handler is through.
LEMMA FanoutStage ==
    ASSUME StageInv, [Next]_vars, NEW e \in Envelope, StageOf(e) = "fanout"
    PROVE  /\ StageOf(e)' \in {"fanout", "settled"}
           /\ SameReceivers(e) \/ \E s \in Session \ Receivers(e) :
                                    Receivers(e)' = Receivers(e) \union {s}
<1> USE DEF StageInv, CustodyInv, GrantInv, TypeInv
<1>1. /\ outcome[e] # "new" /\ outcome[e] # "refused"
      /\ \E s \in Session : hand[s] = e /\ pc[s] = "fanout"
  BY DEF StageOf, Handling
<1>2. PICK s \in Session : hand[s] = e /\ pc[s] = "fanout"
  BY <1>1
<1>3. Unstored(e) /\ \A t \in Session : hand[t] = e => t = s
  BY <1>2, ConstantsAssumption DEF HeldEnvelopes
<1>4. StageOf(e)' \in {"fanout", "settled"}
  <2>1. outcome'[e] # "new" /\ outcome'[e] # "refused" /\ ~Handling(e, "enqueue")'
    BY <1>1, <1>2, <1>3, OutcomeStep, HandlingStep DEF EnqueueFails, Handling
  <2>2. Unstored(e)' /\ Recipient[e] \in Mailbox
    BY <1>2, <1>3, UnstoredStays, ConstantsAssumption
  <2> QED
    BY <2>1, <2>2 DEF StageOf, Unstored
<1>5. \A t \in Session : Delivered(t, e) => Delivered(t, e)'
  BY RecordsStay
<1>6. \A t \in Session : Delivered(t, e)' => Delivered(t, e) \/ Fanout(s, t)
  BY <1>3, DeliveredFromBacklogOrHand DEF Unstored
<1>7. \A t, u \in Session : Fanout(s, t) /\ Fanout(s, u) => t = u
  BY DEF Fanout, TypeOK
<1>8. CASE \A t \in Session : Delivered(t, e)' => Delivered(t, e)
  BY <1>4, <1>5, <1>8 DEF SameReceivers, Receivers
<1>9. ASSUME NEW t \in Session, Delivered(t, e)', ~Delivered(t, e)
      PROVE t \in Session \ Receivers(e) /\ Receivers(e)' = Receivers(e) \union {t}
  BY <1>5, <1>6, <1>7, <1>9 DEF Receivers
<1> QED
  BY <1>4, <1>8, <1>9

\* Refused and settled are final, and nobody gets the envelope any more.
LEMMA FinalStage ==
    ASSUME StageInv, [Next]_vars, NEW e \in Envelope, StageOf(e) \in {"refused", "settled"}
    PROVE  StageOf(e)' = StageOf(e) /\ SameReceivers(e)
<1> USE DEF StageInv, CustodyInv, GrantInv, TypeInv
<1>1. CASE outcome[e] = "refused"
  <2>1. outcome'[e] = "refused" /\ ~Handling(e, "fanout")
    BY <1>1, OutcomeStep, ConstantsAssumption DEF Handling, HeldEnvelopes
  <2>2. SameReceivers(e)
    BY <1>1, <2>1, NotWritten DEF RefusedUnstored, Unstored
  <2> QED
    BY <1>1, <2>1, <2>2 DEF StageOf
<1>2. CASE outcome[e] # "refused"
  <2>1. /\ outcome[e] # "new" /\ StageOf(e) = "settled"
        /\ e \notin queue[Recipient[e]] /\ ~ \E s \in Session : e \in backlog[s]
        /\ ~Handling(e, "enqueue") /\ ~Handling(e, "fanout")
    BY <1>2, Zenon DEF StageOf
  <2>2. Unstored(e)
    BY <2>1 DEF QueuesFiled, Unstored
  <2>3. Unstored(e)' /\ SameReceivers(e) /\ Recipient[e] \in Mailbox
    BY <2>1, <2>2, UnstoredStays, NotWritten, ConstantsAssumption DEF Handling, Unstored
  <2>4. /\ outcome'[e] # "new" /\ outcome'[e] # "refused"
        /\ ~Handling(e, "enqueue")' /\ ~Handling(e, "fanout")'
    BY <1>2, <2>1, OutcomeStep, HandlingStep DEF EnqueueFails, Handling
  <2> QED
    BY <2>1, <2>3, <2>4 DEF StageOf, Unstored
<1> QED
  BY <1>1, <1>2

\* The clock never runs back, and a deadline is set once, by Publish.
LEMMA TimeStep ==
    ASSUME StageInv, [Next]_vars
    PROVE  /\ now' >= now
           /\ \A e \in Envelope : expiresAt'[e] = expiresAt[e] \/ StageOf(e) = "client"
<1> USE DEF StageInv, CustodyInv, GrantInv, TypeInv
<1>1. now' = now \/ now' = now + 1
  BY ZenonT(60)
  DEF Next, HandlerStep, ClientStep, Tick, Restart, vars, Open, Stall, Drop, Close,
      SubscribeReject, SubscribeAccept, Register, Drain, DrainFails, SubscribeAck,
      SendBacklog, Publish, RefusePublish, Enqueue, EnqueueFails, Fanout, PublishAck
<1>2. now \in Nat
  BY DEF TypeOK
<1>3. ASSUME NEW s \in Session, NEW f \in Envelope, Publish(s, f), NEW e \in Envelope
      PROVE expiresAt'[e] = expiresAt[e] \/ StageOf(e) = "client"
  BY <1>3 DEF Publish, StageOf, TypeOK
<1>4. /\ \A s \in Session : PublishAck(s) \/ EnqueueFails(s) => expiresAt' = expiresAt
      /\ \A s \in Session, f \in Envelope : RefusePublish(s, f) => expiresAt' = expiresAt
      /\ Restart => expiresAt' = expiresAt
  BY DEF PublishAck, EnqueueFails, RefusePublish, Restart
<1> QED
  BY <1>1, <1>2, <1>3, <1>4, PublishersRecord

-----------------------------------------------------------------------------
(***************************************************************************)
(* The refinement.                                                         *)
(***************************************************************************)

\* A step of the relay is a step of RelayCustody, or leaves what it sees.
LEMMA CustodyStep == StageInv /\ [Next]_vars => [Custody!Next]_(Custody!vars)
<1> SUFFICES ASSUME StageInv, [Next]_vars PROVE Custody!Next
  OBVIOUS
<1>1. now' >= now
  BY TimeStep
<1>2. ASSUME NEW e \in Envelope
      PROVE  \/ Custody!Take(e) \/ Custody!Store(e) \/ Custody!Pass(e)
             \/ Custody!Release(e) \/ Custody!HandOver(e) \/ Custody!Rest(e)
  <2> USE DEF Custody!Moves, Custody!SameReceivers, Custody!AtMostOneMore, SameReceivers
  <2>1. CASE StageOf(e) = "client"
    BY <2>1, ClientStage DEF Custody!Take, Custody!Rest
  <2>2. CASE StageOf(e) = "handler"
    BY <2>2, HandlerStage DEF Custody!Store, Custody!Rest
  <2>3. CASE StageOf(e) = "fanout"
    BY <2>3, FanoutStage DEF Custody!Pass
  <2>4. CASE StageOf(e) = "stored"
    BY <2>4, StoredStage DEF Custody!Release, Custody!Rest
  <2>5. CASE StageOf(e) = "leaving"
    BY <2>5, LeavingStage DEF Custody!HandOver, Custody!Rest
  <2>6. CASE StageOf(e) \in {"refused", "settled"}
    BY <2>6, FinalStage DEF Custody!Rest
  <2> QED
    BY <2>1, <2>2, <2>3, <2>4, <2>5, <2>6 DEF StageOf
<1>3. ASSUME NEW e \in Envelope PROVE Custody!DeadlineKept(e)
  BY TimeStep DEF Custody!DeadlineKept
<1> QED
  BY <1>1, <1>2, <1>3 DEF Custody!Next

\* The relay keeps the promise of RelayCustody: what is stored has no
\* receiver, what is drained goes to one connection at most, a durable store
\* lets go only to a subscriber or past the deadline, what is settled stays so.
THEOREM KeepsCustodyCorrect == Spec => KeepsCustody
<1>1. Init => Custody!Init
  BY DEF Init, Custody!Init, StageOf, Receivers, Delivered
<1> QED
  BY <1>1, StageInvariant, CustodyStep, PTL DEF Spec, KeepsCustody, Custody!Spec


-----------------------------------------------------------------------------
(***************************************************************************)
(* Stored order.  A Drain takes all that a mailbox has stored, so whatever *)
(* has left the store was appended before all that is in it, and what a    *)
(* session still has to write before all it has written.                   *)
(***************************************************************************)
Positions ==
    /\ \A e \in Envelope : pos[e] <= appended
    /\ \A e, f \in Envelope : pos[e] > 0 /\ pos[e] = pos[f] => e = f
    /\ \A e \in Envelope : pos[e] > 0 =>
         /\ outcome[e] # "new"
         /\ \A s \in Session : hand[s] = e => pc[s] \notin {"enqueue", "fanout"}

StoreIsNewest ==
    \A s \in Session, e \in Envelope : \A f \in queue[Recipient[e]] :
        (e \in backlog[s] \/ Delivered(s, e)) /\ pos[e] > 0 => pos[e] < pos[f]

BacklogIsNewer ==
    \A s \in Session, g \in Envelope : \A e \in backlog[s] :
        Delivered(s, g) /\ pos[g] > 0 /\ Recipient[g] = Recipient[e] => pos[g] < pos[e]

OrderInv ==
    /\ CustodyInv
    /\ Positions /\ StoreIsNewest /\ BacklogIsNewer /\ StoredOrderIsKept

\* The head of a backlog was appended before the rest.
LEMMA HeadIsFirst ==
    ASSUME TypeOK, NEW s \in Session, NEW f \in backlog[s]
    PROVE  pos[BacklogHead(s)] <= pos[f]
<1> DEFINE Places == {pos[e] : e \in backlog[s]}
<1>1. backlog[s] \subseteq Envelope /\ Places \subseteq Nat /\ Places # {}
  BY DEF TypeOK
<1>2. PICK x \in Places : \A y \in Places : x <= y
  BY <1>1, LeastElement
<1>3. \E e \in backlog[s] : \A g \in backlog[s] : pos[e] <= pos[g]
  BY <1>2
<1> QED
  BY <1>3 DEF BacklogHead

\* Only Enqueue appends, and it appends an envelope that nobody has yet.
LEMMA AppendStep ==
    ASSUME OrderInv, [Next]_vars
    PROVE  \/ pos' = pos /\ appended' = appended /\ \A s \in Session : ~Enqueue(s)
           \/ \E s \in Session :
                /\ Enqueue(s) /\ hand[s] \in Envelope /\ pos[hand[s]] = 0
                /\ Unstored(hand[s]) /\ Unsent(hand[s])
                /\ sent' = sent /\ backlog' = backlog /\ outcome' = outcome
                /\ appended' = appended + 1
                /\ pos' = [pos EXCEPT ![hand[s]] = appended + 1]
<1> USE DEF OrderInv, CustodyInv, GrantInv, TypeInv
<1>1. ASSUME NEW s \in Session, Enqueue(s)
      PROVE /\ hand[s] \in Envelope /\ pos[hand[s]] = 0
            /\ Unstored(hand[s]) /\ Unsent(hand[s])
            /\ sent' = sent /\ backlog' = backlog /\ outcome' = outcome
            /\ appended' = appended + 1
            /\ pos' = [pos EXCEPT ![hand[s]] = appended + 1]
  <2>1. pc[s] = "enqueue" /\ hand[s] \in Envelope /\ hand[s] # NoEnvelope
    BY <1>1, ConstantsAssumption DEF Enqueue, ControlInv, TypeOK
  <2>2. pos[hand[s]] = 0
    <3>1. pos[hand[s]] \in Nat
      BY <2>1 DEF TypeOK
    <3>2. ~(pos[hand[s]] > 0)
      BY <2>1 DEF Positions
    <3> QED
      BY <3>1, <3>2
  <2>3. Unstored(hand[s]) /\ Unsent(hand[s])
    BY <2>1 DEF HeldEnvelopes
  <2> QED
    BY <1>1, <2>1, <2>2, <2>3 DEF Enqueue, wireVars, publishVars
<1>2. (\A s \in Session : ~Enqueue(s)) => pos' = pos /\ appended' = appended
  BY ZenonT(60)
  DEF Next, HandlerStep, ClientStep, Tick, Restart, vars, storeVars, Open, Stall, Drop, Close,
      SubscribeReject, SubscribeAccept, Register, Drain, DrainFails, SubscribeAck,
      SendBacklog, Publish, RefusePublish, EnqueueFails, Fanout, PublishAck
<1> QED
  BY <1>1, <1>2

\* What is stored, drained or delivered keeps its place.
LEMMA PlaceKept ==
    ASSUME OrderInv, [Next]_vars, NEW e \in Envelope,
           ~Unstored(e) \/ ~Unsent(e) \/ pos[e] > 0
    PROVE  pos'[e] = pos[e]
<1> USE DEF OrderInv, CustodyInv, GrantInv, TypeInv
<1> QED
  BY AppendStep DEF TypeOK

\* Places are given once, in order, to envelopes that leave their publisher.
LEMMA PositionsStep ==
    ASSUME OrderInv, [Next]_vars
    PROVE  Positions'
<1> USE DEF OrderInv, CustodyInv, GrantInv, TypeInv
<1>1. \A e \in Envelope : pos[e] \in Nat /\ appended \in Nat
  BY DEF TypeOK
<1>2. \A e \in Envelope : outcome[e] # "new" => outcome'[e] # "new"
  BY OutcomeStep
<1>3. \A e \in Envelope : pos[e] > 0 =>
        \A s \in Session : hand'[s] = e => pc'[s] \notin {"enqueue", "fanout"}
  BY HandlingStep DEF Positions
<1>4. CASE pos' = pos /\ appended' = appended
  BY <1>2, <1>3, <1>4 DEF Positions
<1>5. ASSUME NEW s \in Session, Enqueue(s), hand[s] \in Envelope, outcome' = outcome,
             appended' = appended + 1, pos' = [pos EXCEPT ![hand[s]] = appended + 1]
      PROVE Positions'
  <2>1. /\ pos'[hand[s]] = appended + 1
        /\ \A e \in Envelope : e # hand[s] => pos'[e] = pos[e]
    BY <1>5 DEF TypeOK
  <2>2. /\ \A e \in Envelope : pos'[e] <= appended'
        /\ \A e, f \in Envelope : pos'[e] > 0 /\ pos'[e] = pos'[f] => e = f
    BY <1>1, <1>5, <2>1 DEF Positions
  <2>3. /\ outcome[hand[s]] = "held" /\ hand' = hand
        /\ \A t \in Session : hand[t] = hand[s] => t = s
    BY <1>5, ConstantsAssumption DEF Enqueue, publishVars, HeldEnvelopes
  <2>4. pc'[s] = "reply"
    BY <1>5 DEF Enqueue, Goto, TypeOK
  <2>5. \A e \in Envelope : pos'[e] > 0 =>
          /\ outcome'[e] # "new"
          /\ \A t \in Session : hand'[t] = e => pc'[t] \notin {"enqueue", "fanout"}
    BY <1>2, <1>3, <1>5, <2>1, <2>3, <2>4 DEF Positions
  <2> QED
    BY <2>2, <2>5 DEF Positions
<1> QED
  BY <1>4, <1>5, AppendStep

\* What a step delivers and is in a place came out of the receiver's backlog.
LEMMA PlacedFromBacklog ==
    ASSUME OrderInv, [Next]_vars, NEW t \in Session, NEW e \in Envelope,
           Delivered(t, e)', pos'[e] > 0
    PROVE  /\ pos'[e] = pos[e]
           /\ \/ Delivered(t, e)
              \/ SendBacklog(t) /\ e = BacklogHead(t) /\ e \in backlog[t] /\ e \notin backlog'[t]
<1> USE DEF OrderInv, CustodyInv, GrantInv, TypeInv
<1>1. ASSUME NEW s \in Session, Fanout(s, t), e = hand[s] PROVE FALSE
  <2>1. ~(pos[e] > 0)
    BY <1>1 DEF Fanout, Positions
  <2>2. pos' = pos
    BY <1>1 DEF Fanout, storeVars
  <2> QED
    BY <2>1, <2>2
<1>2. \/ Delivered(t, e)
      \/ SendBacklog(t) /\ e = BacklogHead(t) /\ e \in backlog[t] /\ e \notin backlog'[t]
  BY <1>1, DeliveredFromBacklogOrHand
<1>3. ~Unstored(e) \/ ~Unsent(e)
  BY <1>2 DEF Unstored, Unsent
<1> QED
  BY <1>2, <1>3, PlaceKept

\* What has left the store was appended before all that is stored.
LEMMA StoreIsNewestStep ==
    ASSUME OrderInv, [Next]_vars
    PROVE  StoreIsNewest'
<1> USE DEF OrderInv, CustodyInv, GrantInv, TypeInv
<1> SUFFICES ASSUME NEW s \in Session, NEW e \in Envelope, NEW f \in queue'[Recipient[e]],
                    e \in backlog'[s] \/ Delivered(s, e)', pos'[e] > 0
             PROVE pos'[e] < pos'[f]
  BY DEF StoreIsNewest
<1>1. \/ f \in queue[Recipient[e]]
      \/ \E t \in Session : Enqueue(t) /\ f = hand[t]
  BY EnqueuedFromHand, ConstantsAssumption
<1>2. CASE f \in queue[Recipient[e]]
  <2>1. Recipient[e] \in Mailbox /\ f \in Envelope
    BY <1>2, ConstantsAssumption DEF TypeOK
  <2>2. pos'[f] = pos[f]
    BY <1>2, <2>1, PlaceKept DEF Unstored
  <2>3. e \in backlog[s] \/ Delivered(s, e)
    <3>1. CASE Delivered(s, e)'
      BY <3>1, PlacedFromBacklog
    <3>2. ASSUME Drain(s), e \in queue[mailbox[s]] PROVE FALSE
      <4>1. mailbox[s] \in Mailbox /\ mailbox[s] = Recipient[e]
        BY <3>2 DEF Drain, ControlInv, QueuesFiled
      <4>2. queue'[Recipient[e]] = {}
        BY <3>2, <4>1 DEF Drain, TypeOK
      <4> QED
        BY <4>2
    <3> QED
      BY <3>1, <3>2, DrainedFromQueue
  <2>4. pos'[e] = pos[e]
    BY <2>3, PlaceKept DEF Unstored, Unsent
  <2> QED
    BY <1>2, <2>2, <2>3, <2>4 DEF StoreIsNewest
<1>3. ASSUME NEW t \in Session, Enqueue(t), f = hand[t] PROVE pos'[e] < pos'[f]
  <2>1. /\ f \in Envelope /\ Unstored(f) /\ Unsent(f)
        /\ sent' = sent /\ backlog' = backlog
        /\ pos' = [pos EXCEPT ![f] = appended + 1]
    <3>1. PICK u \in Session :
            /\ Enqueue(u) /\ hand[u] \in Envelope /\ pos[hand[u]] = 0
            /\ Unstored(hand[u]) /\ Unsent(hand[u])
            /\ sent' = sent /\ backlog' = backlog
            /\ pos' = [pos EXCEPT ![hand[u]] = appended + 1]
      BY <1>3, AppendStep
    <3>2. f \in Envelope /\ pos' = [pos EXCEPT ![f] = appended + 1]
      BY <1>3 DEF Enqueue, ControlInv, TypeOK
    <3>3. hand[u] = f
      BY <3>1, <3>2 DEF TypeOK
    <3> QED
      BY <3>1, <3>2, <3>3
  <2>2. e # f
    BY <2>1 DEF Unstored, Unsent, Delivered
  <2> QED
    BY <2>1, <2>2 DEF Positions, TypeOK
<1> QED
  BY <1>1, <1>2, <1>3

\* What a session still has to write was appended after what it has written.
LEMMA BacklogIsNewerStep ==
    ASSUME OrderInv, [Next]_vars
    PROVE  BacklogIsNewer'
<1> USE DEF OrderInv, CustodyInv, GrantInv, TypeInv
<1> SUFFICES ASSUME NEW s \in Session, NEW g \in Envelope, NEW e \in backlog'[s],
                    Delivered(s, g)', pos'[g] > 0, Recipient[g] = Recipient[e]
             PROVE pos'[g] < pos'[e]
  BY DEF BacklogIsNewer
<1>1. e \in backlog[s] \/ (Drain(s) /\ e \in queue[mailbox[s]])
  BY DrainedFromQueue
<1>2. /\ pos'[g] = pos[g]
      /\ \/ Delivered(s, g)
         \/ SendBacklog(s) /\ g = BacklogHead(s) /\ g \in backlog[s] /\ g \notin backlog'[s]
  BY PlacedFromBacklog
<1>3. CASE e \in backlog[s]
  <2>1. e \in Envelope /\ pos'[e] = pos[e] /\ pos[e] \in Nat /\ pos[g] \in Nat
    BY <1>3, PlaceKept DEF Unstored, TypeOK
  <2>2. CASE Delivered(s, g)
    BY <1>2, <1>3, <2>1, <2>2 DEF BacklogIsNewer
  <2>3. CASE g = BacklogHead(s) /\ g \notin backlog'[s]
    BY <1>2, <1>3, <2>1, <2>3, HeadIsFirst DEF Positions
  <2> QED
    BY <1>2, <2>2, <2>3
<1>4. CASE Drain(s) /\ e \in queue[mailbox[s]]
  <2>1. mailbox[s] \in Mailbox /\ mailbox[s] = Recipient[e] /\ e \in Envelope
    BY <1>4 DEF Drain, ControlInv, QueuesFiled, TypeOK
  <2>2. pos'[e] = pos[e]
    BY <1>4, <2>1, PlaceKept DEF Unstored
  <2>3. Delivered(s, g)
    BY <1>2, <1>4 DEF Drain, SendBacklog
  <2> QED
    BY <1>2, <1>4, <2>1, <2>2, <2>3 DEF StoreIsNewest
<1> QED
  BY <1>1, <1>3, <1>4

\* A message that is no stored envelope, or one appended after those the
\* connection got, keeps the order.
LEMMA AppendKeepsOrder ==
    ASSUME TypeOK, StoredOrderIsKept, pos' = pos, NEW s \in Session, NEW msg \in Message,
           send(s, msg),
           msg.type = "incoming" /\ pos[msg.envelope] > 0 =>
             \A g \in Envelope :
               Delivered(s, g) /\ pos[g] > 0 /\ Recipient[g] = Recipient[msg.envelope]
                 => pos[g] < pos[msg.envelope]
    PROVE  StoredOrderIsKept'
<1>1. sent \in [Session -> Seq(Message)]
  BY DEF TypeOK
<1>2. SUFFICES ASSUME NEW t \in Session, NEW i \in 1..Len(sent'[t]), NEW j \in 1..Len(sent'[t]),
                      i < j,
                      sent'[t][i].type = "incoming", pos[sent'[t][i].envelope] > 0,
                      sent'[t][j].type = "incoming", pos[sent'[t][j].envelope] > 0,
                      Recipient[sent'[t][i].envelope] = Recipient[sent'[t][j].envelope]
               PROVE pos[sent'[t][i].envelope] < pos[sent'[t][j].envelope]
  BY DEF StoredOrderIsKept
<1>3. CASE sent'[t] = sent[t]
  BY <1>2, <1>3 DEF StoredOrderIsKept
<1>4. CASE t = s /\ sent'[t] = Append(sent[t], msg)
  <2>1. \A k \in 1..Len(sent'[t]) :
          \/ k \in 1..Len(sent[t]) /\ sent'[t][k] = sent[t][k]
          \/ k = Len(sent[t]) + 1 /\ sent'[t][k] = msg
    BY <1>1, <1>4
  <2>2. i \in 1..Len(sent[t]) /\ sent'[t][i] = sent[t][i]
    BY <1>1, <1>2, <1>4, <2>1
  <2>3. CASE j \in 1..Len(sent[t]) /\ sent'[t][j] = sent[t][j]
    BY <1>2, <2>2, <2>3 DEF StoredOrderIsKept
  <2>4. CASE sent'[t][j] = msg
    <3>1. sent[s][i] \in Message
      BY <1>1, <1>4, <2>2
    <3>2. sent[s][i].envelope \in Envelope /\ sent[s][i] = IncomingMsg(sent[s][i].envelope)
      BY <1>2, <1>4, <2>2, <3>1 DEF Message, IncomingMsg
    <3>3. Delivered(s, sent[s][i].envelope)
      BY <1>4, <2>2, <3>2 DEF Delivered
    <3> QED
      BY <1>2, <1>4, <2>2, <2>4, <3>2, <3>3
  <2> QED
    BY <2>1, <2>3, <2>4
<1> QED
  BY <1>1, <1>3, <1>4 DEF send

\* Every write keeps the order: acks and live envelopes have no place, and
\* the head of a backlog comes after all that was written.
LEMMA StoredOrderStep ==
    ASSUME OrderInv, [Next]_vars
    PROVE  StoredOrderIsKept'
<1> USE DEF OrderInv, CustodyInv, GrantInv, TypeInv
<1>1. CASE QuietStep
  <2>1. sent' = sent
    BY <1>1, QuietStepsWriteNothing
  <2>2. ASSUME NEW s \in Session, NEW i \in 1..Len(sent[s]), sent[s][i].type = "incoming"
        PROVE pos'[sent[s][i].envelope] = pos[sent[s][i].envelope]
    <3>1. sent[s][i] \in Message
      BY DEF TypeOK
    <3>2. sent[s][i].envelope \in Envelope /\ sent[s][i] = IncomingMsg(sent[s][i].envelope)
      BY <2>2, <3>1 DEF Message, IncomingMsg
    <3>3. ~Unsent(sent[s][i].envelope)
      BY <3>2 DEF Unsent, Delivered
    <3> QED
      BY <3>2, <3>3, PlaceKept
  <2> QED
    BY <2>1, <2>2 DEF StoredOrderIsKept
<1>2. ASSUME NEW s \in Session, SubscribeAck(s) PROVE StoredOrderIsKept'
  <2>1. mailbox[s] \in Mailbox /\ send(s, AckMsg(mailbox[s])) /\ pos' = pos
    BY <1>2 DEF SubscribeAck, ControlInv, storeVars
  <2>2. AckMsg(mailbox[s]) \in Message /\ AckMsg(mailbox[s]).type = "ack"
    BY <2>1, MessageTypes DEF AckMsg
  <2> QED
    BY <2>1, <2>2, AppendKeepsOrder
<1>3. ASSUME NEW s \in Session, SendBacklog(s) PROVE StoredOrderIsKept'
  <2>1. BacklogHead(s) \in backlog[s] /\ BacklogHead(s) \in Envelope
    BY <1>3, HeadInBacklog DEF SendBacklog, ControlInv, TypeOK
  <2>2. send(s, IncomingMsg(BacklogHead(s))) /\ pos' = pos
    BY <1>3 DEF SendBacklog, sendEnvelope, storeVars
  <2>3. /\ IncomingMsg(BacklogHead(s)) \in Message
        /\ IncomingMsg(BacklogHead(s)).envelope = BacklogHead(s)
    BY <2>1, MessageTypes DEF IncomingMsg
  <2>4. \A g \in Envelope :
          Delivered(s, g) /\ pos[g] > 0 /\ Recipient[g] = Recipient[BacklogHead(s)]
            => pos[g] < pos[BacklogHead(s)]
    BY <2>1 DEF BacklogIsNewer
  <2> QED
    BY <2>2, <2>3, <2>4, AppendKeepsOrder
<1>4. ASSUME NEW s \in Session, NEW t \in Session, Fanout(s, t) PROVE StoredOrderIsKept'
  <2>1. hand[s] \in Envelope /\ ~(pos[hand[s]] > 0)
    BY <1>4 DEF Fanout, ControlInv, Positions, TypeOK
  <2>2. send(t, IncomingMsg(hand[s])) /\ pos' = pos
    BY <1>4 DEF Fanout, sendEnvelope, storeVars
  <2>3. IncomingMsg(hand[s]) \in Message /\ IncomingMsg(hand[s]).envelope = hand[s]
    BY <2>1, MessageTypes DEF IncomingMsg
  <2> QED
    BY <2>1, <2>2, <2>3, AppendKeepsOrder
<1> QED
  BY <1>1, <1>2, <1>3, <1>4, NextIsQuietOrWrites

\* What a connection receives out of one mailbox's store arrives in the order
\* it was stored, over all its subscriptions and whatever arrives in between.
THEOREM StoredOrderCorrect == Spec => []StoredOrderIsKept
<1>1. Init => Positions /\ StoreIsNewest /\ BacklogIsNewer /\ StoredOrderIsKept
  BY DEF Init, Positions, StoreIsNewest, BacklogIsNewer, StoredOrderIsKept, Delivered
<1>2. OrderInv /\ [Next]_vars
        => Positions' /\ StoreIsNewest' /\ BacklogIsNewer' /\ StoredOrderIsKept'
  BY PositionsStep, StoreIsNewestStep, BacklogIsNewerStep, StoredOrderStep
<1> QED
  BY <1>1, <1>2, CustodyInvariant, PTL DEF Spec, OrderInv

-----------------------------------------------------------------------------
(***************************************************************************)
(* The limits of a stored queue.                                           *)
(***************************************************************************)

\* The numbers from 1 to n are n.
LEMMA FirstNumbers ==
    ASSUME NEW n \in Nat
    PROVE  IsFiniteSet(1..n) /\ Cardinality(1..n) = n
<1>1. /\ IsFiniteSet(1..n)
      /\ Cardinality(1..n) = IF 1 > n THEN 0 ELSE n - 1 + 1
  <2>1. 1 \in Int /\ n \in Int
    OBVIOUS
  <2> QED
    BY ONLY <2>1, FS_Interval, Zenon
<1>2. 1 > n => n = 0
  OBVIOUS
<1> QED
  BY <1>1, <1>2

\* The bytes of one envelope are as many as its size.
LEMMA BytesOfOne ==
    ASSUME NEW e \in Envelope
    PROVE  /\ IsFiniteSet({e} \X (1..Size[e]))
           /\ Cardinality({e} \X (1..Size[e])) = Size[e]
<1> DEFINE n == Size[e]
           f == [i \in 1..n |-> <<e, i>>]
<1>1. n \in Nat
  BY ConstantsAssumption
<1>2. IsFiniteSet(1..n) /\ Cardinality(1..n) = n
  BY <1>1, FirstNumbers, Zenon
<1>3. f \in Bijection(1..n, {e} \X (1..n))
  BY <1>1 DEF Bijection, Injection, Surjection, IsInjective
<1>4. ExistsBijection(1..n, {e} \X (1..n))
  BY <1>3 DEF ExistsBijection
<1> QED
  BY <1>2, <1>4, FS_Bijection

\* A queue that can be counted can still be counted when one envelope joins
\* it, and has at most the bytes of that envelope more.
LEMMA OneMoreIsCounted ==
    ASSUME NEW q \in SUBSET Envelope, NEW e \in Envelope,
           IsFiniteSet(q), IsFiniteSet(BytesOf(q))
    PROVE  /\ IsFiniteSet(q \union {e}) /\ IsFiniteSet(BytesOf(q \union {e}))
           /\ Cardinality(q \union {e}) <= Cardinality(q) + 1
           /\ TotalBytes(q \union {e}) <= TotalBytes(q) + Size[e]
<1>1. IsFiniteSet(q \union {e}) /\ Cardinality(q \union {e}) <= Cardinality(q) + 1
  <2>1. /\ IsFiniteSet(q \union {e})
        /\ Cardinality(q \union {e}) = IF e \in q THEN Cardinality(q) ELSE Cardinality(q) + 1
    BY FS_AddElement, Zenon
  <2>2. Cardinality(q) \in Nat
    BY FS_CardinalityType, Zenon
  <2> QED
    BY <2>1, <2>2
<1>2. BytesOf(q \union {e}) = BytesOf(q) \union ({e} \X (1..Size[e]))
  BY DEF BytesOf
<1> DEFINE one == {e} \X (1..Size[e])
<1>3. IsFiniteSet(one) /\ Cardinality(one) = Size[e]
  BY BytesOfOne
<1> HIDE DEF one
<1>4. /\ IsFiniteSet(BytesOf(q) \union one)
      /\ Cardinality(BytesOf(q) \union one)
            = Cardinality(BytesOf(q)) + Cardinality(one) - Cardinality(BytesOf(q) \cap one)
  BY <1>3, FS_Union
<1>5. BytesOf(q) \cap one \in SUBSET one
  OBVIOUS
<1>6. Cardinality(BytesOf(q) \cap one) \in Nat
  BY <1>3, <1>5, FS_Subset, FS_CardinalityType
<1>7. Cardinality(BytesOf(q)) \in Nat /\ Cardinality(one) \in Nat
  BY <1>3, FS_CardinalityType
<1>8. Cardinality(BytesOf(q) \union one) <= Cardinality(BytesOf(q)) + Size[e]
  BY <1>3, <1>4, <1>6, <1>7
<1>9. BytesOf(q \union {e}) = BytesOf(q) \union one
  BY <1>2 DEF one
<1> QED
  BY <1>1, <1>4, <1>8, <1>9 DEF TotalBytes

\* What filterExpired leaves of a queue can be counted.
LEMMA FilteredIsCounted ==
    ASSUME NEW q, IsFiniteSet(q), IsFiniteSet(BytesOf(q))
    PROVE  IsFiniteSet(FilterExpired(q)) /\ IsFiniteSet(BytesOf(FilterExpired(q)))
<1>1. FilterExpired(q) \in SUBSET q
  BY DEF FilterExpired
<1>2. BytesOf(FilterExpired(q)) \in SUBSET BytesOf(q)
  BY <1>1 DEF BytesOf
<1> QED
  BY <1>1, <1>2, FS_Subset

QueuesAreCounted ==
    \A m \in Mailbox : IsFiniteSet(queue[m]) /\ IsFiniteSet(BytesOf(queue[m]))

LimitInv == QueuesAreCounted /\ QueueWithinLimits

\* Enqueue is the only step that adds to a queue, and it counts first.
LEMMA LimitStep ==
    ASSUME TypeInv, LimitInv, [Next]_vars
    PROVE  LimitInv'
<1>1. CASE queue' = queue
  BY <1>1 DEF LimitInv, QueuesAreCounted, QueueWithinLimits
<1>2. ASSUME NEW m \in Mailbox, queue'[m] = {}
      PROVE  IsFiniteSet(queue'[m]) /\ IsFiniteSet(BytesOf(queue'[m]))
  <2>1. BytesOf(queue'[m]) = {}
    BY <1>2 DEF BytesOf
  <2> QED
    BY <1>2, <2>1, FS_EmptySet
<1>3. CASE Restart
  <2>1. queue' = queue \/ \A m \in Mailbox : queue'[m] = {}
    BY <1>3 DEF Restart
  <2> QED
    BY <1>1, <1>2, <2>1 DEF LimitInv, QueuesAreCounted, QueueWithinLimits
<1>4. ASSUME NEW s \in Session, Drain(s)
      PROVE  LimitInv'
  <2>1. \A m \in Mailbox : queue'[m] \in {queue[m], {}}
    BY <1>4 DEF Drain, TypeInv, TypeOK
  <2> QED
    BY <1>2, <2>1 DEF LimitInv, QueuesAreCounted, QueueWithinLimits
<1>5. ASSUME NEW s \in Session, Enqueue(s)
      PROVE  LimitInv'
  <2> DEFINE e == hand[s]
             n == Recipient[e]
             q == FilterExpired(queue[n])
  <2>1. e \in Envelope /\ n \in Mailbox /\ q \in SUBSET Envelope
    <3>1. e \in Envelope
      BY <1>5 DEF Enqueue, TypeInv, TypeOK, ControlInv
    <3>2. n \in Mailbox /\ queue[n] \in SUBSET Envelope
      BY <3>1, ConstantsAssumption DEF TypeInv, TypeOK
    <3> QED
      BY <3>1, <3>2 DEF FilterExpired
  <2>2. /\ queue'[n] = q \union {e}
        /\ \A m \in Mailbox \ {n} : queue'[m] = queue[m]
        /\ Cardinality(q) + 1 <= MaxQueuedMessages
        /\ TotalBytes(q) + Size[e] <= MaxQueuedBytes
    BY <1>5, <2>1 DEF Enqueue, WithinLimits, TypeInv, TypeOK
  <2>3. IsFiniteSet(q) /\ IsFiniteSet(BytesOf(q))
    BY <2>1, FilteredIsCounted DEF LimitInv, QueuesAreCounted
  <2> HIDE DEF e, n, q
  <2>4. /\ IsFiniteSet(queue'[n]) /\ IsFiniteSet(BytesOf(queue'[n]))
        /\ Cardinality(queue'[n]) <= Cardinality(q) + 1
        /\ TotalBytes(queue'[n]) <= TotalBytes(q) + Size[e]
    BY <2>1, <2>2, <2>3, OneMoreIsCounted
  <2>5. Cardinality(queue'[n]) \in Nat /\ TotalBytes(queue'[n]) \in Nat
        /\ Cardinality(q) \in Nat /\ TotalBytes(q) \in Nat
        /\ Size[e] \in Nat /\ MaxQueuedMessages \in Nat /\ MaxQueuedBytes \in Nat
    BY <2>1, <2>3, <2>4, FS_CardinalityType, ConstantsAssumption DEF TotalBytes
  <2>6. Cardinality(queue'[n]) <= MaxQueuedMessages /\ TotalBytes(queue'[n]) <= MaxQueuedBytes
    BY <2>2, <2>4, <2>5
  <2> QED
    BY <2>2, <2>4, <2>6 DEF LimitInv, QueuesAreCounted, QueueWithinLimits, TotalBytes, BytesOf
<1> QED
  BY <1>1, <1>3, <1>4, <1>5, SMTT(60)
  DEF Next, HandlerStep, ClientStep, Tick, vars, storeVars, Open, Stall, Drop, Close,
      SubscribeReject, SubscribeAccept, Register, DrainFails, SubscribeAck, SendBacklog,
      Publish, RefusePublish, EnqueueFails, Fanout, PublishAck

\* Enqueue keeps every stored queue within MaxQueuedMessages and
\* MaxQueuedBytes, although handlers race to it after publish's unlock.
THEOREM QueueWithinLimitsCorrect == Spec => []QueueWithinLimits
<1>1. Init => LimitInv
  <2> SUFFICES ASSUME Init PROVE LimitInv
    OBVIOUS
  <2>1. \A m \in Mailbox : queue[m] = {} /\ BytesOf(queue[m]) = {}
    BY DEF Init, BytesOf
  <2> QED
    BY <2>1, FS_EmptySet DEF LimitInv, QueuesAreCounted, QueueWithinLimits
<1>2. LimitInv => QueueWithinLimits
  BY DEF LimitInv
<1> QED
  BY <1>1, <1>2, LimitStep, TypeInvariant, PTL DEF Spec
=============================================================================
