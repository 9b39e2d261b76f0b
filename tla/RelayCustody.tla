---------------------------- MODULE RelayCustody ----------------------------
(***************************************************************************)
(* What the relay promises about each envelope it is handed, whatever its  *)
(* connections and handlers do: who is responsible for it, and which       *)
(* connections have received it.                                           *)
(*                                                                         *)
(*   client  -> handler | fanout | refused                                 *)
(*   handler -> stored | refused | settled                                 *)
(*   fanout  -> fanout | settled, one more receiver at a time              *)
(*   stored  -> leaving | settled                                          *)
(*   leaving -> settled, with at most one receiver                         *)
(*                                                                         *)
(* A durable store lets go of an envelope only to a subscriber or because  *)
(* its time is up; refused and settled are final.                          *)
(***************************************************************************)
EXTENDS Naturals

CONSTANTS Session, Envelope, Durable

VARIABLES now, expiresAt, stage, receivers

vars == <<now, expiresAt, stage, receivers>>

Stages == {"client", "handler", "fanout", "stored", "leaving", "settled", "refused"}

Init ==
    /\ now = 0
    /\ expiresAt = [e \in Envelope |-> 0]
    /\ stage = [e \in Envelope |-> "client"]
    /\ receivers = [e \in Envelope |-> {}]

Moves(e, from, to) == stage[e] = from /\ stage'[e] \in to

SameReceivers(e) == receivers'[e] = receivers[e]
AtMostOneMore(e) == \/ SameReceivers(e)
                    \/ \E s \in Session \ receivers[e] :
                         receivers'[e] = receivers[e] \union {s}

\* The relay takes the envelope and gives it a deadline, or turns it away.
Take(e) ==
    /\ Moves(e, "client", {"handler", "fanout", "refused"})
    /\ SameReceivers(e)

\* Nobody was subscribed: the envelope is stored, refused by a full or
\* failing store, or dies with the process.
Store(e) ==
    /\ Moves(e, "handler", {"stored", "refused", "settled"})
    /\ SameReceivers(e)

\* Subscribers get their copies one by one.
Pass(e) ==
    /\ Moves(e, "fanout", {"fanout", "settled"})
    /\ AtMostOneMore(e)

\* A subscriber drains the envelope, or it is purged after its deadline; a
\* store in memory may also forget it.
Release(e) ==
    /\ Moves(e, "stored", {"leaving", "settled"})
    /\ stage'[e] = "settled" /\ Durable => expiresAt[e] <= now
    /\ SameReceivers(e)

\* The one subscriber that drained it gets it, or its connection is dead.
HandOver(e) ==
    /\ Moves(e, "leaving", {"settled"})
    /\ AtMostOneMore(e)

Rest(e) == stage'[e] = stage[e] /\ SameReceivers(e)

\* The deadline is set once, when the relay takes the envelope.
DeadlineKept(e) == expiresAt'[e] = expiresAt[e] \/ stage[e] = "client"

\* One step of the relay may move several envelopes (a drain, a restart).
Next ==
    /\ now' >= now
    /\ \A e \in Envelope :
         /\ Take(e) \/ Store(e) \/ Pass(e) \/ Release(e) \/ HandOver(e) \/ Rest(e)
         /\ DeadlineKept(e)

Spec == Init /\ [][Next]_vars
=============================================================================
