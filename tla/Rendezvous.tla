----------------------------- MODULE Rendezvous -----------------------------
(***************************************************************************)
(* Swapping invite bundles through a rendezvous slot: the clients'         *)
(* rendezvous.Exchange (internal/rendezvous/exchange.go), the relay's      *)
(* handleRendezvous (internal/relay/http_handlers.go) and the rendezvous   *)
(* half of its stores.                                                     *)
(*                                                                         *)
(* Both sides derive the same slot from a short code, PUT their own bundle *)
(* and poll until they find one of another account.  The PUT handler reads *)
(* the slot in one store transaction and appends to it in another, so the  *)
(* handlers of several PUTs interleave.                                    *)
(*                                                                         *)
(* Abstractions.  One slot: slots do not share state.  An element of Party *)
(* is one call of Exchange; a user who tries again is a further Party of   *)
(* the same account.  Payloads in the slot all decrypt under its code.     *)
(* The clocks of relay and clients agree.                                  *)
(***************************************************************************)
EXTENDS Filtering, SequencesExt

CONSTANTS
    Party,                  \* calls of Exchange
    AccountID,              \* account IDs
    AccountOf,              \* PollConfig.SelfAccountID
    NoParty,                \* Exchange has not returned a bundle
    PayloadLifetime,        \* payloadLifetime, and the relay's rendezvousTTL
    MaxRendezvousPayloads,  \* maxRendezvousPayloads
    SlotMayBeEmptied,       \* a DELETE arrives, or a MemoryQueueStore restarts
    RequestsMayFail,        \* HTTP requests fail, store errors, restarts
    MaxTime                 \* bound on the clock

ASSUME RendezvousAssumption ==
    /\ NoParty \notin Party
    /\ AccountOf \in [Party -> AccountID]
    /\ PayloadLifetime \in Nat \ {0}
    /\ MaxRendezvousPayloads \in Nat
    /\ SlotMayBeEmptied \in BOOLEAN
    /\ RequestsMayFail \in BOOLEAN
    /\ MaxTime \in Nat

VARIABLES
    now,      \* time.Now(), in the relay and in the clients
    slot,     \* the stored payloads, oldest first
    stage,    \* [Party -> where its Exchange, or the handler of its PUT, is]
    expiry,   \* [Party -> ExpiresAt of the payload it encrypted]
    result,   \* [Party -> whose bundle Exchange returned]
    emptied   \* history: the slot was deleted or lost

slotVars == <<now, slot, stage, expiry, result, emptied>>

Polling == {"poll", "wait"}

SlotInit ==
    /\ now = 0
    /\ slot = <<>>
    /\ stage = [x \in Party |-> "idle"]
    /\ expiry = [x \in Party |-> 0]
    /\ result = [x \in Party |-> NoParty]
    /\ emptied = FALSE

MoveTo(x, label) == stage' = [stage EXCEPT ![x] = label]

\* filterExpiredRendezvous.
FilterExpired(payloads) ==
    filterInPlace(payloads, {k \in DOMAIN payloads : payloads[k].expiresAt > now})

PayloadOf(x) == [from |-> x, expiresAt |-> expiry[x]]

\* Exchange encrypts the bundle and sends the PUT.
Start(x) ==
    /\ stage[x] = "idle"
    /\ expiry' = [expiry EXCEPT ![x] = now + PayloadLifetime]
    /\ MoveTo(x, "put")
    /\ UNCHANGED <<now, slot, result, emptied>>

\* The PUT handler validates the payload and reads the slot; the read purges
\* it.  An expired payload and a full slot are refused.
CheckSlot(x) ==
    LET existing == FilterExpired(slot)
    IN  /\ stage[x] = "put"
        /\ \/ /\ expiry[x] <= now
              /\ slot' = slot
              /\ MoveTo(x, "failed")
           \/ /\ expiry[x] > now
              /\ slot' = existing
              /\ MoveTo(x, IF Len(existing) >= MaxRendezvousPayloads THEN "failed" ELSE "store")
        /\ UNCHANGED <<now, expiry, result, emptied>>

\* Mutant of StorePayload: the payload replaces the slot.
StorePayloadAlone(x) ==
    /\ stage[x] = "store"
    /\ slot' = <<PayloadOf(x)>>
    /\ \/ MoveTo(x, "poll")
       \/ RequestsMayFail /\ MoveTo(x, "failed")
    /\ UNCHANGED <<now, expiry, result, emptied>>

\* The PUT handler stores the payload; the client may miss the answer.
StorePayload(x) ==
    /\ stage[x] = "store"
    /\ slot' = Append(FilterExpired(slot), PayloadOf(x))
    /\ \/ MoveTo(x, "poll")
       \/ RequestsMayFail /\ MoveTo(x, "failed")
    /\ UNCHANGED <<now, expiry, result, emptied>>

\* Mutant of Candidates: only the first payload is looked at.
FirstCandidate(x, payloads) ==
    {i \in 1..Len(payloads) : i = 1 /\ AccountOf[payloads[i].from] # AccountOf[x]}

\* Positions of the payloads Exchange accepts: another account's bundle.
Candidates(x, payloads) ==
    {i \in 1..Len(payloads) : AccountOf[payloads[i].from] # AccountOf[x]}

\* GetRendezvousPayloads, and Exchange's loop over what it returns: the first
\* payload of another account ends the exchange.
Poll(x) ==
    LET payloads == FilterExpired(slot)
        found == Candidates(x, payloads)
    IN  /\ stage[x] = "poll"
        /\ slot' = payloads
        /\ \/ /\ found = {}
              /\ MoveTo(x, "wait")
              /\ result' = result
           \/ \E i \in found :
                /\ \A j \in found : i <= j
                /\ MoveTo(x, "found")
                /\ result' = [result EXCEPT ![x] = payloads[i].from]
        /\ UNCHANGED <<now, expiry, emptied>>

\* PollEvery has passed.
PollAgain(x) ==
    /\ stage[x] = "wait"
    /\ MoveTo(x, "poll")
    /\ UNCHANGED <<now, slot, expiry, result, emptied>>

\* ctx is cancelled or past its deadline: seen before a GET or while waiting.
GiveUp(x) ==
    /\ stage[x] \in Polling
    /\ MoveTo(x, "failed")
    /\ UNCHANGED <<now, slot, expiry, result, emptied>>

\* A PUT or a GET returns an error: Exchange does not retry.
RequestFails(x) ==
    /\ RequestsMayFail
    /\ stage[x] \in {"put", "store", "poll"}
    /\ MoveTo(x, "failed")
    /\ UNCHANGED <<now, slot, expiry, result, emptied>>

\* DeleteRendezvous, or the restart of a relay that keeps its store in memory.
EmptySlot ==
    /\ SlotMayBeEmptied
    /\ slot' = <<>>
    /\ emptied' = TRUE
    /\ UNCHANGED <<now, stage, expiry, result>>

SlotTick ==
    /\ now < MaxTime
    /\ now' = now + 1
    /\ UNCHANGED <<slot, stage, expiry, result, emptied>>

Exchange(x) ==
    CheckSlot(x) \/ StorePayload(x) \/ Poll(x) \/ PollAgain(x)

SlotNext ==
    \/ SlotTick \/ EmptySlot
    \/ \E x \in Party : Start(x) \/ Exchange(x) \/ GiveUp(x) \/ RequestFails(x)

SlotSpec == SlotInit /\ [][SlotNext]_slotVars

\* An Exchange that was started keeps running, and so does the handler of its
\* PUT.  Nobody has to give up, and the clock need not advance.
FairSpec == SlotSpec /\ \A x \in Party : WF_slotVars(Exchange(x))

-----------------------------------------------------------------------------
\* The purges, refused PUTs and racing appends of the handlers neither drop
\* nor reorder live payloads: only a DELETE or a restart does.
LivePayloadsStay ==
    [][EmptySlot \/ IsPrefix(FilterExpired(slot), FilterExpired(slot'))]_slotVars

\* Two sides of different accounts that are both polling will both return a
\* bundle, unless one gives up or fails, a payload expires first or the slot
\* is emptied.
BothSidesMeet ==
    \A x, y \in Party :
        (stage[x] \in Polling /\ stage[y] \in Polling /\ AccountOf[x] # AccountOf[y])
            ~> \/ stage[x] = "found" /\ stage[y] = "found"
               \/ stage[x] = "failed" \/ stage[y] = "failed"
               \/ expiry[x] <= now \/ expiry[y] <= now \/ emptied

=============================================================================
