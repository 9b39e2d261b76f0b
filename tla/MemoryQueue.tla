---------------------------- MODULE MemoryQueue ----------------------------
(***************************************************************************)
(* One mailbox of MemoryQueueStore (internal/relay/memory_store.go): a Go  *)
(* slice of envelopes that Enqueue and Drain filter in place.              *)
(*                                                                         *)
(* filterInPlace compacts the live envelopes to the front of the backing   *)
(* array.  When Enqueue then refuses the new envelope it returns without   *)
(* storing the shorter slice, so the map still holds the old length: the   *)
(* compacted prefix followed by whatever was in the tail.                  *)
(*                                                                         *)
(* handlePublish stamps ExpiresAt before it takes any lock, so envelopes   *)
(* can be enqueued in another order than they expire in.                   *)
(***************************************************************************)
EXTENDS Filtering, SequencesExt

CONSTANTS
    Envelope,     \* published envelopes, one element per fresh ID
    Size,         \* envelopeSize
    QueueTTL,     \* Options.QueueTTL
    MaxMessages,  \* QueueLimits.MaxMessages
    MaxBytes,     \* QueueLimits.MaxBytes
    MaxClock      \* bound on the clock

ASSUME MemoryQueueAssumption ==
    /\ Size \in [Envelope -> Nat]
    /\ QueueTTL \in Nat \ {0}
    /\ MaxMessages \in Nat \ {0}
    /\ MaxBytes \in Nat \ {0}
    /\ MaxClock \in Nat

VARIABLES
    clock,      \* time.Now()
    stored,     \* s.mailboxes[m]: what the stored slice shows
    expiresAt,  \* [Envelope -> ExpiresAt; 0 before it is stamped]
    fate        \* [Envelope -> what became of it]

queueVars == <<clock, stored, expiresAt, fate>>

QueueInit ==
    /\ clock = 0
    /\ stored = <<>>
    /\ expiresAt = [e \in Envelope |-> 0]
    /\ fate = [e \in Envelope |-> "new"]

\* finalizePublishedEnvelope.
Stamp(e) ==
    /\ fate[e] = "new"
    /\ expiresAt' = [expiresAt EXCEPT ![e] = clock + QueueTTL]
    /\ fate' = [fate EXCEPT ![e] = "stamped"]
    /\ UNCHANGED <<clock, stored>>

\* filterExpired: the envelopes it keeps.
Live(q) == filterInPlace(q, {k \in DOMAIN q : expiresAt[q[k]] > clock})

\* filterExpired: what the slice q shows afterwards, its length unchanged.
Compacted(q) == Live(q) \o SubSeq(q, Len(Live(q)) + 1, Len(q))

Bytes(q) == FoldLeft(LAMBDA total, e : total + Size[e], 0, q)

\* validateQueueLimits.
WithinLimits(q, e) ==
    /\ Len(q) + 1 <= MaxMessages
    /\ Bytes(q) + Size[e] <= MaxBytes

\* Enqueue, the envelope fits.
Enqueue(e) ==
    /\ fate[e] = "stamped"
    /\ WithinLimits(Live(stored), e)
    /\ stored' = Append(Live(stored), e)
    /\ fate' = [fate EXCEPT ![e] = "queued"]
    /\ UNCHANGED <<clock, expiresAt>>

\* Mutant of EnqueueFull: the error's empty slice is stored.
EnqueueFullClears(e) ==
    /\ fate[e] = "stamped"
    /\ ~WithinLimits(Live(stored), e)
    /\ stored' = <<>>
    /\ fate' = [fate EXCEPT ![e] = "refused"]
    /\ UNCHANGED <<clock, expiresAt>>

\* Enqueue returns ErrQueueFull.
EnqueueFull(e) ==
    /\ fate[e] = "stamped"
    /\ ~WithinLimits(Live(stored), e)
    /\ stored' = Compacted(stored)
    /\ fate' = [fate EXCEPT ![e] = "refused"]
    /\ UNCHANGED <<clock, expiresAt>>

\* Mutant of Drain: the map entry is not deleted.
DrainCopies ==
    /\ stored # <<>>
    /\ stored' = Live(stored)
    /\ fate' = [e \in Envelope |-> IF e \in ToSet(Live(stored)) THEN "drained" ELSE fate[e]]
    /\ UNCHANGED <<clock, expiresAt>>

\* Drain: a copy of the live envelopes goes to the subscriber.
Drain ==
    /\ stored # <<>>
    /\ stored' = <<>>
    /\ fate' = [e \in Envelope |-> IF e \in ToSet(Live(stored)) THEN "drained" ELSE fate[e]]
    /\ UNCHANGED <<clock, expiresAt>>

QueueTick ==
    /\ clock < MaxClock
    /\ clock' = clock + 1
    /\ UNCHANGED <<stored, expiresAt, fate>>

QueueNext ==
    \/ QueueTick \/ Drain
    \/ \E e \in Envelope : Stamp(e) \/ Enqueue(e) \/ EnqueueFull(e)

QueueSpec == QueueInit /\ [][QueueNext]_queueVars

-----------------------------------------------------------------------------
\* Filtering in place, refusing and draining never lose an accepted envelope
\* before its deadline: it is in the slice until a Drain hands it out.
AcceptedIsKept ==
    \A e \in Envelope :
        fate[e] = "queued" /\ expiresAt[e] > clock => e \in ToSet(stored)

\* The slice shows accepted, undrained envelopes only: compaction brings back
\* neither a refused one nor one a Drain has already handed out.
NothingComesBack == \A e \in ToSet(stored) : fate[e] = "queued"

=============================================================================
