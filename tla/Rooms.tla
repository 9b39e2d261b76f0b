-------------------------------- MODULE Rooms --------------------------------
(***************************************************************************)
(* The default room: who is a member (each account keeps its own list, fed  *)
(* by the membership lists of those who join and by their messages), the    *)
(* messages, sent to each member who is a contact, and the history that a   *)
(* member asks the others for.  Each handler runs in the Update goroutine   *)
(* and reads and writes the state and history files without interleaving;   *)
(* envelopes arrive in any order or, within a bound, not at all.            *)
(*                                                                         *)
(* A file sorted by (timestamp, message ID) is the set of its records, and  *)
(* a member list sorted by (join time, account) a function.  One clock      *)
(* serves all accounts; message expiry is in Delivery.                      *)
(***************************************************************************)
EXTENDS Naturals, FiniteSets

CONSTANTS
    Account,    \* the accounts
    Contacts,   \* who are contacts of each other, as sets of two accounts
    Message,    \* room messages
    Cap,        \* DefaultRoomCap
    MaxAge,     \* roomHistoryMaxAge, in ticks
    MaxTime,    \* bound: ticks of the clock
    MaxSyncs,   \* bound: history requests in a behaviour
    MaxFaults   \* bound: lost envelopes, failed sends and restarts

ASSUME RoomsAssumption ==
    /\ IsFiniteSet(Account)
    /\ \A p \in Contacts : p \subseteq Account /\ Cardinality(p) = 2
    /\ Cap \in Nat \ {0} /\ MaxAge \in Nat
    /\ MaxTime \in Nat /\ MaxSyncs \in Nat /\ MaxFaults \in Nat

VARIABLES
    now,        \* the clock, from 1
    joinedAt,   \* RoomState.JoinedAt of each account, 0 when it has not joined
    members,    \* RoomState.Members of each account: the join time it knows of
                \* each account, 0 for those not in the list
    history,    \* the room history file of each account
    post,       \* the goroutine that sends each message
    sync,       \* roomSync.requestID of each account, 0 when inactive
    syncs,      \* history requests so far
    net,        \* envelopes under way
    faults,     \* used budget
    cut         \* history variable: accounts that missed an envelope, or
                \* dropped one because the room was full

vars == <<now, joinedAt, members, history, post, sync, syncs, net, faults, cut>>

Unsent == [pc |-> "unsent"]
Reachable(a) == {b \in Account : {a, b} \in Contacts}
MemberSet(list) == {b \in Account : list[b] # 0}
Later(s, t) == IF s > t THEN s ELSE t
Sooner(s, t) == IF s < t THEN s ELSE t

Init ==
    /\ now = 1
    /\ joinedAt = [a \in Account |-> 0]
    /\ members = [a \in Account |-> [b \in Account |-> 0]]
    /\ history = [a \in Account |-> {}]
    /\ post = [m \in Message |-> Unsent]
    /\ sync = [a \in Account |-> 0] /\ syncs = 0
    /\ net = {} /\ faults = 0 /\ cut = {}

Tick ==
    /\ now < MaxTime /\ now' = now + 1
    /\ UNCHANGED <<joinedAt, members, history, post, sync, syncs, net, faults, cut>>

-----------------------------------------------------------------------------
(* Membership                                                               *)

\* Mutant: the latest join time is kept.
MergeLatest(existing, incoming) ==
    [b \in Account |-> Later(existing[b], incoming[b])]

\* The union of two lists with the earliest join time of each member.
mergeRoomMembers(existing, incoming) ==
    [b \in Account |-> IF existing[b] = 0 \/ incoming[b] = 0
                       THEN Later(existing[b], incoming[b])
                       ELSE Sooner(existing[b], incoming[b])]

Only(a, t) == [b \in Account |-> IF b = a THEN t ELSE 0]
Full(list) == Cardinality(MemberSet(list)) > Cap

\* roomSyncRecipients: members who are not contacts are passed over.
roomSyncRecipients(a) == (MemberSet(members[a]) \ {a}) \cap Reachable(a)

\* JoinDefaultRoom from handleEnterKey; the membership goes to all contacts.
Join(a) ==
    /\ joinedAt[a] = 0
    /\ Cardinality(MemberSet(members[a])) < Cap
    /\ joinedAt' = [joinedAt EXCEPT ![a] = now]
    /\ members' = [members EXCEPT ![a] = mergeRoomMembers(@, Only(a, now))]
    /\ net' = net \cup {[kind |-> "membership", from |-> a, to |-> b,
                         list |-> members'[a]] : b \in Reachable(a)}
    /\ UNCHANGED <<now, history, post, sync, syncs, faults, cut>>

\* handleRoomMembership, whether the receiver has joined or not; a list that
\* would exceed the cap is dropped as a whole.
HandleMembership(a, e) ==
    LET merged == mergeRoomMembers(members[a], e.list)
    IN IF Full(merged)
       THEN cut' = cut \cup {a, e.from} /\ UNCHANGED members
       ELSE members' = [members EXCEPT ![a] = merged] /\ UNCHANGED cut

-----------------------------------------------------------------------------
(* History                                                                  *)

\* Mutant of InWindow: no lower bound.
WindowToTheBeginning(t, since, until) == t <= until

\* The window of LoadRoomHistoryWindow, and of the chunk's receiver.
InWindow(t, since, until) == since <= t /\ t <= until

\* MergeRoomHistory: the first record of a message ID stays.
MergeRoomHistory(records, incoming) ==
    records \cup {r \in incoming : \A q \in records : q.msg # r.msg}

\* Nothing before the account joined, nor older than the maximum age.
SinceJoin(t) == Later(IF now > MaxAge THEN now - MaxAge ELSE 0, t)

\* EncryptDefaultRoomOutgoing; sendRoomCmd gets one envelope for each recipient.
SendMessage(a, m) ==
    /\ joinedAt[a] # 0 /\ post[m] = Unsent
    /\ post' = [post EXCEPT ![m] = [pc |-> "sending", by |-> a, at |-> now,
                                    left |-> roomSyncRecipients(a)]]
    /\ UNCHANGED <<now, joinedAt, members, history, sync, syncs, net, faults, cut>>

SendEnvelope(m) ==
    /\ post[m].pc = "sending"
    /\ \E b \in post[m].left :
          /\ net' = net \cup {[kind |-> "message", from |-> post[m].by, to |-> b,
                               msg |-> m, at |-> post[m].at]}
          /\ post' = [post EXCEPT ![m].left = @ \ {b}]
    /\ UNCHANGED <<now, joinedAt, members, history, sync, syncs, faults, cut>>

\* handleSendResultMsg: the sender's own record has the time of the result.
Sent(m) ==
    /\ post[m].pc = "sending" /\ post[m].left = {}
    /\ post' = [post EXCEPT ![m] = [pc |-> "sent"]]
    /\ history' = [history EXCEPT ![post[m].by] =
                      MergeRoomHistory(@, {[msg |-> m, at |-> now, by |-> post[m].by]})]
    /\ UNCHANGED <<now, joinedAt, members, sync, syncs, net, faults, cut>>

\* handleRoomMessage and SaveDefaultRoomReceived: an unknown sender becomes a
\* member as of now, unless the room is full, which drops the message.
HandleMessage(a, e) ==
    LET list == IF members[a][e.from] # 0 THEN members[a]
                ELSE mergeRoomMembers(members[a], Only(e.from, now))
    IN IF Full(list)
       THEN cut' = cut \cup {a, e.from} /\ UNCHANGED <<members, history>>
       ELSE /\ members' = [members EXCEPT ![a] = list]
            /\ history' = [history EXCEPT ![a] = MergeRoomHistory(@,
                             {[msg |-> e.msg, at |-> e.at, by |-> e.from]})]
            /\ UNCHANGED cut

\* sendRoomHistorySyncCmd; RequestDefaultRoomHistory
RequestHistory(a) ==
    /\ joinedAt[a] # 0 /\ sync[a] = 0 /\ roomSyncRecipients(a) # {}
    /\ syncs < MaxSyncs /\ syncs' = syncs + 1
    /\ sync' = [sync EXCEPT ![a] = syncs + 1]
    /\ net' = net \cup {[kind |-> "request", from |-> a, to |-> b, id |-> syncs + 1,
                         since |-> SinceJoin(joinedAt[a]), until |-> now] :
                           b \in roomSyncRecipients(a)}
    /\ UNCHANGED <<now, joinedAt, members, history, post, faults, cut>>

\* The records of a window in chunks: one record stands for the up to
\* roomHistoryChunkSize records of a chunk, and an empty window has a chunk too.
Chunks(records) == IF records = {} THEN {{}} ELSE {{r} : r \in records}

\* handleRoomHistoryRequest: the answer goes out with the acks.
HandleRequest(a, e) ==
    LET since == Later(SinceJoin(members[a][e.from]), e.since)
        until == Later(Sooner(now, e.until), since)
        found == {r \in history[a] : InWindow(r.at, since, until)}
    IN IF joinedAt[a] = 0 \/ members[a][e.from] = 0
       THEN net' = net \ {e}
       ELSE net' = (net \ {e}) \cup
               {[kind |-> "chunk", from |-> a, to |-> e.from, id |-> e.id,
                 records |-> c, last |-> c = CHOOSE d \in Chunks(found) : TRUE] :
                    c \in Chunks(found)}

\* handleRoomHistoryChunk: kept whatever request is active.
HandleChunk(a, e) ==
    LET kept == {r \in e.records : /\ InWindow(r.at, SinceJoin(joinedAt[a]), now)
                                   /\ members[a][r.by] # 0}
    IN /\ IF joinedAt[a] = 0 \/ members[a][e.from] = 0
          THEN UNCHANGED history
          ELSE history' = [history EXCEPT ![a] = MergeRoomHistory(@, kept)]
       /\ sync' = IF e.last /\ sync[a] = e.id THEN [sync EXCEPT ![a] = 0] ELSE sync

Receive(a) ==
    \E e \in {f \in net : f.to = a} :
        \/ /\ e.kind = "membership" /\ net' = net \ {e}
           /\ HandleMembership(a, e)
           /\ UNCHANGED <<now, joinedAt, history, post, sync, syncs, faults>>
        \/ /\ e.kind = "message" /\ net' = net \ {e}
           /\ HandleMessage(a, e)
           /\ UNCHANGED <<now, joinedAt, post, sync, syncs, faults>>
        \/ /\ e.kind = "request"
           /\ HandleRequest(a, e)
           /\ UNCHANGED <<now, joinedAt, members, history, post, sync, syncs, faults,
                          cut>>
        \/ /\ e.kind = "chunk" /\ net' = net \ {e}
           /\ HandleChunk(a, e)
           /\ UNCHANGED <<now, joinedAt, members, post, syncs, faults, cut>>

\* handleTypingTickMsg, ten seconds after the request
SyncTimeout(a) ==
    /\ sync[a] # 0 /\ sync' = [sync EXCEPT ![a] = 0]
    /\ UNCHANGED <<now, joinedAt, members, history, post, syncs, net, faults, cut>>

-----------------------------------------------------------------------------
(* Failures                                                                 *)

Fault == faults < MaxFaults /\ faults' = faults + 1

Lose(e) ==
    /\ Fault /\ net' = net \ {e} /\ cut' = cut \cup {e.to, e.from}
    /\ UNCHANGED <<now, joinedAt, members, history, post, sync, syncs>>

\* client.Send fails: the message is not saved, though some may have got it.
SendFails(m) ==
    /\ Fault /\ post[m].pc = "sending"
    /\ post' = [post EXCEPT ![m] = [pc |-> "failed"]]
    /\ UNCHANGED <<now, joinedAt, members, history, sync, syncs, net, cut>>

\* The program of a ends and starts again: the files stay.
Restart(a) ==
    /\ Fault
    /\ post' = [m \in Message |-> IF post[m].pc = "sending" /\ post[m].by = a
                                  THEN [pc |-> "failed"] ELSE post[m]]
    /\ sync' = [sync EXCEPT ![a] = 0]
    /\ UNCHANGED <<now, joinedAt, members, history, syncs, net, cut>>

Next ==
    \/ Tick
    \/ \E a \in Account : \/ Join(a) \/ RequestHistory(a) \/ Receive(a)
                          \/ SyncTimeout(a) \/ Restart(a)
                          \/ \E m \in Message : SendMessage(a, m)
    \/ \E m \in Message : SendEnvelope(m) \/ Sent(m) \/ SendFails(m)
    \/ \E e \in net : Lose(e)

Spec == Init /\ [][Next]_vars

-----------------------------------------------------------------------------
(* Correctness                                                              *)

\* Every list holds only accounts that joined, never as of an earlier time than
\* they did, whatever the order in which lists and messages arrive; an account
\* knows its own join time exactly, and that of a contact once everything the
\* contact sent has come; no list exceeds the cap.
MembershipIsSound ==
    \A a \in Account :
        /\ \A b \in MemberSet(members[a]) : joinedAt[b] # 0 /\ members[a][b] >= joinedAt[b]
        /\ joinedAt[a] # 0 => members[a][a] = joinedAt[a]
        /\ \A b \in Reachable(a) \ cut :
              \/ a \in cut \/ members[a][b] = joinedAt[b]
              \/ \E e \in net : e.from = b /\ e.to = a
        /\ Cardinality(MemberSet(members[a])) <= Cap

\* Nobody's history holds a record of before the account joined, nor two records
\* of one message, though a message may come live and in chunks of several
\* members, whose records of it have different times.
HistoryIsSound ==
    \A a \in Account :
        /\ \A r \in history[a] : joinedAt[a] # 0 /\ r.at >= joinedAt[a]
        /\ \A q, r \in history[a] : q.msg = r.msg => q = r

=============================================================================
