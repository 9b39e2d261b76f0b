----------------------------- MODULE RoomsProofs -----------------------------
(***************************************************************************)
(* Proofs about Rooms, for any number of accounts, messages, lost          *)
(* envelopes and restarts: member lists and histories stay sound.          *)
(***************************************************************************)
EXTENDS Rooms, FiniteSetTheorems, TLAPS

List == [Account -> Nat]
Record == [msg : Message, at : Nat, by : Account]
Single(records) == \A q, r \in records : q.msg = r.msg => q = r

Membership == [kind : {"membership"}, from : Account, to : Account, list : List]
Text == [kind : {"message"}, from : Account, to : Account, msg : Message, at : Nat]
Query == [kind : {"request"}, from : Account, to : Account, id : Nat, since : Nat, until : Nat]
Chunk == [kind : {"chunk"}, from : Account, to : Account, id : Nat,
          records : SUBSET Record, last : BOOLEAN]

\* The clock, the files and the envelopes keep their types.
Types ==
    /\ now \in Nat \ {0} /\ syncs \in Nat
    /\ joinedAt \in List
    /\ members \in [Account -> List]
    /\ history \in [Account -> SUBSET Record]
    /\ sync \in [Account -> Nat]
    /\ post \in [Message -> [pc : {"unsent", "sent", "failed"}] \cup
                            [pc : {"sending"}, by : Account, at : Nat, left : SUBSET Account]]
    /\ net \subseteq Membership \cup Text \cup Query \cup Chunk
    /\ cut \subseteq Account

\* A list holds accounts that joined, from then on.
Genuine(list) == \A b \in Account : list[b] # 0 => joinedAt[b] # 0 /\ list[b] >= joinedAt[b]

\* What travels is no better than what lists hold.
ListsAreGenuine ==
    /\ \A a \in Account : joinedAt[a] <= now
    /\ \A a \in Account : Genuine(members[a])
    /\ \A e \in net : e.kind = "membership" => Genuine(e.list)
    /\ \A a \in Account : joinedAt[a] # 0 => members[a][a] = joinedAt[a]

\* A contact's join is known, or the contact's own list is under way.
JoinsArrive ==
    \A a \in Account : \A b \in Reachable(a) \ cut :
        \/ a \in cut \/ members[a][b] = joinedAt[b]
        \/ \E e \in net : /\ e.kind = "membership" /\ e.from = b /\ e.to = a
                          /\ e.list[b] = joinedAt[b]

CapHolds == \A a \in Account : Cardinality(MemberSet(members[a])) <= Cap

\* Messages go to accounts that had joined, and a chunk has each message once.
MessagesAreTimely ==
    /\ \A m \in Message : post[m].pc = "sending" =>
          /\ post[m].at <= now /\ joinedAt[post[m].by] # 0 /\ joinedAt[post[m].by] <= post[m].at
          /\ \A b \in post[m].left : joinedAt[b] # 0 /\ joinedAt[b] <= post[m].at
    /\ \A e \in net : e.kind = "message" =>
          joinedAt[e.from] # 0 /\ joinedAt[e.to] # 0 /\ joinedAt[e.to] <= e.at
    /\ \A e \in net : e.kind = "chunk" => Single(e.records)

HistoriesAreSound ==
    \A a \in Account :
        /\ \A r \in history[a] : joinedAt[a] # 0 /\ r.at >= joinedAt[a]
        /\ Single(history[a])

Inv ==
    /\ Types /\ ListsAreGenuine /\ JoinsArrive /\ CapHolds
    /\ MessagesAreTimely /\ HistoriesAreSound

-----------------------------------------------------------------------------
\* The merges.

\* mergeRoomMembers gives the same list in whatever order, and however often,
\* lists arrive.
THEOREM MergeCommutes ==
  \A k, l \in List : mergeRoomMembers(k, l) = mergeRoomMembers(l, k)
  BY DEF mergeRoomMembers, List, Later, Sooner

THEOREM MergeIsAssociative ==
  \A k, l, m \in List :
     mergeRoomMembers(mergeRoomMembers(k, l), m) = mergeRoomMembers(k, mergeRoomMembers(l, m))
  BY DEF mergeRoomMembers, List, Later, Sooner

THEOREM MergeIsIdempotent ==
  \A k, l \in List : mergeRoomMembers(mergeRoomMembers(k, l), l) = mergeRoomMembers(k, l)
  BY DEF mergeRoomMembers, List, Later, Sooner

LEMMA MergeOfLists ==
  ASSUME NEW k \in List, NEW l \in List
  PROVE  /\ mergeRoomMembers(k, l) \in List
         /\ MemberSet(mergeRoomMembers(k, l)) = MemberSet(k) \cup MemberSet(l)
         /\ \A b \in Account : LET j == mergeRoomMembers(k, l) IN
               /\ j[b] \in {k[b], l[b]}
               /\ k[b] # 0 => j[b] # 0 /\ j[b] <= k[b]
               /\ l[b] # 0 => j[b] # 0 /\ j[b] <= l[b]
  BY DEF mergeRoomMembers, List, Later, Sooner, MemberSet

LEMMA OnlyIsList ==
  ASSUME NEW a \in Account, NEW t \in Nat \ {0}
  PROVE  /\ Only(a, t) \in List /\ MemberSet(Only(a, t)) = {a} /\ Only(a, t)[a] = t
         /\ \A b \in Account : b # a => Only(a, t)[b] = 0
  BY DEF Only, List, MemberSet

\* A merge never brings in a second record of a message.
LEMMA MergeKeepsSingle ==
  ASSUME NEW records \in SUBSET Record, NEW incoming \in SUBSET Record,
         Single(records), Single(incoming)
  PROVE  /\ MergeRoomHistory(records, incoming) \in SUBSET Record
         /\ Single(MergeRoomHistory(records, incoming))
         /\ MergeRoomHistory(records, incoming) \subseteq records \cup incoming
  BY DEF MergeRoomHistory, Single

LEMMA MembersAreFinite == \A list \in List : IsFiniteSet(MemberSet(list))
<1>1. \A list \in List : MemberSet(list) \subseteq Account
  BY DEF MemberSet
<1> QED
  BY <1>1, RoomsAssumption, FS_Subset

LEMMA NotFull ==
  ASSUME NEW list \in List, ~Full(list) PROVE Cardinality(MemberSet(list)) <= Cap
  BY MembersAreFinite, FS_CardinalityType, RoomsAssumption DEF Full
-----------------------------------------------------------------------------
\* The steps.

LEMMA OneMoreMember ==
  ASSUME NEW S, NEW x, IsFiniteSet(S)
  PROVE  /\ Cardinality(S) \in Nat /\ Cardinality(S \cup {x}) \in Nat
         /\ Cardinality(S \cup {x}) <= Cardinality(S) + 1
<1>1. Cardinality(S) \in Nat
  BY FS_CardinalityType
<1>2. Cardinality(S \cup {x}) = IF x \in S THEN Cardinality(S) ELSE Cardinality(S) + 1
  BY FS_AddElement
<1> QED
  BY <1>1, <1>2

LEMMA InitIsSound == Init => Inv
<1> SUFFICES ASSUME Init PROVE Inv
  OBVIOUS
<1>1. Types /\ ListsAreGenuine /\ JoinsArrive
  BY DEF Init, Types, List, Unsent, ListsAreGenuine, Genuine, JoinsArrive, Reachable
<1>2. CapHolds
  <2>1. \A a \in Account : MemberSet(members[a]) = {}
    BY DEF Init, MemberSet
  <2>2. Cardinality({}) = 0
    BY FS_EmptySet
  <2>3. 0 <= Cap
    BY RoomsAssumption
  <2> QED
    BY <2>1, <2>2, <2>3 DEF CapHolds
<1>3. MessagesAreTimely /\ HistoriesAreSound
  BY DEF Init, MessagesAreTimely, HistoriesAreSound, Single, Unsent
<1> QED
  BY <1>1, <1>2, <1>3 DEF Inv

LEMMA JoinKeeps ==
  ASSUME Inv, NEW a \in Account, Join(a) PROVE Inv'
<1>1. now \in Nat \ {0} /\ members[a] \in List /\ joinedAt \in List
  BY DEF Inv, Types
<1>2. /\ joinedAt[a] = 0 /\ joinedAt' = [joinedAt EXCEPT ![a] = now]
      /\ Cardinality(MemberSet(members[a])) < Cap
      /\ UNCHANGED <<now, history, post, sync, syncs, cut>>
  BY DEF Join
<1>3. PICK list \in List :
         /\ members' = [members EXCEPT ![a] = list]
         /\ net' = net \cup {[kind |-> "membership", from |-> a, to |-> b, list |-> list] : b \in Reachable(a)}
         /\ MemberSet(list) = MemberSet(members[a]) \cup {a}
         /\ \A b \in Account : list[b] = IF b = a THEN now ELSE members[a][b]
  <2> DEFINE list == mergeRoomMembers(members[a], Only(a, now))
  <2>1. members[a][a] = 0
    BY <1>1, <1>2 DEF Inv, ListsAreGenuine, Genuine
  <2>2. list \in List /\ MemberSet(list) = MemberSet(members[a]) \cup {a}
    BY <1>1, OnlyIsList, MergeOfLists
  <2>3. \A b \in Account : list[b] = IF b = a THEN now ELSE members[a][b]
    BY <1>1, <2>1 DEF Only, mergeRoomMembers, List, Later, Sooner
  <2>4. members' = [members EXCEPT ![a] = list] /\ members'[a] = list
        /\ net' = net \cup {[kind |-> "membership", from |-> a, to |-> b, list |-> members'[a]] : b \in Reachable(a)}
    BY DEF Join, Inv, Types
  <2> HIDE DEF list
  <2> QED
    BY <2>2, <2>3, <2>4
<1>4. \A e \in net' \ net : e \in Membership /\ e.list = list
  <2>1. Reachable(a) \subseteq Account
    BY DEF Reachable
  <2>2. \A b \in Account : [kind |-> "membership", from |-> a, to |-> b, list |-> list] \in Membership
    BY DEF Membership
  <2> QED
    BY <1>3, <2>1, <2>2
<1>5. Types'
  BY <1>1, <1>2, <1>3, <1>4 DEF Inv, Types, List
<1>6. ASSUME NEW k \in List, Genuine(k) PROVE Genuine(k)'
  BY <1>1, <1>2, <1>6 DEF Genuine, List
<1>7. Genuine(list)'
  BY <1>1, <1>2, <1>3 DEF Inv, Types, ListsAreGenuine, Genuine, List
<1>8. ListsAreGenuine'
  <2>1. \A e \in net : e.kind = "membership" => e.list \in List
    BY DEF Inv, Types, Membership, Text, Query, Chunk
  <2>2. \A b \in Account : members[b] \in List
    BY DEF Inv, Types
  <2>3. \A e \in net' : e.kind = "membership" => Genuine(e.list)'
    BY <1>3, <1>4, <1>6, <1>7, <2>1 DEF Inv, ListsAreGenuine
  <2>4. \A b \in Account : Genuine(members[b])'
    BY <1>3, <1>6, <1>7, <2>2 DEF Inv, Types, ListsAreGenuine
  <2>5. \A b \in Account : joinedAt'[b] <= now' /\ (joinedAt'[b] # 0 => members'[b][b] = joinedAt'[b])
    BY <1>1, <1>2, <1>3 DEF Inv, Types, ListsAreGenuine, List
  <2> QED
    BY <2>3, <2>4, <2>5 DEF ListsAreGenuine
<1>9. JoinsArrive'
  <2> SUFFICES ASSUME NEW x \in Account, NEW y \in Reachable(x) \ cut, x \notin cut
               PROVE  \/ members'[x][y] = joinedAt'[y]
                      \/ \E e \in net' : /\ e.kind = "membership" /\ e.from = y /\ e.to = x
                                         /\ e.list[y] = joinedAt'[y]
    BY <1>2 DEF JoinsArrive
  <2>1. CASE y = a
    <3>1. x \in Reachable(a)
      BY <2>1 DEF Reachable
    <3>2. [kind |-> "membership", from |-> a, to |-> x, list |-> list] \in net'
      BY <1>3, <3>1
    <3> QED
      BY <1>1, <1>2, <1>3, <2>1, <3>2 DEF List
  <2>2. CASE y # a
    <3>1. joinedAt'[y] = joinedAt[y] /\ members'[x][y] = members[x][y] /\ y \in Account
      BY <1>1, <1>2, <1>3, <2>2 DEF Inv, Types, List, Reachable
    <3> QED
      BY <1>3, <3>1 DEF Inv, JoinsArrive
  <2> QED
    BY <2>1, <2>2
<1>10. CapHolds'
  <2>1. IsFiniteSet(MemberSet(members[a]))
    BY <1>1, MembersAreFinite
  <2> DEFINE M == MemberSet(members[a])
  <2>2. /\ Cardinality(M) \in Nat /\ Cardinality(M \cup {a}) \in Nat
        /\ Cardinality(M \cup {a}) <= Cardinality(M) + 1
    BY <2>1, OneMoreMember
  <2>3. Cardinality(M) < Cap /\ MemberSet(list) = M \cup {a} /\ Cap \in Nat
    BY <1>2, <1>3, RoomsAssumption
  <2> HIDE DEF M
  <2>4. Cardinality(MemberSet(list)) <= Cap
    BY <2>2, <2>3
  <2> QED
    BY <1>3, <2>4 DEF Inv, Types, CapHolds
<1>11. MessagesAreTimely'
  <2>1. \A e \in net : e.kind = "message" => e.from \in Account /\ e.to \in Account
    BY DEF Inv, Types, Membership, Text, Query, Chunk
  <2>2. \A m \in Message : post[m].pc = "sending" => post[m].by \in Account /\ post[m].left \subseteq Account
    BY DEF Inv, Types
  <2>3. \A b \in Account : joinedAt[b] # 0 => joinedAt'[b] = joinedAt[b]
    BY <1>1, <1>2 DEF List
  <2>4. \A e \in net' \ net : e.kind = "membership"
    BY <1>4 DEF Membership
  <2> QED
    BY <1>2, <1>3, <2>1, <2>2, <2>3, <2>4 DEF Inv, MessagesAreTimely
<1>12. HistoriesAreSound'
  BY <1>1, <1>2 DEF Inv, HistoriesAreSound, List
<1> QED
  BY <1>5, <1>8, <1>9, <1>10, <1>11, <1>12 DEF Inv

LEMMA MembershipKeeps ==
  ASSUME Inv, NEW a \in Account, NEW e \in net, e.to = a, e.kind = "membership",
         net' = net \ {e}, HandleMembership(a, e),
         UNCHANGED <<now, joinedAt, history, post, sync, syncs>>
  PROVE  Inv'
<1>1. /\ members[a] \in List /\ e.list \in List /\ joinedAt \in List
      /\ e.from \in Account /\ Genuine(e.list)
  BY DEF Inv, Types, Membership, Text, Query, Chunk, ListsAreGenuine
<1>2. PICK list \in List :
         /\ list = mergeRoomMembers(members[a], e.list)
         /\ \A b \in Account :
               /\ list[b] \in {members[a][b], e.list[b]}
               /\ members[a][b] # 0 => list[b] # 0 /\ list[b] <= members[a][b]
               /\ e.list[b] # 0 => list[b] # 0 /\ list[b] <= e.list[b]
  BY <1>1, MergeOfLists
<1>3. \/ cut' = cut \cup {a, e.from} /\ UNCHANGED members
      \/ ~Full(list) /\ members' = [members EXCEPT ![a] = list] /\ UNCHANGED cut
  BY <1>2 DEF HandleMembership
<1>4. Types'
  BY <1>1, <1>3 DEF Inv, Types
<1>5. \A b \in Account : /\ joinedAt[b] \in Nat /\ list[b] \in Nat
                         /\ list[b] # 0 => joinedAt[b] # 0 /\ list[b] >= joinedAt[b]
  BY <1>1, <1>2 DEF Inv, ListsAreGenuine, Genuine, List
<1>6. ListsAreGenuine'
  <2>1. \A b \in Account : Genuine(members[b])'
    BY <1>3, <1>5 DEF Inv, Types, ListsAreGenuine, Genuine
  <2>2. joinedAt[a] # 0 => list[a] = joinedAt[a]
    BY <1>2, <1>5 DEF Inv, ListsAreGenuine
  <2>3. \A b \in Account : joinedAt[b] # 0 => members'[b][b] = joinedAt[b]
    BY <1>3, <2>2 DEF Inv, Types, ListsAreGenuine
  <2> QED
    BY <2>1, <2>3 DEF Inv, ListsAreGenuine, Genuine
<1>7. JoinsArrive'
  <2> SUFFICES ASSUME NEW x \in Account, NEW y \in Reachable(x), x \notin cut', y \notin cut'
               PROVE  \/ members'[x][y] = joinedAt[y]
                      \/ \E f \in net' : /\ f.kind = "membership" /\ f.from = y /\ f.to = x
                                         /\ f.list[y] = joinedAt[y]
    BY DEF JoinsArrive
  <2>1. y \in Account /\ y \notin cut /\ x \notin cut
    BY <1>3 DEF Reachable
  <2>2. CASE members[x][y] = joinedAt[y]
    <3>1. x = a => list[y] \in {0, joinedAt[y]} /\ (joinedAt[y] # 0 => list[y] # 0)
      BY <1>2, <1>5, <2>1, <2>2
    <3> QED
      BY <1>3, <2>2, <3>1 DEF Inv, Types
  <2>3. ASSUME NEW f \in net, f.kind = "membership", f.from = y, f.to = x, f.list[y] = joinedAt[y],
               f # e
        PROVE  \E g \in net' : /\ g.kind = "membership" /\ g.from = y /\ g.to = x
                               /\ g.list[y] = joinedAt[y]
    BY <2>3
  <2>4. CASE e.from = y /\ x = a /\ e.list[y] = joinedAt[y]
    <3>1. members' = [members EXCEPT ![a] = list]
      BY <1>3, <2>4
    <3>2. members[a][y] # 0 => joinedAt[y] # 0
      BY <2>1 DEF Inv, ListsAreGenuine, Genuine
    <3>3. list[y] = joinedAt[y]
      BY <1>2, <1>5, <2>1, <2>4, <3>2
    <3> QED
      BY <2>4, <3>1, <3>3 DEF Inv, Types
  <2> QED
    BY <2>1, <2>2, <2>3, <2>4 DEF Inv, JoinsArrive
<1>8. CapHolds'
  BY <1>3, NotFull DEF Inv, Types, CapHolds
<1>9. MessagesAreTimely' /\ HistoriesAreSound'
  BY DEF Inv, MessagesAreTimely, HistoriesAreSound
<1> QED
  BY <1>4, <1>6, <1>7, <1>8, <1>9 DEF Inv

\* Steps that leave the lists and the histories alone.
LEMMA QuietKeeps ==
  ASSUME Inv, UNCHANGED <<joinedAt, members, history>>, now' \in {now, now + 1},
         Types', MessagesAreTimely', cut \subseteq cut',
         \A e \in net' \ net : e.kind # "membership",
         \A e \in net \ net' : e.kind = "membership" => e.to \in cut' \/ e.from \in cut'
  PROVE  Inv'
<1>1. ListsAreGenuine'
  <2>1. \A a \in Account : joinedAt[a] <= now'
    BY DEF Inv, Types, ListsAreGenuine, List
  <2> QED
    BY <2>1 DEF Inv, ListsAreGenuine, Genuine
<1>2. JoinsArrive'
  BY DEF Inv, JoinsArrive
<1>3. CapHolds' /\ HistoriesAreSound'
  BY DEF Inv, CapHolds, HistoriesAreSound
<1> QED
  BY <1>1, <1>2, <1>3 DEF Inv

\* A message or a chunk changes the history of its receiver.
LEMMA HistoryKeeps ==
  ASSUME Inv, NEW a \in Account, joinedAt[a] # 0, NEW incoming \in SUBSET Record, Single(incoming),
         \A r \in incoming : r.at >= joinedAt[a],
         history' = [history EXCEPT ![a] = MergeRoomHistory(@, incoming)], UNCHANGED joinedAt
  PROVE  HistoriesAreSound' /\ history' \in [Account -> SUBSET Record]
<1>1. history[a] \in SUBSET Record /\ Single(history[a])
  BY DEF Inv, Types, HistoriesAreSound
<1>2. PICK records \in SUBSET Record : records = MergeRoomHistory(history[a], incoming)
         /\ Single(records) /\ records \subseteq history[a] \cup incoming
  BY <1>1, MergeKeepsSingle
<1>3. history' = [history EXCEPT ![a] = records]
  BY <1>2
<1> QED
  BY <1>2, <1>3 DEF Inv, Types, HistoriesAreSound, Single

LEMMA NetHolds ==
  ASSUME Inv, NEW e \in net
  PROVE  /\ e.kind = "message" => e \in Text /\ joinedAt[e.from] # 0 /\ joinedAt[e.to] # 0
                                  /\ joinedAt[e.to] <= e.at
         /\ e.kind = "request" => e \in Query
         /\ e.kind = "chunk" => e \in Chunk /\ Single(e.records)
  BY DEF Inv, Types, MessagesAreTimely, Membership, Text, Query, Chunk

LEMMA MessageKeeps ==
  ASSUME Inv, NEW a \in Account, NEW e \in net, e.to = a, e.kind = "message",
         net' = net \ {e}, HandleMessage(a, e),
         UNCHANGED <<now, joinedAt, post, sync, syncs>>
  PROVE  Inv'
<1>1. /\ e \in Text /\ joinedAt[e.from] # 0 /\ joinedAt[a] # 0 /\ joinedAt[a] <= e.at
      /\ e.from \in Account /\ e.msg \in Message /\ e.at \in Nat
  BY NetHolds DEF Text
<1>2. now \in Nat \ {0} /\ members[a] \in List /\ joinedAt \in List
  BY DEF Inv, Types
<1>3. PICK list \in List :
         /\ list = IF members[a][e.from] # 0 THEN members[a]
                   ELSE mergeRoomMembers(members[a], Only(e.from, now))
         /\ \A b \in Account : list[b] = IF b = e.from /\ members[a][b] = 0 THEN now ELSE members[a][b]
  <2>1. mergeRoomMembers(members[a], Only(e.from, now)) \in List
    BY <1>1, <1>2, OnlyIsList, MergeOfLists
  <2>2. \A b \in Account : members[a][e.from] = 0 =>
           mergeRoomMembers(members[a], Only(e.from, now))[b] =
              IF b = e.from /\ members[a][b] = 0 THEN now ELSE members[a][b]
    BY <1>1, <1>2 DEF mergeRoomMembers, Only, List, Later, Sooner
  <2> QED
    BY <1>2, <2>1, <2>2
<1> DEFINE r == [msg |-> e.msg, at |-> e.at, by |-> e.from]
<1>4. \/ cut' = cut \cup {a, e.from} /\ UNCHANGED <<members, history>>
      \/ /\ ~Full(list) /\ members' = [members EXCEPT ![a] = list] /\ UNCHANGED cut
         /\ history' = [history EXCEPT ![a] = MergeRoomHistory(@, {r})]
  BY <1>3 DEF HandleMessage
<1>5. HistoriesAreSound' /\ history' \in [Account -> SUBSET Record]
  <2>1. {r} \in SUBSET Record /\ Single({r}) /\ \A q \in {r} : q.at >= joinedAt[a]
    BY <1>1, <1>2 DEF Record, Single, List
  <2>2. CASE UNCHANGED history
    BY <2>2 DEF Inv, Types, HistoriesAreSound
  <2>3. CASE history' = [history EXCEPT ![a] = MergeRoomHistory(@, {r})]
    <3> HIDE DEF r
    <3> QED
      BY <1>1, <2>1, <2>3, HistoryKeeps
  <2> QED
    BY <1>4, <2>2, <2>3
<1> HIDE DEF r
<1>6. Types'
  BY <1>1, <1>4, <1>5 DEF Inv, Types
<1>7. \A b \in Account : /\ list[b] # 0 => joinedAt[b] # 0 /\ list[b] >= joinedAt[b]
                         /\ members[a][b] = joinedAt[b] => list[b] = joinedAt[b]
  BY <1>1, <1>2, <1>3 DEF Inv, ListsAreGenuine, Genuine, List
<1>8. ListsAreGenuine'
  <2>1. \A b \in Account : Genuine(members[b])'
    BY <1>4, <1>7 DEF Inv, Types, ListsAreGenuine, Genuine
  <2>2. \A b \in Account : joinedAt[b] # 0 => members'[b][b] = joinedAt[b]
    BY <1>4, <1>7 DEF Inv, Types, ListsAreGenuine
  <2> QED
    BY <2>1, <2>2 DEF Inv, ListsAreGenuine, Genuine
<1>9. JoinsArrive'
  <2>1. \A x \in Account : \A y \in Reachable(x) :
           members[x][y] = joinedAt[y] => members'[x][y] = joinedAt[y]
    BY <1>4, <1>7 DEF Inv, Types, Reachable
  <2> QED
    BY <1>4, <2>1 DEF Inv, JoinsArrive
<1>10. CapHolds'
  BY <1>4, NotFull DEF Inv, Types, CapHolds
<1>11. MessagesAreTimely'
  BY DEF Inv, MessagesAreTimely
<1> QED
  BY <1>5, <1>6, <1>8, <1>9, <1>10, <1>11 DEF Inv

LEMMA SinceJoinIsLater ==
  ASSUME Inv, NEW t \in Nat PROVE SinceJoin(t) \in Nat /\ SinceJoin(t) >= t
  BY RoomsAssumption DEF Inv, Types, SinceJoin, Later

LEMMA RequestKeeps ==
  ASSUME Inv, NEW a \in Account, NEW e \in net, e.to = a, e.kind = "request", HandleRequest(a, e),
         UNCHANGED <<now, joinedAt, members, history, post, sync, syncs, cut>>
  PROVE  Inv'
<1>1. e \in Query
  BY NetHolds
<1>2. net' = net \ {e} \/ \E found \in SUBSET history[a] : net' = (net \ {e}) \cup
               {[kind |-> "chunk", from |-> a, to |-> e.from, id |-> e.id,
                 records |-> c, last |-> c = CHOOSE d \in Chunks(found) : TRUE] :
                    c \in Chunks(found)}
  <2> DEFINE since == Later(SinceJoin(members[a][e.from]), e.since)
             until == Later(Sooner(now, e.until), since)
             found == {r \in history[a] : InWindow(r.at, since, until)}
  <2>1. found \in SUBSET history[a]
    OBVIOUS
  <2> QED
    BY <2>1 DEF HandleRequest
<1>3. \A found \in SUBSET history[a] : \A c \in Chunks(found) : c \in SUBSET Record /\ Single(c)
  <2>1. history[a] \in SUBSET Record
    BY DEF Inv, Types
  <2> QED
    BY <2>1 DEF Chunks, Single
<1>4. \A f \in net' \ net : f \in Chunk /\ f.kind = "chunk" /\ Single(f.records)
  <2>1. ASSUME NEW found \in SUBSET history[a], NEW c \in Chunks(found)
        PROVE  LET f == [kind |-> "chunk", from |-> a, to |-> e.from, id |-> e.id,
                         records |-> c, last |-> c = CHOOSE d \in Chunks(found) : TRUE]
               IN f \in Chunk /\ f.kind = "chunk" /\ Single(f.records)
    <3>1. (c = CHOOSE d \in Chunks(found) : TRUE) \in BOOLEAN
      OBVIOUS
    <3>2. \A l \in BOOLEAN :
             LET f == [kind |-> "chunk", from |-> a, to |-> e.from, id |-> e.id,
                       records |-> c, last |-> l]
             IN f \in Chunk /\ f.kind = "chunk" /\ Single(f.records)
      BY <1>1, <1>3 DEF Chunk, Query
    <3> QED
      BY <3>1, <3>2
  <2> QED
    BY <1>2, <2>1
<1>5. \A f \in net \ net' : f = e
  BY <1>2
<1>6. Types'
  BY <1>4 DEF Inv, Types
<1>7. MessagesAreTimely'
  BY <1>4 DEF Inv, MessagesAreTimely
<1> QED
  BY <1>4, <1>5, <1>6, <1>7, QuietKeeps

LEMMA ChunkKeeps ==
  ASSUME Inv, NEW a \in Account, NEW e \in net, e.to = a, e.kind = "chunk", HandleChunk(a, e),
         net' = net \ {e}, UNCHANGED <<now, joinedAt, members, post, syncs, cut>>
  PROVE  Inv'
<1>1. e \in Chunk /\ Single(e.records) /\ e.records \in SUBSET Record
  BY NetHolds DEF Chunk
<1> DEFINE kept == {r \in e.records : /\ InWindow(r.at, SinceJoin(joinedAt[a]), now)
                                      /\ members[a][r.by] # 0}
<1>2. joinedAt[a] \in Nat /\ SinceJoin(joinedAt[a]) \in Nat /\ SinceJoin(joinedAt[a]) >= joinedAt[a]
  BY SinceJoinIsLater DEF Inv, Types, List
<1>3. kept \in SUBSET Record /\ Single(kept) /\ \A r \in kept : r.at >= joinedAt[a]
  <2>1. \A r \in kept : r.at \in Nat /\ SinceJoin(joinedAt[a]) <= r.at
    BY <1>1 DEF InWindow, Record
  <2> QED
    BY <1>1, <1>2, <2>1 DEF Single
<1>4. /\ \/ UNCHANGED history
         \/ joinedAt[a] # 0 /\ history' = [history EXCEPT ![a] = MergeRoomHistory(@, kept)]
      /\ sync' = sync \/ sync' = [sync EXCEPT ![a] = 0]
  BY DEF HandleChunk
<1> HIDE DEF kept
<1>5. HistoriesAreSound' /\ history' \in [Account -> SUBSET Record]
  BY <1>3, <1>4, HistoryKeeps DEF Inv, Types, HistoriesAreSound
<1>6. Types'
  BY <1>4, <1>5 DEF Inv, Types
<1>7. ListsAreGenuine' /\ CapHolds' /\ MessagesAreTimely'
  BY DEF Inv, ListsAreGenuine, Genuine, CapHolds, MessagesAreTimely
<1>8. JoinsArrive'
  BY DEF Inv, JoinsArrive
<1> QED
  BY <1>5, <1>6, <1>7, <1>8 DEF Inv

LEMMA SendingKeeps ==
  ASSUME Inv, NEW m \in Message PROVE
     /\ SendEnvelope(m) => Inv'
     /\ SendFails(m) => Inv'
     /\ \A a \in Account : SendMessage(a, m) => Inv'
<1>1. ASSUME SendEnvelope(m) PROVE Inv'
  <2>1. PICK b \in post[m].left :
          /\ net' = net \cup {[kind |-> "message", from |-> post[m].by, to |-> b,
                               msg |-> m, at |-> post[m].at]}
          /\ post' = [post EXCEPT ![m].left = @ \ {b}]
    BY <1>1 DEF SendEnvelope
  <2>2. /\ post[m].pc = "sending" /\ UNCHANGED <<now, joinedAt, members, history, sync, syncs, cut>>
    BY <1>1 DEF SendEnvelope
  <2>3. post[m] \in [pc : {"sending"}, by : Account, at : Nat, left : SUBSET Account]
    BY <2>2 DEF Inv, Types
  <2> DEFINE e == [kind |-> "message", from |-> post[m].by, to |-> b, msg |-> m, at |-> post[m].at]
             p == [post[m] EXCEPT !.left = @ \ {b}]
  <2>4. e \in Text /\ e.kind = "message" /\ joinedAt[e.from] # 0 /\ joinedAt[e.to] # 0
        /\ joinedAt[e.to] <= e.at
    BY <2>2, <2>3 DEF Text, Inv, MessagesAreTimely
  <2>5. /\ p \in [pc : {"sending"}, by : Account, at : Nat, left : SUBSET Account]
        /\ p.by = post[m].by /\ p.at = post[m].at /\ p.left \subseteq post[m].left
    BY <2>3
  <2>6. post' = [post EXCEPT ![m] = p] /\ net' = net \cup {e}
    BY <2>1
  <2> HIDE DEF e, p
  <2>7. Types'
    BY <2>2, <2>4, <2>5, <2>6 DEF Inv, Types
  <2>8. MessagesAreTimely'
    BY <2>2, <2>4, <2>5, <2>6 DEF Inv, Types, MessagesAreTimely
  <2> QED
    BY <2>2, <2>4, <2>6, <2>7, <2>8, QuietKeeps
<1>2. ASSUME SendFails(m) PROVE Inv'
  <2>1. /\ post' = [post EXCEPT ![m] = [pc |-> "failed"]]
        /\ UNCHANGED <<now, joinedAt, members, history, sync, syncs, net, cut>>
    BY <1>2 DEF SendFails
  <2>2. Types' /\ MessagesAreTimely'
    BY <2>1 DEF Inv, Types, MessagesAreTimely
  <2> QED
    BY <2>1, <2>2, QuietKeeps
<1>3. ASSUME NEW a \in Account, SendMessage(a, m) PROVE Inv'
  <2> DEFINE p == [pc |-> "sending", by |-> a, at |-> now, left |-> roomSyncRecipients(a)]
  <2>1. /\ joinedAt[a] # 0 /\ post' = [post EXCEPT ![m] = p]
        /\ UNCHANGED <<now, joinedAt, members, history, sync, syncs, net, cut>>
    BY <1>3 DEF SendMessage
  <2>2. \A b \in roomSyncRecipients(a) : b \in Account /\ joinedAt[b] # 0 /\ joinedAt[b] <= now
    BY DEF roomSyncRecipients, MemberSet, Inv, ListsAreGenuine, Genuine
  <2>3. /\ p \in [pc : {"sending"}, by : Account, at : Nat, left : SUBSET Account]
        /\ p.by = a /\ p.at = now /\ p.left = roomSyncRecipients(a)
    BY <2>2 DEF Inv, Types
  <2> HIDE DEF p
  <2>4. Types'
    BY <2>1, <2>3 DEF Inv, Types
  <2>5. MessagesAreTimely'
    BY <2>1, <2>2, <2>3 DEF Inv, Types, ListsAreGenuine, MessagesAreTimely
  <2> QED
    BY <2>1, <2>4, <2>5, QuietKeeps
<1> QED
  BY <1>1, <1>2, <1>3

LEMMA SentKeeps ==
  ASSUME Inv, NEW m \in Message, Sent(m) PROVE Inv'
<1> DEFINE a == post[m].by
           r == [msg |-> m, at |-> now, by |-> a]
<1>1. /\ post[m].pc = "sending" /\ post' = [post EXCEPT ![m] = [pc |-> "sent"]]
      /\ history' = [history EXCEPT ![a] = MergeRoomHistory(@, {r})]
      /\ UNCHANGED <<now, joinedAt, members, sync, syncs, net, cut>>
  BY DEF Sent
<1>2. a \in Account /\ joinedAt[a] # 0 /\ joinedAt[a] <= now
  BY <1>1 DEF Inv, Types, ListsAreGenuine, MessagesAreTimely
<1>3. {r} \in SUBSET Record /\ Single({r}) /\ \A q \in {r} : q.at >= joinedAt[a]
  BY <1>2 DEF Inv, Types, List, Record, Single
<1> HIDE DEF a, r
<1>4. HistoriesAreSound' /\ history' \in [Account -> SUBSET Record]
  BY <1>1, <1>2, <1>3, HistoryKeeps
<1>5. Types'
  BY <1>1, <1>4 DEF Inv, Types
<1>6. MessagesAreTimely'
  BY <1>1 DEF Inv, Types, MessagesAreTimely
<1>7. ListsAreGenuine' /\ CapHolds' /\ JoinsArrive'
  BY <1>1 DEF Inv, ListsAreGenuine, Genuine, CapHolds, JoinsArrive
<1> QED
  BY <1>4, <1>5, <1>6, <1>7 DEF Inv

LEMMA RequestHistoryKeeps ==
  ASSUME Inv, NEW a \in Account, RequestHistory(a) PROVE Inv'
<1>1. /\ net' = net \cup {[kind |-> "request", from |-> a, to |-> b, id |-> syncs + 1,
                         since |-> SinceJoin(joinedAt[a]), until |-> now] :
                           b \in roomSyncRecipients(a)}
      /\ syncs' = syncs + 1 /\ sync' = [sync EXCEPT ![a] = syncs + 1]
      /\ UNCHANGED <<now, joinedAt, members, history, post, cut>>
  BY DEF RequestHistory
<1>2. SinceJoin(joinedAt[a]) \in Nat
  BY SinceJoinIsLater DEF Inv, Types, List
<1>3. roomSyncRecipients(a) \subseteq Account
  BY DEF roomSyncRecipients, MemberSet
<1>4. \A e \in net' \ net : e \in Query /\ e.kind = "request"
  BY <1>1, <1>2, <1>3 DEF Query, Inv, Types
<1>5. Types'
  BY <1>1, <1>4 DEF Inv, Types
<1>6. MessagesAreTimely'
  BY <1>1, <1>4 DEF Inv, MessagesAreTimely
<1> QED
  BY <1>1, <1>4, <1>5, <1>6, QuietKeeps

LEMMA ReceiveKeeps ==
  ASSUME Inv, NEW a \in Account, Receive(a) PROVE Inv'
<1>1. PICK e \in net : e.to = a /\
        \/ /\ e.kind = "membership" /\ net' = net \ {e}
           /\ HandleMembership(a, e)
           /\ UNCHANGED <<now, joinedAt, history, post, sync, syncs, faults>>
        \/ /\ e.kind = "message" /\ net' = net \ {e}
           /\ HandleMessage(a, e)
           /\ UNCHANGED <<now, joinedAt, post, sync, syncs, faults>>
        \/ /\ e.kind = "request"
           /\ HandleRequest(a, e)
           /\ UNCHANGED <<now, joinedAt, members, history, post, sync, syncs, faults, cut>>
        \/ /\ e.kind = "chunk" /\ net' = net \ {e}
           /\ HandleChunk(a, e)
           /\ UNCHANGED <<now, joinedAt, members, post, syncs, faults, cut>>
  BY DEF Receive
<1> QED
  BY <1>1, MembershipKeeps, MessageKeeps, RequestKeeps, ChunkKeeps

LEMMA OtherStepsKeep ==
  ASSUME Inv PROVE
     /\ Tick => Inv'
     /\ \A a \in Account : SyncTimeout(a) \/ Restart(a) => Inv'
     /\ \A e \in net : Lose(e) => Inv'
     /\ UNCHANGED vars => Inv'
<1>1. ASSUME Tick PROVE Inv'
  <2>1. now' = now + 1 /\ UNCHANGED <<joinedAt, members, history, post, sync, syncs, net, cut>>
    BY <1>1 DEF Tick
  <2>2. Types'
    BY <2>1 DEF Inv, Types
  <2>3. MessagesAreTimely'
    BY <2>1 DEF Inv, Types, MessagesAreTimely
  <2> QED
    BY <2>1, <2>2, <2>3, QuietKeeps
<1>2. ASSUME NEW a \in Account, SyncTimeout(a) PROVE Inv'
  <2>1. sync' = [sync EXCEPT ![a] = 0]
        /\ UNCHANGED <<now, joinedAt, members, history, post, syncs, net, cut>>
    BY <1>2 DEF SyncTimeout
  <2>2. Types' /\ MessagesAreTimely'
    BY <2>1 DEF Inv, Types, MessagesAreTimely
  <2> QED
    BY <2>1, <2>2, QuietKeeps
<1>3. ASSUME NEW a \in Account, Restart(a) PROVE Inv'
  <2>1. /\ sync' = [sync EXCEPT ![a] = 0]
        /\ UNCHANGED <<now, joinedAt, members, history, syncs, net, cut>>
    BY <1>3 DEF Restart
  <2>2. post' = [m \in Message |-> IF post[m].pc = "sending" /\ post[m].by = a
                                   THEN [pc |-> "failed"] ELSE post[m]]
    BY <1>3 DEF Restart
  <2>3. Types'
    BY <2>1, <2>2 DEF Inv, Types
  <2>4. MessagesAreTimely'
    BY <2>1, <2>2 DEF Inv, MessagesAreTimely
  <2> QED
    BY <2>1, <2>3, <2>4, QuietKeeps
<1>4. ASSUME NEW e \in net, Lose(e) PROVE Inv'
  <2>1. /\ net' = net \ {e} /\ cut' = cut \cup {e.to, e.from}
        /\ UNCHANGED <<now, joinedAt, members, history, post, sync, syncs>>
    BY <1>4 DEF Lose
  <2>2. e.to \in Account /\ e.from \in Account
    BY DEF Inv, Types, Membership, Text, Query, Chunk
  <2>3. Types' /\ MessagesAreTimely'
    BY <2>1, <2>2 DEF Inv, Types, MessagesAreTimely
  <2> QED
    BY <2>1, <2>3, QuietKeeps
<1>5. ASSUME UNCHANGED vars PROVE Inv'
  BY <1>5, QuietKeeps DEF vars, Inv, Types, MessagesAreTimely
<1> QED
  BY <1>1, <1>2, <1>3, <1>4, <1>5

-----------------------------------------------------------------------------
\* What every behaviour keeps (the two theorems below follow from it).
THEOREM InvCorrect == Spec => []Inv
<1>1. Inv /\ [Next]_vars => Inv'
  BY JoinKeeps, ReceiveKeeps, SendingKeeps, SentKeeps, RequestHistoryKeeps, OtherStepsKeep DEF Next
<1> QED
  BY InitIsSound, <1>1, PTL DEF Spec

\* Member lists are sound whatever order lists and messages arrive in, and
\* those of contacts agree when nothing was cut (room.go, mergeRoomMembers).
THEOREM MembershipIsSoundCorrect == Spec => []MembershipIsSound
<1>1. Inv => MembershipIsSound
  <2> SUFFICES ASSUME Inv, NEW a \in Account
      PROVE
        /\ \A b \in MemberSet(members[a]) : joinedAt[b] # 0 /\ members[a][b] >= joinedAt[b]
        /\ joinedAt[a] # 0 => members[a][a] = joinedAt[a]
        /\ \A b \in Reachable(a) \ cut :
              \/ a \in cut \/ members[a][b] = joinedAt[b]
              \/ \E e \in net : e.from = b /\ e.to = a
        /\ Cardinality(MemberSet(members[a])) <= Cap
    BY DEF MembershipIsSound
  <2>1. \A b \in MemberSet(members[a]) : joinedAt[b] # 0 /\ members[a][b] >= joinedAt[b]
    BY DEF Inv, ListsAreGenuine, Genuine, MemberSet
  <2>2. \A b \in Reachable(a) \ cut :
              \/ a \in cut \/ members[a][b] = joinedAt[b]
              \/ \E e \in net : e.from = b /\ e.to = a
    BY DEF Inv, JoinsArrive
  <2> QED
    BY <2>1, <2>2 DEF Inv, ListsAreGenuine, CapHolds
<1> QED
  BY <1>1, InvCorrect, PTL

\* A history begins when its account joined and has each message once, whether
\* the message came live, in chunks of several members, or both.
THEOREM HistoryIsSoundCorrect == Spec => []HistoryIsSound
<1>1. Inv => HistoryIsSound
  BY DEF Inv, HistoriesAreSound, Single, HistoryIsSound
<1> QED
  BY <1>1, InvCorrect, PTL
=============================================================================
