-------------------------- MODULE RelayStoreProofs --------------------------
(***************************************************************************)
(* Proofs about what the relay stores: the directory, for any accounts,    *)
(* mailboxes, keys and number of concurrent subscribe requests; the queue  *)
(* that is kept in memory, for any envelopes, sizes and limits; and the    *)
(* rendezvous slot, for any number of exchanges.                           *)
(*                                                                         *)
(* The three models share no variable; each has a specification of its     *)
(* own.                                                                    *)
(***************************************************************************)
EXTENDS RelayDirectory, MemoryQueue, Rendezvous, FiniteSetTheorems, TLAPS

-----------------------------------------------------------------------------
(* The directory                                                            *)

\* The actions of one request, as one step of verifySubscribeRequest.
RequestStep(r) ==
    \/ \E m \in Mailbox, k \in Key : Subscribe(r, m, k)
    \/ LookupAccount(r) \/ LoadEntry(r) \/ AuthorizeMailbox(r)
    \/ Return(r)

-----------------------------------------------------------------------------
\* Every bucket of the store and every request field keeps its type.
THEOREM TypeCorrect == Spec => []TypeOK
<1>1. Init => TypeOK
  BY SentinelAssumption DEF Init, TypeOK, PCs
<1>2. TypeOK /\ [Next]_vars => TypeOK'
  <2> SUFFICES ASSUME TypeOK, [Next]_vars PROVE TypeOK'
    OBVIOUS
  <2>1. ASSUME NEW entry \in Entry, PutDirectoryEntry(entry) PROVE TypeOK'
    <3>1. /\ entry.account \in Account
          /\ entry.devices \in [Mailbox -> Key \union {NoKey}]
      BY DEF Entry
    <3>2. directory' \in [Account -> Entry \union {NoEntry}]
      BY <2>1, <3>1 DEF PutDirectoryEntry, TypeOK
    <3>3. accounts' \in [Mailbox -> Account \union {NoAccount}]
      BY <2>1, <3>1 DEF PutDirectoryEntry, SyncOwners, TypeOK
    <3>4. claims' \in [Mailbox -> Key \union {NoKey}]
      BY <2>1, <3>1 DEF PutDirectoryEntry, SyncOwners, TypeOK
    <3>5. \A m \in Listed(entry) : m \in Mailbox /\ entry.devices[m] \in Key
      BY <3>1 DEF Listed
    <3>6. published' \in SUBSET (Mailbox \X Key)
      BY <2>1, <3>5 DEF PutDirectoryEntry, TypeOK
    <3> QED
      BY <2>1, <3>2, <3>3, <3>4, <3>6 DEF PutDirectoryEntry, requestVars, TypeOK
  <2>2. ASSUME NEW r \in Request, RequestStep(r) PROVE TypeOK'
    <3>1. ASSUME NEW m \in Mailbox, NEW k \in Key, Subscribe(r, m, k) PROVE TypeOK'
      BY <3>1 DEF Subscribe, Goto, TypeOK, PCs
    <3>2. CASE LookupAccount(r)
      BY <3>2 DEF LookupAccount, Goto, TypeOK, PCs
    <3>3. CASE LoadEntry(r)
      BY <3>3 DEF LoadEntry, Goto, TypeOK, PCs
    <3>4. CASE AuthorizeMailbox(r)
      BY <3>4 DEF AuthorizeMailbox, Goto, TypeOK, PCs
    <3>5. CASE Return(r)
      BY <3>5 DEF Return, Goto, TypeOK, PCs
    <3> QED
      BY <2>2, <3>1, <3>2, <3>3, <3>4, <3>5 DEF RequestStep
  <2>3. CASE UNCHANGED vars
    BY <2>3 DEF vars, requestVars, TypeOK
  <2> QED
    BY <2>1, <2>2, <2>3 DEF Next, RequestStep
<1> QED
  BY <1>1, <1>2, PTL DEF Spec

-----------------------------------------------------------------------------
(***************************************************************************)
(* Ownership mirrors the directory.  A publication deletes the mailboxes   *)
(* its previous entry listed by that entry's account, so the argument      *)
(* needs to know that entries are stored under their own account.          *)
(***************************************************************************)
OwnershipInv == TypeOK /\ EntriesAreFiled /\ OwnershipMirrorsDirectory

\* What a publication does to the derived buckets, mailbox by mailbox.
LEMMA PublicationEffect ==
    ASSUME TypeOK, EntriesAreFiled, OwnershipMirrorsDirectory,
           NEW entry \in Entry, PutDirectoryEntry(entry), NEW m \in Mailbox
    PROVE  /\ m \in Listed(entry) =>
                accounts'[m] = entry.account /\ claims'[m] = entry.devices[m]
           /\ m \notin Listed(entry) /\ accounts[m] = entry.account =>
                accounts'[m] = NoAccount /\ claims'[m] = NoKey
           /\ m \notin Listed(entry) /\ accounts[m] # entry.account =>
                accounts'[m] = accounts[m] /\ claims'[m] = claims[m]
<1> DEFINE current == directory[entry.account]
<1>1. entry.account \in Account
  BY DEF Entry
<1>2. m \in Released(current) <=> m \in Listed(current) /\ accounts[m] = entry.account
  BY <1>1 DEF Released, Listed, EntriesAreFiled
<1>3. accounts[m] = entry.account => m \in Listed(current)
  BY <1>1 DEF OwnershipMirrorsDirectory
<1> QED
  BY <1>2, <1>3 DEF PutDirectoryEntry, SyncOwners

\* A publication keeps the derived buckets in step with the directory.
LEMMA PublicationKeepsOwnership ==
    ASSUME OwnershipInv, NEW entry \in Entry, PutDirectoryEntry(entry)
    PROVE  EntriesAreFiled' /\ OwnershipMirrorsDirectory'
<1> USE DEF OwnershipInv
<1>1. entry.account \in Account /\ entry # NoEntry
  BY NoEntryAssumption DEF Entry
<1>2. \A a \in Account : directory'[a] = IF a = entry.account THEN entry ELSE directory[a]
  BY <1>1 DEF PutDirectoryEntry, TypeOK
<1>3. EntriesAreFiled'
  BY <1>2 DEF EntriesAreFiled
<1>4. ASSUME NEW m \in Mailbox, NEW a \in Account
      PROVE  /\ accounts'[m] = a => /\ m \in Listed(directory'[a])
                                    /\ claims'[m] = directory'[a].devices[m]
             /\ m \in Listed(directory'[a]) => accounts'[m] = a
  <2>1. NoAccount # a
    BY SentinelAssumption
  <2>2. CASE m \in Listed(entry)
    <3>1. accounts'[m] = entry.account /\ claims'[m] = entry.devices[m]
      BY <2>2, PublicationEffect
    <3>2. accounts[m] \in {NoAccount, entry.account}
      BY <2>2 DEF PutDirectoryEntry, OwnersAgree
    <3>3. a # entry.account => m \notin Listed(directory[a])
      BY <2>1, <3>2 DEF OwnershipMirrorsDirectory
    <3> QED
      BY <1>2, <2>2, <3>1, <3>3
  <2>3. CASE m \notin Listed(entry) /\ accounts[m] = entry.account
    <3>1. accounts'[m] = NoAccount
      BY <2>3, PublicationEffect
    <3>2. a # entry.account => m \notin Listed(directory[a])
      BY <2>3 DEF OwnershipMirrorsDirectory
    <3> QED
      BY <1>2, <2>1, <2>3, <3>1, <3>2
  <2>4. CASE m \notin Listed(entry) /\ accounts[m] # entry.account
    <3>1. accounts'[m] = accounts[m] /\ claims'[m] = claims[m]
      BY <2>4, PublicationEffect
    <3> QED
      BY <1>2, <2>4, <3>1 DEF OwnershipMirrorsDirectory
  <2> QED
    BY <2>2, <2>3, <2>4
<1> QED
  BY <1>3, <1>4 DEF OwnershipMirrorsDirectory

\* The conjunction is inductive; AuthorizeMailbox only claims a mailbox that
\* no current entry lists, since a listed one has a claim.
LEMMA OwnershipInductive == Spec => []OwnershipInv
<1>1. Init => OwnershipInv
  <2> SUFFICES ASSUME Init PROVE EntriesAreFiled /\ OwnershipMirrorsDirectory /\ TypeOK
    BY DEF OwnershipInv
  <2>1. TypeOK
    BY SentinelAssumption DEF Init, TypeOK, PCs
  <2> QED
    BY <2>1, SentinelAssumption
    DEF Init, EntriesAreFiled, OwnershipMirrorsDirectory, Listed
<1>2. OwnershipInv /\ TypeOK' /\ [Next]_vars => OwnershipInv'
  <2> SUFFICES ASSUME OwnershipInv, TypeOK', [Next]_vars
               PROVE EntriesAreFiled' /\ OwnershipMirrorsDirectory'
    BY DEF OwnershipInv
  <2>1. ASSUME NEW entry \in Entry, PutDirectoryEntry(entry)
        PROVE EntriesAreFiled' /\ OwnershipMirrorsDirectory'
    BY <2>1, PublicationKeepsOwnership
  <2>2. ASSUME NEW r \in Request, AuthorizeMailbox(r)
        PROVE EntriesAreFiled' /\ OwnershipMirrorsDirectory'
    <3>1. UNCHANGED <<directory, accounts>>
      BY <2>2 DEF AuthorizeMailbox
    <3>2. ASSUME NEW m \in Mailbox, NEW a \in Account, accounts[m] = a
          PROVE claims'[m] = claims[m]
      <4>1. claims[m] # NoKey
        BY <3>2 DEF OwnershipInv, OwnershipMirrorsDirectory, Listed
      <4> QED
        BY <2>2, <4>1 DEF AuthorizeMailbox, OwnershipInv, TypeOK
    <3> QED
      BY <3>1, <3>2 DEF OwnershipInv, EntriesAreFiled, OwnershipMirrorsDirectory
  <2>3. CASE UNCHANGED <<directory, accounts, claims>>
    BY <2>3 DEF OwnershipInv, EntriesAreFiled, OwnershipMirrorsDirectory
  <2> QED
    BY <2>1, <2>2, <2>3
    DEF Next, Subscribe, LookupAccount, LoadEntry, Return, vars
<1> QED
  BY <1>1, <1>2, TypeCorrect, PTL DEF Spec

\* However publications and subscribe requests interleave, an account owns
\* exactly the mailboxes its current entry lists, claimed by the listed keys.
THEOREM OwnershipCorrect == Spec => []OwnershipMirrorsDirectory
<1>1. OwnershipInv => OwnershipMirrorsDirectory
  BY DEF OwnershipInv
<1> QED
  BY <1>1, OwnershipInductive, PTL

-----------------------------------------------------------------------------
(***************************************************************************)
(* Claims.  A request that has passed its checks carries a pair that was   *)
(* listed when it looked, and stays published history afterwards.          *)
(***************************************************************************)
ListedWasPublished ==
    \A a \in Account : \A m \in Listed(directory[a]) :
        <<m, directory[a].devices[m]>> \in published

RequestsCarryPublished ==
    \A r \in Request :
        /\ pc[r] # "idle" => asked[r].key \in Key
        /\ pc[r] = "entry" => found[r] \in Account
        /\ pc[r] = "authorize" => <<asked[r].mailbox, asked[r].key>> \in published

ClaimsInv ==
    TypeOK /\ ListedWasPublished /\ RequestsCarryPublished /\ ClaimsWerePublished

\* A publication only adds to the published pairs and claims what it lists.
LEMMA PublicationKeepsClaims ==
    ASSUME ClaimsInv, NEW entry \in Entry, PutDirectoryEntry(entry)
    PROVE  ListedWasPublished' /\ RequestsCarryPublished' /\ ClaimsWerePublished'
<1> USE DEF ClaimsInv
<1>1. /\ entry.account \in Account
      /\ \A m \in Listed(entry) : <<m, entry.devices[m]>> \in published'
      /\ published \subseteq published'
  BY DEF PutDirectoryEntry, Entry
<1>2. \A a \in Account : directory'[a] = IF a = entry.account THEN entry ELSE directory[a]
  BY <1>1 DEF PutDirectoryEntry, TypeOK
<1>3. ListedWasPublished'
  BY <1>1, <1>2 DEF ListedWasPublished
<1>4. RequestsCarryPublished'
  BY <1>1 DEF RequestsCarryPublished, PutDirectoryEntry, requestVars
<1>5. ClaimsWerePublished'
  <2> SUFFICES ASSUME NEW m \in Mailbox, claims'[m] # NoKey
               PROVE <<m, claims'[m]>> \in published'
    BY DEF ClaimsWerePublished
  <2>1. claims'[m] = IF m \in Listed(entry) THEN entry.devices[m]
                     ELSE IF m \in Released(directory[entry.account]) THEN NoKey
                     ELSE claims[m]
    BY DEF PutDirectoryEntry, SyncOwners
  <2> QED
    BY <1>1, <2>1 DEF ClaimsWerePublished
<1> QED
  BY <1>3, <1>4, <1>5

\* So does every step of a request.
LEMMA RequestKeepsClaims ==
    ASSUME ClaimsInv, NEW r \in Request, RequestStep(r)
    PROVE  ListedWasPublished' /\ RequestsCarryPublished' /\ ClaimsWerePublished'
<1> USE DEF ClaimsInv
<1>1. ASSUME NEW m \in Mailbox, NEW k \in Key, Subscribe(r, m, k)
      PROVE ListedWasPublished' /\ RequestsCarryPublished' /\ ClaimsWerePublished'
  BY <1>1 DEF Subscribe, Goto, TypeOK, ListedWasPublished, RequestsCarryPublished,
              ClaimsWerePublished
<1>2. CASE LookupAccount(r)
  <2>1. accounts[asked[r].mailbox] # NoAccount => accounts[asked[r].mailbox] \in Account
    BY DEF TypeOK
  <2> QED
    BY <1>2, <2>1 DEF LookupAccount, Goto, TypeOK, ListedWasPublished,
                      RequestsCarryPublished, ClaimsWerePublished
<1>3. CASE LoadEntry(r)
  <2>1. Authorizes(directory[found[r]], asked[r].mailbox, asked[r].key)
          => <<asked[r].mailbox, asked[r].key>> \in published
    <3>1. found[r] \in Account /\ asked[r].key \in Key /\ asked[r].mailbox \in Mailbox
      BY <1>3 DEF LoadEntry, RequestsCarryPublished, TypeOK
    <3>2. asked[r].key # NoKey
      BY <3>1, SentinelAssumption
    <3> QED
      BY <3>1, <3>2 DEF Authorizes, Listed, ListedWasPublished
  <2> QED
    BY <1>3, <2>1 DEF LoadEntry, Goto, TypeOK, ListedWasPublished,
                      RequestsCarryPublished, ClaimsWerePublished
<1>4. CASE AuthorizeMailbox(r)
  BY <1>4 DEF AuthorizeMailbox, Goto, TypeOK, ListedWasPublished,
              RequestsCarryPublished, ClaimsWerePublished
<1>5. CASE Return(r)
  BY <1>5 DEF Return, Goto, TypeOK, ListedWasPublished, RequestsCarryPublished,
              ClaimsWerePublished
<1> QED
  BY <1>1, <1>2, <1>3, <1>4, <1>5 DEF RequestStep

\* Every claim is by a key that some account published for that mailbox.
THEOREM ClaimsCorrect == Spec => []ClaimsWerePublished
<1>1. Init => ListedWasPublished /\ RequestsCarryPublished /\ ClaimsWerePublished
  BY DEF Init, Listed, ListedWasPublished, RequestsCarryPublished, ClaimsWerePublished
<1>2. ClaimsInv /\ [Next]_vars
        => ListedWasPublished' /\ RequestsCarryPublished' /\ ClaimsWerePublished'
  <2> SUFFICES ASSUME ClaimsInv, [Next]_vars
               PROVE ListedWasPublished' /\ RequestsCarryPublished' /\ ClaimsWerePublished'
    OBVIOUS
  <2>1. CASE UNCHANGED vars
    BY <2>1 DEF ClaimsInv, vars, ListedWasPublished, RequestsCarryPublished,
                ClaimsWerePublished
  <2> QED
    BY <2>1, PublicationKeepsClaims, RequestKeepsClaims DEF Next, RequestStep
<1>3. Spec => []ClaimsInv
  BY <1>1, <1>2, TypeCorrect, PTL DEF Spec, ClaimsInv
<1>4. ClaimsInv => ClaimsWerePublished
  BY DEF ClaimsInv
<1> QED
  BY <1>3, <1>4, PTL

-----------------------------------------------------------------------------
\* A mailbox never passes from one account or key straight to another.
THEOREM NeverChangesHandsCorrect == Spec => NeverChangesHands
<1> DEFINE Keeps(m) ==
      /\ accounts[m] # NoAccount => accounts'[m] \in {accounts[m], NoAccount}
      /\ claims[m] # NoKey => claims'[m] \in {claims[m], NoKey}
<1>1. TypeOK /\ [Next]_vars => [\A m \in Mailbox : Keeps(m)]_vars
  <2> SUFFICES ASSUME TypeOK, [Next]_vars, NEW m \in Mailbox PROVE Keeps(m)
    OBVIOUS
  <2>1. ASSUME NEW entry \in Entry, PutDirectoryEntry(entry) PROVE Keeps(m)
    <3>1. CASE m \in Listed(entry)
      BY <2>1, <3>1 DEF PutDirectoryEntry, OwnersAgree, SyncOwners
    <3>2. CASE m \notin Listed(entry)
      BY <2>1, <3>2 DEF PutDirectoryEntry, SyncOwners
    <3> QED
      BY <3>1, <3>2
  <2>2. ASSUME NEW r \in Request, AuthorizeMailbox(r) PROVE Keeps(m)
    BY <2>2 DEF AuthorizeMailbox, TypeOK
  <2>3. CASE UNCHANGED <<accounts, claims>>
    BY <2>3
  <2> QED
    BY <2>1, <2>2, <2>3 DEF Next, Subscribe, LookupAccount, LoadEntry, Return, vars
<1> QED
  BY <1>1, TypeCorrect, PTL DEF Spec, NeverChangesHands

-----------------------------------------------------------------------------
(* The loop of filterInPlace, which the proofs about the queue and the      *)
(* rendezvous slot both need                                                *)

\* The numbers from 1 to n are n.
LEMMA FirstNumbers == \A n \in Nat : IsFiniteSet(1..n) /\ Cardinality(1..n) = n
  BY FS_Interval

\* Each kept place has a rank among the kept places, and every rank a place.
LEMMA Ranks ==
  ASSUME NEW n \in Nat, NEW K \in SUBSET (1..n)
  PROVE  LET rank == [k \in K |-> Cardinality({j \in K : j <= k})]
         IN  /\ Cardinality(K) \in Nat
             /\ \A k \in K : rank[k] \in 1..Cardinality(K)
             /\ \A j, k \in K : rank[j] = rank[k] => j = k
             /\ \A i \in 1..Cardinality(K) : \E k \in K : rank[k] = i
<1> DEFINE upTo(k) == {j \in K : j <= k}
           rank == [k \in K |-> Cardinality(upTo(k))]
           c == Cardinality(K)
<1>1. IsFiniteSet(K) /\ c \in Nat
  <2>1. IsFiniteSet(1..n)
    BY FirstNumbers
  <2>2. IsFiniteSet(K)
    BY <2>1, FS_Subset
  <2> QED
    BY <2>2, FS_CardinalityType
<1>2. ASSUME NEW k \in K
      PROVE  IsFiniteSet(upTo(k)) /\ Cardinality(upTo(k)) \in 1..c
  <2>1. upTo(k) \in SUBSET K /\ k \in upTo(k)
    OBVIOUS
  <2>2. IsFiniteSet(upTo(k)) /\ Cardinality(upTo(k)) <= c
    BY <1>1, <2>1, FS_Subset
  <2>3. Cardinality(upTo(k)) \in Nat /\ Cardinality(upTo(k)) # 0
    BY <2>1, <2>2, FS_CardinalityType, FS_EmptySet
  <2> QED
    BY <1>1, <2>2, <2>3
<1>3. ASSUME NEW j \in K, NEW k \in K, j < k
      PROVE  Cardinality(upTo(j)) # Cardinality(upTo(k))
  <2>1. upTo(j) \in SUBSET upTo(k) /\ k \in upTo(k) /\ k \notin upTo(j)
    <3>1. \A i \in K : i \in Nat
      OBVIOUS
    <3>2. j \in Nat /\ k \in Nat /\ k <= k /\ ~(k <= j)
      BY <1>3, <3>1
    <3>3. \A i \in Nat : i <= j => i <= k
      BY <1>3, <3>2
    <3> QED
      BY <3>1, <3>2, <3>3
  <2>2. upTo(j) # upTo(k)
    BY <2>1
  <2>3. IsFiniteSet(upTo(k))
    BY <1>2
  <2> HIDE DEF upTo
  <2> QED
    BY <2>1, <2>2, <2>3, FS_Subset
<1>4. ASSUME NEW j \in K, NEW k \in K, rank[j] = rank[k]
      PROVE  j = k
  <2>1. j < k \/ k < j \/ j = k
    OBVIOUS
  <2> QED
    BY <1>3, <1>4, <2>1
<1>5. rank \in [K -> 1..c]
  BY <1>2
<1>6. rank \in Injection(K, 1..c)
  BY <1>4, <1>5 DEF Injection, IsInjective
<1>7. rank \in Surjection(K, 1..c)
  <2>1. IsFiniteSet(1..c) /\ Cardinality(1..c) = c
    BY <1>1, FirstNumbers
  <2> QED
    BY <1>6, <2>1, FS_Injection
<1>8. \A i \in 1..c : \E k \in K : rank[k] = i
  BY <1>7 DEF Surjection
<1> QED
  BY <1>1, <1>4, <1>5, <1>8

\* What is kept is a sequence of the values at the kept places, each of them at
\* its rank.
LEMMA FilterKeeps ==
  ASSUME NEW S, NEW s \in Seq(S), NEW K \in SUBSET DOMAIN s
  PROVE  LET f == filterInPlace(s, K)
         IN  /\ f \in Seq(S) /\ Len(f) = Cardinality(K)
             /\ \A i \in DOMAIN f : \E k \in K : f[i] = s[k]
             /\ \A k \in K : /\ Cardinality({j \in K : j <= k}) \in DOMAIN f
                             /\ f[Cardinality({j \in K : j <= k})] = s[k]
<1> DEFINE rank == [k \in K |-> Cardinality({j \in K : j <= k})]
           place(i) == CHOOSE k \in K : Cardinality({j \in K : j <= k}) = i
           c == Cardinality(K)
           f == [i \in 1..c |-> s[place(i)]]
<1>1. /\ c \in Nat /\ \A k \in K : rank[k] \in 1..c
      /\ \A j, k \in K : rank[j] = rank[k] => j = k
      /\ \A i \in 1..c : \E k \in K : rank[k] = i
  <2>1. Len(s) \in Nat /\ K \in SUBSET (1..Len(s))
    OBVIOUS
  <2> QED
    BY <2>1, Ranks
<1>2. \A i \in 1..c : place(i) \in K /\ rank[place(i)] = i
  <2> TAKE i \in 1..c
  <2>1. \E k \in K : Cardinality({j \in K : j <= k}) = i
    BY <1>1
  <2>2. place(i) \in K /\ Cardinality({j \in K : j <= place(i)}) = i
    BY <2>1
  <2> HIDE DEF place
  <2> QED
    BY <2>2
<1>3. \A k \in K : rank[k] \in 1..c /\ place(rank[k]) = k
  BY <1>1, <1>2
<1>4. filterInPlace(s, K) = f
  BY DEF filterInPlace
<1>5. \A k \in K : s[k] \in S /\ Cardinality({j \in K : j <= k}) = rank[k]
  OBVIOUS
<1> HIDE DEF rank, place, c
<1>6. f \in Seq(S) /\ Len(f) = c /\ DOMAIN f = 1..c
  BY <1>1, <1>2, <1>5
<1>7. \A i \in DOMAIN f : \E k \in K : f[i] = s[k]
  BY <1>2, <1>6
<1>8. \A k \in K : rank[k] \in DOMAIN f /\ f[rank[k]] = s[k]
  BY <1>3, <1>6
<1> HIDE DEF f
<1> QED
  BY <1>4, <1>5, <1>6, <1>7, <1>8 DEF c

-----------------------------------------------------------------------------
(* The queue that a relay keeps in memory                                   *)

QueueTypes ==
    /\ clock \in Nat
    /\ stored \in Seq(Envelope)
    /\ expiresAt \in [Envelope -> Nat]
    /\ fate \in [Envelope -> {"new", "stamped", "queued", "refused", "drained"}]

QueueInv == QueueTypes /\ AcceptedIsKept /\ NothingComesBack

\* Compacting the slice shows envelopes that it held, the live ones among them.
LEMMA Compaction ==
  ASSUME QueueTypes
  PROVE  /\ Live(stored) \in Seq(Envelope) /\ Compacted(stored) \in Seq(Envelope)
         /\ ToSet(Live(stored)) = {e \in ToSet(stored) : expiresAt[e] > clock}
         /\ ToSet(Live(stored)) \subseteq ToSet(Compacted(stored))
         /\ ToSet(Compacted(stored)) \subseteq ToSet(stored)
<1>1. PICK K \in SUBSET DOMAIN stored : K = {k \in DOMAIN stored : expiresAt[stored[k]] > clock}
  OBVIOUS
<1>2. Live(stored) = filterInPlace(stored, K)
  BY <1>1 DEF Live
<1>3. PICK f : f = filterInPlace(stored, K)
  OBVIOUS
<1>4. stored \in Seq(Envelope)
  BY DEF QueueTypes
<1>5. /\ f \in Seq(Envelope) /\ Len(f) = Cardinality(K)
      /\ \A i \in DOMAIN f : \E k \in K : f[i] = stored[k]
      /\ \A k \in K : \E i \in DOMAIN f : f[i] = stored[k]
  BY <1>3, <1>4, FilterKeeps
<1>6. Len(f) <= Len(stored)
  <2>1. Len(stored) \in Nat /\ DOMAIN stored = 1..Len(stored)
    BY <1>4
  <2>2. IsFiniteSet(1..Len(stored)) /\ Cardinality(1..Len(stored)) = Len(stored)
    BY <2>1, FirstNumbers
  <2>3. K \in SUBSET (1..Len(stored))
    BY <2>1
  <2>4. Cardinality(K) <= Cardinality(1..Len(stored))
    BY <2>2, <2>3, FS_Subset, Zenon
  <2> QED
    BY <1>5, <2>2, <2>4
<1>7. PICK t : t = SubSeq(stored, Len(f) + 1, Len(stored))
  OBVIOUS
<1>8. /\ t \in Seq(Envelope) /\ Len(t) = Len(stored) - Len(f)
      /\ \A i \in 1..Len(t) : t[i] = stored[Len(f) + i] /\ Len(f) + i \in DOMAIN stored
  BY <1>4, <1>5, <1>6, <1>7
<1>9. PICK c : c = f \o t
  OBVIOUS
<1>10. Compacted(stored) = c
  BY <1>2, <1>3, <1>7, <1>9 DEF Compacted
<1>11. /\ c \in Seq(Envelope) /\ Len(c) = Len(f) + Len(t)
       /\ \A i \in 1..Len(f) : c[i] = f[i]
       /\ \A i \in 1..Len(t) : c[Len(f) + i] = t[i]
  <2>1. f \in Seq(Envelope) /\ t \in Seq(Envelope) /\ Len(f) \in Nat /\ Len(t) \in Nat
    BY <1>5, <1>8
  <2>2. c \in Seq(Envelope) /\ Len(c) = Len(f) + Len(t)
    BY <1>9, <2>1
  <2>3. \A i \in 1..Len(f) : c[i] = f[i]
    BY <1>9, <2>1
  <2>4. ASSUME NEW i \in 1..Len(t) PROVE c[Len(f) + i] = t[i]
    <3>1. Len(f) + i \in 1..(Len(f) + Len(t)) /\ ~(Len(f) + i <= Len(f)) /\ (Len(f) + i) - Len(f) = i
      BY <2>1
    <3> QED
      BY <1>9, <2>1, <3>1
  <2> QED
    BY <2>2, <2>3, <2>4
<1>12. ToSet(f) = {e \in ToSet(stored) : expiresAt[e] > clock}
  BY <1>1, <1>5 DEF ToSet
<1>13. ToSet(f) \subseteq ToSet(c)
  BY <1>5, <1>8, <1>11 DEF ToSet
<1>14. ToSet(c) \subseteq ToSet(stored)
  <2> SUFFICES ASSUME NEW i \in DOMAIN c PROVE \E k \in DOMAIN stored : c[i] = stored[k]
    BY DEF ToSet
  <2>1. CASE i \in 1..Len(f)
    BY <1>5, <1>11, <2>1
  <2>2. CASE i \notin 1..Len(f)
    <3>1. i - Len(f) \in 1..Len(t) /\ Len(f) + (i - Len(f)) = i
      BY <1>5, <1>8, <1>11, <2>2
    <3> QED
      BY <1>8, <1>11, <3>1
  <2> QED
    BY <2>1, <2>2
<1> QED
  BY <1>2, <1>3, <1>5, <1>10, <1>11, <1>12, <1>13, <1>14

LEMMA QueueStep ==
  ASSUME QueueInv, [QueueNext]_queueVars
  PROVE  QueueInv'
<1> USE DEF QueueInv
<1>1. /\ QueueTypes
      /\ \A e \in Envelope : fate[e] = "queued" /\ expiresAt[e] > clock => e \in ToSet(stored)
      /\ \A e \in ToSet(stored) : fate[e] = "queued"
  BY DEF AcceptedIsKept, NothingComesBack
<1>2. SUFFICES /\ QueueTypes'
               /\ \A e \in Envelope : fate'[e] = "queued" /\ expiresAt'[e] > clock'
                                        => e \in ToSet(stored')
               /\ \A e \in ToSet(stored') : fate'[e] = "queued"
  BY DEF AcceptedIsKept, NothingComesBack
<1>3. ToSet(stored) \subseteq Envelope
  BY <1>1 DEF QueueTypes, ToSet
<1>4. CASE QueueTick
  BY <1>1, <1>3, <1>4 DEF QueueTick, QueueTypes
<1>5. CASE Drain
  <2>1. ToSet(<<>>) = {}
    BY DEF ToSet
  <2> QED
    BY <1>1, <1>5, <2>1, Compaction DEF Drain, QueueTypes
<1>6. ASSUME NEW e \in Envelope, Stamp(e) PROVE QueueInv'
  <2>1. QueueTypes'
    <3>1. clock + QueueTTL \in Nat
      BY MemoryQueueAssumption DEF QueueTypes
    <3> QED
      BY <1>1, <1>6, <3>1 DEF Stamp, QueueTypes
  <2> QED
    BY <1>1, <1>3, <1>6, <2>1 DEF Stamp, QueueTypes, AcceptedIsKept, NothingComesBack
<1>7. ASSUME NEW e \in Envelope, Enqueue(e) PROVE QueueInv'
  <2>1. PICK w : w = Live(stored)
    OBVIOUS
  <2>2. w \in Seq(Envelope) /\ ToSet(w) = {x \in ToSet(stored) : expiresAt[x] > clock}
    BY <1>1, <2>1, Compaction
  <2>3. stored' = Append(w, e) /\ stored' \in Seq(Envelope)
    BY <1>7, <2>1, <2>2 DEF Enqueue
  <2>4. ToSet(stored') = ToSet(w) \cup {e}
    <3>1. /\ Len(w) \in Nat /\ DOMAIN w = 1..Len(w) /\ DOMAIN stored' = 1..(Len(w) + 1)
          /\ stored'[Len(w) + 1] = e /\ \A i \in 1..Len(w) : stored'[i] = w[i]
      BY <2>2, <2>3
    <3>2. \A i \in DOMAIN stored' : i \in DOMAIN w \/ i = Len(w) + 1
      BY <3>1
    <3>3. Len(w) + 1 \in DOMAIN stored' /\ \A i \in DOMAIN w : i \in DOMAIN stored'
      BY <3>1
    <3> QED
      BY <3>1, <3>2, <3>3 DEF ToSet
  <2> QED
    BY <1>1, <1>3, <1>7, <2>2, <2>3, <2>4
       DEF Enqueue, QueueTypes, AcceptedIsKept, NothingComesBack
<1>8. ASSUME NEW e \in Envelope, EnqueueFull(e) PROVE QueueInv'
  <2>1. stored' = Compacted(stored) /\ stored' \in Seq(Envelope)
    BY <1>1, <1>8, Compaction DEF EnqueueFull
  <2> QED
    BY <1>1, <1>3, <1>8, <2>1, Compaction
       DEF EnqueueFull, QueueTypes, AcceptedIsKept, NothingComesBack
<1>9. CASE UNCHANGED queueVars
  BY <1>1, <1>9 DEF queueVars, QueueTypes
<1> QED
  BY <1>4, <1>5, <1>6, <1>7, <1>8, <1>9
     DEF QueueNext, AcceptedIsKept, NothingComesBack

LEMMA QueueInductive == QueueSpec => []QueueInv
<1>1. QueueInit => QueueInv
  BY DEF QueueInit, QueueInv, QueueTypes, AcceptedIsKept, NothingComesBack, ToSet
<1>2. QueueInv /\ [QueueNext]_queueVars => QueueInv'
  BY QueueStep
<1> QED
  BY <1>1, <1>2, PTL DEF QueueSpec

\* An envelope that the store has accepted is there until a Drain hands it out or
\* its time is over: the compaction of filterInPlace, whose result a refusing
\* Enqueue does not store (memory_store.go), loses none.
THEOREM AcceptedIsKeptCorrect == QueueSpec => []AcceptedIsKept
<1>1. QueueInv => AcceptedIsKept
  BY DEF QueueInv
<1> QED
  BY <1>1, QueueInductive, PTL

\* And the slice that keeps its old length after such a refusal shows neither an
\* envelope that was refused nor one that was handed out.
THEOREM NothingComesBackCorrect == QueueSpec => []NothingComesBack
<1>1. QueueInv => NothingComesBack
  BY DEF QueueInv
<1> QED
  BY <1>1, QueueInductive, PTL

-----------------------------------------------------------------------------
\* The front of a sequence that is kept whole stays in front.
LEMMA FrontStays ==
  ASSUME NEW S, NEW s \in Seq(S), NEW n \in 0..Len(s), NEW K \in SUBSET DOMAIN s, 1..n \subseteq K
  PROVE  LET f == filterInPlace(s, K)
         IN  /\ f \in Seq(S) /\ n <= Len(f) /\ Len(f) <= Len(s)
             /\ \A i \in 1..n : f[i] = s[i]
<1>1. PICK f : f = filterInPlace(s, K)
  OBVIOUS
<1>2. /\ f \in Seq(S) /\ Len(f) = Cardinality(K)
      /\ \A k \in K : f[Cardinality({j \in K : j <= k})] = s[k]
  BY <1>1, FilterKeeps
<1>3. Len(s) \in Nat /\ DOMAIN s = 1..Len(s) /\ n \in Nat
  OBVIOUS
<1>4. n <= Len(f) /\ Len(f) <= Len(s)
  <2>1. IsFiniteSet(K) /\ Cardinality(K) <= Len(s)
    BY <1>3, FirstNumbers, FS_Subset
  <2> QED
    BY <1>2, <1>3, <2>1, FirstNumbers, FS_Subset
<1>5. ASSUME NEW i \in 1..n PROVE f[i] = s[i]
  <2>1. i \in K /\ i \in Nat /\ K \subseteq Nat /\ 0 \notin K /\ \A j \in Nat : j \in 1..i => j \in K
    BY <1>3
  <2>2. {j \in K : j <= i} = 1..i
    <3>1. \A j \in K : j \in Nat /\ j # 0
      BY <2>1
    <3> QED
      BY <2>1, <3>1
  <2>3. Cardinality(1..i) = i
    BY <2>1, FirstNumbers
  <2> QED
    BY <1>2, <2>1, <2>2, <2>3
<1> QED
  BY <1>1, <1>2, <1>4, <1>5

-----------------------------------------------------------------------------
(* The rendezvous slot                                                      *)

Payload == [from : Party, expiresAt : Nat]

SlotTypes ==
    /\ now \in Nat
    /\ slot \in Seq(Payload)
    /\ expiry \in [Party -> Nat]

\* What is in the slot and not expired stays in front of the slot when expired
\* payloads are purged, once more or with a payload appended.
LEMMA PurgeKeepsLive ==
  ASSUME NEW s \in Seq(Payload)
  PROVE  /\ FilterExpired(s) \in Seq(Payload)
         /\ IsPrefix(FilterExpired(s), FilterExpired(s))
         /\ IsPrefix(FilterExpired(s), FilterExpired(FilterExpired(s)))
         /\ \A p \in Payload : IsPrefix(FilterExpired(s),
                                 FilterExpired(Append(FilterExpired(s), p)))
<1> DEFINE live(w) == {k \in DOMAIN w : w[k].expiresAt > now}
<1>1. \A w : FilterExpired(w) = filterInPlace(w, live(w))
  BY DEF FilterExpired
<1>2. PICK f : f = FilterExpired(s)
  OBVIOUS
<1>3. f \in Seq(Payload) /\ \A i \in DOMAIN f : f[i].expiresAt > now
  <2>1. PICK K \in SUBSET DOMAIN s : K = live(s)
    OBVIOUS
  <2>2. f = filterInPlace(s, K)
    BY <1>1, <1>2, <2>1
  <2>3. f \in Seq(Payload) /\ \A i \in DOMAIN f : \E k \in K : f[i] = s[k]
    BY <2>2, FilterKeeps
  <2> QED
    BY <2>1, <2>3
<1>4. ASSUME NEW w \in Seq(Payload), Len(f) <= Len(w), \A i \in 1..Len(f) : w[i] = f[i]
      PROVE  IsPrefix(f, FilterExpired(w))
  <2>1. PICK K \in SUBSET DOMAIN w : K = live(w)
    OBVIOUS
  <2>2. PICK g : g = filterInPlace(w, K)
    OBVIOUS
  <2>3. FilterExpired(w) = g
    BY <1>1, <2>1, <2>2
  <2>4. Len(f) \in 0..Len(w) /\ 1..Len(f) \subseteq K
    BY <1>3, <1>4, <2>1
  <2>5. g \in Seq(Payload) /\ Len(f) <= Len(g) /\ \A i \in 1..Len(f) : g[i] = w[i]
    BY <2>2, <2>4, FrontStays
  <2>6. SubSeq(g, 1, Len(f)) = SubSeq(f, 1, Len(f))
    BY <1>3, <1>4, <2>5
  <2> QED
    BY <2>3, <2>5, <2>6 DEF IsPrefix
<1>5. IsPrefix(f, f)
  BY <1>3 DEF IsPrefix
<1>6. IsPrefix(f, FilterExpired(f))
  BY <1>3, <1>4
<1>7. ASSUME NEW p \in Payload PROVE IsPrefix(f, FilterExpired(Append(f, p)))
  <2>1. PICK w : w = Append(f, p)
    OBVIOUS
  <2>2. w \in Seq(Payload) /\ Len(f) <= Len(w) /\ \A i \in 1..Len(f) : w[i] = f[i]
    BY <1>3, <2>1
  <2> QED
    BY <1>4, <2>1, <2>2
<1> QED
  BY <1>2, <1>3, <1>5, <1>6, <1>7

LEMMA SlotTypesCorrect == SlotSpec => []SlotTypes
<1>1. SlotInit => SlotTypes
  BY DEF SlotInit, SlotTypes
<1>2. SlotTypes /\ [SlotNext]_slotVars => SlotTypes'
  <2> SUFFICES ASSUME SlotTypes, [SlotNext]_slotVars PROVE SlotTypes'
    OBVIOUS
  <2>1. CASE SlotTick
    BY <2>1 DEF SlotTick, SlotTypes
  <2>2. CASE EmptySlot
    BY <2>2 DEF EmptySlot, SlotTypes
  <2>3. ASSUME NEW x \in Party, Start(x) PROVE SlotTypes'
    <3>1. now + PayloadLifetime \in Nat
      BY RendezvousAssumption DEF SlotTypes
    <3> QED
      BY <2>3, <3>1 DEF Start, SlotTypes
  <2>4. ASSUME NEW x \in Party, Exchange(x) PROVE SlotTypes'
    <3>1. FilterExpired(slot) \in Seq(Payload)
      BY PurgeKeepsLive DEF SlotTypes
    <3>2. PayloadOf(x) \in Payload
      BY DEF PayloadOf, Payload, SlotTypes
    <3>3. \/ slot' = slot \/ slot' = FilterExpired(slot)
          \/ slot' = Append(FilterExpired(slot), PayloadOf(x))
      BY <2>4 DEF Exchange, CheckSlot, StorePayload, Poll, PollAgain
    <3>4. slot' \in Seq(Payload)
      <4>1. \A q \in Seq(Payload), p \in Payload : Append(q, p) \in Seq(Payload)
        OBVIOUS
      <4> QED
        BY <3>1, <3>2, <3>3, <4>1 DEF SlotTypes
    <3> QED
      BY <2>4, <3>4
         DEF Exchange, CheckSlot, StorePayload, Poll, PollAgain, SlotTypes
  <2>5. ASSUME NEW x \in Party, GiveUp(x) \/ RequestFails(x) PROVE SlotTypes'
    BY <2>5 DEF GiveUp, RequestFails, SlotTypes
  <2>6. CASE UNCHANGED slotVars
    BY <2>6 DEF slotVars, SlotTypes
  <2> QED
    BY <2>1, <2>2, <2>3, <2>4, <2>5, <2>6 DEF SlotNext
<1> QED
  BY <1>1, <1>2, PTL DEF SlotSpec

\* Whatever the handlers of several PUTs and GETs read and write between each
\* other's store transactions (handleRendezvous, internal/relay/http_handlers.go),
\* a payload that has not expired stays where it is in the slot, until a DELETE
\* or a restart empties it.
THEOREM LivePayloadsStayCorrect == SlotSpec => LivePayloadsStay
<1>1. ASSUME SlotTypes, [SlotNext]_slotVars
      PROVE  \/ EmptySlot
             \/ IsPrefix(FilterExpired(slot), FilterExpired(slot'))
             \/ UNCHANGED slotVars
  <2> USE PurgeKeepsLive DEF SlotTypes
  <2>1. slot' = slot => IsPrefix(FilterExpired(slot), FilterExpired(slot'))
    BY <1>1
  <2>2. ASSUME NEW x \in Party, CheckSlot(x) \/ Poll(x)
        PROVE  IsPrefix(FilterExpired(slot), FilterExpired(slot'))
    <3>1. slot' = slot \/ slot' = FilterExpired(slot)
      BY <2>2 DEF CheckSlot, Poll
    <3> QED
      BY <1>1, <2>1, <3>1
  <2>3. ASSUME NEW x \in Party, StorePayload(x)
        PROVE  IsPrefix(FilterExpired(slot), FilterExpired(slot'))
    <3>1. PayloadOf(x) \in Payload
      BY <1>1 DEF PayloadOf, Payload
    <3>2. slot' = Append(FilterExpired(slot), PayloadOf(x))
      BY <2>3 DEF StorePayload
    <3> QED
      BY <1>1, <3>1, <3>2
  <2> QED
    BY <1>1, <2>1, <2>2, <2>3
       DEF SlotNext, Exchange, SlotTick, Start, PollAgain, GiveUp,
           RequestFails
<1> QED
  BY <1>1, SlotTypesCorrect, PTL DEF SlotSpec, LivePayloadsStay

=============================================================================
