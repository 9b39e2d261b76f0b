--------------------------- MODULE RelayDirectory ---------------------------
(***************************************************************************)
(* Who may read which mailbox: the relay's directory of signed account     *)
(* entries, the mailbox ownership derived from it, and the mailbox claims  *)
(* made by subscribers (internal/relay/directory.go, store_helpers.go and  *)
(* the directory half of memory_store.go and bolt_store.go).               *)
(*                                                                         *)
(* A publication is one store transaction.  A subscribe request makes      *)
(* three of them - LookupMailboxAccount, GetDirectoryEntry and             *)
(* AuthorizeMailbox - and publications may come in between.                *)
(*                                                                         *)
(* Abstractions.  An entry is its account, the account's signing key and   *)
(* the map activeDirectoryDevices computes from its bundle (NoKey: the     *)
(* mailbox is not listed, or only with a revoked device).  Every entry and *)
(* every device proof has a valid signature; the handlers turn others away *)
(* before they reach the store.                                            *)
(***************************************************************************)
EXTENDS Naturals, FiniteSets

CONSTANTS
    Account,        \* account mailboxes: keys of the directory
    AccountKey,     \* account signing keys
    Mailbox,        \* device mailboxes
    Key,            \* device signing keys
    Request,        \* concurrent subscribe requests
    NoAccount, NoKey, NoEntry

ASSUME SentinelAssumption ==
    /\ Mailbox # {}
    /\ NoAccount \notin Account
    /\ NoKey \notin Key

\* The directory entry of account a, signed with account key k.
Entry == [account : Account, key : AccountKey, devices : [Mailbox -> Key \union {NoKey}]]

ASSUME NoEntryAssumption == NoEntry \notin Entry

VARIABLES
    directory,  \* [Account -> the stored entry]
    accounts,   \* [Mailbox -> the account that owns it]
    claims,     \* [Mailbox -> the signing key it is claimed by]
    pc,         \* [Request -> where the subscribe request is]
    asked,      \* [Request -> mailbox and signing key of the request]
    found,      \* [Request -> the account LookupMailboxAccount returned]
    published   \* history: mailbox and key pairs that were ever listed

requestVars == <<pc, asked, found>>
vars == <<directory, accounts, claims, pc, asked, found, published>>

PCs == {"idle", "lookup", "entry", "authorize", "accepted", "rejected"}

Init ==
    /\ directory = [a \in Account |-> NoEntry]
    /\ accounts = [m \in Mailbox |-> NoAccount]
    /\ claims = [m \in Mailbox |-> NoKey]
    /\ pc = [r \in Request |-> "idle"]
    /\ asked = [r \in Request |-> [mailbox |-> CHOOSE m \in Mailbox : TRUE, key |-> NoKey]]
    /\ found = [r \in Request |-> NoAccount]
    /\ published = {}

\* activeDirectoryDevices: the mailboxes an entry (or no entry) lists.
Listed(entry) ==
    IF entry = NoEntry THEN {} ELSE {m \in Mailbox : entry.devices[m] # NoKey}

\* mailboxOwnerSync.sync, its check: no listed mailbox belongs to another
\* account or is claimed by another key.
OwnersAgree(entry) ==
    \A m \in Listed(entry) :
        /\ accounts[m] \in {NoAccount, entry.account}
        /\ claims[m] \in {NoKey, entry.devices[m]}

\* Mutant of Released: what the previous entry listed is never given up.
ReleasedNone(previous) == {}

\* mailboxOwnerSync.sync, its deletions: the mailboxes the previous entry
\* listed, as long as its account still owns them.
Released(previous) ==
    {m \in Listed(previous) : accounts[m] = previous.account}

\* mailboxOwnerSync.sync, its writes.
SyncOwners(previous, entry) ==
    /\ accounts' = [m \in Mailbox |->
           IF m \in Listed(entry) THEN entry.account
           ELSE IF m \in Released(previous) THEN NoAccount ELSE accounts[m]]
    /\ claims' = [m \in Mailbox |->
           IF m \in Listed(entry) THEN entry.devices[m]
           ELSE IF m \in Released(previous) THEN NoKey ELSE claims[m]]

\* PutDirectoryEntry: an account keeps the signing key it was first
\* published with.  A refused publication changes nothing.
PutDirectoryEntry(entry) ==
    LET current == directory[entry.account]
    IN  /\ current # NoEntry => current.key = entry.key
        /\ OwnersAgree(entry)
        /\ SyncOwners(current, entry)
        /\ directory' = [directory EXCEPT ![entry.account] = entry]
        /\ published' = published \union {<<m, entry.devices[m]>> : m \in Listed(entry)}
        /\ UNCHANGED requestVars

Goto(r, label) == pc' = [pc EXCEPT ![r] = label]

\* A subscribe request whose challenge and proof are in order.
Subscribe(r, m, k) ==
    /\ pc[r] = "idle"
    /\ asked' = [asked EXCEPT ![r] = [mailbox |-> m, key |-> k]]
    /\ Goto(r, "lookup")
    /\ UNCHANGED <<directory, accounts, claims, found, published>>

\* verifyMailboxOwnership, first transaction: LookupMailboxAccount.
LookupAccount(r) ==
    /\ pc[r] = "lookup"
    /\ found' = [found EXCEPT ![r] = accounts[asked[r].mailbox]]
    /\ Goto(r, IF accounts[asked[r].mailbox] = NoAccount THEN "rejected" ELSE "entry")
    /\ UNCHANGED <<directory, accounts, claims, asked, published>>

\* A non-revoked device of the entry has this mailbox and this key.
Authorizes(entry, m, k) == entry # NoEntry /\ entry.devices[m] = k

\* verifyMailboxOwnership, second transaction: GetDirectoryEntry.
LoadEntry(r) ==
    /\ pc[r] = "entry"
    /\ Goto(r, IF Authorizes(directory[found[r]], asked[r].mailbox, asked[r].key)
               THEN "authorize" ELSE "rejected")
    /\ UNCHANGED <<directory, accounts, claims, asked, found, published>>

\* Mutant of AuthorizeMailbox: the last subscriber takes the claim.
AuthorizeLast(r) ==
    /\ pc[r] = "authorize"
    /\ claims' = [claims EXCEPT ![asked[r].mailbox] = asked[r].key]
    /\ Goto(r, "accepted")
    /\ UNCHANGED <<directory, accounts, asked, found, published>>

\* AuthorizeMailbox: claim the mailbox, or find it claimed by this key.
AuthorizeMailbox(r) ==
    LET m == asked[r].mailbox
        k == asked[r].key
    IN  /\ pc[r] = "authorize"
        /\ claims' = IF claims[m] = NoKey THEN [claims EXCEPT ![m] = k] ELSE claims
        /\ Goto(r, IF claims[m] \in {NoKey, k} THEN "accepted" ELSE "rejected")
        /\ UNCHANGED <<directory, accounts, asked, found, published>>

\* The request is answered; the connection may ask again.
Return(r) ==
    /\ pc[r] \in {"accepted", "rejected"}
    /\ Goto(r, "idle")
    /\ UNCHANGED <<directory, accounts, claims, asked, found, published>>

Next ==
    \/ \E entry \in Entry : PutDirectoryEntry(entry)
    \/ \E r \in Request :
         \/ \E m \in Mailbox, k \in Key : Subscribe(r, m, k)
         \/ LookupAccount(r) \/ LoadEntry(r) \/ AuthorizeMailbox(r)
         \/ Return(r)

Spec == Init /\ [][Next]_vars

-----------------------------------------------------------------------------
\* Every bucket of the store and every request field has its type.
TypeOK ==
    /\ directory \in [Account -> Entry \union {NoEntry}]
    /\ accounts \in [Mailbox -> Account \union {NoAccount}]
    /\ claims \in [Mailbox -> Key \union {NoKey}]
    /\ pc \in [Request -> PCs]
    /\ asked \in [Request -> [mailbox : Mailbox, key : Key \union {NoKey}]]
    /\ found \in [Request -> Account \union {NoAccount}]
    /\ published \in SUBSET (Mailbox \X Key)

\* The derived buckets mirror the directory: an account owns exactly the
\* mailboxes its current entry lists, each claimed by the listed key.  sync
\* keeps them apart from the entries it is derived from, entry by entry, and
\* a claim made by a late AuthorizeMailbox must not break it.
OwnershipMirrorsDirectory ==
    \A m \in Mailbox, a \in Account :
        /\ accounts[m] = a => /\ m \in Listed(directory[a])
                              /\ claims[m] = directory[a].devices[m]
        /\ m \in Listed(directory[a]) => accounts[m] = a

\* An entry is stored under its own account.
EntriesAreFiled ==
    \A a \in Account : directory[a] # NoEntry => directory[a].account = a

\* A mailbox never passes from one account or signing key straight to
\* another (ErrMailboxClaimConflict): its owner must first publish an entry
\* without it, so a subscriber never shares a mailbox with another key.
NeverChangesHands ==
    [][\A m \in Mailbox :
         /\ accounts[m] # NoAccount => accounts'[m] \in {accounts[m], NoAccount}
         /\ claims[m] # NoKey => claims'[m] \in {claims[m], NoKey}]_vars

\* Every claim, orphaned ones included, is by a key some account published
\* for that mailbox: what a request read before a concurrent publication
\* cannot give a mailbox to a key that was never listed for it.
ClaimsWerePublished ==
    \A m \in Mailbox : claims[m] # NoKey => <<m, claims[m]>> \in published
=============================================================================
