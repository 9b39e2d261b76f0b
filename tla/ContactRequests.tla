--------------------------- MODULE ContactRequests ---------------------------
(***************************************************************************)
(* Contact requests between accounts: asking, answering from the chat UI or *)
(* from pandoctl, the incoming side, and the two files they rewrite         *)
(* (contact-requests.json, one entry per peer for both directions, and      *)
(* contacts.json).  The Update goroutine, the tea.Cmd goroutines and a      *)
(* pandoctl process of one account all read a whole file, change one entry  *)
(* and write the file back, without a lock: each runs the steps of a        *)
(* Script, one at a time.                                                   *)
(*                                                                         *)
(* The relay delivers each envelope to the Update goroutine at most once    *)
(* (the seen marks).  Signing keys do not change, so a stored contact and a *)
(* bundle of the same account always have the same fingerprint.  An answer  *)
(* carries the invite bundle that is imported: contactRequestDecisionCmd    *)
(* and runResolveContactRequest put in the one of their own account, and    *)
(* handleContactResponse imports what it finds.                             *)
(***************************************************************************)
EXTENDS Naturals, Sequences, FiniteSets

CONSTANTS
    Account,    \* the accounts
    Asks,       \* bound: the pairs <<a, b>> for which a asks b, once
    Verifies,   \* bound: the pairs <<a, b>> for which a may mark b verified
    Cmd,        \* bound: the tea.Cmd goroutines of one program
    Cli,        \* bound: the pandoctl commands the owners run, <<account, command>>
    Overlapping,\* bound: the accounts whose jobs overlap
    Answers,    \* bound: the answers the owner of each account gives
    Earlier,    \* the requests that may be pending from the start
    MaxAsks,    \* bound: requests in a behaviour
    Failing,    \* bound: the accounts whose program and connection may fail
    MaxFaults   \* bound: failures and crashes in a behaviour

ASSUME ContactRequestsAssumption ==
    /\ Asks \cup Earlier \subseteq Account \X Account /\ Verifies \subseteq Account \X Account
    /\ \A p \in Asks \cup Earlier \cup Verifies : p[1] # p[2]
    /\ Cli \subseteq Account \X {"ask", "resolve", "verify"}
    /\ Overlapping \subseteq Account
    /\ Answers \in [Account -> Nat] /\ MaxFaults \in Nat /\ MaxAsks \in Nat
    /\ Failing \subseteq Account
    /\ Earlier \cap {<<p[2], p[1]>> : p \in Earlier} = {}
    /\ {"update", "cli"} \cap Cmd = {}

VARIABLES
    req,        \* contact-requests.json of each account
    contact,    \* contacts.json of each account: the trust in each contact
    view,       \* the items of the contact requests modal
    work,       \* what each goroutine or process is doing
    net,        \* envelopes between accounts
    asked,      \* the requests published, <<from, to>>
    accepted,   \* the acceptances published, <<of, by>>
    answered,   \* how many answers each owner gave
    struck,     \* history variable: pairs of accounts a failure, an overtaken
                \* answer or a lost update struck
    lost,       \* history variable: <<a, b>> when a writer of contacts.json that
                \* had read it without b has taken b from the contacts of a
    faults      \* used budget

vars == <<req, contact, view, work, net, asked, accepted, answered, struck,
          lost, faults>>

Worker == {"update", "cli"} \cup Cmd
None == [dir |-> "none", status |-> "none"]
Entry(d, s) == [dir |-> d, status |-> s]
Idle == [kind |-> "idle"]
Done == [kind |-> "done"]   \* bound: an owner runs pandoctl once

-----------------------------------------------------------------------------
(* Trust in a contact ("none": the account is not a contact)                *)

TrustRank(source) == CASE source = "manual-verified" -> 3
                       [] source = "relay-directory" -> 2
                       [] source = "unverified"      -> 1
                       [] OTHER                      -> 0

StrongerTrust(current, next) ==
    IF TrustRank(next) > TrustRank(current) THEN next ELSE current

\* Mutant: the stored trust is not taken over.
MergeForgets(stored, source) == StrongerTrust("unverified", source)

\* ImportContactInviteBundle of a bundle whose account is stored with trust
\* "stored": the new contact starts unverified, takes over the stored trust and
\* then the source's when that ranks higher.
mergeStoredContactTrust(stored, source) ==
    StrongerTrust(StrongerTrust("unverified", stored), source)

-----------------------------------------------------------------------------

Init ==
    /\ asked \in SUBSET Earlier
    /\ req = [a \in Account |-> [b \in Account |->
                IF <<a, b>> \in asked THEN Entry("outgoing", "pending")
                ELSE IF <<b, a>> \in asked THEN Entry("incoming", "pending")
                ELSE None]]
    /\ contact = [a \in Account |-> [b \in Account |-> "none"]]
    /\ view = req
    /\ work = [a \in Account |-> [w \in Worker |-> Idle]]
    /\ net = {} /\ accepted = {}
    /\ answered = [a \in Account |-> 0]
    /\ struck = {} /\ lost = {} /\ faults = 0

\* The steps of each job, in the order of the code.  The chat UI writes the
\* answer before it imports the contact, pandoctl the other way round.
Import == <<"readContacts", "writeContacts">>
Save   == <<"readRequests", "writeRequests">>

\* Mutants: the sender stores the answer before it imports the one who gave it,
\* as the answering side does, or never imports.
SavesAnswerFirst(kind) == IF kind = "accepted" THEN <<"loadRequest">> \o Save \o Import
                                               ELSE <<"loadRequest">> \o Save
ImportsNoAnswer(kind) == <<"loadRequest">> \o Save

\* handleContactResponse: an acceptance is imported, then stored.
Response(kind) == IF kind = "accepted" THEN <<"loadRequest">> \o Import \o Save
                                       ELSE <<"loadRequest">> \o Save

Script(kind) ==
    CASE kind = "ask"       -> <<"publish">> \o Save
      [] kind = "accept"    -> <<"publish">> \o Save \o Import
      [] kind = "reject"    -> <<"publish">> \o Save
      [] kind = "cliAccept" -> <<"publish">> \o Import \o Save
      [] kind = "request"   -> Save
      [] kind \in {"accepted", "rejected"} -> Response(kind)
      [] kind = "verify"    -> <<"readContacts", "writeContacts">>

\* bundle: the account whose invite bundle the job imports.
Start(a, w, kind, b, bundle, entry) ==
    /\ work[a][w] = Idle
    /\ a \in Overlapping \/ \A u \in Worker : work[a][u] \in {Idle, Done}
    /\ work' = [work EXCEPT ![a][w] =
                   [kind |-> kind, peer |-> b, bundle |-> bundle, todo |-> Script(kind),
                    entry |-> entry, failed |-> FALSE,
                    trust |-> "none", map |-> <<>>]]

\* Worker w of a is at this step and goes on to the next.
At(a, w, step) ==
    /\ work[a][w] \notin {Idle, Done} /\ work[a][w].todo # <<>>
    /\ Head(work[a][w].todo) = step

Passed(a, w, changes) ==
    work' = [work EXCEPT ![a][w] = [changes EXCEPT !.todo = Tail(@)]]

Fails(a, w) ==
    work' = [work EXCEPT ![a][w].todo = <<>>, ![a][w].failed = TRUE,
                         ![a][w].map = <<>>]

Strike(a, peers) == struck' = struck \cup {{a, b} : b \in peers}

isPendingIncoming(r) == r = Entry("incoming", "pending")

-----------------------------------------------------------------------------
(* What starts a job                                                        *)

Asking(a) == \E w \in Worker : work[a][w].kind = "ask" /\ At(a, w, "publish")

\* contactRequestSendCmd; runRequestContact
Ask(a, b, w) ==
    /\ <<a, b>> \in Asks /\ <<a, b>> \notin asked
    /\ Cardinality(asked) + Cardinality({c \in Account : Asking(c)}) < MaxAsks
    /\ w \in Cmd \cup {"cli"} /\ (w = "cli" => <<a, "ask">> \in Cli)
    /\ w \in Cmd => work[a]["update"] = Idle
    /\ Start(a, w, "ask", b, b, Entry("outgoing", "pending"))
    /\ UNCHANGED <<req, contact, view, net, asked, accepted, answered, struck, lost, faults>>

\* activate of the contact requests modal: the item as the modal shows it.  The
\* busy flag does not keep a second command from starting: leaving the palette
\* view and opening it again resets it.
Decide(a, b, w) ==
    /\ w \in Cmd /\ work[a]["update"] = Idle
    /\ isPendingIncoming(view[a][b])
    /\ answered[a] < Answers[a] /\ answered' = [answered EXCEPT ![a] = @ + 1]
    /\ \E kind \in {"accept", "reject"} :
          Start(a, w, kind, b, b,
                Entry("incoming", IF kind = "accept" THEN "accepted" ELSE "rejected"))
    /\ UNCHANGED <<req, contact, view, net, asked, accepted, struck, lost, faults>>

\* runResolveContactRequest: the entry as the file has it
CliResolve(a, b) ==
    /\ <<a, "resolve">> \in Cli /\ isPendingIncoming(req[a][b])
    /\ answered[a] < Answers[a] /\ answered' = [answered EXCEPT ![a] = @ + 1]
    /\ \/ Start(a, "cli", "cliAccept", b, b, Entry("incoming", "accepted"))
       \/ Start(a, "cli", "reject", b, b, Entry("incoming", "rejected"))
    /\ UNCHANGED <<req, contact, view, net, asked, accepted, struck, lost, faults>>

\* MarkContactVerified, called by the Update goroutine or by pandoctl
Verify(a, b, w) ==
    /\ <<a, b>> \in Verifies /\ contact[a][b] \notin {"none", "manual-verified"}
    /\ w \in {"update", "cli"} /\ (w = "cli" => <<a, "verify">> \in Cli)
    /\ Start(a, w, "verify", b, b, None)
    /\ UNCHANGED <<req, contact, view, net, asked, accepted, answered, struck,
                   lost, faults>>

\* HandleIncoming of a request or of an answer
Receive(a, m) ==
    /\ m \in net /\ m.to = a
    /\ net' = net \ {m}
    /\ Start(a, "update", m.kind, m.from, m.bundle,
             IF m.kind = "request" THEN Entry("incoming", "pending") ELSE None)
    /\ UNCHANGED <<req, contact, view, asked, accepted, answered, struck, lost, faults>>

-----------------------------------------------------------------------------
(* The steps of a job                                                       *)

Envelope(a, j) ==
    [from |-> a, to |-> j.peer, bundle |-> a,
     kind |-> CASE j.kind = "ask"    -> "request"
                [] j.kind = "reject" -> "rejected"
                [] OTHER             -> "accepted"]

Sends(a, w) ==
    LET j == work[a][w]
    IN /\ net' = net \cup {Envelope(a, j)}
       /\ asked' = IF j.kind = "ask" THEN asked \cup {<<a, j.peer>>} ELSE asked
       /\ accepted' = IF j.kind \in {"accept", "cliAccept"}
                      THEN accepted \cup {<<j.peer, a>>} ELSE accepted

Publish(a, w) ==
    /\ At(a, w, "publish")
    /\ Sends(a, w)
    /\ Passed(a, w, work[a][w])
    /\ UNCHANGED <<req, contact, view, answered, struck, lost, faults>>

\* LoadContactRequest of handleContactResponse: without an entry the answer is
\* dropped, and its envelope is already marked seen.
LoadRequest(a, w) ==
    LET j == work[a][w]
        found == req[a][j.peer]
    IN /\ At(a, w, "loadRequest")
       /\ IF found = None
          THEN Fails(a, w) /\ Strike(a, {j.peer})
          ELSE /\ Passed(a, w, [j EXCEPT !.entry = [found EXCEPT !.status = j.kind]])
               /\ UNCHANGED struck
       /\ UNCHANGED <<req, contact, view, net, asked, accepted, answered, lost, faults>>

ReadRequests(a, w) ==
    /\ At(a, w, "readRequests")
    /\ Passed(a, w, [work[a][w] EXCEPT !.map = req[a]])
    /\ UNCHANGED <<req, contact, view, net, asked, accepted, answered, struck,
                   lost, faults>>

\* SaveContactRequest writes the map it read: what others wrote since is lost.
WriteRequests(a, w) ==
    LET j == work[a][w]
    IN /\ At(a, w, "writeRequests")
       /\ req' = [req EXCEPT ![a] = [j.map EXCEPT ![j.peer] = j.entry]]
       /\ Strike(a, {b \in Account \ {j.peer} : req[a][b] # j.map[b]})
       /\ Passed(a, w, [j EXCEPT !.map = <<>>])
       /\ UNCHANGED <<contact, view, net, asked, accepted, answered, lost, faults>>

\* LoadContact of the merge and loadContactsMap of SaveContact, read together;
\* MarkContactVerified marks the entry it finds.
ReadContacts(a, w) ==
    LET j == work[a][w]
        stored == contact[a][j.bundle]
    IN /\ At(a, w, "readContacts")
       /\ Passed(a, w, [j EXCEPT !.map = contact[a],
              !.trust = IF j.kind = "verify" THEN StrongerTrust(stored, "manual-verified")
                        ELSE mergeStoredContactTrust(stored, "relay-directory")])
       /\ UNCHANGED <<req, contact, view, net, asked, accepted, answered, struck,
                      lost, faults>>

WriteContacts(a, w) ==
    LET j == work[a][w]
        merged == [j.map EXCEPT ![j.bundle] = j.trust]
    IN /\ At(a, w, "writeContacts")
       /\ contact' = [contact EXCEPT ![a] = merged]
       /\ Strike(a, {b \in Account : contact[a][b] # j.map[b]})
       /\ lost' = lost \cup
             {<<a, b>> : b \in {c \in Account : contact[a][c] # "none" /\ merged[c] = "none"}}
       /\ Passed(a, w, [j EXCEPT !.map = <<>>, !.trust = "none"])
       /\ UNCHANGED <<req, view, net, asked, accepted, answered, faults>>

\* The end of a job: handleContactRequestSendResult and
\* handleContactRequestDecisionResult run in the Update goroutine when it is
\* free; pandoctl exits without the chat UI noticing.
Finish(a, w) ==
    LET j == work[a][w]
        shown == w # "cli" /\ ~j.failed /\ j.kind # "verify"
    IN /\ work[a][w] \notin {Idle, Done} /\ j.todo = <<>>
       /\ w \in Cmd => work[a]["update"] = Idle
       /\ work' = [work EXCEPT ![a][w] = IF w = "cli" THEN Done ELSE Idle]
       /\ view' = IF shown THEN [view EXCEPT ![a][j.peer] = j.entry] ELSE view
       /\ UNCHANGED <<req, contact, net, asked, accepted, answered, struck, lost, faults>>

-----------------------------------------------------------------------------
(* Failures                                                                 *)

Fault(a) == a \in Failing /\ faults < MaxFaults /\ faults' = faults + 1

\* A step returns an error: the job ends there.  A failed publication may have
\* reached the relay.
StepFails(a, w) ==
    /\ Fault(a)
    /\ work[a][w] \notin {Idle, Done} /\ work[a][w].todo # <<>>
    /\ Fails(a, w) /\ Strike(a, {work[a][w].peer})
    /\ \/ At(a, w, "publish") /\ Sends(a, w)
       \/ UNCHANGED <<net, asked, accepted>>
    /\ UNCHANGED <<req, contact, view, answered, lost>>

\* The program ends: its goroutines go with it, and the next start reads the
\* requests back (loadContactRequests).  A pandoctl process runs on.
Crash(a) ==
    /\ Fault(a)
    /\ Strike(a, {work[a][w].peer : w \in {u \in Worker \ {"cli"} : work[a][u] # Idle}})
    /\ work' = [work EXCEPT ![a] = [w \in Worker |-> IF w = "cli" THEN @[w] ELSE Idle]]
    /\ view' = [view EXCEPT ![a] = req[a]]
    /\ UNCHANGED <<req, contact, net, asked, accepted, answered, lost>>

-----------------------------------------------------------------------------

Step(a, w) ==
    \/ Publish(a, w) \/ LoadRequest(a, w) \/ ReadRequests(a, w) \/ WriteRequests(a, w)
    \/ ReadContacts(a, w) \/ WriteContacts(a, w) \/ Finish(a, w)

Next ==
    \E a \in Account :
        \/ \E w \in Worker : Step(a, w) \/ StepFails(a, w)
        \/ \E b \in Account, w \in Worker :
              Ask(a, b, w) \/ Decide(a, b, w) \/ Verify(a, b, w)
        \/ \E b \in Account : CliResolve(a, b)
        \/ \E m \in net : Receive(a, m)
        \/ Crash(a)

Spec == Init /\ [][Next]_vars

-----------------------------------------------------------------------------
(* Correctness                                                              *)

\* The files hold known values, and every job has a peer.
TypeOK ==
    /\ req \in [Account -> [Account ->
          {None} \cup [dir : {"incoming", "outgoing"},
                      status : {"pending", "accepted", "rejected"}]]]
    /\ contact \in [Account -> [Account ->
          {"none", "unverified", "relay-directory", "manual-verified"}]]
    /\ \A a \in Account, w \in Worker :
          work[a][w] \in {Idle, Done} \/ work[a][w].peer \in Account

\* A request of one's own stands in the file, or in the modal, as accepted only
\* once the peer is a contact: whatever else rewrites the two files meanwhile,
\* and also when the import fails or the program ends before the answer is
\* stored (handleContactResponse, content_handlers.go:83-97).  A contact that
\* another writer of contacts.json overwrote is excepted.
AcceptedIsImported ==
    \A a, b \in Account :
        Entry("outgoing", "accepted") \in {req[a][b], view[a][b]} =>
            contact[a][b] # "none" \/ <<a, b>> \in lost

With(j, b) == j \notin {Idle, Done} /\ j.peer = b

\* When nothing is under way between two accounts, either both have the other as
\* a contact or neither has, unless a failure, an answer that came before the
\* request was saved, or a lost update of the unlocked files struck the pair.
ContactsAreMutual ==
    \A a, b \in Account :
        \/ contact[a][b] # "none" /\ contact[b][a] # "none"
        \/ contact[a][b] = "none" /\ contact[b][a] = "none"
        \/ {a, b} \in struck
        \/ \E m \in net : {m.from, m.to} = {a, b}
        \/ \E w \in Worker : With(work[a][w], b) \/ With(work[b][w], a)

\* Trust in a contact never sinks: importing the same account again from the
\* directory does not take back the mark of a user who verified it, unless one
\* writer overwrites what another wrote after it had read the file.
TrustOnlyRises ==
    [][\A a, b \in Account :
          TrustRank(contact'[a][b]) >= TrustRank(contact[a][b]) \/ {a, b} \in struck']_vars

=============================================================================
