------------------------ MODULE ContactRequestsProofs ------------------------
(***************************************************************************)
(* Proofs about ContactRequests, for any accounts, jobs, answers, failures *)
(* and crashes: a request stands as accepted only once the peer was made a *)
(* contact, trust sinks only where one writer overwrites another, and two  *)
(* accounts between which nothing is under way have each other as contacts *)
(* or neither has.                                                         *)
(***************************************************************************)
EXTENDS ContactRequests, TLAPS

Trust == {"none", "unverified", "relay-directory", "manual-verified"}
Dir == {"incoming", "outgoing"}
Status == {"pending", "accepted", "rejected"}
EntryType == {None} \cup [dir : Dir, status : Status]
Steps == {"publish", "loadRequest", "readRequests", "writeRequests", "readContacts", "writeContacts"}
Kinds == {"ask", "accept", "reject", "cliAccept", "request", "accepted", "rejected", "verify"}
JobRecord == [kind : Kinds, peer : Account, bundle : Account, todo : Seq(Steps), entry : EntryType,
              failed : BOOLEAN, trust : Trust,
              map : [Account -> EntryType] \cup [Account -> Trust] \cup {<<>>}]
MessageRecord == [from : Account, to : Account, bundle : Account,
                  kind : {"request", "accepted", "rejected"}]

\* Every writer of an answer puts in its own bundle.
Job == {j \in JobRecord : j.bundle = j.peer}
Message == {m \in MessageRecord : m.bundle = m.from}

Types ==
    /\ req \in [Account -> [Account -> EntryType]]
    /\ view \in [Account -> [Account -> EntryType]]
    /\ contact \in [Account -> [Account -> Trust]]
    /\ work \in [Account -> [Worker -> Job \cup {Idle, Done}]]
    /\ net \subseteq Message

\* Who asked whom is A, whose acceptance was published is C.
Consented(A, C, a, b) ==
    \/ <<a, b>> \in A /\ <<a, b>> \in C
    \/ <<b, a>> \in A /\ <<b, a>> \in C

\* A request that came in was made.
Known(A, a, b, e) == e.dir = "incoming" => <<b, a>> \in A

\* An acceptance answers a request.
Answering(A, a, j) ==
    j.kind \in {"accept", "cliAccept"} /\ <<j.peer, a>> \in A

\* What a job has read and is about to write back.
RequestsRead(A, a, j) ==
    j.map \in [Account -> EntryType] /\ \A b \in Account : Known(A, a, b, j.map[b])
ContactsRead(A, C, a, j) ==
    /\ j.map \in [Account -> Trust]
    /\ \A b \in Account : j.map[b] # "none" => Consented(A, C, a, b)
    /\ TrustRank(j.trust) >= TrustRank(j.map[j.peer]) /\ j.trust # "none"

\* A job imports a contact with consent, or publishes the acceptance first; it
\* writes only what it has read.
Sound(A, C, a, j) ==
    /\ Known(A, a, j.peer, j.entry)
    /\ \A i \in 1..Len(j.todo) :
          /\ j.todo[i] \in {"readContacts", "writeContacts"} =>
                \/ Consented(A, C, a, j.peer)
                \/ j.todo[1] = "publish" /\ Answering(A, a, j)
          /\ j.todo[i] = "publish" =>
                i = 1 /\ (j.kind \in {"ask", "reject"} \/ Answering(A, a, j))
          /\ j.todo[i] = "loadRequest" => j.kind \in {"accepted", "rejected"}
          /\ j.todo[i] = "writeContacts" =>
                \/ i = 1 /\ ContactsRead(A, C, a, j)
                \/ i > 1 /\ j.todo[i - 1] = "readContacts"
          /\ j.todo[i] = "writeRequests" =>
                \/ i = 1 /\ RequestsRead(A, a, j)
                \/ i > 1 /\ j.todo[i - 1] = "readRequests"

Jobs ==
    \A a \in Account, w \in Worker :
        work[a][w] \notin {Idle, Done} => Sound(asked, accepted, a, work[a][w])

Files ==
    \A a, b \in Account :
        /\ Known(asked, a, b, req[a][b]) /\ Known(asked, a, b, view[a][b])
        /\ contact[a][b] # "none" => Consented(asked, accepted, a, b)

Messages ==
    \A m \in net :
        /\ m.kind = "request" => <<m.from, m.to>> \in asked
        /\ m.kind = "accepted" => Consented(asked, accepted, m.to, m.from)

Inv == Types /\ Jobs /\ Files /\ Messages

-----------------------------------------------------------------------------
LEMMA IdleIsNoJob ==
  /\ Idle \notin Job /\ Done \notin Job /\ Idle # Done
  /\ Idle.kind = "idle" /\ Done.kind = "done" /\ None \in EntryType /\ None.dir = "none"
  BY DEF Idle, Done, Job, JobRecord, Kinds, None, EntryType

LEMMA InitHolds == Init => Inv
<1> SUFFICES ASSUME Init PROVE Inv
  OBVIOUS
<1>1. \A a, b \in Account : req[a][b] \in EntryType /\ Known(asked, a, b, req[a][b])
  BY IdleIsNoJob DEF Init, Entry, EntryType, Dir, Status, Known
<1>2. Types
  BY <1>1 DEF Init, Types, Trust
<1>3. Files
  BY <1>1 DEF Init, Files
<1>4. Jobs /\ Messages
  BY DEF Init, Jobs, Messages
<1> QED
  BY <1>2, <1>3, <1>4 DEF Inv

-----------------------------------------------------------------------------
\* More requests and acceptances take no consent away.
LEMMA ConsentStays ==
  ASSUME NEW A, NEW B, NEW C, NEW D, A \subseteq B, C \subseteq D, NEW a
  PROVE  /\ \A b : Consented(A, C, a, b) => Consented(B, D, a, b)
         /\ \A b, e : Known(A, a, b, e) => Known(B, a, b, e)
         /\ \A j : Answering(A, a, j) => Answering(B, a, j)
  BY DEF Consented, Known, Answering

LEMMA SoundStays ==
  ASSUME NEW A, NEW B, NEW C, NEW D, A \subseteq B, C \subseteq D, NEW a, NEW j,
         j \in Job, Sound(A, C, a, j)
  PROVE  Sound(B, D, a, j)
<1>1. ContactsRead(A, C, a, j) => ContactsRead(B, D, a, j)
  BY ConsentStays DEF ContactsRead
<1>2. RequestsRead(A, a, j) => RequestsRead(B, a, j)
  BY ConsentStays DEF RequestsRead
<1> QED
  BY <1>1, <1>2, ConsentStays DEF Sound

\* The steps that remain when one is done, or when the job fails.
LEMMA RestOfSteps ==
  ASSUME NEW s \in Seq(Steps), s # <<>>
  PROVE  /\ Tail(s) \in Seq(Steps) /\ s[1] = Head(s) /\ Head(s) \in Steps
         /\ 1 \in 1..Len(s)
         /\ \A i \in 1..Len(Tail(s)) : i + 1 \in 1..Len(s) /\ Tail(s)[i] = s[i + 1]
  OBVIOUS

LEMMA FailedIsSound ==
  ASSUME NEW A, NEW C, NEW a \in Account, NEW j \in Job, Known(A, a, j.peer, j.entry), j.todo = <<>>
  PROVE  Sound(A, C, a, j)
<1>1. Len(<<>>) = 0
  OBVIOUS
<1> QED
  BY <1>1 DEF Sound

\* One step further: what the step reads is sound, and a publication that
\* answers a request gives the consent.
LEMMA PassedIsSound ==
  ASSUME NEW A, NEW B, NEW C, NEW D, A \subseteq B, C \subseteq D, NEW a \in Account,
         NEW j \in Job, NEW k \in Job, Sound(A, C, a, j),
         j.todo # <<>>, k.todo = Tail(j.todo), k.peer = j.peer, k.kind = j.kind,
         Known(B, a, k.peer, k.entry),
         Head(j.todo) = "readContacts" => ContactsRead(B, D, a, k),
         Head(j.todo) = "readRequests" => RequestsRead(B, a, k),
         Head(j.todo) = "publish" /\ Answering(A, a, j) => Consented(B, D, a, j.peer)
  PROVE  Sound(B, D, a, k)
<1> DEFINE s == j.todo
<1>1. s \in Seq(Steps) /\ k.todo = Tail(s)
  BY DEF Job, JobRecord
<1>2. /\ s[1] = Head(s) /\ Head(s) \in Steps
      /\ \A i \in 1..Len(Tail(s)) : i + 1 \in 1..Len(s) /\ Tail(s)[i] = s[i + 1]
  BY <1>1, RestOfSteps
<1>3. Answering(A, a, j) => Answering(B, a, k)
  BY DEF Answering
<1>4. Consented(A, C, a, j.peer) => Consented(B, D, a, j.peer)
  BY ConsentStays
<1>5. Len(Tail(s)) \in Nat
  BY <1>1, RestOfSteps
<1>6. ASSUME NEW i \in 1..Len(Tail(s))
      PROVE  /\ Tail(s)[i] \in {"readContacts", "writeContacts"} => Consented(B, D, a, j.peer)
             /\ Tail(s)[i] # "publish"
             /\ Tail(s)[i] = "loadRequest" => j.kind \in {"accepted", "rejected"}
             /\ Tail(s)[i] = "writeContacts" =>
                   \/ i = 1 /\ ContactsRead(B, D, a, k)
                   \/ i > 1 /\ Tail(s)[i - 1] = "readContacts"
             /\ Tail(s)[i] = "writeRequests" =>
                   \/ i = 1 /\ RequestsRead(B, a, k)
                   \/ i > 1 /\ Tail(s)[i - 1] = "readRequests"
  <2>1. i + 1 \in 1..Len(s) /\ Tail(s)[i] = s[i + 1] /\ i \in Nat /\ i >= 1
    BY <1>2, <1>6
  <2>2. /\ s[i + 1] \in {"readContacts", "writeContacts"} =>
              Consented(A, C, a, j.peer) \/ (s[1] = "publish" /\ Answering(A, a, j))
        /\ s[i + 1] # "publish"
        /\ s[i + 1] = "loadRequest" => j.kind \in {"accepted", "rejected"}
        /\ s[i + 1] = "writeContacts" => s[i] = "readContacts"
        /\ s[i + 1] = "writeRequests" => s[i] = "readRequests"
    BY <2>1 DEF Sound
  <2>3. i > 1 => i - 1 \in 1..Len(Tail(s)) /\ Tail(s)[i - 1] = s[i]
    <3> HAVE i > 1
    <3>1. i - 1 \in 1..Len(Tail(s))
      BY <1>5, <2>1
    <3>2. Tail(s)[i - 1] = s[(i - 1) + 1] /\ (i - 1) + 1 = i
      BY <1>2, <2>1, <3>1
    <3> QED
      BY <3>1, <3>2
  <2>4. i = 1 \/ i > 1
    BY <2>1
  <2> QED
    BY <1>2, <1>3, <1>4, <2>1, <2>2, <2>3, <2>4
<1> HIDE DEF s
<1> QED
  BY <1>1, <1>6 DEF Sound

-----------------------------------------------------------------------------
\* One job of one account changes, and requests and acceptances only grow.
Grows == asked \subseteq asked' /\ accepted \subseteq accepted'

LEMMA JobsKeep ==
  ASSUME Inv, Grows, NEW a \in Account, NEW w \in Worker, NEW k \in Job \cup {Idle, Done},
         work' = [work EXCEPT ![a][w] = k],
         k \notin {Idle, Done} => Sound(asked', accepted', a, k)
  PROVE  work' \in [Account -> [Worker -> Job \cup {Idle, Done}]] /\ Jobs'
<1>1. work \in [Account -> [Worker -> Job \cup {Idle, Done}]]
  BY DEF Inv, Types
<1>2. work' \in [Account -> [Worker -> Job \cup {Idle, Done}]]
  BY <1>1
<1>3. \A b \in Account, u \in Worker : work'[b][u] = IF b = a /\ u = w THEN k ELSE work[b][u]
  BY <1>1
<1>4. ASSUME NEW b \in Account, NEW u \in Worker, work'[b][u] \notin {Idle, Done}
      PROVE  Sound(asked', accepted', b, work'[b][u])
  <2>1. CASE b = a /\ u = w
    BY <1>3, <1>4, <2>1
  <2>2. CASE ~(b = a /\ u = w)
    <3>1. work'[b][u] = work[b][u] /\ work[b][u] \in Job
      BY <1>1, <1>3, <1>4, <2>2
    <3>2. Sound(asked, accepted, b, work[b][u])
      BY <1>4, <3>1 DEF Inv, Jobs
    <3> QED
      BY <3>1, <3>2, SoundStays DEF Grows
  <2> QED
    BY <2>1, <2>2
<1> QED
  BY <1>2, <1>4 DEF Jobs

LEMMA FilesKeep ==
  ASSUME Inv, Grows, UNCHANGED <<req, view, contact>> PROVE Files'
  BY ConsentStays DEF Inv, Files, Grows

LEMMA MessagesKeep ==
  ASSUME Inv, Grows, net' \subseteq net PROVE Messages'
  BY ConsentStays DEF Inv, Messages, Grows

-----------------------------------------------------------------------------
\* The scripts: what is written was read by the step before, contacts are
\* imported by four kinds of job, and an answer is published before the import.
WellMade(kind, s) ==
    /\ s \in Seq(Steps)
    /\ \A i \in 1..Len(s) :
          /\ s[i] \in {"readContacts", "writeContacts"} =>
                \/ kind \in {"accepted", "verify"}
                \/ kind \in {"accept", "cliAccept"} /\ s[1] = "publish"
          /\ s[i] = "publish" => i = 1 /\ kind \in {"ask", "reject", "accept", "cliAccept"}
          /\ s[i] = "loadRequest" => kind \in {"accepted", "rejected"}
          /\ s[i] = "writeContacts" => i > 1 /\ s[i - 1] = "readContacts"
          /\ s[i] = "writeRequests" => i > 1 /\ s[i - 1] = "readRequests"

LEMMA Joined ==
  ASSUME NEW s \in Seq(Steps), NEW t \in Seq(Steps)
  PROVE  /\ s \o t \in Seq(Steps) /\ Len(s \o t) = Len(s) + Len(t)
         /\ \A i \in 1..Len(s) : (s \o t)[i] = s[i]
         /\ \A i \in 1..Len(t) : (s \o t)[Len(s) + i] = t[i]
  OBVIOUS

LEMMA ThreeSteps ==
  ASSUME NEW x \in Steps, NEW y \in Steps, NEW z \in Steps
  PROVE  LET s == <<x>> \o <<y, z>> IN
         s \in Seq(Steps) /\ Len(s) = 3 /\ s[1] = x /\ s[2] = y /\ s[3] = z
<1>1. /\ <<x>> \in Seq(Steps) /\ Len(<<x>>) = 1 /\ <<x>>[1] = x /\ 1 \in 1..1
      /\ <<y, z>> \in Seq(Steps) /\ Len(<<y, z>>) = 2 /\ <<y, z>>[1] = y /\ <<y, z>>[2] = z
      /\ 1 \in 1..2 /\ 2 \in 1..2
  OBVIOUS
<1> DEFINE s == <<x>> \o <<y, z>>
<1>2. /\ s \in Seq(Steps) /\ Len(s) = 3 /\ s[1] = x
      /\ \A i \in 1..2 : s[1 + i] = <<y, z>>[i]
  BY <1>1, Joined
<1> HIDE DEF s
<1>3. s[1 + 1] = y /\ s[1 + 2] = z
  BY <1>1, <1>2
<1> QED
  BY <1>2, <1>3 DEF s

LEMMA FiveSteps ==
  ASSUME NEW s \in Seq(Steps), Len(s) = 3, NEW u \in Steps, NEW v \in Steps
  PROVE  LET t == s \o <<u, v>> IN
         t \in Seq(Steps) /\ Len(t) = 5 /\ t[1] = s[1] /\ t[2] = s[2] /\ t[3] = s[3]
         /\ t[4] = u /\ t[5] = v
<1>1. /\ <<u, v>> \in Seq(Steps) /\ Len(<<u, v>>) = 2 /\ <<u, v>>[1] = u /\ <<u, v>>[2] = v
      /\ 1 \in 1..2 /\ 2 \in 1..2 /\ 1 \in 1..3 /\ 2 \in 1..3 /\ 3 \in 1..3
  OBVIOUS
<1> DEFINE r == <<u, v>>
           t == s \o r
<1> HIDE DEF r
<1>2. r \in Seq(Steps) /\ Len(r) = 2 /\ r[1] = u /\ r[2] = v
  BY <1>1 DEF r
<1>3. /\ t \in Seq(Steps) /\ Len(t) = 5 /\ \A i \in 1..3 : t[i] = s[i]
      /\ \A i \in 1..2 : t[3 + i] = r[i]
  <2>1. /\ t \in Seq(Steps) /\ Len(t) = Len(s) + Len(r)
        /\ \A i \in 1..Len(s) : t[i] = s[i]
        /\ \A i \in 1..Len(r) : t[Len(s) + i] = r[i]
    BY <1>2, Joined
  <2> HIDE DEF t
  <2> QED
    BY <1>2, <2>1
<1> HIDE DEF t
<1>4. t[3 + 1] = u /\ t[3 + 2] = v
  BY <1>1, <1>2, <1>3
<1> QED
  BY <1>1, <1>3, <1>4 DEF t, r

LEMMA ScriptsAreWellMade == \A kind \in Kinds : WellMade(kind, Script(kind))
<1>1. /\ Save = <<"readRequests", "writeRequests">>
      /\ Import = <<"readContacts", "writeContacts">>
  BY DEF Save, Import
<1>2. WellMade("request", Save) /\ WellMade("verify", Import)
  BY <1>1 DEF WellMade, Steps
<1>3. ASSUME NEW x \in {"publish", "loadRequest"}
      PROVE  /\ LET s == <<x>> \o Save IN
                s \in Seq(Steps) /\ Len(s) = 3 /\ s[1] = x /\ s[2] = "readRequests"
                /\ s[3] = "writeRequests"
             /\ LET s == <<x>> \o Import IN
                s \in Seq(Steps) /\ Len(s) = 3 /\ s[1] = x /\ s[2] = "readContacts"
                /\ s[3] = "writeContacts"
  BY <1>1, ThreeSteps DEF Steps
<1>4. ASSUME NEW kind, NEW x \in {"publish", "loadRequest"},
             IF x = "publish" THEN kind \in {"ask", "reject"} ELSE kind = "rejected"
      PROVE  WellMade(kind, <<x>> \o Save)
  <2> DEFINE s == <<x>> \o Save
  <2>1. /\ s \in Seq(Steps) /\ Len(s) = 3 /\ s[1] = x /\ s[2] = "readRequests"
        /\ s[3] = "writeRequests"
    BY <1>3
  <2> HIDE DEF s
  <2>2. \A i \in 1..Len(s) : i = 1 \/ i = 2 \/ i = 3
    BY <2>1
  <2>3. WellMade(kind, s)
    BY <1>4, <2>1, <2>2 DEF WellMade
  <2> QED
    BY <2>3 DEF s
<1>5. ASSUME NEW kind, NEW x \in {"publish", "loadRequest"},
             IF x = "publish" THEN kind \in {"accept", "cliAccept"} ELSE kind = "accepted"
      PROVE  WellMade(kind, <<x>> \o Save \o Import) /\ WellMade(kind, <<x>> \o Import \o Save)
  <2>1. ASSUME NEW s \in Seq(Steps), Len(s) = 5, s[1] = x,
               \/ /\ s[2] = "readRequests" /\ s[3] = "writeRequests"
                  /\ s[4] = "readContacts" /\ s[5] = "writeContacts"
               \/ /\ s[2] = "readContacts" /\ s[3] = "writeContacts"
                  /\ s[4] = "readRequests" /\ s[5] = "writeRequests"
        PROVE  WellMade(kind, s)
    <3>1. \A i \in 1..Len(s) : i = 1 \/ i = 2 \/ i = 3 \/ i = 4 \/ i = 5
      BY <2>1
    <3> QED
      BY <1>5, <2>1, <3>1 DEF WellMade
  <2> DEFINE saved == <<x>> \o Save
             imported == <<x>> \o Import
  <2>2. /\ saved \in Seq(Steps) /\ Len(saved) = 3 /\ saved[1] = x
        /\ saved[2] = "readRequests" /\ saved[3] = "writeRequests"
        /\ imported \in Seq(Steps) /\ Len(imported) = 3 /\ imported[1] = x
        /\ imported[2] = "readContacts" /\ imported[3] = "writeContacts"
    BY <1>3
  <2> HIDE DEF saved, imported
  <2>5. /\ "readRequests" \in Steps /\ "writeRequests" \in Steps
        /\ "readContacts" \in Steps /\ "writeContacts" \in Steps
    BY DEF Steps
  <2>3. WellMade(kind, saved \o Import)
    <3> DEFINE t == saved \o <<"readContacts", "writeContacts">>
    <3>1. /\ t \in Seq(Steps) /\ Len(t) = 5 /\ t[1] = x
          /\ t[2] = "readRequests" /\ t[3] = "writeRequests"
          /\ t[4] = "readContacts" /\ t[5] = "writeContacts"
      BY <2>2, <2>5, FiveSteps
    <3> HIDE DEF t
    <3>2. WellMade(kind, t)
      BY <2>1, <3>1
    <3> QED
      BY <1>1, <3>2 DEF t
  <2>4. WellMade(kind, imported \o Save)
    <3> DEFINE t == imported \o <<"readRequests", "writeRequests">>
    <3>1. /\ t \in Seq(Steps) /\ Len(t) = 5 /\ t[1] = x
          /\ t[2] = "readContacts" /\ t[3] = "writeContacts"
          /\ t[4] = "readRequests" /\ t[5] = "writeRequests"
      BY <2>2, <2>5, FiveSteps
    <3> HIDE DEF t
    <3>2. WellMade(kind, t)
      BY <2>1, <3>1
    <3> QED
      BY <1>1, <3>2 DEF t
  <2> QED
    BY <2>3, <2>4 DEF saved, imported
<1>6. /\ Script("ask") = <<"publish">> \o Save /\ Script("reject") = <<"publish">> \o Save
      /\ Script("rejected") = <<"loadRequest">> \o Save
      /\ Script("accept") = <<"publish">> \o Save \o Import
      /\ Script("cliAccept") = <<"publish">> \o Import \o Save
      /\ Script("accepted") = <<"loadRequest">> \o Import \o Save
      /\ Script("request") = Save /\ Script("verify") = Import
  BY DEF Script, Response, Import
<1> QED
  BY <1>2, <1>4, <1>5, <1>6 DEF Kinds

-----------------------------------------------------------------------------
\* The actions.

\* A step of one job that publishes nothing and writes no file.
LEMMA JobOnlyKeeps ==
  ASSUME Inv, NEW a \in Account, NEW w \in Worker, NEW k \in Job \cup {Idle, Done},
         work' = [work EXCEPT ![a][w] = k],
         k \notin {Idle, Done} => Sound(asked, accepted, a, k),
         UNCHANGED <<req, view, contact, asked, accepted>>, net' \subseteq net
  PROVE  Inv'
<1>1. Grows
  BY DEF Grows
<1>2. work' \in [Account -> [Worker -> Job \cup {Idle, Done}]] /\ Jobs'
  BY <1>1, JobsKeep
<1>3. Files' /\ Messages'
  BY <1>1, FilesKeep, MessagesKeep
<1>4. Types'
  BY <1>2 DEF Inv, Types
<1> QED
  BY <1>2, <1>3, <1>4 DEF Inv

LEMMA StartIsSound ==
  ASSUME NEW A, NEW C, NEW a \in Account, NEW kind \in Kinds, NEW b \in Account, NEW e \in EntryType,
         Known(A, a, b, e),
         kind \in {"accept", "cliAccept"} => <<b, a>> \in A,
         kind \in {"accepted", "verify"} => Consented(A, C, a, b)
  PROVE  LET j == [kind |-> kind, peer |-> b, bundle |-> b, todo |-> Script(kind), entry |-> e,
                   failed |-> FALSE, trust |-> "none", map |-> <<>>]
         IN  j \in Job /\ Sound(A, C, a, j)
<1> DEFINE s == Script(kind)
<1>1. WellMade(kind, s)
  BY ScriptsAreWellMade
<1> HIDE DEF s
<1> DEFINE j == [kind |-> kind, peer |-> b, bundle |-> b, todo |-> s, entry |-> e,
                 failed |-> FALSE, trust |-> "none", map |-> <<>>]
<1>2. j.kind = kind /\ j.peer = b /\ j.todo = s /\ j.entry = e
  OBVIOUS
<1>3. j \in Job
  BY <1>1 DEF Job, JobRecord, Trust, WellMade
<1> HIDE DEF j
<1>4. Sound(A, C, a, j)
  BY <1>1, <1>2 DEF Sound, WellMade, Answering
<1> QED
  BY <1>3, <1>4 DEF j, s

LEMMA StartKeeps ==
  ASSUME Inv, NEW a \in Account, NEW w \in Worker, NEW kind \in Kinds, NEW b \in Account,
         NEW e \in EntryType, Start(a, w, kind, b, b, e), Known(asked, a, b, e),
         kind \in {"accept", "cliAccept"} => <<b, a>> \in asked,
         kind \in {"accepted", "verify"} => Consented(asked, accepted, a, b),
         UNCHANGED <<req, view, contact, asked, accepted>>, net' \subseteq net
  PROVE  Inv'
<1> DEFINE j == [kind |-> kind, peer |-> b, bundle |-> b, todo |-> Script(kind), entry |-> e,
                 failed |-> FALSE, trust |-> "none", map |-> <<>>]
<1>1. j \in Job /\ Sound(asked, accepted, a, j)
  BY StartIsSound
<1>2. work' = [work EXCEPT ![a][w] = j]
  BY DEF Start
<1> HIDE DEF j
<1> QED
  BY <1>1, <1>2, JobOnlyKeeps

LEMMA PendingIsKnown ==
  ASSUME NEW A, NEW a, NEW b, NEW e, Known(A, a, b, e), isPendingIncoming(e)
  PROVE  <<b, a>> \in A
  BY DEF Known, isPendingIncoming, Entry

LEMMA EntriesAreTyped ==
  /\ \A d \in {"incoming", "outgoing"}, s \in {"pending", "accepted", "rejected"} :
        Entry(d, s) \in EntryType /\ Entry(d, s).dir = d
  /\ None \in EntryType /\ None.dir = "none"
  BY DEF Entry, EntryType, Dir, Status, None

LEMMA AskKeeps ==
  ASSUME Inv, NEW a \in Account, NEW b \in Account, NEW w \in Worker, Ask(a, b, w) PROVE Inv'
<1> DEFINE e == Entry("outgoing", "pending")
<1>1. e \in EntryType /\ Known(asked, a, b, e)
  BY EntriesAreTyped DEF Known
<1>2. Start(a, w, "ask", b, b, e) /\ UNCHANGED <<req, view, contact, asked, accepted, net>>
  BY DEF Ask
<1> HIDE DEF e
<1> QED
  BY <1>1, <1>2, StartKeeps DEF Kinds

LEMMA DecideKeeps ==
  ASSUME Inv, NEW a \in Account, NEW b \in Account, NEW w \in Worker, Decide(a, b, w) PROVE Inv'
<1>1. <<b, a>> \in asked
  BY PendingIsKnown DEF Decide, Inv, Files
<1>2. PICK kind \in {"accept", "reject"} :
        Start(a, w, kind, b, b, Entry("incoming", IF kind = "accept" THEN "accepted" ELSE "rejected"))
  BY DEF Decide
<1> DEFINE e == Entry("incoming", IF kind = "accept" THEN "accepted" ELSE "rejected")
<1>3. e \in EntryType /\ Known(asked, a, b, e)
  BY <1>1, EntriesAreTyped DEF Known
<1>4. UNCHANGED <<req, view, contact, asked, accepted, net>>
  BY DEF Decide
<1> HIDE DEF e
<1> QED
  BY <1>1, <1>2, <1>3, <1>4, StartKeeps DEF Kinds, e

LEMMA CliResolveKeeps ==
  ASSUME Inv, NEW a \in Account, NEW b \in Account, CliResolve(a, b) PROVE Inv'
<1>1. <<b, a>> \in asked
  BY PendingIsKnown DEF CliResolve, Inv, Files
<1>2. /\ \A s \in {"accepted", "rejected"} :
            Entry("incoming", s) \in EntryType /\ Known(asked, a, b, Entry("incoming", s))
      /\ "cli" \in Worker
  BY <1>1, EntriesAreTyped DEF Known, Worker
<1>3. UNCHANGED <<req, view, contact, asked, accepted, net>>
  BY DEF CliResolve
<1>4. \/ Start(a, "cli", "cliAccept", b, b, Entry("incoming", "accepted"))
      \/ Start(a, "cli", "reject", b, b, Entry("incoming", "rejected"))
  BY DEF CliResolve
<1> QED
  BY <1>1, <1>2, <1>3, <1>4, StartKeeps DEF Kinds

LEMMA VerifyKeeps ==
  ASSUME Inv, NEW a \in Account, NEW b \in Account, NEW w \in Worker, Verify(a, b, w) PROVE Inv'
<1>1. Consented(asked, accepted, a, b)
  BY DEF Verify, Inv, Files
<1>2. None \in EntryType /\ Known(asked, a, b, None)
  BY EntriesAreTyped DEF Known
<1>3. Start(a, w, "verify", b, b, None) /\ UNCHANGED <<req, view, contact, asked, accepted, net>>
  BY DEF Verify
<1> QED
  BY <1>1, <1>2, <1>3, StartKeeps DEF Kinds

LEMMA ReceiveKeeps ==
  ASSUME Inv, NEW a \in Account, NEW m \in net, Receive(a, m) PROVE Inv'
<1> DEFINE e == IF m.kind = "request" THEN Entry("incoming", "pending") ELSE None
<1>1. /\ m \in Message /\ m.to = a /\ m.from \in Account /\ m.kind \in Kinds
      /\ m.kind \notin {"accept", "cliAccept", "verify"}
      /\ m.kind = "request" => <<m.from, a>> \in asked
      /\ m.kind = "accepted" => Consented(asked, accepted, a, m.from)
      /\ m.bundle = m.from
  BY DEF Receive, Inv, Types, Messages, Message, MessageRecord, Kinds
<1>2. e \in EntryType /\ Known(asked, a, m.from, e)
  BY <1>1, EntriesAreTyped DEF Known
<1>3. /\ Start(a, "update", m.kind, m.from, m.from, e) /\ net' \subseteq net /\ "update" \in Worker
      /\ UNCHANGED <<req, view, contact, asked, accepted>>
  BY <1>1 DEF Receive, Worker
<1> HIDE DEF e
<1> QED
  BY <1>1, <1>2, <1>3, StartKeeps


\* Worker w of a is in the middle of a job.
LEMMA Working ==
  ASSUME Inv, NEW a \in Account, NEW w \in Worker, work[a][w] \notin {Idle, Done}
  PROVE  work[a][w] \in Job /\ Sound(asked, accepted, a, work[a][w])
  BY DEF Inv, Types, Jobs

\* A step of a job that goes on, as PassedIsSound has it.
LEMMA PassesKeeps ==
  ASSUME Inv, Grows, NEW a \in Account, NEW w \in Worker, NEW k \in Job,
         work[a][w] \notin {Idle, Done}, work[a][w].todo # <<>>,
         work' = [work EXCEPT ![a][w] = k],
         k.todo = Tail(work[a][w].todo), k.peer = work[a][w].peer, k.kind = work[a][w].kind,
         Known(asked', a, k.peer, k.entry),
         Head(work[a][w].todo) = "readContacts" => ContactsRead(asked', accepted', a, k),
         Head(work[a][w].todo) = "readRequests" => RequestsRead(asked', a, k),
         Head(work[a][w].todo) = "publish" /\ Answering(asked, a, work[a][w]) =>
            Consented(asked', accepted', a, k.peer)
  PROVE  work' \in [Account -> [Worker -> Job \cup {Idle, Done}]] /\ Jobs'
<1>1. work[a][w] \in Job /\ Sound(asked, accepted, a, work[a][w])
  BY Working
<1>2. Sound(asked', accepted', a, k)
  BY <1>1, PassedIsSound DEF Grows
<1> QED
  BY <1>2, JobsKeep

\* The job that a step leaves.
Left(j) == [j EXCEPT !.todo = Tail(j.todo)]

LEMMA PassedJob ==
  ASSUME Inv, NEW a \in Account, NEW w \in Worker, work[a][w] \in Job, work[a][w].todo # <<>>,
         NEW j \in Job, j.todo = work[a][w].todo, Passed(a, w, j)
  PROVE  /\ Left(j) \in Job /\ work' = [work EXCEPT ![a][w] = Left(j)]
         /\ Left(j).todo = Tail(work[a][w].todo)
         /\ Left(j).peer = j.peer /\ Left(j).kind = j.kind /\ Left(j).entry = j.entry
         /\ Left(j).map = j.map /\ Left(j).trust = j.trust
<1>1. Tail(j.todo) \in Seq(Steps)
  BY RestOfSteps DEF Job, JobRecord
<1> QED
  BY <1>1 DEF Passed, Job, JobRecord, Left

LEMMA AtIsWorking ==
  ASSUME Inv, NEW a \in Account, NEW w \in Worker, NEW step \in Steps, At(a, w, step)
  PROVE  /\ work[a][w] \notin {Idle, Done} /\ work[a][w] \in Job
         /\ work[a][w].todo # <<>> /\ Head(work[a][w].todo) = step
         /\ work[a][w].todo[1] = step /\ 1 \in 1..Len(work[a][w].todo)
         /\ Sound(asked, accepted, a, work[a][w])
         /\ Known(asked, a, work[a][w].peer, work[a][w].entry)
<1>1. /\ work[a][w] \notin {Idle, Done} /\ work[a][w].todo # <<>>
      /\ Head(work[a][w].todo) = step
  BY DEF At
<1>2. work[a][w] \in Job /\ Sound(asked, accepted, a, work[a][w])
  BY <1>1, Working
<1>3. work[a][w].todo \in Seq(Steps)
  BY <1>2 DEF Job, JobRecord
<1> QED
  BY <1>1, <1>2, <1>3, RestOfSteps DEF Sound

\* A publication sends what its job may send.
LEMMA SendsKeeps ==
  ASSUME Inv, NEW a \in Account, NEW w \in Worker, At(a, w, "publish"), Sends(a, w)
  PROVE  /\ Grows /\ net' \subseteq Message /\ Messages'
         /\ Answering(asked, a, work[a][w]) => Consented(asked', accepted', a, work[a][w].peer)
<1> DEFINE j == work[a][w]
           m == Envelope(a, j)
<1>1. /\ j \in Job /\ j.peer \in Account
      /\ j.kind \in {"ask", "reject"} \/ Answering(asked, a, j)
  <2>1. "publish" \in Steps
    BY DEF Steps
  <2>2. /\ j \in Job /\ j.todo[1] = "publish" /\ 1 \in 1..Len(j.todo)
        /\ Sound(asked, accepted, a, j)
    BY <2>1, AtIsWorking
  <2> QED
    BY <2>2 DEF Sound, Job, JobRecord
<1>2. Grows
  BY DEF Sends, Grows
<1>3. Answering(asked, a, j) => Consented(asked', accepted', a, j.peer)
  BY DEF Sends, Answering, Consented
<1>4. /\ m.from = a /\ m.to = j.peer /\ m \in Message
      /\ m.kind = "request" => j.kind = "ask"
      /\ m.kind = "accepted" => Answering(asked, a, j)
  BY <1>1 DEF Envelope, Message, MessageRecord, Answering
<1>5. /\ j.kind = "ask" => <<a, j.peer>> \in asked'
      /\ net' = net \cup {m}
  BY DEF Sends
<1>6. \A A, C, b, c : Consented(A, C, b, c) <=> Consented(A, C, c, b)
  BY DEF Consented
<1> HIDE DEF m, j
<1>7. net' \subseteq Message
  BY <1>4, <1>5 DEF Inv, Types
<1>8. ASSUME NEW n \in net'
      PROVE  /\ n.kind = "request" => <<n.from, n.to>> \in asked'
             /\ n.kind = "accepted" => Consented(asked', accepted', n.to, n.from)
  <2>1. CASE n = m
    BY <1>3, <1>4, <1>5, <1>6, <2>1
  <2>2. CASE n \in net
    BY <1>2, <2>2, ConsentStays DEF Inv, Messages, Grows
  <2> QED
    BY <1>5, <2>1, <2>2
<1> QED
  BY <1>2, <1>3, <1>7, <1>8 DEF Messages, j


LEMMA PublishKeeps ==
  ASSUME Inv, NEW a \in Account, NEW w \in Worker, Publish(a, w) PROVE Inv'
<1> DEFINE j == work[a][w]
           k == Left(j)
<1>1. /\ At(a, w, "publish") /\ Sends(a, w) /\ Passed(a, w, j)
      /\ UNCHANGED <<req, contact, view>>
  BY DEF Publish
<1>2. /\ j \notin {Idle, Done} /\ j \in Job /\ j.todo # <<>> /\ Head(j.todo) = "publish"
      /\ Known(asked, a, j.peer, j.entry)
  BY <1>1, AtIsWorking DEF Steps
<1>3. /\ Grows /\ net' \subseteq Message /\ Messages'
      /\ Answering(asked, a, j) => Consented(asked', accepted', a, j.peer)
  BY <1>1, SendsKeeps
<1>4. /\ k \in Job /\ work' = [work EXCEPT ![a][w] = k] /\ k.todo = Tail(j.todo)
      /\ k.peer = j.peer /\ k.kind = j.kind /\ k.entry = j.entry
  BY <1>1, <1>2, PassedJob
<1>5. Known(asked', a, j.peer, j.entry)
  BY <1>2, <1>3, ConsentStays DEF Grows
<1> HIDE DEF k
<1>6. work' \in [Account -> [Worker -> Job \cup {Idle, Done}]] /\ Jobs'
  BY <1>2, <1>3, <1>4, <1>5, PassesKeeps
<1>7. Files'
  BY <1>1, <1>3, FilesKeep
<1>8. Types'
  BY <1>1, <1>3, <1>6 DEF Inv, Types
<1> QED
  BY <1>3, <1>6, <1>7, <1>8 DEF Inv

LEMMA FailKeeps ==
  ASSUME Inv, Grows, NEW a \in Account, NEW w \in Worker, work[a][w] \notin {Idle, Done}, Fails(a, w)
  PROVE  work' \in [Account -> [Worker -> Job \cup {Idle, Done}]] /\ Jobs'
<1> DEFINE j == work[a][w]
           k == [j EXCEPT !.todo = <<>>, !.failed = TRUE, !.map = <<>>]
<1>1. j \in Job /\ Known(asked, a, j.peer, j.entry) /\ <<>> \in Seq(Steps)
  BY Working DEF Sound
<1>2. /\ k \in Job /\ k.peer = j.peer /\ k.entry = j.entry /\ k.todo = <<>>
  BY <1>1 DEF Job, JobRecord
<1>3. work' = [work EXCEPT ![a][w] = k]
  BY DEF Fails, Inv, Types
<1>4. Known(asked', a, k.peer, k.entry)
  BY <1>1, <1>2, ConsentStays DEF Grows
<1> HIDE DEF k
<1>5. Sound(asked', accepted', a, k)
  BY <1>2, <1>4, FailedIsSound
<1> QED
  BY <1>2, <1>3, <1>5, JobsKeep

LEMMA LoadRequestKeeps ==
  ASSUME Inv, NEW a \in Account, NEW w \in Worker, LoadRequest(a, w) PROVE Inv'
<1> DEFINE j == work[a][w]
           found == req[a][j.peer]
           e == [found EXCEPT !.status = j.kind]
           i == [j EXCEPT !.entry = e]
           k == Left(i)
<1>1. /\ At(a, w, "loadRequest") /\ UNCHANGED <<req, contact, view, net, asked, accepted>>
      /\ Fails(a, w) \/ (found # None /\ Passed(a, w, i))
  BY DEF LoadRequest
<1>2. /\ j \notin {Idle, Done} /\ j \in Job /\ j.todo # <<>> /\ Head(j.todo) = "loadRequest"
  BY <1>1, AtIsWorking DEF Steps
<1>3. Grows
  BY <1>1 DEF Grows
<1>4. CASE Fails(a, w)
  <2>1. work' \in [Account -> [Worker -> Job \cup {Idle, Done}]] /\ Jobs'
    BY <1>2, <1>3, <1>4, FailKeeps
  <2>2. Files' /\ Messages'
    BY <1>1, <1>3, FilesKeep, MessagesKeep
  <2> QED
    BY <1>1, <2>1, <2>2 DEF Inv, Types
<1>5. CASE found # None /\ Passed(a, w, i)
  <2>1. j.peer \in Account /\ j.kind \in {"accepted", "rejected"}
    <3>1. "loadRequest" \in Steps
      BY DEF Steps
    <3>2. /\ j.todo[1] = "loadRequest" /\ 1 \in 1..Len(j.todo)
          /\ Sound(asked, accepted, a, j)
      BY <1>1, <3>1, AtIsWorking
    <3> QED
      BY <1>2, <3>2 DEF Job, JobRecord, Sound
  <2>2. found \in [dir : Dir, status : Status] /\ Known(asked, a, j.peer, found)
    BY <1>1, <1>5, <2>1 DEF Inv, Types, Files, EntryType
  <2>3. e \in EntryType /\ Known(asked, a, j.peer, e)
    BY <2>1, <2>2 DEF EntryType, Status, Known
  <2> HIDE DEF e
  <2>4. i \in Job /\ i.todo = j.todo /\ i.peer = j.peer /\ i.kind = j.kind /\ i.entry = e
    BY <1>2, <2>3 DEF Job, JobRecord
  <2> HIDE DEF i
  <2>5. /\ k \in Job /\ work' = [work EXCEPT ![a][w] = k] /\ k.todo = Tail(j.todo)
        /\ k.peer = j.peer /\ k.kind = j.kind /\ k.entry = e
    BY <1>2, <1>5, <2>4, PassedJob
  <2> HIDE DEF k
  <2>6. work' \in [Account -> [Worker -> Job \cup {Idle, Done}]] /\ Jobs'
    BY <1>1, <1>2, <1>3, <2>3, <2>5, PassesKeeps
  <2>7. Files' /\ Messages'
    BY <1>1, <1>3, FilesKeep, MessagesKeep
  <2> QED
    BY <1>1, <2>6, <2>7 DEF Inv, Types
<1> QED
  BY <1>1, <1>4, <1>5


LEMMA ReadRequestsKeeps ==
  ASSUME Inv, NEW a \in Account, NEW w \in Worker, ReadRequests(a, w) PROVE Inv'
<1> DEFINE j == work[a][w]
           i == [j EXCEPT !.map = req[a]]
           k == Left(i)
<1>1. /\ At(a, w, "readRequests") /\ Passed(a, w, i)
      /\ UNCHANGED <<req, contact, view, net, asked, accepted>>
  BY DEF ReadRequests
<1>2. /\ j \notin {Idle, Done} /\ j \in Job /\ j.todo # <<>> /\ Head(j.todo) = "readRequests"
      /\ Known(asked, a, j.peer, j.entry)
  BY <1>1, AtIsWorking DEF Steps
<1>3. req[a] \in [Account -> EntryType]
  BY DEF Inv, Types
<1>4. /\ i \in Job /\ i.todo = j.todo /\ i.peer = j.peer /\ i.kind = j.kind
      /\ i.entry = j.entry /\ i.map = req[a]
  BY <1>2, <1>3 DEF Job, JobRecord
<1> HIDE DEF i
<1>5. /\ k \in Job /\ work' = [work EXCEPT ![a][w] = k] /\ k.todo = Tail(j.todo)
      /\ k.peer = j.peer /\ k.kind = j.kind /\ k.entry = j.entry /\ k.map = req[a]
  BY <1>1, <1>2, <1>4, PassedJob
<1> HIDE DEF k
<1>6. RequestsRead(asked', a, k)
  BY <1>1, <1>3, <1>5 DEF RequestsRead, Inv, Files
<1>7. Grows /\ Known(asked', a, j.peer, j.entry)
  BY <1>1, <1>2 DEF Grows
<1>8. work' \in [Account -> [Worker -> Job \cup {Idle, Done}]] /\ Jobs'
  BY <1>2, <1>5, <1>6, <1>7, PassesKeeps
<1>9. Files' /\ Messages'
  BY <1>1, <1>7, FilesKeep, MessagesKeep
<1> QED
  BY <1>1, <1>8, <1>9 DEF Inv, Types

\* Trust only grows stronger, and a contact that is there stays one.
LEMMA StrongerIsStronger ==
  \A s, t \in Trust :
     /\ StrongerTrust(s, t) \in Trust /\ TrustRank(s) \in Nat
     /\ TrustRank(StrongerTrust(s, t)) >= TrustRank(s)
     /\ TrustRank(StrongerTrust(s, t)) >= TrustRank(t)
     /\ mergeStoredContactTrust(s, t) \in Trust
     /\ TrustRank(mergeStoredContactTrust(s, t)) >= TrustRank(s)
     /\ mergeStoredContactTrust(s, t) # "none" /\ StrongerTrust(s, "manual-verified") # "none"
<1>1. \A s \in Trust : TrustRank(s) \in Nat
  BY DEF Trust, TrustRank
<1>2. \A s, t \in Trust :
         /\ StrongerTrust(s, t) \in Trust
         /\ TrustRank(StrongerTrust(s, t)) >= TrustRank(s)
         /\ TrustRank(StrongerTrust(s, t)) >= TrustRank(t)
  BY <1>1 DEF StrongerTrust
<1>3. \A s, t \in Trust :
         /\ mergeStoredContactTrust(s, t) \in Trust
         /\ TrustRank(mergeStoredContactTrust(s, t)) >= TrustRank(s)
         /\ TrustRank(mergeStoredContactTrust(s, t)) >= 1
  <2> SUFFICES ASSUME NEW s \in Trust, NEW t \in Trust
               PROVE  /\ mergeStoredContactTrust(s, t) \in Trust
                      /\ TrustRank(mergeStoredContactTrust(s, t)) >= TrustRank(s)
                      /\ TrustRank(mergeStoredContactTrust(s, t)) >= 1
    OBVIOUS
  <2> DEFINE u == StrongerTrust("unverified", s)
  <2>1. u \in Trust /\ TrustRank(u) >= TrustRank(s) /\ TrustRank(u) >= 1
    <3>1. "unverified" \in Trust /\ TrustRank("unverified") = 1
      BY DEF Trust, TrustRank
    <3> QED
      BY <1>2, <3>1
  <2> HIDE DEF u
  <2>2. /\ StrongerTrust(u, t) \in Trust /\ TrustRank(StrongerTrust(u, t)) >= TrustRank(u)
    BY <1>2, <2>1
  <2>3. /\ TrustRank(StrongerTrust(u, t)) >= TrustRank(s)
        /\ TrustRank(StrongerTrust(u, t)) >= 1
    BY <1>1, <2>1, <2>2
  <2> QED
    BY <2>2, <2>3 DEF mergeStoredContactTrust, u
<1>4. TrustRank("none") = 0 /\ TrustRank("manual-verified") = 3 /\ "manual-verified" \in Trust
  BY DEF TrustRank, Trust
<1>5. \A s \in Trust : StrongerTrust(s, "manual-verified") # "none"
  BY <1>1, <1>2, <1>4
<1>6. \A s, t \in Trust : mergeStoredContactTrust(s, t) # "none"
  BY <1>3, <1>4
<1> QED
  BY <1>1, <1>2, <1>3, <1>5, <1>6

LEMMA ReadContactsKeeps ==
  ASSUME Inv, NEW a \in Account, NEW w \in Worker, ReadContacts(a, w) PROVE Inv'
<1> DEFINE j == work[a][w]
           stored == contact[a][j.bundle]
           trust == IF j.kind = "verify" THEN StrongerTrust(stored, "manual-verified")
                    ELSE mergeStoredContactTrust(stored, "relay-directory")
           i == [j EXCEPT !.map = contact[a], !.trust = trust]
           k == Left(i)
<1>1. /\ At(a, w, "readContacts") /\ Passed(a, w, i)
      /\ UNCHANGED <<req, contact, view, net, asked, accepted>>
  BY DEF ReadContacts
<1>2. /\ j \notin {Idle, Done} /\ j \in Job /\ j.todo # <<>> /\ Head(j.todo) = "readContacts"
      /\ Known(asked, a, j.peer, j.entry) /\ j.peer \in Account /\ j.bundle = j.peer
  BY <1>1, AtIsWorking DEF Steps, Job, JobRecord
<1>3. contact[a] \in [Account -> Trust] /\ stored \in Trust
  BY <1>2 DEF Inv, Types
<1>4. trust \in Trust /\ TrustRank(trust) >= TrustRank(stored) /\ trust # "none"
  BY <1>3, StrongerIsStronger DEF Trust
<1> HIDE DEF trust
<1>5. /\ i \in Job /\ i.todo = j.todo /\ i.peer = j.peer /\ i.kind = j.kind
      /\ i.entry = j.entry /\ i.map = contact[a] /\ i.trust = trust
  BY <1>2, <1>3, <1>4 DEF Job, JobRecord
<1> HIDE DEF i
<1>6. /\ k \in Job /\ work' = [work EXCEPT ![a][w] = k] /\ k.todo = Tail(j.todo)
      /\ k.peer = j.peer /\ k.kind = j.kind /\ k.entry = j.entry
      /\ k.map = contact[a] /\ k.trust = trust
  BY <1>1, <1>2, <1>5, PassedJob
<1> HIDE DEF k
<1>7. ContactsRead(asked', accepted', a, k)
  BY <1>1, <1>2, <1>3, <1>4, <1>6 DEF ContactsRead, Inv, Files
<1>8. Grows /\ Known(asked', a, j.peer, j.entry)
  BY <1>1, <1>2 DEF Grows
<1>9. work' \in [Account -> [Worker -> Job \cup {Idle, Done}]] /\ Jobs'
  BY <1>2, <1>6, <1>7, <1>8, PassesKeeps
<1>10. Files' /\ Messages'
  BY <1>1, <1>8, FilesKeep, MessagesKeep
<1> QED
  BY <1>1, <1>9, <1>10 DEF Inv, Types


LEMMA WriteRequestsKeeps ==
  ASSUME Inv, NEW a \in Account, NEW w \in Worker, WriteRequests(a, w) PROVE Inv'
<1> DEFINE j == work[a][w]
           i == [j EXCEPT !.map = <<>>]
           k == Left(i)
           map == [j.map EXCEPT ![j.peer] = j.entry]
<1>1. /\ At(a, w, "writeRequests") /\ Passed(a, w, i) /\ req' = [req EXCEPT ![a] = map]
      /\ UNCHANGED <<contact, view, net, asked, accepted>>
  BY DEF WriteRequests
<1>2. /\ j \notin {Idle, Done} /\ j \in Job /\ j.todo # <<>> /\ Head(j.todo) = "writeRequests"
      /\ j.todo[1] = "writeRequests" /\ 1 \in 1..Len(j.todo)
      /\ Sound(asked, accepted, a, j) /\ Known(asked, a, j.peer, j.entry)
  BY <1>1, AtIsWorking DEF Steps
<1>3. j.peer \in Account /\ j.entry \in EntryType
  BY <1>2 DEF Job, JobRecord
<1>4. RequestsRead(asked, a, j)
  BY <1>2 DEF Sound
<1>5. map \in [Account -> EntryType] /\ \A b \in Account : Known(asked, a, b, map[b])
  BY <1>2, <1>3, <1>4 DEF RequestsRead
<1> HIDE DEF map
<1>6. /\ req' \in [Account -> [Account -> EntryType]]
      /\ \A c, b \in Account : Known(asked, c, b, req'[c][b])
  BY <1>1, <1>5 DEF Inv, Types, Files
<1>7. /\ i \in Job /\ i.todo = j.todo /\ i.peer = j.peer /\ i.kind = j.kind /\ i.entry = j.entry
  BY <1>2 DEF Job, JobRecord
<1> HIDE DEF i
<1>8. /\ k \in Job /\ work' = [work EXCEPT ![a][w] = k] /\ k.todo = Tail(j.todo)
      /\ k.peer = j.peer /\ k.kind = j.kind /\ k.entry = j.entry
  BY <1>1, <1>2, <1>7, PassedJob
<1> HIDE DEF k
<1>9. Grows /\ Known(asked', a, j.peer, j.entry)
  BY <1>1, <1>2 DEF Grows
<1>10. work' \in [Account -> [Worker -> Job \cup {Idle, Done}]] /\ Jobs'
  BY <1>2, <1>8, <1>9, PassesKeeps
<1>11. Messages'
  BY <1>1, <1>9, MessagesKeep
<1>12. Files'
  BY <1>1, <1>6 DEF Inv, Files
<1> QED
  BY <1>1, <1>6, <1>10, <1>11, <1>12 DEF Inv, Types

\* What a job writes to the contacts: everyone in it consented, and no trust is
\* below what the job read.
LEMMA WrittenContacts ==
  ASSUME Inv, NEW a \in Account, NEW w \in Worker, At(a, w, "writeContacts")
  PROVE  LET j == work[a][w]
             map == [j.map EXCEPT ![j.bundle] = j.trust]
         IN /\ map \in [Account -> Trust] /\ j.map \in [Account -> Trust]
            /\ \A b \in Account : map[b] # "none" => Consented(asked, accepted, a, b)
            /\ \A b \in Account : TrustRank(map[b]) >= TrustRank(j.map[b])
<1> DEFINE j == work[a][w]
<1>1. "writeContacts" \in Steps
  BY DEF Steps
<1>2. /\ j \in Job /\ j.todo[1] = "writeContacts" /\ 1 \in 1..Len(j.todo)
      /\ Sound(asked, accepted, a, j)
  BY <1>1, AtIsWorking
<1>3. j.peer \in Account /\ j.bundle = j.peer /\ j.trust \in Trust
  BY <1>2 DEF Job, JobRecord
<1>4. ContactsRead(asked, accepted, a, j) /\ Consented(asked, accepted, a, j.peer)
  BY <1>2 DEF Sound
<1>5. \A t \in Trust : TrustRank(t) >= TrustRank(t)
  BY StrongerIsStronger
<1> QED
  BY <1>3, <1>4, <1>5 DEF ContactsRead

LEMMA WriteContactsKeeps ==
  ASSUME Inv, NEW a \in Account, NEW w \in Worker, WriteContacts(a, w) PROVE Inv'
<1> DEFINE j == work[a][w]
           i == [j EXCEPT !.map = <<>>, !.trust = "none"]
           k == Left(i)
           map == [j.map EXCEPT ![j.bundle] = j.trust]
<1>1. /\ At(a, w, "writeContacts") /\ Passed(a, w, i) /\ contact' = [contact EXCEPT ![a] = map]
      /\ UNCHANGED <<req, view, net, asked, accepted>>
  BY DEF WriteContacts
<1>2. /\ j \notin {Idle, Done} /\ j \in Job /\ j.todo # <<>> /\ Head(j.todo) = "writeContacts"
      /\ Known(asked, a, j.peer, j.entry)
  BY <1>1, AtIsWorking DEF Steps
<1>3. /\ map \in [Account -> Trust]
      /\ \A b \in Account : map[b] # "none" => Consented(asked, accepted, a, b)
  BY <1>1, WrittenContacts
<1> HIDE DEF map
<1>4. /\ contact' \in [Account -> [Account -> Trust]]
      /\ \A c, b \in Account : contact'[c][b] # "none" => Consented(asked, accepted, c, b)
  BY <1>1, <1>3 DEF Inv, Types, Files
<1>5. /\ i \in Job /\ i.todo = j.todo /\ i.peer = j.peer /\ i.kind = j.kind /\ i.entry = j.entry
  BY <1>2 DEF Job, JobRecord, Trust
<1> HIDE DEF i
<1>6. /\ k \in Job /\ work' = [work EXCEPT ![a][w] = k] /\ k.todo = Tail(j.todo)
      /\ k.peer = j.peer /\ k.kind = j.kind /\ k.entry = j.entry
  BY <1>1, <1>2, <1>5, PassedJob
<1> HIDE DEF k
<1>7. Grows /\ Known(asked', a, j.peer, j.entry)
  BY <1>1, <1>2 DEF Grows
<1>8. work' \in [Account -> [Worker -> Job \cup {Idle, Done}]] /\ Jobs'
  BY <1>2, <1>6, <1>7, PassesKeeps
<1>9. Messages'
  BY <1>1, <1>7, MessagesKeep
<1>10. Files'
  BY <1>1, <1>4 DEF Inv, Files
<1> QED
  BY <1>1, <1>4, <1>8, <1>9, <1>10 DEF Inv, Types

LEMMA FinishKeeps ==
  ASSUME Inv, NEW a \in Account, NEW w \in Worker, Finish(a, w) PROVE Inv'
<1> DEFINE j == work[a][w]
           k == IF w = "cli" THEN Done ELSE Idle
<1>1. /\ j \notin {Idle, Done} /\ work' = [work EXCEPT ![a][w] = k]
      /\ view' = view \/ view' = [view EXCEPT ![a][j.peer] = j.entry]
      /\ UNCHANGED <<req, contact, net, asked, accepted>>
  BY DEF Finish
<1>2. /\ j \in Job /\ Known(asked, a, j.peer, j.entry)
  BY <1>1, Working DEF Sound
<1>3. j.peer \in Account /\ j.entry \in EntryType
  BY <1>2 DEF Job, JobRecord
<1>4. k \in {Idle, Done} /\ Grows
  BY <1>1 DEF Grows
<1> HIDE DEF k, j
<1>5. work' \in [Account -> [Worker -> Job \cup {Idle, Done}]] /\ Jobs'
  BY <1>1, <1>4, JobsKeep
<1>6. Messages'
  BY <1>1, <1>4, MessagesKeep
<1>7. /\ view' \in [Account -> [Account -> EntryType]]
      /\ \A c, b \in Account : Known(asked, c, b, view'[c][b])
  <2>1. CASE view' = view
    BY <2>1 DEF Inv, Types, Files
  <2>2. CASE view' = [view EXCEPT ![a][j.peer] = j.entry]
    <3>1. view \in [Account -> [Account -> EntryType]]
      BY DEF Inv, Types
    <3>2. \A c, b \in Account :
             view'[c][b] = IF c = a /\ b = j.peer THEN j.entry ELSE view[c][b]
      BY <2>2, <3>1
    <3>3. view' \in [Account -> [Account -> EntryType]]
      BY <1>3, <2>2, <3>1
    <3> QED
      BY <1>2, <3>2, <3>3 DEF Inv, Files
  <2> QED
    BY <1>1, <2>1, <2>2
<1>8. Files'
  BY <1>1, <1>7 DEF Inv, Files
<1> QED
  BY <1>1, <1>5, <1>6, <1>7, <1>8 DEF Inv, Types

LEMMA StepFailsKeeps ==
  ASSUME Inv, NEW a \in Account, NEW w \in Worker, StepFails(a, w) PROVE Inv'
<1>1. /\ work[a][w] \notin {Idle, Done} /\ Fails(a, w) /\ UNCHANGED <<req, contact, view>>
      /\ \/ At(a, w, "publish") /\ Sends(a, w)
         \/ UNCHANGED <<net, asked, accepted>>
  BY DEF StepFails
<1>2. Grows /\ net' \subseteq Message /\ Messages'
  <2>1. CASE At(a, w, "publish") /\ Sends(a, w)
    BY <2>1, SendsKeeps
  <2>2. CASE UNCHANGED <<net, asked, accepted>>
    BY <2>2 DEF Grows, Inv, Types, Messages
  <2> QED
    BY <1>1, <2>1, <2>2
<1>3. work' \in [Account -> [Worker -> Job \cup {Idle, Done}]] /\ Jobs'
  BY <1>1, <1>2, FailKeeps
<1>4. Files'
  BY <1>1, <1>2, FilesKeep
<1> QED
  BY <1>1, <1>2, <1>3, <1>4 DEF Inv, Types

LEMMA CrashKeeps ==
  ASSUME Inv, NEW a \in Account, Crash(a) PROVE Inv'
<1>1. /\ work' = [work EXCEPT ![a] = [w \in Worker |-> IF w = "cli" THEN work[a][w] ELSE Idle]]
      /\ view' = [view EXCEPT ![a] = req[a]]
      /\ UNCHANGED <<req, contact, net, asked, accepted>>
  BY DEF Crash, Inv, Types
<1>2. /\ work \in [Account -> [Worker -> Job \cup {Idle, Done}]]
      /\ view \in [Account -> [Account -> EntryType]] /\ req[a] \in [Account -> EntryType]
  BY DEF Inv, Types
<1>3. work' \in [Account -> [Worker -> Job \cup {Idle, Done}]]
  BY <1>1, <1>2
<1>4. \A b \in Account, u \in Worker : work'[b][u] = work[b][u] \/ work'[b][u] = Idle
  BY <1>1, <1>2
<1>5. Jobs'
  BY <1>1, <1>4 DEF Inv, Jobs
<1>6. view' \in [Account -> [Account -> EntryType]]
  BY <1>1, <1>2
<1>7. \A c, b \in Account : view'[c][b] = view[c][b] \/ view'[c][b] = req[c][b]
  BY <1>1, <1>2
<1>8. Files'
  BY <1>1, <1>7 DEF Inv, Files
<1>9. Messages'
  BY <1>1 DEF Inv, Messages
<1> QED
  BY <1>1, <1>3, <1>5, <1>6, <1>8, <1>9 DEF Inv, Types

LEMMA StepKeeps == Inv /\ [Next]_vars => Inv'
<1> SUFFICES ASSUME Inv, [Next]_vars PROVE Inv'
  OBVIOUS
<1>1. CASE UNCHANGED vars
  BY <1>1 DEF vars, Inv, Types, Jobs, Files, Messages
<1>2. CASE Next
  <2> SUFFICES ASSUME NEW a \in Account,
                      \/ \E w \in Worker : Step(a, w) \/ StepFails(a, w)
                      \/ \E b \in Account, w \in Worker :
                            Ask(a, b, w) \/ Decide(a, b, w) \/ Verify(a, b, w)
                      \/ \E b \in Account : CliResolve(a, b)
                      \/ \E m \in net : Receive(a, m)
                      \/ Crash(a)
               PROVE  Inv'
    BY <1>2 DEF Next
  <2>1. CASE \E w \in Worker : Step(a, w)
    BY <2>1, PublishKeeps, LoadRequestKeeps, ReadRequestsKeeps, WriteRequestsKeeps,
       ReadContactsKeeps, WriteContactsKeeps, FinishKeeps DEF Step
  <2> QED
    BY <2>1, StepFailsKeeps, AskKeeps, DecideKeeps, VerifyKeeps, CliResolveKeeps,
       ReceiveKeeps, CrashKeeps
<1> QED
  BY <1>1, <1>2

-----------------------------------------------------------------------------
\* Every job writes back what it read and imports with the consent of both
\* sides; every message answers what was asked.
THEOREM InvCorrect == Spec => []Inv
  BY InitHolds, StepKeeps, PTL DEF Spec

\* The two files and the jobs have their types.
THEOREM TypeCorrect == Spec => []TypeOK
<1>1. Inv => TypeOK
  BY DEF Inv, Types, TypeOK, EntryType, Dir, Status, Trust, Job, JobRecord
<1> QED
  BY <1>1, InvCorrect, PTL

\* Only WriteContacts changes a contact.
LEMMA OnlyWriteContacts ==
  ASSUME Inv, Next
  PROVE  UNCHANGED <<contact, lost>> \/ \E a \in Account, w \in Worker : WriteContacts(a, w)
<1>1. \A a \in Account, w \in Worker :
         /\ Publish(a, w) => UNCHANGED <<contact, lost>>
         /\ LoadRequest(a, w) => UNCHANGED <<contact, lost>>
         /\ ReadRequests(a, w) => UNCHANGED <<contact, lost>>
         /\ WriteRequests(a, w) => UNCHANGED <<contact, lost>>
         /\ ReadContacts(a, w) => UNCHANGED <<contact, lost>>
         /\ Finish(a, w) => UNCHANGED <<contact, lost>>
         /\ StepFails(a, w) => UNCHANGED <<contact, lost>>
  <2> TAKE a \in Account, w \in Worker
  <2>1. Publish(a, w) => UNCHANGED <<contact, lost>>
    BY DEF Publish
  <2>2. LoadRequest(a, w) => UNCHANGED <<contact, lost>>
    BY DEF LoadRequest
  <2>3. ReadRequests(a, w) => UNCHANGED <<contact, lost>>
    BY DEF ReadRequests
  <2>4. WriteRequests(a, w) => UNCHANGED <<contact, lost>>
    BY DEF WriteRequests
  <2>5. ReadContacts(a, w) => UNCHANGED <<contact, lost>>
    BY DEF ReadContacts
  <2>6. Finish(a, w) => UNCHANGED <<contact, lost>>
    BY DEF Finish
  <2>7. StepFails(a, w) => UNCHANGED <<contact, lost>>
    BY DEF StepFails
  <2> QED
    BY <2>1, <2>2, <2>3, <2>4, <2>5, <2>6, <2>7
<1>2. \A a, b \in Account, w \in Worker :
         Ask(a, b, w) \/ Decide(a, b, w) \/ Verify(a, b, w) => UNCHANGED <<contact, lost>>
  BY DEF Ask, Decide, Verify
<1>3. /\ \A a, b \in Account : CliResolve(a, b) => UNCHANGED <<contact, lost>>
      /\ \A a \in Account, m \in net : Receive(a, m) => UNCHANGED <<contact, lost>>
      /\ \A a \in Account : Crash(a) => UNCHANGED <<contact, lost>>
  BY DEF CliResolve, Receive, Crash
<1>4. \A a \in Account, w \in Worker : Step(a, w) => WriteContacts(a, w) \/ UNCHANGED <<contact, lost>>
  BY <1>1 DEF Step
<1>5. \A a \in Account, w \in Worker : StepFails(a, w) => UNCHANGED <<contact, lost>>
  BY <1>1
<1> QED
  BY <1>2, <1>3, <1>4, <1>5 DEF Next

\* Only WriteContacts changes a contact: it writes a trust no lower than the
\* one it read, and strikes the contacts that changed since.
ContactsRise ==
  \A a, b \in Account :
     TrustRank(contact'[a][b]) >= TrustRank(contact[a][b]) \/ {a, b} \in struck'

LEMMA ContactsRiseStep ==
  ASSUME Inv, Next PROVE ContactsRise
<1>1. \A a, b \in Account : contact[a][b] \in Trust
  BY DEF Inv, Types
<1>2. \A t \in Trust : TrustRank(t) >= TrustRank(t)
  BY StrongerIsStronger
<1>3. contact' = contact \/ \E a \in Account, w \in Worker : WriteContacts(a, w)
  BY OnlyWriteContacts
<1>4. CASE contact' = contact
  BY <1>1, <1>2, <1>4 DEF ContactsRise
<1>5. ASSUME NEW a \in Account, NEW w \in Worker, WriteContacts(a, w) PROVE ContactsRise
  <2> DEFINE j == work[a][w]
             map == [j.map EXCEPT ![j.bundle] = j.trust]
  <2>1. /\ map \in [Account -> Trust] /\ j.map \in [Account -> Trust]
        /\ \A b \in Account : TrustRank(map[b]) >= TrustRank(j.map[b])
    BY <1>5, WrittenContacts DEF WriteContacts
  <2>2. /\ contact' = [contact EXCEPT ![a] = map]
        /\ struck' = struck \cup {{a, b} : b \in {c \in Account : contact[a][c] # j.map[c]}}
    BY <1>5 DEF WriteContacts, Strike
  <2> HIDE DEF map, j
  <2>3. ASSUME NEW b \in Account
        PROVE  TrustRank(contact'[a][b]) >= TrustRank(contact[a][b]) \/ {a, b} \in struck'
    <3>1. contact'[a][b] = map[b]
      BY <2>2 DEF Inv, Types
    <3> QED
      BY <2>1, <2>2, <3>1
  <2>4. ASSUME NEW c \in Account, NEW b \in Account, c # a
        PROVE  contact'[c][b] = contact[c][b]
    BY <2>2, <2>4 DEF Inv, Types
  <2> QED
    BY <1>1, <1>2, <2>3, <2>4 DEF ContactsRise
<1> QED
  BY <1>3, <1>4, <1>5

\* Trust in a contact sinks only where one writer of contacts.json overwrites
\* what another wrote after it had read the file (mergeStoredContactTrust).
THEOREM TrustOnlyRisesCorrect == Spec => TrustOnlyRises
<1>1. Inv /\ [Next]_vars => [ContactsRise]_vars
  BY ContactsRiseStep
<1> QED
  BY <1>1, InvCorrect, PTL DEF Spec, TrustOnlyRises, ContactsRise

-----------------------------------------------------------------------------
(***************************************************************************)
(* Both or neither: an acceptance binds both sides.  Each of them has the  *)
(* other as a contact, or a job of it is yet to write it, or the acceptance *)
(* is still on its way, unless something struck the pair.                  *)
(***************************************************************************)
Imports(j, b) ==
  j \notin {Idle, Done} /\ j.peer = b /\ \E i \in 1..Len(j.todo) : j.todo[i] = "writeContacts"

Bound(a, b) ==
  \/ contact[a][b] # "none"
  \/ \E m \in net : m.from = b /\ m.to = a /\ m.kind = "accepted"
  \/ \E w \in Worker : Imports(work[a][w], b)

Bonds == \A a, b \in Account : <<a, b>> \in accepted => {a, b} \in struck \/ (Bound(a, b) /\ Bound(b, a))

\* A job that is about to publish an acceptance imports the contact later.
Accepts(j) == j.kind \in {"accept", "cliAccept"} /\ j.todo # <<>> /\ Head(j.todo) = "publish"
AcceptancesImport ==
  \A a \in Account, w \in Worker :
     work[a][w] \notin {Idle, Done} /\ Accepts(work[a][w]) => Imports(work[a][w], work[a][w].peer)

MutualInv == Inv /\ Bonds /\ AcceptancesImport

\* The scripts of an acceptance, given or received, write the contact.
LEMMA AcceptanceScripts ==
  \A kind \in {"accept", "cliAccept", "accepted"} :
     \E i \in 1..Len(Script(kind)) : Script(kind)[i] = "writeContacts"
<1>1. /\ "publish" \in Steps /\ "loadRequest" \in Steps /\ "readRequests" \in Steps
      /\ "writeRequests" \in Steps /\ "readContacts" \in Steps /\ "writeContacts" \in Steps
  BY DEF Steps
<1>2. ASSUME NEW x \in Steps
      PROVE  /\ LET t == <<x>> \o <<"readRequests", "writeRequests">>
                         \o <<"readContacts", "writeContacts">>
                IN Len(t) = 5 /\ t[5] = "writeContacts"
             /\ LET t == <<x>> \o <<"readContacts", "writeContacts">>
                         \o <<"readRequests", "writeRequests">>
                IN Len(t) = 5 /\ t[3] = "writeContacts"
  <2> DEFINE s == <<x>> \o <<"readRequests", "writeRequests">>
             u == <<x>> \o <<"readContacts", "writeContacts">>
  <2>1. s \in Seq(Steps) /\ Len(s) = 3
    BY <1>1, ThreeSteps
  <2>2. u \in Seq(Steps) /\ Len(u) = 3 /\ u[3] = "writeContacts"
    BY <1>1, ThreeSteps
  <2> HIDE DEF s, u
  <2>3. LET t == s \o <<"readContacts", "writeContacts">> IN Len(t) = 5 /\ t[5] = "writeContacts"
    BY <1>1, <2>1, FiveSteps
  <2>4. LET t == u \o <<"readRequests", "writeRequests">> IN Len(t) = 5 /\ t[3] = u[3]
    BY <1>1, <2>2, FiveSteps
  <2> QED
    BY <2>2, <2>3, <2>4 DEF s, u
<1>3. /\ Script("accept") = <<"publish">> \o <<"readRequests", "writeRequests">>
                              \o <<"readContacts", "writeContacts">>
      /\ Script("cliAccept") = <<"publish">> \o <<"readContacts", "writeContacts">>
                              \o <<"readRequests", "writeRequests">>
      /\ Script("accepted") = <<"loadRequest">> \o <<"readContacts", "writeContacts">>
                              \o <<"readRequests", "writeRequests">>
  BY DEF Script, Response, Import, Save
<1>4. \A t : Len(t) = 5 => 3 \in 1..Len(t) /\ 5 \in 1..Len(t)
  OBVIOUS
<1>5. ASSUME NEW kind \in {"accept", "cliAccept", "accepted"}
      PROVE  Len(Script(kind)) = 5
                /\ (Script(kind)[3] = "writeContacts" \/ Script(kind)[5] = "writeContacts")
  <2>1. CASE kind = "accept"
    BY <1>1, <1>2, <1>3, <2>1
  <2>2. CASE kind = "cliAccept"
    BY <1>1, <1>2, <1>3, <2>2
  <2>3. CASE kind = "accepted"
    BY <1>1, <1>2, <1>3, <2>3
  <2> QED
    BY <1>5, <2>1, <2>2, <2>3
<1> QED
  BY <1>4, <1>5

LEMMA StartedImports ==
  ASSUME NEW a, NEW w, NEW kind \in {"accept", "cliAccept", "accepted"}, NEW b, NEW e,
         Inv, a \in Account, w \in Worker, Start(a, w, kind, b, b, e)
  PROVE  Imports(work'[a][w], b)
<1> DEFINE s == Script(kind)
           j == [kind |-> kind, peer |-> b, bundle |-> b, todo |-> s, entry |-> e,
                 failed |-> FALSE, trust |-> "none", map |-> <<>>]
<1>1. \E i \in 1..Len(s) : s[i] = "writeContacts"
  BY AcceptanceScripts
<1> HIDE DEF s
<1>2. j.peer = b /\ j.todo = s /\ j.kind = kind
  OBVIOUS
<1>3. j \notin {Idle, Done}
  <2>1. j.kind # "idle" /\ j.kind # "done"
    BY <1>2
  <2> QED
    BY <2>1, IdleIsNoJob
<1>4. work'[a][w] = j
  BY DEF Start, Inv, Types, s
<1> HIDE DEF j
<1> QED
  BY <1>1, <1>2, <1>3, <1>4 DEF Imports

\* The rest of the steps of a job that is not at its import still imports.
LEMMA RestImports ==
  ASSUME NEW j \in Job, NEW k \in Job, j.todo # <<>>, k.todo = Tail(j.todo), k.peer = j.peer,
         NEW b, Imports(j, b), Head(j.todo) # "writeContacts"
  PROVE  Imports(k, b)
<1> DEFINE s == j.todo
<1>1. PICK i \in 1..Len(s) : s[i] = "writeContacts"
  BY DEF Imports
<1>2. s \in Seq(Steps) /\ s # <<>>
  BY DEF Job, JobRecord
<1> HIDE DEF s
<1>3. i # 1 /\ Len(s) \in Nat /\ Len(Tail(s)) = Len(s) - 1
  <2>1. s[1] = Head(s)
    BY <1>2
  <2>2. Head(s) # "writeContacts"
    BY DEF s
  <2> QED
    BY <1>1, <1>2, <2>1, <2>2
<1>4. i - 1 \in 1..Len(Tail(s)) /\ Tail(s)[i - 1] = s[i]
  <2>1. i - 1 \in 1..Len(Tail(s))
    BY <1>1, <1>3
  <2>2. Tail(s)[i - 1] = s[(i - 1) + 1] /\ (i - 1) + 1 = i
    BY <1>1, <1>2, <2>1, RestOfSteps
  <2> QED
    BY <2>1, <2>2
<1>5. k \notin {Idle, Done}
  BY IdleIsNoJob
<1> QED
  BY <1>1, <1>4, <1>5 DEF Imports, s

\* What a step makes of its job: the job ends, or fails and strikes the pair, or
\* goes on; a contact that it wrote is there.
Ends(a, w) == work[a][w].todo = <<>> /\ work'[a][w] \in {Idle, Done}
FailsStruck(a, w) == work'[a][w].todo = <<>> /\ {a, work[a][w].peer} \in struck'
GoesOn(a, w) ==
  /\ work'[a][w] \in Job /\ work[a][w].todo # <<>>
  /\ work'[a][w].todo = Tail(work[a][w].todo) /\ work'[a][w].peer = work[a][w].peer
  /\ Head(work[a][w].todo) = "writeContacts" => contact'[a][work[a][w].peer] # "none"

LEMMA FailsTodo ==
  ASSUME Inv, NEW a \in Account, NEW w \in Worker, work[a][w] \in Job, Fails(a, w)
  PROVE  work'[a][w].todo = <<>> /\ \E k : work' = [work EXCEPT ![a][w] = k]
<1> DEFINE k == [work[a][w] EXCEPT !.todo = <<>>, !.failed = TRUE, !.map = <<>>]
<1>1. work' = [work EXCEPT ![a][w] = k]
  BY DEF Fails, Inv, Types
<1>2. k.todo = <<>>
  BY DEF Job, JobRecord
<1> HIDE DEF k
<1> QED
  BY <1>1, <1>2 DEF Inv, Types

LEMMA PassesOn ==
  ASSUME Inv, NEW a \in Account, NEW w \in Worker, NEW step \in Steps, At(a, w, step),
         NEW i \in Job, i.todo = work[a][w].todo, i.peer = work[a][w].peer, Passed(a, w, i),
         step = "writeContacts" => contact'[a][work[a][w].peer] # "none"
  PROVE  /\ work[a][w] \notin {Idle, Done} /\ GoesOn(a, w)
         /\ \E k : work' = [work EXCEPT ![a][w] = k]
<1>1. /\ work[a][w] \notin {Idle, Done} /\ work[a][w] \in Job
      /\ work[a][w].todo # <<>> /\ Head(work[a][w].todo) = step
  BY AtIsWorking
<1>2. /\ Left(i) \in Job /\ work' = [work EXCEPT ![a][w] = Left(i)]
      /\ Left(i).todo = Tail(work[a][w].todo) /\ Left(i).peer = i.peer
  BY <1>1, PassedJob
<1>3. work'[a][w] = Left(i)
  BY <1>2 DEF Inv, Types
<1> QED
  BY <1>1, <1>2, <1>3 DEF GoesOn

LEMMA StepShape ==
  ASSUME Inv, NEW a \in Account, NEW w \in Worker, Step(a, w) \/ StepFails(a, w)
  PROVE  /\ work[a][w] \notin {Idle, Done} /\ \E k : work' = [work EXCEPT ![a][w] = k]
         /\ Ends(a, w) \/ FailsStruck(a, w) \/ GoesOn(a, w)
<1> DEFINE j == work[a][w]
<1>1. j \notin {Idle, Done} => j \in Job /\ j.peer \in Account
  BY Working DEF Job, JobRecord
<1>2. CASE StepFails(a, w)
  <2>1. j \notin {Idle, Done} /\ Fails(a, w) /\ {a, j.peer} \in struck'
    BY <1>2 DEF StepFails, Strike
  <2> QED
    BY <1>1, <2>1, FailsTodo DEF FailsStruck
<1>3. CASE Publish(a, w)
  <2>1. At(a, w, "publish") /\ Passed(a, w, j) /\ j \in Job
    BY <1>1, <1>3 DEF Publish, At
  <2> QED
    BY <2>1, PassesOn DEF Steps
<1>4. CASE LoadRequest(a, w)
  <2> DEFINE e == [req[a][j.peer] EXCEPT !.status = j.kind]
             i == [j EXCEPT !.entry = e]
  <2>1. At(a, w, "loadRequest") /\ j \notin {Idle, Done} /\ "loadRequest" \in Steps
    BY <1>4 DEF LoadRequest, At, Steps
  <2>2. CASE req[a][j.peer] = None
    <3>1. Fails(a, w) /\ {a, j.peer} \in struck'
      BY <1>4, <2>2 DEF LoadRequest, Strike
    <3> QED
      BY <1>1, <2>1, <3>1, FailsTodo DEF FailsStruck
  <2>3. CASE req[a][j.peer] # None
    <3>1. Passed(a, w, i)
      BY <1>4, <2>3 DEF LoadRequest
    <3>2. j.kind \in {"accepted", "rejected"}
      BY <2>1, AtIsWorking DEF Sound
    <3>3. req[a][j.peer] \in [dir : Dir, status : Status]
      BY <1>1, <2>1, <2>3 DEF Inv, Types, EntryType
    <3>4. e \in EntryType
      BY <3>2, <3>3 DEF EntryType, Status
    <3> HIDE DEF e
    <3>5. i \in Job /\ i.todo = j.todo /\ i.peer = j.peer
      BY <1>1, <2>1, <3>4 DEF Job, JobRecord
    <3> HIDE DEF i
    <3> QED
      BY <2>1, <3>1, <3>5, PassesOn
  <2> QED
    BY <2>2, <2>3
<1>5. CASE ReadRequests(a, w)
  <2> DEFINE i == [j EXCEPT !.map = req[a]]
  <2>1. At(a, w, "readRequests") /\ Passed(a, w, i) /\ j \in Job
    BY <1>1, <1>5 DEF ReadRequests, At
  <2>2. i \in Job /\ i.todo = j.todo /\ i.peer = j.peer
    BY <2>1 DEF Job, JobRecord, Inv, Types
  <2> HIDE DEF i
  <2> QED
    BY <2>1, <2>2, PassesOn DEF Steps
<1>6. CASE WriteRequests(a, w)
  <2> DEFINE i == [j EXCEPT !.map = <<>>]
  <2>1. At(a, w, "writeRequests") /\ Passed(a, w, i) /\ j \in Job
    BY <1>1, <1>6 DEF WriteRequests, At
  <2>2. i \in Job /\ i.todo = j.todo /\ i.peer = j.peer
    BY <2>1 DEF Job, JobRecord
  <2> HIDE DEF i
  <2> QED
    BY <2>1, <2>2, PassesOn DEF Steps
<1>7. CASE ReadContacts(a, w)
  <2> DEFINE trust == IF j.kind = "verify" THEN StrongerTrust(contact[a][j.bundle], "manual-verified")
                      ELSE mergeStoredContactTrust(contact[a][j.bundle], "relay-directory")
             i == [j EXCEPT !.map = contact[a], !.trust = trust]
  <2>1. /\ At(a, w, "readContacts") /\ Passed(a, w, i) /\ j \in Job
        /\ j.peer \in Account /\ j.bundle = j.peer
    BY <1>1, <1>7 DEF ReadContacts, At, Job
  <2>2. contact[a] \in [Account -> Trust] /\ contact[a][j.bundle] \in Trust
    BY <2>1 DEF Inv, Types
  <2>3. trust \in Trust
    BY <2>2, StrongerIsStronger DEF Trust
  <2> HIDE DEF trust
  <2>4. i \in Job /\ i.todo = j.todo /\ i.peer = j.peer
    BY <2>1, <2>2, <2>3 DEF Job, JobRecord
  <2> HIDE DEF i
  <2> QED
    BY <2>1, <2>4, PassesOn DEF Steps
<1>8. CASE WriteContacts(a, w)
  <2> DEFINE i == [j EXCEPT !.map = <<>>, !.trust = "none"]
             map == [j.map EXCEPT ![j.bundle] = j.trust]
  <2>1. /\ At(a, w, "writeContacts") /\ Passed(a, w, i) /\ j \in Job
        /\ j.peer \in Account /\ j.bundle = j.peer /\ contact' = [contact EXCEPT ![a] = map]
    BY <1>1, <1>8 DEF WriteContacts, At, Job
  <2>2. i \in Job /\ i.todo = j.todo /\ i.peer = j.peer
    BY <2>1 DEF Job, JobRecord, Trust
  <2>3. ContactsRead(asked, accepted, a, j)
    <3>1. /\ j.todo[1] = "writeContacts" /\ 1 \in 1..Len(j.todo)
          /\ Sound(asked, accepted, a, j)
      BY <2>1, AtIsWorking DEF Steps
    <3> QED
      BY <3>1 DEF Sound
  <2>4. contact'[a][j.peer] # "none"
    BY <2>1, <2>3 DEF ContactsRead, Inv, Types
  <2> HIDE DEF i
  <2> QED
    BY <2>1, <2>2, <2>4, PassesOn DEF Steps
<1>9. CASE Finish(a, w)
  BY <1>9 DEF Finish, Ends, Inv, Types
<1> QED
  BY <1>2, <1>3, <1>4, <1>5, <1>6, <1>7, <1>8, <1>9 DEF Step

\* Any other step leaves the jobs alone, starts one where there is none, or is a
\* crash.
LEMMA StepKinds ==
  ASSUME Inv, Next
  PROVE  \/ \E a \in Account, w \in Worker : Step(a, w) \/ StepFails(a, w)
         \/ /\ UNCHANGED <<contact, accepted, struck>>
            /\ \/ /\ net' = net
                  /\ \E a, b \in Account, w \in Worker,
                        kind \in {"ask", "accept", "reject", "cliAccept", "verify"} :
                        \E e : Start(a, w, kind, b, b, e)
               \/ \E a \in Account, m \in net :
                     /\ m.to = a /\ m.from \in Account /\ net' = net \ {m}
                     /\ m.kind \in {"request", "accepted", "rejected"}
                     /\ \E e : Start(a, "update", m.kind, m.from, m.from, e)
         \/ \E a \in Account : Crash(a)
<1> SUFFICES ASSUME NEW a \in Account,
                    \/ \E w \in Worker, b \in Account : Ask(a, b, w) \/ Decide(a, b, w) \/ Verify(a, b, w)
                    \/ \E b \in Account : CliResolve(a, b)
                    \/ \E m \in net : Receive(a, m)
             PROVE  /\ UNCHANGED <<contact, accepted, struck>>
                    /\ \/ /\ net' = net
                          /\ \E w \in Worker, b \in Account,
                                kind \in {"ask", "accept", "reject", "cliAccept", "verify"} :
                                \E e : Start(a, w, kind, b, b, e)
                       \/ \E m \in net :
                             /\ m.to = a /\ m.from \in Account /\ net' = net \ {m}
                             /\ m.kind \in {"request", "accepted", "rejected"}
                             /\ \E e : Start(a, "update", m.kind, m.from, m.from, e)
  BY DEF Next
<1>1. ASSUME NEW w \in Worker, NEW b \in Account, Ask(a, b, w)
      PROVE  /\ UNCHANGED <<contact, accepted, struck, net>>
             /\ \E e : Start(a, w, "ask", b, b, e)
  BY <1>1 DEF Ask
<1>2. ASSUME NEW w \in Worker, NEW b \in Account, Decide(a, b, w)
      PROVE  /\ UNCHANGED <<contact, accepted, struck, net>>
             /\ \E kind \in {"accept", "reject"} : \E e : Start(a, w, kind, b, b, e)
  <2>1. PICK kind \in {"accept", "reject"} :
           Start(a, w, kind, b, b, Entry("incoming", IF kind = "accept" THEN "accepted" ELSE "rejected"))
    BY <1>2 DEF Decide
  <2> QED
    BY <1>2, <2>1 DEF Decide
<1>3. ASSUME NEW w \in Worker, NEW b \in Account, Verify(a, b, w)
      PROVE  /\ UNCHANGED <<contact, accepted, struck, net>>
             /\ \E e : Start(a, w, "verify", b, b, e)
  BY <1>3 DEF Verify
<1>4. ASSUME NEW b \in Account, CliResolve(a, b)
      PROVE  /\ UNCHANGED <<contact, accepted, struck, net>>
             /\ "cli" \in Worker
             /\ \E kind \in {"cliAccept", "reject"} : \E e : Start(a, "cli", kind, b, b, e)
  <2>1. PICK kind \in {"cliAccept", "reject"} :
           \E e : Start(a, "cli", kind, b, b, e)
    <3>1. \/ Start(a, "cli", "cliAccept", b, b, Entry("incoming", "accepted"))
          \/ Start(a, "cli", "reject", b, b, Entry("incoming", "rejected"))
      BY <1>4 DEF CliResolve
    <3> QED
      BY <3>1
  <2>2. UNCHANGED <<contact, accepted, struck, net>> /\ "cli" \in Worker
    BY <1>4 DEF CliResolve, Worker
  <2> QED
    BY <2>1, <2>2
<1>5. ASSUME NEW m \in net, Receive(a, m)
      PROVE  /\ UNCHANGED <<contact, accepted, struck>>
             /\ m.to = a /\ m.from \in Account /\ net' = net \ {m}
             /\ m.kind \in {"request", "accepted", "rejected"}
             /\ \E e : Start(a, "update", m.kind, m.from, m.from, e)
  BY <1>5 DEF Receive, Inv, Types, Message, MessageRecord
<1> DEFINE Offered == {"ask", "accept", "reject", "cliAccept", "verify"}
           Started == \E w \in Worker, b \in Account, kind \in Offered : \E e : Start(a, w, kind, b, b, e)
<1>6. ASSUME NEW w \in Worker, NEW b \in Account, Ask(a, b, w) \/ Decide(a, b, w) \/ Verify(a, b, w)
      PROVE  UNCHANGED <<contact, accepted, struck, net>> /\ Started
  <2>1. {"accept", "reject"} \subseteq Offered /\ "ask" \in Offered /\ "verify" \in Offered
    OBVIOUS
  <2> HIDE DEF Offered
  <2> QED
    BY <1>1, <1>2, <1>3, <1>6, <2>1
<1>7. ASSUME NEW b \in Account, CliResolve(a, b)
      PROVE  UNCHANGED <<contact, accepted, struck, net>> /\ Started
  <2>1. {"cliAccept", "reject"} \subseteq Offered
    OBVIOUS
  <2> HIDE DEF Offered
  <2> QED
    BY <1>4, <1>7, <2>1
<1> QED
  BY <1>5, <1>6, <1>7

\* A job that is to import the contact does, or strikes the pair.
LEMMA ImportStep ==
  ASSUME Inv, Next, NEW a \in Account, NEW w \in Worker, NEW b \in Account, Imports(work[a][w], b)
  PROVE  \/ Imports(work'[a][w], b) \/ contact'[a][b] # "none" \/ {a, b} \in struck'
<1>1. work[a][w] \notin {Idle, Done} /\ work[a][w].peer = b /\ work[a][w] \in Job
  BY Working DEF Imports
<1>2. CASE work'[a][w] = work[a][w]
  BY <1>2
<1>3. ASSUME NEW c \in Account, NEW u \in Worker, Step(c, u) \/ StepFails(c, u)
      PROVE  \/ Imports(work'[a][w], b) \/ contact'[a][b] # "none" \/ {a, b} \in struck'
  <2>1. CASE c # a \/ u # w
    <3>1. PICK k : work' = [work EXCEPT ![c][u] = k]
      BY <1>3, StepShape
    <3>2. work'[a][w] = work[a][w]
      BY <2>1, <3>1 DEF Inv, Types
    <3> QED
      BY <1>2, <3>2
  <2>2. CASE c = a /\ u = w
    <3>1. Ends(a, w) \/ FailsStruck(a, w) \/ GoesOn(a, w)
      BY <1>3, <2>2, StepShape
    <3>2. work[a][w].todo # <<>>
      <4>1. Len(<<>>) = 0
        OBVIOUS
      <4> QED
        BY <4>1 DEF Imports
    <3>3. CASE GoesOn(a, w) /\ Head(work[a][w].todo) # "writeContacts"
      BY <1>1, <3>3, RestImports DEF GoesOn
    <3>4. CASE GoesOn(a, w) /\ Head(work[a][w].todo) = "writeContacts"
      BY <1>1, <3>4 DEF GoesOn
    <3> QED
      BY <1>1, <3>1, <3>2, <3>3, <3>4 DEF Ends, FailsStruck
  <2> QED
    BY <2>1, <2>2
<1>4. ASSUME NEW c \in Account, NEW u \in Worker, NEW kind, NEW d, NEW e, Start(c, u, kind, d, d, e)
      PROVE  work'[a][w] = work[a][w]
  BY <1>1, <1>4 DEF Start, Inv, Types
<1>5. ASSUME NEW c \in Account, Crash(c)
      PROVE  work'[a][w] = work[a][w] \/ {a, b} \in struck'
  <2>1. /\ work' = [work EXCEPT ![c] = [v \in Worker |-> IF v = "cli" THEN work[c][v] ELSE Idle]]
        /\ struck' = struck \cup
              {{c, d} : d \in {work[c][v].peer : v \in {v \in Worker \ {"cli"} : work[c][v] # Idle}}}
    BY <1>5 DEF Crash, Strike, Inv, Types
  <2>2. CASE c # a \/ w = "cli"
    BY <2>1, <2>2 DEF Inv, Types
  <2>3. CASE c = a /\ w # "cli"
    BY <1>1, <2>1, <2>3
  <2> QED
    BY <2>2, <2>3
<1> QED
  BY <1>2, <1>3, <1>4, <1>5, StepKinds DEF Worker

\* A side that is bound stays bound, or the pair is struck.
LEMMA BoundStep ==
  ASSUME Inv, Next, NEW a \in Account, NEW b \in Account, Bound(a, b)
  PROVE  Bound(a, b)' \/ {a, b} \in struck'
<1>1. CASE contact[a][b] # "none"
  <2>1. contact[a][b] \in Trust
    BY DEF Inv, Types
  <2>2. TrustRank(contact[a][b]) >= 1 /\ TrustRank("none") = 0
    BY <1>1, <2>1 DEF Trust, TrustRank
  <2>3. TrustRank(contact'[a][b]) >= TrustRank(contact[a][b]) \/ {a, b} \in struck'
    BY ContactsRiseStep DEF ContactsRise
  <2>4. TrustRank(contact[a][b]) \in Nat
    BY <2>1, StrongerIsStronger
  <2>5. contact'[a][b] # "none" \/ {a, b} \in struck'
    BY <2>2, <2>3, <2>4
  <2> QED
    BY <2>5 DEF Bound
<1>2. ASSUME NEW w \in Worker, Imports(work[a][w], b)
      PROVE  Bound(a, b)' \/ {a, b} \in struck'
  BY <1>2, ImportStep DEF Bound
<1>3. ASSUME NEW m \in net, m.from = b, m.to = a, m.kind = "accepted"
      PROVE  Bound(a, b)' \/ {a, b} \in struck'
  <2>1. CASE m \in net'
    BY <1>3, <2>1 DEF Bound
  <2>2. ASSUME NEW e, Start(a, "update", "accepted", b, b, e)
        PROVE  Bound(a, b)'
    BY <2>2, StartedImports DEF Bound, Worker
  <2>3. ASSUME NEW c \in Account, NEW w \in Worker, Step(c, w) \/ StepFails(c, w)
        PROVE  net \subseteq net'
    BY <2>3 DEF Step, StepFails, Publish, LoadRequest, ReadRequests, WriteRequests, ReadContacts,
                WriteContacts, Finish, Sends
  <2>4. \A c \in Account : Crash(c) => net' = net
    BY DEF Crash
  <2> QED
    BY <1>3, <2>1, <2>2, <2>3, <2>4, StepKinds
<1> QED
  BY <1>1, <1>2, <1>3 DEF Bound

LEMMA StruckGrows ==
  ASSUME Inv, Next PROVE struck \subseteq struck'
<1>1. ASSUME NEW a \in Account, NEW w \in Worker, Step(a, w) \/ StepFails(a, w)
      PROVE  struck \subseteq struck'
  <2>1. LoadRequest(a, w) => struck \subseteq struck'
    BY DEF LoadRequest, Strike
  <2>2. WriteRequests(a, w) \/ WriteContacts(a, w) \/ StepFails(a, w) => struck \subseteq struck'
    BY DEF WriteRequests, WriteContacts, StepFails, Strike
  <2>3. Publish(a, w) \/ ReadRequests(a, w) \/ ReadContacts(a, w) \/ Finish(a, w) => struck' = struck
    BY DEF Publish, ReadRequests, ReadContacts, Finish
  <2> QED
    BY <1>1, <2>1, <2>2, <2>3 DEF Step
<1>2. \A a \in Account : Crash(a) => struck \subseteq struck'
  BY DEF Crash, Strike
<1> QED
  BY <1>1, <1>2, StepKinds

\* An acceptance is new only when a job publishes it.
LEMMA NewAcceptance ==
  ASSUME Inv, Next, NEW p \in accepted' \ accepted
  PROVE  \E c \in Account, w \in Worker :
            /\ At(c, w, "publish") /\ Sends(c, w)
            /\ work[c][w].kind \in {"accept", "cliAccept"} /\ p = <<work[c][w].peer, c>>
<1>1. PICK c \in Account, w \in Worker : Step(c, w) \/ StepFails(c, w)
  <2>1. \A c \in Account : Crash(c) => accepted' = accepted
    BY DEF Crash
  <2> QED
    BY <2>1, StepKinds
<1>2. CASE At(c, w, "publish") /\ Sends(c, w)
  BY <1>2 DEF Sends
<1>3. CASE ~(At(c, w, "publish") /\ Sends(c, w))
  BY <1>1, <1>3 DEF Step, StepFails, Publish, LoadRequest, ReadRequests, WriteRequests,
                    ReadContacts, WriteContacts, Finish
<1> QED
  BY <1>2, <1>3

LEMMA BondsStep ==
  ASSUME MutualInv, Next PROVE Bonds'
<1> SUFFICES ASSUME NEW a \in Account, NEW b \in Account, <<a, b>> \in accepted'
             PROVE  {a, b} \in struck' \/ (Bound(a, b)' /\ Bound(b, a)')
  BY DEF Bonds
<1>1. CASE <<a, b>> \in accepted
  <2>1. {a, b} \in struck \/ (Bound(a, b) /\ Bound(b, a))
    BY <1>1 DEF MutualInv, Bonds
  <2>2. {a, b} = {b, a}
    OBVIOUS
  <2> QED
    BY <2>1, <2>2, BoundStep, StruckGrows DEF MutualInv
<1>2. CASE <<a, b>> \notin accepted
  <2>1. PICK c \in Account, w \in Worker :
           /\ At(c, w, "publish") /\ Sends(c, w)
           /\ work[c][w].kind \in {"accept", "cliAccept"} /\ <<a, b>> = <<work[c][w].peer, c>>
    BY <1>2, NewAcceptance DEF MutualInv
  <2>2. a = work[c][w].peer /\ b = c
    BY <2>1
  <2>3. Bound(a, b)'
    <3>1. Envelope(c, work[c][w]).from = b /\ Envelope(c, work[c][w]).to = a
          /\ Envelope(c, work[c][w]).kind = "accepted"
      BY <2>1, <2>2 DEF Envelope
    <3>2. Envelope(c, work[c][w]) \in net'
      BY <2>1 DEF Sends
    <3> QED
      BY <3>1, <3>2 DEF Bound
  <2>4. Bound(b, a)' \/ {a, b} \in struck'
    <3>1. Imports(work[c][w], a)
      <4>1. work[c][w] \notin {Idle, Done} /\ Accepts(work[c][w])
        BY <2>1 DEF Accepts, At
      <4> QED
        BY <2>2, <4>1 DEF MutualInv, AcceptancesImport
    <3>2. {a, b} = {c, a}
      BY <2>2
    <3>3. Imports(work'[c][w], a) \/ contact'[c][a] # "none" \/ {c, a} \in struck'
      BY <3>1, ImportStep DEF MutualInv
    <3> QED
      BY <2>2, <3>2, <3>3 DEF Bound
  <2> QED
    BY <2>3, <2>4
<1> QED
  BY <1>1, <1>2

LEMMA AcceptancesImportStep ==
  ASSUME MutualInv, Next PROVE AcceptancesImport'
<1> SUFFICES ASSUME NEW a \in Account, NEW w \in Worker,
                    work'[a][w] \notin {Idle, Done}, Accepts(work'[a][w])
             PROVE  Imports(work'[a][w], work'[a][w].peer)
  BY DEF AcceptancesImport
<1>1. Inv
  BY DEF MutualInv
<1>2. CASE work'[a][w] = work[a][w]
  BY <1>2 DEF MutualInv, AcceptancesImport
<1>3. ASSUME NEW c \in Account, NEW u \in Worker, Step(c, u) \/ StepFails(c, u)
      PROVE  work'[a][w] = work[a][w]
  <2>1. PICK k : work' = [work EXCEPT ![c][u] = k]
    BY <1>1, <1>3, StepShape
  <2>2. CASE c = a /\ u = w
    <3>1. Ends(a, w) \/ FailsStruck(a, w) \/ GoesOn(a, w)
      BY <1>1, <1>3, <2>2, StepShape
    <3>2. GoesOn(a, w) /\ Head(work'[a][w].todo) = "publish" /\ work'[a][w].todo # <<>>
      BY <3>1 DEF Ends, FailsStruck, Accepts
    <3>3. /\ work[a][w] \in Job /\ work[a][w].todo \in Seq(Steps)
          /\ Sound(asked, accepted, a, work[a][w])
      <4>1. work[a][w] \notin {Idle, Done}
        BY <1>1, <1>3, <2>2, StepShape
      <4>2. work[a][w] \in Job
        BY <1>1, <4>1, Working
      <4> QED
        BY <1>1, <4>1, <4>2 DEF Inv, Jobs, Job, JobRecord
    <3> DEFINE s == work[a][w].todo
    <3>4. s \in Seq(Steps) /\ s # <<>> /\ Tail(s) # <<>> /\ Head(Tail(s)) = "publish"
      BY <3>2, <3>3 DEF GoesOn
    <3>5. 2 \in 1..Len(s) /\ s[2] = "publish"
      <4> HIDE DEF s
      <4>1. Tail(s) \in Seq(Steps) /\ 1 \in 1..Len(Tail(s)) /\ Tail(s)[1] = Head(Tail(s))
        BY <3>4, RestOfSteps
      <4>2. 1 + 1 \in 1..Len(s) /\ Tail(s)[1] = s[1 + 1]
        BY <3>4, <4>1, RestOfSteps
      <4> QED
        BY <3>4, <4>1, <4>2
    <3> QED
      BY <3>3, <3>5 DEF Sound
  <2>3. CASE c # a \/ u # w
    BY <1>1, <2>1, <2>3 DEF Inv, Types
  <2> QED
    BY <2>2, <2>3
<1>4. ASSUME NEW c \in Account, NEW u \in Worker, NEW kind, NEW d, NEW e, Start(c, u, kind, d, d, e)
      PROVE  work'[a][w] = work[a][w] \/ Imports(work'[a][w], work'[a][w].peer)
  <2>1. CASE c = a /\ u = w
    <3>1. work'[a][w].kind = kind /\ work'[a][w].peer = d
      BY <1>1, <1>4, <2>1 DEF Start, Inv, Types
    <3>2. kind \in {"accept", "cliAccept"}
      BY <3>1 DEF Accepts
    <3> QED
      BY <1>1, <1>4, <2>1, <3>1, <3>2, StartedImports
  <2>2. CASE c # a \/ u # w
    BY <1>1, <1>4, <2>2 DEF Start, Inv, Types
  <2> QED
    BY <2>1, <2>2
<1>5. ASSUME NEW c \in Account, Crash(c)
      PROVE  work'[a][w] = work[a][w]
  BY <1>1, <1>5 DEF Crash, Inv, Types
<1> QED
  BY <1>1, <1>2, <1>3, <1>4, <1>5, StepKinds DEF Worker

LEMMA MutualStep == MutualInv /\ [Next]_vars => MutualInv'
<1> SUFFICES ASSUME MutualInv, [Next]_vars PROVE MutualInv'
  OBVIOUS
<1>1. CASE Next
  BY <1>1, StepKeeps, BondsStep, AcceptancesImportStep DEF MutualInv
<1>2. CASE UNCHANGED vars
  <2>1. /\ contact' = contact /\ net' = net /\ work' = work
        /\ accepted' = accepted /\ struck' = struck
    BY <1>2 DEF vars
  <2>2. \A a, b \in Account : Bound(a, b)' = Bound(a, b)
    BY <2>1 DEF Bound
  <2> QED
    BY <2>1, <2>2, StepKeeps DEF MutualInv, Bonds, AcceptancesImport
<1> QED
  BY <1>1, <1>2

LEMMA MutualInit == Init => MutualInv
<1> SUFFICES ASSUME Init PROVE MutualInv
  OBVIOUS
<1>1. Bonds /\ AcceptancesImport
  BY DEF Init, Bonds, AcceptancesImport
<1> QED
  BY <1>1, InitHolds DEF MutualInv

\* Two accounts between which nothing is under way have each other as contacts,
\* or neither has, unless a failure or a lost update struck the pair: every
\* acceptance that contactRequestDecisionCmd, runResolveContactRequest or
\* handleContactResponse acts on is imported on both sides.
THEOREM ContactsAreMutualCorrect == Spec => []ContactsAreMutual
<1>1. ASSUME MutualInv, NEW a \in Account, NEW b \in Account, contact[a][b] # "none"
      PROVE  \/ contact[b][a] # "none"
             \/ {a, b} \in struck
             \/ \E m \in net : {m.from, m.to} = {a, b}
             \/ \E w \in Worker : With(work[b][w], a)
  <2>1. <<a, b>> \in accepted \/ <<b, a>> \in accepted
    BY <1>1 DEF MutualInv, Inv, Files, Consented
  <2>2. {a, b} \in struck \/ Bound(b, a)
    <3>1. {a, b} = {b, a}
      OBVIOUS
    <3> QED
      BY <1>1, <2>1, <3>1 DEF MutualInv, Bonds
  <2>3. \A m \in net : m.from = a /\ m.to = b => {m.from, m.to} = {a, b}
    OBVIOUS
  <2> QED
    BY <2>2, <2>3 DEF Bound, Imports, With
<1>2. MutualInv => ContactsAreMutual
  <2> SUFFICES ASSUME MutualInv, NEW a \in Account, NEW b \in Account
               PROVE  \/ contact[a][b] # "none" /\ contact[b][a] # "none"
                      \/ contact[a][b] = "none" /\ contact[b][a] = "none"
                      \/ {a, b} \in struck
                      \/ \E m \in net : {m.from, m.to} = {a, b}
                      \/ \E w \in Worker : With(work[a][w], b) \/ With(work[b][w], a)
    BY DEF ContactsAreMutual
  <2>1. {a, b} = {b, a}
    OBVIOUS
  <2> QED
    BY <1>1, <2>1
<1> QED
  BY <1>2, MutualInit, MutualStep, PTL DEF Spec

-----------------------------------------------------------------------------
(***************************************************************************)
(* An acceptance is stored last.  A job that handles one imports the peer, *)
(* or has done so, before it comes to storing the entry, and what it or    *)
(* anyone else writes back from the file was stored after an import.       *)
(***************************************************************************)
OwnAccepted == Entry("outgoing", "accepted")

\* b is a contact of a, or one that an overwriting writer took away.
Imported(K, L, a, b) == K[a][b] # "none" \/ <<a, b>> \in L

Held(K, L, a, j) ==
  /\ j.failed => j.todo = <<>>
  /\ j.entry = OwnAccepted => j.kind = "accepted"
  /\ j.kind = "accepted" =>
        /\ j.failed \/ Imports(j, j.peer) \/ Imported(K, L, a, j.peer)
        /\ \A i, k \in 1..Len(j.todo) :
              j.todo[i] = "writeRequests" /\ j.todo[k] = "writeContacts" => k < i
  /\ j.todo # <<>> /\ Head(j.todo) = "writeRequests" =>
        \A b \in Account : j.map[b] = OwnAccepted => Imported(K, L, a, b)

HeldJobs ==
  \A a \in Account, w \in Worker :
     work[a][w] \notin {Idle, Done} => Held(contact, lost, a, work[a][w])
StoredImported ==
  \A a, b \in Account :
     OwnAccepted \in {req[a][b], view[a][b]} => Imported(contact, lost, a, b)
AnswerInv == Inv /\ HeldJobs /\ StoredImported

LEMMA HeldStays ==
  ASSUME NEW K, NEW L, NEW M, NEW N, NEW a,
         \A b \in Account : Imported(K, L, a, b) => Imported(M, N, a, b),
         NEW j \in Job, Held(K, L, a, j)
  PROVE  Held(M, N, a, j)
<1>1. j.peer \in Account
  BY DEF Job, JobRecord
<1> QED
  BY <1>1 DEF Held

\* What was imported stays so, or is known to be lost.
LEMMA ImportedStays ==
  ASSUME Inv, Next, NEW a \in Account, NEW b \in Account, Imported(contact, lost, a, b)
  PROVE  Imported(contact', lost', a, b)
<1>1. CASE UNCHANGED <<contact, lost>>
  BY <1>1
<1>2. ASSUME NEW c \in Account, NEW w \in Worker, WriteContacts(c, w)
      PROVE  Imported(contact', lost', a, b)
  <2> DEFINE merged == [work[c][w].map EXCEPT ![work[c][w].bundle] = work[c][w].trust]
  <2>1. /\ contact' = [contact EXCEPT ![c] = merged]
        /\ lost' = lost \cup
              {<<c, d>> : d \in {e \in Account : contact[c][e] # "none" /\ merged[e] = "none"}}
    BY <1>2 DEF WriteContacts
  <2> HIDE DEF merged
  <2>2. contact \in [Account -> [Account -> Trust]]
    BY DEF Inv, Types
  <2>3. CASE a # c
    BY <2>1, <2>2, <2>3 DEF Imported
  <2>4. CASE a = c
    <3>1. contact'[a][b] = merged[b]
      BY <2>1, <2>2, <2>4
    <3> QED
      BY <2>1, <2>4, <3>1 DEF Imported
  <2> QED
    BY <2>3, <2>4
<1> QED
  BY <1>1, <1>2, OnlyWriteContacts

\* The rest of a job that holds an acceptance.
LEMMA HeldRest ==
  ASSUME NEW A, NEW C, NEW K, NEW L, NEW M, NEW N, NEW a \in Account,
         \A b \in Account : Imported(K, L, a, b) => Imported(M, N, a, b),
         NEW j \in Job, NEW k \in Job, Sound(A, C, a, j), Held(K, L, a, j), j.todo # <<>>,
         k.todo = Tail(j.todo), k.peer = j.peer, k.kind = j.kind, k.failed = j.failed,
         k.entry = OwnAccepted => j.kind = "accepted",
         Head(j.todo) = "writeContacts" => Imported(M, N, a, j.peer),
         Head(j.todo) = "readRequests" =>
            \A b \in Account : k.map[b] = OwnAccepted => Imported(M, N, a, b)
  PROVE  Held(M, N, a, k)
<1> DEFINE s == j.todo
<1>1. s \in Seq(Steps) /\ s # <<>> /\ j.peer \in Account /\ Len(s) \in Nat
  BY DEF Job, JobRecord
<1>2. /\ s[1] = Head(s)
      /\ \A i \in 1..Len(Tail(s)) : i + 1 \in 1..Len(s) /\ Tail(s)[i] = s[i + 1]
  BY <1>1, RestOfSteps
<1>3. ~j.failed
  BY DEF Held
<1>4. ASSUME j.kind = "accepted"
      PROVE  Imports(k, k.peer) \/ Imported(M, N, a, k.peer)
  <2>1. Imports(j, j.peer) \/ Imported(K, L, a, j.peer)
    BY <1>3, <1>4 DEF Held
  <2>2. CASE Imported(K, L, a, j.peer)
    BY <1>1, <2>2
  <2>3. CASE Imports(j, j.peer) /\ Head(j.todo) # "writeContacts"
    BY <2>3, RestImports
  <2> QED
    BY <2>1, <2>2, <2>3
<1>5. ASSUME j.kind = "accepted", NEW i \in 1..Len(Tail(s)), NEW l \in 1..Len(Tail(s)),
             Tail(s)[i] = "writeRequests", Tail(s)[l] = "writeContacts"
      PROVE  l < i
  <2>1. i + 1 \in 1..Len(s) /\ l + 1 \in 1..Len(s) /\ i \in Nat /\ l \in Nat
    BY <1>2, <1>5
  <2>2. s[i + 1] = "writeRequests" /\ s[l + 1] = "writeContacts"
    BY <1>2, <1>5
  <2>3. l + 1 < i + 1
    BY <1>5, <2>1, <2>2 DEF Held
  <2> QED
    BY <2>1, <2>3
<1>6. ASSUME Tail(s) # <<>>, Head(Tail(s)) = "writeRequests"
      PROVE  Head(s) = "readRequests"
  <2> HIDE DEF s
  <2>1. Tail(s) \in Seq(Steps) /\ 1 \in 1..Len(Tail(s)) /\ Tail(s)[1] = "writeRequests"
    BY <1>1, <1>6, RestOfSteps
  <2>2. 1 + 1 \in 1..Len(s) /\ s[1 + 1] = "writeRequests"
    BY <1>2, <2>1
  <2>3. s[1] = "readRequests"
    BY <2>2 DEF s, Sound
  <2> QED
    BY <1>2, <2>3
<1> HIDE DEF s
<1>7. k.todo = Tail(s) /\ Head(j.todo) = Head(s)
  BY DEF s
<1>8. k.kind = "accepted" => \A i, l \in 1..Len(k.todo) :
         k.todo[i] = "writeRequests" /\ k.todo[l] = "writeContacts" => l < i
  BY <1>5, <1>7
<1> QED
  BY <1>3, <1>4, <1>6, <1>7, <1>8 DEF Held

LEMMA PassedHeld ==
  ASSUME AnswerInv, Next, NEW a \in Account, NEW w \in Worker, NEW step \in Steps, At(a, w, step),
         NEW i \in Job, i.todo = work[a][w].todo, i.peer = work[a][w].peer,
         i.kind = work[a][w].kind, i.failed = work[a][w].failed, Passed(a, w, i),
         i.entry = OwnAccepted => i.kind = "accepted",
         step = "writeContacts" => Imported(contact', lost', a, i.peer),
         step = "readRequests" =>
            \A b \in Account : i.map[b] = OwnAccepted => Imported(contact', lost', a, b)
  PROVE  Held(contact', lost', a, work'[a][w])
<1> DEFINE j == work[a][w]
<1>1. Inv
  BY DEF AnswerInv
<1>2. /\ j \notin {Idle, Done} /\ j \in Job /\ j.todo # <<>> /\ Head(j.todo) = step
      /\ Sound(asked, accepted, a, j)
  BY <1>1, AtIsWorking
<1>3. Held(contact, lost, a, j)
  BY <1>2 DEF AnswerInv, HeldJobs
<1>4. PICK k \in Job : /\ k = Left(i) /\ work' = [work EXCEPT ![a][w] = k]
                       /\ k.todo = Tail(j.todo) /\ k.peer = j.peer /\ k.kind = j.kind
                       /\ k.entry = i.entry /\ k.map = i.map
  BY <1>1, <1>2, PassedJob
<1>5. k.failed = j.failed
  BY <1>4 DEF Left, Job, JobRecord
<1>6. work'[a][w] = k
  BY <1>1, <1>4 DEF Inv, Types
<1>7. \A b \in Account : Imported(contact, lost, a, b) => Imported(contact', lost', a, b)
  BY <1>1, ImportedStays
<1> HIDE DEF j
<1>8. Held(contact', lost', a, k)
  BY <1>2, <1>3, <1>4, <1>5, <1>7, HeldRest DEF j
<1> QED
  BY <1>6, <1>8

LEMMA FailedHeld ==
  ASSUME Inv, NEW a \in Account, NEW w \in Worker, work[a][w] \notin {Idle, Done}, Fails(a, w),
         Held(contact, lost, a, work[a][w])
  PROVE  Held(contact', lost', a, work'[a][w])
<1> DEFINE j == work[a][w]
           k == [j EXCEPT !.todo = <<>>, !.failed = TRUE, !.map = <<>>]
<1>1. j \in Job
  BY Working
<1>2. /\ k.todo = <<>> /\ k.failed /\ k.entry = j.entry /\ k.kind = j.kind
  BY <1>1 DEF Job, JobRecord
<1>3. work'[a][w] = k
  BY DEF Fails, Inv, Types
<1> HIDE DEF k
<1>4. j.entry = OwnAccepted => j.kind = "accepted"
  BY DEF Held
<1>5. 1..Len(<<>>) = {}
  OBVIOUS
<1> QED
  BY <1>2, <1>3, <1>4, <1>5 DEF Held

\* Each step of a job leaves it holding what it may.
LEMMA HeldStep ==
  ASSUME AnswerInv, Next, NEW a \in Account, NEW w \in Worker, Step(a, w) \/ StepFails(a, w),
         work'[a][w] \notin {Idle, Done}
  PROVE  Held(contact', lost', a, work'[a][w])
<1> DEFINE j == work[a][w]
<1>1. Inv /\ StoredImported
  BY DEF AnswerInv
<1>2. j \notin {Idle, Done} /\ j \in Job /\ Held(contact, lost, a, j)
  <2>1. j \notin {Idle, Done}
    BY <1>1, StepShape
  <2> QED
    BY <1>1, <2>1, Working DEF AnswerInv, HeldJobs
<1>3. /\ j.entry = OwnAccepted => j.kind = "accepted"
      /\ j.peer \in Account /\ j.bundle = j.peer
  BY <1>2 DEF Held, Job, JobRecord
<1>4. \A b \in Account : Imported(contact, lost, a, b) => Imported(contact', lost', a, b)
  BY <1>1, ImportedStays
<1>5. CASE StepFails(a, w)
  BY <1>1, <1>2, <1>5, FailedHeld DEF StepFails
<1>6. CASE Publish(a, w)
  <2>1. At(a, w, "publish") /\ Passed(a, w, j)
    BY <1>6 DEF Publish
  <2> QED
    BY <1>2, <1>3, <2>1, PassedHeld DEF Steps
<1>7. CASE LoadRequest(a, w)
  <2> DEFINE e == [req[a][j.peer] EXCEPT !.status = j.kind]
             i == [j EXCEPT !.entry = e]
  <2>1. At(a, w, "loadRequest") /\ "loadRequest" \in Steps
    BY <1>7 DEF LoadRequest, Steps
  <2>2. CASE Fails(a, w)
    BY <1>1, <1>2, <2>2, FailedHeld
  <2>3. CASE ~Fails(a, w)
    <3>1. Passed(a, w, i) /\ req[a][j.peer] # None
      BY <1>7, <2>3 DEF LoadRequest
    <3>2. j.kind \in {"accepted", "rejected"}
      BY <1>1, <2>1, AtIsWorking DEF Sound
    <3>3. req[a][j.peer] \in [dir : Dir, status : Status]
      BY <1>1, <1>3, <3>1 DEF Inv, Types, EntryType
    <3>4. e \in EntryType /\ e.status = j.kind
      BY <3>2, <3>3 DEF EntryType, Status
    <3>5. e = OwnAccepted => j.kind = "accepted"
      BY <3>4 DEF OwnAccepted, Entry
    <3> HIDE DEF e
    <3>6. /\ i \in Job /\ i.todo = j.todo /\ i.peer = j.peer /\ i.kind = j.kind
          /\ i.failed = j.failed /\ i.entry = e
      BY <1>2, <3>4 DEF Job, JobRecord
    <3> HIDE DEF i
    <3> QED
      BY <2>1, <3>1, <3>5, <3>6, PassedHeld
  <2> QED
    BY <2>2, <2>3
<1>8. CASE ReadRequests(a, w)
  <2> DEFINE i == [j EXCEPT !.map = req[a]]
  <2>1. At(a, w, "readRequests") /\ Passed(a, w, i)
    BY <1>8 DEF ReadRequests
  <2>2. /\ i \in Job /\ i.todo = j.todo /\ i.peer = j.peer /\ i.kind = j.kind
        /\ i.failed = j.failed /\ i.entry = j.entry /\ i.map = req[a]
    BY <1>1, <1>2 DEF Job, JobRecord, Inv, Types
  <2> HIDE DEF i
  <2>3. \A b \in Account : i.map[b] = OwnAccepted => Imported(contact', lost', a, b)
    BY <1>1, <1>4, <2>2 DEF StoredImported
  <2> QED
    BY <1>3, <2>1, <2>2, <2>3, PassedHeld DEF Steps
<1>9. CASE WriteRequests(a, w)
  <2> DEFINE i == [j EXCEPT !.map = <<>>]
  <2>1. At(a, w, "writeRequests") /\ Passed(a, w, i)
    BY <1>9 DEF WriteRequests
  <2>2. /\ i \in Job /\ i.todo = j.todo /\ i.peer = j.peer /\ i.kind = j.kind
        /\ i.failed = j.failed /\ i.entry = j.entry
    BY <1>2 DEF Job, JobRecord
  <2> HIDE DEF i
  <2> QED
    BY <1>3, <2>1, <2>2, PassedHeld DEF Steps
<1>10. CASE ReadContacts(a, w)
  <2> DEFINE trust == IF j.kind = "verify" THEN StrongerTrust(contact[a][j.bundle], "manual-verified")
                      ELSE mergeStoredContactTrust(contact[a][j.bundle], "relay-directory")
             i == [j EXCEPT !.map = contact[a], !.trust = trust]
  <2>1. At(a, w, "readContacts") /\ Passed(a, w, i)
    BY <1>10 DEF ReadContacts
  <2>2. contact[a] \in [Account -> Trust] /\ contact[a][j.bundle] \in Trust
    BY <1>1, <1>3 DEF Inv, Types
  <2>3. trust \in Trust
    BY <2>2, StrongerIsStronger DEF Trust
  <2> HIDE DEF trust
  <2>4. /\ i \in Job /\ i.todo = j.todo /\ i.peer = j.peer /\ i.kind = j.kind
        /\ i.failed = j.failed /\ i.entry = j.entry
    BY <1>2, <2>2, <2>3 DEF Job, JobRecord
  <2> HIDE DEF i
  <2> QED
    BY <1>3, <2>1, <2>4, PassedHeld DEF Steps
<1>11. CASE WriteContacts(a, w)
  <2> DEFINE i == [j EXCEPT !.map = <<>>, !.trust = "none"]
  <2>1. At(a, w, "writeContacts") /\ Passed(a, w, i)
    BY <1>11 DEF WriteContacts
  <2>2. /\ i \in Job /\ i.todo = j.todo /\ i.peer = j.peer /\ i.kind = j.kind
        /\ i.failed = j.failed /\ i.entry = j.entry
    BY <1>2 DEF Job, JobRecord, Trust
  <2>3. ContactsRead(asked, accepted, a, j)
    <3>1. /\ j.todo[1] = "writeContacts" /\ 1 \in 1..Len(j.todo)
          /\ Sound(asked, accepted, a, j)
      BY <1>1, <2>1, AtIsWorking DEF Steps
    <3> QED
      BY <3>1 DEF Sound
  <2>4. contact'[a][j.peer] # "none"
    BY <1>1, <1>3, <1>11, <2>3 DEF WriteContacts, ContactsRead, Inv, Types
  <2> HIDE DEF i
  <2> QED
    BY <1>3, <2>1, <2>2, <2>4, PassedHeld DEF Steps, Imported
<1>12. CASE Finish(a, w)
  BY <1>1, <1>12 DEF Finish, Inv, Types
<1> QED
  BY <1>5, <1>6, <1>7, <1>8, <1>9, <1>10, <1>11, <1>12 DEF Step

LEMMA EmptyImportsNothing == \A s : s = <<>> => 1..Len(s) = {}
  OBVIOUS

\* The script of an acceptance imports before it stores, and none begins with
\* storing.
LEMMA AcceptedScript ==
  \A i, k \in 1..Len(Script("accepted")) :
     Script("accepted")[i] = "writeRequests" /\ Script("accepted")[k] = "writeContacts" => k < i
<1>1. /\ "loadRequest" \in Steps /\ "readRequests" \in Steps /\ "writeRequests" \in Steps
      /\ "readContacts" \in Steps /\ "writeContacts" \in Steps
  BY DEF Steps
<1> DEFINE u == <<"loadRequest">> \o <<"readContacts", "writeContacts">>
           t == u \o <<"readRequests", "writeRequests">>
<1>2. /\ u \in Seq(Steps) /\ Len(u) = 3 /\ u[1] = "loadRequest" /\ u[2] = "readContacts"
      /\ u[3] = "writeContacts"
  BY <1>1, ThreeSteps
<1>3. Script("accepted") = t
  BY DEF Script, Response, Import, Save
<1> HIDE DEF u
<1>4. /\ Len(t) = 5 /\ t[1] = u[1] /\ t[2] = u[2] /\ t[3] = u[3]
      /\ t[4] = "readRequests" /\ t[5] = "writeRequests"
  BY <1>1, <1>2, FiveSteps
<1> HIDE DEF t
<1>5. \A i \in 1..Len(t) : i = 1 \/ i = 2 \/ i = 3 \/ i = 4 \/ i = 5
  BY <1>4
<1>6. \A i \in 1..Len(t) : t[i] = "writeRequests" => i = 5
  BY <1>2, <1>4, <1>5
<1>7. \A k \in 1..Len(t) : t[k] = "writeContacts" => k = 3
  BY <1>2, <1>4, <1>5
<1> QED
  BY <1>3, <1>6, <1>7

LEMMA ScriptHeads ==
  \A kind \in Kinds : Script(kind) # <<>> => Head(Script(kind)) # "writeRequests"
<1> SUFFICES ASSUME NEW kind \in Kinds, Script(kind) # <<>>, Head(Script(kind)) = "writeRequests"
             PROVE  FALSE
  OBVIOUS
<1> DEFINE s == Script(kind)
<1>1. WellMade(kind, s) /\ s # <<>> /\ Head(s) = "writeRequests"
  BY ScriptsAreWellMade
<1> HIDE DEF s
<1>2. s[1] = "writeRequests" /\ 1 \in 1..Len(s)
  BY <1>1, RestOfSteps DEF WellMade
<1> QED
  BY <1>1, <1>2 DEF WellMade

LEMMA HeldJobsStep ==
  ASSUME AnswerInv, Next PROVE HeldJobs'
<1> SUFFICES ASSUME NEW a \in Account, NEW w \in Worker, work'[a][w] \notin {Idle, Done}
             PROVE  Held(contact', lost', a, work'[a][w])
  BY DEF HeldJobs
<1>1. Inv
  BY DEF AnswerInv
<1>2. CASE work'[a][w] = work[a][w]
  <2>1. work[a][w] \in Job /\ Held(contact, lost, a, work[a][w])
    BY <1>1, <1>2, Working DEF AnswerInv, HeldJobs
  <2>2. \A b \in Account : Imported(contact, lost, a, b) => Imported(contact', lost', a, b)
    BY <1>1, ImportedStays
  <2> QED
    BY <1>2, <2>1, <2>2, HeldStays
<1>3. ASSUME NEW c \in Account, NEW u \in Worker, Step(c, u) \/ StepFails(c, u)
      PROVE  Held(contact', lost', a, work'[a][w])
  <2>1. CASE c = a /\ u = w
    BY <1>3, <2>1, HeldStep
  <2>2. CASE c # a \/ u # w
    <3>1. PICK k : work' = [work EXCEPT ![c][u] = k]
      BY <1>1, <1>3, StepShape
    <3>2. work'[a][w] = work[a][w]
      BY <1>1, <2>2, <3>1 DEF Inv, Types
    <3> QED
      BY <1>2, <3>2
  <2> QED
    BY <2>1, <2>2
<1>4. ASSUME NEW c \in Account, NEW u \in Worker, NEW kind \in Kinds, NEW d \in Account,
             NEW e, e # OwnAccepted, Start(c, u, kind, d, d, e)
      PROVE  Held(contact', lost', a, work'[a][w])
  <2>1. CASE c = a /\ u = w
    <3>1. /\ work'[a][w].kind = kind /\ work'[a][w].peer = d /\ work'[a][w].entry = e
          /\ work'[a][w].failed = FALSE /\ work'[a][w].todo = Script(kind)
      BY <1>1, <1>4, <2>1 DEF Start, Inv, Types
    <3>2. kind = "accepted" => Imports(work'[a][w], d)
      BY <1>1, <1>4, <2>1, StartedImports
    <3>3. Script(kind) # <<>> => Head(Script(kind)) # "writeRequests"
      BY ScriptHeads
    <3>4. kind = "accepted" => \A i, k \in 1..Len(Script(kind)) :
             Script(kind)[i] = "writeRequests" /\ Script(kind)[k] = "writeContacts" => k < i
      BY AcceptedScript
    <3> QED
      BY <1>4, <3>1, <3>2, <3>3, <3>4 DEF Held
  <2>2. CASE c # a \/ u # w
    <3>1. work'[a][w] = work[a][w]
      BY <1>1, <1>4, <2>2 DEF Start, Inv, Types
    <3> QED
      BY <1>2, <3>1
  <2> QED
    BY <2>1, <2>2
<1>5. ASSUME NEW c \in Account, Crash(c)
      PROVE  work'[a][w] = work[a][w]
  BY <1>1, <1>5 DEF Crash, Inv, Types
<1>6. ASSUME NEW c \in Account, NEW b \in Account, NEW u \in Worker,
             Ask(c, b, u) \/ Decide(c, b, u) \/ Verify(c, b, u)
      PROVE  \E kind \in Kinds : \E e : e # OwnAccepted /\ Start(c, u, kind, b, b, e)
  <2>1. ASSUME Ask(c, b, u)
        PROVE  \E kind \in Kinds : \E e : e # OwnAccepted /\ Start(c, u, kind, b, b, e)
    <3>1. Start(c, u, "ask", b, b, Entry("outgoing", "pending"))
      BY <2>1 DEF Ask
    <3>2. Entry("outgoing", "pending") # OwnAccepted /\ "ask" \in Kinds
      BY DEF OwnAccepted, Entry, Kinds
    <3> QED
      BY <3>1, <3>2
  <2>2. ASSUME Decide(c, b, u)
        PROVE  \E kind \in Kinds : \E e : e # OwnAccepted /\ Start(c, u, kind, b, b, e)
    <3>1. PICK kind \in {"accept", "reject"} :
             Start(c, u, kind, b, b, Entry("incoming", IF kind = "accept" THEN "accepted" ELSE "rejected"))
      BY <2>2 DEF Decide
    <3>2. /\ kind \in Kinds
          /\ Entry("incoming", IF kind = "accept" THEN "accepted" ELSE "rejected") # OwnAccepted
      BY DEF OwnAccepted, Entry, Kinds
    <3> QED
      BY <3>1, <3>2
  <2>3. ASSUME Verify(c, b, u)
        PROVE  \E kind \in Kinds : \E e : e # OwnAccepted /\ Start(c, u, kind, b, b, e)
    <3>1. Start(c, u, "verify", b, b, None)
      BY <2>3 DEF Verify
    <3>2. None # OwnAccepted /\ "verify" \in Kinds
      BY DEF OwnAccepted, Entry, Kinds, None
    <3> QED
      BY <3>1, <3>2
  <2> QED
    BY <1>6, <2>1, <2>2, <2>3
<1>7. ASSUME NEW c \in Account, NEW b \in Account, CliResolve(c, b)
      PROVE  \E kind \in Kinds : \E e : e # OwnAccepted /\ Start(c, "cli", kind, b, b, e)
  <2>1. \/ Start(c, "cli", "cliAccept", b, b, Entry("incoming", "accepted"))
        \/ Start(c, "cli", "reject", b, b, Entry("incoming", "rejected"))
    BY <1>7 DEF CliResolve
  <2>2. /\ "cliAccept" \in Kinds /\ "reject" \in Kinds
        /\ Entry("incoming", "accepted") # OwnAccepted /\ Entry("incoming", "rejected") # OwnAccepted
    BY DEF OwnAccepted, Entry, Kinds
  <2> QED
    BY <2>1, <2>2
<1>8. ASSUME NEW c \in Account, NEW m \in net, Receive(c, m)
      PROVE  \E kind \in Kinds, b \in Account : \E e :
                e # OwnAccepted /\ Start(c, "update", kind, b, b, e)
  <2> DEFINE e == IF m.kind = "request" THEN Entry("incoming", "pending") ELSE None
  <2>1. m.kind \in Kinds /\ m.from \in Account /\ m.bundle = m.from
    BY <1>1 DEF Inv, Types, Message, MessageRecord, Kinds
  <2>2. Start(c, "update", m.kind, m.from, m.from, e)
    BY <1>8, <2>1 DEF Receive
  <2>3. e # OwnAccepted
    BY DEF OwnAccepted, Entry, None
  <2> QED
    BY <2>1, <2>2, <2>3
<1>9. "cli" \in Worker /\ "update" \in Worker
  BY DEF Worker
<1> QED
  BY <1>2, <1>3, <1>4, <1>5, <1>6, <1>7, <1>8, <1>9 DEF Next

\* The two files of requests only take over what was imported.
LEMMA StoredImportedStep ==
  ASSUME AnswerInv, Next PROVE StoredImported'
<1> SUFFICES ASSUME NEW a \in Account, NEW b \in Account, OwnAccepted \in {req'[a][b], view'[a][b]}
             PROVE  Imported(contact', lost', a, b)
  BY DEF StoredImported
<1>1. Inv /\ StoredImported
  BY DEF AnswerInv
<1>2. Imported(contact, lost, a, b) => Imported(contact', lost', a, b)
  BY <1>1, ImportedStays
<1>3. /\ req \in [Account -> [Account -> EntryType]]
      /\ view \in [Account -> [Account -> EntryType]]
  BY <1>1 DEF Inv, Types
<1>4. CASE UNCHANGED <<req, view>>
  BY <1>1, <1>2, <1>4 DEF StoredImported
<1>5. ASSUME NEW c \in Account, NEW w \in Worker, WriteRequests(c, w)
      PROVE  Imported(contact, lost, a, b)
  <2> DEFINE j == work[c][w]
             map == [j.map EXCEPT ![j.peer] = j.entry]
  <2>1. /\ At(c, w, "writeRequests") /\ req' = [req EXCEPT ![c] = map] /\ view' = view
    BY <1>5 DEF WriteRequests
  <2>2. /\ j \in Job /\ j.todo # <<>> /\ Head(j.todo) = "writeRequests" /\ j \notin {Idle, Done}
        /\ j.todo[1] = "writeRequests" /\ 1 \in 1..Len(j.todo) /\ Sound(asked, accepted, c, j)
    BY <1>1, <2>1, AtIsWorking DEF Steps
  <2>3. Held(contact, lost, c, j)
    BY <2>2 DEF AnswerInv, HeldJobs
  <2>4. RequestsRead(asked, c, j)
    BY <2>2 DEF Sound
  <2>5. ASSUME j.entry = OwnAccepted PROVE Imported(contact, lost, c, j.peer)
    <3>1. Imports(j, j.peer) \/ Imported(contact, lost, c, j.peer)
      BY <2>2, <2>3, <2>5 DEF Held
    <3>2. ~Imports(j, j.peer)
      <4>1. \A k \in 1..Len(j.todo) : j.todo[k] = "writeContacts" => k < 1
        BY <2>2, <2>3, <2>5 DEF Held
      <4> QED
        BY <4>1 DEF Imports
    <3> QED
      BY <3>1, <3>2
  <2>6. \A d \in Account : map[d] = OwnAccepted => Imported(contact, lost, c, d)
    <3>1. \A d \in Account : map[d] = IF d = j.peer THEN j.entry ELSE j.map[d]
      BY <2>4 DEF RequestsRead
    <3> HIDE DEF map, j
    <3> QED
      BY <2>2, <2>3, <2>5, <3>1 DEF Held
  <2> HIDE DEF map, j
  <2>7. CASE view[a][b] = OwnAccepted \/ req[a][b] = OwnAccepted
    BY <1>1, <2>7 DEF StoredImported
  <2>8. CASE req'[a][b] = OwnAccepted /\ req[a][b] # OwnAccepted
    <3>1. a = c /\ req'[a][b] = map[b]
      BY <1>3, <2>1, <2>8
    <3> QED
      BY <2>6, <2>8, <3>1
  <2> QED
    BY <2>1, <2>7, <2>8
<1>6. ASSUME NEW c \in Account, NEW w \in Worker, Finish(c, w)
      PROVE  Imported(contact, lost, a, b)
  <2> DEFINE j == work[c][w]
  <2>1. /\ j \notin {Idle, Done} /\ j.todo = <<>> /\ req' = req
        /\ view' = view \/ (~j.failed /\ view' = [view EXCEPT ![c][j.peer] = j.entry])
    BY <1>6 DEF Finish
  <2>2. j \in Job /\ Held(contact, lost, c, j)
    BY <1>1, <2>1, Working DEF AnswerInv, HeldJobs
  <2>3. ~Imports(j, j.peer)
    BY <2>1, EmptyImportsNothing DEF Imports
  <2>4. ASSUME j.entry = OwnAccepted, ~j.failed PROVE Imported(contact, lost, c, j.peer)
    BY <2>2, <2>3, <2>4 DEF Held
  <2> HIDE DEF j
  <2>5. CASE view[a][b] = OwnAccepted \/ req[a][b] = OwnAccepted
    BY <1>1, <2>5 DEF StoredImported
  <2>6. CASE view'[a][b] = OwnAccepted /\ view[a][b] # OwnAccepted
    <3>1. a = c /\ b = j.peer /\ j.entry = OwnAccepted /\ ~j.failed
      BY <1>3, <2>1, <2>6
    <3> QED
      BY <2>4, <3>1
  <2> QED
    BY <2>1, <2>5, <2>6
<1>7. ASSUME NEW c \in Account, Crash(c)
      PROVE  Imported(contact, lost, a, b)
  <2>1. req' = req /\ view' = [view EXCEPT ![c] = req[c]]
    BY <1>7 DEF Crash
  <2>2. view'[a][b] \in {view[a][b], req[a][b]}
    BY <1>3, <2>1
  <2> QED
    BY <1>1, <2>1, <2>2 DEF StoredImported
<1>8. ASSUME NEW c \in Account, NEW w \in Worker, Step(c, w) \/ StepFails(c, w)
      PROVE  WriteRequests(c, w) \/ Finish(c, w) \/ UNCHANGED <<req, view>>
  <2>1. Publish(c, w) \/ LoadRequest(c, w) \/ StepFails(c, w) => UNCHANGED <<req, view>>
    BY DEF Publish, LoadRequest, StepFails
  <2>2. ReadRequests(c, w) \/ ReadContacts(c, w) \/ WriteContacts(c, w) => UNCHANGED <<req, view>>
    BY DEF ReadRequests, ReadContacts, WriteContacts
  <2> QED
    BY <1>8, <2>1, <2>2 DEF Step
<1>9. /\ \A c, d \in Account, w \in Worker :
           Ask(c, d, w) \/ Decide(c, d, w) \/ Verify(c, d, w) => UNCHANGED <<req, view>>
      /\ \A c, d \in Account : CliResolve(c, d) => UNCHANGED <<req, view>>
      /\ \A c \in Account, m \in net : Receive(c, m) => UNCHANGED <<req, view>>
  BY DEF Ask, Decide, Verify, CliResolve, Receive
<1> QED
  BY <1>2, <1>4, <1>5, <1>6, <1>7, <1>8, <1>9 DEF Next

LEMMA AnswerInit == Init => AnswerInv
<1> SUFFICES ASSUME Init PROVE AnswerInv
  OBVIOUS
<1>1. \A a, b \in Account : req[a][b] # OwnAccepted /\ view[a][b] # OwnAccepted
  BY DEF Init, OwnAccepted, Entry, None
<1> QED
  BY <1>1, InitHolds DEF AnswerInv, HeldJobs, StoredImported, Init

LEMMA AnswerStep == AnswerInv /\ [Next]_vars => AnswerInv'
<1>1. AnswerInv /\ Next => AnswerInv'
  BY StepKeeps, HeldJobsStep, StoredImportedStep DEF AnswerInv
<1>2. AnswerInv /\ UNCHANGED vars => AnswerInv'
  <2> SUFFICES ASSUME AnswerInv, UNCHANGED vars PROVE AnswerInv'
    OBVIOUS
  <2>1. UNCHANGED <<req, view, contact, lost, work>>
    BY DEF vars
  <2> QED
    BY <2>1, StepKeeps DEF AnswerInv, HeldJobs, StoredImported
<1> QED
  BY <1>1, <1>2

\* A request of one's own is accepted in the file, or in the modal, only once
\* the peer was made a contact (handleContactResponse), whatever jobs overlap,
\* fail or crash; only a writer of contacts.json who had not read that contact
\* can take it away again.
THEOREM AcceptedIsImportedCorrect == Spec => []AcceptedIsImported
<1>1. AnswerInv => AcceptedIsImported
  BY DEF AnswerInv, StoredImported, AcceptedIsImported, Imported, OwnAccepted
<1> QED
  BY <1>1, AnswerInit, AnswerStep, PTL DEF Spec
=============================================================================
