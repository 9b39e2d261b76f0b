---------------------------- MODULE DeliveryProofs ----------------------------
(***************************************************************************)
(* Proofs about Delivery, for any texts, files, chunk counts and faults:   *)
(* histories hold a message once, nothing that B took vanishes without a   *)
(* reason, recorded files are whole and shown deliveries were earned.      *)
(*                                                                         *)
(* All four follow from one inductive invariant, Inv.  Histories carries   *)
(* what a record says about the send goroutine, the seen marks and the     *)
(* disk; Earned follows an ack on its way; Incoming accounts for what B    *)
(* took while its Update goroutine and its sweeper overlap.                *)
(***************************************************************************)
EXTENDS Delivery, FiniteSetTheorems, TLAPS

Rec == [msg : Message, delivered : BOOLEAN]

\* An envelope to B is a part of a message, one to A the ack of a text.
Envelope ==
  {e \in [to : Side, msg : Message, part : Nat] :
     IF e.to = "B" THEN e.part \in Parts(e.msg) ELSE e.msg \in Text /\ e.part = 0}

HandleJob == [pc : {"handle"}, env : Envelope]
FillJob == [pc : {"fill"}, op : {"save", "mark"}, msg : Message, records : Seq(Rec)]
SweepJob == [pc : {"write", "fill"}, records : Seq(Rec)]

Types ==
  /\ item \in [Message -> {"none", "pending", "sent", "failed", "delivered"}]
  /\ send \in [Message -> [pc : {"unsent", "sending", "sent", "failed", "done"}, next : Nat]]
  /\ \A m \in Message : send[m].pc # "done" => send[m].next \in Parts(m)
  /\ net \subseteq Envelope /\ seen \subseteq Envelope
  /\ job \in [Side -> {Idle} \cup HandleJob \cup FillJob]
  /\ \A s \in Side : job[s].pc = "handle" => job[s].env.to = s /\ job[s].env \in seen
  /\ sweep \in [Side -> {Idle} \cup SweepJob]
  /\ file \in [Side -> Seq(Rec) \cup {Torn}]
  /\ pending \in [File -> SUBSET Nat] /\ stale \subseteq File
  /\ disk \in [File -> SUBSET Nat]
  /\ expired \subseteq Message
  /\ excused \in [Side -> SUBSET Message]

\* A history, in the file or in the hands of a goroutine that is to write it,
\* has one record of a message.  A only records what its goroutine has sent; B
\* what has come whole, none of which it is handling any more.
Distinct(r) == \A j, k \in DOMAIN r : r[j].msg = r[k].msg => j = k
Handled(m) == job["B"].pc = "handle" /\ job["B"].env.msg = m
Good(s, x) ==
  /\ s = "A" => send[x.msg].pc = "done" /\ (x.delivered => PartOf(x.msg, 1) \in seen)
  /\ s = "B" => /\ \A i \in Parts(x.msg) : PartOf(x.msg, i) \in seen
                /\ ~Handled(x.msg)
                /\ x.msg \in File => disk[x.msg] = Parts(x.msg)
Fine(s, r) == Distinct(r) /\ \A k \in DOMAIN r : Good(s, r[k])
FineSide(s) ==
  /\ file[s] # Torn => Fine(s, file[s])
  /\ job[s].pc = "fill" => Fine(s, job[s].records)
  /\ sweep[s].pc \in {"write", "fill"} => Fine(s, sweep[s].records)
Histories == \A s \in Side : FineSide(s)

\* An ack, on its way, handled, or being written down, was sent by B for a text
\* it had taken.
Earned ==
  /\ \A e \in net : e.to = "A" => PartOf(e.msg, 1) \in seen
  /\ job["A"].pc = "handle" => PartOf(job["A"].env.msg, 1) \in seen
  /\ job["A"].pc = "fill" /\ job["A"].op = "mark" => PartOf(job["A"].msg, 1) \in seen
  /\ \A m \in Message : item[m] = "delivered" => PartOf(m, 1) \in seen

Live(m) == m \in Message \ (expired \cup excused["B"])

\* The assembler has chunks that B took, and never all of them.
Assembling ==
  \A f \in File : /\ \A i \in pending[f] : PartOf(f, i) \in seen
                  /\ f \notin excused["B"] => pending[f] # Parts(f)

\* What B took of a message is in its history or on its way there, being handled
\* or in the assembler.
Safe(m) ==
  \/ Holds(file["B"], m)
  \/ job["B"].pc = "fill" /\ Holds(job["B"].records, m)
  \/ sweep["B"].pc = "fill" /\ Holds(sweep["B"].records, m)
Taken(m, i) == job["B"].pc = "handle" /\ job["B"].env = PartOf(m, i)
NothingLost ==
  \A m : Live(m) => Safe(m) \/ \A i \in Parts(m) :
      PartOf(m, i) \in seen => Taken(m, i) \/ (m \in File /\ i \in pending[m])

\* The Update goroutine and the sweeper overlap: what one of them is to write
\* over the other's file is not less than what is there.
Overlap ==
  \A m : Live(m) =>
    /\ job["B"].pc = "fill" =>
         /\ Holds(file["B"], m) => Holds(job["B"].records, m)
         /\ sweep["B"].pc # "idle" /\ Holds(sweep["B"].records, m) => Holds(job["B"].records, m)
    /\ job["B"].pc # "fill" /\ file["B"] # Torn /\ sweep["B"].pc # "idle"
         /\ Holds(sweep["B"].records, m) => Holds(file["B"], m)

Incoming == Assembling /\ NothingLost /\ Overlap
Inv == Types /\ Histories /\ Earned /\ Incoming

-----------------------------------------------------------------------------
\* The i-th kept record exists, is kept, and every kept record is one of them.
LEMMA Ranks ==
  ASSUME NEW n \in Nat, NEW K \in SUBSET (1..n)
  PROVE  LET rank == [k \in K |-> Cardinality({j \in K : j <= k})]
         IN  /\ Cardinality(K) \in Nat
             /\ \A k \in K : rank[k] \in 1..Cardinality(K)
             /\ \A j, k \in K : rank[j] = rank[k] => j = k
             /\ \A i \in 1..Cardinality(K) : \E k \in K : rank[k] = i
<1> DEFINE upTo(k) == {j \in K : j <= k}
           rank == [k \in K |-> Cardinality(upTo(k))]
           c == Cardinality(K)
<1>1. IsFiniteSet(K) /\ c \in Nat
  <2>1. IsFiniteSet(1..n)
    BY FS_Interval
  <2>2. IsFiniteSet(K)
    BY <2>1, FS_Subset
  <2> QED
    BY <2>2, FS_CardinalityType
<1>2. ASSUME NEW k \in K
      PROVE  IsFiniteSet(upTo(k)) /\ Cardinality(upTo(k)) \in 1..c
  <2>1. upTo(k) \in SUBSET K /\ k \in upTo(k)
    OBVIOUS
  <2>2. IsFiniteSet(upTo(k)) /\ Cardinality(upTo(k)) <= c
    BY <1>1, <2>1, FS_Subset
  <2>3. Cardinality(upTo(k)) \in Nat /\ Cardinality(upTo(k)) # 0
    BY <2>1, <2>2, FS_CardinalityType, FS_EmptySet
  <2> QED
    BY <1>1, <2>2, <2>3
<1>3. ASSUME NEW j \in K, NEW k \in K, j < k
      PROVE  Cardinality(upTo(j)) # Cardinality(upTo(k))
  <2>1. upTo(j) \in SUBSET upTo(k) /\ k \in upTo(k) /\ k \notin upTo(j)
    <3>1. \A i \in K : i \in Nat
      OBVIOUS
    <3>2. j \in Nat /\ k \in Nat /\ k <= k /\ ~(k <= j)
      BY <1>3, <3>1
    <3>3. \A i \in Nat : i <= j => i <= k
      BY <1>3, <3>2
    <3> QED
      BY <3>1, <3>2, <3>3
  <2>2. upTo(j) # upTo(k)
    BY <2>1
  <2>3. IsFiniteSet(upTo(k))
    BY <1>2
  <2> HIDE DEF upTo
  <2> QED
    BY <2>1, <2>2, <2>3, FS_Subset
<1>4. ASSUME NEW j \in K, NEW k \in K, rank[j] = rank[k]
      PROVE  j = k
  <2>1. j < k \/ k < j \/ j = k
    OBVIOUS
  <2> QED
    BY <1>3, <1>4, <2>1
<1>5. rank \in [K -> 1..c]
  BY <1>2
<1>6. rank \in Injection(K, 1..c)
  BY <1>4, <1>5 DEF Injection, IsInjective
<1>7. rank \in Surjection(K, 1..c)
  <2>1. IsFiniteSet(1..c) /\ Cardinality(1..c) = c
    BY <1>1, FS_Interval
  <2> QED
    BY <1>6, <2>1, FS_Injection
<1>8. \A i \in 1..c : \E k \in K : rank[k] = i
  BY <1>7 DEF Surjection
<1> QED
  BY <1>1, <1>4, <1>5, <1>8

\* filterExpiredMessages keeps exactly the records that have not expired, each once.
LEMMA UnexpiredKeeps ==
  ASSUME NEW r \in Seq(Rec)
  PROVE  LET u == Unexpired(r)
         IN  /\ u \in Seq(Rec)
             /\ \A i \in DOMAIN u : \E k \in DOMAIN r : u[i] = r[k]
             /\ \A k \in DOMAIN r : r[k].msg \notin expired => \E i \in DOMAIN u : u[i] = r[k]
             /\ Distinct(r) => Distinct(u)
<1> DEFINE K == {k \in DOMAIN r : r[k].msg \notin expired}
           rank == [k \in K |-> Cardinality({j \in K : j <= k})]
           place(i) == CHOOSE k \in K : Cardinality({j \in K : j <= k}) = i
           c == Cardinality(K)
           u == [i \in 1..c |-> r[place(i)]]
<1>1. /\ c \in Nat /\ \A k \in K : rank[k] \in 1..c
      /\ \A j, k \in K : rank[j] = rank[k] => j = k
      /\ \A i \in 1..c : \E k \in K : rank[k] = i
  <2>1. Len(r) \in Nat /\ K \in SUBSET (1..Len(r))
    OBVIOUS
  <2> HIDE DEF K
  <2> QED
    BY <2>1, Ranks
<1>2. \A i \in 1..c : place(i) \in K /\ rank[place(i)] = i
  <2> TAKE i \in 1..c
  <2>1. \E k \in K : Cardinality({j \in K : j <= k}) = i
    BY <1>1
  <2>2. place(i) \in K /\ Cardinality({j \in K : j <= place(i)}) = i
    BY <2>1
  <2> HIDE DEF place
  <2> QED
    BY <2>2
<1>3. \A k \in K : rank[k] \in 1..c /\ place(rank[k]) = k
  BY <1>1, <1>2
<1>4. K \subseteq DOMAIN r /\ \A k \in DOMAIN r : r[k].msg \notin expired => k \in K
  OBVIOUS
<1>5. Unexpired(r) = u
  BY DEF Unexpired, filterInPlace
<1> HIDE DEF K, rank, place
<1>6. \A i \in DOMAIN u : \E k \in DOMAIN r : u[i] = r[k]
  BY <1>2, <1>4
<1>7. u \in Seq(Rec) /\ DOMAIN u = 1..c
  BY <1>1, <1>2, <1>4
<1>8. \A k \in DOMAIN r : r[k].msg \notin expired => \E i \in DOMAIN u : u[i] = r[k]
  BY <1>3, <1>4, <1>7
<1>9. ASSUME Distinct(r) PROVE Distinct(u)
  <2> SUFFICES ASSUME NEW i \in 1..c, NEW j \in 1..c, u[i].msg = u[j].msg PROVE i = j
    BY <1>7 DEF Distinct
  <2>1. place(i) = place(j)
    BY <1>2, <1>4, <1>9 DEF Distinct
  <2> QED
    BY <1>2, <2>1
<1> QED
  BY <1>5, <1>6, <1>7, <1>8, <1>9

\* What is written in place of a history.
LEMMA TornIsNoHistory == \A r \in Seq(Rec) : r # Torn
<1>1. "unreadable" \notin Message
  BY DeliveryAssumption
<1>2. Len(Torn) = 1 /\ Torn[1].msg = "unreadable"
  BY DEF Torn, Record
<1>3. ASSUME NEW r \in Seq(Rec), r = Torn PROVE FALSE
  <2>1. 1 \in 1..Len(r)
    BY <1>2, <1>3
  <2>2. r[1] \in Rec
    BY <2>1
  <2> QED
    BY <1>1, <1>2, <1>3, <2>2 DEF Rec
<1> QED
  BY <1>3

LEMMA SavedHolds ==
  ASSUME NEW r \in Seq(Rec), NEW m \in Message
  PROVE  \E w \in Seq(Rec) :
            /\ w = Rewritten(r, "save", m) /\ Holds(w, m)
            /\ \A k \in DOMAIN w : w[k] = Record(m, FALSE) \/ \E j \in DOMAIN r : w[k] = r[j]
            /\ Distinct(r) /\ ~Holds(r, m) => Distinct(w)
            /\ \A n : Holds(r, n) => Holds(w, n)
<1> DEFINE x == Record(m, FALSE)
           w == Append(r, x)
<1>1. x \in Rec /\ x.msg = m
  BY DEF Record, Rec
<1> HIDE DEF x
<1>2. /\ w \in Seq(Rec) /\ Len(r) \in Nat /\ DOMAIN r = 1..Len(r) /\ Len(w) = Len(r) + 1
      /\ w[Len(r) + 1] = x /\ \A k \in 1..Len(r) : w[k] = r[k]
  BY <1>1
<1> HIDE DEF w
<1>3. DOMAIN w = 1..(Len(r) + 1)
  BY <1>2
<1>4. \A k \in DOMAIN w : k = Len(r) + 1 \/ k \in DOMAIN r
  BY <1>2, <1>3
<1>5. Len(r) + 1 \in DOMAIN w /\ \A k \in DOMAIN r : k \in DOMAIN w
  BY <1>2, <1>3
<1>6. r # Torn /\ w # Torn
  BY <1>2, TornIsNoHistory
<1>7. Holds(w, m) /\ \A n : Holds(r, n) => Holds(w, n)
  BY <1>1, <1>2, <1>5, <1>6 DEF Holds
<1>8. ASSUME Distinct(r), ~Holds(r, m) PROVE Distinct(w)
  <2>1. \A k \in DOMAIN r : w[k] = r[k] /\ r[k].msg # m
    BY <1>2, <1>6, <1>8 DEF Holds
  <2> QED
    BY <1>1, <1>2, <1>4, <1>8, <2>1 DEF Distinct
<1>9. w = Rewritten(r, "save", m)
  BY DEF Rewritten, w, x
<1> QED
  BY <1>2, <1>4, <1>7, <1>8, <1>9 DEF x

LEMMA MarkedHolds ==
  ASSUME NEW r \in Seq(Rec), NEW m \in Message
  PROVE  \E w \in Seq(Rec) :
            /\ w = Rewritten(r, "mark", m) /\ DOMAIN w = DOMAIN r
            /\ \A k \in DOMAIN r : w[k] = r[k] \/ (w[k] = Record(m, TRUE) /\ r[k].msg = m)
            /\ Distinct(r) => Distinct(w)
            /\ \A n : Holds(r, n) => Holds(w, n)
<1> DEFINE x == Record(m, TRUE)
           w == [k \in DOMAIN r |-> IF r[k].msg = m THEN x ELSE r[k]]
<1>1. x \in Rec /\ x.msg = m
  BY DEF Record, Rec
<1> HIDE DEF x
<1>2. w \in Seq(Rec) /\ DOMAIN w = DOMAIN r
  <2>1. Len(r) \in Nat /\ DOMAIN r = 1..Len(r) /\ \A k \in 1..Len(r) : r[k] \in Rec
    OBVIOUS
  <2>2. w \in [1..Len(r) -> Rec]
    BY <1>1, <2>1
  <2> HIDE DEF w
  <2> QED
    BY <2>1, <2>2
<1>3. \A k \in DOMAIN r : w[k] = IF r[k].msg = m THEN x ELSE r[k]
  OBVIOUS
<1> HIDE DEF w
<1>4. \A k \in DOMAIN r : w[k].msg = r[k].msg
  BY <1>1, <1>3
<1>5. r # Torn /\ w # Torn
  BY <1>2, TornIsNoHistory
<1>6. \A n : Holds(r, n) => Holds(w, n)
  BY <1>2, <1>4, <1>5 DEF Holds
<1>7. Distinct(r) => Distinct(w)
  BY <1>2, <1>4 DEF Distinct
<1>8. w = Rewritten(r, "mark", m)
  BY DEF Rewritten, w, x
<1> QED
  BY <1>2, <1>3, <1>6, <1>7, <1>8 DEF x

-----------------------------------------------------------------------------
LEMMA Envelopes ==
  /\ \A m \in Message : Parts(m) \subseteq Nat /\ 1 \in Parts(m)
  /\ \A m \in Message : \A i \in Parts(m) : PartOf(m, i) \in Envelope
  /\ \A m \in Text : Parts(m) = {1} /\ AckOf(m) \in Envelope /\ AckOf(m).to = "A" /\ AckOf(m).msg = m
  /\ \A f \in File : Parts(f) = 1..Chunks[f] /\ Chunks[f] \in Nat \ {0}
                     /\ f \notin Text /\ f \in Message
  /\ \A e \in Envelope :
       /\ e.msg \in Message /\ e.to \in Side
       /\ e.to = "B" => e = PartOf(e.msg, e.part) /\ e.part \in Parts(e.msg)
       /\ e.to = "A" => e.msg \in Text
  /\ \A m, n, i, j : PartOf(m, i) = PartOf(n, j) => m = n /\ i = j
  /\ \A m, i : PartOf(m, i).to = "B" /\ PartOf(m, i).msg = m /\ PartOf(m, i).part = i
<1>1. \A m \in Message : Parts(m) \subseteq Nat /\ 1 \in Parts(m)
  BY DeliveryAssumption DEF Parts, Message
<1>2. \A f \in File : Parts(f) = 1..Chunks[f] /\ Chunks[f] \in Nat \ {0}
                      /\ f \notin Text /\ f \in Message
  BY DeliveryAssumption DEF Parts, Message
<1>3. \A m \in Message : \A i \in Parts(m) : PartOf(m, i) \in Envelope
  BY <1>1 DEF PartOf, Envelope, Side
<1>4. \A m \in Text : Parts(m) = {1} /\ AckOf(m) \in Envelope /\ AckOf(m).to = "A" /\ AckOf(m).msg = m
  BY DEF Parts, AckOf, Envelope, Side, Message
<1>5. \A e \in Envelope :
       /\ e.msg \in Message /\ e.to \in Side
       /\ e.to = "B" => e = PartOf(e.msg, e.part) /\ e.part \in Parts(e.msg)
       /\ e.to = "A" => e.msg \in Text
  BY DEF Envelope, PartOf, Side
<1>6. \A m, n, i, j : PartOf(m, i) = PartOf(n, j) => m = n /\ i = j
  BY DEF PartOf
<1>7. \A m, i : PartOf(m, i).to = "B" /\ PartOf(m, i).msg = m /\ PartOf(m, i).part = i
  BY DEF PartOf
<1> QED
  BY <1>1, <1>2, <1>3, <1>4, <1>5, <1>6, <1>7

LEMMA JobKinds ==
  ASSUME Types, NEW s \in Side
  PROVE  /\ job[s].pc \in {"idle", "handle", "fill"} /\ sweep[s].pc \in {"idle", "write", "fill"}
         /\ job[s] = Idle <=> job[s].pc = "idle"
         /\ sweep[s] = Idle <=> sweep[s].pc = "idle"
         /\ job[s].pc = "handle" =>
              job[s].env \in Envelope /\ job[s].env.to = s /\ job[s].env \in seen
         /\ job[s].pc = "fill" => job[s].op \in {"save", "mark"} /\ job[s].msg \in Message
                                  /\ job[s].records \in Seq(Rec)
         /\ sweep[s].pc \in {"write", "fill"} => sweep[s].records \in Seq(Rec)
         /\ file[s] # Torn => file[s] \in Seq(Rec)
         /\ Idle.pc = "idle"
<1>1. Idle.pc = "idle"
  BY DEF Idle
<1>2. job[s] \in {Idle} \cup HandleJob \cup FillJob /\ sweep[s] \in {Idle} \cup SweepJob
      /\ file[s] \in Seq(Rec) \cup {Torn}
  BY DEF Types
<1>3. job[s].pc = "handle" => job[s].env.to = s /\ job[s].env \in seen
  BY DEF Types
<1> QED
  BY <1>1, <1>2, <1>3 DEF HandleJob, FillJob, SweepJob

\* What keeps a record good.
Steady ==
  /\ \A m \in Message : send[m].pc = "done" => send'[m].pc = "done"
  /\ seen \subseteq seen'
  /\ \A m \in Message : Handled(m)' => Handled(m) \/ \E i \in Parts(m) : PartOf(m, i) \notin seen
  /\ \A f \in File : disk'[f] = disk[f] \/ Handled(f)

LEMMA FineStays ==
  ASSUME Steady, NEW s \in Side, NEW r \in Seq(Rec), Fine(s, r)
  PROVE  Fine(s, r)'
<1>1. ASSUME NEW x \in Rec, Good(s, x)
      PROVE  Good(s, x)'
  <2>1. x.msg \in Message
    BY DEF Rec
  <2>2. CASE s = "A"
    BY <1>1, <2>1, <2>2 DEF Good, Steady
  <2>3. CASE s = "B"
    <3>1. /\ \A i \in Parts(x.msg) : PartOf(x.msg, i) \in seen
          /\ ~Handled(x.msg) /\ (x.msg \in File => disk[x.msg] = Parts(x.msg))
      BY <1>1, <2>3 DEF Good
    <3>2. \A i \in Parts(x.msg) : PartOf(x.msg, i) \in seen'
      BY <3>1 DEF Steady
    <3>3. ~Handled(x.msg)'
      BY <2>1, <3>1 DEF Steady
    <3>4. x.msg \in File => disk'[x.msg] = Parts(x.msg)
      BY <3>1 DEF Steady
    <3> QED
      BY <2>3, <3>2, <3>3, <3>4 DEF Good
  <2> QED
    BY <2>2, <2>3 DEF Side
<1>2. \A k \in DOMAIN r : r[k] \in Rec
  OBVIOUS
<1> QED
  BY <1>1, <1>2 DEF Fine, Distinct

LEMMA SideStays ==
  ASSUME Types, Steady, NEW s \in Side, FineSide(s), file'[s] \in {file[s], Torn},
         job'[s] = job[s] \/ job'[s].pc # "fill", sweep'[s] = sweep[s] \/ sweep'[s].pc = "idle"
  PROVE  FineSide(s)'
  BY FineStays, JobKinds DEF FineSide

LEMMA IncomingStays ==
  ASSUME Incoming, pending' = pending,
         file'["B"] = file["B"], job'["B"] = job["B"], sweep'["B"] = sweep["B"],
         expired \subseteq expired', excused["B"] \subseteq excused'["B"],
         \A m, i : PartOf(m, i) \in seen' <=> PartOf(m, i) \in seen
  PROVE  Incoming'
<1>1. \A m : Live(m)' => Live(m)
  BY DEF Live
<1>2. Assembling'
  BY DEF Incoming, Assembling
<1>3. \A m : Safe(m)' <=> Safe(m)
  BY DEF Safe
<1>4. \A m, i : Taken(m, i)' <=> Taken(m, i)
  BY DEF Taken
<1>5. NothingLost'
  BY <1>1, <1>3, <1>4 DEF Incoming, NothingLost
<1>6. Overlap'
  BY <1>1 DEF Incoming, Overlap
<1> QED
  BY <1>2, <1>5, <1>6 DEF Incoming

LEMMA EarnedStays ==
  ASSUME Earned, seen \subseteq seen', \A e \in net' : e \in net \/ e.to = "B",
         \/ job'["A"] = job["A"]
         \/ /\ job'["A"].pc # "handle"
            /\ job'["A"].pc = "fill" /\ job'["A"].op = "mark" => PartOf(job'["A"].msg, 1) \in seen',
         \A m \in Message : item'[m] = "delivered" => item[m] = "delivered" \/ PartOf(m, 1) \in seen'
  PROVE  Earned'
  BY DEF Earned

-----------------------------------------------------------------------------
\* Steps of A's transcript, its send goroutines, the clock and the relay.
LEMMA InitHolds == Init => Inv
<1> SUFFICES ASSUME Init PROVE Inv
  OBVIOUS
<1>1. <<>> \in Seq(Rec) /\ <<>> # Torn /\ DOMAIN <<>> = {} /\ Idle.pc = "idle"
  <2>1. <<>> \in Seq(Rec) /\ Idle.pc = "idle"
    BY DEF Idle
  <2>2. DOMAIN <<>> = {}
    OBVIOUS
  <2>3. <<>> # Torn
    BY <2>1, TornIsNoHistory
  <2> QED
    BY <2>1, <2>2, <2>3
<1>2. /\ file = [s \in Side |-> <<>>] /\ job = [s \in Side |-> Idle] /\ sweep = [s \in Side |-> Idle]
      /\ pending = [f \in File |-> {}] /\ disk = [f \in File |-> {}]
      /\ net = {} /\ seen = {} /\ stale = {} /\ expired = {} /\ excused = [s \in Side |-> {}]
      /\ item = [m \in Message |-> "none"]
      /\ send = [m \in Message |-> [pc |-> "unsent", next |-> 1]]
  BY DEF Init
<1>3. \A s \in Side : file[s] = <<>> /\ job[s].pc = "idle" /\ sweep[s].pc = "idle"
  BY <1>1, <1>2
<1>4. Types
  BY <1>1, <1>2, <1>3, Envelopes DEF Types
<1>5. Histories
  BY <1>1, <1>3 DEF Histories, FineSide, Fine, Distinct
<1>6. Earned
  BY <1>2, <1>3 DEF Earned, Side
<1>7. \A f \in File : pending[f] = {} /\ Parts(f) # {}
  BY <1>2, Envelopes
<1>8. Assembling
  BY <1>7 DEF Assembling
<1>9. NothingLost
  BY <1>2 DEF NothingLost
<1>10. Overlap
  BY <1>3 DEF Overlap, Side
<1> QED
  BY <1>4, <1>5, <1>6, <1>8, <1>9, <1>10 DEF Inv, Incoming

LEMMA AsideKeeps ==
  ASSUME Inv, Types', UNCHANGED <<seen, job, sweep, file, pending, disk>>,
         \A m \in Message : send[m].pc = "done" => send'[m].pc = "done",
         \A e \in net' : e \in net \/ e.to = "B",
         expired \subseteq expired', excused["B"] \subseteq excused'["B"],
         \A m \in Message : item'[m] = "delivered" => item[m] = "delivered"
  PROVE  Inv'
<1>1. Steady
  BY DEF Steady, Handled
<1>2. Histories'
  BY <1>1, SideStays DEF Inv, Histories
<1>3. Earned'
  BY EarnedStays DEF Inv
<1>4. Incoming'
  BY IncomingStays DEF Inv
<1> QED
  BY <1>2, <1>3, <1>4 DEF Inv

LEMMA ComposeKeeps ==
  ASSUME Inv, NEW m \in Message, Compose(m) PROVE Inv'
<1>1. send[m].pc = "unsent" /\ Types
  BY DEF Compose, Inv
<1>2. /\ item' = [item EXCEPT ![m] = "pending"] /\ send' = [send EXCEPT ![m].pc = "sending"]
      /\ UNCHANGED <<net, seen, job, sweep, file, pending, stale, disk, expired, excused>>
  BY DEF Compose, Move
<1>3. Types'
  BY <1>1, <1>2 DEF Types
<1> QED
  BY <1>1, <1>2, <1>3, AsideKeeps DEF Types

LEMMA SendPartKeeps ==
  ASSUME Inv, NEW m \in Message, SendPart(m) PROVE Inv'
<1> DEFINE e == PartOf(m, send[m].next)
<1>1. send[m].pc = "sending" /\ Types /\ e \in Envelope /\ e.to = "B"
  <2>1. send[m].pc = "sending" /\ Types
    BY DEF SendPart, Inv
  <2>2. send[m].next \in Parts(m)
    BY <2>1 DEF Types
  <2> QED
    BY <2>1, <2>2, Envelopes
<1>2. /\ net' = net \cup {e}
      /\ UNCHANGED <<item, seen, job, sweep, file, pending, stale, disk, expired, excused>>
  BY DEF SendPart
<1>3. /\ send' \in [Message -> [pc : {"unsent", "sending", "sent", "failed", "done"}, next : Nat]]
      /\ \A n \in Message : send'[n].pc # "done" => send'[n].next \in Parts(n)
      /\ \A n \in Message : send[n].pc = "done" => send'[n].pc = "done"
  <2>1. /\ send[m].next + 1 \in Parts(m) =>
              send' = [send EXCEPT ![m] = [pc |-> "sending", next |-> send[m].next + 1]]
        /\ send[m].next + 1 \notin Parts(m) =>
              send' = [send EXCEPT ![m] = [pc |-> "sent", next |-> send[m].next]]
    BY DEF SendPart
  <2>2. send[m].next \in Parts(m) /\ Parts(m) \subseteq Nat
    BY <1>1, Envelopes DEF Types
  <2>3. \E x \in [pc : {"sending", "sent"}, next : Parts(m)] : send' = [send EXCEPT ![m] = x]
    BY <2>1, <2>2
  <2> QED
    BY <1>1, <2>2, <2>3 DEF Types
<1> HIDE DEF e
<1>4. Types'
  BY <1>1, <1>2, <1>3 DEF Types
<1> QED
  BY <1>1, <1>2, <1>3, <1>4, AsideKeeps

LEMMA SendEndsKeeps ==
  ASSUME Inv, NEW m \in Message, SendFails(m) \/ HandleSendError(m) PROVE Inv'
<1>1. Types /\ send[m].pc # "done"
  BY DEF SendFails, HandleSendError, Inv
<1>2. UNCHANGED <<net, seen, job, sweep, file, pending, stale, disk, expired, excused>>
  BY DEF SendFails, HandleSendError
<1>3. \E pc \in {"failed", "done"} : send' = [send EXCEPT ![m].pc = pc]
  BY DEF SendFails, HandleSendError, Move
<1>4. item' = item \/ item' = [item EXCEPT ![m] = "failed"]
  BY DEF SendFails, HandleSendError
<1>5. /\ send' \in [Message -> [pc : {"unsent", "sending", "sent", "failed", "done"}, next : Nat]]
      /\ \A n \in Message : send'[n].pc # "done" => send'[n].next \in Parts(n)
      /\ \A n \in Message : send[n].pc = "done" => send'[n].pc = "done"
  BY <1>1, <1>3 DEF Types
<1>6. /\ item' \in [Message -> {"none", "pending", "sent", "failed", "delivered"}]
      /\ \A n \in Message : item'[n] = "delivered" => item[n] = "delivered"
  BY <1>1, <1>4 DEF Types
<1>7. Types'
  BY <1>1, <1>2, <1>5, <1>6 DEF Types
<1> QED
  BY <1>1, <1>2, <1>5, <1>6, <1>7, AsideKeeps

LEMMA TranscriptKeeps ==
  ASSUME Inv, PurgeTranscript PROVE Inv'
<1>1. Types
  BY DEF Inv
<1>2. /\ UNCHANGED <<send, net, seen, job, sweep, file, pending, stale, disk, expired, excused>>
      /\ item' = [m \in Message |-> IF m \in expired THEN "none" ELSE item[m]]
  BY DEF PurgeTranscript
<1>3. Types'
  BY <1>1, <1>2 DEF Types
<1> QED
  BY <1>2, <1>3, AsideKeeps

LEMMA ClockKeeps ==
  ASSUME Inv, (\E m \in Message : Expire(m)) \/ (\E f \in File : Quiet(f)) PROVE Inv'
<1>1. Types
  BY DEF Inv
<1>2. /\ UNCHANGED <<item, send, net, seen, job, sweep, file, pending, disk, excused>>
      /\ expired \subseteq expired' /\ expired' \subseteq Message /\ stale' \subseteq File
  BY <1>1 DEF Expire, Quiet, Types
<1>3. Types'
  BY <1>1, <1>2 DEF Types
<1> QED
  BY <1>2, <1>3, AsideKeeps

LEMMA LoseKeeps ==
  ASSUME Inv, NEW e \in net, Lose(e) PROVE Inv'
<1>1. Types /\ e.to \in Side /\ e.msg \in Message
  BY Envelopes DEF Inv, Types
<1>2. /\ UNCHANGED <<item, send, seen, job, sweep, file, pending, stale, disk, expired>>
      /\ net' \subseteq net /\ excused' = [excused EXCEPT ![e.to] = @ \cup {e.msg}]
  BY DEF Lose, Excuse
<1>3. excused' \in [Side -> SUBSET Message] /\ excused["B"] \subseteq excused'["B"]
  BY <1>1, <1>2 DEF Types, Side
<1>4. Types'
  BY <1>1, <1>2, <1>3 DEF Types
<1> QED
  BY <1>2, <1>3, <1>4, AsideKeeps

-----------------------------------------------------------------------------
\* AppendHistory and MarkHistoryDelivered.
LEMMA Rewriting ==
  ASSUME Types, NEW s \in Side, NEW m \in Message, NEW op \in {"save", "mark"},
         NEW also \in SUBSET Message, Rewrite(s, op, m, also)
  PROVE  /\ job' \in [Side -> {Idle} \cup HandleJob \cup FillJob]
         /\ file' \in [Side -> Seq(Rec) \cup {Torn}]
         /\ excused' \in [Side -> SUBSET Message]
         /\ excused["B"] \subseteq excused'["B"] /\ also \subseteq excused'[s]
         /\ \A t \in Side \ {s} : job'[t] = job[t] /\ file'[t] = file[t] /\ excused'[t] = excused[t]
         /\ \/ /\ file[s] # Torn /\ file'[s] = Torn /\ job'[s].pc = "fill"
               /\ job'[s].op = op /\ job'[s].msg = m
               /\ job'[s].records = Rewritten(Unexpired(file[s]), op, m)
            \/ file'[s] = file[s] /\ job'[s] = Idle /\ m \in excused'[s]
<1> DEFINE w == Rewritten(Unexpired(file[s]), op, m)
           j == [pc |-> "fill", op |-> op, msg |-> m, records |-> w]
<1>1. CASE /\ file[s] # Torn /\ job' = [job EXCEPT ![s] = j]
           /\ file' = [file EXCEPT ![s] = Torn] /\ Excuse(s, also)
  <2>1. file[s] \in Seq(Rec)
    BY <1>1, JobKinds
  <2>2. Unexpired(file[s]) \in Seq(Rec)
    BY <2>1, UnexpiredKeeps
  <2>3. w \in Seq(Rec)
    <3>1. CASE op = "save"
      BY <2>2, <3>1, SavedHolds
    <3>2. CASE op = "mark"
      BY <2>2, <3>2, MarkedHolds
    <3> QED
      BY <3>1, <3>2
  <2> HIDE DEF w
  <2>4. j \in FillJob
    BY <2>3 DEF FillJob
  <2>5. j.pc = "fill" /\ j.op = op /\ j.msg = m /\ j.records = w
    OBVIOUS
  <2> HIDE DEF j
  <2>6. excused' = [excused EXCEPT ![s] = @ \cup also]
    BY <1>1 DEF Excuse
  <2>7. /\ excused' \in [Side -> SUBSET Message] /\ excused["B"] \subseteq excused'["B"]
        /\ also \subseteq excused'[s] /\ \A t \in Side \ {s} : excused'[t] = excused[t]
    BY <2>6 DEF Types, Side
  <2>8. /\ job' \in [Side -> {Idle} \cup HandleJob \cup FillJob] /\ job'[s] = j
        /\ \A t \in Side \ {s} : job'[t] = job[t]
    BY <1>1, <2>4 DEF Types
  <2>9. /\ file' \in [Side -> Seq(Rec) \cup {Torn}] /\ file'[s] = Torn
        /\ \A t \in Side \ {s} : file'[t] = file[t]
    BY <1>1 DEF Types
  <2> QED
    BY <1>1, <2>5, <2>7, <2>8, <2>9 DEF w
<1>2. CASE job' = [job EXCEPT ![s] = Idle] /\ Excuse(s, also \cup {m}) /\ file' = file
  <2>1. excused' = [excused EXCEPT ![s] = @ \cup (also \cup {m})]
    BY <1>2 DEF Excuse
  <2>2. /\ excused' \in [Side -> SUBSET Message] /\ excused["B"] \subseteq excused'["B"]
        /\ also \cup {m} \subseteq excused'[s] /\ \A t \in Side \ {s} : excused'[t] = excused[t]
    BY <2>1 DEF Types, Side
  <2>3. /\ job' \in [Side -> {Idle} \cup HandleJob \cup FillJob] /\ job'[s] = Idle
        /\ \A t \in Side \ {s} : job'[t] = job[t]
    BY <1>2 DEF Types
  <2> QED
    BY <1>2, <2>2, <2>3 DEF Types
<1> QED
  BY <1>1, <1>2 DEF Rewrite

LEMMA RewrittenFine ==
  ASSUME Inv, Steady, NEW s \in Side, NEW m \in Message, NEW op \in {"save", "mark"},
         file[s] # Torn,
         op = "save" => Good(s, Record(m, FALSE))' /\ \A x \in Rec : Good(s, x) => x.msg # m,
         op = "mark" => s = "A" /\ PartOf(m, 1) \in seen
  PROVE  \E w \in Seq(Rec) :
            /\ w = Rewritten(Unexpired(file[s]), op, m) /\ Fine(s, w)'
            /\ op = "save" => Holds(w, m)
            /\ \A n \in Message \ expired : Holds(file[s], n) => Holds(w, n)
<1>1. file[s] \in Seq(Rec) /\ Fine(s, file[s])
  BY JobKinds DEF Inv, Histories, FineSide
<1>2. PICK u \in Seq(Rec) :
        /\ u = Unexpired(file[s]) /\ Distinct(u)
        /\ \A i \in DOMAIN u : \E k \in DOMAIN file[s] : u[i] = file[s][k]
        /\ \A k \in DOMAIN file[s] : file[s][k].msg \notin expired =>
              \E i \in DOMAIN u : u[i] = file[s][k]
  BY <1>1, UnexpiredKeeps DEF Fine
<1>3. Fine(s, u) /\ \A k \in DOMAIN u : u[k] \in Rec /\ Good(s, u[k])
  BY <1>1, <1>2 DEF Fine
<1>4. \A n \in Message \ expired : Holds(file[s], n) => Holds(u, n)
  BY <1>1, <1>2, TornIsNoHistory DEF Holds
<1>5. op = "save" => ~Holds(u, m)
  BY <1>3 DEF Holds
<1>6. PICK w \in Seq(Rec) :
      /\ w = Rewritten(u, op, m) /\ Distinct(w)
      /\ \A n : Holds(u, n) => Holds(w, n)
      /\ op = "save" => Holds(w, m) /\ \A k \in DOMAIN w : w[k] = Record(m, FALSE)
                                             \/ \E j \in DOMAIN u : w[k] = u[j]
      /\ op = "mark" => DOMAIN w = DOMAIN u /\ \A k \in DOMAIN u :
                           w[k] = u[k] \/ (w[k] = Record(m, TRUE) /\ u[k].msg = m)
  <2>1. CASE op = "save"
    <3>1. PICK w \in Seq(Rec) :
            /\ w = Rewritten(u, "save", m) /\ Holds(w, m)
            /\ \A k \in DOMAIN w : w[k] = Record(m, FALSE) \/ \E j \in DOMAIN u : w[k] = u[j]
            /\ Distinct(u) /\ ~Holds(u, m) => Distinct(w)
            /\ \A n : Holds(u, n) => Holds(w, n)
      BY <1>2, SavedHolds
    <3> QED
      BY <1>2, <1>5, <2>1, <3>1
  <2>2. CASE op = "mark"
    <3>1. PICK w \in Seq(Rec) :
            /\ w = Rewritten(u, "mark", m) /\ DOMAIN w = DOMAIN u
            /\ \A k \in DOMAIN u : w[k] = u[k] \/ (w[k] = Record(m, TRUE) /\ u[k].msg = m)
            /\ Distinct(u) => Distinct(w)
            /\ \A n : Holds(u, n) => Holds(w, n)
      BY <1>2, MarkedHolds
    <3> QED
      BY <1>2, <2>2, <3>1
  <2> QED
    BY <2>1, <2>2
<1>7. \A k \in DOMAIN u : Good(s, u[k])'
  BY <1>2, <1>3, FineStays DEF Fine
<1>8. ASSUME NEW k \in DOMAIN w PROVE Good(s, w[k])'
  <2>1. CASE op = "save"
    BY <1>6, <1>7, <1>8, <2>1
  <2>2. CASE op = "mark"
    <3>1. k \in DOMAIN u
      BY <1>6, <1>8, <2>2
    <3>2. CASE w[k] = u[k]
      BY <1>7, <3>1, <3>2
    <3>3. CASE w[k] = Record(m, TRUE) /\ u[k].msg = m
      <4>1. send'[m].pc = "done" /\ PartOf(m, 1) \in seen'
        BY <1>3, <2>2, <3>1, <3>3 DEF Good, Steady
      <4>2. w[k].msg = m
        BY <3>3 DEF Record
      <4> QED
        BY <2>2, <4>1, <4>2 DEF Good
    <3> QED
      BY <1>6, <2>2, <3>1, <3>2, <3>3
  <2> QED
    BY <2>1, <2>2
<1>9. Fine(s, w)'
  BY <1>6, <1>8 DEF Fine, Distinct
<1> QED
  BY <1>2, <1>4, <1>6, <1>9

\* A records what its goroutine has sent.
LEMMA HandleSendResultKeeps ==
  ASSUME Inv, NEW m \in Message, HandleSendResult(m) PROVE Inv'
<1>1. Types /\ send[m].pc = "sent" /\ job["A"] = Idle /\ Rewrite("A", "save", m, {})
      /\ send' = [send EXCEPT ![m].pc = "done"]
      /\ UNCHANGED <<item, net, seen, sweep, pending, stale, disk, expired>>
      /\ "A" \in Side /\ "B" \in Side /\ Idle.pc = "idle"
  BY DEF HandleSendResult, Move, Inv, Side, Idle
<1>2. /\ job' \in [Side -> {Idle} \cup HandleJob \cup FillJob]
      /\ file' \in [Side -> Seq(Rec) \cup {Torn}]
      /\ excused' \in [Side -> SUBSET Message] /\ excused["B"] \subseteq excused'["B"]
      /\ \A t \in Side \ {"A"} : job'[t] = job[t] /\ file'[t] = file[t] /\ excused'[t] = excused[t]
      /\ \/ /\ file["A"] # Torn /\ file'["A"] = Torn /\ job'["A"].pc = "fill"
            /\ job'["A"].op = "save" /\ job'["A"].msg = m
            /\ job'["A"].records = Rewritten(Unexpired(file["A"]), "save", m)
         \/ file'["A"] = file["A"] /\ job'["A"] = Idle /\ m \in excused'["A"]
  BY <1>1, Rewriting
<1>3. /\ send' \in [Message -> [pc : {"unsent", "sending", "sent", "failed", "done"}, next : Nat]]
      /\ send'[m].pc = "done" /\ \A n \in Message : n # m => send'[n] = send[n]
  BY <1>1 DEF Types
<1>4. job'["B"] = job["B"] /\ file'["B"] = file["B"] /\ sweep' = sweep /\ seen' = seen
  BY <1>1, <1>2
<1>5. Types'
  <2>1. \A s \in Side : job'[s].pc = "handle" => job'[s].env.to = s /\ job'[s].env \in seen'
    BY <1>1, <1>2, <1>4 DEF Types, Side
  <2>2. \A n \in Message : send'[n].pc # "done" => send'[n].next \in Parts(n)
    BY <1>1, <1>3 DEF Types
  <2> QED
    BY <1>1, <1>2, <1>3, <2>1, <2>2 DEF Types
<1>6. Steady
  BY <1>1, <1>3, <1>4 DEF Steady, Handled
<1>7. FineSide("B")'
  BY <1>1, <1>4, <1>6, SideStays DEF Inv, Histories
<1>8. FineSide("A")'
  <2>1. CASE file'["A"] = file["A"] /\ job'["A"] = Idle
    BY <1>1, <1>6, <2>1, SideStays DEF Inv, Histories
  <2>2. CASE /\ file["A"] # Torn /\ file'["A"] = Torn /\ job'["A"].pc = "fill"
             /\ job'["A"].records = Rewritten(Unexpired(file["A"]), "save", m)
    <3>1. Good("A", Record(m, FALSE))'
      BY <1>3 DEF Good, Record
    <3>2. \A x \in Rec : Good("A", x) => x.msg # m
      BY <1>1 DEF Good
    <3>3. Fine("A", job["A"].records)'
      BY <1>1, <1>6, <2>2, <3>1, <3>2, RewrittenFine
    <3>4. sweep["A"].pc \in {"write", "fill"} => Fine("A", sweep["A"].records)'
      BY <1>1, <1>6, JobKinds, FineStays DEF Inv, Histories, FineSide
    <3> QED
      BY <1>4, <2>2, <3>3, <3>4 DEF FineSide
  <2> QED
    BY <1>2, <2>1, <2>2
<1>9. Earned'
  BY <1>1, <1>2, EarnedStays DEF Inv
<1>10. Incoming'
  BY <1>1, <1>2, <1>4, IncomingStays DEF Inv
<1> QED
  BY <1>5, <1>7, <1>8, <1>9, <1>10 DEF Inv, Histories, Side

\* What the transcript shows as delivered was taken.
LEMMA RebuiltIsEarned ==
  ASSUME Types, NEW r, r = Torn \/ (r \in Seq(Rec) /\ Fine("A", r))
  PROVE  /\ Rebuilt(r) \in [Message -> {"none", "pending", "sent", "failed", "delivered"}]
         /\ \A n \in Message : Rebuilt(r)[n] = "delivered" => PartOf(n, 1) \in seen
<1>1. Rebuilt(r) \in [Message -> {"none", "pending", "sent", "failed", "delivered"}]
  BY DEF Rebuilt
<1>2. ASSUME NEW n \in Message, Rebuilt(r)[n] = "delivered" PROVE PartOf(n, 1) \in seen
  <2>1. Holds(r, n) /\ \E k \in DOMAIN r : r[k] = Record(n, TRUE)
    BY <1>2 DEF Rebuilt
  <2>2. PICK k \in DOMAIN r : r[k] = Record(n, TRUE)
    BY <2>1
  <2>3. Good("A", r[k])
    BY <2>1, <2>2 DEF Fine, Holds
  <2>4. r[k].msg = n /\ r[k].delivered
    BY <2>2 DEF Record
  <2> QED
    BY <2>3, <2>4 DEF Good
<1> QED
  BY <1>1, <1>2

LEMMA StatusIsEarned ==
  ASSUME Types, NEW m \in Message, NEW status \in {"sent", "delivered"}, NEW r,
         r = Torn \/ (r \in Seq(Rec) /\ Fine("A", r)),
         status = "delivered" => PartOf(m, 1) \in seen
  PROVE  LET shown == WithStatus(m, status, r)
         IN  /\ shown \in [Message -> {"none", "pending", "sent", "failed", "delivered"}]
             /\ \A n \in Message : shown[n] = "delivered" => item[n] = "delivered" \/ PartOf(n, 1) \in seen
<1>1. CASE m \in Text /\ item[m] # "none"
  BY <1>1 DEF WithStatus, Types
<1>2. CASE ~(m \in Text /\ item[m] # "none")
  BY <1>2, RebuiltIsEarned DEF WithStatus
<1> QED
  BY <1>1, <1>2

\* The ack: A marks the record that it finds.
LEMMA HandleAckKeeps ==
  ASSUME Inv, HandleAck PROVE Inv'
<1> DEFINE m == job["A"].env.msg
           recorded == Holds(file["A"], m) /\ m \notin expired
<1>1. /\ Types /\ job["A"].pc = "handle"
      /\ UNCHANGED <<send, net, seen, sweep, pending, stale, disk, expired>>
      /\ "A" \in Side /\ "B" \in Side /\ Idle.pc = "idle"
  BY DEF HandleAck, Handles, Inv, Side, Idle
<1>2. m \in Message /\ PartOf(m, 1) \in seen
  BY <1>1, JobKinds, Envelopes DEF Inv, Earned
<1>3. \/ (recorded \/ file["A"] = Torn) /\ Rewrite("A", "mark", m, {}) /\ item' = item
      \/ /\ ~recorded /\ file["A"] # Torn /\ job' = [job EXCEPT !["A"] = Idle]
         /\ item' = WithStatus(m, "delivered", file["A"]) /\ UNCHANGED <<file, excused>>
  BY DEF HandleAck
<1> HIDE DEF m, recorded
<1>4. /\ job' \in [Side -> {Idle} \cup HandleJob \cup FillJob]
      /\ file' \in [Side -> Seq(Rec) \cup {Torn}]
      /\ excused' \in [Side -> SUBSET Message] /\ excused["B"] \subseteq excused'["B"]
      /\ job'["B"] = job["B"] /\ file'["B"] = file["B"]
      /\ \/ /\ file["A"] # Torn /\ file'["A"] = Torn /\ job'["A"].pc = "fill"
            /\ job'["A"].op = "mark" /\ job'["A"].msg = m
            /\ job'["A"].records = Rewritten(Unexpired(file["A"]), "mark", m)
         \/ file'["A"] = file["A"] /\ job'["A"] = Idle
  <2>1. CASE Rewrite("A", "mark", m, {})
    BY <1>1, <1>2, <2>1, Rewriting
  <2>2. CASE job' = [job EXCEPT !["A"] = Idle] /\ UNCHANGED <<file, excused>>
    BY <1>1, <2>2 DEF Types
  <2> QED
    BY <1>3, <2>1, <2>2
<1>5. /\ item' \in [Message -> {"none", "pending", "sent", "failed", "delivered"}]
      /\ \A n \in Message : item'[n] = "delivered" => item[n] = "delivered" \/ PartOf(n, 1) \in seen
  <2>1. CASE item' = item
    BY <1>1, <2>1 DEF Types
  <2>2. CASE item' = WithStatus(m, "delivered", file["A"]) /\ file["A"] # Torn
    <3>1. Fine("A", file["A"]) /\ file["A"] \in Seq(Rec)
      BY <1>1, <2>2, JobKinds DEF Inv, Histories, FineSide
    <3> QED
      BY <1>1, <1>2, <2>2, <3>1, StatusIsEarned
  <2> QED
    BY <1>3, <2>1, <2>2
<1>6. Types'
  <2>1. \A s \in Side : job'[s].pc = "handle" => job'[s].env.to = s /\ job'[s].env \in seen'
    BY <1>1, <1>4 DEF Types, Side
  <2> QED
    BY <1>1, <1>4, <1>5, <2>1 DEF Types
<1>7. Steady
  BY <1>1, <1>4 DEF Steady, Handled
<1>8. FineSide("B")'
  BY <1>1, <1>4, <1>7, SideStays DEF Inv, Histories
<1>9. FineSide("A")'
  <2>1. CASE file'["A"] = file["A"] /\ job'["A"] = Idle
    BY <1>1, <1>7, <2>1, SideStays DEF Inv, Histories
  <2>2. CASE /\ file["A"] # Torn /\ file'["A"] = Torn /\ job'["A"].pc = "fill"
             /\ job'["A"].records = Rewritten(Unexpired(file["A"]), "mark", m)
    <3>1. Fine("A", job["A"].records)'
      BY <1>1, <1>2, <1>7, <2>2, RewrittenFine
    <3>2. sweep["A"].pc \in {"write", "fill"} => Fine("A", sweep["A"].records)'
      BY <1>1, <1>7, JobKinds, FineStays DEF Inv, Histories, FineSide
    <3> QED
      BY <1>1, <2>2, <3>1, <3>2 DEF FineSide
  <2> QED
    BY <1>4, <2>1, <2>2
<1>10. Earned'
  BY <1>1, <1>2, <1>4, <1>5, EarnedStays DEF Inv
<1>11. Incoming'
  BY <1>1, <1>4, IncomingStays DEF Inv
<1> QED
  BY <1>6, <1>8, <1>9, <1>10, <1>11 DEF Inv, Histories, Side

\* The write itself, at A.
LEMMA FillAtAKeeps ==
  ASSUME Inv, Fill("A") PROVE Inv'
<1> DEFINE w == job["A"].records
<1>1. /\ Types /\ job["A"].pc = "fill" /\ Filled("A", w)
      /\ job' = [job EXCEPT !["A"] = Idle]
      /\ UNCHANGED <<send, net, seen, sweep, pending, stale, disk, expired>>
      /\ "A" \in Side /\ "B" \in Side /\ Idle.pc = "idle" /\ "A" # "B"
  BY DEF Fill, Inv, Side, Idle
<1>2. w \in Seq(Rec) /\ Fine("A", w)
  BY <1>1, JobKinds DEF Inv, Histories, FineSide
<1>3. /\ file' \in [Side -> Seq(Rec) \cup {Torn}] /\ file'["B"] = file["B"]
      /\ file'["A"] \in {w, Torn}
  BY <1>1, <1>2 DEF Filled, Types
<1>4. /\ job' \in [Side -> {Idle} \cup HandleJob \cup FillJob]
      /\ job'["A"] = Idle /\ job'["B"] = job["B"]
  BY <1>1 DEF Types
<1>5. excused' \in [Side -> SUBSET Message] /\ excused["B"] \subseteq excused'["B"]
  BY <1>1 DEF Fill, Excuse, Types
<1>6. Steady
  BY <1>1, <1>4 DEF Steady, Handled
<1>7. file'["A"] # Torn => Fine("A", file["A"])'
  BY <1>1, <1>2, <1>3, <1>6, FineStays
<1>8. /\ item' \in [Message -> {"none", "pending", "sent", "failed", "delivered"}]
      /\ \A n \in Message : item'[n] = "delivered" => item[n] = "delivered" \/ PartOf(n, 1) \in seen
  <2>1. item' = WithStatus(job["A"].msg, IF job["A"].op = "save" THEN "sent" ELSE "delivered", file'["A"])
    BY DEF Fill
  <2>2. job["A"].msg \in Message /\ job["A"].op \in {"save", "mark"}
        /\ (job["A"].op = "mark" => PartOf(job["A"].msg, 1) \in seen)
    BY <1>1, JobKinds DEF Inv, Earned
  <2>3. file'["A"] = Torn \/ (file'["A"] \in Seq(Rec) /\ Fine("A", file'["A"]))
    BY <1>2, <1>3
  <2> QED
    BY <1>1, <2>1, <2>2, <2>3, StatusIsEarned
<1>9. Types'
  <2>1. \A s \in Side : job'[s].pc = "handle" => job'[s].env.to = s /\ job'[s].env \in seen'
    BY <1>1, <1>4 DEF Types, Side
  <2> QED
    BY <1>1, <1>3, <1>4, <1>5, <1>8, <2>1 DEF Types
<1>10. FineSide("B")'
  BY <1>1, <1>3, <1>4, <1>6, SideStays DEF Inv, Histories
<1>11. FineSide("A")'
  <2>1. sweep["A"].pc \in {"write", "fill"} => Fine("A", sweep["A"].records)'
    BY <1>1, <1>6, JobKinds, FineStays DEF Inv, Histories, FineSide
  <2> QED
    BY <1>1, <1>4, <1>7, <2>1 DEF FineSide
<1>12. Earned'
  BY <1>1, <1>4, <1>8, EarnedStays DEF Inv
<1>13. Incoming'
  BY <1>1, <1>3, <1>4, <1>5, IncomingStays DEF Inv
<1> QED
  BY <1>9, <1>10, <1>11, <1>12, <1>13 DEF Inv, Histories, Side

-----------------------------------------------------------------------------
\* B takes a part, and what it makes of it.
Held(m, i) == PartOf(m, i) \in seen => Taken(m, i) \/ (m \in File /\ i \in pending[m])

LEMMA HandlingStays ==
  ASSUME Incoming, job["B"].pc # "fill", job'["B"].pc # "fill",
         file'["B"] = file["B"], sweep'["B"] = sweep["B"],
         expired \subseteq expired', excused["B"] \subseteq excused'["B"], Assembling',
         \A m : Live(m)' => \A i \in Parts(m) : Held(m, i) => Held(m, i)'
  PROVE  Incoming'
<1>1. \A m : Live(m)' => Live(m)
  BY DEF Live
<1>2. \A m : Safe(m) => Safe(m)'
  BY DEF Safe
<1>3. \A m : Live(m) => Safe(m) \/ \A i \in Parts(m) : Held(m, i)
  BY DEF Incoming, NothingLost, Held
<1>4. \A m : Live(m)' => Safe(m)' \/ \A i \in Parts(m) : Held(m, i)'
  BY <1>1, <1>2, <1>3
<1>5. NothingLost'
  BY <1>4 DEF NothingLost, Held
<1>6. Overlap'
  BY <1>1 DEF Incoming, Overlap
<1> QED
  BY <1>5, <1>6 DEF Incoming

LEMMA SavingStays ==
  ASSUME Incoming, job["B"].pc = "handle", file["B"] # Torn, job'["B"].pc = "fill",
         file'["B"] = Torn, sweep'["B"] = sweep["B"], expired' = expired,
         excused["B"] \subseteq excused'["B"], Assembling', NEW m0 \in Message,
         Holds(job'["B"].records, m0),
         \A n \in Message \ expired : Holds(file["B"], n) => Holds(job'["B"].records, n),
         \A m : Live(m)' /\ m # m0 => \A i \in Parts(m) : Held(m, i) => Held(m, i)'
  PROVE  Incoming'
<1>1. \A m : Live(m)' => Live(m) /\ m \in Message \ expired
  BY DEF Live
<1>2. \A m : Live(m)' /\ Safe(m) => Safe(m)'
  BY <1>1 DEF Safe
<1>3. \A m : Live(m) => Safe(m) \/ \A i \in Parts(m) : Held(m, i)
  BY DEF Incoming, NothingLost, Held
<1>4. Safe(m0)'
  BY DEF Safe
<1>5. \A m : Live(m)' => Safe(m)' \/ \A i \in Parts(m) : Held(m, i)'
  BY <1>1, <1>2, <1>3, <1>4
<1>6. NothingLost'
  BY <1>5 DEF NothingLost, Held
<1>7. Overlap'
  <2>1. \A m : ~Holds(Torn, m)
    BY DEF Holds
  <2>2. ASSUME NEW m, Live(m)', sweep["B"].pc # "idle", Holds(sweep["B"].records, m)
        PROVE  Holds(job'["B"].records, m)
    BY <1>1, <2>2 DEF Incoming, Overlap
  <2> QED
    BY <2>1, <2>2 DEF Overlap
<1> QED
  BY <1>6, <1>7 DEF Incoming

LEMMA ReceiveKeeps ==
  ASSUME Inv, NEW e \in net, Receive(e) PROVE Inv'
<1>1. /\ Types /\ e \in Envelope /\ job[e.to] = Idle /\ net' \subseteq net
      /\ UNCHANGED <<item, send, sweep, file, pending, stale, disk, expired, excused>>
      /\ Idle.pc = "idle" /\ "A" \in Side /\ "B" \in Side
  BY DEF Receive, Inv, Types, Idle, Side
<1>2. /\ e.to \in Side /\ e.msg \in Message
      /\ e.to = "B" => e = PartOf(e.msg, e.part) /\ e.part \in Parts(e.msg)
  BY <1>1, Envelopes
<1>3. CASE UNCHANGED <<seen, job>>
  <2>1. Types'
    BY <1>1, <1>3 DEF Types
  <2> QED
    BY <1>1, <1>3, <2>1, AsideKeeps
<1>4. CASE /\ e \notin seen /\ seen' = seen \cup {e}
           /\ job' = [job EXCEPT ![e.to] = [pc |-> "handle", env |-> e]]
  <2> DEFINE j == [pc |-> "handle", env |-> e]
  <2>1. j \in HandleJob /\ j.pc = "handle" /\ j.env = e
    BY <1>1 DEF HandleJob
  <2> HIDE DEF j
  <2>2. /\ job' \in [Side -> {Idle} \cup HandleJob \cup FillJob]
        /\ job'[e.to] = j /\ \A t \in Side \ {e.to} : job'[t] = job[t]
    BY <1>1, <1>2, <1>4, <2>1 DEF Types, j
  <2>3. Types'
    <3>1. \A s \in Side : job'[s].pc = "handle" => job'[s].env.to = s /\ job'[s].env \in seen'
      BY <1>1, <1>4, <2>1, <2>2 DEF Types
    <3>2. seen' \subseteq Envelope /\ net' \subseteq Envelope
      BY <1>1, <1>4 DEF Types
    <3> QED
      BY <1>1, <2>2, <3>1, <3>2 DEF Types
  <2>4. Steady
    <3>1. ASSUME NEW m \in Message, Handled(m)'
          PROVE  Handled(m) \/ \E i \in Parts(m) : PartOf(m, i) \notin seen
      <4>1. CASE e.to = "B"
        BY <1>2, <1>4, <2>1, <2>2, <3>1, <4>1 DEF Handled
      <4>2. CASE e.to # "B"
        BY <1>1, <2>2, <3>1, <4>2 DEF Handled
      <4> QED
        BY <4>1, <4>2
    <3> QED
      BY <1>1, <1>4, <3>1 DEF Steady
  <2>5. Histories'
    <3>1. \A s \in Side : job'[s] = job[s] \/ job'[s].pc # "fill"
      BY <1>1, <2>1, <2>2
    <3> QED
      BY <1>1, <2>4, <3>1, SideStays DEF Inv, Histories
  <2>6. Earned'
    <3>1. CASE e.to = "A"
      <4>1. PartOf(e.msg, 1) \in seen
        BY <3>1 DEF Inv, Earned
      <4> QED
        BY <1>1, <1>4, <2>1, <2>2, <3>1, <4>1 DEF Inv, Earned
    <3>2. CASE e.to # "A"
      BY <1>1, <1>4, <2>2, <3>2, EarnedStays DEF Inv
    <3> QED
      BY <3>1, <3>2
  <2>7. Incoming'
    <3>1. CASE e.to = "B"
      <4>1. job["B"].pc # "fill" /\ job'["B"].pc # "fill" /\ job["B"].pc # "handle"
        BY <1>1, <2>1, <2>2, <3>1
      <4>2. Assembling'
        BY <1>1, <1>4 DEF Inv, Incoming, Assembling
      <4>3. \A m, i : Held(m, i) => Held(m, i)'
        <5>1. \A m, i : PartOf(m, i) = e => Taken(m, i)'
          BY <2>1, <2>2, <3>1 DEF Taken
        <5> QED
          BY <1>1, <1>4, <4>1, <5>1 DEF Held, Taken
      <4> QED
        BY <1>1, <4>1, <4>2, <4>3, HandlingStays DEF Inv
    <3>2. CASE e.to # "B"
      <4>1. \A m, i : PartOf(m, i) # e
        BY <3>2, Envelopes
      <4> QED
        BY <1>1, <1>4, <2>2, <3>2, <4>1, IncomingStays DEF Inv
    <3> QED
      BY <3>1, <3>2
  <2> QED
    BY <2>3, <2>5, <2>6, <2>7 DEF Inv
<1> QED
  BY <1>3, <1>4 DEF Receive

LEMMA RefuseKeeps ==
  ASSUME Inv, NEW s \in Side, Refuse(s) PROVE Inv'
<1>1. /\ Types /\ job[s].pc = "handle" /\ job' = [job EXCEPT ![s] = Idle]
      /\ excused' = [excused EXCEPT ![s] = @ \cup {job[s].env.msg}]
      /\ UNCHANGED <<item, send, net, seen, sweep, file, pending, stale, disk, expired>>
      /\ Idle.pc = "idle" /\ "A" \in Side /\ "B" \in Side
  BY DEF Refuse, Handles, Excuse, Inv, Idle, Side
<1>2. job[s].env.msg \in Message
  BY <1>1, JobKinds, Envelopes
<1>3. /\ job' \in [Side -> {Idle} \cup HandleJob \cup FillJob]
      /\ job'[s] = Idle /\ \A t \in Side \ {s} : job'[t] = job[t]
  BY <1>1 DEF Types
<1>4. /\ excused' \in [Side -> SUBSET Message] /\ excused["B"] \subseteq excused'["B"]
      /\ job[s].env.msg \in excused'[s]
  BY <1>1, <1>2 DEF Types
<1>5. Types'
  <2>1. \A t \in Side : job'[t].pc = "handle" => job'[t].env.to = t /\ job'[t].env \in seen'
    BY <1>1, <1>3 DEF Types
  <2> QED
    BY <1>1, <1>3, <1>4, <2>1 DEF Types
<1>6. Steady
  BY <1>1, <1>3 DEF Steady, Handled
<1>7. Histories'
  <2>1. \A t \in Side : job'[t] = job[t] \/ job'[t].pc # "fill"
    BY <1>1, <1>3
  <2> QED
    BY <1>1, <1>6, <2>1, SideStays DEF Inv, Histories
<1>8. Earned'
  <2>1. job'["A"] = job["A"] \/ job'["A"].pc = "idle"
    BY <1>1, <1>3
  <2> QED
    BY <1>1, <2>1, EarnedStays DEF Inv
<1>9. Incoming'
  <2>1. CASE s = "B"
    <3>1. Assembling'
      BY <1>1, <1>4 DEF Inv, Incoming, Assembling
    <3>2. \A m : Live(m)' => \A i \in Parts(m) : Held(m, i) => Held(m, i)'
      <4>1. \A m, i : Taken(m, i) => m \in excused'["B"]
        BY <1>4, <2>1, Envelopes DEF Taken
      <4> QED
        BY <1>1, <4>1 DEF Held, Live
    <3> QED
      BY <1>1, <1>3, <1>4, <2>1, <3>1, <3>2, HandlingStays DEF Inv
  <2>2. CASE s # "B"
    BY <1>1, <1>3, <1>4, <2>2, IncomingStays DEF Inv
  <2> QED
    BY <2>1, <2>2
<1> QED
  BY <1>5, <1>7, <1>8, <1>9 DEF Inv

\* B records a message that came whole.
LEMMA SavingKeeps ==
  ASSUME Inv, job["B"].pc = "handle", NEW m, m = job["B"].env.msg, NEW also \in SUBSET Message,
         Rewrite("B", "save", m, also), UNCHANGED <<item, send, seen, sweep, expired>>,
         net' \subseteq Envelope, \A e \in net' : e.to = "A" => PartOf(e.msg, 1) \in seen,
         pending' \in [File -> SUBSET Nat], stale' \subseteq File, disk' \in [File -> SUBSET Nat],
         \A i \in Parts(m) : PartOf(m, i) \in seen, m \in File => disk'[m] = Parts(m),
         \A f \in File : f # m => disk'[f] = disk[f],
         also \subseteq excused'["B"] => Assembling',
         also \subseteq excused'["B"] =>
            \A f \in File : Live(f)' /\ f # m => pending[f] \subseteq pending'[f]
  PROVE  Inv'
<1>1. /\ Types /\ m \in Message /\ Idle.pc = "idle" /\ "A" \in Side /\ "B" \in Side
  BY JobKinds, Envelopes DEF Inv, Idle, Side
<1>2. /\ job' \in [Side -> {Idle} \cup HandleJob \cup FillJob]
      /\ file' \in [Side -> Seq(Rec) \cup {Torn}]
      /\ excused' \in [Side -> SUBSET Message]
      /\ excused["B"] \subseteq excused'["B"] /\ also \subseteq excused'["B"]
      /\ \A t \in Side \ {"B"} : job'[t] = job[t] /\ file'[t] = file[t]
      /\ \/ /\ file["B"] # Torn /\ file'["B"] = Torn /\ job'["B"].pc = "fill"
            /\ job'["B"].records = Rewritten(Unexpired(file["B"]), "save", m)
         \/ file'["B"] = file["B"] /\ job'["B"] = Idle /\ m \in excused'["B"]
  BY <1>1, Rewriting
<1>3. job'["A"] = job["A"] /\ file'["A"] = file["A"] /\ job'["B"].pc # "handle"
  BY <1>1, <1>2 DEF Side
<1>4. Types'
  <2>1. \A t \in Side : job'[t].pc = "handle" => job'[t].env.to = t /\ job'[t].env \in seen'
    BY <1>1, <1>3 DEF Types, Side
  <2> QED
    BY <1>1, <1>2, <2>1 DEF Types
<1>5. Steady
  <2>1. \A n \in Message : ~Handled(n)'
    BY <1>3 DEF Handled
  <2>2. Handled(m)
    BY DEF Handled
  <2> QED
    BY <2>1, <2>2 DEF Steady
<1>6. \A n, i : Taken(n, i) => n = m
  BY Envelopes DEF Taken
<1>7. \A n : Live(n)' /\ n # m => \A i \in Parts(n) : Held(n, i) => Held(n, i)'
  BY <1>2, <1>6 DEF Held
<1>8. CASE file'["B"] = file["B"] /\ job'["B"] = Idle /\ m \in excused'["B"]
  <2>1. FineSide("A")' /\ FineSide("B")'
    BY <1>1, <1>3, <1>5, <1>8, SideStays DEF Inv, Histories
  <2>2. \A n : Live(n)' => n # m
    BY <1>8 DEF Live
  <2>3. Incoming'
    BY <1>1, <1>2, <1>7, <1>8, <2>2, HandlingStays DEF Inv
  <2>4. Earned'
    BY <1>3 DEF Inv, Earned
  <2> QED
    BY <1>4, <2>1, <2>3, <2>4 DEF Inv, Histories, Side
<1>9. CASE /\ file["B"] # Torn /\ file'["B"] = Torn /\ job'["B"].pc = "fill"
           /\ job'["B"].records = Rewritten(Unexpired(file["B"]), "save", m)
  <2>1. Good("B", Record(m, FALSE))'
    BY <1>3 DEF Good, Record, Handled
  <2>2. \A x \in Rec : Good("B", x) => x.msg # m
    BY DEF Good, Handled
  <2>3. /\ Fine("B", job["B"].records)' /\ Holds(job'["B"].records, m)
        /\ \A n \in Message \ expired : Holds(file["B"], n) => Holds(job'["B"].records, n)
    <3>1. "save" \in {"save", "mark"} /\ "save" # "mark"
      OBVIOUS
    <3>2. PICK w \in Seq(Rec) :
            /\ w = Rewritten(Unexpired(file["B"]), "save", m) /\ Fine("B", w)' /\ Holds(w, m)
            /\ \A n \in Message \ expired : Holds(file["B"], n) => Holds(w, n)
      BY <1>1, <1>5, <1>9, <2>1, <2>2, <3>1, RewrittenFine
    <3> QED
      BY <1>9, <3>2
  <2>4. FineSide("B")'
    <3>1. sweep["B"].pc \in {"write", "fill"} => Fine("B", sweep["B"].records)'
      BY <1>1, <1>5, JobKinds, FineStays DEF Inv, Histories, FineSide
    <3> QED
      BY <1>9, <2>3, <3>1 DEF FineSide
  <2>5. FineSide("A")'
    BY <1>1, <1>3, <1>5, SideStays DEF Inv, Histories
  <2>6. Incoming'
    BY <1>1, <1>2, <1>7, <1>9, <2>3, SavingStays DEF Inv
  <2>7. Earned'
    BY <1>3 DEF Inv, Earned
  <2> QED
    BY <1>4, <2>4, <2>5, <2>6, <2>7 DEF Inv, Histories, Side
<1> QED
  BY <1>2, <1>8, <1>9

LEMMA HandleTextKeeps ==
  ASSUME Inv, HandleText PROVE Inv'
<1> DEFINE m == job["B"].env.msg
<1>1. /\ Types /\ job["B"].pc = "handle" /\ m \in Text /\ net' = net \cup {AckOf(m)}
      /\ Rewrite("B", "save", m, {})
      /\ UNCHANGED <<item, send, seen, sweep, pending, stale, disk, expired>>
      /\ "B" \in Side
  BY DEF HandleText, Handles, Inv, Side
<1>2. /\ Parts(m) = {1} /\ AckOf(m) \in Envelope /\ AckOf(m).msg = m
      /\ m \in Message /\ m \notin File
  BY <1>1, Envelopes DEF Message
<1>3. PartOf(m, 1) \in seen
  BY <1>1, <1>2, JobKinds, Envelopes
<1>4. net' \subseteq Envelope /\ \A e \in net' : e.to = "A" => PartOf(e.msg, 1) \in seen
  BY <1>1, <1>2, <1>3 DEF Inv, Types, Earned
<1>5. /\ pending \in [File -> SUBSET Nat] /\ stale \subseteq File /\ disk \in [File -> SUBSET Nat]
  BY <1>1 DEF Types
<1>6. {} \subseteq excused'["B"] /\ excused["B"] \subseteq excused'["B"]
  BY <1>1, <1>2, Rewriting
<1>7. Assembling'
  BY <1>1, <1>6 DEF Inv, Incoming, Assembling
<1> HIDE DEF m
<1>8. m = job["B"].env.msg
  BY DEF m
<1> QED
  BY <1>1, <1>2, <1>3, <1>4, <1>5, <1>7, <1>8, SavingKeeps

\* The assembler: what it keeps, and when a file is whole.
LEMMA KeptChunks ==
  ASSUME Types
  PROVE  /\ Kept \in [File -> SUBSET Nat]
         /\ \A g \in File : Kept[g] \subseteq pending[g]
         /\ \A g \in File : g \notin {h \in stale : pending[h] # {}} => Kept[g] = pending[g]
  BY DEF Types, Kept

LEMMA WholeFile ==
  ASSUME NEW f \in File, NEW chunks \in SUBSET Parts(f)
  PROVE  Complete(f, chunks) <=> chunks = Parts(f)
<1>1. Parts(f) = 1..Chunks[f] /\ Chunks[f] \in Nat /\ Chunks[f] >= 1
  BY Envelopes
<1>2. IsFiniteSet(Parts(f)) /\ Cardinality(Parts(f)) = Chunks[f]
  BY <1>1, FS_Interval
<1>3. Cardinality(Parts(f)) = Cardinality(chunks) => Parts(f) = chunks
  BY <1>2, FS_Subset
<1> QED
  BY <1>2, <1>3 DEF Complete

\* A chunk that completes no file.
LEMMA StoppingKeeps ==
  ASSUME Inv, job["B"].pc = "handle", NEW f \in File, f = job["B"].env.msg,
         NEW struck \in SUBSET Message,
         job' = [job EXCEPT !["B"] = Idle], Excuse("B", struck),
         UNCHANGED <<item, send, net, seen, sweep, file, disk, expired>>,
         pending' \in [File -> SUBSET Nat], stale' \subseteq File,
         Assembling', \A g \in File : Live(g)' => pending[g] \subseteq pending'[g],
         Live(f)' => job["B"].env.part \in pending'[f]
  PROVE  Inv'
<1>1. Types /\ Idle.pc = "idle" /\ "A" \in Side /\ "B" \in Side /\ f \in Message
  BY Envelopes DEF Inv, Idle, Side
<1>2. /\ excused' = [excused EXCEPT !["B"] = @ \cup struck]
      /\ excused' \in [Side -> SUBSET Message]
      /\ excused["B"] \cup struck \subseteq excused'["B"]
  BY <1>1 DEF Excuse, Types
<1>3. /\ job' \in [Side -> {Idle} \cup HandleJob \cup FillJob]
      /\ job'["B"] = Idle /\ job'["A"] = job["A"]
  BY <1>1 DEF Types
<1>4. Types'
  <2>1. \A t \in Side : job'[t].pc = "handle" => job'[t].env.to = t /\ job'[t].env \in seen'
    BY <1>1, <1>3 DEF Types, Side
  <2> QED
    BY <1>1, <1>2, <1>3, <2>1 DEF Types
<1>5. Steady
  BY <1>1, <1>3 DEF Steady, Handled
<1>6. FineSide("A")' /\ FineSide("B")'
  BY <1>1, <1>3, <1>5, SideStays DEF Inv, Histories
<1>7. Earned'
  BY <1>3, EarnedStays DEF Inv
<1>8. \A m : Live(m)' => \A i \in Parts(m) : Held(m, i) => Held(m, i)'
  <2>1. \A m, i : Taken(m, i) => m = f /\ i = job["B"].env.part
    BY Envelopes DEF Taken
  <2> QED
    BY <1>2, <2>1 DEF Held
<1>9. Incoming'
  BY <1>1, <1>2, <1>3, <1>8, HandlingStays DEF Inv
<1> QED
  BY <1>4, <1>6, <1>7, <1>9 DEF Inv, Histories, Side

LEMMA HandleChunkKeeps ==
  ASSUME Inv, HandleChunk PROVE Inv'
<1>0. PICK f, part : f = job["B"].env.msg /\ part = job["B"].env.part
  OBVIOUS
<1> DEFINE chunks == Kept[f] \cup {part}
           aged == {g \in stale : pending[g] # {}}
<1>1. /\ Types /\ job["B"].pc = "handle" /\ f \in File /\ stale' = {}
      /\ UNCHANGED <<item, send, net, seen, sweep, expired>>
      /\ "B" \in Side
  BY <1>0 DEF HandleChunk, Handles, Inv, Side
<1>2. \/ /\ pending' = Kept /\ job' = [job EXCEPT !["B"] = Idle] /\ file' = file
         /\ Excuse("B", aged \cup {f}) /\ disk' = disk
      \/ /\ ~Complete(f, chunks) /\ pending' = [Kept EXCEPT ![f] = chunks]
         /\ job' = [job EXCEPT !["B"] = Idle] /\ file' = file
         /\ Excuse("B", aged) /\ disk' = disk
      \/ /\ Complete(f, chunks) /\ pending' = [Kept EXCEPT ![f] = {}]
         /\ disk' = [disk EXCEPT ![f] = chunks]
         /\ Rewrite("B", "save", f, aged)
      \/ /\ Complete(f, chunks) /\ pending' = [Kept EXCEPT ![f] = chunks]
         /\ job' = [job EXCEPT !["B"] = Idle] /\ file' = file
         /\ Excuse("B", aged \cup {f}) /\ disk' = disk
  BY <1>0 DEF HandleChunk
<1>3. /\ Kept \in [File -> SUBSET Nat] /\ aged \subseteq Message /\ {f} \subseteq Message
      /\ \A g \in File : Kept[g] \subseteq pending[g]
      /\ \A g \in File : g \notin aged => Kept[g] = pending[g]
  <2>1. File \subseteq Message /\ stale \subseteq File
    BY <1>1 DEF Message, Types
  <2> QED
    BY <1>1, <2>1, KeptChunks
<1>4. /\ part \in Parts(f) /\ PartOf(f, part) \in seen
      /\ \A i \in pending[f] : PartOf(f, i) \in seen
      /\ \A i : PartOf(f, i) \in seen => i \in Parts(f)
      /\ Parts(f) \subseteq Nat /\ Parts(f) # {}
  <2>1. job["B"].env \in Envelope /\ job["B"].env.to = "B" /\ job["B"].env \in seen
    BY <1>1, JobKinds
  <2>2. part \in Parts(f) /\ PartOf(f, part) \in seen
    BY <1>0, <2>1, Envelopes
  <2>3. \A i \in pending[f] : PartOf(f, i) \in seen
    BY <1>1 DEF Inv, Incoming, Assembling
  <2>4. \A i : PartOf(f, i) \in seen => i \in Parts(f)
    <3>1. ASSUME NEW i, PartOf(f, i) \in seen PROVE i \in Parts(f)
      <4>1. PartOf(f, i) \in Envelope
        BY <1>1, <3>1 DEF Types
      <4> QED
        BY <4>1, Envelopes
    <3> QED
      BY <3>1
  <2>5. Parts(f) \subseteq Nat /\ Parts(f) # {}
    BY <1>1, Envelopes DEF Message
  <2> QED
    BY <2>2, <2>3, <2>4, <2>5
<1>5. /\ \A i \in chunks : PartOf(f, i) \in seen
      /\ chunks \subseteq Nat /\ part \in chunks /\ Kept[f] \subseteq chunks
      /\ Complete(f, chunks) <=> chunks = Parts(f)
  <2>1. \A i \in chunks : PartOf(f, i) \in seen
    BY <1>1, <1>3, <1>4
  <2>2. chunks \in SUBSET Parts(f)
    BY <1>4, <2>1
  <2> HIDE DEF chunks
  <2>3. Complete(f, chunks) <=> chunks = Parts(f)
    BY <1>1, <2>2, WholeFile
  <2> QED
    BY <1>4, <2>1, <2>2, <2>3 DEF chunks
<1> HIDE DEF chunks, aged
<1>7. \A g \in File : g \notin excused["B"] => pending[g] # Parts(g)
  BY DEF Inv, Incoming, Assembling
<1>8. \A g \in File : \A i \in Kept[g] : PartOf(g, i) \in seen
  BY <1>3 DEF Inv, Incoming, Assembling
<1>9. CASE /\ pending' = Kept /\ job' = [job EXCEPT !["B"] = Idle] /\ file' = file
           /\ Excuse("B", aged \cup {f}) /\ disk' = disk
  <2>1. aged \cup {f} \in SUBSET Message
    BY <1>3
  <2>2. excused["B"] \cup (aged \cup {f}) \subseteq excused'["B"]
    BY <1>1, <1>9 DEF Excuse, Types
  <2>3. ASSUME NEW g \in File
        PROVE  /\ \A i \in pending'[g] : PartOf(g, i) \in seen'
               /\ g \notin excused'["B"] => pending'[g] # Parts(g)
               /\ Live(g)' => pending[g] \subseteq pending'[g]
    <3>1. pending'[g] = Kept[g] /\ seen' = seen
      BY <1>1, <1>9
    <3>2. g \notin excused'["B"] => Kept[g] = pending[g] /\ g \notin excused["B"]
      BY <1>3, <2>2
    <3>3. Live(g)' => g \notin excused'["B"]
      BY DEF Live
    <3> QED
      BY <1>7, <1>8, <3>1, <3>2, <3>3
  <2>4. Assembling' /\ \A g \in File : Live(g)' => pending[g] \subseteq pending'[g]
    BY <2>3 DEF Assembling
  <2>5. ~Live(f)'
    BY <2>2 DEF Live
  <2> QED
    BY <1>1, <1>3, <1>0, <1>9, <2>1, <2>4, <2>5, StoppingKeeps
<1>10. CASE /\ \/ ~Complete(f, chunks) /\ Excuse("B", aged)
               \/ Excuse("B", aged \cup {f})
            /\ pending' = [Kept EXCEPT ![f] = chunks]
            /\ job' = [job EXCEPT !["B"] = Idle] /\ file' = file /\ disk' = disk
  <2>1. PICK struck \in SUBSET Message : /\ Excuse("B", struck) /\ aged \subseteq struck
                                         /\ f \in struck \/ chunks # Parts(f)
    BY <1>3, <1>5, <1>10
  <2>2. /\ pending' \in [File -> SUBSET Nat] /\ pending'[f] = chunks
        /\ \A g \in File : g # f => pending'[g] = Kept[g]
    BY <1>1, <1>3, <1>5, <1>10
  <2>3. excused["B"] \cup struck \subseteq excused'["B"]
    BY <1>1, <2>1 DEF Excuse, Types
  <2>4. ASSUME NEW g \in File
        PROVE  /\ \A i \in pending'[g] : PartOf(g, i) \in seen'
               /\ g \notin excused'["B"] => pending'[g] # Parts(g)
               /\ Live(g)' => pending[g] \subseteq pending'[g]
    <3>1. CASE g = f
      BY <1>1, <1>3, <1>5, <2>1, <2>2, <2>3, <3>1 DEF Live
    <3>2. CASE g # f
      BY <1>1, <1>3, <1>7, <1>8, <2>1, <2>2, <2>3, <3>2 DEF Live
    <3> QED
      BY <3>1, <3>2
  <2>5. /\ Assembling' /\ \A g \in File : Live(g)' => pending[g] \subseteq pending'[g]
        /\ Live(f)' => part \in pending'[f]
    BY <1>1, <1>5, <2>2, <2>4 DEF Assembling
  <2> QED
    BY <1>1, <1>0, <1>10, <2>1, <2>2, <2>5, StoppingKeeps
<1>11. CASE /\ Complete(f, chunks) /\ pending' = [Kept EXCEPT ![f] = {}]
            /\ disk' = [disk EXCEPT ![f] = chunks]
            /\ Rewrite("B", "save", f, aged)
  <2>1. /\ pending' \in [File -> SUBSET Nat] /\ pending'[f] = {}
        /\ \A g \in File : g # f => pending'[g] = Kept[g]
    BY <1>1, <1>3, <1>11
  <2>2. /\ disk' \in [File -> SUBSET Nat] /\ disk'[f] = Parts(f)
        /\ \A g \in File : g # f => disk'[g] = disk[g]
    BY <1>1, <1>5, <1>11 DEF Types
  <2>3. net' \subseteq Envelope /\ \A e \in net' : e.to = "A" => PartOf(e.msg, 1) \in seen
    BY <1>1 DEF Inv, Types, Earned
  <2>4. \A i \in Parts(f) : PartOf(f, i) \in seen
    BY <1>5, <1>11
  <2>5. ASSUME aged \subseteq excused'["B"]
        PROVE  /\ Assembling' /\ \A g \in File : Live(g)' /\ g # f => pending[g] \subseteq pending'[g]
    <3>1. excused["B"] \subseteq excused'["B"]
      BY <1>1, <1>3, <1>11, Rewriting
    <3>2. ASSUME NEW g \in File
          PROVE  /\ \A i \in pending'[g] : PartOf(g, i) \in seen'
                 /\ g \notin excused'["B"] => pending'[g] # Parts(g)
                 /\ Live(g)' /\ g # f => pending[g] \subseteq pending'[g]
      <4>1. CASE g = f
        BY <1>4, <2>1, <4>1
      <4>2. CASE g # f
        BY <1>1, <1>3, <1>7, <1>8, <2>1, <2>5, <3>1, <4>2 DEF Live
      <4> QED
        BY <4>1, <4>2
    <3> QED
      BY <3>2 DEF Assembling
  <2>6. aged \in SUBSET Message /\ stale' \subseteq File
    BY <1>1, <1>3
  <2> QED
    BY <1>1, <1>0, <1>11, <2>1, <2>2, <2>3, <2>4, <2>5, <2>6, SavingKeeps
<1> QED
  BY <1>2, <1>9, <1>10, <1>11

-----------------------------------------------------------------------------
\* The writes of B's Update goroutine and of the sweepers.
LEMMA ExcuseGrows ==
  ASSUME Types, NEW s \in Side, NEW ms \in SUBSET Message, Excuse(s, ms)
  PROVE  /\ excused' \in [Side -> SUBSET Message]
         /\ excused["B"] \subseteq excused'["B"] /\ ms \subseteq excused'[s]
<1>1. excused' = [excused EXCEPT ![s] = excused[s] \cup ms] /\ excused \in [Side -> SUBSET Message]
  BY DEF Excuse, Types
<1>2. excused[s] \cup ms \in SUBSET Message /\ "B" \in Side
  BY <1>1 DEF Side
<1>3. excused'[s] = excused[s] \cup ms /\ \A t \in Side \ {s} : excused'[t] = excused[t]
  BY <1>1
<1>4. excused' \in [Side -> SUBSET Message]
  BY <1>1, <1>2
<1> QED
  BY <1>2, <1>3, <1>4

\* A write leaves what was to be written, or a file that cannot be read.
LEMMA WriteFills ==
  ASSUME Types, NEW s \in Side, NEW w \in Seq(Rec), Filled(s, w)
  PROVE  /\ file' \in [Side -> Seq(Rec) \cup {Torn}] /\ file'[s] \in {w, Torn}
         /\ \A t \in Side \ {s} : file'[t] = file[t]
<1>1. PICK r \in {w} \cup IF file[s] = Torn THEN {} ELSE {Torn} : file' = [file EXCEPT ![s] = r]
  BY DEF Filled
<1>2. r \in {w, Torn} /\ r \in Seq(Rec) \cup {Torn}
  OBVIOUS
<1>3. file \in [Side -> Seq(Rec) \cup {Torn}]
  BY DEF Types
<1> HIDE DEF Torn
<1> QED
  BY <1>1, <1>2, <1>3

LEMMA FillAtBKeeps ==
  ASSUME Inv, Fill("B") PROVE Inv'
<1>1. PICK w : w = job["B"].records
  OBVIOUS
<1>2. /\ Types /\ job["B"].pc = "fill" /\ Filled("B", w)
      /\ job' = [job EXCEPT !["B"] = Idle]
      /\ Excuse("B", {m \in Message : Holds(w, m) /\ ~Holds(file'["B"], m)})
      /\ UNCHANGED <<item, send, net, seen, sweep, pending, stale, disk, expired>>
      /\ "A" \in Side /\ "B" \in Side /\ Idle.pc = "idle" /\ "A" # "B"
  BY <1>1 DEF Fill, Inv, Side, Idle
<1>3. w \in Seq(Rec) /\ Fine("B", w)
  BY <1>1, <1>2, JobKinds DEF Inv, Histories, FineSide
<1>4. /\ file' \in [Side -> Seq(Rec) \cup {Torn}] /\ file'["A"] = file["A"]
      /\ file'["B"] \in {w, Torn}
  BY <1>2, <1>3, WriteFills DEF Side
<1>5. /\ job' \in [Side -> {Idle} \cup HandleJob \cup FillJob]
      /\ job'["B"] = Idle /\ job'["A"] = job["A"]
  BY <1>2 DEF Types
<1>6. /\ excused' \in [Side -> SUBSET Message] /\ excused["B"] \subseteq excused'["B"]
      /\ {m \in Message : Holds(w, m) /\ ~Holds(file'["B"], m)} \subseteq excused'["B"]
  BY <1>2, ExcuseGrows
<1>7. Steady
  BY <1>2, <1>5 DEF Steady, Handled
<1>8. Types'
  <2>1. \A s \in Side : job'[s].pc = "handle" => job'[s].env.to = s /\ job'[s].env \in seen'
    BY <1>2, <1>5 DEF Types, Side
  <2> QED
    BY <1>2, <1>4, <1>5, <1>6, <2>1 DEF Types
<1>9. FineSide("A")'
  BY <1>2, <1>4, <1>5, <1>7, SideStays DEF Inv, Histories
<1>10. FineSide("B")'
  <2>1. file'["B"] # Torn => Fine("B", file["B"])'
    BY <1>2, <1>3, <1>4, <1>7, FineStays
  <2>2. sweep["B"].pc \in {"write", "fill"} => Fine("B", sweep["B"].records)'
    BY <1>2, <1>7, JobKinds, FineStays DEF Inv, Histories, FineSide
  <2> QED
    BY <1>2, <1>5, <2>1, <2>2 DEF FineSide
<1>11. Earned'
  BY <1>2, <1>5, EarnedStays DEF Inv
<1>12. Incoming'
  <2>1. \A m : Live(m)' => Live(m) /\ (Holds(w, m) => Holds(file'["B"], m))
    BY <1>2, <1>6 DEF Live
  <2>2. \A m : Live(m) =>
           /\ Holds(file["B"], m) => Holds(w, m)
           /\ sweep["B"].pc # "idle" /\ Holds(sweep["B"].records, m) => Holds(w, m)
    BY <1>1, <1>2 DEF Inv, Incoming, Overlap
  <2>3. \A m : Live(m)' /\ Safe(m) => Safe(m)'
    BY <1>1, <1>2, <2>1, <2>2 DEF Safe
  <2>4. \A m, i : Taken(m, i)' <=> Taken(m, i)
    BY <1>2, <1>5 DEF Taken
  <2>5. NothingLost'
    BY <1>2, <2>1, <2>3, <2>4 DEF Inv, Incoming, NothingLost
  <2>6. Overlap'
    BY <1>2, <1>5, <2>1, <2>2 DEF Overlap
  <2>7. Assembling'
    BY <1>2, <1>6 DEF Inv, Incoming, Assembling
  <2> QED
    BY <2>5, <2>6, <2>7 DEF Incoming
<1> QED
  BY <1>8, <1>9, <1>10, <1>11, <1>12 DEF Inv, Histories, Side

\* A sweeper's step: the rest of the program goes on as it was.
LEMMA SweepingKeeps ==
  ASSUME Inv, NEW s \in Side, NEW c \in {Idle} \cup SweepJob, NEW ms \in SUBSET Message,
         sweep' = [sweep EXCEPT ![s] = c], Excuse(s, ms),
         UNCHANGED <<item, send, net, seen, job, pending, stale, disk, expired>>,
         file' \in [Side -> Seq(Rec) \cup {Torn}], \A t \in Side \ {s} : file'[t] = file[t],
         file'[s] # Torn => Fine(s, file'[s]),
         c.pc # "idle" => Fine(s, c.records),
         s = "B" => \A m : Live(m) /\ m \notin ms =>
            /\ Safe(m) => Safe(m)'
            /\ job["B"].pc = "fill" =>
                 /\ Holds(file'["B"], m) => Holds(job["B"].records, m)
                 /\ c.pc # "idle" /\ Holds(c.records, m) => Holds(job["B"].records, m)
            /\ job["B"].pc # "fill" /\ file'["B"] # Torn /\ c.pc # "idle" /\ Holds(c.records, m)
                 => Holds(file'["B"], m)
  PROVE  Inv'
<1>1. Types /\ "A" \in Side /\ "B" \in Side /\ Idle.pc = "idle"
  BY DEF Inv, Side, Idle
<1>2. /\ excused' \in [Side -> SUBSET Message]
      /\ excused["B"] \subseteq excused'["B"] /\ ms \subseteq excused'[s]
  BY <1>1, ExcuseGrows
<1>3. /\ sweep' \in [Side -> {Idle} \cup SweepJob] /\ sweep'[s] = c
      /\ \A t \in Side \ {s} : sweep'[t] = sweep[t]
  BY <1>1 DEF Types
<1>4. Types'
  <2>1. \A t \in Side : job'[t].pc = "handle" => job'[t].env.to = t /\ job'[t].env \in seen'
    BY <1>1 DEF Types
  <2> QED
    BY <1>1, <1>2, <1>3, <2>1 DEF Types
<1>5. Steady
  BY <1>1 DEF Steady, Handled
<1>6. FineSide(s)'
  <2>1. file'[s] # Torn => Fine(s, file[s])'
    BY <1>5, FineStays
  <2>2. job[s].pc = "fill" => Fine(s, job[s].records)'
    BY <1>1, <1>5, JobKinds, FineStays DEF Inv, Histories, FineSide
  <2>3. c.pc \in {"write", "fill"} => c.records \in Seq(Rec)
    BY <1>1 DEF SweepJob
  <2>4. sweep'[s].pc \in {"write", "fill"} => Fine(s, sweep[s].records)'
    BY <1>3, <1>5, <2>3, FineStays
  <2> QED
    BY <2>1, <2>2, <2>4 DEF FineSide
<1>7. \A t \in Side \ {s} : FineSide(t)'
  BY <1>1, <1>3, <1>5, SideStays DEF Inv, Histories
<1>8. Earned'
  BY EarnedStays DEF Inv
<1>9. Incoming'
  <2>1. CASE s = "B"
    <3>1. \A m : Live(m)' => Live(m) /\ m \notin ms
      BY <1>2, <2>1 DEF Live
    <3>2. NothingLost'
      <4>1. \A m, i : Taken(m, i)' <=> Taken(m, i)
        BY DEF Taken
      <4> QED
        BY <2>1, <3>1, <4>1 DEF Inv, Incoming, NothingLost
    <3>3. Overlap'
      BY <1>3, <2>1, <3>1 DEF Overlap
    <3>4. Assembling'
      BY <1>2 DEF Inv, Incoming, Assembling
    <3> QED
      BY <3>2, <3>3, <3>4 DEF Incoming
  <2>2. CASE s # "B"
    BY <1>1, <1>2, <1>3, <2>2, IncomingStays DEF Inv
  <2> QED
    BY <2>1, <2>2
<1> QED
  BY <1>4, <1>6, <1>7, <1>8, <1>9 DEF Inv, Histories

LEMMA SweepReadKeeps ==
  ASSUME Inv, NEW s \in Side, SweepRead(s) PROVE Inv'
<1>1. /\ Types /\ sweep[s] = Idle /\ file[s] # Torn /\ Idle.pc = "idle"
      /\ UNCHANGED <<item, send, net, seen, job, file, pending, stale, disk, expired, excused>>
  BY DEF SweepRead, Inv, Idle
<1>2. file[s] \in Seq(Rec) /\ Fine(s, file[s])
  BY <1>1, JobKinds DEF Inv, Histories, FineSide
<1>3. PICK u \in Seq(Rec) :
        /\ u = Unexpired(file[s]) /\ Distinct(u)
        /\ \A i \in DOMAIN u : \E k \in DOMAIN file[s] : u[i] = file[s][k]
  BY <1>2, UnexpiredKeeps DEF Fine
<1>4. Fine(s, u)
  BY <1>2, <1>3 DEF Fine
<1>5. \A m : Holds(u, m) => Holds(file[s], m)
  BY <1>1, <1>3 DEF Holds
<1>6. PICK c \in SweepJob : c = [pc |-> "write", records |-> u]
  BY <1>3 DEF SweepJob
<1>7. sweep' = [sweep EXCEPT ![s] = c]
  BY <1>3, <1>6 DEF SweepRead
<1>8. c.pc = "write" /\ c.records = u
  BY <1>6
<1>9. Excuse(s, {})
  <2>1. excused' = excused /\ excused \in [Side -> SUBSET Message]
    BY <1>1 DEF Types
  <2>2. excused = [excused EXCEPT ![s] = excused[s] \cup {}]
    BY <2>1
  <2> QED
    BY <2>1, <2>2 DEF Excuse
<1>10. ASSUME s = "B", NEW m, Live(m)
       PROVE  /\ Safe(m) => Safe(m)'
              /\ job["B"].pc = "fill" =>
                   /\ Holds(file'["B"], m) => Holds(job["B"].records, m)
                   /\ c.pc # "idle" /\ Holds(c.records, m) => Holds(job["B"].records, m)
              /\ job["B"].pc # "fill" /\ file'["B"] # Torn /\ c.pc # "idle" /\ Holds(c.records, m)
                   => Holds(file'["B"], m)
  <2>1. Safe(m) => Safe(m)'
    BY <1>1, <1>10 DEF Safe
  <2>2. job["B"].pc = "fill" /\ Holds(file["B"], m) => Holds(job["B"].records, m)
    BY <1>10 DEF Inv, Incoming, Overlap
  <2> QED
    BY <1>1, <1>5, <1>8, <1>10, <2>1, <2>2
<1> QED
  BY <1>1, <1>2, <1>4, <1>7, <1>8, <1>9, <1>10, SweepingKeeps DEF Types

LEMMA SweepTruncateKeeps ==
  ASSUME Inv, NEW s \in Side, SweepTruncate(s) PROVE Inv'
<1>1. /\ Types /\ sweep[s].pc = "write"
      /\ Excuse(s, Dropped(s, sweep[s].records)) /\ file' = [file EXCEPT ![s] = Torn]
      /\ UNCHANGED <<item, send, net, seen, job, pending, stale, disk, expired>>
  BY DEF SweepTruncate, Inv
<1>2. sweep[s].records \in Seq(Rec) /\ Fine(s, sweep[s].records)
  BY <1>1, JobKinds DEF Inv, Histories, FineSide
<1>3. PICK c \in SweepJob : /\ c.pc = "fill" /\ c.records = sweep[s].records
                            /\ sweep' = [sweep EXCEPT ![s] = c]
  <2>1. sweep[s] \in SweepJob
    <3>1. sweep[s] \in {Idle} \cup SweepJob /\ sweep[s] # Idle
      BY <1>1, JobKinds DEF Types
    <3> QED
      BY <3>1
  <2>2. sweep' = [sweep EXCEPT ![s] = [sweep[s] EXCEPT !.pc = "fill"]]
    BY DEF SweepTruncate
  <2> QED
    BY <2>1, <2>2 DEF SweepJob
<1>4. /\ file' \in [Side -> Seq(Rec) \cup {Torn}] /\ file'[s] = Torn
      /\ \A t \in Side \ {s} : file'[t] = file[t]
  BY <1>1 DEF Types
<1>5. Dropped(s, sweep[s].records) \in SUBSET Message
  BY DEF Dropped
<1>6. ASSUME s = "B", NEW m, Live(m), m \notin Dropped(s, sweep[s].records)
      PROVE  /\ Safe(m) => Safe(m)'
             /\ job["B"].pc = "fill" =>
                  /\ Holds(file'["B"], m) => Holds(job["B"].records, m)
                  /\ c.pc # "idle" /\ Holds(c.records, m) => Holds(job["B"].records, m)
             /\ job["B"].pc # "fill" /\ file'["B"] # Torn /\ c.pc # "idle" /\ Holds(c.records, m)
                  => Holds(file'["B"], m)
  <2>1. Holds(file["B"], m) => Holds(c.records, m)
    BY <1>3, <1>6 DEF Dropped, Live
  <2>2. sweep'["B"] = c
    BY <1>1, <1>3, <1>6 DEF Types
  <2>3. Safe(m) => Safe(m)'
    BY <1>1, <1>3, <1>6, <2>1, <2>2 DEF Safe
  <2>4. job["B"].pc = "fill" /\ Holds(c.records, m) => Holds(job["B"].records, m)
    BY <1>1, <1>3, <1>6 DEF Inv, Incoming, Overlap
  <2>5. ~Holds(Torn, m)
    BY DEF Holds
  <2> QED
    BY <1>4, <1>6, <2>3, <2>4, <2>5
<1> QED
  BY <1>1, <1>2, <1>3, <1>4, <1>5, <1>6, SweepingKeeps

LEMMA SweepFillKeeps ==
  ASSUME Inv, NEW s \in Side, SweepFill(s) PROVE Inv'
<1>1. PICK r, ms : /\ r = sweep[s].records
                   /\ ms = {m \in Message : \/ Holds(r, m) /\ ~Holds(file'[s], m)
                                            \/ m \in Dropped(s, r)}
  OBVIOUS
<1>2. /\ Types /\ sweep[s].pc = "fill" /\ Filled(s, r) /\ Excuse(s, ms)
      /\ sweep' = [sweep EXCEPT ![s] = Idle] /\ Idle.pc = "idle"
      /\ UNCHANGED <<item, send, net, seen, job, pending, stale, disk, expired>>
  BY <1>1 DEF SweepFill, Inv, Idle
<1>3. r \in Seq(Rec) /\ Fine(s, r)
  BY <1>1, <1>2, JobKinds DEF Inv, Histories, FineSide
<1>4. /\ file' \in [Side -> Seq(Rec) \cup {Torn}] /\ file'[s] \in {r, Torn}
      /\ \A t \in Side \ {s} : file'[t] = file[t]
  BY <1>2, <1>3, WriteFills DEF Side
<1>5. ms \in SUBSET Message
  BY <1>1
<1>6. ASSUME s = "B", NEW m, Live(m), m \notin ms
      PROVE  /\ Safe(m) => Safe(m)'
             /\ job["B"].pc = "fill" /\ Holds(file'["B"], m) => Holds(job["B"].records, m)
  <2>1. /\ Holds(r, m) => Holds(file'["B"], m)
        /\ Holds(file["B"], m) => Holds(r, m)
    BY <1>1, <1>6 DEF Dropped, Live
  <2>2. Safe(m) => Safe(m)'
    BY <1>1, <1>2, <1>6, <2>1 DEF Safe
  <2>3. job["B"].pc = "fill" /\ Holds(r, m) => Holds(job["B"].records, m)
    BY <1>1, <1>2, <1>6 DEF Inv, Incoming, Overlap
  <2>4. ~Holds(Torn, m)
    BY DEF Holds
  <2> QED
    BY <1>4, <1>6, <2>2, <2>3, <2>4
<1> QED
  BY <1>2, <1>3, <1>4, <1>5, <1>6, SweepingKeeps

\* A crash takes the goroutines and the memory of one side.
LEMMA CrashKeeps ==
  ASSUME Inv, NEW s \in Side, Crash(s) PROVE Inv'
<1>1. PICK ms : ms = {m \in Message :
                    \/ Handles(s) /\ job[s].env.msg = m
                    \/ \E w \in {job[s], sweep[s]} : w.pc = "fill" /\ Holds(w.records, m)
                    \/ s = "B" /\ m \in File /\ pending[m] # {}}
  OBVIOUS
<1>2. /\ Types /\ job' = [job EXCEPT ![s] = Idle] /\ sweep' = [sweep EXCEPT ![s] = Idle]
      /\ Excuse(s, ms) /\ UNCHANGED <<net, seen, file, disk, expired>>
      /\ Idle.pc = "idle" /\ "A" \in Side /\ "B" \in Side /\ ms \in SUBSET Message
  BY <1>1 DEF Crash, Inv, Idle, Side
<1>3. \/ /\ s = "A" /\ UNCHANGED <<pending, stale>> /\ item' = Rebuilt(file["A"])
         /\ send' = [m \in Message |-> IF send[m].pc \in {"sending", "sent", "failed"}
                                       THEN [send[m] EXCEPT !.pc = "done"] ELSE send[m]]
      \/ s = "B" /\ pending' = [f \in File |-> {}] /\ stale' = {} /\ UNCHANGED <<send, item>>
  BY DEF Crash
<1>4. /\ excused' \in [Side -> SUBSET Message]
      /\ excused["B"] \subseteq excused'["B"] /\ ms \subseteq excused'[s]
  BY <1>2, ExcuseGrows
<1>5. /\ job' \in [Side -> {Idle} \cup HandleJob \cup FillJob]
      /\ job'[s] = Idle /\ \A t \in Side \ {s} : job'[t] = job[t]
      /\ sweep' \in [Side -> {Idle} \cup SweepJob]
      /\ sweep'[s] = Idle /\ \A t \in Side \ {s} : sweep'[t] = sweep[t]
  BY <1>2 DEF Types
<1>6. /\ send' \in [Message -> [pc : {"unsent", "sending", "sent", "failed", "done"}, next : Nat]]
      /\ \A m \in Message : send'[m].pc # "done" => send'[m].next \in Parts(m)
      /\ \A m \in Message : send[m].pc = "done" => send'[m].pc = "done"
  <2>1. CASE send' = send
    BY <1>2, <2>1 DEF Types
  <2>2. CASE send' = [m \in Message |-> IF send[m].pc \in {"sending", "sent", "failed"}
                                        THEN [send[m] EXCEPT !.pc = "done"] ELSE send[m]]
    <3> DEFINE S == [pc : {"unsent", "sending", "sent", "failed", "done"}, next : Nat]
    <3>1. ASSUME NEW m \in Message
          PROVE  /\ send'[m] \in S
                 /\ send'[m].pc # "done" => send'[m] = send[m] /\ send[m].pc # "done"
                 /\ send[m].pc = "done" => send'[m].pc = "done"
      <4>1. send[m] \in S
        BY <1>2 DEF Types
      <4>2. CASE send[m].pc \in {"sending", "sent", "failed"}
        <5>1. send'[m] = [send[m] EXCEPT !.pc = "done"]
          BY <2>2, <4>2
        <5>2. send'[m] \in S /\ send'[m].pc = "done"
          BY <4>1, <5>1
        <5> QED
          BY <5>2
      <4>3. CASE send[m].pc \notin {"sending", "sent", "failed"}
        BY <2>2, <4>1, <4>3
      <4> QED
        BY <4>2, <4>3
    <3>2. send' \in [Message -> S]
      <4> HIDE DEF S
      <4> QED
        BY <2>2, <3>1
    <3> QED
      BY <1>2, <3>1, <3>2 DEF Types
  <2> QED
    BY <1>3, <2>1, <2>2
<1>7. /\ item' \in [Message -> {"none", "pending", "sent", "failed", "delivered"}]
      /\ \A m \in Message : item'[m] = "delivered" => item[m] = "delivered" \/ PartOf(m, 1) \in seen
  <2>1. CASE item' = item
    BY <1>2, <2>1 DEF Types
  <2>2. CASE item' = Rebuilt(file["A"])
    <3>1. file["A"] = Torn \/ (file["A"] \in Seq(Rec) /\ Fine("A", file["A"]))
      BY <1>2, JobKinds DEF Inv, Histories, FineSide
    <3>2. PICK r : r = file["A"]
      OBVIOUS
    <3>3. /\ Rebuilt(r) \in [Message -> {"none", "pending", "sent", "failed", "delivered"}]
          /\ \A m \in Message : Rebuilt(r)[m] = "delivered" => PartOf(m, 1) \in seen
      BY <1>2, <3>1, <3>2, RebuiltIsEarned
    <3> QED
      BY <2>2, <3>2, <3>3
  <2> QED
    BY <1>3, <2>1, <2>2
<1>8. pending' \in [File -> SUBSET Nat] /\ stale' \subseteq File
  BY <1>2, <1>3 DEF Types
<1>9. Types'
  <2>1. \A t \in Side : job'[t].pc = "handle" => job'[t].env.to = t /\ job'[t].env \in seen'
    BY <1>2, <1>5 DEF Types
  <2>2. UNCHANGED <<net, seen, file, disk, expired>>
    BY <1>2
  <2> QED
    BY <1>2, <1>4, <1>5, <1>6, <1>7, <1>8, <2>1 DEF Types
<1>10. Steady
  BY <1>2, <1>5, <1>6 DEF Steady, Handled, Side
<1>11. Histories'
  <2>1. \A t \in Side : /\ job'[t] = job[t] \/ job'[t].pc # "fill"
                        /\ sweep'[t] = sweep[t] \/ sweep'[t].pc = "idle"
    BY <1>2, <1>5
  <2> QED
    BY <1>2, <1>10, <2>1, SideStays DEF Inv, Histories
<1>12. Earned'
  <2>1. job'["A"] = job["A"] \/ job'["A"].pc = "idle"
    BY <1>2, <1>5
  <2> QED
    BY <1>2, <1>7, <2>1, EarnedStays DEF Inv
<1>13. Incoming'
  <2>1. CASE s = "A"
    BY <1>2, <1>3, <1>4, <1>5, <2>1, IncomingStays DEF Inv, Side
  <2>2. CASE s = "B"
    <3>1. \A m : Live(m)' => /\ Live(m) /\ m \notin ms
      BY <1>2, <1>4, <2>2 DEF Live
    <3>2. \A m \in Message : m \notin ms =>
            /\ ~(job["B"].pc = "handle" /\ job["B"].env.msg = m)
            /\ ~(job["B"].pc = "fill" /\ Holds(job["B"].records, m))
            /\ ~(sweep["B"].pc = "fill" /\ Holds(sweep["B"].records, m))
            /\ m \in File => pending[m] = {}
      BY <1>1, <2>2 DEF Handles
    <3>3. \A m, i : Taken(m, i) => job["B"].pc = "handle" /\ job["B"].env.msg = m
      BY Envelopes DEF Taken
    <3>4. ASSUME NEW m, Live(m)' PROVE Safe(m)' \/ \A i \in Parts(m) : PartOf(m, i) \notin seen'
      <4>1. Live(m) /\ m \in Message /\ m \notin ms
        BY <3>1, <3>4 DEF Live
      <4>2. Safe(m) => Safe(m)'
        BY <1>2, <3>2, <4>1 DEF Safe
      <4>3. Safe(m) \/ \A i \in Parts(m) : PartOf(m, i) \notin seen
        BY <3>2, <3>3, <4>1 DEF Inv, Incoming, NothingLost
      <4> QED
        BY <1>2, <4>2, <4>3
    <3>5. NothingLost'
      BY <3>4 DEF NothingLost
    <3>6. Overlap'
      BY <1>2, <1>5, <2>2 DEF Overlap
    <3>7. Assembling'
      <4>1. \A f \in File : pending'[f] = {} /\ Parts(f) # {}
        BY <1>3, <2>2, Envelopes
      <4> QED
        BY <4>1 DEF Assembling
    <3> QED
      BY <3>5, <3>6, <3>7 DEF Incoming
  <2> QED
    BY <2>1, <2>2 DEF Side
<1> QED
  BY <1>9, <1>11, <1>12, <1>13 DEF Inv

-----------------------------------------------------------------------------
\* Every step of Next, one case per action.
LEMMA StepKeeps == Inv /\ [Next]_vars => Inv'
<1> SUFFICES ASSUME Inv, [Next]_vars PROVE Inv'
  OBVIOUS
<1>1. CASE \E m \in Message : Compose(m) \/ Expire(m)
  BY <1>1, ComposeKeeps, ClockKeeps
<1>2. CASE Sending
  BY <1>2, SendPartKeeps, SendEndsKeeps DEF Sending
<1>3. CASE UpdateA
  BY <1>3, HandleSendResultKeeps, SendEndsKeeps DEF UpdateA
<1>4. CASE PurgeTranscript
  BY <1>4, TranscriptKeeps
<1>5. CASE \E e \in net : Receive(e) \/ Lose(e)
  BY <1>5, ReceiveKeeps, LoseKeeps
<1>6. ASSUME NEW s \in Side, Fill(s) \/ Handling(s) \/ Sweeping(s) \/ Crash(s) PROVE Inv'
  <2>1. CASE Fill(s)
    BY <2>1, FillAtAKeeps, FillAtBKeeps DEF Side
  <2>2. CASE Handling(s)
    BY <2>2, RefuseKeeps, HandleTextKeeps, HandleChunkKeeps, HandleAckKeeps DEF Handling
  <2>3. CASE Sweeping(s)
    BY <2>3, SweepReadKeeps, SweepTruncateKeeps, SweepFillKeeps DEF Sweeping
  <2>4. CASE Crash(s)
    BY <2>4, CrashKeeps
  <2> QED
    BY <1>6, <2>1, <2>2, <2>3, <2>4
<1>7. CASE \E f \in File : Quiet(f)
  BY <1>7, ClockKeeps
<1>8. CASE UNCHANGED vars
  <2>1. UNCHANGED <<item, send, net, seen, job, sweep, file, pending, stale, disk, expired, excused>>
    BY <1>8 DEF vars
  <2>2. Types'
    BY <2>1 DEF Inv, Types
  <2> QED
    BY <2>1, <2>2, AsideKeeps
<1> QED
  BY <1>1, <1>2, <1>3, <1>4, <1>5, <1>6, <1>7, <1>8 DEF Next

LEMMA InvCorrect == Spec => []Inv
BY InitHolds, StepKeeps, PTL DEF Spec

\* However often the relay hands an envelope over, wherever the program was
\* stopped, and however AppendHistory, MarkHistoryDelivered and PurgeExpired
\* (storage/history.go) run into each other, a message has one record in a
\* history file: for A because handleSendResultMsg saves what its goroutine has
\* done with, for B because markIncomingEnvelopeSeen writes the mark first.
THEOREM SavedAtMostOnceCorrect == Spec => []SavedAtMostOnce
<1>1. Inv => SavedAtMostOnce
  BY DEF Inv, Histories, FineSide, Fine, Distinct, SavedAtMostOnce
<1> QED
  BY <1>1, InvCorrect, PTL

\* A message of which B has marked every envelope as seen is in B's history, in
\* the hands of a goroutine that is to write it there, expired, or struck by a
\* failure that is named in the model.  The assembler (handleChunk) never sits
\* on a whole file, and a sweeper and an Update goroutine that read the history
\* before each other's write take nothing away that is not accounted for.
THEOREM NothingVanishesCorrect == Spec => []NothingVanishes
<1>1. Inv => NothingVanishes
  <2> SUFFICES ASSUME Inv, NEW m \in Message \ (expired \cup excused["B"]),
                      \A i \in Parts(m) : PartOf(m, i) \in seen, ~Handled(m)
               PROVE  Safe(m)
    BY DEF NothingVanishes, Safe, Handled
  <2>1. Live(m) /\ 1 \in Parts(m) /\ seen \subseteq Envelope
    BY Envelopes DEF Live, Inv, Types
  <2>2. \A i : ~Taken(m, i)
    BY Envelopes DEF Taken, Handled
  <2>3. CASE ~Safe(m)
    <3>1. \A i \in Parts(m) : m \in File /\ i \in pending[m]
      BY <2>1, <2>2, <2>3 DEF Inv, Incoming, NothingLost
    <3>2. m \in File /\ Parts(m) \subseteq pending[m]
      BY <2>1, <3>1
    <3>3. \A i \in pending[m] : PartOf(m, i) \in Envelope
      BY <2>1, <3>2 DEF Inv, Incoming, Assembling
    <3>4. pending[m] \subseteq Parts(m)
      BY <3>3, Envelopes
    <3> QED
      BY <3>2, <3>4 DEF Inv, Incoming, Assembling
  <2> QED
    BY <2>3
<1> QED
  BY <1>1, InvCorrect, PTL

\* An attachment that B's history names has all its chunks on the disk: the
\* record is written after SaveAttachment, and an incomplete file never is.
THEOREM RecordedFilesAreWholeCorrect == Spec => []RecordedFilesAreWhole
<1>1. Inv => RecordedFilesAreWhole
  <2> SUFFICES ASSUME Inv, NEW f \in File, Holds(file["B"], f) PROVE disk[f] = Parts(f)
    BY DEF RecordedFilesAreWhole
  <2>1. PICK k \in DOMAIN file["B"] : file["B"][k].msg = f
    BY DEF Holds
  <2>2. Good("B", file["B"][k])
    BY DEF Inv, Histories, FineSide, Fine, Holds, Side
  <2> QED
    BY <2>1, <2>2 DEF Good
<1> QED
  BY <1>1, InvCorrect, PTL

\* A delivery that A's transcript shows or A's history records was acked by B
\* for that very message, with crashes, reloads of the history and acks that
\* come twice or late (handleDeliveryAck, loadHistory).
THEOREM DeliveredWasTakenCorrect == Spec => []DeliveredWasTaken
<1>1. Inv => DeliveredWasTaken
  <2> SUFFICES ASSUME Inv, NEW m \in Message, file["A"] # Torn,
                      NEW k \in DOMAIN file["A"], file["A"][k] = Record(m, TRUE)
               PROVE  PartOf(m, 1) \in seen
    BY DEF DeliveredWasTaken, Inv, Earned
  <2>1. Good("A", file["A"][k])
    BY DEF Inv, Histories, FineSide, Fine, Side
  <2>2. Record(m, TRUE).msg = m /\ Record(m, TRUE).delivered
    BY DEF Record
  <2> QED
    BY <2>1, <2>2 DEF Good
<1> QED
  BY <1>1, InvCorrect, PTL

=============================================================================
