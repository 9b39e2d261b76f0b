------------------------- MODULE ProtectedStoreProofs -------------------------
(***************************************************************************)
(* Proofs about ProtectedStore, for any number of processes, passphrases,  *)
(* sessions, failures and crashes: what is unlocked is encrypted, opens    *)
(* with one passphrase, says something and is never begun anew.            *)
(***************************************************************************)
EXTENDS ProtectedStore, TLAPS

Content == [key : Passphrase \cup Marks, value : Nat]
Write == [path : File, value : Nat]
Cmds == {"none", "create", "device", "first", "contact", "enroll", "complete", "change"}
Job == [pc : {"idle", "migrate", "write", "fill", "ready", "done", "read"},
        pass : Passphrase \cup {Clear}, next : Passphrase \cup {Clear}, cmd : Cmds,
        todo : Seq(File), writes : Seq(Write)]

Types ==
    /\ file \in [File -> Content]
    /\ job \in [Proc -> Job]
    /\ known \subseteq File
    /\ made \in Nat /\ sessions \in Nat /\ faults \in Nat
    /\ struck \in BOOLEAN

\* What a process has, by how far it is.
Progress ==
    \A p \in Proc :
        /\ job[p].pc \in {"write", "fill"} => job[p].writes # <<>>
        /\ job[p].pc # "idle" => job[p].pass \in Passphrase
        /\ job[p].pc = "done" => job[p].cmd # "none" /\ job[p].writes = <<>>
        /\ job[p].pc \in {"idle", "migrate", "ready"} => job[p].cmd = "none"
        /\ job[p].cmd = "change" => p \notin Chat
        /\ job[p].pc = "read" => job[p].cmd = "change" /\ job[p].next \in Passphrase

\* What is in the clear beside a session, the session has yet to migrate.
Due(j, f) ==
    /\ j.cmd = "none" /\ j.pc # "ready"
    /\ \/ \E i \in 1..Len(j.todo) : j.todo[i] = f
       \/ j.pc = "write" /\ j.writes[1].path = f

ClearIsDue ==
    \A p \in Proc, f \in File : job[p].pc # "idle" /\ file[f].key = Clear => Due(job[p], f)

KnownIsThere == \A f \in known : file[f].key # "missing"

\* The sessions share a passphrase, and what one that changes it has yet to
\* write is all that may be under another.
OneKey ==
    ~struck =>
        /\ \A p, q \in Active : job[p].pass = job[q].pass
        /\ \A p, q \in Active : job[p].cmd = "change" => p = q
        /\ \A f \in File : Encrypted(f) => \A p \in Active :
              \/ file[f].key = job[p].pass
              \/ Rewrites(p) /\ \E i \in 1..Len(job[p].writes) : job[p].writes[i].path = f
        /\ (\A p \in Active : ~Rewrites(p)) =>
              \A f, g \in File : Encrypted(f) /\ Encrypted(g) => file[f].key = file[g].key

Inv == Types /\ Progress /\ ClearIsDue /\ KnownIsThere /\ OneKey

\* Whoever reads the files for a change finds each missing or sealed, and has
\* read it or has yet to.
ToRead(j) ==
    \A f \in File :
        \/ file[f].key = "missing"
        \/ /\ Encrypted(f)
           /\ \/ \E i \in 1..Len(j.todo) : j.todo[i] = f
              \/ \E i \in 1..Len(j.writes) : j.writes[i].path = f

Says(j) == \A i \in 1..Len(j.writes) : j.writes[i].value # 0

\* What is on disk or about to be says something.
Contents ==
    ~struck =>
        /\ \A f \in File : Whole(f) => file[f].value # 0
        /\ \A p \in Proc : Says(job[p]) /\ (job[p].pc = "read" => ToRead(job[p]))

-----------------------------------------------------------------------------
LEMMA KeysDiffer ==
  /\ Clear \notin Passphrase /\ "missing" \notin Passphrase /\ "torn" \notin Passphrase
  /\ Missing \in Content /\ Torn \in Content /\ Idle \in Job
  /\ Missing.key = "missing" /\ Torn.key = "torn"
  /\ Idle.pc = "idle" /\ Idle.cmd = "none"
  BY StoreAssumption DEF Marks, Clear, Missing, Torn, Content, Idle, Job, Cmds

LEMMA InitHolds == Init => Inv
<1> SUFFICES ASSUME Init PROVE Inv
  OBVIOUS
<1>1. file \in [File -> Content] /\ file["identity"].value \in Nat
      /\ \A f, g \in File : Encrypted(f) /\ Encrypted(g) => file[f].key = file[g].key
  BY StoreAssumption DEF Init, Content, Encrypted, File
<1>2. Types /\ Progress /\ ClearIsDue
  BY <1>1, KeysDiffer DEF Init, Types, Progress, ClearIsDue
<1>3. KnownIsThere
  BY DEF Init, KnownIsThere, Whole
<1>4. OneKey
  BY <1>1, KeysDiffer DEF Init, OneKey, Active
<1> QED
  BY <1>2, <1>3, <1>4 DEF Inv

\* Process p goes on, and no other process does anything.
Only(p) == job' \in [Proc -> Job] /\ \A q \in Proc \ {p} : job'[q] = job[q]

LEMMA BecomesJob ==
  ASSUME Inv, NEW p \in Proc, NEW j \in Job, job' = [job EXCEPT ![p] = j]
  PROVE  Only(p) /\ job'[p] = j
  BY DEF Inv, Types, Only

\* A session ends: a failed migration, a crash or the end of a command.
LEMMA LeavesKeeps ==
  ASSUME Inv, NEW p \in Proc, job[p].pc # "idle", job' = [job EXCEPT ![p] = Idle],
         UNCHANGED <<file, known, made, sessions>>, faults' \in Nat,
         struck' \in BOOLEAN, ~struck' => ~struck /\ ~Rewrites(p)
  PROVE  Inv'
<1>1. Only(p) /\ job'[p] = Idle
  BY BecomesJob, KeysDiffer
<1>2. Types' /\ Progress' /\ ClearIsDue' /\ KnownIsThere'
  BY <1>1, KeysDiffer DEF Inv, Types, Progress, ClearIsDue, KnownIsThere, Only
<1>3. OneKey'
  BY <1>1, KeysDiffer DEF Inv, OneKey, Only, Active, Encrypted, Rewrites
<1> QED
  BY <1>2, <1>3 DEF Inv

LEMMA CrashKeeps ==
  ASSUME Inv, NEW p \in Proc, Crash(p) PROVE Inv'
<1>1. /\ job[p].pc # "idle" /\ job' = [job EXCEPT ![p] = Idle] /\ faults' \in {faults, faults + 1}
      /\ UNCHANGED <<file, known, made, sessions>>
      /\ struck' = (struck \/ Rewrites(p))
  BY DEF Crash
<1>2. faults' \in Nat
  BY <1>1 DEF Inv, Types
<1>3. struck' \in BOOLEAN
  BY <1>1
<1>4. ~struck' => ~struck /\ ~Rewrites(p)
  BY <1>1
<1> QED
  BY <1>1, <1>2, <1>3, <1>4, LeavesKeeps

\* A step of a session that neither writes nor changes the passphrase.
LEMMA SameKeys ==
  ASSUME Inv, NEW p \in Proc, Only(p), job[p].pc # "idle", job'[p].pc # "idle",
         job'[p].pass = job[p].pass, ~Rewrites(p), ~Rewrites(p)',
         job'[p].cmd = "change" => job[p].cmd = "change",
         UNCHANGED <<file, struck>>
  PROVE  OneKey'
<1>1. Active' = Active
  BY DEF Active, Only
<1>2. \A q \in Active : /\ job'[q].pass = job[q].pass
                        /\ job'[q].cmd = "change" => job[q].cmd = "change"
                        /\ Rewrites(q)' <=> Rewrites(q)
                        /\ Rewrites(q) => job'[q] = job[q]
  BY DEF Active, Only, Rewrites
<1>3. \A f \in File : Encrypted(f)' <=> Encrypted(f)
  BY DEF Encrypted
<1> QED
  BY <1>1, <1>2, <1>3 DEF Inv, OneKey

\* A command of a session begins: one file to write.
LEMMA BeginsKeeps ==
  ASSUME Inv, NEW p \in Proc, job[p].pc = "ready",
         NEW cmd \in Cmds \ {"none", "change"}, NEW w \in Write, Begins(p, cmd, <<w>>),
         made' \in Nat, UNCHANGED <<file, known, sessions, faults, struck>>
  PROVE  Inv'
<1> DEFINE j == [job[p] EXCEPT !.pc = "write", !.cmd = cmd, !.writes = <<w>>]
<1>7. job[p] \in Job /\ <<w>> \in Seq(Write) /\ job[p].cmd = "none"
  BY DEF Inv, Types, Progress
<1>1. /\ j \in Job /\ j.pc = "write" /\ j.cmd = cmd /\ j.writes = <<w>>
      /\ j.pass = job[p].pass /\ j.todo = job[p].todo
  BY <1>7 DEF Job
<1>2. job' = [job EXCEPT ![p] = j]
  BY DEF Begins, Inv, Types
<1> HIDE DEF j
<1>3. Only(p) /\ job'[p] = j
  BY <1>1, <1>2, BecomesJob
<1>4. Types' /\ KnownIsThere'
  BY <1>3 DEF Inv, Types, KnownIsThere, Only
<1>8. \A f \in File : file[f].key # Clear
  BY DEF Inv, ClearIsDue, Due
<1>9. <<w>> # <<>>
  OBVIOUS
<1>5. Progress' /\ ClearIsDue'
  BY <1>1, <1>3, <1>8, <1>9 DEF Inv, Progress, ClearIsDue, Only
<1>6. OneKey'
  BY <1>1, <1>3, <1>7, SameKeys DEF Rewrites
<1> QED
  BY <1>4, <1>5, <1>6 DEF Inv

LEMMA FirstIsValidated ==
  ASSUME NEW k, Validates(k), NEW f \in File, Encrypted(f)
  PROVE  \E g \in File : Encrypted(g) /\ file[g].key = k
<1> DEFINE F(i) == Encrypted(Paths[i])
<1>1. Paths[1] = "identity" /\ Paths[2] = "contacts" /\ Paths[3] = "pending"
  BY DEF Paths
<1>2. CASE Encrypted("identity")
  BY <1>1, <1>2 DEF Validates, File
<1>3. CASE ~Encrypted("identity") /\ Encrypted("contacts")
  BY <1>1, <1>3 DEF Validates, File
<1>4. CASE ~Encrypted("identity") /\ ~Encrypted("contacts") /\ Encrypted("pending")
  BY <1>1, <1>4 DEF Validates, File
<1> QED
  BY <1>2, <1>3, <1>4 DEF File

LEMMA UnlockKeeps ==
  ASSUME Inv, NEW p \in Proc, NEW k \in Passphrase, Unlock(p, k) PROVE Inv'
<1> DEFINE j == [Idle EXCEPT !.pc = "migrate", !.pass = k, !.todo = ToMigrate]
<1>1. ToMigrate \in Seq(File) /\ \A f \in File : file[f].key = Clear =>
         \E i \in 1..Len(ToMigrate) : ToMigrate[i] = f
  <2>1. \A f \in File : \E i \in 1..Len(Paths) : Paths[i] = f
    BY DEF Paths, File
  <2>2. Paths \in Seq(File)
    BY DEF Paths, File
  <2>3. \A f \in File : file[f].key = Clear => State \in {"plaintext", "mixed"}
    BY DEF State, SomePlain, Plaintext
  <2>4. <<>> \in Seq(File)
    OBVIOUS
  <2> QED
    BY <2>1, <2>2, <2>3, <2>4 DEF ToMigrate
<1>2. /\ j \in Job /\ j.pc = "migrate" /\ j.pass = k /\ j.todo = ToMigrate /\ j.cmd = "none"
  <2>1. <<>> \in Seq(Write)
    OBVIOUS
  <2>2. ToMigrate \in Seq(File)
    BY <1>1
  <2> QED
    BY <2>1, <2>2 DEF Job, Idle, Cmds
<1>3. /\ job[p].pc = "idle" /\ job' = [job EXCEPT ![p] = j] /\ sessions' = sessions + 1
      /\ Validates(k) /\ UNCHANGED <<file, known, made, faults>>
      /\ struck' = (struck \/ \E q \in Active : State # "encrypted" \/ job[q].cmd = "change")
  BY DEF Unlock
<1> HIDE DEF j
<1>4. Only(p) /\ job'[p] = j
  BY <1>2, <1>3, BecomesJob
<1>5. struck' \in BOOLEAN
  BY <1>3
<1>6. Types' /\ KnownIsThere'
  BY <1>3, <1>4, <1>5 DEF Inv, Types, KnownIsThere, Only
<1>7. Progress' /\ ClearIsDue'
  BY <1>1, <1>2, <1>3, <1>4 DEF Inv, Progress, ClearIsDue, Due, Only
<1>8. OneKey'
  <2> SUFFICES ASSUME ~struck' PROVE OneKey'
    BY DEF OneKey
  <2>1. ~struck /\ \A q \in Active : State = "encrypted" /\ job[q].cmd # "change"
    BY <1>3
  <2>2. Active' = Active \cup {p} /\ p \notin Active
    BY <1>2, <1>3, <1>4 DEF Active, Only
  <2>3. \A f \in File : Encrypted(f)' <=> Encrypted(f)
    BY <1>3 DEF Encrypted
  <2>4. \A f \in File : Encrypted(f) => file[f].key = k
    BY <1>3, <2>1, FirstIsValidated DEF Inv, OneKey, Rewrites
  <2>5. \A q \in Active : job[q].pass = k
    <3>1. ASSUME NEW q \in Active PROVE \E f \in File : Encrypted(f)
      BY <2>1 DEF State, SomeSealed, SomePlain
    <3> QED
      BY <2>1, <2>4, <3>1 DEF Inv, OneKey, Rewrites
  <2>6. \A q \in Active : job'[q] = job[q]
    BY <1>4, <2>2 DEF Only, Active
  <2> QED
    BY <1>2, <1>3, <1>4, <2>1, <2>2, <2>3, <2>4, <2>5, <2>6 DEF OneKey, Rewrites
<1> QED
  BY <1>6, <1>7, <1>8 DEF Inv

LEMMA TailOfFiles ==
  ASSUME NEW s \in Seq(File), s # <<>>
  PROVE  /\ Head(s) \in File /\ Tail(s) \in Seq(File)
         /\ \A i \in 1..Len(s) :
               s[i] = Head(s) \/ \E n \in 1..Len(Tail(s)) : Tail(s)[n] = s[i]
<1>1. ASSUME NEW i \in 1..Len(s), i # 1
      PROVE  i - 1 \in 1..Len(Tail(s)) /\ Tail(s)[i - 1] = s[i]
  BY <1>1
<1>2. Head(s) \in File /\ Tail(s) \in Seq(File) /\ s[1] = Head(s)
  OBVIOUS
<1> QED
  BY <1>1, <1>2

LEMMA MigrateReadKeeps ==
  ASSUME Inv, NEW p \in Proc, MigrateRead(p) PROVE Inv'
<1> DEFINE s == job[p].todo
           f == Head(s)
           w == [path |-> f, value |-> file[f].value]
           j == [job[p] EXCEPT !.pc = "write", !.writes = <<w>>, !.todo = Tail(@)]
           k == [job[p] EXCEPT !.todo = Tail(@)]
<1>1. /\ job[p].pc = "migrate" /\ s # <<>>
      /\ UNCHANGED <<file, known, made, sessions, faults, struck>>
  BY DEF MigrateRead
<1>2. job[p] \in Job /\ s \in Seq(File) /\ job[p].cmd = "none" /\ job \in [Proc -> Job]
  BY <1>1 DEF Inv, Types, Progress, Job
<1>3. \/ job' = [job EXCEPT ![p] = Idle]
      \/ file[f].key = Clear /\ job' = [job EXCEPT ![p] = j]
      \/ file[f].key # Clear /\ job' = [job EXCEPT ![p] = k]
  BY <1>2 DEF MigrateRead
<1>4. /\ f \in File /\ Tail(s) \in Seq(File)
      /\ \A i \in 1..Len(s) : s[i] = f \/ \E n \in 1..Len(Tail(s)) : Tail(s)[n] = s[i]
  BY <1>1, <1>2, TailOfFiles
<1>5. w \in Write /\ w.path = f
  BY <1>4 DEF Inv, Types, Content, Write
<1>6. <<w>> \in Seq(Write) /\ <<w>> # <<>> /\ <<w>>[1] = w
  BY <1>5
<1>7. /\ j \in Job /\ j.pc = "write" /\ j.cmd = "none" /\ j.writes = <<w>>
      /\ j.pass = job[p].pass /\ j.todo = Tail(s)
  BY <1>2, <1>4, <1>6 DEF Job
<1>8. /\ k \in Job /\ k.pc = "migrate" /\ k.cmd = "none"
      /\ k.pass = job[p].pass /\ k.todo = Tail(s)
  BY <1>1, <1>2, <1>4 DEF Job
<1>9. \A g \in File : file[g].key = Clear =>
         g = f \/ \E n \in 1..Len(Tail(s)) : Tail(s)[n] = g
  <2>1. ASSUME NEW g \in File, file[g].key = Clear
        PROVE  \E i \in 1..Len(s) : s[i] = g
    BY <1>1, <2>1 DEF Inv, ClearIsDue, Due
  <2> QED
    BY <1>4, <2>1
<1>10. job[p].pass \in Passphrase
  BY <1>1 DEF Inv, Progress
<1> HIDE DEF j, k, w, f
<1>11. CASE job' = [job EXCEPT ![p] = Idle]
  BY <1>1, <1>2, <1>11, LeavesKeeps DEF Inv, Types, Rewrites
<1>12. CASE file[f].key = Clear /\ job' = [job EXCEPT ![p] = j]
  <2>1. Only(p) /\ job'[p] = j
    BY <1>7, <1>12, BecomesJob
  <2>2. Types' /\ KnownIsThere' /\ Progress'
    BY <1>1, <1>6, <1>7, <1>10, <2>1 DEF Inv, Types, KnownIsThere, Progress, Only
  <2>3. ClearIsDue'
    <3>1. j.writes[1].path = f
      BY <1>5, <1>6, <1>7
    <3>2. \A g \in File : file[g].key = Clear => Due(j, g)
      BY <1>7, <1>9, <3>1 DEF Due
    <3> QED
      BY <1>1, <2>1, <3>2 DEF Inv, ClearIsDue, Only
  <2>4. OneKey'
    BY <1>1, <1>2, <1>7, <2>1, SameKeys DEF Rewrites
  <2> QED
    BY <2>2, <2>3, <2>4 DEF Inv
<1>13. CASE file[f].key # Clear /\ job' = [job EXCEPT ![p] = k]
  <2>1. Only(p) /\ job'[p] = k
    BY <1>8, <1>13, BecomesJob
  <2>2. Types' /\ KnownIsThere' /\ Progress'
    BY <1>1, <1>8, <1>10, <2>1 DEF Inv, Types, KnownIsThere, Progress, Only
  <2>3. ClearIsDue'
    <3>1. \A g \in File : file[g].key = Clear => Due(k, g)
      BY <1>8, <1>9, <1>13 DEF Due
    <3> QED
      BY <1>1, <2>1, <3>1 DEF Inv, ClearIsDue, Only
  <2>4. OneKey'
    BY <1>1, <1>2, <1>8, <2>1, SameKeys DEF Rewrites
  <2> QED
    BY <2>2, <2>3, <2>4 DEF Inv
<1> QED
  BY <1>3, <1>11, <1>12, <1>13

LEMMA MigratedKeeps ==
  ASSUME Inv, NEW p \in Proc, Migrated(p) PROVE Inv'
<1> DEFINE j == [job[p] EXCEPT !.pc = "ready"]
<1>1. /\ job[p].pc = "migrate" /\ job[p].todo = <<>> /\ job[p] \in Job /\ job[p].cmd = "none"
      /\ UNCHANGED <<file, known, made, sessions, faults, struck>>
      /\ job' = [job EXCEPT ![p] = j]
  BY DEF Migrated, Inv, Types, Progress
<1>2. /\ j \in Job /\ j.pc = "ready" /\ j.cmd = "none" /\ j.pass = job[p].pass
  BY <1>1 DEF Job
<1> HIDE DEF j
<1>3. Only(p) /\ job'[p] = j
  BY <1>1, <1>2, BecomesJob
<1>4. Types' /\ KnownIsThere' /\ Progress'
  BY <1>1, <1>2, <1>3 DEF Inv, Types, KnownIsThere, Progress, Only
<1>5. ClearIsDue'
  BY <1>1, <1>3 DEF Inv, ClearIsDue, Due, Only
<1>6. OneKey'
  BY <1>1, <1>2, <1>3, SameKeys DEF Rewrites
<1> QED
  BY <1>4, <1>5, <1>6 DEF Inv

LEMMA CommandsKeep ==
  ASSUME Inv, NEW p \in Proc,
         \/ LoadOrCreateIdentity(p) \/ SaveIdentity(p) \/ SaveContact(p)
         \/ CreateEnrollment(p) \/ CompleteEnrollment(p)
  PROVE  Inv'
<1>1. "identity" \in File /\ "contacts" \in File /\ "pending" \in File
  BY DEF File
<1>2. /\ made \in Nat /\ file["identity"].value \in Nat /\ file["contacts"].value \in Nat
  BY <1>1 DEF Inv, Types, Content
<1>3. CASE LoadOrCreateIdentity(p)
  <2>1. [path |-> "identity", value |-> made + 1] \in Write
    BY <1>1, <1>2 DEF Write
  <2> QED
    BY <1>2, <1>3, <2>1, BeginsKeeps DEF LoadOrCreateIdentity, Cmds
<1>4. CASE SaveIdentity(p)
  <2>1. [path |-> "identity", value |-> file["identity"].value] \in Write
    BY <1>1, <1>2 DEF Write
  <2> QED
    BY <1>2, <1>4, <2>1, BeginsKeeps DEF SaveIdentity, Cmds
<1>5. CASE SaveContact(p)
  <2> DEFINE cmd == IF file["contacts"] = Missing THEN "first" ELSE "contact"
  <2>1. [path |-> "contacts", value |-> file["contacts"].value + 1] \in Write
    BY <1>1, <1>2 DEF Write
  <2>2. cmd \in Cmds \ {"none", "change"}
    BY DEF Cmds
  <2>3. /\ job[p].pc = "ready" /\ made' = made /\ UNCHANGED <<file, known, sessions, faults, struck>>
        /\ Begins(p, cmd, <<[path |-> "contacts", value |-> file["contacts"].value + 1]>>)
    BY <1>5 DEF SaveContact
  <2> HIDE DEF cmd
  <2> QED
    BY <1>2, <2>1, <2>2, <2>3, BeginsKeeps
<1>6. CASE CreateEnrollment(p)
  <2>1. [path |-> "pending", value |-> 1] \in Write
    BY <1>1 DEF Write
  <2> QED
    BY <1>2, <1>6, <2>1, BeginsKeeps DEF CreateEnrollment, Cmds
<1>7. CASE CompleteEnrollment(p)
  <2>1. [path |-> "identity", value |-> made + 1] \in Write
    BY <1>1, <1>2 DEF Write
  <2> QED
    BY <1>2, <1>7, <2>1, BeginsKeeps DEF CompleteEnrollment, Cmds
<1> QED
  BY <1>3, <1>4, <1>5, <1>6, <1>7

LEMMA BeginChangeKeeps ==
  ASSUME Inv, NEW p \in Proc, NEW k \in Passphrase, BeginChange(p, k) PROVE Inv'
<1> DEFINE j == [job[p] EXCEPT !.pc = "read", !.cmd = "change", !.next = k,
                               !.todo = Changed, !.writes = <<>>]
<1>1. /\ job[p].pc = "ready" /\ p \notin Chat /\ State \notin {"plaintext", "mixed"}
      /\ struck' = (struck \/ Active # {p}) /\ job[p] \in Job
      /\ UNCHANGED <<file, known, made, sessions, faults>>
      /\ job' = [job EXCEPT ![p] = j]
  BY DEF BeginChange, Inv, Types
<1>2. Changed \in Seq(File) /\ <<>> \in Seq(Write)
  BY DEF Changed, Paths, File
<1>3. /\ j \in Job /\ j.pc = "read" /\ j.cmd = "change" /\ j.pass = job[p].pass /\ j.next = k
  BY <1>1, <1>2 DEF Job, Cmds
<1> HIDE DEF j
<1>4. Only(p) /\ job'[p] = j
  BY <1>1, <1>3, BecomesJob
<1>5. \A f \in File : file[f].key # Clear
  BY <1>1 DEF State, SomePlain, Plaintext
<1>6. struck' \in BOOLEAN
  BY <1>1
<1>7. Types' /\ KnownIsThere' /\ ClearIsDue' /\ Progress'
  BY <1>1, <1>3, <1>4, <1>5, <1>6 DEF Inv, Types, KnownIsThere, ClearIsDue, Progress, Only
<1>8. OneKey'
  <2> SUFFICES ASSUME ~struck' PROVE OneKey'
    BY DEF OneKey
  <2>1. Active = {p} /\ Active' = {p}
    BY <1>1, <1>3, <1>4 DEF Active, Only
  <2>2. ~Rewrites(p) /\ ~Rewrites(p)'
    BY <1>1, <1>3, <1>4 DEF Rewrites, Inv, Progress
  <2> QED
    BY <1>1, <1>3, <1>4, <2>1, <2>2 DEF Inv, OneKey, Encrypted
<1> QED
  BY <1>7, <1>8 DEF Inv

\* The step that reads a file for a change, for what it does to the job.
LEMMA ReadsOne ==
  ASSUME Inv, NEW p \in Proc, ReadForChange(p)
  PROVE  \/ job' = [job EXCEPT ![p] = Idle]
         \/ \E j \in Job :
              /\ job' = [job EXCEPT ![p] = j] /\ j.pc = "read" /\ j.cmd = "change"
              /\ j.pass = job[p].pass /\ j.next = job[p].next
              /\ j.todo = Tail(job[p].todo)
              /\ \/ j.writes = job[p].writes /\ file[Head(job[p].todo)].key = "missing"
                 \/ /\ file[Head(job[p].todo)].key \in {Clear, "torn", job[p].pass}
                    /\ j.writes = Append(job[p].writes,
                          [path |-> Head(job[p].todo), value |-> file[Head(job[p].todo)].value])
<1> DEFINE s == job[p].todo
           f == Head(s)
           w == [path |-> f, value |-> file[f].value]
           i == [job[p] EXCEPT !.todo = Tail(@)]
           j == [job[p] EXCEPT !.writes = Append(@, w), !.todo = Tail(@)]
<1>1. /\ job[p].pc = "read" /\ s # <<>> /\ job[p] \in Job /\ s \in Seq(File)
      /\ job[p].writes \in Seq(Write) /\ job[p].cmd = "change"
  BY DEF ReadForChange, Inv, Types, Progress, Job
<1>2. f \in File /\ Tail(s) \in Seq(File)
  BY <1>1, TailOfFiles
<1>3. w \in Write
  BY <1>2 DEF Inv, Types, Content, Write
<1>4. Append(job[p].writes, w) \in Seq(Write)
  BY <1>1, <1>3
<1>5. /\ i \in Job /\ i.pc = "read" /\ i.cmd = "change" /\ i.pass = job[p].pass
      /\ i.next = job[p].next /\ i.todo = Tail(s) /\ i.writes = job[p].writes
  BY <1>1, <1>2 DEF Job
<1>6. /\ j \in Job /\ j.pc = "read" /\ j.cmd = "change" /\ j.pass = job[p].pass
      /\ j.next = job[p].next /\ j.todo = Tail(s) /\ j.writes = Append(job[p].writes, w)
  BY <1>1, <1>2, <1>4 DEF Job
<1>7. \/ job' = [job EXCEPT ![p] = Idle]
      \/ file[f].key = "missing" /\ job' = [job EXCEPT ![p] = i]
      \/ file[f].key \in {Clear, "torn", job[p].pass} /\ job' = [job EXCEPT ![p] = j]
  BY DEF ReadForChange, Inv, Types
<1> QED
  BY <1>5, <1>6, <1>7

LEMMA ReadForChangeKeeps ==
  ASSUME Inv, NEW p \in Proc, ReadForChange(p) PROVE Inv'
<1>1. /\ job[p].pc = "read" /\ job[p].cmd = "change" /\ job[p].pass \in Passphrase
      /\ job[p].next \in Passphrase /\ p \notin Chat
      /\ UNCHANGED <<file, known, made, sessions, faults, struck>>
  BY DEF ReadForChange, Inv, Progress
<1>2. CASE job' = [job EXCEPT ![p] = Idle]
  BY <1>1, <1>2, LeavesKeeps DEF Inv, Types, Rewrites
<1>3. ASSUME NEW j \in Job, job' = [job EXCEPT ![p] = j], j.pc = "read", j.cmd = "change",
             j.pass = job[p].pass, j.next = job[p].next
      PROVE  Inv'
  <2>1. Only(p) /\ job'[p] = j
    BY <1>3, BecomesJob
  <2>2. Types' /\ KnownIsThere' /\ Progress'
    BY <1>1, <1>3, <2>1 DEF Inv, Types, KnownIsThere, Progress, Only
  <2>3. ClearIsDue'
    <3>1. \A f \in File : file[f].key # Clear
      BY <1>1 DEF Inv, ClearIsDue, Due
    <3> QED
      BY <1>1, <3>1 DEF ClearIsDue
  <2>4. OneKey'
    BY <1>1, <1>3, <2>1, SameKeys DEF Rewrites
  <2> QED
    BY <2>2, <2>3, <2>4 DEF Inv
<1> QED
  BY <1>2, <1>3, ReadsOne

LEMMA SwitchKeeps ==
  ASSUME Inv, Contents, NEW p \in Proc, SwitchPassphrase(p) PROVE Inv'
<1> DEFINE j == [job[p] EXCEPT !.pc = IF job[p].writes = <<>> THEN "done" ELSE "write",
                               !.pass = job[p].next]
<1>1. /\ job[p].pc = "read" /\ job[p].todo = <<>> /\ job[p].cmd = "change"
      /\ job[p].next \in Passphrase /\ job[p] \in Job /\ p \notin Chat
      /\ UNCHANGED <<file, known, made, sessions, faults, struck>>
      /\ job' = [job EXCEPT ![p] = j]
  BY DEF SwitchPassphrase, Inv, Types, Progress
<1>2. /\ j \in Job /\ j.cmd = "change" /\ j.writes = job[p].writes
      /\ j.pass = job[p].next /\ j.pc \in {"write", "done"}
      /\ (j.pc = "done" <=> j.writes = <<>>)
  BY <1>1 DEF Job
<1> HIDE DEF j
<1>3. Only(p) /\ job'[p] = j
  BY <1>1, <1>2, BecomesJob
<1>4. \A f \in File : file[f].key # Clear
  BY <1>1 DEF Inv, ClearIsDue, Due
<1>5. Types' /\ KnownIsThere' /\ ClearIsDue' /\ Progress'
  BY <1>1, <1>2, <1>3, <1>4 DEF Inv, Types, KnownIsThere, ClearIsDue, Progress, Only
<1>6. OneKey'
  <2> SUFFICES ASSUME ~struck PROVE OneKey'
    BY <1>1 DEF OneKey
  <2>1. Active' = {p}
    BY <1>1, <1>2, <1>3 DEF Active, Only, Inv, OneKey
  <2>2. Len(<<>>) = 0
    OBVIOUS
  <2>3. \A f \in File : Encrypted(f)' => \E i \in 1..Len(j.writes) : j.writes[i].path = f
    BY <1>1, <1>2, <2>2, KeysDiffer DEF Contents, ToRead, Encrypted
  <2>4. Rewrites(p)'
    BY <1>2, <1>3 DEF Rewrites
  <2> QED
    BY <1>2, <1>3, <2>1, <2>3, <2>4 DEF OneKey
<1> QED
  BY <1>5, <1>6 DEF Inv

\* A write ends, well or not: nothing is under another key than before.
LEMMA EndKeepsKeys ==
  ASSUME Inv, NEW p \in Proc, Only(p), job[p].pc # "idle", job'[p].cmd = "none",
         job'[p].pc # "idle" => job'[p].pass = job[p].pass,
         \A f \in File : Encrypted(f)' => Encrypted(f) /\ file'[f].key = file[f].key,
         ~struck' => ~struck /\ (Rewrites(p) => job[p].writes = <<>>)
  PROVE  OneKey'
<1> SUFFICES ASSUME ~struck' PROVE OneKey'
  BY DEF OneKey
<1>1. p \in Active /\ Active' \subseteq Active
  BY DEF Active, Only
<1>2. \A q \in Active' \ {p} : job'[q] = job[q]
  BY <1>1 DEF Active, Only
<1>3. \A q \in Active \ {p} : q \in Active'
  BY DEF Active, Only
<1>4. \A q \in Active' : job'[q].pass = job[q].pass
  BY <1>2 DEF Active
<1>11. ~Rewrites(p)' /\ \A q \in Active' \ {p} : Rewrites(q)' <=> Rewrites(q)
  BY <1>2 DEF Rewrites
<1>5. Len(<<>>) = 0
  OBVIOUS
<1>6. Rewrites(p) => \A f \in File : Encrypted(f) => file[f].key = job[p].pass
  BY <1>1, <1>5 DEF Inv, OneKey
<1>7. (\A q \in Active' : ~Rewrites(q)') =>
         \A f, g \in File : Encrypted(f) /\ Encrypted(g) => file[f].key = file[g].key
  <2> SUFFICES ASSUME \A q \in Active' : ~Rewrites(q)'
               PROVE  \A f, g \in File : Encrypted(f) /\ Encrypted(g) => file[f].key = file[g].key
    OBVIOUS
  <2>1. CASE Rewrites(p)
    BY <1>6, <2>1
  <2>2. CASE ~Rewrites(p)
    BY <1>2, <1>3, <1>11, <2>2 DEF Inv, OneKey
  <2> QED
    BY <2>1, <2>2
<1>8. \A f \in File : Encrypted(f)' => \A q \in Active' :
         \/ file'[f].key = job'[q].pass
         \/ Rewrites(q)' /\ \E i \in 1..Len(job'[q].writes) : job'[q].writes[i].path = f
  <2> SUFFICES ASSUME NEW f \in File, Encrypted(f)', NEW q \in Active'
               PROVE  \/ file'[f].key = job'[q].pass
                      \/ Rewrites(q)' /\ \E i \in 1..Len(job'[q].writes) : job'[q].writes[i].path = f
    OBVIOUS
  <2>1. CASE q = p
    BY <1>1, <1>4, <1>6, <1>11, <2>1 DEF Inv, OneKey
  <2>2. CASE q # p
    BY <1>1, <1>2, <1>11, <2>2 DEF Inv, OneKey
  <2> QED
    BY <2>1, <2>2
<1>9. \A q, r \in Active' : job'[q].pass = job'[r].pass
  BY <1>1, <1>4 DEF Inv, OneKey
<1>10. \A q, r \in Active' : job'[q].cmd = "change" => q = r
  BY <1>1, <1>2 DEF Inv, OneKey
<1> QED
  BY <1>7, <1>8, <1>9, <1>10 DEF OneKey

LEMMA RestIsIdleOrReady ==
  ASSUME Inv, NEW p \in Proc, job[p].pc # "idle",
         p \in Chat => job[p].cmd # "change"
  PROVE  LET j == Rest(p, job[p]) IN
         /\ j \in Job /\ j.cmd = "none" /\ j.pc \in {"idle", "ready"}
         /\ j.pc # "idle" => j.pass = job[p].pass
<1>1. job[p] \in Job /\ <<>> \in Seq(Write)
  BY DEF Inv, Types
<1> QED
  BY <1>1, KeysDiffer DEF Rest, Job, Cmds

\* After a write, whatever it was: the process rests or is gone.
LEMMA RestKeeps ==
  ASSUME Inv, NEW p \in Proc, job[p].pc # "idle", NEW j \in Job,
         job' = [job EXCEPT ![p] = j], j.cmd = "none", j.pc \in {"idle", "ready"},
         j.pc # "idle" => j.pass = job[p].pass /\ job[p].cmd # "none",
         file' \in [File -> Content], known' \subseteq known,
         \A f \in File : file'[f] = file[f] \/ (file'[f] = Missing /\ f \notin known'),
         UNCHANGED <<made, sessions>>, faults' \in Nat, struck' \in BOOLEAN,
         ~struck' => ~struck /\ (Rewrites(p) => job[p].writes = <<>>)
  PROVE  Inv'
<1>1. Only(p) /\ job'[p] = j
  BY BecomesJob
<1>2. Types'
  BY <1>1 DEF Inv, Types, Only
<1>3. KnownIsThere'
  BY DEF Inv, Types, KnownIsThere
<1>4. job[p].pass \in Passphrase
  BY DEF Inv, Progress
<1>5. Progress'
  BY <1>1, <1>4 DEF Inv, Progress, Only
<1>6. \A f \in File : file'[f].key = Clear => file[f].key = Clear
  BY KeysDiffer DEF Clear
<1>7. ClearIsDue'
  <2>1. \A f \in File : j.pc # "idle" => file'[f].key # Clear
    BY <1>6 DEF Inv, ClearIsDue, Due
  <2> QED
    BY <1>1, <1>6, <2>1 DEF Inv, ClearIsDue, Only
<1>8. \A f \in File : Encrypted(f)' => Encrypted(f) /\ file'[f].key = file[f].key
  BY KeysDiffer DEF Encrypted
<1>9. OneKey'
  BY <1>1, <1>8, EndKeepsKeys
<1> QED
  BY <1>2, <1>3, <1>5, <1>7, <1>9 DEF Inv

LEMMA FinishKeeps ==
  ASSUME Inv, NEW p \in Proc, Finish(p) PROVE Inv'
<1>1. /\ job[p].pc = "done" /\ job' = [job EXCEPT ![p] = Rest(p, job[p])]
      /\ UNCHANGED <<made, sessions, faults, struck>>
  BY DEF Finish, Inv, Types
<1>2. job[p].cmd # "none" /\ job[p].writes = <<>> /\ (p \in Chat => job[p].cmd # "change")
  BY <1>1 DEF Inv, Progress
<1>3. "pending" \in File
  BY DEF File
<1>4. /\ file' \in [File -> Content] /\ known' \subseteq known
      /\ \A f \in File : file'[f] = file[f] \/ (file'[f] = Missing /\ f \notin known')
  <2>1. CASE job[p].cmd = "complete"
    <3>1. file' = [file EXCEPT !["pending"] = Missing] /\ known' = known \ {"pending"}
      BY <2>1 DEF Finish
    <3>2. file \in [File -> Content]
      BY DEF Inv, Types
    <3> QED
      BY <1>3, <3>1, <3>2, KeysDiffer
  <2>2. CASE job[p].cmd # "complete"
    BY <2>2 DEF Finish, Inv, Types
  <2> QED
    BY <2>1, <2>2
<1>5. faults' \in Nat /\ struck' \in BOOLEAN
  BY <1>1 DEF Inv, Types
<1> DEFINE j == Rest(p, job[p])
<1>6. /\ j \in Job /\ j.cmd = "none" /\ j.pc \in {"idle", "ready"}
      /\ j.pc # "idle" => j.pass = job[p].pass
  BY <1>1, <1>2, RestIsIdleOrReady
<1> HIDE DEF j
<1> QED
  BY <1>1, <1>2, <1>4, <1>5, <1>6, RestKeeps DEF j

LEMMA WriteFailsKeeps ==
  ASSUME Inv, NEW p \in Proc, WriteFails(p) PROVE Inv'
<1> DEFINE j == IF job[p].cmd = "none" THEN Idle ELSE Rest(p, job[p])
<1>1. /\ job[p].pc # "idle" /\ job' = [job EXCEPT ![p] = j] /\ faults' = faults + 1
      /\ UNCHANGED <<file, known, made, sessions>>
      /\ struck' = (struck \/ Rewrites(p))
  BY DEF WriteFails, Inv, Types
<1>2. /\ faults' \in Nat /\ file' \in [File -> Content] /\ known' \subseteq known
      /\ \A f \in File : file'[f] = file[f]
  BY <1>1 DEF Inv, Types
<1>3. struck' \in BOOLEAN /\ (~struck' => ~struck /\ ~Rewrites(p))
  BY <1>1
<1>4. p \in Chat => job[p].cmd # "change"
  BY DEF Inv, Progress
<1>5. /\ j \in Job /\ j.cmd = "none" /\ j.pc \in {"idle", "ready"}
      /\ j.pc # "idle" => j.pass = job[p].pass /\ job[p].cmd # "none"
  BY <1>1, <1>4, KeysDiffer, RestIsIdleOrReady
<1>6. \A f \in File : file'[f] = file[f] \/ (file'[f] = Missing /\ f \notin known')
  BY <1>2
<1>7. ~struck' => ~struck /\ (Rewrites(p) => job[p].writes = <<>>)
  BY <1>3
<1> HIDE DEF j
<1> QED
  BY <1>1, <1>2, <1>3, <1>5, <1>6, <1>7, RestKeeps

LEMMA EjectKeeps ==
  ASSUME Inv, NEW p \in Proc, Eject(p) PROVE Inv'
<1>1. /\ file' = [f \in File |-> Missing] /\ known' = {} /\ sessions' = sessions + 1
      /\ UNCHANGED <<job, made, faults, struck>>
  BY DEF Eject
<1>2. \A f \in File : ~Encrypted(f)' /\ file'[f].key # Clear
  BY <1>1, KeysDiffer DEF Encrypted, Clear
<1>3. Types' /\ Progress' /\ KnownIsThere'
  BY <1>1, KeysDiffer DEF Inv, Types, Progress, KnownIsThere
<1>4. ClearIsDue'
  BY <1>2 DEF ClearIsDue
<1>5. Active' = Active
  BY <1>1 DEF Active
<1>6. OneKey'
  BY <1>1, <1>2, <1>5 DEF Inv, OneKey, Rewrites
<1> QED
  BY <1>3, <1>4, <1>6 DEF Inv

LEMMA TailOfWrites ==
  ASSUME NEW s \in Seq(Write), s # <<>>
  PROVE  /\ s[1] \in Write /\ s[1].path \in File /\ Tail(s) \in Seq(Write)
         /\ \A i \in 1..Len(s) :
               i = 1 \/ \E n \in 1..Len(Tail(s)) : Tail(s)[n] = s[i]
<1>1. ASSUME NEW i \in 1..Len(s), i # 1
      PROVE  i - 1 \in 1..Len(Tail(s)) /\ Tail(s)[i - 1] = s[i]
  BY <1>1
<1>2. s[1] \in Write /\ Tail(s) \in Seq(Write)
  OBVIOUS
<1> QED
  BY <1>1, <1>2 DEF Write

LEMMA TruncateKeeps ==
  ASSUME Inv, NEW p \in Proc, Truncate(p) PROVE Inv'
<1> DEFINE j == [job[p] EXCEPT !.pc = "fill"]
           w == job[p].writes[1]
<1>1. /\ job[p].pc = "write" /\ job[p].writes # <<>> /\ job[p] \in Job
      /\ UNCHANGED <<known, made, sessions, faults, struck>>
      /\ job' = [job EXCEPT ![p] = j] /\ file' = [file EXCEPT ![w.path] = Torn]
  BY DEF Truncate, Inv, Types, Progress
<1>2. job[p].writes \in Seq(Write)
  BY <1>1 DEF Job
<1>3. w \in Write /\ w.path \in File
  BY <1>1, <1>2, TailOfWrites
<1>4. /\ j \in Job /\ j.pc = "fill" /\ j.cmd = job[p].cmd /\ j.pass = job[p].pass
      /\ j.todo = job[p].todo /\ j.writes = job[p].writes
  BY <1>1 DEF Job
<1> HIDE DEF j
<1>5. Only(p) /\ job'[p] = j
  BY <1>1, <1>4, BecomesJob
<1>6. /\ file' \in [File -> Content] /\ file'[w.path] = Torn
      /\ \A f \in File \ {w.path} : file'[f] = file[f]
  BY <1>1, <1>3, KeysDiffer DEF Inv, Types
<1>7. \A f \in File : file'[f].key = Clear => f # w.path /\ file[f].key = Clear
  BY <1>6, KeysDiffer DEF Clear
<1>8. \A f \in File : Encrypted(f)' => Encrypted(f) /\ file'[f].key = file[f].key
  BY <1>6, KeysDiffer DEF Encrypted
<1> HIDE DEF w
<1>9. Types'
  BY <1>1, <1>5, <1>6 DEF Inv, Types, Only
<1>10. Progress'
  BY <1>1, <1>4, <1>5 DEF Inv, Progress, Only
<1>11. KnownIsThere'
  BY <1>1, <1>6, KeysDiffer DEF Inv, Types, KnownIsThere
<1>12. ClearIsDue'
  <2>1. ASSUME NEW f \in File, file'[f].key = Clear PROVE Due(j, f)
    <3>1. Due(job[p], f)
      BY <1>1, <1>7, <2>1 DEF Inv, ClearIsDue
    <3> QED
      BY <1>1, <1>4, <1>7, <2>1, <3>1 DEF Due, w
  <2> QED
    BY <1>5, <1>7, <2>1 DEF Inv, ClearIsDue, Only
<1>13. OneKey'
  <2> SUFFICES ASSUME ~struck PROVE OneKey'
    BY <1>1 DEF OneKey
  <2>1. Active' = Active
    BY <1>1, <1>4, <1>5 DEF Active, Only
  <2>2. \A q \in Active : /\ job'[q].pass = job[q].pass /\ job'[q].cmd = job[q].cmd
                          /\ job'[q].writes = job[q].writes /\ Rewrites(q)' = Rewrites(q)
    BY <1>1, <1>4, <1>5 DEF Active, Only, Rewrites
  <2> QED
    BY <1>8, <2>1, <2>2 DEF Inv, OneKey
<1> QED
  BY <1>9, <1>10, <1>11, <1>12, <1>13 DEF Inv

LEMMA FillKeeps ==
  ASSUME Inv, NEW p \in Proc, Fill(p) PROVE Inv'
<1> DEFINE s == job[p].writes
           w == s[1]
           sealed == [key |-> job[p].pass, value |-> w.value]
           left == Tail(s)
           pc == IF left # <<>> THEN "write" ELSE IF job[p].cmd = "none" THEN "migrate" ELSE "done"
           j == [job[p] EXCEPT !.writes = left, !.pc = pc]
<1>1. /\ job[p].pc = "fill" /\ s # <<>> /\ job[p] \in Job /\ job[p].pass \in Passphrase
      /\ UNCHANGED <<made, sessions, faults, struck>>
      /\ job' = [job EXCEPT ![p] = j] /\ known' = known \cup {w.path}
      /\ file' = [file EXCEPT ![w.path] = sealed]
  BY DEF Fill, Inv, Types, Progress
<1>2. s \in Seq(Write)
  BY <1>1 DEF Job
<1>3. /\ w \in Write /\ w.path \in File /\ left \in Seq(Write)
      /\ \A i \in 1..Len(s) : i = 1 \/ \E n \in 1..Len(left) : left[n] = s[i]
  BY <1>1, <1>2, TailOfWrites
<1>4. sealed \in Content /\ sealed.key = job[p].pass
  BY <1>1, <1>3 DEF Content, Write
<1> HIDE DEF sealed, left
<1>5. /\ pc \in {"write", "migrate", "done"} /\ (pc = "write" <=> left # <<>>)
      /\ (pc = "migrate" => job[p].cmd = "none") /\ (pc = "done" => job[p].cmd # "none")
  OBVIOUS
<1> HIDE DEF pc
<1>6. /\ j \in Job /\ j.pc = pc /\ j.cmd = job[p].cmd /\ j.pass = job[p].pass
      /\ j.todo = job[p].todo /\ j.writes = left
  BY <1>1, <1>3, <1>5 DEF Job
<1> HIDE DEF j
<1>7. Only(p) /\ job'[p] = j
  BY <1>1, <1>6, BecomesJob
<1>8. /\ file' \in [File -> Content] /\ file'[w.path] = sealed
      /\ \A f \in File \ {w.path} : file'[f] = file[f]
  BY <1>1, <1>3, <1>4 DEF Inv, Types
<1>9. \A f \in File : file'[f].key = Clear => file[f].key = Clear
  BY <1>1, <1>4, <1>8, KeysDiffer
<1>10. \A f \in File : Encrypted(f)' =>
          \/ f = w.path /\ file'[f].key = job[p].pass
          \/ f # w.path /\ Encrypted(f) /\ file'[f].key = file[f].key
  BY <1>4, <1>8 DEF Encrypted
<1>11. Types'
  BY <1>1, <1>3, <1>7, <1>8 DEF Inv, Types, Only
<1>12. Progress'
  BY <1>1, <1>5, <1>6, <1>7 DEF Inv, Progress, Only
<1>13. KnownIsThere'
  BY <1>1, <1>3, <1>4, <1>8, KeysDiffer DEF Inv, Types, KnownIsThere
<1>14. ClearIsDue'
  <2>1. ASSUME NEW f \in File, file'[f].key = Clear PROVE Due(j, f)
    <3>1. Due(job[p], f)
      BY <1>1, <1>9, <2>1 DEF Inv, ClearIsDue
    <3> QED
      BY <1>1, <1>5, <1>6, <3>1 DEF Due
  <2> QED
    BY <1>7, <1>9, <2>1 DEF Inv, ClearIsDue, Only
<1>15. OneKey'
  <2> SUFFICES ASSUME ~struck PROVE OneKey'
    BY <1>1 DEF OneKey
  <2>1. Active' = Active /\ p \in Active
    BY <1>1, <1>5, <1>6, <1>7 DEF Active, Only
  <2>2. \A q \in Active : /\ job'[q].pass = job[q].pass /\ job'[q].cmd = job[q].cmd
                          /\ q # p => job'[q] = job[q]
                          /\ Rewrites(q)' = Rewrites(q)
    BY <1>1, <1>5, <1>6, <1>7 DEF Active, Only, Rewrites
  <2>3. \A q \in Active : job[q].pass = job[p].pass
    BY <2>1 DEF Inv, OneKey
  <2>4. ASSUME NEW f \in File, Encrypted(f)', NEW q \in Active
        PROVE  \/ file'[f].key = job'[q].pass
               \/ Rewrites(q)' /\ \E i \in 1..Len(job'[q].writes) : job'[q].writes[i].path = f
    <3>1. CASE f = w.path
      BY <1>10, <2>2, <2>3, <2>4, <3>1
    <3>2. CASE f # w.path /\ q # p
      BY <1>10, <2>2, <2>4, <3>2 DEF Inv, OneKey
    <3>3. CASE f # w.path /\ q = p
      <4>1. \/ file[f].key = job[p].pass
            \/ Rewrites(p) /\ \E i \in 1..Len(s) : s[i].path = f
        BY <1>10, <2>1, <2>4, <3>3 DEF Inv, OneKey
      <4>2. (\E i \in 1..Len(s) : s[i].path = f) => \E n \in 1..Len(left) : left[n].path = f
        BY <1>3, <3>3
      <4> QED
        BY <1>6, <1>7, <1>10, <2>1, <2>2, <2>4, <3>3, <4>1, <4>2
    <3> QED
      BY <3>1, <3>2, <3>3
  <2>5. ASSUME \A q \in Active : ~Rewrites(q),
               NEW f \in File, Encrypted(f)'
        PROVE  file'[f].key = job[p].pass
    BY <2>1, <2>2, <2>4, <2>5
  <2> QED
    BY <2>1, <2>2, <2>4, <2>5 DEF Inv, OneKey
<1> QED
  BY <1>11, <1>12, <1>13, <1>14, <1>15 DEF Inv

-----------------------------------------------------------------------------
\* What is on disk says something.

\* Process p goes on: what it has read or writes says something, and either
\* the files are as they were or nobody reads them for a change.
LEMMA ContentsOfOne ==
  ASSUME Inv, Contents, NEW p \in Proc, Only(p), ~struck' => ~struck,
         ~struck' => Says(job'[p]),
         ~struck' => \A f \in File : Whole(f)' => file'[f].value # 0,
         \/ UNCHANGED file /\ (~struck' /\ job'[p].pc = "read" => ToRead(job'[p]))
         \/ job[p].pc \notin {"idle", "read"} /\ job'[p].pc # "read"
  PROVE  Contents'
<1> SUFFICES ASSUME ~struck' PROVE Contents'
  BY DEF Contents
<1>1. ASSUME NEW q \in Proc PROVE Says(job'[q])
  BY DEF Contents, Only
<1>2. ASSUME NEW q \in Proc, job'[q].pc = "read" PROVE ToRead(job[q])' 
  <2>1. CASE UNCHANGED file /\ (~struck' /\ job'[p].pc = "read" => ToRead(job'[p]))
    <3>1. ToRead(job'[q])
      BY <1>2, <2>1 DEF Contents, Only
    <3> QED
      BY <2>1, <3>1 DEF ToRead, Encrypted
  <2>2. CASE job[p].pc \notin {"idle", "read"} /\ job'[p].pc # "read"
    <3>1. q # p /\ job[q].pc = "read"
      BY <1>2, <2>2 DEF Only
    <3>2. job[q].cmd = "change" /\ p \in Active /\ q \in Active
      BY <2>2, <3>1 DEF Inv, Progress, Active
    <3> QED
      BY <3>1, <3>2 DEF Inv, OneKey
  <2> QED
    BY <2>1, <2>2
<1> QED
  BY <1>1, <1>2 DEF Contents, Says

\* A session begins, ends or goes on without a write.
LEMMA ContentsAtRest ==
  ASSUME Inv, Contents, NEW p \in Proc, NEW j \in Job, job' = [job EXCEPT ![p] = j],
         j.pc # "read", j.writes = <<>> \/ j.writes = job[p].writes,
         UNCHANGED file, ~struck' => ~struck
  PROVE  Contents'
<1>1. Only(p) /\ job'[p] = j
  BY BecomesJob
<1>2. Len(<<>>) = 0
  OBVIOUS
<1>3. ~struck' => Says(j)
  BY <1>2 DEF Contents, Says
<1>4. ~struck' => \A f \in File : Whole(f)' => file'[f].value # 0
  BY DEF Contents, Whole
<1> QED
  BY <1>1, <1>3, <1>4, ContentsOfOne

LEMMA OneWriteSays ==
  ASSUME NEW j, NEW w, j.writes = <<w>>, w.value # 0 PROVE Says(j)
  BY DEF Says

\* A process has one file to write.
LEMMA ContentsOfCommand ==
  ASSUME Inv, Contents, NEW p \in Proc, job[p].pc \in {"ready", "migrate"},
         NEW j \in Job, NEW w, job' = [job EXCEPT ![p] = j],
         j.pc = "write", j.writes = <<w>>, ~struck => w.value # 0, UNCHANGED <<file, struck>>
  PROVE  Contents'
<1>1. Only(p) /\ job'[p] = j
  BY BecomesJob
<1>2. ~struck' => Says(j)
  BY OneWriteSays
<1>3. ~struck' => \A f \in File : Whole(f)' => file'[f].value # 0
  BY DEF Contents, Whole
<1> QED
  BY <1>1, <1>2, <1>3, ContentsOfOne

LEMMA CommandsSaySomething ==
  ASSUME Inv, Contents, NEW p \in Proc,
         \/ LoadOrCreateIdentity(p) \/ SaveIdentity(p) \/ SaveContact(p)
         \/ CreateEnrollment(p) \/ CompleteEnrollment(p)
  PROVE  Contents'
<1>1. "identity" \in File /\ "contacts" \in File /\ "pending" \in File
  BY DEF File
<1>2. /\ made \in Nat /\ file["identity"].value \in Nat /\ file["contacts"].value \in Nat
      /\ job \in [Proc -> Job]
  BY <1>1 DEF Inv, Types, Content
<1>3. ASSUME NEW cmd \in Cmds, NEW w \in Write, w.value # 0, Begins(p, cmd, <<w>>),
             job[p].pc = "ready", UNCHANGED <<file, struck>>
      PROVE  Contents'
  <2> DEFINE j == [job[p] EXCEPT !.pc = "write", !.cmd = cmd, !.writes = <<w>>]
  <2>3. <<w>> \in Seq(Write)
    OBVIOUS
  <2>1. j \in Job /\ j.pc = "write" /\ j.writes = <<w>>
    BY <1>2, <2>3 DEF Job
  <2>2. job' = [job EXCEPT ![p] = j]
    BY <1>2, <1>3 DEF Begins
  <2> HIDE DEF j
  <2> QED
    BY <1>3, <2>1, <2>2, ContentsOfCommand
<1>4. CASE LoadOrCreateIdentity(p)
  <2>1. [path |-> "identity", value |-> made + 1] \in Write /\ made + 1 # 0
    BY <1>1, <1>2 DEF Write
  <2> QED
    BY <1>3, <1>4, <2>1 DEF LoadOrCreateIdentity, Cmds
<1>5. CASE SaveIdentity(p)
  <2>1. [path |-> "identity", value |-> file["identity"].value] \in Write
    BY <1>1, <1>2 DEF Write
  <2> QED
    BY <1>3, <1>5, <2>1 DEF SaveIdentity, Readable, Cmds
<1>6. CASE SaveContact(p)
  <2> DEFINE cmd == IF file["contacts"] = Missing THEN "first" ELSE "contact"
  <2>1. /\ [path |-> "contacts", value |-> file["contacts"].value + 1] \in Write
        /\ file["contacts"].value + 1 # 0
    BY <1>1, <1>2 DEF Write
  <2>2. cmd \in Cmds
    BY DEF Cmds
  <2>3. /\ job[p].pc = "ready" /\ UNCHANGED <<file, struck>>
        /\ Begins(p, cmd, <<[path |-> "contacts", value |-> file["contacts"].value + 1]>>)
    BY <1>6 DEF SaveContact
  <2> HIDE DEF cmd
  <2> QED
    BY <1>3, <2>1, <2>2, <2>3
<1>7. CASE CreateEnrollment(p)
  <2>1. [path |-> "pending", value |-> 1] \in Write
    BY <1>1 DEF Write
  <2> QED
    BY <1>3, <1>7, <2>1 DEF CreateEnrollment, Cmds
<1>8. CASE CompleteEnrollment(p)
  <2>1. [path |-> "identity", value |-> made + 1] \in Write /\ made + 1 # 0
    BY <1>1, <1>2 DEF Write
  <2> QED
    BY <1>3, <1>8, <2>1 DEF CompleteEnrollment, Cmds
<1> QED
  BY <1>4, <1>5, <1>6, <1>7, <1>8

LEMMA MigrateReadSays ==
  ASSUME Inv, Contents, NEW p \in Proc, MigrateRead(p) PROVE Contents'
<1> DEFINE s == job[p].todo
           f == Head(s)
           w == [path |-> f, value |-> file[f].value]
           j == [job[p] EXCEPT !.pc = "write", !.writes = <<w>>, !.todo = Tail(@)]
           k == [job[p] EXCEPT !.todo = Tail(@)]
<1>1. /\ job[p].pc = "migrate" /\ s # <<>> /\ UNCHANGED <<file, struck>>
      /\ job[p] \in Job /\ s \in Seq(File)
  BY DEF MigrateRead, Inv, Types, Job
<1>2. f \in File /\ Tail(s) \in Seq(File)
  BY <1>1, TailOfFiles
<1>3. w \in Write
  BY <1>2 DEF Inv, Types, Content, Write
<1>4. <<w>> \in Seq(Write)
  BY <1>3
<1>5. j \in Job /\ j.pc = "write" /\ j.writes = <<w>>
  BY <1>1, <1>2, <1>4 DEF Job
<1>6. k \in Job /\ k.pc = "migrate" /\ k.writes = job[p].writes
  BY <1>1, <1>2 DEF Job
<1>7. file[f].key = Clear /\ ~struck => w.value # 0
  BY <1>2, KeysDiffer DEF Contents, Whole, Clear
<1>8. \/ job' = [job EXCEPT ![p] = Idle]
      \/ file[f].key = Clear /\ job' = [job EXCEPT ![p] = j]
      \/ job' = [job EXCEPT ![p] = k]
  BY DEF MigrateRead, Inv, Types
<1>9. Idle.writes = <<>>
  BY DEF Idle
<1> HIDE DEF j, k, w, f
<1>10. CASE job' = [job EXCEPT ![p] = Idle]
  BY <1>1, <1>9, <1>10, KeysDiffer, ContentsAtRest
<1>11. CASE file[f].key = Clear /\ job' = [job EXCEPT ![p] = j]
  BY <1>1, <1>5, <1>7, <1>11, ContentsOfCommand
<1>12. CASE job' = [job EXCEPT ![p] = k]
  BY <1>1, <1>6, <1>12, ContentsAtRest
<1> QED
  BY <1>8, <1>10, <1>11, <1>12

LEMMA SessionSays ==
  ASSUME Inv, Contents, NEW p \in Proc,
         \/ \E k \in Passphrase : Unlock(p, k)
         \/ Migrated(p) \/ SwitchPassphrase(p) \/ WriteFails(p) \/ Crash(p)
  PROVE  Contents'
<1>1. job[p] \in Job /\ job \in [Proc -> Job] /\ UNCHANGED file /\ (~struck' => ~struck)
  BY DEF Inv, Types, Unlock, Migrated, SwitchPassphrase, WriteFails, Crash
<1>2. <<>> \in Seq(Write) /\ Idle.writes = <<>>
  BY DEF Idle
<1>3. ASSUME NEW k \in Passphrase, Unlock(p, k) PROVE Contents'
  <2> DEFINE j == [Idle EXCEPT !.pc = "migrate", !.pass = k, !.todo = ToMigrate]
  <2>1. ToMigrate \in Seq(File)
    BY DEF ToMigrate, Paths, File
  <2>2. j \in Job /\ j.pc = "migrate" /\ j.writes = <<>> /\ job' = [job EXCEPT ![p] = j]
    BY <1>2, <1>3, <2>1 DEF Unlock, Job, Idle, Cmds
  <2> HIDE DEF j
  <2> QED
    BY <1>1, <2>2, ContentsAtRest
<1>4. CASE Migrated(p)
  <2> DEFINE j == [job[p] EXCEPT !.pc = "ready"]
  <2>1. /\ j \in Job /\ j.pc = "ready" /\ j.writes = job[p].writes
        /\ job' = [job EXCEPT ![p] = j]
    BY <1>1, <1>4 DEF Migrated, Job
  <2> HIDE DEF j
  <2> QED
    BY <1>1, <2>1, ContentsAtRest
<1>5. CASE SwitchPassphrase(p)
  <2> DEFINE j == [job[p] EXCEPT !.pc = IF job[p].writes = <<>> THEN "done" ELSE "write",
                                 !.pass = job[p].next]
  <2>1. job' = [job EXCEPT ![p] = j]
    BY <1>1, <1>5 DEF SwitchPassphrase
  <2>2. j \in Job /\ j.pc # "read" /\ j.writes = job[p].writes
    BY <1>1 DEF Job
  <2> HIDE DEF j
  <2> QED
    BY <1>1, <2>1, <2>2, ContentsAtRest
<1>6. CASE Crash(p)
  BY <1>1, <1>2, <1>6, KeysDiffer, ContentsAtRest DEF Crash
<1>7. CASE WriteFails(p)
  <2> DEFINE j == IF job[p].cmd = "none" THEN Idle ELSE Rest(p, job[p])
  <2>1. job' = [job EXCEPT ![p] = j]
    BY <1>1, <1>7 DEF WriteFails
  <2>2. j \in Job /\ j.pc # "read" /\ j.writes = <<>>
    BY <1>1, <1>2, KeysDiffer DEF Rest, Job, Cmds
  <2> HIDE DEF j
  <2> QED
    BY <1>1, <2>1, <2>2, ContentsAtRest
<1> QED
  BY <1>3, <1>4, <1>5, <1>6, <1>7

LEMMA BeginChangeSays ==
  ASSUME Inv, Contents, NEW p \in Proc, NEW k \in Passphrase, BeginChange(p, k) PROVE Contents'
<1> DEFINE j == [job[p] EXCEPT !.pc = "read", !.cmd = "change", !.next = k,
                               !.todo = Changed, !.writes = <<>>]
<1>1. /\ State \notin {"plaintext", "mixed"} /\ UNCHANGED file /\ job[p] \in Job
      /\ (~struck' => ~struck) /\ job' = [job EXCEPT ![p] = j]
  BY DEF BeginChange, Inv, Types
<1>2. Changed \in Seq(File) /\ <<>> \in Seq(Write) /\ Len(<<>>) = 0
  BY DEF Changed, Paths, File
<1>3. j \in Job /\ j.todo = Changed /\ j.writes = <<>>
  BY <1>1, <1>2 DEF Job, Cmds
<1> HIDE DEF j
<1>4. Only(p) /\ job'[p] = j
  BY <1>1, <1>3, BecomesJob
<1>5. \A f \in File : file[f].key = "missing" \/ Encrypted(f)
  BY <1>1 DEF State, SomePlain, Plaintext, Encrypted, Inv, Types, Content, Marks
<1>6. \A f \in File : \E i \in 1..Len(Changed) : Changed[i] = f
  BY DEF Changed, Paths, File
<1>7. ToRead(j) /\ Says(j)
  BY <1>2, <1>3, <1>5, <1>6 DEF ToRead, Says
<1>8. ~struck' => \A f \in File : Whole(f)' => file'[f].value # 0
  BY <1>1 DEF Contents, Whole
<1> QED
  BY <1>1, <1>4, <1>7, <1>8, ContentsOfOne

LEMMA Appended ==
  ASSUME NEW s \in Seq(Write), NEW w \in Write
  PROVE  /\ \A i \in 1..Len(s) : i \in 1..Len(Append(s, w)) /\ Append(s, w)[i] = s[i]
         /\ Len(s) + 1 \in 1..Len(Append(s, w)) /\ Append(s, w)[Len(s) + 1] = w
         /\ \A i \in 1..Len(Append(s, w)) : Append(s, w)[i] = w \/ i \in 1..Len(s)
  OBVIOUS

LEMMA ReadForChangeSays ==
  ASSUME Inv, Contents, NEW p \in Proc, ReadForChange(p) PROVE Contents'
<1> DEFINE s == job[p].todo
           f == Head(s)
           t == job[p].writes
           w == [path |-> f, value |-> file[f].value]
<1>1. /\ job[p].pc = "read" /\ s # <<>> /\ s \in Seq(File) /\ t \in Seq(Write)
      /\ UNCHANGED <<file, struck>>
  BY DEF ReadForChange, Inv, Types, Job
<1>2. /\ f \in File
      /\ \A i \in 1..Len(s) : s[i] = f \/ \E n \in 1..Len(Tail(s)) : Tail(s)[n] = s[i]
  BY <1>1, TailOfFiles
<1>3. w \in Write /\ w.path = f /\ w.value = file[f].value
  BY <1>2 DEF Inv, Types, Content, Write
<1>4. Idle.writes = <<>>
  BY DEF Idle
<1>5. CASE job' = [job EXCEPT ![p] = Idle]
  BY <1>1, <1>4, <1>5, KeysDiffer, ContentsAtRest
<1> HIDE DEF w, f, s, t
<1>6. ASSUME NEW j \in Job, job' = [job EXCEPT ![p] = j], j.todo = Tail(s),
             \/ j.writes = t /\ file[f].key = "missing"
             \/ /\ file[f].key \in {Clear, "torn", job[p].pass}
                /\ j.writes = Append(t, w)
      PROVE  Contents'
  <2>1. Only(p) /\ job'[p] = j
    BY <1>6, BecomesJob
  <2>2. ~struck' => \A g \in File : Whole(g)' => file'[g].value # 0
    BY <1>1 DEF Contents, Whole
  <2>3. ASSUME ~struck PROVE ToRead(j) /\ Says(j)
    <3>1. ToRead(job[p]) /\ Says(job[p])
      BY <1>1, <2>3 DEF Contents
    <3>2. CASE j.writes = t /\ file[f].key = "missing"
      <4>1. Says(j)
        BY <3>1, <3>2 DEF Says, t
      <4>2. ASSUME NEW g \in File, g # f, file[g].key # "missing"
            PROVE  /\ Encrypted(g)
                   /\ \/ \E i \in 1..Len(j.todo) : j.todo[i] = g
                      \/ \E i \in 1..Len(j.writes) : j.writes[i].path = g
        <5>1. /\ Encrypted(g)
              /\ \/ \E i \in 1..Len(s) : s[i] = g
                 \/ \E i \in 1..Len(t) : t[i].path = g
          BY <3>1, <4>2 DEF ToRead, s, t
        <5>2. CASE \E i \in 1..Len(s) : s[i] = g
          BY <1>2, <1>6, <4>2, <5>1, <5>2
        <5>3. CASE \E i \in 1..Len(t) : t[i].path = g
          BY <3>2, <5>1, <5>3
        <5> QED
          BY <5>1, <5>2, <5>3
      <4> QED
        BY <3>2, <4>1, <4>2 DEF ToRead
    <3>3. CASE file[f].key # "missing" /\ j.writes = Append(t, w)
      <4>1. Encrypted(f) /\ w.value # 0
        BY <1>2, <1>3, <2>3, <3>1, <3>3, KeysDiffer DEF ToRead, Contents, Encrypted, Whole
      <4>2. /\ \A i \in 1..Len(t) : i \in 1..Len(j.writes) /\ j.writes[i] = t[i]
            /\ Len(t) + 1 \in 1..Len(j.writes) /\ j.writes[Len(t) + 1] = w
            /\ \A i \in 1..Len(j.writes) : j.writes[i] = w \/ i \in 1..Len(t)
        BY <1>1, <1>3, <3>3, Appended
      <4>3. Says(j)
        BY <3>1, <4>1, <4>2 DEF Says, t
      <4>4. ASSUME NEW g \in File, g # f, file[g].key # "missing"
            PROVE  /\ Encrypted(g)
                   /\ \/ \E i \in 1..Len(j.todo) : j.todo[i] = g
                      \/ \E i \in 1..Len(j.writes) : j.writes[i].path = g
        <5>1. /\ Encrypted(g)
              /\ \/ \E i \in 1..Len(s) : s[i] = g
                 \/ \E i \in 1..Len(t) : t[i].path = g
          BY <3>1, <4>4 DEF ToRead, s, t
        <5>2. CASE \E i \in 1..Len(s) : s[i] = g
          BY <1>2, <1>6, <4>4, <5>1, <5>2
        <5>3. CASE \E i \in 1..Len(t) : t[i].path = g
          BY <4>2, <5>1, <5>3
        <5> QED
          BY <5>1, <5>2, <5>3
      <4>5. \E i \in 1..Len(j.writes) : j.writes[i].path = f
        BY <1>3, <4>2
      <4> QED
        BY <4>1, <4>3, <4>4, <4>5 DEF ToRead
    <3> QED
      BY <1>6, <3>2, <3>3, <1>1, KeysDiffer DEF Inv, Progress, Clear
  <2> QED
    BY <1>1, <2>1, <2>2, <2>3, ContentsOfOne
<1> QED
  BY <1>5, <1>6, ReadsOne DEF s, t, f, w

LEMMA TailShifts ==
  ASSUME NEW s \in Seq(Write), s # <<>>
  PROVE  /\ s[1].path \in File /\ Tail(s) \in Seq(Write)
         /\ \A i \in 1..Len(Tail(s)) : i + 1 \in 1..Len(s) /\ Tail(s)[i] = s[i + 1]
<1>1. s[1] \in Write /\ Tail(s) \in Seq(Write)
  OBVIOUS
<1>2. \A i \in 1..Len(Tail(s)) : i + 1 \in 1..Len(s) /\ Tail(s)[i] = s[i + 1]
  OBVIOUS
<1> QED
  BY <1>1, <1>2 DEF Write

LEMMA WritesSay ==
  ASSUME Inv, Contents, NEW p \in Proc, Truncate(p) \/ Fill(p) \/ Finish(p) PROVE Contents'
<1>1. /\ job[p] \in Job /\ job \in [Proc -> Job] /\ struck' = struck
      /\ job[p].pc \notin {"idle", "read"} /\ job[p].writes \in Seq(Write)
  BY DEF Inv, Types, Job, Truncate, Fill, Finish
<1>2. "pending" \in File /\ Len(<<>>) = 0 /\ <<>> \in Seq(Write)
  BY DEF File
<1>3. CASE Truncate(p)
  <2> DEFINE j == [job[p] EXCEPT !.pc = "fill"]
  <2>1. j \in Job /\ j.pc = "fill" /\ j.writes = job[p].writes /\ job' = [job EXCEPT ![p] = j]
    BY <1>1, <1>3 DEF Truncate, Job
  <2> HIDE DEF j
  <2>2. Only(p) /\ job'[p] = j
    BY <2>1, BecomesJob
  <2>3. \A f \in File : Whole(f)' => Whole(f) /\ file'[f] = file[f]
    BY <1>3, KeysDiffer DEF Truncate, Whole, Inv, Types
  <2>4. ~struck' => Says(j)
    BY <1>1, <2>1 DEF Contents, Says
  <2> QED
    BY <1>1, <2>1, <2>2, <2>3, <2>4, ContentsOfOne DEF Contents
<1>4. CASE Fill(p)
  <2> DEFINE t == job[p].writes
             left == Tail(t)
             pc == IF left # <<>> THEN "write" ELSE IF job[p].cmd = "none" THEN "migrate" ELSE "done"
             j == [job[p] EXCEPT !.writes = left, !.pc = pc]
  <2>1. t # <<>> /\ job' = [job EXCEPT ![p] = j]
        /\ file' = [file EXCEPT ![t[1].path] = [key |-> job[p].pass, value |-> t[1].value]]
    BY <1>1, <1>4 DEF Fill, Inv, Progress
  <2>2. t[1].path \in File /\ left \in Seq(Write)
        /\ \A i \in 1..Len(left) : i + 1 \in 1..Len(t) /\ left[i] = t[i + 1]
    BY <1>1, <2>1, TailShifts
  <2>3. 1 \in 1..Len(t)
    BY <1>1, <2>1
  <2> HIDE DEF left
  <2>4. j \in Job /\ j.pc # "read" /\ j.writes = left
    BY <1>1, <2>2 DEF Job
  <2> HIDE DEF j
  <2>5. Only(p) /\ job'[p] = j
    BY <2>1, <2>4, BecomesJob
  <2>6. ~struck => Says(j) /\ t[1].value # 0
    BY <2>2, <2>3, <2>4 DEF Contents, Says
  <2>7. \A f \in File : file'[f] = file[f] \/ file'[f].value = t[1].value
    BY <2>1, <2>2 DEF Inv, Types
  <2>8. ~struck' => \A f \in File : Whole(f)' => file'[f].value # 0
    BY <1>1, <2>6, <2>7 DEF Contents, Whole
  <2> QED
    BY <1>1, <2>4, <2>5, <2>6, <2>8, ContentsOfOne
<1>5. CASE Finish(p)
  <2> DEFINE j == Rest(p, job[p])
  <2>1. job' = [job EXCEPT ![p] = j]
    BY <1>1, <1>5 DEF Finish
  <2>2. j \in Job /\ j.pc # "read" /\ j.writes = <<>>
    BY <1>1, <1>2, KeysDiffer DEF Rest, Job, Cmds, Idle
  <2> HIDE DEF j
  <2>3. Only(p) /\ job'[p] = j
    BY <2>1, <2>2, BecomesJob
  <2>4. \A f \in File : Whole(f)' => Whole(f) /\ file'[f] = file[f]
    BY <1>5, <1>2, KeysDiffer DEF Finish, Whole, Inv, Types
  <2>5. Says(j)
    BY <1>2, <2>2 DEF Says
  <2> QED
    BY <1>1, <2>2, <2>3, <2>4, <2>5, ContentsOfOne DEF Contents
<1> QED
  BY <1>3, <1>4, <1>5

LEMMA ContentsAtStart == Init => Contents
<1> SUFFICES ASSUME Init PROVE Contents
  OBVIOUS
<1>1. /\ file \in [File -> [key : Passphrase \cup Marks, value : Nat]]
      /\ \A f \in File : file[f].key \in Passphrase \cup {Clear} => file[f].value # 0
  BY StoreAssumption DEF Init
<1>2. \A f \in File : Whole(f) => file[f].value # 0
  BY <1>1 DEF Whole, Marks
<1>3. Says(Idle) /\ Idle.pc # "read"
  BY DEF Says, Idle
<1> QED
  BY <1>2, <1>3 DEF Init, Contents

LEMMA StepKeeps == Inv /\ Contents /\ [Next]_vars => Inv' /\ Contents'
<1> SUFFICES ASSUME Inv, Contents, [Next]_vars PROVE Inv' /\ Contents'
  OBVIOUS
<1>1. CASE UNCHANGED vars
  BY <1>1 DEF vars, Inv, Types, Progress, ClearIsDue, Due, KnownIsThere, OneKey, Active,
              Encrypted, Rewrites, Contents, Whole, Says, ToRead
<1>2. CASE Next
  <2> SUFFICES ASSUME NEW p \in Proc, Session(p) \/ WriteFails(p) \/ Crash(p) \/ Eject(p)
               PROVE  Inv' /\ Contents'
    BY <1>2 DEF Next
  <2>1. CASE Session(p)
    <3>1. Inv'
      BY <2>1, UnlockKeeps, BeginChangeKeeps, ReadForChangeKeeps, SwitchKeeps, MigrateReadKeeps,
         MigratedKeeps, CommandsKeep, TruncateKeeps, FillKeeps, FinishKeeps DEF Session
    <3>2. Contents'
      BY <2>1, SessionSays, BeginChangeSays, ReadForChangeSays, MigrateReadSays,
         CommandsSaySomething, WritesSay DEF Session
    <3> QED
      BY <3>1, <3>2
  <2>2. CASE Eject(p)
    <3>1. \A f \in File : file'[f].key = "missing"
      BY <2>2, KeysDiffer DEF Eject
    <3>2. Contents'
      BY <2>2, <3>1 DEF Eject, Contents, Whole, ToRead
    <3> QED
      BY <2>2, <3>2, EjectKeeps
  <2> QED
    BY <2>1, <2>2, WriteFailsKeeps, CrashKeeps, SessionSays
<1> QED
  BY <1>1, <1>2

-----------------------------------------------------------------------------
\* Every session is where its job says, a file that has held data is there,
\* and the sessions of an undisturbed store share one passphrase.
THEOREM InvCorrect == Spec => [](Inv /\ Contents)
  BY InitHolds, ContentsAtStart, StepKeeps, PTL DEF Spec

\* Files, jobs and counters have their types, and a process that writes has
\* something to write.
THEOREM TypeCorrect == Spec => []TypeOK
<1>1. Inv => TypeOK
  BY DEF Inv, Types, Content, Progress, TypeOK
<1> QED
  BY <1>1, InvCorrect, PTL

\* Once a session is past its passphrase nothing it protects lies on disk in
\* the clear (migrateProtectedFiles), for any crashes and other sessions.
THEOREM UnlockedIsEncryptedCorrect == Spec => []UnlockedIsEncrypted
<1>1. Inv => UnlockedIsEncrypted
  BY DEF Inv, ClearIsDue, Due, UnlockedIsEncrypted
<1> QED
  BY <1>1, InvCorrect, PTL

\* Everything on disk opens with one passphrase while no change of it is half
\* done (ChangePassphrase), unless sessions overlapped it or it was cut short.
THEOREM OnePassphraseCorrect == Spec => []OnePassphrase
<1>1. Inv => OnePassphrase
  BY DEF Inv, OneKey, OnePassphrase
<1> QED
  BY <1>1, InvCorrect, PTL

\* No file that is whole is empty of content (migrateProtectedFiles,
\* ChangePassphrase, the writers), unless sessions overlapped a change.
THEOREM SealedIsSomethingCorrect == Spec => []SealedIsSomething
<1>1. Contents => SealedIsSomething
  BY DEF Contents, SealedIsSomething
<1> QED
  BY <1>1, InvCorrect, PTL

\* No session begins an identity or a contact list anew where there has been
\* one (LoadOrCreateIdentity, loadContactsMap).
THEOREM NeverStartsOverCorrect == Spec => NeverStartsOver
<1> DEFINE Fresh == \A p \in Proc : job'[p].pc = "write" /\ job[p].pc = "ready" =>
          /\ job'[p].cmd = "create" => "identity" \notin known
          /\ job'[p].cmd = "first" => "contacts" \notin known
<1>1. Inv /\ [Next]_vars => [Fresh]_vars
  <2> SUFFICES ASSUME Inv, Next, NEW p \in Proc, job'[p].pc = "write", job[p].pc = "ready"
               PROVE  /\ job'[p].cmd = "create" => "identity" \notin known
                      /\ job'[p].cmd = "first" => "contacts" \notin known
    BY DEF Fresh
  <2>1. PICK q \in Proc : Session(q) \/ WriteFails(q) \/ Crash(q) \/ Eject(q)
    BY DEF Next
  <2>2. /\ file["identity"] = Missing => "identity" \notin known
        /\ file["contacts"] = Missing => "contacts" \notin known
    BY KeysDiffer DEF Inv, KnownIsThere
  <2>3. job \in [Proc -> Job] /\ job[p].cmd = "none" /\ job[p].pc # job'[p].pc
    BY DEF Inv, Types, Progress
  <2>4. CASE WriteFails(q) \/ Crash(q) \/ Eject(q)
    BY <2>3, <2>4, KeysDiffer DEF WriteFails, Crash, Eject, Rest
  <2>5. CASE Session(q)
    <3>1. CASE \E k \in Passphrase : Unlock(q, k) \/ BeginChange(q, k)
      <4> PICK k \in Passphrase : Unlock(q, k) \/ BeginChange(q, k)
        BY <3>1
      <4>1. Unlock(q, k) => job'[p] = job[p] \/ job'[p].pc = "migrate"
        BY <2>3 DEF Unlock, Idle
      <4>2. BeginChange(q, k) => job'[p] = job[p] \/ job'[p].pc = "read"
        BY <2>3 DEF BeginChange, Job
      <4> QED
        BY <2>3, <4>1, <4>2
    <3>2. CASE \/ MigrateRead(q) \/ Migrated(q) \/ Truncate(q) \/ Fill(q) \/ Finish(q)
               \/ ReadForChange(q) \/ SwitchPassphrase(q)
      BY <2>3, <3>2 DEF MigrateRead, Migrated, Truncate, Fill, Finish, ReadForChange, SwitchPassphrase
    <3>3. CASE \/ LoadOrCreateIdentity(q) \/ SaveIdentity(q) \/ SaveContact(q)
               \/ CreateEnrollment(q) \/ CompleteEnrollment(q)
      <4>1. ASSUME NEW cmd, NEW writes, Begins(q, cmd, writes)
            PROVE  job'[p] = job[p] \/ job'[p].cmd = cmd
        BY <2>3, <4>1 DEF Begins, Job
      <4>2. LoadOrCreateIdentity(q) => file["identity"] = Missing
        BY DEF LoadOrCreateIdentity
      <4>3. SaveContact(q) => job'[p] = job[p] \/ job'[p].cmd = "contact" \/ file["contacts"] = Missing
        BY <4>1 DEF SaveContact
      <4>4. SaveContact(q) => job'[p] = job[p] \/ job'[p].cmd \in {"first", "contact"}
        BY <4>1 DEF SaveContact
      <4>5. LoadOrCreateIdentity(q) => job'[p] = job[p] \/ job'[p].cmd = "create"
        BY <4>1 DEF LoadOrCreateIdentity
      <4>6. SaveIdentity(q) => job'[p] = job[p] \/ job'[p].cmd = "device"
        BY <4>1 DEF SaveIdentity
      <4>7. CreateEnrollment(q) => job'[p] = job[p] \/ job'[p].cmd = "enroll"
        BY <4>1 DEF CreateEnrollment
      <4>8. CompleteEnrollment(q) => job'[p] = job[p] \/ job'[p].cmd = "complete"
        BY <4>1 DEF CompleteEnrollment
      <4> QED
        BY <2>2, <2>3, <3>3, <4>2, <4>3, <4>4, <4>5, <4>6, <4>7, <4>8
    <3> QED
      BY <2>5, <3>1, <3>2, <3>3 DEF Session
  <2> QED
    BY <2>1, <2>4, <2>5
<1> QED
  BY <1>1, InvCorrect, PTL DEF Spec, NeverStartsOver
=============================================================================
