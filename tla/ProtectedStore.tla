--------------------------- MODULE ProtectedStore ---------------------------
(***************************************************************************)
(* The three files of a mailbox that the passphrase protects               *)
(* (store/client.go, store/protected_files.go) and the processes that use  *)
(* them: the chat client, which keeps its passphrase while it runs, and    *)
(* pandoctl commands.  There is no lock on the directory.                  *)
(*                                                                         *)
(* os.WriteFile truncates a file and then fills it, so every write is two  *)
(* steps, with a crash or an error possible between them.  A truncated     *)
(* file is not an envelope: it counts as plaintext and cannot be decoded.  *)
(*                                                                         *)
(* Not here: Ensure (the directory can be made), the passphrase prompts    *)
(* (Unlock is given what the user typed) and what the files say: an        *)
(* identity is a number, a contact list the number of its entries, and 0   *)
(* stands for no content at all: a torn file, or one sealed around nothing. *)
(***************************************************************************)
EXTENDS Naturals, Sequences

CONSTANTS Passphrase,   \* what a user may type
          Proc,         \* processes, at most one session each at a time
          Chat,         \* those that stay: the chat client
          Original,     \* the files of the store at the start
          MaxSessions, MaxFaults, MaxIdentities, MaxContacts

\* protectedPaths, in order.
Paths == <<"identity", "contacts", "pending">>
File == {"identity", "contacts", "pending"}

\* What a file is under: a passphrase, or none of these.
Clear == "plain"
Marks == {Clear, "missing", "torn"}

ASSUME StoreAssumption ==
    /\ Chat \subseteq Proc
    /\ Passphrase \cap Marks = {}
    /\ Original \subseteq [File -> [key : Passphrase \cup Marks, value : Nat]]
    /\ \A s \in Original, f, g \in File :
          /\ {s[f].key, s[g].key} \subseteq Passphrase => s[f].key = s[g].key
          /\ s[f].key \in Passphrase \cup {Clear} => s[f].value # 0
    /\ MaxSessions \in Nat /\ MaxFaults \in Nat
    /\ MaxIdentities \in Nat /\ MaxContacts \in Nat

VARIABLES file,      \* what is on disk
          job,       \* what each process is doing
          known,     \* the files that have held data since the last eject
          made,      \* identities made
          sessions, faults,
          struck     \* the passphrase was set or changed beside another
                     \* process, or a change was cut short as it rewrote

vars == <<file, job, known, made, sessions, faults, struck>>

Missing == [key |-> "missing", value |-> 0]
Torn == [key |-> "torn", value |-> 0]
Whole(f) == file[f].key \notin {"missing", "torn"}

\* next: the passphrase a change is to set.
Idle == [pc |-> "idle", pass |-> Clear, next |-> Clear, cmd |-> "none",
         todo |-> <<>>, writes |-> <<>>]

\* protectedStateForPath: not an envelope is plaintext, a torn file too.
Plaintext(f) == file[f].key \in {Clear, "torn"}
Encrypted(f) == file[f].key \in Passphrase
\* ProtectionState
SomePlain == \E f \in File : Plaintext(f)
SomeSealed == \E f \in File : Encrypted(f)
State == IF SomePlain THEN IF SomeSealed THEN "mixed" ELSE "plaintext"
                      ELSE IF SomeSealed THEN "encrypted" ELSE "new"

\* Mutant: a file that is empty is decoded as one that says nothing.
ReadableIfEmpty(p, f) == file[f].key \in {Clear, "torn", job[p].pass}

\* readProtectedJSON: plain, or an envelope of the passphrase in use, around
\* something that can be decoded.
Readable(p, f) == file[f].key \in {Clear, job[p].pass} /\ file[f].value # 0

Active == {p \in Proc : job[p].pc # "idle"}

\* A change of the passphrase that has switched and may have begun to write.
Rewrites(p) == job[p].cmd = "change" /\ job[p].pc # "read"

Init ==
    /\ file \in Original
    /\ job = [p \in Proc |-> Idle]
    /\ known = {f \in File : Whole(f)}
    /\ made = file["identity"].value
    /\ sessions = 0 /\ faults = 0
    /\ struck = FALSE

\* validatePassphrase looks at the first encrypted file only.
Validates(k) ==
    \A i \in 1..3 :
        Encrypted(Paths[i]) /\ (\A j \in 1..3 : j < i => ~Encrypted(Paths[j]))
            => file[Paths[i]].key = k

\* Mutant: a mixed store is taken for a migrated one.
ToMigrateOnlyPlain == IF State = "plaintext" THEN Paths ELSE <<>>

\* UsePassphrase migrates whatever is still plaintext.
ToMigrate == IF State \in {"plaintext", "mixed"} THEN Paths ELSE <<>>

\* PrepareClientStore with the passphrase typed; a wrong one ends the session.
Unlock(p, k) ==
    /\ job[p].pc = "idle" /\ sessions < MaxSessions
    /\ Validates(k)
    /\ sessions' = sessions + 1
    /\ job' = [job EXCEPT ![p] = [Idle EXCEPT !.pc = "migrate", !.pass = k,
                                              !.todo = ToMigrate]]
    /\ struck' = (struck \/ \E q \in Active : State # "encrypted" \/ job[q].cmd = "change")
    /\ UNCHANGED <<file, known, made, faults>>

\* migrateProtectedFiles: one file after the other, read and written anew.
MigrateRead(p) ==
    /\ job[p].pc = "migrate" /\ job[p].todo # <<>>
    /\ LET f == Head(job[p].todo)
           w == [path |-> f, value |-> file[f].value]
       IN \/ /\ file[f].key = "torn"
             /\ job' = [job EXCEPT ![p] = Idle]
          \/ /\ file[f].key = Clear
             /\ job' = [job EXCEPT ![p].pc = "write", ![p].writes = <<w>>, ![p].todo = Tail(@)]
          \/ /\ file[f].key \notin {"torn", Clear}
             /\ job' = [job EXCEPT ![p].todo = Tail(@)]
    /\ UNCHANGED <<file, known, made, sessions, faults, struck>>

Migrated(p) ==
    /\ job[p].pc = "migrate" /\ job[p].todo = <<>>
    /\ job' = [job EXCEPT ![p].pc = "ready"]
    /\ UNCHANGED <<file, known, made, sessions, faults, struck>>

\* The command is over: pandoctl exits, the chat client stays.
Rest(p, j) == IF p \in Chat THEN [j EXCEPT !.pc = "ready", !.cmd = "none", !.writes = <<>>]
                            ELSE Idle

Begins(p, cmd, writes) ==
    job' = [job EXCEPT ![p].pc = "write", ![p].cmd = cmd, ![p].writes = writes]

\* Mutant: whatever goes wrong with reading the identity, a new one is made.
LoadOrCreateOnError(p) ==
    /\ job[p].pc = "ready" /\ made < MaxIdentities
    /\ ~Readable(p, "identity")
    /\ made' = made + 1
    /\ Begins(p, "create", <<[path |-> "identity", value |-> made + 1]>>)
    /\ UNCHANGED <<file, known, sessions, faults, struck>>

\* LoadOrCreateIdentity: a new identity only when there is no file.
LoadOrCreateIdentity(p) ==
    /\ job[p].pc = "ready" /\ made < MaxIdentities
    /\ file["identity"] = Missing
    /\ made' = made + 1
    /\ Begins(p, "create", <<[path |-> "identity", value |-> made + 1]>>)
    /\ UNCHANGED <<file, known, sessions, faults, struck>>

\* device enroll approve, device revoke: the identity changed and saved.
SaveIdentity(p) ==
    /\ job[p].pc = "ready" /\ Readable(p, "identity")
    /\ Begins(p, "device", <<[path |-> "identity", value |-> file["identity"].value]>>)
    /\ UNCHANGED <<file, known, made, sessions, faults, struck>>

\* SaveContact: loadContactsMap starts a list only when there is no file.
SaveContact(p) ==
    /\ job[p].pc = "ready" /\ file["contacts"].value < MaxContacts
    /\ file["contacts"] = Missing \/ Readable(p, "contacts")
    /\ Begins(p, IF file["contacts"] = Missing THEN "first" ELSE "contact",
              <<[path |-> "contacts", value |-> file["contacts"].value + 1]>>)
    /\ UNCHANGED <<file, known, made, sessions, faults, struck>>

\* device enroll create: the pending enrollment replaces an earlier one.
CreateEnrollment(p) ==
    /\ job[p].pc = "ready" /\ p \notin Chat
    /\ Begins(p, "enroll", <<[path |-> "pending", value |-> 1]>>)
    /\ UNCHANGED <<file, known, made, sessions, faults, struck>>

\* device enroll complete: the enrolled identity replaces what was there.
CompleteEnrollment(p) ==
    /\ job[p].pc = "ready" /\ p \notin Chat /\ made < MaxIdentities
    /\ Readable(p, "pending")
    /\ made' = made + 1
    /\ Begins(p, "complete", <<[path |-> "identity", value |-> made + 1]>>)
    /\ UNCHANGED <<file, known, sessions, faults, struck>>

\* Mutant: the pending enrollment is left as it was.
ChangedButPending == <<"identity", "contacts">>

\* ChangePassphrase reads and rewrites every protected file.
Changed == Paths

\* ChangePassphrase first asks for the state of the store ...
BeginChange(p, k) ==
    /\ job[p].pc = "ready" /\ p \notin Chat
    /\ State \notin {"plaintext", "mixed"}
    /\ job' = [job EXCEPT ![p].pc = "read", ![p].cmd = "change",
                          ![p].next = k, ![p].todo = Changed, ![p].writes = <<>>]
    /\ struck' = (struck \/ Active # {p})
    /\ UNCHANGED <<file, known, made, sessions, faults>>

\* ... then reads the files one by one, decrypting each as it comes.  One that
\* is not there is skipped, one under another passphrase ends the command with
\* nothing written, and one that another process has just truncated is read as
\* it is: plaintext, and empty.
ReadForChange(p) ==
    /\ job[p].pc = "read" /\ job[p].todo # <<>>
    /\ LET f == Head(job[p].todo)
           w == [path |-> f, value |-> file[f].value]
       IN \/ /\ file[f].key = "missing"
             /\ job' = [job EXCEPT ![p].todo = Tail(@)]
          \/ /\ file[f].key \in {Clear, "torn", job[p].pass}
             /\ job' = [job EXCEPT ![p].writes = Append(@, w), ![p].todo = Tail(@)]
          \/ /\ file[f].key \notin {"missing", Clear, "torn", job[p].pass}
             /\ job' = [job EXCEPT ![p] = Idle]
    /\ UNCHANGED <<file, known, made, sessions, faults, struck>>

\* The passphrase in memory is the new one from here on.  (That an error puts
\* the old one back does not matter: the command ends.)
SwitchPassphrase(p) ==
    /\ job[p].pc = "read" /\ job[p].todo = <<>>
    /\ job' = [job EXCEPT ![p].pc = IF job[p].writes = <<>> THEN "done" ELSE "write",
                          ![p].pass = job[p].next]
    /\ UNCHANGED <<file, known, made, sessions, faults, struck>>

\* os.WriteFile opens with O_TRUNC ...
Truncate(p) ==
    /\ job[p].pc = "write"
    /\ file' = [file EXCEPT ![job[p].writes[1].path] = Torn]
    /\ job' = [job EXCEPT ![p].pc = "fill"]
    /\ UNCHANGED <<known, made, sessions, faults, struck>>

\* ... and writes what the passphrase in memory sealed.
Fill(p) ==
    /\ job[p].pc = "fill"
    /\ LET w == job[p].writes[1]
           left == Tail(job[p].writes)
       IN /\ file' = [file EXCEPT ![w.path] = [key |-> job[p].pass, value |-> w.value]]
          /\ known' = known \cup {w.path}
          /\ job' = [job EXCEPT ![p].writes = left,
                                ![p].pc = IF left # <<>> THEN "write"
                                          ELSE IF job[p].cmd = "none" THEN "migrate"
                                          ELSE "done"]
    /\ UNCHANGED <<made, sessions, faults, struck>>

\* A completed enrollment is removed after the identity is saved.
Finish(p) ==
    /\ job[p].pc = "done"
    /\ IF job[p].cmd = "complete"
         THEN /\ file' = [file EXCEPT !["pending"] = Missing]
              /\ known' = known \ {"pending"}
         ELSE UNCHANGED <<file, known>>
    /\ job' = [job EXCEPT ![p] = Rest(p, @)]
    /\ UNCHANGED <<made, sessions, faults, struck>>

\* A write fails: the error is returned, the chat client goes on.
WriteFails(p) ==
    /\ job[p].pc \in {"write", "fill"} /\ faults < MaxFaults
    /\ faults' = faults + 1
    /\ struck' = (struck \/ Rewrites(p))
    /\ job' = [job EXCEPT ![p] = IF @.cmd = "none" THEN Idle ELSE Rest(p, @)]
    /\ UNCHANGED <<file, known, made, sessions>>

\* The process dies, or its user ends it.
Crash(p) ==
    /\ job[p].pc # "idle"
    /\ job[p].pc = "ready" \/ faults < MaxFaults
    /\ faults' = IF job[p].pc = "ready" THEN faults ELSE faults + 1
    /\ struck' = (struck \/ Rewrites(p))
    /\ job' = [job EXCEPT ![p] = Idle]
    /\ UNCHANGED <<file, known, made, sessions>>

\* eject removes the directory, whoever uses it and without the passphrase.
Eject(p) ==
    /\ job[p].pc = "idle" /\ p \notin Chat /\ sessions < MaxSessions
    /\ file["identity"] # Missing
    /\ sessions' = sessions + 1
    /\ file' = [f \in File |-> Missing]
    /\ known' = {}
    /\ UNCHANGED <<job, made, faults, struck>>

Session(p) ==
    \/ \E k \in Passphrase : Unlock(p, k) \/ BeginChange(p, k)
    \/ MigrateRead(p) \/ Migrated(p) \/ ReadForChange(p) \/ SwitchPassphrase(p)
    \/ LoadOrCreateIdentity(p) \/ SaveIdentity(p) \/ SaveContact(p)
    \/ CreateEnrollment(p) \/ CompleteEnrollment(p)
    \/ Truncate(p) \/ Fill(p) \/ Finish(p)

Next == \E p \in Proc : Session(p) \/ WriteFails(p) \/ Crash(p) \/ Eject(p)

Spec == Init /\ [][Next]_vars

-----------------------------------------------------------------------------
\* Every file and job has its shape, and what a job has still to write is
\* what its place says.
TypeOK ==
    /\ file \in [File -> [key : Passphrase \cup Marks, value : Nat]]
    /\ known \subseteq File
    /\ made \in Nat /\ sessions \in Nat /\ faults \in Nat
    /\ struck \in BOOLEAN
    /\ \A p \in Proc : job[p].pc \in {"write", "fill"} => job[p].writes # <<>>

\* Once a session is past its passphrase, nothing it protects lies on disk in
\* the clear, whatever crashed before and whoever else writes (README.md:75).
UnlockedIsEncrypted ==
    (\E p \in Proc : job[p].pc = "ready") => \A f \in File : file[f].key # Clear

\* While nobody rewrites the files under a new passphrase, everything on disk
\* opens with one -- unless it was set or changed beside another process, or a
\* change was cut short as it rewrote.
OnePassphrase ==
    struck \/ (\E p \in Active : Rewrites(p))
           \/ \A f, g \in File : Encrypted(f) /\ Encrypted(g) => file[f].key = file[g].key

\* What a crash or a failed write has truncated is never sealed as if it were
\* the content: while no passphrase is set or changed beside another process,
\* every file that is whole still says something.
SealedIsSomething ==
    struck \/ \A f \in File : Whole(f) => file[f].value # 0

\* No session starts an identity or a contact list over where there has been
\* one: a torn file, one under another passphrase or one in the middle of a
\* write is an error and never a reason to begin anew.
NeverStartsOver ==
    [][\A p \in Proc : job'[p].pc = "write" /\ job[p].pc = "ready" =>
          /\ job'[p].cmd = "create" => "identity" \notin known
          /\ job'[p].cmd = "first" => "contacts" \notin known]_vars
=============================================================================
