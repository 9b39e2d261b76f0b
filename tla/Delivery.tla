------------------------------ MODULE Delivery ------------------------------
(***************************************************************************)
(* Messages on their way from one account, A, to another, B: the optimistic *)
(* transcript item and the send goroutine of A (ui/chat), the relay between *)
(* (RelayCustody promises that an envelope comes, perhaps again, in any     *)
(* order), the incoming side of the messaging service (seen marks, the      *)
(* attachment assembler, delivery acks) and the history file of each side,  *)
(* which the Update goroutine and the sweeper goroutine both rewrite,       *)
(* without a lock and with os.WriteFile (truncate, then write).             *)
(*                                                                         *)
(* A text travels in one envelope and is acked; a file travels in chunks    *)
(* that are not acked and whose batch has no message ID.  Encryption is     *)
(* abstract: an envelope opens or is refused.                               *)
(***************************************************************************)
EXTENDS Filtering

CONSTANTS
    Text,          \* messages that are texts
    File,          \* messages that are attachments
    Chunks,        \* how many chunks a file has
    Fading,        \* messages stamped with an expiry (a message TTL is set)
    MaxPending,    \* maxPendingIncomingAttachments
    Swept,         \* bound: the sides whose sweeper runs
    Failing,       \* bound: the sides whose program and disk may fail
    MaxMessages,   \* bound: messages composed in a behaviour
    MaxFaults,     \* bound: failures, losses and crashes of a behaviour
    MaxCopies      \* bound: envelopes the relay hands over once more

Message == Text \cup File

ASSUME DeliveryAssumption ==
    /\ Text \cap File = {} /\ "unreadable" \notin Message
    /\ Chunks \in [File -> Nat \ {0}]
    /\ Fading \subseteq Message
    /\ MaxPending \in Nat \ {0}
    /\ Swept \subseteq {"A", "B"} /\ Failing \subseteq {"A", "B"}
    /\ MaxMessages \in Nat /\ MaxFaults \in Nat /\ MaxCopies \in Nat

Side == {"A", "B"}
Parts(m) == IF m \in Text THEN {1} ELSE 1..Chunks[m]
PartOf(m, i) == [to |-> "B", msg |-> m, part |-> i]
AckOf(m) == [to |-> "A", msg |-> m, part |-> 0]

VARIABLES
    item,       \* A's transcript: the delivery status shown for each message
    send,       \* the sendCmd goroutine of each message
    net,        \* envelopes between the two sides
    seen,       \* the envelopes in seen-envelopes.enc of either side
    job,        \* what the Update goroutine of each side is in the middle of
    sweep,      \* what the sweeper of each side is in the middle of
    file,       \* the history file of each side, Torn when it cannot be read
    pending,    \* B's attachment assembler (in memory)
    stale,      \* its entries not updated for incomingAttachmentTTL
    disk,       \* B's attachment directory: the chunks in each saved file
    expired,    \* messages whose ExpiresAt has passed
    excused,    \* history variable: messages a failure struck, per side
    faults, copies  \* used budgets

vars == <<item, send, net, seen, job, sweep, file, pending, stale, disk,
          expired, excused, faults, copies>>

Idle == [pc |-> "idle"]
Record(m, d) == [msg |-> m, delivered |-> d]
Torn == <<Record("unreadable", FALSE)>>
Holds(records, m) == records # Torn /\ \E k \in DOMAIN records : records[k].msg = m

Init ==
    /\ item = [m \in Message |-> "none"]
    /\ send = [m \in Message |-> [pc |-> "unsent", next |-> 1]]
    /\ net = {} /\ seen = {}
    /\ job = [s \in Side |-> Idle] /\ sweep = [s \in Side |-> Idle]
    /\ file = [s \in Side |-> <<>>]
    /\ pending = [f \in File |-> {}] /\ stale = {}
    /\ disk = [f \in File |-> {}]
    /\ expired = {}
    /\ excused = [s \in Side |-> {}]
    /\ faults = 0 /\ copies = 0

Fault == faults < MaxFaults /\ faults' = faults + 1
Excuse(s, ms) == excused' = [excused EXCEPT ![s] = @ \cup ms]
Move(m, pc) == send' = [send EXCEPT ![m].pc = pc]

\* filterExpiredMessages.
Unexpired(records) ==
    filterInPlace(records, {k \in DOMAIN records : records[k].msg \notin expired})

\* The transcript that loadHistory builds: an item that is not in the file is
\* gone, whether it expired or is still being sent; an unreadable file leaves
\* the transcript empty.
Rebuilt(records) ==
    [m \in Message |->
        IF ~Holds(records, m) \/ m \in expired THEN "none"
        ELSE IF \E k \in DOMAIN records : records[k] = Record(m, TRUE)
             THEN "delivered" ELSE "sent"]

\* updateMessageStatus, and loadHistory when no item has that message ID; the
\* batch of a file has none.
WithStatus(m, status, records) ==
    IF m \in Text /\ item[m] # "none" THEN [item EXCEPT ![m] = status]
                                      ELSE Rebuilt(records)

-----------------------------------------------------------------------------
(* A sends: handleEnterKey, sendAttachment, sendCmd                         *)

Compose(m) ==
    /\ job["A"] = Idle /\ send[m].pc = "unsent"
    /\ Cardinality({n \in Message : send[n].pc # "unsent"}) < MaxMessages
    /\ item' = [item EXCEPT ![m] = "pending"]
    /\ Move(m, "sending")
    /\ UNCHANGED <<net, seen, job, sweep, file, pending, stale, disk, expired,
                   excused, faults, copies>>

SendPart(m) ==
    /\ send[m].pc = "sending"
    /\ net' = net \cup {PartOf(m, send[m].next)}
    /\ send' = [send EXCEPT ![m] = IF @.next + 1 \in Parts(m)
                                   THEN [pc |-> "sending", next |-> @.next + 1]
                                   ELSE [pc |-> "sent", next |-> @.next]]
    /\ UNCHANGED <<item, seen, job, sweep, file, pending, stale, disk, expired,
                   excused, faults, copies>>

\* Connect or Send returns an error: the rest of the batch is not sent.
SendFails(m) ==
    /\ send[m].pc = "sending" /\ Fault
    /\ Move(m, "failed")
    /\ UNCHANGED <<item, net, seen, job, sweep, file, pending, stale, disk,
                   expired, excused, copies>>

\* Mutant of HandleSendError: the error is shown, the item left as it is.
HandleSendErrorSilently(m) ==
    /\ job["A"] = Idle /\ send[m].pc = "failed"
    /\ Move(m, "done")
    /\ UNCHANGED <<item, net, seen, job, sweep, file, pending, stale, disk,
                   expired, excused, faults, copies>>

\* handleSendResultMsg, with an error: the item is marked by its message ID,
\* and a file has none.
HandleSendError(m) ==
    /\ job["A"] = Idle /\ send[m].pc = "failed"
    /\ Move(m, "done")
    /\ item' = IF m \in Text /\ item[m] # "none"
               THEN [item EXCEPT ![m] = "failed"] ELSE item
    /\ UNCHANGED <<net, seen, job, sweep, file, pending, stale, disk, expired,
                   excused, faults, copies>>

-----------------------------------------------------------------------------
(* The history file: AppendHistory and MarkHistoryDelivered read it, then   *)
(* write it back                                                            *)

\* Mutant of Rewritten: the message ID of the ack is not compared.
RewrittenAll(records, op, m) ==
    IF op = "save" THEN Append(records, Record(m, FALSE))
    ELSE [k \in DOMAIN records |-> Record(records[k].msg, TRUE)]

\* What is written: "save" appends a record of m, "mark" sets its delivered flag.
Rewritten(records, op, m) ==
    IF op = "save" THEN Append(records, Record(m, FALSE))
    ELSE [k \in DOMAIN records |->
            IF records[k].msg = m THEN Record(m, TRUE) ELSE records[k]]

\* The goroutine of s reads the file and truncates it to write it back.  What
\* the sweeper does between the two has the same effect before or after both.
\* An unreadable file and a refused write (a full disk) are reported, and the
\* job ends; `also` are messages the caller gives up in the same step.
Rewrite(s, op, m, also) ==
    \/ /\ file[s] # Torn
       /\ job' = [job EXCEPT ![s] = [pc |-> "fill", op |-> op, msg |-> m,
                                     records |-> Rewritten(Unexpired(file[s]), op, m)]]
       /\ file' = [file EXCEPT ![s] = Torn]
       /\ Excuse(s, also)
       /\ UNCHANGED faults
    \/ /\ \/ file[s] = Torn /\ UNCHANGED faults
          \/ file[s] # Torn /\ s \in Failing /\ Fault
       /\ job' = [job EXCEPT ![s] = Idle]
       /\ Excuse(s, also \cup {m})
       /\ UNCHANGED file

HandleSendResult(m) ==
    /\ job["A"] = Idle /\ send[m].pc = "sent"
    /\ Move(m, "done")
    /\ Rewrite("A", "save", m, {})
    /\ UNCHANGED <<item, net, seen, sweep, pending, stale, disk, expired, copies>>

\* The write itself.  When the other goroutine wrote between the truncation and
\* now, the longer of the two contents may stick out.
Filled(s, records) ==
    file' \in {[file EXCEPT ![s] = r] :
                 r \in {records} \cup IF file[s] = Torn THEN {} ELSE {Torn}}

\* Messages of the file that a write takes away before their time.
Dropped(s, records) ==
    {m \in Message \ expired : Holds(file[s], m) /\ ~Holds(records, m)}

\* Then the UI shows the outcome: handleSendResultMsg after SaveSent and
\* handleIncomingControl after MarkDelivered set the status of the item.
Fill(s) ==
    /\ job[s].pc = "fill"
    /\ Filled(s, job[s].records)
    /\ Excuse(s, {m \in Message : Holds(job[s].records, m) /\ ~Holds(file'[s], m)})
    /\ item' = IF s = "B" THEN item
               ELSE WithStatus(job[s].msg, IF job[s].op = "save" THEN "sent" ELSE "delivered",
                               file'[s])
    /\ job' = [job EXCEPT ![s] = Idle]
    /\ UNCHANGED <<send, net, seen, sweep, pending, stale, disk, expired, faults,
                   copies>>

-----------------------------------------------------------------------------
(* Incoming envelopes: handleProtocolMessage and HandleIncoming             *)

\* Mutant of Receive: the seen file is written but not consulted.
ReceiveUnchecked(e) ==
    /\ e \in net /\ job[e.to] = Idle
    /\ \/ net' = net \ {e} /\ UNCHANGED copies
       \/ copies < MaxCopies /\ copies' = copies + 1 /\ UNCHANGED net
    /\ seen' = seen \cup {e}
    /\ job' = [job EXCEPT ![e.to] = [pc |-> "handle", env |-> e]]
    /\ UNCHANGED <<item, send, sweep, file, pending, stale, disk, expired,
                   excused, faults>>

\* The relay hands an envelope over; markIncomingEnvelopeSeen drops it when its
\* ID is in the file and writes the ID down otherwise, before anything else.
Receive(e) ==
    /\ e \in net /\ job[e.to] = Idle
    /\ \/ net' = net \ {e} /\ UNCHANGED copies
       \/ copies < MaxCopies /\ copies' = copies + 1 /\ UNCHANGED net
    /\ \/ e \in seen /\ UNCHANGED <<seen, job>>
       \/ /\ e \notin seen
          /\ seen' = seen \cup {e}
          /\ job' = [job EXCEPT ![e.to] = [pc |-> "handle", env |-> e]]
    /\ UNCHANGED <<item, send, sweep, file, pending, stale, disk, expired,
                   excused, faults>>

Handles(s) == job[s].pc = "handle"

\* The sender is no contact, the signature or the box does not open.
Refuse(s) ==
    /\ Handles(s) /\ s \in Failing /\ Fault
    /\ job' = [job EXCEPT ![s] = Idle]
    /\ Excuse(s, {job[s].env.msg})
    /\ UNCHANGED <<item, send, net, seen, sweep, file, pending, stale, disk,
                   expired, copies>>

\* A text: the acks are sent, then SaveReceived.  (An ack that cannot be sent is
\* reported and the message saved all the same: Lose covers it.)
HandleText ==
    /\ Handles("B") /\ job["B"].env.msg \in Text
    /\ net' = net \cup {AckOf(job["B"].env.msg)}
    /\ Rewrite("B", "save", job["B"].env.msg, {})
    /\ UNCHANGED <<item, send, seen, sweep, pending, stale, disk, expired, copies>>

\* handleDeliveryAck: MarkHistoryDelivered writes only when it finds a record.
HandleAck ==
    /\ Handles("A")
    /\ LET m == job["A"].env.msg
           recorded == Holds(file["A"], m) /\ m \notin expired
       IN  \/ /\ recorded \/ file["A"] = Torn
              /\ Rewrite("A", "mark", m, {})
              /\ UNCHANGED item
           \/ /\ ~recorded /\ file["A"] # Torn
              /\ job' = [job EXCEPT !["A"] = Idle]
              /\ item' = WithStatus(m, "delivered", file["A"])
              /\ UNCHANGED <<file, excused, faults>>
    /\ UNCHANGED <<send, net, seen, sweep, pending, stale, disk, expired, copies>>

\* Mutants of the operators below: cleanup drops what is still fresh; the last
\* chunk is not waited for.
KeptStale == [f \in File |-> IF f \in stale THEN pending[f] ELSE {}]
CompleteEarly(f, chunks) == Cardinality(chunks) + 1 >= Chunks[f]

\* handleChunk: cleanup drops the stale entries, then the entry of this file is
\* found or, within the limit, created; the chunk goes in its place once.
Kept == [f \in File |-> IF f \in stale THEN {} ELSE pending[f]]
Admitted(f) ==
    Kept[f] # {} \/ Cardinality({g \in File : Kept[g] # {}}) < MaxPending
Complete(f, chunks) == Cardinality(chunks) = Chunks[f]

HandleChunk ==
    /\ Handles("B") /\ job["B"].env.msg \in File
    /\ LET f == job["B"].env.msg
           chunks == Kept[f] \cup {job["B"].env.part}
           aged == {g \in stale : pending[g] # {}}
           stop == job' = [job EXCEPT !["B"] = Idle] /\ UNCHANGED file
       IN
        \/ /\ ~Admitted(f)
           /\ pending' = Kept
           /\ stop /\ Excuse("B", aged \cup {f})
           /\ UNCHANGED <<disk, faults>>
        \/ /\ Admitted(f) /\ ~Complete(f, chunks)
           /\ pending' = [Kept EXCEPT ![f] = chunks]
           /\ stop /\ Excuse("B", aged)
           /\ UNCHANGED <<disk, faults>>
        \/ /\ Admitted(f) /\ Complete(f, chunks)
           /\ disk' = [disk EXCEPT ![f] = chunks]
           /\ pending' = [Kept EXCEPT ![f] = {}]
           /\ Rewrite("B", "save", f, aged)
        \/ /\ Admitted(f) /\ Complete(f, chunks)   \* SaveAttachment fails
           /\ pending' = [Kept EXCEPT ![f] = chunks]
           /\ stop /\ Excuse("B", aged \cup {f})
           /\ UNCHANGED disk
           /\ "B" \in Failing /\ Fault
    /\ stale' = {}
    /\ UNCHANGED <<item, send, net, seen, sweep, expired, copies>>

-----------------------------------------------------------------------------
(* Expiry: the sweeper goroutine and the transcript                         *)

\* Mutant of SweepRead: a file of which nothing would be kept is skipped.
SweepReadNonEmpty(s) ==
    /\ sweep[s] = Idle /\ s \in Swept
    /\ file[s] # Torn /\ Unexpired(file[s]) \notin {file[s], <<>>}
    /\ sweep' = [sweep EXCEPT ![s] = [pc |-> "write", records |-> Unexpired(file[s])]]
    /\ UNCHANGED <<item, send, net, seen, job, file, pending, stale, disk, expired,
                   excused, faults, copies>>

\* PurgeExpired reads a file; one without an expired record is left alone.
SweepRead(s) ==
    /\ sweep[s] = Idle /\ s \in Swept
    /\ file[s] # Torn /\ Unexpired(file[s]) # file[s]
    /\ sweep' = [sweep EXCEPT ![s] = [pc |-> "write", records |-> Unexpired(file[s])]]
    /\ UNCHANGED <<item, send, net, seen, job, file, pending, stale, disk, expired,
                   excused, faults, copies>>

SweepTruncate(s) ==
    /\ sweep[s].pc = "write"
    /\ Excuse(s, Dropped(s, sweep[s].records))
    /\ file' = [file EXCEPT ![s] = Torn]
    /\ sweep' = [sweep EXCEPT ![s].pc = "fill"]
    /\ UNCHANGED <<item, send, net, seen, job, pending, stale, disk, expired,
                   faults, copies>>

SweepFill(s) ==
    /\ sweep[s].pc = "fill"
    /\ Filled(s, sweep[s].records)
    /\ Excuse(s, {m \in Message : \/ Holds(sweep[s].records, m) /\ ~Holds(file'[s], m)
                                  \/ m \in Dropped(s, sweep[s].records)})
    /\ sweep' = [sweep EXCEPT ![s] = Idle]
    /\ UNCHANGED <<item, send, net, seen, job, pending, stale, disk, expired,
                   faults, copies>>

Expire(m) ==
    /\ m \in Fading \ expired /\ send[m].pc # "unsent"
    /\ expired' = expired \cup {m}
    /\ UNCHANGED <<item, send, net, seen, job, sweep, file, pending, stale, disk,
                   excused, faults, copies>>

\* purgeExpiredTranscript, on the typing tick.
PurgeTranscript ==
    /\ job["A"] = Idle /\ \E m \in expired : item[m] # "none"
    /\ item' = [m \in Message |-> IF m \in expired THEN "none" ELSE item[m]]
    /\ UNCHANGED <<send, net, seen, job, sweep, file, pending, stale, disk, expired,
                   excused, faults, copies>>

-----------------------------------------------------------------------------
(* Faults                                                                   *)

\* A relay that drops an envelope it may drop (its limits, its TTL).
Lose(e) ==
    /\ e \in net /\ Fault
    /\ net' = net \ {e}
    /\ Excuse(e.to, {e.msg})
    /\ UNCHANGED <<item, send, seen, job, sweep, file, pending, stale, disk,
                   expired, copies>>

\* No chunk of f for longer than incomingAttachmentTTL.
Quiet(f) ==
    /\ pending[f] # {} /\ f \notin stale /\ Fault
    /\ stale' = stale \cup {f}
    /\ UNCHANGED <<item, send, net, seen, job, sweep, file, pending, disk, expired,
                   excused, copies>>

\* The program ends anywhere and starts again: goroutines and memory are gone,
\* the files stay as they are.  What was being handled is lost with it.
Crash(s) ==
    /\ s \in Failing /\ Fault
    /\ job' = [job EXCEPT ![s] = Idle] /\ sweep' = [sweep EXCEPT ![s] = Idle]
    /\ Excuse(s, {m \in Message :
                    \/ Handles(s) /\ job[s].env.msg = m
                    \/ \E w \in {job[s], sweep[s]} : w.pc = "fill" /\ Holds(w.records, m)
                    \/ s = "B" /\ m \in File /\ pending[m] # {}})
    /\ \/ /\ s = "A"
          /\ send' = [m \in Message |-> IF send[m].pc \in {"sending", "sent", "failed"}
                                        THEN [send[m] EXCEPT !.pc = "done"] ELSE send[m]]
          /\ item' = Rebuilt(file["A"])
          /\ UNCHANGED <<pending, stale>>
       \/ /\ s = "B"
          /\ pending' = [f \in File |-> {}] /\ stale' = {}
          /\ UNCHANGED <<send, item>>
    /\ UNCHANGED <<net, seen, file, disk, expired, copies>>

-----------------------------------------------------------------------------
Sending == \E m \in Message : SendPart(m) \/ SendFails(m)
UpdateA == \E m \in Message : HandleSendResult(m) \/ HandleSendError(m)
Handling(s) == Refuse(s) \/ IF s = "B" THEN HandleText \/ HandleChunk ELSE HandleAck
Sweeping(s) == SweepRead(s) \/ SweepTruncate(s) \/ SweepFill(s)

Next ==
    \/ \E m \in Message : Compose(m) \/ Expire(m)
    \/ Sending \/ UpdateA \/ PurgeTranscript
    \/ \E e \in net : Receive(e) \/ Lose(e)
    \/ \E s \in Side : Fill(s) \/ Handling(s) \/ Sweeping(s) \/ Crash(s)
    \/ \E f \in File : Quiet(f)

\* The goroutines run on; nothing is assumed of the user, the relay or the clock.
Fairness ==
    /\ \A m \in Message : WF_vars(SendPart(m) \/ SendFails(m))
    /\ \A m \in Message : WF_vars(HandleSendResult(m) \/ HandleSendError(m))
    /\ \A s \in Side : WF_vars(Fill(s)) /\ WF_vars(Handling(s)) /\ WF_vars(Sweeping(s))

Spec == Init /\ [][Next]_vars /\ Fairness

-----------------------------------------------------------------------------
\* However often an envelope comes, and wherever the program was stopped, a
\* message is in a history file at most once.
SavedAtMostOnce ==
    \A s \in Side : file[s] # Torn =>
        \A j, k \in DOMAIN file[s] : file[s][j].msg = file[s][k].msg => j = k

\* A message whose every envelope B has taken and marked as seen is in B's
\* history, on its way there, expired, or one a reported failure struck: no
\* order of chunks, no copy and no other message makes it disappear.
NothingVanishes ==
    \A m \in Message \ (expired \cup excused["B"]) :
        (\A i \in Parts(m) : PartOf(m, i) \in seen) =>
            \/ Holds(file["B"], m)
            \/ job["B"].pc = "handle" /\ job["B"].env.msg = m
            \/ \E w \in {job["B"], sweep["B"]} : w.pc = "fill" /\ Holds(w.records, m)

\* A recorded attachment was assembled whole.
RecordedFilesAreWhole ==
    \A f \in File : Holds(file["B"], f) => disk[f] = Parts(f)

\* A shown or recorded delivery was earned: B has taken that very message.
DeliveredWasTaken ==
    \A m \in Message :
        \/ item[m] = "delivered"
        \/ file["A"] # Torn /\ \E k \in DOMAIN file["A"] : file["A"][k] = Record(m, TRUE)
        => PartOf(m, 1) \in seen

\* The pending mark of a text is answered, unless its record cannot be saved.
TextsSettle ==
    \A m \in Text : item[m] = "pending" ~> (item[m] # "pending" \/ m \in excused["A"])

\* What has expired leaves both disks, as long as the files can be read.
ExpiredLeavesDisk ==
    \A s \in Swept, m \in Fading :
        (m \in expired /\ Holds(file[s], m)) ~> ~Holds(file[s], m)

=============================================================================
