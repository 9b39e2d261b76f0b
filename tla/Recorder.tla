------------------------------ MODULE Recorder ------------------------------
(***************************************************************************)
(* The voice recorder (internal/ui/audio/recorder.go): Start, Stop, Cancel *)
(* and Close run in goroutines of their own and share the fields of one    *)
(* Recorder.  Each lock section is a step; creating a file, starting,      *)
(* signalling, killing and awaiting the recorder process happen between    *)
(* lock sections.  Recorder.recording and Recorder.stopOnce are set and    *)
(* cleared together with Recorder.active and are not kept apart from it.   *)
(***************************************************************************)
EXTENDS Naturals

CONSTANTS
    Recording,  \* recordings, numbered in the order their processes start
    Routine,    \* goroutines that run a recorder command
    Update,     \* the goroutine of the chat window, which calls Close
    Stubborn    \* bound: the recordings whose process a signal or kill can fail to end

ASSUME RecorderAssumption == Recording \subseteq Nat \ {0} /\ Update \notin Routine

VARIABLES
    rec,        \* [active, path, cleanup, closed]: the Recorder; NoRecording is nil
    process,    \* [Recording -> "unused", "running", "ended" or "loose": it runs
                \*  although it was to be ended, and its call has given up on it]
    files,      \* the recordings whose file exists
    once,       \* the recordings whose stopOnce has run
    call,       \* [Routine and Update -> the call it runs]
    overlapped, \* two Starts were past their check at once
    contested   \* recordings taken by two calls at once

recVars == <<rec, process, files, once, call, overlapped, contested>>

NoRecording == 0
Idle == [op |-> "idle"]
Call(op, pc) == [op |-> op, pc |-> pc, proc |-> NoRecording, path |-> NoRecording,
                 cleanup |-> NoRecording, out |-> "none"]
At(c, pc) == call[c] # Idle /\ call[c].pc = pc
Becomes(c, job) == call' = [call EXCEPT ![c] = job]
Passes(c, pc) == Becomes(c, [call[c] EXCEPT !.pc = pc])
Returns(c, out) == Becomes(c, [call[c] EXCEPT !.pc = "result", !.out = out])
Running == {n \in Recording : process[n] = "running"}
Taken == {call[c].proc : c \in {d \in Routine \cup {Update} : call[d] # Idle /\ call[d].pc # "result"}}

RecorderInit ==
    /\ rec = [active |-> NoRecording, path |-> NoRecording, cleanup |-> NoRecording, closed |-> FALSE]
    /\ process = [n \in Recording |-> "unused"]
    /\ files = {}
    /\ once = {}
    /\ call = [c \in Routine \cup {Update} |-> Idle]
    /\ overlapped = FALSE
    /\ contested = {}

\* Start, up to the first Unlock.
StartCheck(c) ==
    /\ At(c, "check")
    /\ IF rec.closed \/ rec.active # NoRecording
       THEN Returns(c, "error") /\ UNCHANGED overlapped
       ELSE /\ Passes(c, "spawn")
            /\ overlapped' = (overlapped \/ \E d \in Routine : At(d, "spawn") \/ At(d, "register"))
    /\ UNCHANGED <<rec, process, files, once, contested>>

\* Start creates the file and starts the process, or neither.
Spawn(c) ==
    /\ At(c, "spawn")
    /\ \/ \E n \in Recording :
            /\ process[n] = "unused" /\ \A k \in Recording : k < n => process[k] # "unused"
            /\ process' = [process EXCEPT ![n] = "running"]
            /\ files' = files \cup {n}
            /\ Becomes(c, [call[c] EXCEPT !.pc = "register", !.proc = n])
       \/ Returns(c, "error") /\ UNCHANGED <<process, files>>
    /\ UNCHANGED <<rec, once, overlapped, contested>>

\* Mutant of Register: closed is not looked at again.
RegisterUnchecked(c) ==
    /\ At(c, "register")
    /\ LET n == call[c].proc IN
       rec' = [rec EXCEPT !.active = n, !.path = n, !.cleanup = n]
    /\ Returns(c, "ok")
    /\ UNCHANGED <<process, files, once, overlapped, contested>>

\* Start, from the second Lock on: a recorder closed meanwhile kills what it
\* started, without asking whether that worked; otherwise the process becomes
\* the active one.
Register(c) ==
    /\ At(c, "register")
    /\ LET n == call[c].proc IN
       IF rec.closed
       THEN /\ \E end \in {"ended", "loose"} :
                  (end = "loose" => n \in Stubborn) /\ process' = [process EXCEPT ![n] = end]
            /\ files' = files \ {n}
            /\ Returns(c, "error")
            /\ UNCHANGED rec
       ELSE /\ rec' = [rec EXCEPT !.active = n, !.path = n, !.cleanup = n]
            /\ Returns(c, "ok")
            /\ UNCHANGED <<process, files>>
    /\ UNCHANGED <<once, overlapped, contested>>

\* Stop and Cancel take the active recording; Cancel takes its cleanup and
\* its path away from later calls.
Take(c) ==
    /\ At(c, "take")
    /\ LET n == rec.active IN
       /\ IF n = NoRecording THEN Returns(c, IF call[c].op = "stop" THEN "error" ELSE "ok")
          ELSE Becomes(c, [call[c] EXCEPT !.pc = "end", !.proc = n, !.path = rec.path,
                                          !.cleanup = rec.cleanup])
       /\ contested' = contested \cup (Taken \cap {n})
    /\ rec' = IF call[c].op = "stop" THEN rec
              ELSE [rec EXCEPT !.cleanup = NoRecording, !.path = NoRecording]
    /\ UNCHANGED <<process, files, once, overlapped>>

\* Stop or Cancel gives up on its process, which runs on if it had not ended.
GivesUp(c) ==
    /\ call[c].proc \in Stubborn \/ process[call[c].proc] = "ended"
    /\ Becomes(c, [call[c] EXCEPT !.pc = "clear", !.out = "error"])
    /\ process' = [process EXCEPT ![call[c].proc] = IF @ = "ended" THEN @ ELSE "loose"]

\* recordingProcess.stop: the process is signalled and awaited, or the signal
\* fails, as it does once the process is reaped.
Signal(c) ==
    /\ At(c, "end") /\ call[c].op = "stop"
    /\ \/ Passes(c, "wait") /\ UNCHANGED process
       \/ GivesUp(c)
    /\ UNCHANGED <<rec, files, once, overlapped, contested>>

\* Stop after the wait: with a bad exit status and an empty file it fails.
Ended(c) ==
    /\ At(c, "wait") /\ process[call[c].proc] = "ended"
    /\ \E out \in {"ok", "error"} : Becomes(c, [call[c] EXCEPT !.pc = "clear", !.out = out])
    /\ UNCHANGED <<rec, process, files, once, overlapped, contested>>

\* recordingProcess.kill: a process that is finished counts as killed, and
\* after any other error Cancel goes on without the cleanup.
Kill(c) ==
    /\ At(c, "end") /\ call[c].op # "stop"
    /\ \/ Passes(c, "cleanup") /\ process' = [process EXCEPT ![call[c].proc] = "ended"]
       \/ process[call[c].proc] # "ended" /\ GivesUp(c)
    /\ UNCHANGED <<rec, files, once, overlapped, contested>>

\* Cancel removes the directory of the recording.
Cleanup(c) ==
    /\ At(c, "cleanup")
    /\ files' = files \ {call[c].cleanup}
    /\ Becomes(c, [call[c] EXCEPT !.pc = "clear", !.out = "ok"])
    /\ UNCHANGED <<rec, process, once, overlapped, contested>>

\* Mutant of Cleared: the function runs as often as it is called.
ClearedAlways(n) == [rec EXCEPT !.active = NoRecording]

\* stopOnce of recording n: only the first call of it clears the recorder.
Cleared(n) == IF n \in once THEN rec ELSE [rec EXCEPT !.active = NoRecording]

Clear(c) ==
    /\ At(c, "clear")
    /\ rec' = Cleared(call[c].proc)
    /\ once' = once \cup {call[c].proc}
    /\ Returns(c, call[c].out)
    /\ UNCHANGED <<process, files, overlapped, contested>>

\* Close forbids every later Start and goes on as Cancel.
CloseRecorder ==
    /\ call[Update] = Idle /\ ~rec.closed
    /\ rec' = [rec EXCEPT !.closed = TRUE]
    /\ Becomes(Update, Call("close", "take"))
    /\ UNCHANGED <<process, files, once, overlapped, contested>>

\* A recorder process ends: it was told to, or on its own.
ProcessEnds(n) ==
    /\ process[n] \in {"running", "loose"}
    /\ process' = [process EXCEPT ![n] = "ended"]
    /\ UNCHANGED <<rec, files, once, call, overlapped, contested>>

RecorderStep(c) ==
    \/ StartCheck(c) \/ Spawn(c) \/ Register(c)
    \/ Take(c) \/ Signal(c) \/ Ended(c) \/ Kill(c) \/ Cleanup(c) \/ Clear(c)

\* Every recorder process that runs is the active one, or a call has hold of
\* it: no Stop, Cancel or Close that comes late takes a later recording out of
\* the Recorder, and a closed Recorder leaves none running.  Starts that
\* overlapped are excepted: both pass the check (recorder.go:41) and the
\* second to register overwrites the first.  So is a process whose signal or
\* kill failed: its call clears the Recorder all the same (recorder.go:131-136).
RecordingsAreTracked ==
    overlapped \/ Running \subseteq Taken \cup
                      IF rec.closed /\ ~At(Update, "take") THEN {} ELSE {rec.active}
=============================================================================
