----------------------------- MODULE VoiceNotes -----------------------------
(***************************************************************************)
(* Voice notes in the chat window (internal/ui/chat/recording.go,          *)
(* pending_attachment.go, voice_notes.go): the window starts recorder and  *)
(* player calls in goroutines, handles their results one at a time in      *)
(* whatever order they arrive, and keeps at most one attachment queued.    *)
(* A call that has returned and whose result message is not handled yet    *)
(* stands at "result".                                                     *)
(***************************************************************************)
EXTENDS Integers, Recorder, Player

VARIABLES
    shown,   \* m.recording.active
    pending, \* the recording in m.pending, Picked for another file, or NoRecording
    strayed  \* a result about an earlier recording was taken for the current one

vars == <<recVars, playerVars, shown, pending, strayed>>

Picked == -1
Open == ~rec.closed

Init == RecorderInit /\ PlayerInit /\ shown = FALSE /\ pending = NoRecording /\ strayed = FALSE

\* Bound: recorder and player share nothing but the end of the window, so a
\* behaviour uses one of them.
Unrecorded == \A n \in Recording, c \in Routine : process[n] = "unused" /\ call[c] = Idle
Unplayed == \A n \in Playback, s \in Speaker : sound[n] = "unused" /\ play[s] = NotPlaying

\* The window hands a recorder call to a goroutine.
Runs(op, pc) == \E c \in Routine : call[c] = Idle /\ Becomes(c, Call(op, pc))

\* startVoiceRecordingCmd: recording.active is set by the result only, so a
\* second command can follow the first.
Record ==
    /\ Open /\ ~shown /\ Unplayed
    /\ Runs("start", "check")
    /\ UNCHANGED <<rec, process, files, once, overlapped, contested, playerVars, shown, pending, strayed>>

\* stopVoiceRecordingCmd and cancelVoiceRecordingCmd: Enter, Esc or the palette.
StopOrCancel ==
    /\ Open /\ shown
    /\ Runs("stop", "take") \/ Runs("cancel", "take")
    /\ UNCHANGED <<rec, process, files, once, overlapped, contested, playerVars, shown, pending, strayed>>

\* Mutant of HandleStarted: recording.active follows every result.
HandleStartedAlways(c) ==
    /\ Open /\ At(c, "result") /\ call[c].op = "start"
    /\ shown' = (call[c].out = "ok")
    /\ strayed' = (strayed /\ call[c].out # "ok")
    /\ Becomes(c, Idle)
    /\ UNCHANGED <<rec, process, files, once, overlapped, contested, playerVars, pending>>

\* handleVoiceRecordingStartedMsg
HandleStarted(c) ==
    /\ Open /\ At(c, "result") /\ call[c].op = "start"
    /\ shown' = (shown \/ call[c].out = "ok")
    /\ strayed' = (strayed /\ call[c].out # "ok")
    /\ Becomes(c, Idle)
    /\ UNCHANGED <<rec, process, files, once, overlapped, contested, playerVars, pending>>

\* The end of recording c's call took away the sign of another one.
Strays(c) == strayed' = (strayed \/ rec.active \notin {NoRecording, call[c].proc})

\* Mutant of Queue: the cleanup that runs is that of the new attachment.
QueueAndClean(n) ==
    /\ pending' = n
    /\ files' = files \ {n}

\* setPendingAttachmentWithCleanup: the attachment queued before is cleaned up.
Queue(n) ==
    /\ pending' = n
    /\ files' = files \ {pending}

\* handleVoiceRecordingStoppedMsg
HandleStopped(c) ==
    /\ Open /\ At(c, "result") /\ call[c].op = "stop"
    /\ shown' = FALSE
    /\ Strays(c)
    /\ IF call[c].out = "ok" /\ call[c].path \in files THEN Queue(call[c].path)
       ELSE UNCHANGED <<pending, files>>
    /\ Becomes(c, Idle)
    /\ UNCHANGED <<rec, process, once, overlapped, contested, playerVars>>

\* handleVoiceRecordingCanceledMsg
HandleCanceled(c) ==
    /\ Open /\ At(c, "result") /\ call[c].op = "cancel"
    /\ shown' = FALSE
    /\ Strays(c)
    /\ Becomes(c, Idle)
    /\ UNCHANGED <<rec, process, files, once, overlapped, contested, playerVars, pending>>

\* The file picker or a /send command queues a file that is kept afterwards.
PickFile ==
    /\ Open
    /\ Queue(Picked)
    /\ UNCHANGED <<rec, process, once, call, overlapped, contested, playerVars, shown, strayed>>

\* Enter with an empty line sends what is queued and forgets its cleanup; Esc
\* drops it with its file.
SendOrDrop ==
    /\ Open /\ ~shown /\ pending # NoRecording
    /\ pending' = NoRecording
    /\ files' \in {files, files \ {pending}}
    /\ UNCHANGED <<rec, process, once, call, overlapped, contested, playerVars, shown, strayed>>

\* playVoiceNoteCmd
PlayNote ==
    /\ Open /\ Unrecorded
    /\ \E s \in Speaker : play[s] = NotPlaying /\ play' = [play EXCEPT ![s].pc = "stop"]
    /\ UNCHANGED <<recVars, active, sound, overwritten, shown, pending, strayed>>

\* stopVoiceNotePlayback, in the window's own goroutine
StopNote ==
    /\ Open /\ active # NoPlayback
    /\ StopPlayer
    /\ UNCHANGED <<recVars, shown, pending, strayed>>

\* Model.Close: the recorder is closed, then the player.
Close == CloseRecorder /\ UNCHANGED <<playerVars, shown, pending, strayed>>

ClosePlayer ==
    /\ At(Update, "result")
    /\ StopPlayer
    /\ Becomes(Update, Idle)
    /\ UNCHANGED <<rec, process, files, once, overlapped, contested, shown, pending, strayed>>

Goroutines ==
    \/ /\ \/ \E c \in Routine \cup {Update} : RecorderStep(c)
          \/ \E n \in Recording : ProcessEnds(n)
       /\ UNCHANGED <<playerVars, shown, pending, strayed>>
    \/ PlayerStep /\ UNCHANGED <<recVars, shown, pending, strayed>>

Next ==
    \/ Record \/ StopOrCancel \/ PickFile \/ SendOrDrop \/ PlayNote \/ StopNote
    \/ \E c \in Routine : HandleStarted(c) \/ HandleStopped(c) \/ HandleCanceled(c)
    \/ Close \/ ClosePlayer
    \/ Goroutines

Spec == Init /\ [][Next]_vars
-----------------------------------------------------------------------------
\* While a recorder process runs as the active one and no command is under way,
\* the window shows it, and so offers to stop it (recording.go:40): whatever
\* Starts failed, overlapped or were stopped.  A result of an earlier recording
\* that arrives during a later one is excepted, for it clears the sign.
MicrophoneIsShown ==
    (Open /\ rec.active \in Running /\ \A c \in Routine : call[c] = Idle) => shown \/ strayed

\* A queued recording has its file until it is sent or dropped, unless two
\* calls took the recording at once: the second of two Stops queues the same
\* path again and the cleanup of the first removes it.
QueuedRecordingExists == pending \in Recording => pending \in files \cup contested
=============================================================================
