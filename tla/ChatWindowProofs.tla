--------------------------- MODULE ChatWindowProofs ---------------------------
(***************************************************************************)
(* Proofs about what the goroutines of the chat window keep.               *)
(* VoiceNotes, for any number of recordings, playbacks and goroutines: no  *)
(* process escapes its Recorder or Player, the window shows that it        *)
(* records, and what it queued is there.                                   *)
(* ChatConnection, for any number of relays, connections and sends: the    *)
(* window does not stop listening to its relay before it stops, and an     *)
(* idle window stays idle until the user sends.                            *)
(***************************************************************************)
EXTENDS VoiceNotes, ChatConnection, FiniteSetTheorems, TLAPS

Caller == Routine \cup {Update}
Numbers == Recording \cup {NoRecording}

Job ==
    [op : {"start", "stop", "cancel", "close"},
     pc : {"check", "spawn", "register", "take", "end", "wait", "cleanup", "clear", "result"},
     proc : Numbers, path : Numbers, cleanup : Numbers, out : {"none", "ok", "error"}]

Starting(c) == At(c, "spawn") \/ At(c, "register")
Ends(c) == At(c, "end") \/ At(c, "wait") \/ At(c, "cleanup") \/ At(c, "clear")

\* The fields keep their types.
RecorderTypes ==
    /\ rec \in [active : Numbers, path : Numbers, cleanup : Numbers, closed : BOOLEAN]
    /\ process \in [Recording -> {"unused", "running", "ended", "loose"}]
    /\ files \subseteq Recording
    /\ once \subseteq Recording
    /\ call \in [Caller -> {Idle} \cup Job]
    /\ overlapped \in BOOLEAN
    /\ shown \in BOOLEAN /\ strayed \in BOOLEAN
    /\ pending \in Numbers \cup {Picked}

\* What a call has got hold of, by how far it is.
CallsProgress ==
    \A c \in Caller : call[c] # Idle =>
        /\ call[c].op = "close" <=> c = Update
        /\ call[c].pc \in {"check", "spawn", "register"} => call[c].op = "start"
        /\ call[c].pc \in {"check", "spawn", "take"} => call[c].proc = NoRecording
        /\ call[c].pc \in {"register", "end", "wait", "cleanup", "clear"} =>
              call[c].proc \in Recording
        /\ call[c].pc \in {"take", "end", "wait", "cleanup", "clear"} => call[c].op # "start"
        /\ call[c].path \in {NoRecording, call[c].proc}
        /\ call[c].cleanup \in {NoRecording, call[c].proc}

\* Processes start once and end once: a number in use has been started, and a
\* call that is past the process has seen it end or given up on it.
ProcessesProgress ==
    /\ rec.active # NoRecording => process[rec.active] # "unused"
    /\ \A n \in once : process[n] \in {"ended", "loose"}
    /\ pending \in Recording => pending \in once
    /\ \A c \in Caller : call[c] # Idle /\ call[c].proc # NoRecording =>
          /\ process[call[c].proc] # "unused"
          /\ call[c].pc \in {"cleanup", "clear"} => process[call[c].proc] \in {"ended", "loose"}
          /\ call[c].pc = "result" /\ call[c].op # "start" => call[c].proc \in once

\* What is the Recorder's is nobody else's yet.
Fresh ==
    /\ rec.active \notin once
    /\ rec.active # NoRecording => /\ rec.path \in {NoRecording, rec.active}
                                   /\ rec.cleanup \in {NoRecording, rec.active}
    /\ \A c \in Caller : At(c, "register") =>
          /\ rec.active # call[c].proc
          /\ call[c].proc \notin once
          /\ \A d \in Caller \ {c} : call[d] # Idle => call[d].proc # call[c].proc

\* Starts that do not overlap find the Recorder empty, and the recording a
\* call is about to clear is still the active one or was cleared before.
StartsAlone ==
    overlapped \/
        /\ \A c, d \in Caller : Starting(c) /\ Starting(d) => c = d
        /\ \A c \in Caller : Starting(c) => rec.active = NoRecording
        /\ \A c \in Caller : Ends(c) => call[c].proc \in once \cup {rec.active}

\* A running active recording is shown, or its Start is about to show it.
ShownOrAboutTo ==
    Open /\ rec.active \in Running =>
        \/ shown \/ strayed
        \/ \E c \in Routine : At(c, "result") /\ call[c].op = "start" /\ call[c].out = "ok"

\* Two calls that took one recording are known to contend for it.
Contention ==
    /\ \A c, d \in Caller :
          /\ c # d /\ call[c] # Idle /\ call[d] # Idle
          /\ call[c].op # "start" /\ call[d].op # "start"
          /\ call[c].proc # NoRecording /\ call[c].proc = call[d].proc
          => call[c].proc \in contested
    /\ \A c \in Caller : Ends(c) => call[c].proc \notin once \/ call[c].proc \in contested
    /\ \A c \in Caller :
          call[c] # Idle /\ call[c].op # "start" /\ call[c].proc # NoRecording
                         /\ call[c].proc = pending
          => pending \in contested
    /\ pending \in Recording => pending \in files \cup contested

RecorderInv ==
    /\ RecorderTypes /\ CallsProgress /\ ProcessesProgress /\ Fresh
    /\ StartsAlone /\ ShownOrAboutTo /\ Contention
    /\ RecordingsAreTracked

PlayerInv ==
    /\ active \in Playback \cup {NoPlayback}
    /\ sound \in [Playback -> {"unused", "running", "ended", "reaped"}]
    /\ play \in [Speaker -> [pc : {"idle", "stop", "spawn", "register"},
                             proc : Playback \cup {NoPlayback}]]
    /\ \A s \in Speaker : play[s].pc # "register" => play[s].proc = NoPlayback
    /\ PlaybackIsTracked

-----------------------------------------------------------------------------
(***************************************************************************)
(* The player.  A playback that sounds is held by the Play that started it *)
(* until it is the active one, and then by active.                         *)
(***************************************************************************)

LEMMA PlayerStart == PlayerInit => PlayerInv
  BY DEF PlayerInit, PlayerInv, PlaybackIsTracked, Sounding, NotPlaying, NoPlayback

LEMMA PlayerStays ==
  ASSUME PlayerInv, UNCHANGED playerVars PROVE PlayerInv'
  BY DEF PlayerInv, playerVars, PlaybackIsTracked, Sounding

LEMMA StopPlayerKeeps ==
  ASSUME PlayerInv, StopPlayer PROVE PlayerInv'
  BY PlayerAssumption DEF PlayerInv, StopPlayer, Silenced, PlaybackIsTracked, Sounding, NoPlayback

LEMMA PlayNoteKeeps ==
  ASSUME PlayerInv, PlayNote PROVE PlayerInv'
<1>1. PICK s \in Speaker : play[s] = NotPlaying /\ play' = [play EXCEPT ![s].pc = "stop"]
  BY DEF PlayNote
<1>2. \A q \in Speaker : play'[q].proc = play[q].proc
  BY <1>1 DEF PlayerInv
<1> QED
  BY <1>1, <1>2 DEF PlayNote, PlayerInv, PlaybackIsTracked, Sounding, NotPlaying

\* A step of the player's own goroutines.
LEMMA PlayerStepKeeps ==
  ASSUME PlayerInv, PlayerStep PROVE PlayerInv'
<1> USE PlayerAssumption DEF PlayerInv, PlaybackIsTracked, Sounding, NoPlayback
<1>1. ASSUME NEW s \in Speaker, PlayStops(s) PROVE PlayerInv'
  <2>1. \A q \in Speaker : play'[q].proc = play[q].proc
    BY <1>1 DEF PlayStops
  <2> QED
    BY <1>1, <2>1 DEF PlayStops, Silenced
<1>2. ASSUME NEW s \in Speaker, PlaySpawns(s) PROVE PlayerInv'
  <2>1. ASSUME NEW n \in Playback,
               sound[n] = "unused", sound' = [sound EXCEPT ![n] = "running"],
               play' = [play EXCEPT ![s] = [pc |-> "register", proc |-> n]],
               UNCHANGED <<active, overwritten>>
        PROVE  PlayerInv'
    <3>1. Sounding' = Sounding \cup {n}
      BY <2>1
    <3>2. {play[q].proc : q \in Speaker} \subseteq {play'[q].proc : q \in Speaker} \cup {NoPlayback}
      BY <1>2, <2>1 DEF PlaySpawns
    <3>3. n \in {play'[q].proc : q \in Speaker}
      BY <2>1
    <3> QED
      BY <2>1, <3>1, <3>2, <3>3
  <2>2. CASE play' = [play EXCEPT ![s] = NotPlaying] /\ UNCHANGED <<sound, active, overwritten>>
    <3>1. {play[q].proc : q \in Speaker} \subseteq {play'[q].proc : q \in Speaker} \cup {NoPlayback}
      BY <1>2, <2>2 DEF PlaySpawns
    <3> QED
      BY <2>2, <3>1 DEF NotPlaying
  <2> QED
    BY <1>2, <2>1, <2>2 DEF PlaySpawns
<1>3. ASSUME NEW s \in Speaker, PlayRegisters(s) PROVE PlayerInv'
  <2>1. {play[q].proc : q \in Speaker} \subseteq {play'[q].proc : q \in Speaker} \cup {active'}
    BY <1>3 DEF PlayRegisters
  <2> QED
    BY <1>3, <2>1 DEF PlayRegisters, NotPlaying
<1>4. ASSUME NEW n \in Playback, SoundEnds(n) PROVE PlayerInv'
  BY <1>4 DEF SoundEnds
<1>5. ASSUME NEW n \in Playback, Reap(n) PROVE PlayerInv'
  BY <1>5 DEF Reap
<1> QED
  BY <1>1, <1>2, <1>3, <1>4, <1>5 DEF PlayerStep

-----------------------------------------------------------------------------
(***************************************************************************)
(* The recorder and the window.                                            *)
(***************************************************************************)

LEMMA RecorderStart == Init => RecorderInv
<1> SUFFICES ASSUME Init PROVE RecorderInv
  OBVIOUS
<1> USE RecorderAssumption DEF Init, RecorderInit, Numbers, NoRecording, Caller
<1>1. RecorderTypes
  BY DEF RecorderTypes, Picked
<1>2. CallsProgress
  BY DEF CallsProgress
<1>3. ProcessesProgress
  BY DEF ProcessesProgress
<1>4. Fresh
  BY DEF Fresh, At
<1>5. StartsAlone
  BY DEF StartsAlone, Starting, Ends, At
<1>6. ShownOrAboutTo
  BY DEF ShownOrAboutTo, Running
<1>7. Contention
  BY DEF Contention, Ends, At
<1>8. RecordingsAreTracked
  BY DEF RecordingsAreTracked, Running
<1> QED
  BY <1>1, <1>2, <1>3, <1>4, <1>5, <1>6, <1>7, <1>8 DEF RecorderInv

LEMMA RecorderStays ==
  ASSUME RecorderInv, UNCHANGED <<recVars, shown, pending, strayed>> PROVE RecorderInv'
<1> USE DEF RecorderInv, recVars
<1>1. RecorderTypes' /\ CallsProgress' /\ ProcessesProgress'
  BY DEF RecorderTypes, CallsProgress, ProcessesProgress
<1>2. Fresh' /\ StartsAlone' /\ ShownOrAboutTo'
  BY DEF Fresh, StartsAlone, ShownOrAboutTo, Starting, Ends, At, Running, Open
<1>3. Contention' /\ RecordingsAreTracked'
  BY DEF Contention, RecordingsAreTracked, Ends, At, Running, Taken
<1> QED
  BY <1>1, <1>2, <1>3

PCs == {"check", "spawn", "register", "take", "end", "wait", "cleanup", "clear", "result"}
Outs == {"none", "ok", "error"}

\* What a call keeps while it goes on.
Same(j, k) == j.op = k.op /\ j.proc = k.proc /\ j.path = k.path /\ j.cleanup = k.cleanup

\* Call c goes on to pc, and no other call does anything.
Moves(c, pc) ==
    /\ call' \in [Caller -> {Idle} \cup Job]
    /\ call'[c] # Idle /\ call'[c].pc = pc
    /\ \A d \in Caller : d # c => call'[d] = call[d]
Goes(c, pc) == Moves(c, pc) /\ Same(call'[c], call[c])

LEMMA JobIsNotIdle == \A j \in Job : j # Idle
  BY DEF Job, Idle

LEMMA BecomesJob ==
  ASSUME RecorderTypes, NEW c \in Caller, NEW j \in Job, Becomes(c, j)
  PROVE  Moves(c, j.pc) /\ call'[c] = j
  BY JobIsNotIdle DEF Becomes, RecorderTypes, Moves

LEMMA PassesTo ==
  ASSUME RecorderTypes, NEW c \in Caller, call[c] # Idle, NEW pc \in PCs, Passes(c, pc)
  PROVE  Goes(c, pc) /\ call'[c].out = call[c].out
<1> DEFINE j == [call[c] EXCEPT !.pc = pc]
<1>1. j \in Job /\ j.pc = pc /\ Same(j, call[c]) /\ j.out = call[c].out
  BY DEF RecorderTypes, Job, PCs, Same
<1>2. Becomes(c, j)
  BY DEF Passes
<1> HIDE DEF j
<1> QED
  BY <1>1, <1>2, BecomesJob DEF Goes

LEMMA PassesWith ==
  ASSUME RecorderTypes, NEW c \in Caller, call[c] # Idle, NEW pc \in PCs, NEW o \in Outs,
         Becomes(c, [call[c] EXCEPT !.pc = pc, !.out = o])
  PROVE  Goes(c, pc) /\ call'[c].out = o
<1> DEFINE j == [call[c] EXCEPT !.pc = pc, !.out = o]
<1>1. call[c] \in Job
  BY DEF RecorderTypes
<1>2. j \in Job /\ j.pc = pc /\ Same(j, call[c]) /\ j.out = o
  BY <1>1 DEF Job, PCs, Outs, Same
<1>3. Becomes(c, j)
  OBVIOUS
<1> HIDE DEF j
<1> QED
  BY <1>2, <1>3, BecomesJob DEF Goes

LEMMA ReturnsWith ==
  ASSUME RecorderTypes, NEW c \in Caller, call[c] # Idle, NEW out \in Outs, Returns(c, out)
  PROVE  Goes(c, "result") /\ call'[c].out = out
  BY PassesWith DEF Returns, PCs

LEMMA StartCheckKeeps ==
  ASSUME RecorderInv, NEW c \in Caller, StartCheck(c), UNCHANGED <<shown, pending, strayed>>
  PROVE  RecorderInv'
<1> USE RecorderAssumption DEF RecorderInv, Numbers, NoRecording
<1>1. call[c] # Idle
  BY DEF StartCheck, At
<1>2. CASE Returns(c, "error") /\ UNCHANGED overlapped
  <2>1. Goes(c, "result") /\ call'[c].out = "error"
    BY <1>1, <1>2, ReturnsWith DEF Outs
  <2>2. call[c].pc = "check" /\ UNCHANGED <<rec, process, files, once, contested, shown, pending, strayed>> /\ UNCHANGED overlapped
    BY <1>2 DEF At, StartCheck
  <2>10. RecorderTypes'
    BY <1>1, <2>1, <2>2 DEF Goes, Moves, Same, RecorderTypes
  <2>11. CallsProgress'
    BY <1>1, <2>1, <2>2 DEF Goes, Moves, Same, RecorderTypes, CallsProgress
  <2>12. ProcessesProgress'
    BY <1>1, <2>1, <2>2 DEF Goes, Moves, Same, RecorderTypes, CallsProgress, ProcessesProgress
  <2>13. Fresh'
    BY <1>1, <2>1, <2>2 DEF Goes, Moves, Same, RecorderTypes, CallsProgress, ProcessesProgress, Fresh, At
  <2>14. StartsAlone'
    BY <1>1, <2>1, <2>2 DEF Goes, Moves, Same, RecorderTypes, CallsProgress, ProcessesProgress, Fresh, StartsAlone, Starting, Ends, At, Caller
  <2>15. ShownOrAboutTo'
    BY <1>1, <2>1, <2>2 DEF Goes, Moves, Same, RecorderTypes, CallsProgress, ProcessesProgress, Fresh, ShownOrAboutTo, Open, Running, At, Caller
  <2>16. Contention'
    BY <1>1, <2>1, <2>2 DEF Goes, Moves, Same, RecorderTypes, CallsProgress, ProcessesProgress, Fresh, Contention, Ends, At
  <2>17. RecordingsAreTracked'
    BY <1>1, <2>1, <2>2 DEF Goes, Moves, Same, RecorderTypes, CallsProgress, ProcessesProgress, RecordingsAreTracked, StartsAlone, Starting, Ends, Running, Taken, Caller, At
  <2> QED
    BY <2>10, <2>11, <2>12, <2>13, <2>14, <2>15, <2>16, <2>17
<1>3. CASE ~(rec.closed \/ rec.active # NoRecording) /\ Passes(c, "spawn") /\ overlapped' = (overlapped \/ \E d \in Routine : At(d, "spawn") \/ At(d, "register"))
  <2>1. Goes(c, "spawn")
    BY <1>1, <1>3, PassesTo DEF PCs
  <2>2. /\ call[c].pc = "check" /\ rec.active = NoRecording /\ UNCHANGED <<rec, process, files, once, contested, shown, pending, strayed>>
        /\ overlapped' = (overlapped \/ \E d \in Routine : At(d, "spawn") \/ At(d, "register"))
    BY <1>3 DEF At, StartCheck
  <2>10. RecorderTypes'
    BY <1>1, <2>1, <2>2 DEF Goes, Moves, Same, RecorderTypes
  <2>11. CallsProgress'
    BY <1>1, <2>1, <2>2 DEF Goes, Moves, Same, RecorderTypes, CallsProgress
  <2>12. ProcessesProgress'
    BY <1>1, <2>1, <2>2 DEF Goes, Moves, Same, RecorderTypes, CallsProgress, ProcessesProgress
  <2>13. Fresh'
    BY <1>1, <2>1, <2>2 DEF Goes, Moves, Same, RecorderTypes, CallsProgress, ProcessesProgress, Fresh, At
  <2>3. ASSUME ~overlapped' PROVE \A d \in Caller : ~Starting(d)
    BY <2>2, <2>3 DEF Starting, At, Caller, CallsProgress
  <2>4. ASSUME ~overlapped' PROVE \A d \in Caller : d # c => ~Starting(d)'
    BY <2>1, <2>3, <2>4 DEF Goes, Moves, Starting, At
  <2>5. \A d \in Caller : Ends(d)' => Ends(d) /\ call'[d].proc = call[d].proc
    BY <2>1 DEF Goes, Moves, Ends, At
  <2>14. StartsAlone'
    BY <2>2, <2>4, <2>5 DEF StartsAlone
  <2>15. ShownOrAboutTo'
    BY <1>1, <2>1, <2>2 DEF Goes, Moves, Same, RecorderTypes, CallsProgress, ProcessesProgress, Fresh, ShownOrAboutTo, Open, Running, At, Caller
  <2>16. Contention'
    BY <1>1, <2>1, <2>2 DEF Goes, Moves, Same, RecorderTypes, CallsProgress, ProcessesProgress, Fresh, Contention, Ends, At
  <2>17. RecordingsAreTracked'
    BY <1>1, <2>1, <2>2 DEF Goes, Moves, Same, RecorderTypes, CallsProgress, ProcessesProgress, RecordingsAreTracked, StartsAlone, Starting, Ends, Running, Taken, Caller, At
  <2> QED
    BY <2>10, <2>11, <2>12, <2>13, <2>14, <2>15, <2>16, <2>17
<1> QED
  BY <1>2, <1>3 DEF StartCheck

LEMMA SpawnKeeps ==
  ASSUME RecorderInv, NEW c \in Caller, Spawn(c), UNCHANGED <<shown, pending, strayed>>
  PROVE  RecorderInv'
<1> USE RecorderAssumption DEF RecorderInv, Numbers, NoRecording
<1>1. call[c] # Idle
  BY DEF Spawn, At
<1>2. ASSUME NEW n \in Recording,
             process[n] = "unused", process' = [process EXCEPT ![n] = "running"],
             files' = files \cup {n},
             Becomes(c, [call[c] EXCEPT !.pc = "register", !.proc = n])
      PROVE  RecorderInv'
  <2> DEFINE j == [call[c] EXCEPT !.pc = "register", !.proc = n]
  <2>1. call[c].pc = "spawn" /\ UNCHANGED <<rec, once, overlapped, contested, shown, pending, strayed>>
    BY DEF Spawn, At
  <2>2. call[c] \in Job /\ call[c].op = "start"
        /\ call[c].path = NoRecording /\ call[c].cleanup = NoRecording
    BY <1>1, <2>1 DEF RecorderTypes, CallsProgress
  <2>3. /\ j \in Job /\ j.pc = "register" /\ j.proc = n /\ j.op = "start"
        /\ j.path = NoRecording /\ j.cleanup = NoRecording
    BY <2>2 DEF Job
  <2>4. Becomes(c, j)
    BY <1>2
  <2> HIDE DEF j
  <2>5. Moves(c, "register") /\ call'[c] = j
    BY <2>3, <2>4, BecomesJob
  <2>10. RecorderTypes'
    BY <1>1, <1>2, <2>1, <2>3, <2>5 DEF Goes, Moves, Same, RecorderTypes
  <2>11. CallsProgress'
    BY <1>1, <1>2, <2>1, <2>3, <2>5 DEF Goes, Moves, Same, RecorderTypes, CallsProgress
  <2>12. ProcessesProgress'
    BY <1>1, <1>2, <2>1, <2>3, <2>5 DEF Goes, Moves, Same, RecorderTypes, CallsProgress, ProcessesProgress
  <2>13. Fresh'
    BY <1>1, <1>2, <2>1, <2>3, <2>5 DEF Goes, Moves, Same, RecorderTypes, CallsProgress, ProcessesProgress, Fresh, At
  <2>14. StartsAlone'
    BY SMTT(30), <1>1, <1>2, <2>1, <2>3, <2>5 DEF Goes, Moves, Same, RecorderTypes, CallsProgress, ProcessesProgress, Fresh, StartsAlone, Starting, Ends, At, Caller
  <2>15. ShownOrAboutTo'
    BY <1>1, <1>2, <2>1, <2>3, <2>5 DEF Goes, Moves, Same, RecorderTypes, CallsProgress, ProcessesProgress, Fresh, ShownOrAboutTo, Open, Running, At, Caller
  <2>16. Contention'
    BY <1>1, <1>2, <2>1, <2>3, <2>5 DEF Goes, Moves, Same, RecorderTypes, CallsProgress, ProcessesProgress, Fresh, Contention, Ends, At
  <2>17. RecordingsAreTracked'
    BY <1>1, <1>2, <2>1, <2>3, <2>5 DEF Goes, Moves, Same, RecorderTypes, CallsProgress, ProcessesProgress, RecordingsAreTracked, StartsAlone, Starting, Ends, Running, Taken, Caller, At
  <2> QED
    BY <2>10, <2>11, <2>12, <2>13, <2>14, <2>15, <2>16, <2>17
<1>3. CASE Returns(c, "error") /\ UNCHANGED <<process, files>>
  <2>1. Goes(c, "result") /\ call'[c].out = "error"
    BY <1>1, <1>3, ReturnsWith DEF Outs
  <2>2. call[c].pc = "spawn" /\ UNCHANGED <<process, files>>
        /\ UNCHANGED <<rec, once, overlapped, contested, shown, pending, strayed>>
    BY <1>3 DEF At, Spawn
  <2>10. RecorderTypes'
    BY <1>1, <2>1, <2>2 DEF Goes, Moves, Same, RecorderTypes
  <2>11. CallsProgress'
    BY <1>1, <2>1, <2>2 DEF Goes, Moves, Same, RecorderTypes, CallsProgress
  <2>12. ProcessesProgress'
    BY <1>1, <2>1, <2>2 DEF Goes, Moves, Same, RecorderTypes, CallsProgress, ProcessesProgress
  <2>13. Fresh'
    BY <1>1, <2>1, <2>2 DEF Goes, Moves, Same, RecorderTypes, CallsProgress, ProcessesProgress, Fresh, At
  <2>14. StartsAlone'
    BY <1>1, <2>1, <2>2 DEF Goes, Moves, Same, RecorderTypes, CallsProgress, ProcessesProgress, Fresh, StartsAlone, Starting, Ends, At, Caller
  <2>15. ShownOrAboutTo'
    BY <1>1, <2>1, <2>2 DEF Goes, Moves, Same, RecorderTypes, CallsProgress, ProcessesProgress, Fresh, ShownOrAboutTo, Open, Running, At, Caller
  <2>16. Contention'
    BY <1>1, <2>1, <2>2 DEF Goes, Moves, Same, RecorderTypes, CallsProgress, ProcessesProgress, Fresh, Contention, Ends, At
  <2>17. RecordingsAreTracked'
    BY <1>1, <2>1, <2>2 DEF Goes, Moves, Same, RecorderTypes, CallsProgress, ProcessesProgress, RecordingsAreTracked, StartsAlone, Starting, Ends, Running, Taken, Caller, At
  <2> QED
    BY <2>10, <2>11, <2>12, <2>13, <2>14, <2>15, <2>16, <2>17
<1> QED
  BY <1>2, <1>3 DEF Spawn

LEMMA RegisterKeeps ==
  ASSUME RecorderInv, NEW c \in Caller, Register(c), UNCHANGED <<shown, pending, strayed>>
  PROVE  RecorderInv'
<1> USE RecorderAssumption DEF RecorderInv, Numbers, NoRecording
<1>1. call[c] # Idle
  BY DEF Register, At
<1>2. CASE rec.closed
  <2>1. Goes(c, "result") /\ call'[c].out = "error"
    BY <1>1, <1>2, ReturnsWith DEF Outs, Register
  <2>2. /\ call[c].pc = "register" /\ rec.closed /\ UNCHANGED rec /\ UNCHANGED <<once, overlapped, contested, shown, pending, strayed>>
        /\ files' = files \ {call[c].proc}
    BY <1>2 DEF At, Register
  <2>3. PICK end \in {"ended", "loose"} : process' = [process EXCEPT ![call[c].proc] = end]
    BY <1>2 DEF Register
  <2>10. RecorderTypes'
    BY <1>1, <2>1, <2>2, <2>3 DEF Goes, Moves, Same, RecorderTypes
  <2>11. CallsProgress'
    BY <1>1, <2>1, <2>2, <2>3 DEF Goes, Moves, Same, RecorderTypes, CallsProgress
  <2>12. ProcessesProgress'
    BY <1>1, <2>1, <2>2, <2>3 DEF Goes, Moves, Same, RecorderTypes, CallsProgress, ProcessesProgress
  <2>13. Fresh'
    BY <1>1, <2>1, <2>2, <2>3 DEF Goes, Moves, Same, RecorderTypes, CallsProgress, ProcessesProgress, Fresh, At
  <2>14. StartsAlone'
    BY <1>1, <2>1, <2>2, <2>3 DEF Goes, Moves, Same, RecorderTypes, CallsProgress, ProcessesProgress, Fresh, StartsAlone, Starting, Ends, At, Caller
  <2>15. ShownOrAboutTo'
    BY <1>1, <2>1, <2>2, <2>3 DEF Goes, Moves, Same, RecorderTypes, CallsProgress, ProcessesProgress, Fresh, ShownOrAboutTo, Open, Running, At, Caller
  <2>16. Contention'
    BY <1>1, <2>1, <2>2, <2>3 DEF Goes, Moves, Same, RecorderTypes, CallsProgress, ProcessesProgress, Fresh, Contention, Ends, At
  <2>17. RecordingsAreTracked'
    BY <1>1, <2>1, <2>2, <2>3 DEF Goes, Moves, Same, RecorderTypes, CallsProgress, ProcessesProgress, RecordingsAreTracked, StartsAlone, Starting, Ends, Running, Taken, Caller, At
  <2> QED
    BY <2>10, <2>11, <2>12, <2>13, <2>14, <2>15, <2>16, <2>17
<1>3. CASE ~rec.closed
  <2>1. Goes(c, "result") /\ call'[c].out = "ok"
    BY <1>1, <1>3, ReturnsWith DEF Outs, Register
  <2>2. /\ call[c].pc = "register" /\ ~rec.closed /\ UNCHANGED <<process, files>> /\ UNCHANGED <<once, overlapped, contested, shown, pending, strayed>>
        /\ rec' = [rec EXCEPT !.active = call[c].proc, !.path = call[c].proc,
                             !.cleanup = call[c].proc]
    BY <1>3 DEF At, Register
  <2>10. RecorderTypes'
    BY <1>1, <2>1, <2>2 DEF Goes, Moves, Same, RecorderTypes, CallsProgress
  <2>11. CallsProgress'
    BY <1>1, <2>1, <2>2 DEF Goes, Moves, Same, RecorderTypes, CallsProgress
  <2>12. ProcessesProgress'
    BY <1>1, <2>1, <2>2 DEF Goes, Moves, Same, RecorderTypes, CallsProgress, ProcessesProgress
  <2>13. Fresh'
    BY <1>1, <2>1, <2>2 DEF Goes, Moves, Same, RecorderTypes, CallsProgress, ProcessesProgress, Fresh, At
  <2>14. StartsAlone'
    BY <1>1, <2>1, <2>2 DEF Goes, Moves, Same, RecorderTypes, CallsProgress, ProcessesProgress, Fresh, StartsAlone, Starting, Ends, At, Caller
  <2>15. ShownOrAboutTo'
    BY <1>1, <2>1, <2>2 DEF Goes, Moves, Same, RecorderTypes, CallsProgress, ProcessesProgress, Fresh, ShownOrAboutTo, Open, Running, At, Caller
  <2>16. Contention'
    BY <1>1, <2>1, <2>2 DEF Goes, Moves, Same, RecorderTypes, CallsProgress, ProcessesProgress, Fresh, Contention, Ends, At
  <2>17. RecordingsAreTracked'
    BY <1>1, <2>1, <2>2 DEF Goes, Moves, Same, RecorderTypes, CallsProgress, ProcessesProgress, RecordingsAreTracked, StartsAlone, Starting, Ends, Running, Taken, Caller, At
  <2> QED
    BY <2>10, <2>11, <2>12, <2>13, <2>14, <2>15, <2>16, <2>17
<1> QED
  BY <1>2, <1>3 DEF Register

LEMMA TakeKeeps ==
  ASSUME RecorderInv, NEW c \in Caller, Take(c), UNCHANGED <<shown, pending, strayed>>
  PROVE  RecorderInv'
<1> USE RecorderAssumption DEF RecorderInv, Numbers, NoRecording
<1>1. call[c] # Idle
  BY DEF Take, At
<1>2. CASE rec.active = NoRecording
  <2>1. Goes(c, "result")
    BY <1>1, <1>2, ReturnsWith DEF Outs, Take
  <2>2. /\ call[c].pc = "take" /\ UNCHANGED <<process, files, once, overlapped, shown, pending, strayed>> /\ contested' = contested \cup (Taken \cap {NoRecording})
        /\ rec' = IF call[c].op = "stop" THEN rec
                  ELSE [rec EXCEPT !.cleanup = NoRecording, !.path = NoRecording]
    BY <1>2 DEF At, Take
  <2>10. RecorderTypes'
    BY <1>1, <2>1, <2>2 DEF Goes, Moves, Same, RecorderTypes
  <2>11. CallsProgress'
    BY <1>1, <2>1, <2>2 DEF Goes, Moves, Same, RecorderTypes, CallsProgress
  <2>12. ProcessesProgress'
    BY <1>1, <2>1, <2>2 DEF Goes, Moves, Same, RecorderTypes, CallsProgress, ProcessesProgress
  <2>13. Fresh'
    BY <1>1, <2>1, <2>2 DEF Goes, Moves, Same, RecorderTypes, CallsProgress, ProcessesProgress, Fresh, At
  <2>14. StartsAlone'
    BY <1>1, <2>1, <2>2 DEF Goes, Moves, Same, RecorderTypes, CallsProgress, ProcessesProgress, Fresh, StartsAlone, Starting, Ends, At, Caller
  <2>15. ShownOrAboutTo'
    BY <1>1, <2>1, <2>2 DEF Goes, Moves, Same, RecorderTypes, CallsProgress, ProcessesProgress, Fresh, ShownOrAboutTo, Open, Running, At, Caller
  <2>16. Contention'
    BY <1>1, <2>1, <2>2 DEF Goes, Moves, Same, RecorderTypes, CallsProgress, ProcessesProgress, Fresh, Contention, Ends, At
  <2>3. Taken \subseteq Taken' \cup {NoRecording}
    BY <1>1, <2>1, <2>2 DEF Goes, Moves, CallsProgress, Taken, Caller
  <2>17. RecordingsAreTracked'
    BY <1>1, <1>2, <2>1, <2>2, <2>3 DEF Goes, Moves, CallsProgress, RecorderTypes,
       RecordingsAreTracked, Running, At, Caller
  <2> QED
    BY <2>10, <2>11, <2>12, <2>13, <2>14, <2>15, <2>16, <2>17
<1>3. CASE rec.active # NoRecording
  <2> DEFINE j == [call[c] EXCEPT !.pc = "end", !.proc = rec.active, !.path = rec.path,
                                  !.cleanup = rec.cleanup]
  <2>1. /\ call[c].pc = "take" /\ UNCHANGED <<process, files, once, overlapped, shown, pending, strayed>>
        /\ contested' = contested \cup (Taken \cap {rec.active})
        /\ rec' = IF call[c].op = "stop" THEN rec
                  ELSE [rec EXCEPT !.cleanup = NoRecording, !.path = NoRecording]
    BY DEF Take, At
  <2>2. /\ call[c] \in Job /\ call[c].op # "start"
        /\ rec.active \in Numbers /\ rec.path \in Numbers /\ rec.cleanup \in Numbers
    BY <1>1, <2>1 DEF RecorderTypes, CallsProgress
  <2>3. /\ j \in Job /\ j.pc = "end" /\ j.proc = rec.active /\ j.op = call[c].op
        /\ j.path = rec.path /\ j.cleanup = rec.cleanup
    BY <2>2 DEF Job
  <2>4. Becomes(c, j)
    BY <1>3 DEF Take
  <2> HIDE DEF j
  <2>5. Moves(c, "end") /\ call'[c] = j
    BY <2>3, <2>4, BecomesJob
  <2>10. RecorderTypes'
    BY <1>1, <1>3, <2>1, <2>2, <2>3, <2>5 DEF Goes, Moves, Same, RecorderTypes
  <2>11. CallsProgress'
    BY <1>1, <1>3, <2>1, <2>2, <2>3, <2>5 DEF Goes, Moves, Same, RecorderTypes, CallsProgress, Fresh
  <2>12. ProcessesProgress'
    BY <1>1, <1>3, <2>1, <2>2, <2>3, <2>5 DEF Goes, Moves, Same, RecorderTypes, CallsProgress, ProcessesProgress
  <2>13. Fresh'
    BY <1>1, <1>3, <2>1, <2>2, <2>3, <2>5 DEF Goes, Moves, Same, RecorderTypes, CallsProgress, ProcessesProgress, Fresh, At
  <2>14. StartsAlone'
    BY <1>1, <1>3, <2>1, <2>2, <2>3, <2>5 DEF Goes, Moves, Same, RecorderTypes, CallsProgress, ProcessesProgress, Fresh, StartsAlone, Starting, Ends, At, Caller
  <2>15. ShownOrAboutTo'
    BY <1>1, <1>3, <2>1, <2>2, <2>3, <2>5 DEF Goes, Moves, Same, RecorderTypes, CallsProgress, ProcessesProgress, Fresh, ShownOrAboutTo, Open, Running, At, Caller
  <2>16. Contention'
    BY <1>1, <1>3, <2>1, <2>2, <2>3, <2>5 DEF Goes, Moves, Same, RecorderTypes, CallsProgress, ProcessesProgress, Fresh, Contention, Ends, At, Taken, Caller
  <2>17. RecordingsAreTracked'
    BY <1>1, <1>3, <2>1, <2>2, <2>3, <2>5 DEF Goes, Moves, Same, RecorderTypes, CallsProgress, ProcessesProgress, RecordingsAreTracked, StartsAlone, Starting, Ends, Running, Taken, Caller, At
  <2> QED
    BY <2>10, <2>11, <2>12, <2>13, <2>14, <2>15, <2>16, <2>17
<1> QED
  BY <1>2, <1>3 DEF Take

LEMMA SignalKeeps ==
  ASSUME RecorderInv, NEW c \in Caller, Signal(c), UNCHANGED <<shown, pending, strayed>>
  PROVE  RecorderInv'
<1> USE RecorderAssumption DEF RecorderInv, Numbers, NoRecording
<1>1. call[c] # Idle
  BY DEF Signal, At
<1>2. CASE GivesUp(c)
  <2>1. Goes(c, "clear")
    BY <1>1, <1>2, PassesWith DEF Outs, PCs, GivesUp
  <2>2. /\ call[c].pc = "end"
        /\ UNCHANGED <<rec, files, once, overlapped, contested, shown, pending, strayed>>
    BY DEF At, Signal
  <2>3. PICK end \in {"ended", "loose"} : process' = [process EXCEPT ![call[c].proc] = end]
    BY <1>2 DEF GivesUp
  <2>10. RecorderTypes'
    BY <1>1, <2>1, <2>2, <2>3 DEF Goes, Moves, Same, RecorderTypes
  <2>11. CallsProgress'
    BY <1>1, <2>1, <2>2, <2>3 DEF Goes, Moves, Same, RecorderTypes, CallsProgress
  <2>12. ProcessesProgress'
    BY <1>1, <2>1, <2>2, <2>3 DEF Goes, Moves, Same, RecorderTypes, CallsProgress, ProcessesProgress
  <2>13. Fresh'
    BY <1>1, <2>1, <2>2, <2>3 DEF Goes, Moves, Same, RecorderTypes, CallsProgress, ProcessesProgress, Fresh, At
  <2>14. StartsAlone'
    BY <1>1, <2>1, <2>2, <2>3 DEF Goes, Moves, Same, RecorderTypes, CallsProgress, ProcessesProgress, Fresh, StartsAlone, Starting, Ends, At, Caller
  <2>15. ShownOrAboutTo'
    BY <1>1, <2>1, <2>2, <2>3 DEF Goes, Moves, Same, RecorderTypes, CallsProgress, ProcessesProgress, Fresh, ShownOrAboutTo, Open, Running, At, Caller
  <2>16. Contention'
    BY <1>1, <2>1, <2>2, <2>3 DEF Goes, Moves, Same, RecorderTypes, CallsProgress, ProcessesProgress, Fresh, Contention, Ends, At
  <2>17. RecordingsAreTracked'
    BY <1>1, <2>1, <2>2, <2>3 DEF Goes, Moves, Same, RecorderTypes, CallsProgress, ProcessesProgress, RecordingsAreTracked, StartsAlone, Starting, Ends, Running, Taken, Caller, At
  <2> QED
    BY <2>10, <2>11, <2>12, <2>13, <2>14, <2>15, <2>16, <2>17
<1>3. CASE Passes(c, "wait") /\ UNCHANGED process
  <2>1. Goes(c, "wait")
    BY <1>1, <1>3, PassesTo DEF PCs
  <2>2. call[c].pc = "end" /\ UNCHANGED <<rec, process, files, once, overlapped, contested, shown, pending, strayed>>
    BY <1>3 DEF At, Signal
  <2>10. RecorderTypes'
    BY <1>1, <2>1, <2>2 DEF Goes, Moves, Same, RecorderTypes
  <2>11. CallsProgress'
    BY <1>1, <2>1, <2>2 DEF Goes, Moves, Same, RecorderTypes, CallsProgress
  <2>12. ProcessesProgress'
    BY <1>1, <2>1, <2>2 DEF Goes, Moves, Same, RecorderTypes, CallsProgress, ProcessesProgress
  <2>13. Fresh'
    BY <1>1, <2>1, <2>2 DEF Goes, Moves, Same, RecorderTypes, CallsProgress, ProcessesProgress, Fresh, At
  <2>14. StartsAlone'
    BY <1>1, <2>1, <2>2 DEF Goes, Moves, Same, RecorderTypes, CallsProgress, ProcessesProgress, Fresh, StartsAlone, Starting, Ends, At, Caller
  <2>15. ShownOrAboutTo'
    BY <1>1, <2>1, <2>2 DEF Goes, Moves, Same, RecorderTypes, CallsProgress, ProcessesProgress, Fresh, ShownOrAboutTo, Open, Running, At, Caller
  <2>16. Contention'
    BY <1>1, <2>1, <2>2 DEF Goes, Moves, Same, RecorderTypes, CallsProgress, ProcessesProgress, Fresh, Contention, Ends, At
  <2>17. RecordingsAreTracked'
    BY <1>1, <2>1, <2>2 DEF Goes, Moves, Same, RecorderTypes, CallsProgress, ProcessesProgress, RecordingsAreTracked, StartsAlone, Starting, Ends, Running, Taken, Caller, At
  <2> QED
    BY <2>10, <2>11, <2>12, <2>13, <2>14, <2>15, <2>16, <2>17
<1> QED
  BY <1>2, <1>3 DEF Signal

LEMMA EndedKeeps ==
  ASSUME RecorderInv, NEW c \in Caller, Ended(c), UNCHANGED <<shown, pending, strayed>>
  PROVE  RecorderInv'
<1> USE RecorderAssumption DEF RecorderInv, Numbers, NoRecording
<1>1. call[c] # Idle
  BY DEF Ended, At
<1>2. Goes(c, "clear")
  BY <1>1, PassesWith DEF Outs, PCs, Ended
<1>3. /\ call[c].pc = "wait" /\ process[call[c].proc] = "ended"
      /\ UNCHANGED <<rec, process, files, once, overlapped, contested, shown, pending, strayed>>
  BY DEF At, Ended, Cleared
<1>10. RecorderTypes'
  BY <1>1, <1>2, <1>3 DEF Goes, Moves, Same, RecorderTypes
<1>11. CallsProgress'
  BY <1>1, <1>2, <1>3 DEF Goes, Moves, Same, RecorderTypes, CallsProgress
<1>12. ProcessesProgress'
  BY <1>1, <1>2, <1>3 DEF Goes, Moves, Same, RecorderTypes, CallsProgress, ProcessesProgress
<1>13. Fresh'
  BY <1>1, <1>2, <1>3 DEF Goes, Moves, Same, RecorderTypes, CallsProgress, ProcessesProgress, Fresh, At
<1>14. StartsAlone'
  BY <1>1, <1>2, <1>3 DEF Goes, Moves, Same, RecorderTypes, CallsProgress, ProcessesProgress, Fresh, StartsAlone, Starting, Ends, At, Caller
<1>15. ShownOrAboutTo'
  BY <1>1, <1>2, <1>3 DEF Goes, Moves, Same, RecorderTypes, CallsProgress, ProcessesProgress, Fresh, ShownOrAboutTo, Open, Running, At, Caller
<1>16. Contention'
  BY <1>1, <1>2, <1>3 DEF Goes, Moves, Same, RecorderTypes, CallsProgress, ProcessesProgress, Fresh, Contention, Ends, At
<1>17. RecordingsAreTracked'
  BY <1>1, <1>2, <1>3 DEF Goes, Moves, Same, RecorderTypes, CallsProgress, ProcessesProgress, RecordingsAreTracked, StartsAlone, Starting, Ends, Running, Taken, Caller, At
<1> QED
  BY <1>10, <1>11, <1>12, <1>13, <1>14, <1>15, <1>16, <1>17

LEMMA KillKeeps ==
  ASSUME RecorderInv, NEW c \in Caller, Kill(c), UNCHANGED <<shown, pending, strayed>>
  PROVE  RecorderInv'
<1> USE RecorderAssumption DEF RecorderInv, Numbers, NoRecording
<1>1. call[c] # Idle
  BY DEF Kill, At
<1>2. PICK pc \in {"cleanup", "clear"} : Goes(c, pc)
  BY <1>1, PassesTo, PassesWith DEF PCs, Outs, Kill, GivesUp
<1>3. PICK end \in {"ended", "loose"} : process' = [process EXCEPT ![call[c].proc] = end]
  BY DEF Kill, GivesUp
<1>4. /\ call[c].pc = "end"
      /\ UNCHANGED <<rec, files, once, overlapped, contested, shown, pending, strayed>>
  BY DEF At, Kill
<1>10. RecorderTypes'
  BY <1>1, <1>2, <1>3, <1>4 DEF Goes, Moves, Same, RecorderTypes
<1>11. CallsProgress'
  BY <1>1, <1>2, <1>3, <1>4 DEF Goes, Moves, Same, RecorderTypes, CallsProgress, Kill
<1>12. ProcessesProgress'
  BY <1>1, <1>2, <1>3, <1>4 DEF Goes, Moves, Same, RecorderTypes, CallsProgress, ProcessesProgress
<1>13. Fresh'
  BY <1>1, <1>2, <1>3, <1>4 DEF Goes, Moves, Same, RecorderTypes, CallsProgress, ProcessesProgress, Fresh, At
<1>14. StartsAlone'
  BY SMTT(30), <1>1, <1>2, <1>3, <1>4 DEF Goes, Moves, Same, RecorderTypes, CallsProgress, ProcessesProgress, Fresh, StartsAlone, Starting, Ends, At, Caller
<1>15. ShownOrAboutTo'
  BY <1>1, <1>2, <1>3, <1>4 DEF Goes, Moves, Same, RecorderTypes, CallsProgress, ProcessesProgress, Fresh, ShownOrAboutTo, Open, Running, At, Caller
<1>16. Contention'
  BY <1>1, <1>2, <1>3, <1>4 DEF Goes, Moves, Same, RecorderTypes, CallsProgress, ProcessesProgress, Fresh, Contention, Ends, At
<1>17. RecordingsAreTracked'
  BY <1>1, <1>2, <1>3, <1>4 DEF Goes, Moves, Same, RecorderTypes, CallsProgress, ProcessesProgress, RecordingsAreTracked, StartsAlone, Starting, Ends, Running, Taken, Caller, At
<1> QED
  BY <1>10, <1>11, <1>12, <1>13, <1>14, <1>15, <1>16, <1>17

LEMMA CleanupKeeps ==
  ASSUME RecorderInv, NEW c \in Caller, Cleanup(c), UNCHANGED <<shown, pending, strayed>>
  PROVE  RecorderInv'
<1> USE RecorderAssumption DEF RecorderInv, Numbers, NoRecording
<1>1. call[c] # Idle
  BY DEF Cleanup, At
<1>2. Goes(c, "clear")
  BY <1>1, PassesWith DEF Outs, PCs, Cleanup
<1>3. /\ call[c].pc = "cleanup" /\ files' = files \ {call[c].cleanup}
      /\ UNCHANGED <<rec, process, once, overlapped, contested, shown, pending, strayed>>
  BY DEF At, Cleanup, Cleared
<1>10. RecorderTypes'
  BY <1>1, <1>2, <1>3 DEF Goes, Moves, Same, RecorderTypes
<1>11. CallsProgress'
  BY <1>1, <1>2, <1>3 DEF Goes, Moves, Same, RecorderTypes, CallsProgress
<1>12. ProcessesProgress'
  BY <1>1, <1>2, <1>3 DEF Goes, Moves, Same, RecorderTypes, CallsProgress, ProcessesProgress
<1>13. Fresh'
  BY <1>1, <1>2, <1>3 DEF Goes, Moves, Same, RecorderTypes, CallsProgress, ProcessesProgress, Fresh, At
<1>14. StartsAlone'
  BY <1>1, <1>2, <1>3 DEF Goes, Moves, Same, RecorderTypes, CallsProgress, ProcessesProgress, Fresh, StartsAlone, Starting, Ends, At, Caller
<1>15. ShownOrAboutTo'
  BY <1>1, <1>2, <1>3 DEF Goes, Moves, Same, RecorderTypes, CallsProgress, ProcessesProgress, Fresh, ShownOrAboutTo, Open, Running, At, Caller
<1>16. Contention'
  BY <1>1, <1>2, <1>3 DEF Goes, Moves, Same, RecorderTypes, CallsProgress, ProcessesProgress, Fresh, Contention, Ends, At
<1>17. RecordingsAreTracked'
  BY <1>1, <1>2, <1>3 DEF Goes, Moves, Same, RecorderTypes, CallsProgress, ProcessesProgress, RecordingsAreTracked, StartsAlone, Starting, Ends, Running, Taken, Caller, At
<1> QED
  BY <1>10, <1>11, <1>12, <1>13, <1>14, <1>15, <1>16, <1>17

LEMMA ClearKeeps ==
  ASSUME RecorderInv, NEW c \in Caller, Clear(c), UNCHANGED <<shown, pending, strayed>>
  PROVE  RecorderInv'
<1> USE RecorderAssumption DEF RecorderInv, Numbers, NoRecording
<1>1. call[c] # Idle
  BY DEF Clear, At
<1>2. call[c].pc = "clear" /\ call[c].out \in Outs /\ call[c].proc \in Recording
  BY <1>1 DEF Clear, At, RecorderTypes, CallsProgress, Job, Outs
<1>3. Goes(c, "result")
  BY <1>1, <1>2, ReturnsWith DEF Clear
<1>4. /\ rec' = IF call[c].proc \in once THEN rec ELSE [rec EXCEPT !.active = NoRecording]
      /\ once' = once \cup {call[c].proc}
      /\ UNCHANGED <<process, files, overlapped, contested, shown, pending, strayed>>
  BY DEF Clear, Cleared
<1>10. RecorderTypes'
  BY <1>1, <1>2, <1>3, <1>4 DEF Goes, Moves, Same, RecorderTypes
<1>11. CallsProgress'
  BY <1>1, <1>2, <1>3, <1>4 DEF Goes, Moves, Same, RecorderTypes, CallsProgress
<1>12. ProcessesProgress'
  BY <1>1, <1>2, <1>3, <1>4 DEF Goes, Moves, Same, RecorderTypes, CallsProgress, ProcessesProgress
<1>13. Fresh'
  BY <1>1, <1>2, <1>3, <1>4 DEF Goes, Moves, Same, RecorderTypes, CallsProgress, ProcessesProgress, Fresh, At
<1>14. StartsAlone'
  <2>1. \A d \in Caller : Starting(d)' \/ Ends(d)' =>
           d # c /\ call'[d] = call[d] /\ (Starting(d)' => Starting(d)) /\ (Ends(d)' => Ends(d))
    BY <1>3 DEF Goes, Moves, Starting, Ends, At
  <2>2. Ends(c)
    BY <1>1, <1>2 DEF Ends, At
  <2>3. ~overlapped =>
           /\ rec'.active \in {rec.active, NoRecording}
           /\ \A n \in once \cup {rec.active} : n \in once' \cup {rec'.active}
    BY <1>4, <2>2 DEF StartsAlone, RecorderTypes
  <2> QED
    BY <1>4, <2>1, <2>3 DEF StartsAlone
<1>15. ShownOrAboutTo'
  BY <1>1, <1>2, <1>3, <1>4 DEF Goes, Moves, Same, RecorderTypes, CallsProgress, ProcessesProgress, Fresh, ShownOrAboutTo, Open, Running, At, Caller
<1>16. Contention'
  BY <1>1, <1>2, <1>3, <1>4 DEF Goes, Moves, Same, RecorderTypes, CallsProgress, ProcessesProgress, Fresh, Contention, Ends, At
<1>17. RecordingsAreTracked'
  BY <1>1, <1>2, <1>3, <1>4 DEF Goes, Moves, Same, RecorderTypes, CallsProgress, ProcessesProgress, RecordingsAreTracked, StartsAlone, Starting, Ends, Running, Taken, Caller, At
<1> QED
  BY <1>10, <1>11, <1>12, <1>13, <1>14, <1>15, <1>16, <1>17

-----------------------------------------------------------------------------
\* The window.  A command begins a call, and a result ends it.

LEMMA JobBegins ==
  ASSUME RecorderInv, NEW c \in Caller, call[c] = Idle, NEW j \in Job, Becomes(c, j),
         j.pc \in {"check", "take"}, j.pc = "check" <=> j.op = "start",
         j.op = "close" <=> c = Update,
         j.proc = NoRecording, j.path = NoRecording, j.cleanup = NoRecording,
         rec' \in {rec, [rec EXCEPT !.closed = TRUE]},
         rec'.closed => rec.closed \/ (j.pc = "take" /\ c = Update),
         UNCHANGED <<process, files, once, overlapped, contested, shown, pending, strayed>>
  PROVE  RecorderInv'
<1> USE RecorderAssumption DEF RecorderInv, Numbers, NoRecording
<1>1. Moves(c, j.pc) /\ call'[c] = j
  BY BecomesJob
<1>2. rec'.active = rec.active /\ rec'.path = rec.path /\ rec'.cleanup = rec.cleanup
      /\ (~rec'.closed => ~rec.closed)
  BY DEF RecorderTypes
<1>10. RecorderTypes'
  BY <1>1, <1>2 DEF Goes, Moves, Same, RecorderTypes
<1>11. CallsProgress'
  BY <1>1, <1>2 DEF Goes, Moves, Same, RecorderTypes, CallsProgress
<1>12. ProcessesProgress'
  BY <1>1, <1>2 DEF Goes, Moves, Same, RecorderTypes, CallsProgress, ProcessesProgress
<1>13. Fresh'
  BY <1>1, <1>2 DEF Goes, Moves, Same, RecorderTypes, CallsProgress, ProcessesProgress, Fresh, At
<1>14. StartsAlone'
  BY <1>1, <1>2 DEF Goes, Moves, Same, RecorderTypes, CallsProgress, ProcessesProgress, Fresh, StartsAlone, Starting, Ends, At, Caller
<1>15. ShownOrAboutTo'
  BY <1>1, <1>2 DEF Goes, Moves, Same, RecorderTypes, CallsProgress, ProcessesProgress, Fresh, ShownOrAboutTo, Open, Running, At, Caller
<1>16. Contention'
  BY <1>1, <1>2 DEF Goes, Moves, Same, RecorderTypes, CallsProgress, ProcessesProgress, Fresh, Contention, Ends, At
<1>17. RecordingsAreTracked'
  BY <1>1, <1>2 DEF Goes, Moves, Same, RecorderTypes, CallsProgress, ProcessesProgress, RecordingsAreTracked, StartsAlone, Starting, Ends, Running, Taken, Caller, At
<1> QED
  BY <1>10, <1>11, <1>12, <1>13, <1>14, <1>15, <1>16, <1>17

LEMMA CommandKeeps ==
  ASSUME RecorderInv, Record \/ StopOrCancel PROVE RecorderInv'
<1>1. PICK c \in Routine, j \in {Call("start", "check"), Call("stop", "take"), Call("cancel", "take")} :
         call[c] = Idle /\ Becomes(c, j)
  BY DEF Record, StopOrCancel, Runs
<1>2. /\ j \in Job /\ j.proc = NoRecording /\ j.path = NoRecording /\ j.cleanup = NoRecording
      /\ j.pc \in {"check", "take"} /\ (j.pc = "check" <=> j.op = "start") /\ j.op # "close"
  BY DEF Call, Job, Numbers
<1>3. c \in Caller /\ c # Update
  BY RecorderAssumption DEF Caller
<1>4. UNCHANGED <<rec, process, files, once, overlapped, contested, shown, pending, strayed>>
  BY DEF Record, StopOrCancel
<1> QED
  BY <1>1, <1>2, <1>3, <1>4, JobBegins

LEMMA CloseKeeps ==
  ASSUME RecorderInv, Close PROVE RecorderInv'
<1> DEFINE j == Call("close", "take")
<1>1. /\ j \in Job /\ j.proc = NoRecording /\ j.path = NoRecording /\ j.cleanup = NoRecording
      /\ j.pc = "take" /\ j.op = "close"
  BY DEF Call, Job, Numbers
<1>2. /\ call[Update] = Idle /\ Becomes(Update, j) /\ rec' = [rec EXCEPT !.closed = TRUE]
      /\ UNCHANGED <<process, files, once, overlapped, contested, shown, pending, strayed>>
  BY DEF Close, CloseRecorder
<1>3. Update \in Caller
  BY DEF Caller
<1> HIDE DEF j
<1> QED
  BY <1>1, <1>2, <1>3, JobBegins

\* Call c is over, and no other call does anything.
Over(c) ==
    /\ call' \in [Caller -> {Idle} \cup Job] /\ call'[c] = Idle
    /\ \A d \in Caller : d # c => call'[d] = call[d]

LEMMA BecomesIdle ==
  ASSUME RecorderTypes, NEW c \in Caller, Becomes(c, Idle) PROVE Over(c)
  BY DEF RecorderTypes, Becomes, Over

LEMMA HandleStartedKeeps ==
  ASSUME RecorderInv, NEW c \in Caller, HandleStarted(c) PROVE RecorderInv'
<1> USE RecorderAssumption DEF RecorderInv, Numbers, NoRecording
<1>1. Over(c)
  BY BecomesIdle DEF HandleStarted
<1>2. /\ call[c] # Idle /\ call[c].pc = "result" /\ call[c].op = "start"
      /\ shown' = (shown \/ call[c].out = "ok")
      /\ strayed' = (strayed /\ call[c].out # "ok")
      /\ UNCHANGED <<rec, process, files, once, overlapped, contested, pending>>
  BY DEF At, HandleStarted, Strays, Queue
<1>3. call[c] \in Job
  BY <1>2 DEF RecorderTypes
<1>10. RecorderTypes'
  BY <1>1, <1>2, <1>3 DEF Over, RecorderTypes
<1>11. CallsProgress'
  BY <1>1, <1>2, <1>3 DEF Over, RecorderTypes, CallsProgress
<1>12. ProcessesProgress'
  BY <1>1, <1>2, <1>3 DEF Over, RecorderTypes, CallsProgress, ProcessesProgress
<1>13. Fresh'
  BY <1>1, <1>2, <1>3 DEF Over, RecorderTypes, CallsProgress, ProcessesProgress, Fresh, At
<1>14. StartsAlone'
  BY <1>1, <1>2, <1>3 DEF Over, RecorderTypes, CallsProgress, ProcessesProgress, Fresh, StartsAlone, Starting, Ends, At, Caller
<1>4. ASSUME Open', rec'.active \in Running' PROVE shown' \/ strayed'
         \/ \E d \in Routine : At(d, "result")' /\ (call[d].op = "start" /\ call[d].out = "ok")'
  <2>1. \/ shown \/ strayed
        \/ \E d \in Routine : At(d, "result") /\ call[d].op = "start" /\ call[d].out = "ok"
    BY <1>2, <1>4 DEF ShownOrAboutTo, Open, Running
  <2>2. CASE shown \/ strayed \/ call[c].out = "ok"
    BY <1>2, <2>2
  <2>3. CASE call[c].out # "ok"
        /\ \E d \in Routine : At(d, "result") /\ call[d].op = "start" /\ call[d].out = "ok"
    BY <1>1, <2>3 DEF Over, At, Caller
  <2> QED
    BY <2>1, <2>2, <2>3
<1>15. ShownOrAboutTo'
  BY <1>4 DEF ShownOrAboutTo
<1>16. Contention'
  BY <1>1, <1>2, <1>3 DEF Over, RecorderTypes, CallsProgress, ProcessesProgress, Fresh, Contention, Ends, At
<1>17. RecordingsAreTracked'
  BY <1>1, <1>2, <1>3 DEF Over, RecorderTypes, CallsProgress, ProcessesProgress, RecordingsAreTracked, StartsAlone, Starting, Ends, Running, Taken, Caller, At
<1> QED
  BY <1>10, <1>11, <1>12, <1>13, <1>14, <1>15, <1>16, <1>17

LEMMA HandleCanceledKeeps ==
  ASSUME RecorderInv, NEW c \in Caller, HandleCanceled(c) PROVE RecorderInv'
<1> USE RecorderAssumption DEF RecorderInv, Numbers, NoRecording
<1>1. Over(c)
  BY BecomesIdle DEF HandleCanceled
<1>2. /\ call[c] # Idle /\ call[c].pc = "result" /\ call[c].op = "cancel"
      /\ shown' = FALSE
      /\ strayed' = (strayed \/ rec.active \notin {NoRecording, call[c].proc})
      /\ UNCHANGED <<rec, process, files, once, overlapped, contested, pending>>
  BY DEF At, HandleCanceled, Strays, Queue
<1>3. call[c] \in Job
  BY <1>2 DEF RecorderTypes
<1>4. call[c].proc # NoRecording => call[c].proc \in once /\ call[c].proc # rec.active
  BY <1>2, <1>3 DEF ProcessesProgress, Fresh
<1>10. RecorderTypes'
  BY <1>1, <1>2, <1>3, <1>4 DEF Over, RecorderTypes
<1>11. CallsProgress'
  BY <1>1, <1>2, <1>3, <1>4 DEF Over, RecorderTypes, CallsProgress
<1>12. ProcessesProgress'
  BY <1>1, <1>2, <1>3, <1>4 DEF Over, RecorderTypes, CallsProgress, ProcessesProgress
<1>13. Fresh'
  BY <1>1, <1>2, <1>3, <1>4 DEF Over, RecorderTypes, CallsProgress, ProcessesProgress, Fresh, At
<1>14. StartsAlone'
  BY <1>1, <1>2, <1>3, <1>4 DEF Over, RecorderTypes, CallsProgress, ProcessesProgress, Fresh, StartsAlone, Starting, Ends, At, Caller
<1>15. ShownOrAboutTo'
  BY <1>1, <1>2, <1>3, <1>4 DEF Over, RecorderTypes, CallsProgress, ProcessesProgress, Fresh, ShownOrAboutTo, Open, Running, At, Caller
<1>16. Contention'
  BY <1>1, <1>2, <1>3, <1>4 DEF Over, RecorderTypes, CallsProgress, ProcessesProgress, Fresh, Contention, Ends, At
<1>17. RecordingsAreTracked'
  BY <1>1, <1>2, <1>3, <1>4 DEF Over, RecorderTypes, CallsProgress, ProcessesProgress, RecordingsAreTracked, StartsAlone, Starting, Ends, Running, Taken, Caller, At
<1> QED
  BY <1>10, <1>11, <1>12, <1>13, <1>14, <1>15, <1>16, <1>17

LEMMA HandleStoppedKeeps ==
  ASSUME RecorderInv, NEW c \in Caller, HandleStopped(c) PROVE RecorderInv'
<1> USE RecorderAssumption DEF RecorderInv, Numbers, NoRecording
<1>1. Over(c)
  BY BecomesIdle DEF HandleStopped
<1>2. /\ call[c] # Idle /\ call[c].pc = "result" /\ call[c].op = "stop"
      /\ shown' = FALSE
      /\ strayed' = (strayed \/ rec.active \notin {NoRecording, call[c].proc})
      /\ \/ UNCHANGED <<pending, files>>
         \/ call[c].path \in files /\ pending' = call[c].path /\ files' = files \ {pending}
      /\ UNCHANGED <<rec, process, once, overlapped, contested>>
  BY DEF At, HandleStopped, Strays, Queue
<1>3. call[c] \in Job
  BY <1>2 DEF RecorderTypes
<1>4. call[c].proc # NoRecording => call[c].proc \in once /\ call[c].proc # rec.active
  BY <1>2, <1>3 DEF ProcessesProgress, Fresh
<1>5. \/ UNCHANGED <<pending, files>>
      \/ /\ call[c].proc \in Recording /\ call[c].proc \in files
         /\ pending' = call[c].proc /\ files' = files \ {pending}
  BY <1>2, <1>3 DEF CallsProgress, RecorderTypes
<1>10. RecorderTypes'
  BY <1>1, <1>2, <1>3, <1>4, <1>5 DEF Over, RecorderTypes
<1>11. CallsProgress'
  BY <1>1, <1>2, <1>3, <1>4, <1>5 DEF Over, RecorderTypes, CallsProgress
<1>12. ProcessesProgress'
  BY <1>1, <1>2, <1>3, <1>4, <1>5 DEF Over, RecorderTypes, CallsProgress, ProcessesProgress
<1>13. Fresh'
  BY <1>1, <1>2, <1>3, <1>4, <1>5 DEF Over, RecorderTypes, CallsProgress, ProcessesProgress, Fresh, At
<1>14. StartsAlone'
  BY <1>1, <1>2, <1>3, <1>4, <1>5 DEF Over, RecorderTypes, CallsProgress, ProcessesProgress, Fresh, StartsAlone, Starting, Ends, At, Caller
<1>15. ShownOrAboutTo'
  BY <1>1, <1>2, <1>3, <1>4, <1>5 DEF Over, RecorderTypes, CallsProgress, ProcessesProgress, Fresh, ShownOrAboutTo, Open, Running, At, Caller
<1>16. Contention'
  BY <1>1, <1>2, <1>3, <1>4, <1>5 DEF Over, RecorderTypes, CallsProgress, ProcessesProgress, Fresh, Contention, Ends, At
<1>17. RecordingsAreTracked'
  BY <1>1, <1>2, <1>3, <1>4, <1>5 DEF Over, RecorderTypes, CallsProgress, ProcessesProgress, RecordingsAreTracked, StartsAlone, Starting, Ends, Running, Taken, Caller, At
<1> QED
  BY <1>10, <1>11, <1>12, <1>13, <1>14, <1>15, <1>16, <1>17

LEMMA ClosePlayerKeeps ==
  ASSUME RecorderInv, NEW c \in Caller, c = Update, ClosePlayer PROVE RecorderInv'
<1> USE RecorderAssumption DEF RecorderInv, Numbers, NoRecording
<1>1. Over(c)
  BY BecomesIdle DEF ClosePlayer
<1>2. /\ call[c] # Idle /\ call[c].pc = "result" /\ c = Update
      /\ UNCHANGED <<rec, process, files, once, overlapped, contested, shown, pending, strayed>>
  BY DEF At, ClosePlayer, Strays, Queue
<1>3. call[c] \in Job
  BY <1>2 DEF RecorderTypes
<1>10. RecorderTypes'
  BY <1>1, <1>2, <1>3 DEF Over, RecorderTypes
<1>11. CallsProgress'
  BY <1>1, <1>2, <1>3 DEF Over, RecorderTypes, CallsProgress
<1>12. ProcessesProgress'
  BY <1>1, <1>2, <1>3 DEF Over, RecorderTypes, CallsProgress, ProcessesProgress
<1>13. Fresh'
  BY <1>1, <1>2, <1>3 DEF Over, RecorderTypes, CallsProgress, ProcessesProgress, Fresh, At
<1>14. StartsAlone'
  BY <1>1, <1>2, <1>3 DEF Over, RecorderTypes, CallsProgress, ProcessesProgress, Fresh, StartsAlone, Starting, Ends, At, Caller
<1>15. ShownOrAboutTo'
  BY <1>1, <1>2, <1>3 DEF Over, RecorderTypes, CallsProgress, ProcessesProgress, Fresh, ShownOrAboutTo, Open, Running, At, Caller
<1>16. Contention'
  BY <1>1, <1>2, <1>3 DEF Over, RecorderTypes, CallsProgress, ProcessesProgress, Fresh, Contention, Ends, At
<1>17. RecordingsAreTracked'
  BY <1>1, <1>2, <1>3 DEF Over, RecorderTypes, CallsProgress, ProcessesProgress, RecordingsAreTracked, StartsAlone, Starting, Ends, Running, Taken, Caller, At
<1> QED
  BY <1>10, <1>11, <1>12, <1>13, <1>14, <1>15, <1>16, <1>17

LEMMA PickFileKeeps ==
  ASSUME RecorderInv, PickFile PROVE RecorderInv'
<1> USE RecorderAssumption DEF RecorderInv, Numbers, NoRecording, Picked
<1>1. /\ pending' = -1 /\ files' = files \ {pending}
      /\ UNCHANGED <<rec, process, once, call, overlapped, contested, shown, strayed>>
  BY DEF PickFile, Queue, Picked
<1>10. RecorderTypes'
  BY <1>1 DEF RecorderTypes
<1>11. CallsProgress'
  BY <1>1 DEF RecorderTypes, CallsProgress
<1>12. ProcessesProgress'
  BY <1>1 DEF RecorderTypes, CallsProgress, ProcessesProgress
<1>13. Fresh'
  BY <1>1 DEF RecorderTypes, CallsProgress, ProcessesProgress, Fresh, At
<1>14. StartsAlone'
  BY <1>1 DEF RecorderTypes, CallsProgress, ProcessesProgress, Fresh, StartsAlone, Starting, Ends, At, Caller
<1>15. ShownOrAboutTo'
  BY <1>1 DEF RecorderTypes, CallsProgress, ProcessesProgress, Fresh, ShownOrAboutTo, Open, Running, At, Caller
<1>2. -1 \notin Recording /\ \A d \in Caller : call[d] # Idle => call[d].proc # -1
  BY DEF RecorderTypes, Job
<1>16. Contention'
  BY <1>1, <1>2 DEF RecorderTypes, CallsProgress, ProcessesProgress, Fresh, Contention, Ends, At
<1>17. RecordingsAreTracked'
  BY <1>1 DEF RecorderTypes, CallsProgress, ProcessesProgress, RecordingsAreTracked, StartsAlone, Starting, Ends, Running, Taken, Caller, At
<1> QED
  BY <1>10, <1>11, <1>12, <1>13, <1>14, <1>15, <1>16, <1>17

LEMMA SendOrDropKeeps ==
  ASSUME RecorderInv, SendOrDrop PROVE RecorderInv'
<1> USE RecorderAssumption DEF RecorderInv, Numbers, NoRecording
<1>1. /\ pending' = NoRecording /\ files' \in {files, files \ {pending}}
      /\ UNCHANGED <<rec, process, once, call, overlapped, contested, shown, strayed>>
  BY DEF SendOrDrop
<1>10. RecorderTypes'
  BY <1>1 DEF RecorderTypes
<1>11. CallsProgress'
  BY <1>1 DEF RecorderTypes, CallsProgress
<1>12. ProcessesProgress'
  BY <1>1 DEF RecorderTypes, CallsProgress, ProcessesProgress
<1>13. Fresh'
  BY <1>1 DEF RecorderTypes, CallsProgress, ProcessesProgress, Fresh, At
<1>14. StartsAlone'
  BY <1>1 DEF RecorderTypes, CallsProgress, ProcessesProgress, Fresh, StartsAlone, Starting, Ends, At, Caller
<1>15. ShownOrAboutTo'
  BY <1>1 DEF RecorderTypes, CallsProgress, ProcessesProgress, Fresh, ShownOrAboutTo, Open, Running, At, Caller
<1>16. Contention'
  BY <1>1 DEF RecorderTypes, CallsProgress, ProcessesProgress, Fresh, Contention, Ends, At
<1>17. RecordingsAreTracked'
  BY <1>1 DEF RecorderTypes, CallsProgress, ProcessesProgress, RecordingsAreTracked, StartsAlone, Starting, Ends, Running, Taken, Caller, At
<1> QED
  BY <1>10, <1>11, <1>12, <1>13, <1>14, <1>15, <1>16, <1>17

LEMMA ProcessEndsKeeps ==
  ASSUME RecorderInv, NEW n \in Recording, ProcessEnds(n), UNCHANGED <<shown, pending, strayed>> PROVE RecorderInv'
<1> USE RecorderAssumption DEF RecorderInv, Numbers, NoRecording
<1>1. /\ process' = [process EXCEPT ![n] = "ended"]
      /\ UNCHANGED <<rec, files, once, call, overlapped, contested, shown, pending, strayed>>
  BY DEF ProcessEnds
<1>10. RecorderTypes'
  BY <1>1 DEF RecorderTypes
<1>11. CallsProgress'
  BY <1>1 DEF RecorderTypes, CallsProgress
<1>12. ProcessesProgress'
  BY <1>1 DEF RecorderTypes, CallsProgress, ProcessesProgress
<1>13. Fresh'
  BY <1>1 DEF RecorderTypes, CallsProgress, ProcessesProgress, Fresh, At
<1>14. StartsAlone'
  BY <1>1 DEF RecorderTypes, CallsProgress, ProcessesProgress, Fresh, StartsAlone, Starting, Ends, At, Caller
<1>15. ShownOrAboutTo'
  BY <1>1 DEF RecorderTypes, CallsProgress, ProcessesProgress, Fresh, ShownOrAboutTo, Open, Running, At, Caller
<1>16. Contention'
  BY <1>1 DEF RecorderTypes, CallsProgress, ProcessesProgress, Fresh, Contention, Ends, At
<1>17. RecordingsAreTracked'
  BY <1>1 DEF RecorderTypes, CallsProgress, ProcessesProgress, RecordingsAreTracked, StartsAlone, Starting, Ends, Running, Taken, Caller, At
<1> QED
  BY <1>10, <1>11, <1>12, <1>13, <1>14, <1>15, <1>16, <1>17

LEMMA RecorderStepKeeps ==
  ASSUME RecorderInv, NEW c \in Caller, RecorderStep(c), UNCHANGED <<shown, pending, strayed>>
  PROVE  RecorderInv'
  BY StartCheckKeeps, SpawnKeeps, RegisterKeeps, TakeKeeps, SignalKeeps, EndedKeeps,
     KillKeeps, CleanupKeeps, ClearKeeps DEF RecorderStep

-----------------------------------------------------------------------------
\* What every behaviour keeps, of recorder, window and player.
VoiceInv == RecorderInv /\ PlayerInv

LEMMA VoiceStep ==
  ASSUME VoiceInv, [Next]_vars PROVE VoiceInv'
<1> USE DEF VoiceInv
<1>1. CASE Record \/ StopOrCancel
  BY <1>1, CommandKeeps, PlayerStays DEF Record, StopOrCancel
<1>2. CASE PickFile
  BY <1>2, PickFileKeeps, PlayerStays DEF PickFile
<1>3. CASE SendOrDrop
  BY <1>3, SendOrDropKeeps, PlayerStays DEF SendOrDrop
<1>4. CASE PlayNote
  BY <1>4, PlayNoteKeeps, RecorderStays DEF PlayNote
<1>5. CASE StopNote
  BY <1>5, StopPlayerKeeps, RecorderStays DEF StopNote
<1>6. ASSUME NEW c \in Routine, HandleStarted(c) \/ HandleStopped(c) \/ HandleCanceled(c)
      PROVE  VoiceInv'
  <2>1. c \in Caller
    BY DEF Caller
  <2>2. RecorderInv'
    BY <1>6, <2>1, HandleStartedKeeps, HandleStoppedKeeps, HandleCanceledKeeps
  <2>3. PlayerInv'
    BY <1>6, PlayerStays DEF HandleStarted, HandleStopped, HandleCanceled
  <2> QED
    BY <2>2, <2>3
<1>7. CASE Close
  BY <1>7, CloseKeeps, PlayerStays DEF Close
<1>8. CASE ClosePlayer
  <2>1. Update \in Caller
    BY DEF Caller
  <2>2. RecorderInv'
    BY <1>8, <2>1, ClosePlayerKeeps
  <2>3. PlayerInv'
    BY <1>8, StopPlayerKeeps DEF ClosePlayer
  <2> QED
    BY <2>2, <2>3
<1>9. ASSUME NEW c \in Caller, RecorderStep(c), UNCHANGED <<playerVars, shown, pending, strayed>>
      PROVE  VoiceInv'
  BY <1>9, RecorderStepKeeps, PlayerStays
<1>10. ASSUME NEW n \in Recording, ProcessEnds(n), UNCHANGED <<playerVars, shown, pending, strayed>>
       PROVE  VoiceInv'
  BY <1>10, ProcessEndsKeeps, PlayerStays
<1>11. CASE PlayerStep /\ UNCHANGED <<recVars, shown, pending, strayed>>
  BY <1>11, PlayerStepKeeps, RecorderStays
<1>12. CASE UNCHANGED vars
  BY <1>12, PlayerStays, RecorderStays DEF vars
<1> QED
  BY <1>1, <1>2, <1>3, <1>4, <1>5, <1>6, <1>7, <1>8, <1>9, <1>10, <1>11, <1>12
     DEF Next, Goroutines, Caller

\* Every behaviour keeps what the calls, the processes and the window's state
\* know of each other (the invariant the four theorems below follow from).
THEOREM VoiceInvCorrect == Spec => []VoiceInv
<1>1. Init => VoiceInv
  BY RecorderStart, PlayerStart DEF Init, VoiceInv
<1>2. VoiceInv /\ [Next]_vars => VoiceInv'
  BY VoiceStep
<1> QED
  BY <1>1, <1>2, PTL DEF Spec

\* No recorder process escapes the Recorder, however many calls of Start, Stop,
\* Cancel and Close interleave (recorder.go:38, 95, 146).
THEOREM RecordingsAreTrackedCorrect == Spec => []RecordingsAreTracked
<1>1. VoiceInv => RecordingsAreTracked
  BY DEF VoiceInv, RecorderInv
<1> QED
  BY <1>1, VoiceInvCorrect, PTL

\* No playback escapes the Player, however many Plays, Stops and ends of
\* processes interleave (player.go:33, 74, 89).
THEOREM PlaybackIsTrackedCorrect == Spec => []PlaybackIsTracked
<1>1. VoiceInv => PlaybackIsTracked
  BY DEF VoiceInv, PlayerInv
<1> QED
  BY <1>1, VoiceInvCorrect, PTL

\* The window shows a running recording once the commands are over, in
\* whatever order the results of the goroutines arrive.
THEOREM MicrophoneIsShownCorrect == Spec => []MicrophoneIsShown
<1>1. VoiceInv => MicrophoneIsShown
  BY DEF VoiceInv, RecorderInv, ShownOrAboutTo, MicrophoneIsShown, At
<1> QED
  BY <1>1, VoiceInvCorrect, PTL

\* What is queued has its file, whichever calls ended the recording and
\* whatever was queued before it.
THEOREM QueuedRecordingExistsCorrect == Spec => []QueuedRecordingExists
<1>1. VoiceInv => QueuedRecordingExists
  BY DEF VoiceInv, RecorderInv, Contention, QueuedRecordingExists
<1> QED
  BY <1>1, VoiceInvCorrect, PTL

-----------------------------------------------------------------------------
\* ChatConnection: the ears of the window.

\* Goroutine g waits for an event of client c, or attempts to connect c.
Listens(g, c) == g.client = c /\ g.kind \in {"wait", "connect"}

\* One element for each copy of such a goroutine.
Ears(c) == UNION {{g} \X (1..go[g]) : g \in {r \in Routines : Listens(r, c)}}

\* The window neither is connected nor tries to be: only a new start helps.
Stopped == ~connecting /\ ~connected /\ ~idle

\* D is the bag B after one copy of g has made way for one copy of each element
\* of S.
MakesWay(B, g, S, D) ==
    /\ IsABag(D)
    /\ DOMAIN D = (DOMAIN B \ (IF B[g] = 1 THEN {g} ELSE {})) \cup S
    /\ \A h \in DOMAIN D :
         D[h] = (IF h \in DOMAIN B THEN B[h] ELSE 0)
                   - (IF h = g THEN 1 ELSE 0) + (IF h \in S THEN 1 ELSE 0)

\* Taking one copy of g out and adding one of each element of S does that.
LEMMA BagStep ==
  ASSUME NEW B, IsABag(B), NEW g \in DOMAIN B, NEW S
  PROVE  MakesWay(B, g, S, (B (-) SetToBag({g})) (+) SetToBag(S))
<1>1. PICK D : D = (B (-) SetToBag({g})) (+) SetToBag(S)
  OBVIOUS
<1>2. \A h \in DOMAIN B : B[h] \in Nat /\ B[h] > 0
  BY DEF IsABag
<1>3. PICK R : R = B (-) SetToBag({g})
  OBVIOUS
<1>4. /\ DOMAIN R = DOMAIN B \ (IF B[g] = 1 THEN {g} ELSE {})
      /\ \A h \in DOMAIN R : R[h] = IF h = g THEN B[h] - 1 ELSE B[h]
  BY <1>2, <1>3 DEF SetToBag, (-)
<1>5. /\ DOMAIN D = DOMAIN R \cup S
      /\ \A h \in DOMAIN D :
           D[h] = (IF h \in DOMAIN R THEN R[h] ELSE 0) + (IF h \in S THEN 1 ELSE 0)
      /\ D = [h \in DOMAIN D |-> D[h]]
  BY <1>1, <1>3 DEF SetToBag, (+)
<1>6. \A h \in DOMAIN D :
         D[h] = (IF h \in DOMAIN B THEN B[h] ELSE 0)
                   - (IF h = g THEN 1 ELSE 0) + (IF h \in S THEN 1 ELSE 0)
  BY <1>2, <1>4, <1>5
<1>7. \A h \in DOMAIN D : D[h] \in Nat /\ D[h] > 0
  BY <1>2, <1>4, <1>5
<1>8. IsABag(D)
  BY <1>5, <1>7 DEF IsABag
<1>9. MakesWay(B, g, S, D)
  BY <1>4, <1>5, <1>6, <1>8 DEF MakesWay
<1> QED
  BY <1>1, <1>9

\* What Ears counts, for any bag of goroutines.
EarsIn(B, c) == UNION {{g} \X (1..B[g]) : g \in {r \in DOMAIN B : Listens(r, c)}}

\* Ears holds exactly the copies that the bag counts.
LEMMA EarsAreCopies ==
  ASSUME NEW B, NEW c
  PROVE  \A x : x \in EarsIn(B, c)
                <=> \E r \in DOMAIN B : \E i \in 1..B[r] : Listens(r, c) /\ x = <<r, i>>
<1> TAKE x
<1>1. ASSUME NEW r \in DOMAIN B, NEW i \in 1..B[r], Listens(r, c), x = <<r, i>>
      PROVE  x \in EarsIn(B, c)
  <2>1. x \in {r} \X (1..B[r])
    BY <1>1
  <2> QED
    BY <1>1, <2>1 DEF EarsIn
<1>2. ASSUME x \in EarsIn(B, c)
      PROVE  \E r \in DOMAIN B : \E i \in 1..B[r] : Listens(r, c) /\ x = <<r, i>>
  <2>1. PICK r \in DOMAIN B : Listens(r, c) /\ x \in {r} \X (1..B[r])
    BY <1>2 DEF EarsIn
  <2> QED
    BY <2>1
<1> QED
  BY <1>1, <1>2

\* There is an ear as soon as one goroutine listens.
LEMMA SomeEar ==
  ASSUME NEW B, IsABag(B), NEW c
  PROVE  EarsIn(B, c) # {} <=> \E r \in DOMAIN B : Listens(r, c)
<1>1. \A r \in DOMAIN B : 1 \in 1..B[r]
  BY DEF IsABag
<1>2. \A x : x \in EarsIn(B, c)
              <=> \E r \in DOMAIN B : \E i \in 1..B[r] : Listens(r, c) /\ x = <<r, i>>
  BY EarsAreCopies
<1>3. ASSUME NEW r \in DOMAIN B, Listens(r, c) PROVE EarsIn(B, c) # {}
  <2>1. <<r, 1>> \in EarsIn(B, c)
    BY <1>1, <1>2, <1>3
  <2> QED
    BY <2>1
<1>4. ASSUME EarsIn(B, c) # {} PROVE \E r \in DOMAIN B : Listens(r, c)
  <2>1. PICK x : x \in EarsIn(B, c)
    BY <1>4
  <2> QED
    BY <1>2, <2>1
<1> QED
  BY <1>3, <1>4

\* A step in which a goroutine that listens makes way for at most one that
\* listens too, and one that does not for none, adds no ear.
LEMMA NoMoreEars ==
  ASSUME NEW B, IsABag(B), NEW g \in DOMAIN B, NEW S, NEW c,
         \A r \in S : Listens(r, c) => Listens(g, c),
         \A r, k \in S : Listens(r, c) /\ Listens(k, c) => r = k,
         NEW D, MakesWay(B, g, S, D),
         IsFiniteSet(EarsIn(B, c))
  PROVE  /\ IsFiniteSet(EarsIn(D, c))
         /\ Cardinality(EarsIn(D, c)) <= Cardinality(EarsIn(B, c))
<1>2. /\ IsABag(D)
      /\ DOMAIN D = (DOMAIN B \ (IF B[g] = 1 THEN {g} ELSE {})) \cup S
      /\ \A k \in DOMAIN D :
           D[k] = (IF k \in DOMAIN B THEN B[k] ELSE 0)
                     - (IF k = g THEN 1 ELSE 0) + (IF k \in S THEN 1 ELSE 0)
  BY DEF MakesWay
<1>3. \A k \in DOMAIN B : B[k] \in Nat /\ B[k] > 0
  BY DEF IsABag
<1>4. PICK E : E = EarsIn(B, c)
  OBVIOUS
<1>5. PICK F : F = EarsIn(D, c)
  OBVIOUS
<1>6. \A x : x \in E <=> \E r \in DOMAIN B : \E i \in 1..B[r] : Listens(r, c) /\ x = <<r, i>>
  BY <1>4, EarsAreCopies
<1>7. \A x : x \in F <=> \E r \in DOMAIN D : \E i \in 1..D[r] : Listens(r, c) /\ x = <<r, i>>
  BY <1>5, EarsAreCopies
<1>8. ASSUME F \subseteq E
      PROVE  IsFiniteSet(F) /\ Cardinality(F) <= Cardinality(E)
  BY <1>4, <1>8, FS_Subset
<1>9. ASSUME ~(F \subseteq E)
      PROVE  \E x \in E : \E y : F \subseteq (E \ {x}) \cup {y}
  <2>1. PICK r \in DOMAIN D : \E i \in 1..D[r] : Listens(r, c) /\ <<r, i>> \notin E
    BY <1>7, <1>9
  <2>2. r \in S
    BY <1>2, <1>3, <1>6, <2>1
  <2>3. Listens(g, c) /\ \A k \in S : Listens(k, c) => k = r
    BY <2>1, <2>2
  <2>4. r # g
    BY <1>2, <1>3, <1>6, <2>1, <2>2
  <2>5. B[g] \in 1..B[g] /\ <<g, B[g]>> \in E
    BY <1>3, <1>6, <2>3
  <2>6. F \subseteq (E \ {<<g, B[g]>>}) \cup {<<r, D[r]>>}
    <3> SUFFICES ASSUME NEW k \in DOMAIN D, NEW j \in 1..D[k], Listens(k, c),
                        <<k, j>> # <<r, D[r]>>
                 PROVE  <<k, j>> \in E /\ <<k, j>> # <<g, B[g]>>
      BY <1>7
    <3>1. CASE k = r
      <4>1. D[r] \in Nat /\ j \in 1..(D[r] - 1)
        BY <1>2, <3>1 DEF IsABag
      <4>2. r \in DOMAIN B /\ D[r] - 1 = B[r]
        BY <1>2, <1>3, <2>2, <2>4, <4>1
      <4> QED
        BY <1>6, <2>1, <2>4, <3>1, <4>1, <4>2
    <3>2. CASE k # r
      <4>1. k \notin S
        BY <2>3, <3>2
      <4>2. k \in DOMAIN B /\ D[k] = B[k] - (IF k = g THEN 1 ELSE 0)
        BY <1>2, <1>3, <4>1
      <4>3. j \in 1..B[k] /\ (k = g => j # B[g])
        BY <1>3, <4>2
      <4> QED
        BY <1>6, <4>2, <4>3
    <3> QED
      BY <3>1, <3>2
  <2> QED
    BY <2>5, <2>6
<1>10. ASSUME NEW x \in E, NEW y, F \subseteq (E \ {x}) \cup {y}
       PROVE  IsFiniteSet(F) /\ Cardinality(F) <= Cardinality(E)
  <2>1. PICK M : M = E \ {x}
    OBVIOUS
  <2>2. IsFiniteSet(E) /\ Cardinality(E) \in Nat
    BY <1>4, FS_CardinalityType
  <2>3. IsFiniteSet(M) /\ Cardinality(M) = Cardinality(E) - 1 /\ Cardinality(M) \in Nat
    BY <2>1, <2>2, FS_RemoveElement, FS_CardinalityType
  <2>4. IsFiniteSet(M \cup {y}) /\ Cardinality(M \cup {y}) <= Cardinality(M) + 1
    <3>1. /\ IsFiniteSet(M \cup {y})
          /\ Cardinality(M \cup {y}) = IF y \in M THEN Cardinality(M) ELSE Cardinality(M) + 1
      BY <2>3, FS_AddElement, Zenon
    <3> QED
      BY <2>3, <3>1
  <2>5. F \subseteq M \cup {y}
    BY <1>10, <2>1
  <2>6. IsFiniteSet(F) /\ Cardinality(F) <= Cardinality(M \cup {y})
    BY <2>4, <2>5, FS_Subset
  <2>7. Cardinality(F) \in Nat /\ Cardinality(M \cup {y}) \in Nat
    BY <2>4, <2>6, FS_CardinalityType
  <2> QED
    BY <2>2, <2>3, <2>4, <2>6, <2>7
<1>11. IsFiniteSet(F) /\ Cardinality(F) <= Cardinality(E)
  BY <1>8, <1>9, <1>10
<1> QED
  BY <1>4, <1>5, <1>11

\* D is the bag B with one more copy of each element of S.
Gains(B, S, D) ==
    /\ IsABag(D)
    /\ DOMAIN D = DOMAIN B \cup S
    /\ \A h \in DOMAIN D :
         D[h] = (IF h \in DOMAIN B THEN B[h] ELSE 0) + (IF h \in S THEN 1 ELSE 0)

\* Adding one copy of each element of S does that.
LEMMA BagGains ==
  ASSUME NEW B, IsABag(B), NEW S
  PROVE  Gains(B, S, B (+) SetToBag(S))
<1>1. PICK D : D = B (+) SetToBag(S)
  OBVIOUS
<1>2. \A h \in DOMAIN B : B[h] \in Nat /\ B[h] > 0
  BY DEF IsABag
<1>3. /\ DOMAIN D = DOMAIN B \cup S
      /\ \A h \in DOMAIN D :
           D[h] = (IF h \in DOMAIN B THEN B[h] ELSE 0) + (IF h \in S THEN 1 ELSE 0)
      /\ D = [h \in DOMAIN D |-> D[h]]
  BY <1>1 DEF SetToBag, (+)
<1>4. IsABag(D)
  BY <1>2, <1>3 DEF IsABag
<1>5. Gains(B, S, D)
  BY <1>3, <1>4 DEF Gains
<1> QED
  BY <1>1, <1>5

\* Who gains no goroutine that listens to c has the same ears for c.
LEMMA SameEars ==
  ASSUME NEW B, IsABag(B), NEW S, NEW D, Gains(B, S, D), NEW c, \A r \in S : ~Listens(r, c)
  PROVE  EarsIn(D, c) = EarsIn(B, c)
<1>1. \A x : x \in EarsIn(B, c)
              <=> \E r \in DOMAIN B : \E i \in 1..B[r] : Listens(r, c) /\ x = <<r, i>>
  BY EarsAreCopies
<1>2. \A x : x \in EarsIn(D, c)
              <=> \E r \in DOMAIN D : \E i \in 1..D[r] : Listens(r, c) /\ x = <<r, i>>
  BY EarsAreCopies
<1>3. \A r : Listens(r, c) => (r \in DOMAIN D <=> r \in DOMAIN B)
  BY DEF Gains
<1>4. \A r \in DOMAIN D : Listens(r, c) => D[r] = B[r] + 0 /\ B[r] \in Nat
  BY <1>3 DEF Gains, IsABag
<1>5. \A r \in DOMAIN D : Listens(r, c) => D[r] = B[r]
  BY <1>4
<1> QED
  BY <1>1, <1>2, <1>3, <1>5

\* The records that stand for goroutines.
IsRoutine(r) == r = NewRoutine(r.kind, r.client, r.pc, r.conn, r.out)

\* Nobody listens to a client of a relay the window has not switched to, and at
\* most two goroutines listen to any client.
EarsInv ==
    /\ IsABag(go)
    /\ \A r \in Routines : IsRoutine(r)
    /\ client \notin unopened
    /\ \A c \in unopened, r \in Routines : ~Listens(r, c)
    /\ \A c \in Client : IsFiniteSet(Ears(c)) /\ Cardinality(Ears(c)) <= 2

\* Goroutine g hands its ear, if it has one, to at most one other.
HandsOn(g, next) ==
    /\ \A r \in next : IsRoutine(r)
    /\ \A r \in next : \A c : Listens(r, c) => Listens(g, c)
    /\ \A r, s \in next : \A c : Listens(r, c) /\ Listens(s, c) => r = s

\* A step in which a goroutine hands its ear on keeps the invariant; when one that
\* listens makes way for one that listens too, the current client keeps an ear.
LEMMA EarsKept ==
  ASSUME EarsInv, NEW g \in Routines, NEW next, Continues(g, next), HandsOn(g, next),
         UNCHANGED <<client, unopened>>
  PROVE  /\ EarsInv'
         /\ \/ \E r \in next : Listens(r, client)
            \/ ~Listens(g, client)
            => (Ears(client) # {} => Ears(client)' # {})
<1>1. PICK B : B = go
  OBVIOUS
<1>2. PICK D : D = go'
  OBVIOUS
<1>3. IsABag(B) /\ g \in DOMAIN B /\ MakesWay(B, g, next, D)
  BY <1>1, <1>2, BagStep DEF EarsInv, Routines, BagToSet, Continues
<1>4. /\ IsABag(D) /\ DOMAIN D \subseteq DOMAIN B \cup next
      /\ \A r \in next : r \in DOMAIN D
      /\ \A r \in DOMAIN B : r # g => r \in DOMAIN D
  BY <1>3 DEF MakesWay
<1>5. /\ DOMAIN B = Routines /\ DOMAIN D = Routines'
      /\ \A c \in Client : Ears(c) = EarsIn(B, c) /\ Ears(c)' = EarsIn(D, c)
      /\ Ears(client) = EarsIn(B, client) /\ Ears(client)' = EarsIn(D, client)
  <2>1. DOMAIN B = Routines /\ DOMAIN D = Routines'
    BY <1>1, <1>2 DEF Routines, BagToSet
  <2>2. Ears(client) = EarsIn(B, client)
    BY <1>1, <2>1 DEF Ears, EarsIn
  <2>3. Ears(client)' = EarsIn(D, client)
    <3>1. Ears(client)' = EarsIn(D, client')
      BY <1>2, <2>1 DEF Ears, EarsIn
    <3> QED
      BY <3>1
  <2>4. ASSUME NEW c \in Client PROVE Ears(c) = EarsIn(B, c) /\ Ears(c)' = EarsIn(D, c)
    BY <1>1, <1>2, <2>1 DEF Ears, EarsIn
  <2> QED
    BY <2>1, <2>2, <2>3, <2>4
<1>6. ASSUME NEW c \in Client PROVE IsFiniteSet(Ears(c)') /\ Cardinality(Ears(c)') <= 2
  <2>2. /\ \A r \in next : Listens(r, c) => Listens(g, c)
        /\ \A r, k \in next : Listens(r, c) /\ Listens(k, c) => r = k
    BY DEF HandsOn
  <2>3. IsFiniteSet(EarsIn(B, c)) /\ Cardinality(EarsIn(B, c)) <= 2
    BY <1>5 DEF EarsInv
  <2>4. /\ IsFiniteSet(EarsIn(D, c))
        /\ Cardinality(EarsIn(D, c)) <= Cardinality(EarsIn(B, c))
    BY <1>3, <2>2, <2>3, NoMoreEars
  <2>5. Cardinality(EarsIn(D, c)) \in Nat /\ Cardinality(EarsIn(B, c)) \in Nat
    BY <2>3, <2>4, FS_CardinalityType
  <2> QED
    BY <1>5, <2>3, <2>4, <2>5
<1>7. EarsInv'
  <2>1. \A r \in DOMAIN D : IsRoutine(r)
    BY <1>4, <1>5 DEF EarsInv, HandsOn
  <2>2. \A c \in unopened, r \in DOMAIN D : ~Listens(r, c)
    BY <1>4, <1>5 DEF EarsInv, HandsOn
  <2>3. IsABag(go')
    BY <1>2, <1>4
  <2> QED
    BY <1>5, <1>6, <2>1, <2>2, <2>3 DEF EarsInv
<1>8. ASSUME Ears(client) # {}, (\E r \in next : Listens(r, client)) \/ ~Listens(g, client)
      PROVE  Ears(client)' # {}
  <2>1. PICK r \in DOMAIN B : Listens(r, client)
    BY <1>3, <1>5, <1>8, SomeEar
  <2>2. \E k \in DOMAIN D : Listens(k, client)
    BY <1>4, <1>8, <2>1
  <2> QED
    BY <1>4, <1>5, <2>2, SomeEar
<1> QED
  BY <1>7, <1>8

-----------------------------------------------------------------------------
\* A goroutine written as a record has the fields it is written with.
LEMMA RoutineFields ==
  \A kind, c, pc, k, out :
     /\ IsRoutine(NewRoutine(kind, c, pc, k, out))
     /\ NewRoutine(kind, c, pc, k, out).kind = kind
     /\ NewRoutine(kind, c, pc, k, out).client = c
  BY DEF NewRoutine, IsRoutine

\* What a goroutine becomes when it goes on: one of the same kind and client.
Resumes(g, r) == IsRoutine(r) /\ r.kind = g.kind /\ r.client = g.client

\* A goroutine with a new stage, connection or outcome is the same one going on.
LEMMA Resumption ==
  ASSUME NEW g, IsRoutine(g), NEW pc, NEW k, NEW out
  PROVE  /\ Resumes(g, [g EXCEPT !.pc = pc])
         /\ Resumes(g, [g EXCEPT !.pc = pc, !.conn = k])
         /\ Resumes(g, [g EXCEPT !.pc = pc, !.out = out])
         /\ Resumes(g, [g EXCEPT !.pc = pc, !.conn = k, !.out = out])
<1>1. g = [kind |-> g.kind, client |-> g.client, pc |-> g.pc, conn |-> g.conn, out |-> g.out]
  BY DEF IsRoutine, NewRoutine
<1>2. PICK kind, c, p, n, o : g = [kind |-> kind, client |-> c, pc |-> p, conn |-> n, out |-> o]
  BY <1>1
<1>3. \A q, p2, n2, o2 : q = NewRoutine(kind, c, p2, n2, o2) =>
         /\ [q EXCEPT !.pc = pc] = NewRoutine(kind, c, pc, n2, o2)
         /\ [q EXCEPT !.conn = k] = NewRoutine(kind, c, p2, k, o2)
         /\ [q EXCEPT !.out = out] = NewRoutine(kind, c, p2, n2, out)
  BY DEF NewRoutine
<1>6. PICK r1 : r1 = [g EXCEPT !.pc = pc]
  OBVIOUS
<1>7. PICK r2 : r2 = [r1 EXCEPT !.conn = k]
  OBVIOUS
<1>8. PICK r3 : r3 = [r1 EXCEPT !.out = out]
  OBVIOUS
<1>9. PICK r4 : r4 = [r2 EXCEPT !.out = out]
  OBVIOUS
<1>10. /\ [g EXCEPT !.pc = pc, !.conn = k] = r2
       /\ [g EXCEPT !.pc = pc, !.out = out] = r3
       /\ [g EXCEPT !.pc = pc, !.conn = k, !.out = out] = r4
  BY <1>2, <1>6, <1>7, <1>8, <1>9
<1>11. g = NewRoutine(kind, c, p, n, o)
  BY <1>2 DEF NewRoutine
<1>12. r1 = NewRoutine(kind, c, pc, n, o)
  BY <1>3, <1>6, <1>11
<1>13. r2 = NewRoutine(kind, c, pc, k, o)
  BY <1>3, <1>7, <1>12
<1>14. r3 = NewRoutine(kind, c, pc, n, out)
  BY <1>3, <1>8, <1>12
<1>15. r4 = NewRoutine(kind, c, pc, k, out)
  BY <1>3, <1>9, <1>13
<1>4. g.kind = kind /\ g.client = c
  BY <1>2
<1>5. \A p2, n2, o2 : Resumes(g, NewRoutine(kind, c, p2, n2, o2))
  BY <1>4, RoutineFields DEF Resumes
<1> QED
  BY <1>5, <1>6, <1>10, <1>12, <1>13, <1>14, <1>15

\* A goroutine that ends, that goes on, or that leaves deaf ones hands its ear on
\* properly.
LEMMA WhoHandsOn ==
  ASSUME NEW g
  PROVE  /\ HandsOn(g, {})
         /\ \A r : Resumes(g, r) => HandsOn(g, {r})
         /\ \A r : IsRoutine(r) /\ r.kind \notin {"wait", "connect"} => HandsOn(g, {r})
         /\ \A r, s : /\ Resumes(g, r) /\ IsRoutine(s)
                      /\ s.kind \notin {"wait", "connect"}
                      => HandsOn(g, {r, s})
         /\ \A r, s : IsRoutine(r) /\ IsRoutine(s)
                      /\ r.kind \notin {"wait", "connect"} /\ s.kind \notin {"wait", "connect"}
                      => HandsOn(g, {r, s})
         /\ \A r : IsRoutine(r) /\ Listens(g, r.client) => HandsOn(g, {r})
  BY DEF HandsOn, Resumes, Listens

\* The goroutine g makes way for others, hands its ear on, and leaves the window
\* in touch or stopped.
StaysInTouch(g) ==
    \E next :
        /\ Continues(g, next) /\ HandsOn(g, next)
        /\ Listens(g, client) => Stopped' \/ \E r \in next : Listens(r, client)

\* Going on, with or without a deaf one beside it, is enough.
LEMMA GoingOn ==
  ASSUME NEW g, NEW r, Resumes(g, r),
         \/ Continues(g, {r})
         \/ \E s : IsRoutine(s) /\ s.kind \notin {"wait", "connect"} /\ Continues(g, {r, s})
  PROVE  StaysInTouch(g)
<1>1. Listens(g, client) => Listens(r, client)
  BY DEF Resumes, Listens
<1>2. CASE Continues(g, {r})
  BY <1>1, <1>2, WhoHandsOn DEF StaysInTouch
<1>3. ASSUME NEW s, IsRoutine(s), s.kind \notin {"wait", "connect"}, Continues(g, {r, s})
      PROVE  StaysInTouch(g)
  BY <1>1, <1>3, WhoHandsOn DEF StaysInTouch
<1> QED
  BY <1>2, <1>3

\* So is being deaf and leaving a deaf one or none.
LEMMA DeafGoesOn ==
  ASSUME NEW g, g.kind \notin {"wait", "connect"},
         \/ Continues(g, {})
         \/ \E r : IsRoutine(r) /\ r.kind \notin {"wait", "connect"} /\ Continues(g, {r})
  PROVE  StaysInTouch(g)
<1>1. ~Listens(g, client)
  BY DEF Listens
<1> QED
  BY <1>1, WhoHandsOn DEF StaysInTouch

\* Returning a result is going on.
LEMMA ReturnedResumes == \A g, out : Resumes(g, Returned(g, out))
  BY RoutineFields DEF Returned, Resumes

\* A send learns its client when it runs.
LEMMA SendStarts ==
  ASSUME NEW g, IsRoutine(g), NEW c, NEW pc
  PROVE  /\ IsRoutine([g EXCEPT !.client = c, !.pc = pc])
         /\ [g EXCEPT !.client = c, !.pc = pc].kind = g.kind
<1>1. PICK kind, d, p, n, o : g = [kind |-> kind, client |-> d, pc |-> p, conn |-> n, out |-> o]
  BY DEF IsRoutine, NewRoutine
<1>2. PICK r1 : r1 = [g EXCEPT !.client = c]
  OBVIOUS
<1>3. PICK r2 : r2 = [r1 EXCEPT !.pc = pc]
  OBVIOUS
<1>4. [g EXCEPT !.client = c, !.pc = pc] = r2
  BY <1>1, <1>2, <1>3
<1>5. r1 = [kind |-> kind, client |-> c, pc |-> p, conn |-> n, out |-> o]
  BY <1>1, <1>2
<1>6. r2 = NewRoutine(kind, c, pc, n, o)
  BY <1>3, <1>5 DEF NewRoutine
<1>7. g.kind = kind
  BY <1>1
<1> QED
  BY <1>4, <1>6, <1>7, RoutineFields

\* No step of a goroutine, or of Update with its result, loses the last ear of a
\* window that goes on.
LEMMA RoutineStep ==
  ASSUME EarsInv, NEW g \in Routines,
         GoStep(g) \/ ((DialFails(g) \/ Refuse(g)) /\ UNCHANGED uiVars)
  PROVE  StaysInTouch(g) /\ UNCHANGED <<client, unopened>>
<1>1. IsRoutine(g)
  BY DEF EarsInv
<1>2. /\ \A pc : Resumes(g, [g EXCEPT !.pc = pc])
      /\ \A pc, k : Resumes(g, [g EXCEPT !.pc = pc, !.conn = k])
      /\ \A pc, out : Resumes(g, [g EXCEPT !.pc = pc, !.out = out])
      /\ \A pc, k, out : Resumes(g, [g EXCEPT !.pc = pc, !.conn = k, !.out = out])
  BY <1>1, Resumption
<1>3. UNCHANGED <<client, unopened>>
  BY DEF GoStep, ConnectStep, LoopStep, RunsDisconnect, SendStep, StartSend, SendWrites,
         TakeEvent, UpdateStep, HandleConnectResult, HandleEvent, HandleSendResult, uiVars
<1>4. CASE Dial(g) \/ ReadChallenge(g) \/ WriteSubscribe(g) \/ Refuse(g)
  <2>1. \E r : Resumes(g, r) /\ Continues(g, {r})
    BY <1>2, <1>4 DEF Dial, ReadChallenge, WriteSubscribe, Refuse
  <2> QED
    BY <1>3, <2>1, GoingOn
<1>5. CASE HandshakeFails(g) \/ DialFails(g)
  <2>1. \E r : Resumes(g, r) /\ Continues(g, {r})
    BY <1>5, ReturnedResumes DEF HandshakeFails, DialFails
  <2> QED
    BY <1>3, <2>1, GoingOn
<1>6. CASE ReadSubscribeAck(g)
  <2>1. PICK s : s = NewRoutine("loop", g.client, "top", NoSocket, "none")
    OBVIOUS
  <2>2. IsRoutine(s) /\ s.kind \notin {"wait", "connect"}
    <3>1. IsRoutine(s) /\ s.kind = "loop"
      BY <2>1, RoutineFields
    <3> QED
      BY <3>1
  <2>3. Continues(g, {Returned(g, "ok"), s})
    BY <1>6, <2>1 DEF ReadSubscribeAck
  <2> QED
    BY <1>3, <2>2, <2>3, ReturnedResumes, GoingOn
<1>7. CASE LoopTop(g) \/ LoopReads(g) \/ LoopFails(g) \/ SendEvent(g)
  <2>1. g.kind = "loop"
    BY <1>7 DEF LoopTop, LoopReads, LoopFails, SendEvent
  <2>2. Continues(g, {}) \/ \E r : Resumes(g, r) /\ Continues(g, {r})
    BY <1>2, <1>7 DEF LoopTop, LoopReads, LoopFails, SendEvent
  <2> QED
    BY <1>3, <2>1, <2>2, GoingOn, DeafGoesOn
<1>8. CASE Disconnect(g)
  <2>1. g.kind = "idle" /\ Continues(g, {})
    BY <1>8 DEF Disconnect
  <2> QED
    BY <1>3, <2>1, DeafGoesOn
<1>9. CASE StartSend(g) \/ SendWrites(g)
  <2>1. g.kind = "send" /\ \E r : IsRoutine(r) /\ r.kind = "send" /\ Continues(g, {r})
    <3>1. CASE StartSend(g)
      <4>1. PICK pc : Continues(g, {[g EXCEPT !.client = client, !.pc = pc]})
        BY <3>1 DEF StartSend
      <4>2. g.kind = "send"
        BY <3>1 DEF StartSend
      <4> QED
        BY <1>1, <4>1, <4>2, SendStarts
    <3>2. CASE SendWrites(g)
      <4>1. \A out : LET r == NewRoutine("send", client, "done", NoSocket, out)
                     IN  IsRoutine(r) /\ r.kind = "send"
        BY RoutineFields
      <4> QED
        BY <3>2, <4>1 DEF SendWrites
    <3> QED
      BY <1>9, <3>1, <3>2
  <2>2. \A r : r.kind = "send" => r.kind \notin {"wait", "connect"}
    OBVIOUS
  <2> QED
    BY <1>3, <2>1, <2>2, DeafGoesOn
<1>10. CASE TakeEvent(g)
  <2>1. \E r : Resumes(g, r) /\ Continues(g, {r})
    BY <1>2, <1>10 DEF TakeEvent
  <2> QED
    BY <1>3, <2>1, GoingOn
<1>11. CASE HandleSendResult(g)
  <2>1. g.kind = "send" /\ Continues(g, {})
    BY <1>11 DEF HandleSendResult
  <2> QED
    BY <1>3, <2>1, DeafGoesOn
<1>12. ASSUME HandleConnectResult(g) \/ HandleEvent(g)
       PROVE  StaysInTouch(g)
  <2>1. g.kind \in {"connect", "wait"}
    BY <1>12 DEF HandleConnectResult, HandleEvent
  <2>2. CASE g.client # client
    <3>1. Continues(g, {})
      BY <1>12, <2>2 DEF HandleConnectResult, HandleEvent
    <3> QED
      BY <2>2, <3>1, WhoHandsOn DEF StaysInTouch, Listens
  <2>3. CASE g.client = client
    <3>1. Listens(g, client)
      BY <2>1, <2>3 DEF Listens
    <3>2. \/ Continues(g, {WaitRoutine(client)}) \/ Continues(g, {Reconnect(client)})
          \/ Continues(g, {}) /\ Stopped'
      BY <1>12, <2>3 DEF HandleConnectResult, HandleEvent, handleConnectionError, Stopped
    <3>3. \A r : r = WaitRoutine(client) \/ r = Reconnect(client)
                    => IsRoutine(r) /\ r.client = client /\ Listens(r, client)
      <4>1. \A c : /\ IsRoutine(WaitRoutine(c)) /\ WaitRoutine(c).client = c
                   /\ WaitRoutine(c).kind = "wait"
                   /\ IsRoutine(Reconnect(c)) /\ Reconnect(c).client = c
                   /\ Reconnect(c).kind = "connect"
        BY RoutineFields DEF WaitRoutine, Reconnect
      <4> QED
        BY <4>1 DEF Listens
    <3>4. CASE Continues(g, {}) /\ Stopped'
      BY <3>4, WhoHandsOn DEF StaysInTouch
    <3>5. ASSUME NEW r, r = WaitRoutine(client) \/ r = Reconnect(client), Continues(g, {r})
          PROVE  StaysInTouch(g)
      <4>1. HandsOn(g, {r})
        BY <3>1, <3>3, <3>5, WhoHandsOn
      <4> QED
        BY <3>3, <3>5, <4>1 DEF StaysInTouch
    <3> QED
      BY <3>2, <3>4, <3>5
  <2> QED
    BY <2>2, <2>3
<1> QED
  BY <1>3, <1>4, <1>5, <1>6, <1>7, <1>8, <1>9, <1>10, <1>11, <1>12
     DEF GoStep, ConnectStep, LoopStep, RunsDisconnect, SendStep, UpdateStep

\* A deaf goroutine more changes nothing for any client.
LEMMA OneMoreDeaf ==
  ASSUME EarsInv, NEW r, IsRoutine(r), r.kind \notin {"wait", "connect"},
         go' = go (+) SetToBag({r}), UNCHANGED <<client, unopened>>
  PROVE  EarsInv' /\ Ears(client)' = Ears(client)
<1>1. PICK B : B = go
  OBVIOUS
<1>2. PICK D : D = go'
  OBVIOUS
<1>3. IsABag(B) /\ Gains(B, {r}, D)
  BY <1>1, <1>2, BagGains DEF EarsInv
<1>4. \A c : EarsIn(D, c) = EarsIn(B, c)
  BY <1>3, SameEars DEF Listens
<1>5. DOMAIN B = Routines /\ DOMAIN D = Routines' /\ DOMAIN D = DOMAIN B \cup {r}
  BY <1>1, <1>2, <1>3 DEF Routines, BagToSet, Gains
<1>6. \A c \in Client : Ears(c)' = Ears(c)
  <2> TAKE c \in Client
  <2>1. Ears(c) = EarsIn(B, c) /\ Ears(c)' = EarsIn(D, c)
    BY <1>1, <1>2, <1>5 DEF Ears, EarsIn
  <2> QED
    BY <1>4, <2>1
<1>7. Ears(client)' = Ears(client)
  <2>1. Ears(client) = EarsIn(B, client) /\ Ears(client)' = EarsIn(D, client')
    BY <1>1, <1>2, <1>5 DEF Ears, EarsIn
  <2> QED
    BY <1>4, <2>1
<1>8. IsABag(go')
  BY <1>2, <1>3 DEF Gains
<1>9. \A k \in Routines' : IsRoutine(k)
  BY <1>5 DEF EarsInv
<1>10. \A c \in unopened, k \in Routines' : ~Listens(k, c)
  BY <1>5 DEF EarsInv, Listens
<1>11. \A c \in Client : IsFiniteSet(Ears(c)') /\ Cardinality(Ears(c)') <= 2
  BY <1>6 DEF EarsInv
<1> QED
  BY <1>7, <1>8, <1>9, <1>10, <1>11 DEF EarsInv

\* The client of a relay that the window switches to has two ears, and the others
\* have those they had.
LEMMA SwitchKeeps ==
  ASSUME EarsInv, NEW d \in Client, SwitchRelay(d)
  PROVE  EarsInv' /\ Ears(client)' # {}
<1>1. PICK B : B = go
  OBVIOUS
<1>2. PICK D : D = go'
  OBVIOUS
<1>3. PICK p : p = ConnectRoutine(d)
  OBVIOUS
<1>4. PICK q : q = WaitRoutine(d)
  OBVIOUS
<1>5. /\ IsRoutine(p) /\ p.client = d /\ p.kind = "connect"
      /\ IsRoutine(q) /\ q.client = d /\ q.kind = "wait"
  BY <1>3, <1>4, RoutineFields DEF ConnectRoutine, WaitRoutine
<1>6. IsABag(B) /\ Gains(B, {p, q}, D)
  BY <1>1, <1>2, <1>3, <1>4, BagGains DEF EarsInv, SwitchRelay
<1>7. DOMAIN B = Routines /\ DOMAIN D = Routines' /\ DOMAIN D = DOMAIN B \cup {p, q}
  BY <1>1, <1>2, <1>6 DEF Routines, BagToSet, Gains
<1>8. d \in unopened /\ client' = d /\ unopened' = unopened \ {d}
  BY DEF SwitchRelay
<1>9. \A c \in Client : Ears(c) = EarsIn(B, c) /\ Ears(c)' = EarsIn(D, c)
  BY <1>1, <1>2, <1>7 DEF Ears, EarsIn
<1>10. ASSUME NEW c \in Client, c # d PROVE Ears(c)' = Ears(c)
  <2>1. \A r \in {p, q} : ~Listens(r, c)
    BY <1>5, <1>10 DEF Listens
  <2> QED
    BY <1>6, <1>9, <2>1, SameEars
<1>11. IsFiniteSet(Ears(d)') /\ Cardinality(Ears(d)') <= 2
  <2>1. \A r \in DOMAIN B : ~Listens(r, d)
    BY <1>7, <1>8 DEF EarsInv
  <2>2. p \notin DOMAIN B /\ q \notin DOMAIN B
    BY <1>5, <2>1 DEF Listens
  <2>3. D[p] = 1 /\ D[q] = 1
    BY <1>6, <2>2 DEF Gains
  <2>4. EarsIn(D, d) \subseteq {<<p, 1>>, <<q, 1>>}
    <3>1. \A x : x \in EarsIn(D, d)
                   => \E r \in DOMAIN D : \E i \in 1..D[r] : Listens(r, d) /\ x = <<r, i>>
      BY EarsAreCopies
    <3>2. \A r \in DOMAIN D : Listens(r, d) => r \in {p, q}
      BY <1>7, <2>1
    <3> QED
      BY <2>3, <3>1, <3>2
  <2>5. PICK x, y : x = <<p, 1>> /\ y = <<q, 1>>
    OBVIOUS
  <2>6. IsFiniteSet({x}) /\ Cardinality({x}) = 1
    BY FS_Singleton
  <2>7. IsFiniteSet({x} \cup {y}) /\ Cardinality({x} \cup {y}) <= 2
    <3>1. /\ IsFiniteSet({x} \cup {y})
          /\ Cardinality({x} \cup {y})
               = IF y \in {x} THEN Cardinality({x}) ELSE Cardinality({x}) + 1
      BY <2>6, FS_AddElement, Zenon
    <3> QED
      BY <2>6, <3>1
  <2>8. Ears(d)' \subseteq {x} \cup {y}
    BY <1>9, <2>4, <2>5
  <2>9. IsFiniteSet(Ears(d)') /\ Cardinality(Ears(d)') <= Cardinality({x} \cup {y})
    BY <2>7, <2>8, FS_Subset
  <2>10. Cardinality(Ears(d)') \in Nat /\ Cardinality({x} \cup {y}) \in Nat
    BY <2>7, <2>9, FS_CardinalityType
  <2> QED
    BY <2>7, <2>9, <2>10
<1>12. Ears(client)' # {}
  <2>1. EarsIn(D, d) # {}
    BY <1>5, <1>6, <1>7, SomeEar DEF Gains, Listens
  <2>2. Ears(client)' = EarsIn(D, client')
    BY <1>2, <1>7 DEF Ears, EarsIn
  <2> QED
    BY <1>8, <2>1, <2>2
<1>13. IsABag(go')
  BY <1>2, <1>6 DEF Gains
<1>14. \A k \in Routines' : IsRoutine(k)
  BY <1>5, <1>7 DEF EarsInv
<1>15. \A c \in unopened', k \in Routines' : ~Listens(k, c)
  BY <1>5, <1>7, <1>8 DEF EarsInv, Listens
<1>16. \A c \in Client : IsFiniteSet(Ears(c)') /\ Cardinality(Ears(c)') <= 2
  BY <1>10, <1>11 DEF EarsInv
<1> QED
  BY <1>8, <1>12, <1>13, <1>14, <1>15, <1>16 DEF EarsInv

\* The window starts with one wait and one connect attempt for its first client.
LEMMA EarsInitially == WindowInit => EarsInv
<1> SUFFICES ASSUME WindowInit PROVE EarsInv
  OBVIOUS
<1>1. PICK p : p = ConnectRoutine(First)
  OBVIOUS
<1>2. PICK q : q = WaitRoutine(First)
  OBVIOUS
<1>3. /\ IsRoutine(p) /\ p.client = First /\ p.kind = "connect"
      /\ IsRoutine(q) /\ q.client = First /\ q.kind = "wait"
  BY <1>1, <1>2, RoutineFields DEF ConnectRoutine, WaitRoutine
<1>4. go = [r \in {p, q} |-> 1]
  BY <1>1, <1>2 DEF WindowInit, SetToBag
<1>5. Routines = {p, q} /\ IsABag(go)
  BY <1>4 DEF Routines, BagToSet, IsABag
<1>6. ASSUME NEW c \in Client PROVE IsFiniteSet(Ears(c)) /\ Cardinality(Ears(c)) <= 2
  <2>1. PICK x, y : x = <<p, 1>> /\ y = <<q, 1>>
    OBVIOUS
  <2>2. Ears(c) \subseteq {x} \cup {y}
    <3>1. Ears(c) = EarsIn(go, c)
      BY DEF Ears, EarsIn, Routines, BagToSet
    <3>2. \A z : z \in EarsIn(go, c)
                   => \E r \in DOMAIN go : \E i \in 1..go[r] : Listens(r, c) /\ z = <<r, i>>
      BY EarsAreCopies
    <3> QED
      BY <1>4, <2>1, <3>1, <3>2
  <2>6. IsFiniteSet({x}) /\ Cardinality({x}) = 1
    BY FS_Singleton
  <2>7. IsFiniteSet({x} \cup {y}) /\ Cardinality({x} \cup {y}) <= 2
    <3>1. /\ IsFiniteSet({x} \cup {y})
          /\ Cardinality({x} \cup {y})
               = IF y \in {x} THEN Cardinality({x}) ELSE Cardinality({x}) + 1
      BY <2>6, FS_AddElement, Zenon
    <3> QED
      BY <2>6, <3>1
  <2>9. IsFiniteSet(Ears(c)) /\ Cardinality(Ears(c)) <= Cardinality({x} \cup {y})
    BY <2>7, <2>2, FS_Subset
  <2>10. Cardinality(Ears(c)) \in Nat /\ Cardinality({x} \cup {y}) \in Nat
    BY <2>7, <2>9, FS_CardinalityType
  <2> QED
    BY <2>7, <2>9, <2>10
<1> QED
  BY <1>3, <1>5, <1>6 DEF EarsInv, WindowInit, Listens

\* Every step keeps the invariant, and the last ear goes only when the window
\* stops.
LEMMA EarsStep ==
  ASSUME EarsInv, [WindowNext]_windowVars
  PROVE  EarsInv' /\ (Ears(client) # {} => Stopped' \/ Ears(client)' # {})
<1>1. ASSUME NEW g \in Routines, GoStep(g) \/ ((DialFails(g) \/ Refuse(g)) /\ UNCHANGED uiVars)
      PROVE  EarsInv' /\ (Ears(client) # {} => Stopped' \/ Ears(client)' # {})
  <2>1. StaysInTouch(g) /\ UNCHANGED <<client, unopened>>
    BY <1>1, RoutineStep
  <2>2. PICK next :
          /\ Continues(g, next) /\ HandsOn(g, next)
          /\ Listens(g, client) => Stopped' \/ \E r \in next : Listens(r, client)
    BY <2>1 DEF StaysInTouch
  <2> QED
    BY <2>1, <2>2, EarsKept
<1>2. ASSUME IdleTimeout \/ UserSends
      PROVE  EarsInv' /\ Ears(client)' = Ears(client)
  <2>1. PICK r : /\ go' = go (+) SetToBag({r})
                 /\ \/ r = NewRoutine("idle", client, "start", NoSocket, "none")
                    \/ r = NewRoutine("send", client, "start", NoSocket, "none")
    BY <1>2 DEF IdleTimeout, UserSends
  <2>2. IsRoutine(r) /\ r.kind \in {"idle", "send"}
    BY <2>1, RoutineFields
  <2>3. UNCHANGED <<client, unopened>>
    BY <1>2 DEF IdleTimeout, UserSends
  <2>4. r.kind \notin {"wait", "connect"}
    BY <2>2
  <2> QED
    BY <2>1, <2>2, <2>3, <2>4, OneMoreDeaf
<1>3. ASSUME UNCHANGED <<go, client, unopened>>
      PROVE  EarsInv' /\ Ears(client)' = Ears(client)
  <2>1. Routines' = Routines
    BY <1>3 DEF Routines
  <2>2. \A c \in Client : Ears(c)' = Ears(c)
    BY <1>3, <2>1 DEF Ears
  <2>3. Ears(client)' = Ears(client)
    BY <1>3, <2>1 DEF Ears
  <2> QED
    BY <1>3, <2>1, <2>2, <2>3 DEF EarsInv
<1>4. ASSUME NEW k \in Socket, Cut(k), UNCHANGED uiVars PROVE UNCHANGED <<go, client, unopened>>
  BY <1>4 DEF Cut, uiVars
<1>5. ASSUME UNCHANGED windowVars PROVE UNCHANGED <<go, client, unopened>>
  BY <1>5 DEF windowVars, wsVars, uiVars
<1> QED
  BY <1>1, <1>2, <1>3, <1>4, <1>5, SwitchKeeps DEF WindowNext, Fault

\* An error event ends its wait and a failed connect starts none, while Init and
\* every successful connect start one (update.go:220, 237): still the last wait or
\* connect attempt of the current client ends only when the window stops, and no
\* client has more than two.  Whether what they wait for comes is another
\* question, LossIsNoticed.
THEOREM EarsCorrect ==
  WindowSpec => /\ [][Ears(client) # {} => Stopped' \/ Ears(client)' # {}]_windowVars
                /\ [](\A c \in Client : Cardinality(Ears(c)) <= 2)
<1>1. EarsInv /\ [WindowNext]_windowVars => EarsInv'
  BY EarsStep
<1>2. EarsInv /\ [WindowNext]_windowVars =>
        [Ears(client) # {} => Stopped' \/ Ears(client)' # {}]_windowVars
  BY EarsStep
<1>3. EarsInv => \A c \in Client : Cardinality(Ears(c)) <= 2
  BY DEF EarsInv
<1> QED
  BY <1>1, <1>2, <1>3, EarsInitially, PTL DEF WindowSpec

-----------------------------------------------------------------------------
\* ChatConnection: what ends an idle time.

\* No fault, no switch, and at most one message of the user so far.
Calm == faults = MaxFaults /\ MaxSends <= sends + 1

\* A connect or a send is in its handshake; it is at it since it began to dial.
Shakes(g) == g.pc \in {"challenge", "subscribe", "ack"}
Dialing(g) == g.pc = "dial" \/ Shakes(g)
Words == {"challenge", "ack", "error", "refusal"}
News == {"ack", "other"}

\* No connection is cut, no client closed, no error on its way.
SockType == [Socket -> [state : {"open", "closed"}, inbox : Seq(Words)]]
CalmTypes ==
    /\ client = First
    /\ sock \in SockType
    /\ conn \in [Client -> Socket \cup {NoSocket}]
    /\ closed \in [Client -> BOOLEAN] /\ ~closed[First]
    /\ ~shut[First]
    /\ events \in [Client -> Seq(News)]

\* Where a goroutine can be, and what it holds there.
CalmRoutine(g) ==
    /\ IsRoutine(g) /\ g.client = First
    /\ g.kind \in {"connect", "send", "loop", "wait", "idle"}
    /\ g.kind = "connect" => Dialing(g) \/ (g.pc = "done" /\ g.out = "ok")
    /\ g.kind = "send" => Dialing(g) \/ g.pc \in {"start", "write", "done"}
    /\ g.kind = "loop" => \/ g.pc = "top"
                          \/ g.pc = "read" /\ g.conn \in Socket
                          \/ g.pc = "event" /\ g.out \in News
    /\ g.kind = "wait" => g.pc = "start" \/ (g.pc = "done" /\ g.out \in News)
    /\ g.kind = "idle" => g.pc = "start"
    /\ Shakes(g) => g.conn \in Socket

Alone == {"connect", "send"}

\* There is at most one connect, and at most one send.
Singles ==
    \A g, h \in Routines : g.kind \in Alone /\ g.kind = h.kind => g = h /\ go[g] = 1

\* A handshake finds what the relay sent, unless a Disconnect has closed its
\* connection and taken it from c.conn.
Undisturbed(g) ==
    /\ conn[First] = g.conn /\ IsOpen(g.conn)
    /\ g.pc \in {"challenge", "subscribe"} => g.conn \notin spent
    /\ g.pc = "challenge" => sock[g.conn].inbox = <<"challenge">>
    /\ g.pc = "subscribe" => sock[g.conn].inbox = <<>>
    /\ g.pc = "ack" => sock[g.conn].inbox = <<"ack">>
HandshakeSound(g) ==
    \/ Undisturbed(g)
    \/ g.kind = "send" /\ conn[First] = NoSocket /\ ~IsOpen(g.conn)

\* The read loops of a connection that is to be replaced have nothing to read.
Quiet(g) == g.pc = "read" /\ (IsOpen(g.conn) => sock[g.conn].inbox = <<>>)
LoopsAreQuiet == \A g \in Routines : g.kind = "loop" => Quiet(g)

\* The first connect finds no one else but the wait.
FirstConnect(g) ==
    /\ sends = MaxSends /\ ~connected /\ ~idle /\ events[First] = <<>>
    /\ \A h \in Routines :
         /\ h.kind # "idle"
         /\ h.kind = "wait" => h.pc = "start"
         /\ h.kind = "loop" => /\ g.pc = "done" /\ h.pc # "event"
                               /\ h.pc = "read" => h.conn = conn[First]
    /\ g.pc = "done" => conn[First] # NoSocket /\ sock[conn[First]].inbox = <<>>

\* The same for every goroutine, by name.
Places == \A g \in Routines : CalmRoutine(g)
CurrentIsOpen == conn[First] # NoSocket => IsOpen(conn[First])
Handshakes == \A g \in Routines : Shakes(g) => HandshakeSound(g)
OwnSockets == \A g, h \in Routines : Shakes(g) /\ h.kind = "loop" => h.conn # g.conn
QuietWhileDialing ==
    \A g \in Routines : g.kind = "send" /\ Dialing(g) => LoopsAreQuiet
QuietWhenIdle ==
    /\ idle /\ sends = MaxSends => LoopsAreQuiet
    /\ \A g \in Routines : idle /\ g.kind = "send" /\ g.pc = "start" => LoopsAreQuiet
FirstConnects == \A g \in Routines : g.kind = "connect" => FirstConnect(g)
NoneSent == sends = MaxSends => \A g \in Routines : g.kind # "send"
SomeoneWaits == \E g \in Routines : g.kind = "wait"
IdleIsSettled == idle => ~connecting

\* What holds as long as the window is calm.
CalmInv ==
    /\ CalmTypes /\ Places /\ Singles /\ CurrentIsOpen
    /\ Handshakes /\ OwnSockets /\ QuietWhileDialing /\ QuietWhenIdle
    /\ FirstConnects /\ NoneSent /\ SomeoneWaits /\ IdleIsSettled

\* Of the states whose budgets say that the window is calm.
IdleInv ==
    /\ faults \in 0..MaxFaults /\ sends \in 0..MaxSends
    /\ Calm => CalmInv

\* What a goroutine record has in its fields.
Looks(r, kind, pc, k, out) ==
    /\ IsRoutine(r) /\ r.client = First /\ r.kind = kind
    /\ r.pc = pc /\ r.conn = k /\ r.out = out

\* A new goroutine has the fields it is written with.
LEMMA LooksNew ==
  \A kind, pc, k, out : Looks(NewRoutine(kind, First, pc, k, out), kind, pc, k, out)
  BY DEF NewRoutine, IsRoutine, Looks

\* So has one that goes on, as the steps of the model write it.
LEMMA LooksOn ==
  ASSUME NEW g, IsRoutine(g), g.client = First, NEW pc, NEW k, NEW out
  PROVE  /\ Looks([g EXCEPT !.pc = pc], g.kind, pc, g.conn, g.out)
         /\ Looks([g EXCEPT !.pc = pc, !.conn = k], g.kind, pc, k, g.out)
         /\ Looks([g EXCEPT !.pc = pc, !.out = out], g.kind, pc, g.conn, out)
         /\ Looks([g EXCEPT !.pc = pc, !.conn = k, !.out = out], g.kind, pc, k, out)
         /\ Looks([g EXCEPT !.client = First, !.pc = pc], g.kind, pc, g.conn, g.out)
<1>1. PICK kind, p, n, o :
         g = [kind |-> kind, client |-> First, pc |-> p, conn |-> n, out |-> o]
  BY DEF IsRoutine, NewRoutine
<1>2. g.kind = kind /\ g.conn = n /\ g.out = o
  BY <1>1
<1>3. PICK r1 : r1 = [kind |-> kind, client |-> First, pc |-> pc, conn |-> n, out |-> o]
  OBVIOUS
<1>4. PICK r2 : r2 = [kind |-> kind, client |-> First, pc |-> pc, conn |-> k, out |-> o]
  OBVIOUS
<1>5. PICK r3 : r3 = [kind |-> kind, client |-> First, pc |-> pc, conn |-> n, out |-> out]
  OBVIOUS
<1>6. PICK r4 : r4 = [kind |-> kind, client |-> First, pc |-> pc, conn |-> k, out |-> out]
  OBVIOUS
<1>7. [g EXCEPT !.pc = pc] = r1
  BY <1>1, <1>3
<1>8. [g EXCEPT !.pc = pc, !.conn = k] = r2
  <2>1. [g EXCEPT !.pc = pc, !.conn = k] = [r1 EXCEPT !.conn = k]
    BY <1>7
  <2> QED
    BY <2>1, <1>3, <1>4
<1>9. [g EXCEPT !.pc = pc, !.out = out] = r3
  <2>1. [g EXCEPT !.pc = pc, !.out = out] = [r1 EXCEPT !.out = out]
    BY <1>7
  <2> QED
    BY <2>1, <1>3, <1>5
<1>10. [g EXCEPT !.pc = pc, !.conn = k, !.out = out] = r4
  <2>1. [g EXCEPT !.pc = pc, !.conn = k, !.out = out] = [r2 EXCEPT !.out = out]
    BY <1>8
  <2> QED
    BY <2>1, <1>4, <1>6
<1>11. [g EXCEPT !.client = First, !.pc = pc] = r1
  <2>1. [g EXCEPT !.client = First] = g
    BY <1>1
  <2>2. [g EXCEPT !.client = First, !.pc = pc] = [g EXCEPT !.pc = pc]
    BY <2>1
  <2> QED
    BY <2>2, <1>7
<1>12. /\ r1 = NewRoutine(kind, First, pc, n, o) /\ r2 = NewRoutine(kind, First, pc, k, o)
       /\ r3 = NewRoutine(kind, First, pc, n, out) /\ r4 = NewRoutine(kind, First, pc, k, out)
  BY <1>3, <1>4, <1>5, <1>6 DEF NewRoutine
<1>13. /\ Looks(r1, kind, pc, n, o) /\ Looks(r2, kind, pc, k, o)
       /\ Looks(r3, kind, pc, n, out) /\ Looks(r4, kind, pc, k, out)
  BY <1>12, LooksNew
<1>14. /\ Looks(r1, g.kind, pc, g.conn, g.out) /\ Looks(r2, g.kind, pc, k, g.out)
       /\ Looks(r3, g.kind, pc, g.conn, out) /\ Looks(r4, g.kind, pc, k, out)
  BY <1>2, <1>13
<1>15. Looks([g EXCEPT !.pc = pc], g.kind, pc, g.conn, g.out)
  BY <1>7, <1>14
<1>16. Looks([g EXCEPT !.pc = pc, !.conn = k], g.kind, pc, k, g.out)
  BY <1>8, <1>14
<1>17. Looks([g EXCEPT !.pc = pc, !.out = out], g.kind, pc, g.conn, out)
  BY <1>9, <1>14
<1>18. Looks([g EXCEPT !.pc = pc, !.conn = k, !.out = out], g.kind, pc, k, out)
  BY <1>10, <1>14
<1>19. Looks([g EXCEPT !.client = First, !.pc = pc], g.kind, pc, g.conn, g.out)
  BY <1>11, <1>14
<1> QED
  BY <1>15, <1>16, <1>17, <1>18, <1>19

\* The goroutines after g has made way for those of `next`.  One that is alone
\* of its kind is gone.
Turns(g, next) ==
    /\ IsABag(go)' /\ Singles'
    /\ Routines' \subseteq Routines \cup next /\ next \subseteq Routines'
    /\ \A h \in Routines : h # g => h \in Routines'
    /\ g.kind \in Alone /\ g \notin next => g \notin Routines'

\* A step that puts goroutines of other kinds, or one of the same, in the place of
\* one that is alone keeps every kind of them to one.
LEMMA TurnOver ==
  ASSUME IsABag(go), Singles, NEW g \in Routines, NEW next, Continues(g, next),
         \A r \in next : r.kind \in Alone => r.kind = g.kind,
         \A r, s \in next : r.kind \in Alone /\ s.kind = r.kind => r = s
  PROVE  Turns(g, next)
<1>1. PICK D : D = go'
  OBVIOUS
<1>2. g \in DOMAIN go /\ MakesWay(go, g, next, D)
  BY <1>1, BagStep DEF Routines, BagToSet, Continues
<1>3. \A h \in DOMAIN go : go[h] \in Nat /\ go[h] > 0
  BY DEF IsABag
<1>4. Routines = DOMAIN go /\ Routines' = DOMAIN D
  BY <1>1 DEF Routines, BagToSet
<1>5. g.kind \in Alone => go[g] = 1
  BY DEF Singles
<1>6. g.kind \in Alone /\ g \notin next => g \notin Routines'
  BY <1>2, <1>4, <1>5 DEF MakesWay
<1>7. /\ Routines' \subseteq Routines \cup next /\ next \subseteq Routines'
      /\ \A h \in Routines : h # g => h \in Routines'
  BY <1>2, <1>4 DEF MakesWay
<1>8. ASSUME NEW h \in Routines', NEW k \in Routines', h.kind \in Alone, h.kind = k.kind
      PROVE  h = k /\ D[h] = 1
  <2>1. CASE g.kind = h.kind
    <3>1. \A x \in Routines' : x.kind = g.kind => x \in next
      BY <1>6, <1>7, <1>8, <2>1 DEF Singles
    <3>2. h \in next /\ k \in next /\ h = k
      BY <1>8, <2>1, <3>1
    <3>3. h # g => h \notin Routines
      BY <1>8, <2>1 DEF Singles
    <3>4. D[h] = 1
      BY <1>2, <1>4, <1>5, <1>8, <2>1, <3>2, <3>3 DEF MakesWay
    <3> QED
      BY <3>2, <3>4
  <2>2. CASE g.kind # h.kind
    <3>1. h \notin next /\ k \notin next /\ h # g
      BY <1>8, <2>2
    <3>2. h \in Routines /\ k \in Routines
      BY <1>7, <3>1
    <3>3. h = k /\ go[h] = 1
      BY <1>8, <3>2 DEF Singles
    <3>4. D[h] = 1
      BY <1>2, <1>4, <3>1, <3>2, <3>3 DEF MakesWay
    <3> QED
      BY <3>3, <3>4
  <2> QED
    BY <2>1, <2>2
<1>9. Singles'
  BY <1>1, <1>8 DEF Singles
<1> QED
  BY <1>1, <1>2, <1>6, <1>7, <1>9 DEF Turns, MakesWay

\* The goroutines after one more has started.
Joins(r) ==
    /\ IsABag(go)' /\ Singles' /\ Routines' = Routines \cup {r}

\* The first of a kind may start.
LEMMA JoinIn ==
  ASSUME IsABag(go), Singles, NEW r, go' = go (+) SetToBag({r}),
         \A h \in Routines : h.kind = r.kind => r.kind \notin Alone
  PROVE  Joins(r)
<1>1. PICK D : D = go'
  OBVIOUS
<1>2. Gains(go, {r}, D)
  BY <1>1, BagGains
<1>3. Routines = DOMAIN go /\ Routines' = DOMAIN D
  BY <1>1 DEF Routines, BagToSet
<1>4. ASSUME NEW h \in Routines', NEW k \in Routines', h.kind \in Alone, h.kind = k.kind
      PROVE  h = k /\ D[h] = 1
  <2>1. CASE h.kind = r.kind
    <3>1. h = r /\ k = r /\ r \notin Routines
      BY <1>2, <1>3, <1>4, <2>1 DEF Gains
    <3> QED
      BY <1>2, <1>3, <3>1 DEF Gains
  <2>2. CASE h.kind # r.kind
    <3>1. h \in Routines /\ k \in Routines /\ h # r
      BY <1>2, <1>3, <1>4, <2>2 DEF Gains
    <3>2. h = k /\ go[h] = 1
      BY <1>4, <3>1 DEF Singles
    <3> QED
      BY <1>2, <1>3, <3>1, <3>2 DEF Gains
  <2> QED
    BY <2>1, <2>2
<1>5. Singles'
  BY <1>1, <1>4 DEF Singles
<1> QED
  BY <1>1, <1>2, <1>3, <1>5 DEF Joins, Gains

Smaller == {p \in Nat \X Nat : p[1] < p[2]}

\* A Dial finds the least of the connections nothing holds.
LEMMA LeastNumber ==
  ASSUME NEW T, T \subseteq Nat, T # {}
  PROVE  \E x \in T : \A y \in T : x <= y
<1>1. IsWellFoundedOn(Smaller, Nat)
  BY NatLessThanWellFounded, Zenon DEF OpToRel, Smaller
<1>2. \E x \in T : \A y \in T : ~ (<<y, x>> \in Smaller)
  BY <1>1, WFMin, Zenon
<1>3. PICK x \in T : \A y \in T : ~ (<<y, x>> \in Smaller)
  BY <1>2
<1>4. ASSUME NEW y \in T PROVE x <= y
  <2>1. <<y, x>> \in Nat \X Nat /\ <<y, x>>[1] = y /\ <<y, x>>[2] = x
    OBVIOUS
  <2>2. y < x => <<y, x>> \in Smaller
    BY <2>1 DEF Smaller
  <2> QED
    BY <1>3, <2>2
<1> QED
  BY <1>4

\* No connection has the number of none.
LEMMA NoSocketIsNone == NoSocket \notin Socket /\ \A k \in Socket : k \in Nat
  BY WsClientAssumption DEF NoSocket

\* The connections whose inbox or state changes, one at a time.
LEMMA SockConsumed ==
  ASSUME sock \in SockType, NEW k \in Socket, sock[k].inbox # <<>>, sock' = Consumed(k)
  PROVE  /\ sock' \in SockType
         /\ \A j \in Socket : j # k => sock'[j] = sock[j]
         /\ sock'[k].state = sock[k].state /\ sock'[k].inbox = Tail(sock[k].inbox)
<1>1. PICK s : s = sock[k]
  OBVIOUS
<1>2. /\ s.state \in {"open", "closed"} /\ s.inbox \in Seq(Words)
      /\ s = [state |-> s.state, inbox |-> s.inbox]
  BY <1>1 DEF SockType
<1>3. PICK t : t = [s EXCEPT !.inbox = Tail(s.inbox)]
  OBVIOUS
<1>4. t = [state |-> s.state, inbox |-> Tail(s.inbox)]
  BY <1>2, <1>3
<1>6. Tail(s.inbox) \in Seq(Words)
  BY <1>1, <1>2
<1>5. sock' = [sock EXCEPT ![k] = t]
  BY <1>1, <1>3 DEF Consumed
<1>7. /\ t \in [state : {"open", "closed"}, inbox : Seq(Words)]
      /\ t.state = s.state /\ t.inbox = Tail(s.inbox)
  BY <1>2, <1>4, <1>6
<1>8. sock' \in SockType
  BY <1>5, <1>7 DEF SockType
<1>9. sock'[k] = t /\ \A j \in Socket : j # k => sock'[j] = sock[j]
  BY <1>5 DEF SockType
<1> QED
  BY <1>1, <1>7, <1>8, <1>9

\* The same for a message that comes in.
LEMMA SockAppended ==
  ASSUME sock \in SockType, NEW k \in Socket, NEW w \in Words,
         sock' = [sock EXCEPT ![k].inbox = Append(@, w)]
  PROVE  /\ sock' \in SockType
         /\ \A j \in Socket : j # k => sock'[j] = sock[j]
         /\ sock'[k].state = sock[k].state /\ sock'[k].inbox = Append(sock[k].inbox, w)
<1>1. PICK s : s = sock[k]
  OBVIOUS
<1>2. /\ s.state \in {"open", "closed"} /\ s.inbox \in Seq(Words)
      /\ s = [state |-> s.state, inbox |-> s.inbox]
  BY <1>1 DEF SockType
<1>3. PICK t : t = [s EXCEPT !.inbox = Append(s.inbox, w)]
  OBVIOUS
<1>4. t = [state |-> s.state, inbox |-> Append(s.inbox, w)]
  BY <1>2, <1>3
<1>6. Append(s.inbox, w) \in Seq(Words)
  BY <1>2
<1>5. sock' = [sock EXCEPT ![k] = t]
  BY <1>1, <1>3
<1>7. /\ t \in [state : {"open", "closed"}, inbox : Seq(Words)]
      /\ t.state = s.state /\ t.inbox = Append(s.inbox, w)
  BY <1>2, <1>4, <1>6
<1>8. sock' \in SockType
  BY <1>5, <1>7 DEF SockType
<1>9. sock'[k] = t /\ \A j \in Socket : j # k => sock'[j] = sock[j]
  BY <1>5 DEF SockType
<1> QED
  BY <1>1, <1>7, <1>8, <1>9

\* And for a connection that is closed.
LEMMA SockShut ==
  ASSUME sock \in SockType, NEW k \in Socket \cup {NoSocket}
  PROVE  /\ Shut(sock, k) \in SockType
         /\ \A j \in Socket : j # k => Shut(sock, k)[j] = sock[j]
         /\ k \in Socket => Shut(sock, k)[k].state = "closed" /\ Shut(sock, k)[k].inbox = <<>>
  BY NoSocketIsNone DEF Shut, SockType

\* Someone is alone of its kind, and a connect and a send are never both there.
LEMMA OneShakes ==
  ASSUME CalmInv, NEW g \in Routines, NEW h \in Routines, Dialing(g), Dialing(h)
  PROVE  g = h
<1>1. g.kind \in Alone /\ h.kind \in Alone
  BY DEF CalmInv, Places, CalmRoutine, Dialing, Shakes, Alone
<1>2. g.kind = h.kind
  BY <1>1 DEF CalmInv, FirstConnects, FirstConnect, NoneSent, Alone
<1> QED
  BY <1>1, <1>2 DEF CalmInv, Singles

\* Goroutine g goes on as r.
GoesOnAs(g, r) ==
    /\ IsABag(go)' /\ Singles' /\ r \in Routines'
    /\ \A h \in Routines' : h = r \/ h \in Routines
    /\ \A h \in Routines : h # g => h \in Routines'
    /\ g.kind \in Alone /\ r # g => g \notin Routines'

\* One goroutine in the place of g.
LEMMA OneForOne ==
  ASSUME CalmInv, IsABag(go), NEW g \in Routines, NEW r, Continues(g, {r}),
         r.kind \in Alone => r.kind = g.kind
  PROVE  GoesOnAs(g, r)
<1>1. PICK next : next = {r}
  OBVIOUS
<1>2. Turns(g, next)
  BY <1>1, TurnOver DEF CalmInv
<1> QED
  BY <1>1, <1>2 DEF Turns, GoesOnAs

\* Goroutine g ends.
Leaves(g) ==
    /\ IsABag(go)' /\ Singles'
    /\ \A h \in Routines' : h \in Routines
    /\ \A h \in Routines : h # g => h \in Routines'
    /\ g.kind \in Alone => g \notin Routines'

\* None in the place of g.
LEMMA OneForNone ==
  ASSUME CalmInv, IsABag(go), NEW g \in Routines, Continues(g, {})
  PROVE  Leaves(g)
<1>1. PICK next : next = {}
  OBVIOUS
<1>2. Turns(g, next)
  BY <1>1, TurnOver DEF CalmInv
<1> QED
  BY <1>1, <1>2 DEF Turns, Leaves

\* Goroutine g starts goroutine l and goes on as r.
GoesOnWith(g, r, l) ==
    /\ IsABag(go)' /\ Singles' /\ r \in Routines' /\ l \in Routines'
    /\ \A h \in Routines' : h = r \/ h = l \/ h \in Routines
    /\ \A h \in Routines : h # g => h \in Routines'
    /\ g.kind \in Alone /\ r # g /\ l # g => g \notin Routines'

\* Two in the place of g.
LEMMA OneForTwo ==
  ASSUME CalmInv, IsABag(go), NEW g \in Routines, NEW r, NEW l, Continues(g, {r, l}),
         r.kind \in Alone => r.kind = g.kind, l.kind \notin Alone
  PROVE  GoesOnWith(g, r, l)
<1>1. PICK next : next = {r, l}
  OBVIOUS
<1>2. Turns(g, next)
  BY <1>1, TurnOver DEF CalmInv
<1> QED
  BY <1>1, <1>2 DEF Turns, GoesOnWith

\* Connect reads the challenge.
LEMMA CalmReadChallenge ==
  ASSUME CalmInv, IsABag(go), NEW g \in Routines, ReadChallenge(g), UNCHANGED uiVars
  PROVE  IsABag(go)' /\ CalmInv'
<1>1. CalmRoutine(g) /\ Dialing(g) /\ Shakes(g) /\ g.conn \in Socket /\ g.kind \in Alone
  BY DEF CalmInv, Places, CalmRoutine, ReadChallenge, Dialing, Shakes, Alone
<1>2. PICK r : r = [g EXCEPT !.pc = "subscribe"]
  OBVIOUS
<1>3. Looks(r, g.kind, "subscribe", g.conn, g.out)
  BY <1>1, <1>2, LooksOn, Zenon DEF CalmRoutine
<1>4. GoesOnAs(g, r)
  BY <1>2, <1>3, OneForOne, Zenon DEF ReadChallenge, Looks
<1>5. /\ g \notin Routines' /\ r \in Routines'
      /\ \A h \in Routines' : h = r \/ h \in Routines
      /\ \A h \in Routines : h # g => h \in Routines'
  BY <1>1, <1>3, <1>4 DEF GoesOnAs, Looks, ReadChallenge
<1>6. \A h \in Routines : Dialing(h) => h = g
  BY <1>1, OneShakes
<1>7. Undisturbed(g)
  BY <1>1 DEF CalmInv, Handshakes, HandshakeSound, ReadChallenge, Reads
<1>8. sock \in SockType /\ sock[g.conn].inbox = <<"challenge">> /\ sock' = Consumed(g.conn)
  BY <1>7 DEF CalmInv, CalmTypes, SockType, ReadChallenge, Undisturbed
<1>9. <<"challenge">> # <<>> /\ Tail(<<"challenge">>) = <<>>
  OBVIOUS
<1>10. /\ sock' \in SockType /\ \A j \in Socket : j # g.conn => sock'[j] = sock[j]
       /\ sock'[g.conn].state = sock[g.conn].state /\ sock'[g.conn].inbox = <<>>
  BY <1>1, <1>8, <1>9, SockConsumed
<1>11. UNCHANGED <<spent, conn, closed, shut, events, connecting, connected, idle, sends, client>>
  BY DEF ReadChallenge, uiVars
<1>12. \A h \in Routines' : h.kind = "loop" => h \in Routines
  BY <1>1, <1>3, <1>5 DEF Looks, Alone
<1>13. CalmTypes'
  BY <1>1, <1>3, <1>4, <1>5, <1>6, <1>7, <1>10, <1>11, <1>12 DEF CalmInv, CalmTypes, SockType
<1>14. Places'
  BY <1>1, <1>3, <1>4, <1>5, <1>6, <1>7, <1>10, <1>11, <1>12
     DEF CalmInv, Places, CalmRoutine, Looks, Dialing, Shakes
<1>15. CurrentIsOpen'
  BY <1>1, <1>3, <1>4, <1>5, <1>6, <1>7, <1>10, <1>11, <1>12
     DEF CalmInv, CurrentIsOpen, IsOpen, Undisturbed
<1>16. Handshakes'
  <2>1. \A h \in Routines' : Shakes(h) => h = r
    BY <1>5, <1>6 DEF Shakes, Dialing
  <2>2. r.pc = "subscribe" /\ r.conn = g.conn
    BY <1>3 DEF Looks
  <2>3. g.conn \notin spent /\ conn[First] = g.conn /\ IsOpen(g.conn)
    BY <1>7 DEF Undisturbed, ReadChallenge
  <2>4. Undisturbed(r)'
    BY <1>10, <1>11, <2>2, <2>3 DEF Undisturbed, IsOpen
  <2> QED
    BY <2>1, <2>4 DEF Handshakes, HandshakeSound
<1>17. OwnSockets'
  BY <1>1, <1>3, <1>4, <1>5, <1>6, <1>7, <1>10, <1>11, <1>12
     DEF CalmInv, OwnSockets, Looks, Dialing, Shakes, Alone
<1>18. QuietWhileDialing'
  BY <1>1, <1>3, <1>4, <1>5, <1>6, <1>7, <1>10, <1>11, <1>12
     DEF CalmInv, QuietWhileDialing, LoopsAreQuiet, Quiet, IsOpen, Looks, Dialing, Shakes,
         Places, CalmRoutine
<1>19. QuietWhenIdle'
  BY <1>1, <1>3, <1>4, <1>5, <1>6, <1>7, <1>10, <1>11, <1>12
     DEF CalmInv, QuietWhenIdle, LoopsAreQuiet, Quiet, IsOpen, Looks, Dialing, Shakes, Places,
         CalmRoutine
<1>20. FirstConnects'
  BY <1>1, <1>3, <1>4, <1>5, <1>6, <1>7, <1>10, <1>11, <1>12
     DEF CalmInv, FirstConnects, FirstConnect, NoneSent, Singles, Looks, Dialing, Shakes, Alone,
         IsOpen, Undisturbed
<1>21. NoneSent'
  BY <1>1, <1>3, <1>4, <1>5, <1>6, <1>7, <1>10, <1>11, <1>12 DEF CalmInv, NoneSent, Looks, Alone
<1>22. SomeoneWaits'
  BY <1>1, <1>3, <1>4, <1>5, <1>6, <1>7, <1>10, <1>11, <1>12 DEF CalmInv, SomeoneWaits, Looks
<1>23. IdleIsSettled'
  BY <1>1, <1>3, <1>4, <1>5, <1>6, <1>7, <1>10, <1>11, <1>12 DEF CalmInv, IdleIsSettled
<1> QED
  BY <1>4, <1>13, <1>14, <1>15, <1>16, <1>17, <1>18, <1>19, <1>20, <1>21, <1>22, <1>23
     DEF CalmInv, GoesOnAs, Leaves

\* Connect writes its subscription to the connection it dialed: c.conn is no
\* other.
LEMMA CalmWriteSubscribe ==
  ASSUME CalmInv, IsABag(go), NEW g \in Routines, WriteSubscribe(g), UNCHANGED uiVars
  PROVE  IsABag(go)' /\ CalmInv'
<1>1. CalmRoutine(g) /\ Dialing(g) /\ Shakes(g) /\ g.conn \in Socket /\ g.kind \in Alone
  BY DEF CalmInv, Places, CalmRoutine, WriteSubscribe, CanSubscribe, Dialing, Shakes, Alone
<1>2. PICK r : r = [g EXCEPT !.pc = "ack"]
  OBVIOUS
<1>3. Looks(r, g.kind, "ack", g.conn, g.out)
  BY <1>1, <1>2, LooksOn, Zenon DEF CalmRoutine
<1>4. Continues(g, {[g EXCEPT !.pc = "ack"]})
  BY DEF WriteSubscribe
<1>5. GoesOnAs(g, r)
  BY <1>2, <1>3, <1>4, OneForOne, Zenon DEF Looks
<1>6. /\ g \notin Routines' /\ r \in Routines'
      /\ \A h \in Routines' : h = r \/ h \in Routines
      /\ \A h \in Routines : h # g => h \in Routines'
  BY <1>1, <1>3, <1>5 DEF GoesOnAs, Looks, WriteSubscribe, CanSubscribe
<1>7. \A h \in Routines : Dialing(h) => h = g
  BY <1>1, OneShakes
<1>8. Undisturbed(g)
  BY <1>1, NoSocketIsNone
     DEF CalmInv, CalmRoutine, Handshakes, HandshakeSound, WriteSubscribe, CanSubscribe, IsOpen
<1>9. /\ sock \in SockType /\ sock[g.conn].inbox = <<>> /\ conn[First] = g.conn
      /\ g.conn \notin spent /\ g.client = First
  BY <1>1, <1>8
     DEF CalmInv, CalmTypes, CalmRoutine, SockType, WriteSubscribe, CanSubscribe, Undisturbed
<1>25. sock' = [sock EXCEPT ![g.conn].inbox = @ \o <<"ack">>]
  BY <1>9 DEF WriteSubscribe, Answers, ProofIsGood
<1>26. sock[g.conn].inbox \o <<"ack">> = Append(sock[g.conn].inbox, "ack")
  BY <1>9
<1>27. sock' = [sock EXCEPT ![g.conn].inbox = Append(@, "ack")]
  BY <1>25, <1>26
<1>10. "ack" \in Words /\ Append(<<>>, "ack") = <<"ack">>
  BY DEF Words
<1>11. /\ sock' \in SockType /\ \A j \in Socket : j # g.conn => sock'[j] = sock[j]
       /\ sock'[g.conn].state = sock[g.conn].state /\ sock'[g.conn].inbox = <<"ack">>
  BY <1>1, <1>9, <1>10, <1>27, SockAppended
<1>12. UNCHANGED <<conn, closed, shut, events, connecting, connected, idle, sends, client>>
  BY DEF WriteSubscribe, uiVars
<1>13. \A h \in Routines' : h.kind = "loop" => h \in Routines
  BY <1>1, <1>3, <1>6 DEF Looks, Alone
<1>14. CalmTypes'
  BY <1>1, <1>3, <1>5, <1>6, <1>7, <1>8, <1>11, <1>12, <1>13 DEF CalmInv, CalmTypes, SockType
<1>15. Places'
  BY <1>1, <1>3, <1>5, <1>6, <1>7, <1>8, <1>11, <1>12, <1>13
     DEF CalmInv, Places, CalmRoutine, Looks, Dialing, Shakes
<1>16. CurrentIsOpen'
  BY <1>1, <1>3, <1>5, <1>6, <1>7, <1>8, <1>11, <1>12, <1>13
     DEF CalmInv, CurrentIsOpen, IsOpen, Undisturbed
<1>17. Handshakes'
  BY <1>1, <1>3, <1>5, <1>6, <1>7, <1>8, <1>11, <1>12, <1>13
     DEF CalmInv, Handshakes, HandshakeSound, Undisturbed, IsOpen, Looks, Dialing, Shakes
<1>18. OwnSockets'
  BY <1>1, <1>3, <1>5, <1>6, <1>7, <1>8, <1>11, <1>12, <1>13
     DEF CalmInv, OwnSockets, Looks, Dialing, Shakes, Alone
<1>19. QuietWhileDialing'
  BY <1>1, <1>3, <1>5, <1>6, <1>7, <1>8, <1>11, <1>12, <1>13
     DEF CalmInv, QuietWhileDialing, LoopsAreQuiet, Quiet, IsOpen, Looks, Dialing, Shakes,
         Places, CalmRoutine, OwnSockets
<1>20. QuietWhenIdle'
  BY <1>1, <1>3, <1>5, <1>6, <1>7, <1>8, <1>11, <1>12, <1>13
     DEF CalmInv, QuietWhenIdle, LoopsAreQuiet, Quiet, IsOpen, Looks, Dialing, Shakes, Places,
         CalmRoutine, OwnSockets
<1>21. FirstConnects'
  BY <1>1, <1>3, <1>5, <1>6, <1>7, <1>8, <1>11, <1>12, <1>13
     DEF CalmInv, FirstConnects, FirstConnect, NoneSent, Singles, Looks, Dialing, Shakes, Alone,
         IsOpen, Undisturbed
<1>22. NoneSent'
  BY <1>1, <1>3, <1>5, <1>6, <1>7, <1>8, <1>11, <1>12, <1>13 DEF CalmInv, NoneSent, Looks, Alone
<1>23. SomeoneWaits'
  BY <1>1, <1>3, <1>5, <1>6, <1>7, <1>8, <1>11, <1>12, <1>13 DEF CalmInv, SomeoneWaits, Looks
<1>24. IdleIsSettled'
  BY <1>1, <1>3, <1>5, <1>6, <1>7, <1>8, <1>11, <1>12, <1>13 DEF CalmInv, IdleIsSettled
<1> QED
  BY <1>5, <1>14, <1>15, <1>16, <1>17, <1>18, <1>19, <1>20, <1>21, <1>22, <1>23, <1>24
     DEF CalmInv, GoesOnAs, Leaves

\* Connect reads the ack of its subscription and starts a read loop.
LEMMA CalmReadSubscribeAck ==
  ASSUME CalmInv, IsABag(go), NEW g \in Routines, ReadSubscribeAck(g), UNCHANGED uiVars
  PROVE  IsABag(go)' /\ CalmInv'
<1>1. CalmRoutine(g) /\ Dialing(g) /\ Shakes(g) /\ g.conn \in Socket /\ g.kind \in Alone
  BY DEF CalmInv, Places, CalmRoutine, ReadSubscribeAck, Dialing, Shakes, Alone
<1>2. PICK r, l : /\ r = Returned(g, "ok")
                 /\ l = NewRoutine("loop", g.client, "top", NoSocket, "none")
  OBVIOUS
<1>3. Looks(l, "loop", "top", NoSocket, "none")
  BY <1>1, <1>2, LooksNew, Zenon DEF CalmRoutine
<1>4. \/ g.kind = "send" /\ Looks(r, "send", "write", NoSocket, "reconnected")
      \/ g.kind = "connect" /\ Looks(r, "connect", "done", NoSocket, "ok")
  <2>1. CASE g.kind = "send"
    BY <1>1, <1>2, <2>1, LooksNew DEF CalmRoutine, Returned
  <2>2. CASE g.kind = "connect"
    BY <1>1, <1>2, <2>2, LooksNew DEF CalmRoutine, Returned
  <2> QED
    BY <1>1, <2>1, <2>2 DEF Alone
<1>5. Continues(g, {r, l})
  BY <1>2 DEF ReadSubscribeAck
<1>6. GoesOnWith(g, r, l)
  BY <1>3, <1>4, <1>5, OneForTwo DEF Looks, Alone
<1>7. /\ g \notin Routines' /\ r \in Routines' /\ l \in Routines'
      /\ \A h \in Routines' : h = r \/ h = l \/ h \in Routines
      /\ \A h \in Routines : h # g => h \in Routines'
  BY <1>1, <1>3, <1>4, <1>6 DEF GoesOnWith, Looks, ReadSubscribeAck
<1>8. \A h \in Routines : Dialing(h) => h = g
  BY <1>1, OneShakes
<1>9. Undisturbed(g)
  BY <1>1 DEF CalmInv, Handshakes, HandshakeSound, ReadSubscribeAck, Reads
<1>10. sock \in SockType /\ sock[g.conn].inbox = <<"ack">> /\ sock' = Consumed(g.conn)
  BY <1>9 DEF CalmInv, CalmTypes, SockType, ReadSubscribeAck, Undisturbed
<1>11. <<"ack">> # <<>> /\ Tail(<<"ack">>) = <<>>
  OBVIOUS
<1>12. /\ sock' \in SockType /\ \A j \in Socket : j # g.conn => sock'[j] = sock[j]
       /\ sock'[g.conn].state = sock[g.conn].state /\ sock'[g.conn].inbox = <<>>
  BY <1>1, <1>10, <1>11, SockConsumed
<1>13. UNCHANGED <<spent, conn, closed, shut, events, connecting, connected, idle, sends, client>>
  BY DEF ReadSubscribeAck, uiVars
<1>14. \A h \in Routines' : ~Dialing(h)
  BY <1>3, <1>4, <1>7, <1>8 DEF Looks, Dialing, Shakes
<1>15. g.kind = "send" => sends # MaxSends
  BY DEF CalmInv, NoneSent
<1>16. CalmTypes'
  BY <1>1, <1>3, <1>4, <1>6, <1>7, <1>8, <1>9, <1>12, <1>13, <1>14, <1>15
     DEF CalmInv, CalmTypes, SockType
<1>17. Places'
  BY <1>1, <1>3, <1>4, <1>6, <1>7, <1>8, <1>9, <1>12, <1>13, <1>14, <1>15
     DEF CalmInv, Places, CalmRoutine, Looks, Dialing, Shakes
<1>18. CurrentIsOpen'
  BY <1>1, <1>3, <1>4, <1>6, <1>7, <1>8, <1>9, <1>12, <1>13, <1>14, <1>15
     DEF CalmInv, CurrentIsOpen, IsOpen, Undisturbed
<1>19. Handshakes'
  BY <1>14 DEF Handshakes, Dialing
<1>20. OwnSockets'
  BY <1>14 DEF OwnSockets, Dialing
<1>21. QuietWhileDialing'
  BY <1>14 DEF QuietWhileDialing
<1>22. QuietWhenIdle'
  BY <1>1, <1>3, <1>4, <1>7, <1>13, <1>15
     DEF CalmInv, QuietWhenIdle, FirstConnects, FirstConnect, Singles, Looks, Alone
<1>23. FirstConnects'
  BY <1>1, <1>3, <1>4, <1>6, <1>7, <1>8, <1>9, <1>12, <1>13, <1>14, <1>15
     DEF CalmInv, FirstConnects, FirstConnect, NoneSent, Singles, Looks, Dialing, Shakes, Alone,
         IsOpen, Undisturbed
<1>24. NoneSent'
  BY <1>1, <1>3, <1>4, <1>6, <1>7, <1>8, <1>9, <1>12, <1>13, <1>14, <1>15
     DEF CalmInv, NoneSent, Looks, Alone
<1>25. SomeoneWaits'
  BY <1>1, <1>3, <1>4, <1>6, <1>7, <1>8, <1>9, <1>12, <1>13, <1>14, <1>15
     DEF CalmInv, SomeoneWaits, Looks
<1>26. IdleIsSettled'
  BY <1>1, <1>3, <1>4, <1>6, <1>7, <1>8, <1>9, <1>12, <1>13, <1>14, <1>15
     DEF CalmInv, IdleIsSettled
<1> QED
  BY <1>6, <1>16, <1>17, <1>18, <1>19, <1>20, <1>21, <1>22, <1>23, <1>24, <1>25, <1>26
     DEF CalmInv, GoesOnWith

\* A step that leaves connections alone, puts no handshake in the place of g and
\* starts no message to read keeps the invariant.
LEMMA CalmGoesOn ==
  ASSUME CalmInv, NEW g \in Routines, NEW r, GoesOnAs(g, r),
         CalmRoutine(r), ~Shakes(r), r.kind # "connect",
         r.kind = "send" => g.kind = "send", g.kind = "wait" => r.kind = "wait",
         r.kind = "send" /\ (Dialing(r) \/ (idle' /\ r.pc = "start")) => LoopsAreQuiet,
         r.kind = "loop" => /\ g.kind = "loop" /\ (LoopsAreQuiet => Quiet(r))
                            /\ \A h \in Routines : Shakes(h) => r.conn # h.conn,
         \A h \in Routines : h.kind = "connect" /\ h # g =>
             /\ UNCHANGED <<connected, idle, events>>
             /\ r.kind # "idle" /\ (r.kind = "wait" => r.pc = "start")
             /\ r.kind = "loop" => r.pc # "event" /\ (r.pc = "read" => r.conn = conn[First]),
         UNCHANGED <<sock, spent, conn, closed, shut, client, sends>>,
         events' \in [Client -> Seq(News)],
         idle' => idle /\ ~connecting'
  PROVE  IsABag(go)' /\ CalmInv'
<1>1. /\ r \in Routines' /\ \A h \in Routines' : h = r \/ h \in Routines
      /\ \A h \in Routines : h # g => h \in Routines'
      /\ g.kind \in Alone /\ r # g => g \notin Routines'
  BY DEF GoesOnAs
<1>2. CalmTypes'
  BY DEF CalmInv, CalmTypes
<1>3. Places'
  BY <1>1, <1>2 DEF CalmInv, Places, CalmRoutine, CalmTypes, Dialing, Shakes
<1>4. CurrentIsOpen'
  BY DEF CalmInv, CurrentIsOpen, IsOpen
<1>5. Handshakes'
  BY <1>1 DEF CalmInv, Handshakes, HandshakeSound, Undisturbed, IsOpen, Shakes
<1>6. OwnSockets'
  BY <1>1 DEF CalmInv, OwnSockets, Shakes
<1>7. LoopsAreQuiet => LoopsAreQuiet'
  BY <1>1 DEF LoopsAreQuiet, Quiet, IsOpen
<1>8. QuietWhileDialing'
  BY <1>1, <1>7 DEF CalmInv, QuietWhileDialing, Dialing, Shakes
<1>9. QuietWhenIdle'
  BY <1>1, <1>7 DEF CalmInv, QuietWhenIdle
<1>10. FirstConnects'
  <2> SUFFICES ASSUME NEW h \in Routines', h.kind = "connect" PROVE FirstConnect(h)'
    BY DEF FirstConnects
  <2>1. h \in Routines /\ h # g /\ FirstConnect(h)
    BY <1>1 DEF CalmInv, FirstConnects, Alone
  <2> QED
    BY <1>1, <2>1 DEF FirstConnect
<1>11. NoneSent' /\ SomeoneWaits' /\ IdleIsSettled'
  BY <1>1 DEF CalmInv, NoneSent, SomeoneWaits, IdleIsSettled
<1> QED
  BY <1>2, <1>3, <1>4, <1>5, <1>6, <1>8, <1>9, <1>10, <1>11 DEF CalmInv, GoesOnAs

\* So does the end of a goroutine that is not the wait.
LEMMA CalmLeaves ==
  ASSUME CalmInv, NEW g \in Routines, Leaves(g), g.kind # "wait",
         \A h \in Routines : h.kind = "connect" /\ h # g => UNCHANGED <<connected, idle>>,
         UNCHANGED <<sock, spent, conn, closed, shut, events, client, sends>>,
         idle' => idle /\ ~connecting'
  PROVE  IsABag(go)' /\ CalmInv'
<1>1. /\ \A h \in Routines' : h \in Routines
      /\ \A h \in Routines : h # g => h \in Routines'
      /\ g.kind \in Alone => g \notin Routines'
  BY DEF Leaves
<1>2. CalmTypes'
  BY DEF CalmInv, CalmTypes
<1>3. Places'
  BY <1>1 DEF CalmInv, Places, CalmRoutine, Dialing, Shakes
<1>4. CurrentIsOpen'
  BY DEF CalmInv, CurrentIsOpen, IsOpen
<1>5. Handshakes'
  BY <1>1 DEF CalmInv, Handshakes, HandshakeSound, Undisturbed, IsOpen, Shakes
<1>6. OwnSockets'
  BY <1>1 DEF CalmInv, OwnSockets, Shakes
<1>7. LoopsAreQuiet => LoopsAreQuiet'
  BY <1>1 DEF LoopsAreQuiet, Quiet, IsOpen
<1>8. QuietWhileDialing'
  BY <1>1, <1>7 DEF CalmInv, QuietWhileDialing, Dialing, Shakes
<1>9. QuietWhenIdle'
  BY <1>1, <1>7 DEF CalmInv, QuietWhenIdle
<1>10. FirstConnects'
  <2> SUFFICES ASSUME NEW h \in Routines', h.kind = "connect" PROVE FirstConnect(h)'
    BY DEF FirstConnects
  <2>1. h \in Routines /\ h # g /\ FirstConnect(h)
    BY <1>1 DEF CalmInv, FirstConnects, Alone
  <2> QED
    BY <1>1, <2>1 DEF FirstConnect
<1>11. NoneSent' /\ SomeoneWaits' /\ IdleIsSettled'
  BY <1>1 DEF CalmInv, NoneSent, SomeoneWaits, IdleIsSettled
<1> QED
  BY <1>2, <1>3, <1>4, <1>5, <1>6, <1>8, <1>9, <1>10, <1>11 DEF CalmInv, Leaves

\* A read loop takes the current connection only when nobody dials.
LEMMA CalmLoopTop ==
  ASSUME CalmInv, IsABag(go), NEW g \in Routines, LoopTop(g), UNCHANGED uiVars
  PROVE  IsABag(go)' /\ CalmInv'
<1>1. /\ CalmRoutine(g) /\ g.kind = "loop" /\ g.pc = "top"
      /\ ~closed[g.client] /\ g.client = First
      /\ UNCHANGED <<sock, spent, conn, closed, shut, events>>
      /\ UNCHANGED <<client, sends, idle, connecting, connected>>
  BY DEF CalmInv, CalmTypes, Places, CalmRoutine, LoopTop, uiVars
<1>2. events' \in [Client -> Seq(News)] /\ (idle' => idle /\ ~connecting')
  BY <1>1 DEF CalmInv, CalmTypes, IdleIsSettled
<1>3. CASE conn[First] = NoSocket
  <2>1. Leaves(g)
    BY <1>1, <1>3, OneForNone DEF LoopTop
  <2> QED
    BY <1>1, <1>2, <2>1, CalmLeaves
<1>4. CASE conn[First] # NoSocket
  <2>1. PICK r : r = [g EXCEPT !.pc = "read", !.conn = conn[First]]
    OBVIOUS
  <2>2. Looks(r, "loop", "read", conn[First], g.out)
    BY <1>1, <2>1, LooksOn, Zenon DEF CalmRoutine
  <2>3. Continues(g, {r})
    BY <1>1, <1>4, <2>1 DEF LoopTop
  <2>4. GoesOnAs(g, r)
    BY <2>2, <2>3, OneForOne DEF Looks, Alone
  <2>5. conn[First] \in Socket
    BY <1>4, ChatConnectionAssumption DEF CalmInv, CalmTypes
  <2>6. CalmRoutine(r) /\ ~Shakes(r) /\ ~Dialing(r)
    BY <2>2, <2>5 DEF Looks, CalmRoutine, Shakes, Dialing
  <2>7. ~LoopsAreQuiet
    BY <1>1 DEF LoopsAreQuiet, Quiet
  <2>8. \A h \in Routines : ~Shakes(h)
    BY <1>1, <2>7 DEF CalmInv, Places, CalmRoutine, QuietWhileDialing, FirstConnects,
                      FirstConnect, Shakes, Dialing
  <2>9. \A h \in Routines : h.kind = "connect" /\ h # g => UNCHANGED <<connected, idle, events>>
    BY <1>1
  <2>10. r.kind = "loop" /\ r.pc = "read" /\ r.conn = conn[First]
    BY <2>2 DEF Looks
  <2> QED
    BY <1>1, <1>2, <2>4, <2>6, <2>7, <2>8, <2>9, <2>10, CalmGoesOn
<1> QED
  BY <1>3, <1>4

\* A read loop whose connection is closed ends silently: c.conn is another.
LEMMA CalmLoopFails ==
  ASSUME CalmInv, IsABag(go), NEW g \in Routines, LoopFails(g), UNCHANGED uiVars
  PROVE  IsABag(go)' /\ CalmInv'
<1>1. CalmRoutine(g) /\ g.kind = "loop" /\ g.client = First /\ g.conn \in Socket
  BY DEF CalmInv, Places, CalmRoutine, LoopFails
<1>2. conn[First] # g.conn
  BY <1>1, NoSocketIsNone DEF CalmInv, CurrentIsOpen, LoopFails
<1>3. Continues(g, {})
  BY <1>1, <1>2 DEF LoopFails
<1>4. UNCHANGED conn
  BY <1>1, <1>2 DEF CalmInv, CalmTypes, LoopFails
<1>5. UNCHANGED <<sock, spent, closed, shut, events, client, sends, idle, connecting, connected>>
  BY DEF LoopFails, uiVars
<1>6. Leaves(g)
  BY <1>3, OneForNone
<1>7. idle' => idle /\ ~connecting'
  BY <1>5 DEF CalmInv, IdleIsSettled
<1> QED
  BY <1>1, <1>4, <1>5, <1>6, <1>7, CalmLeaves

\* A read loop reports no error, and none while somebody dials.
LEMMA CalmSendEvent ==
  ASSUME CalmInv, IsABag(go), NEW g \in Routines, SendEvent(g), UNCHANGED uiVars
  PROVE  IsABag(go)' /\ CalmInv'
<1>1. /\ CalmRoutine(g) /\ g.kind = "loop" /\ g.pc = "event" /\ g.client = First
      /\ g.out \in News /\ g.out # "err"
  BY DEF CalmInv, Places, CalmRoutine, SendEvent, News
<1>2. UNCHANGED <<sock, spent, conn, closed, shut, client, sends, idle, connecting, connected>>
  BY DEF SendEvent, uiVars
<1>3. PICK r : r = [g EXCEPT !.pc = "top", !.out = "none"]
  OBVIOUS
<1>4. Looks(r, "loop", "top", g.conn, "none")
  BY <1>1, <1>3, LooksOn, Zenon DEF CalmRoutine
<1>5. Continues(g, {r})
  BY <1>1, <1>3 DEF SendEvent
<1>6. GoesOnAs(g, r)
  BY <1>4, <1>5, OneForOne DEF Looks, Alone
<1>7. CalmRoutine(r) /\ ~Shakes(r) /\ ~Dialing(r) /\ r.kind = "loop"
  BY <1>4 DEF Looks, CalmRoutine, Shakes, Dialing
<1>8. events' = [events EXCEPT ![First] = Append(@, g.out)]
  BY <1>1 DEF CalmInv, CalmTypes, SendEvent
<1>9. events' \in [Client -> Seq(News)]
  <2>1. events \in [Client -> Seq(News)] /\ First \in Client
    BY ChatConnectionAssumption DEF CalmInv, CalmTypes
  <2>2. Append(events[First], g.out) \in Seq(News)
    BY <1>1, <2>1
  <2> QED
    BY <1>8, <2>1, <2>2
<1>10. \A h \in Routines : h.kind # "connect" /\ ~Shakes(h)
  <2>1. ~LoopsAreQuiet
    BY <1>1 DEF LoopsAreQuiet, Quiet
  <2>2. \A h \in Routines : h.kind # "connect"
    BY <1>1 DEF CalmInv, FirstConnects, FirstConnect
  <2> QED
    BY <2>1, <2>2 DEF CalmInv, Places, CalmRoutine, QuietWhileDialing, Shakes, Dialing
<1>11. ~LoopsAreQuiet /\ (idle' => idle /\ ~connecting')
  BY <1>1, <1>2 DEF LoopsAreQuiet, Quiet, CalmInv, IdleIsSettled
<1> QED
  BY <1>1, <1>2, <1>6, <1>7, <1>9, <1>10, <1>11, CalmGoesOn

\* A send dials when the window is idle, and then the read loops are quiet.
LEMMA CalmStartSend ==
  ASSUME CalmInv, IsABag(go), NEW g \in Routines, StartSend(g)
  PROVE  IsABag(go)' /\ CalmInv'
<1>1. /\ CalmRoutine(g) /\ g.kind = "send" /\ g.pc = "start" /\ client = First
      /\ UNCHANGED <<sock, spent, conn, closed, shut, events>>
      /\ UNCHANGED <<client, sends, idle, connecting, connected>>
  BY DEF CalmInv, CalmTypes, Places, CalmRoutine, StartSend, uiVars
<1>2. PICK pc : pc = IF idle THEN "dial" ELSE "write"
  OBVIOUS
<1>3. PICK r : r = [g EXCEPT !.client = First, !.pc = pc]
  OBVIOUS
<1>4. Looks(r, "send", pc, g.conn, g.out)
  BY <1>1, <1>3, LooksOn, Zenon DEF CalmRoutine
<1>5. Continues(g, {r})
  BY <1>1, <1>2, <1>3 DEF StartSend
<1>6. GoesOnAs(g, r)
  BY <1>1, <1>4, <1>5, OneForOne DEF Looks
<1>7. CalmRoutine(r) /\ ~Shakes(r) /\ r.kind = "send" /\ (Dialing(r) => idle) /\ r.pc # "start"
  BY <1>2, <1>4 DEF Looks, CalmRoutine, Shakes, Dialing
<1>8. idle => LoopsAreQuiet
  BY <1>1 DEF CalmInv, QuietWhenIdle
<1>9. \A h \in Routines : h.kind # "connect"
  BY <1>1 DEF CalmInv, FirstConnects, FirstConnect, NoneSent
<1>10. events' \in [Client -> Seq(News)] /\ (idle' => idle /\ ~connecting')
  BY <1>1 DEF CalmInv, CalmTypes, IdleIsSettled
<1> QED
  BY <1>1, <1>6, <1>7, <1>8, <1>9, <1>10, CalmGoesOn

\* The wait takes an event that is no error.
LEMMA CalmTakeEvent ==
  ASSUME CalmInv, IsABag(go), NEW g \in Routines, TakeEvent(g)
  PROVE  IsABag(go)' /\ CalmInv'
<1>1. /\ CalmRoutine(g) /\ g.kind = "wait" /\ g.client = First
      /\ UNCHANGED <<sock, spent, conn, closed, shut, client, sends, idle, connecting, connected>>
  BY DEF CalmInv, CalmTypes, Places, CalmRoutine, TakeEvent, uiVars
<1>2. /\ events[First] # <<>> /\ events' = [events EXCEPT ![First] = Tail(@)]
      /\ Continues(g, {[g EXCEPT !.pc = "done", !.out = Head(events[First])]})
  BY <1>1 DEF CalmInv, CalmTypes, TakeEvent
<1>3. events \in [Client -> Seq(News)] /\ First \in Client
  BY ChatConnectionAssumption DEF CalmInv, CalmTypes
<1>4. Head(events[First]) \in News /\ Tail(events[First]) \in Seq(News)
  BY <1>2, <1>3
<1>5. events' \in [Client -> Seq(News)]
  BY <1>2, <1>3, <1>4
<1>6. PICK out : out = Head(events[First])
  OBVIOUS
<1>7. PICK r : r = [g EXCEPT !.pc = "done", !.out = out]
  OBVIOUS
<1>8. Looks(r, "wait", "done", g.conn, out)
  BY <1>1, <1>7, LooksOn, Zenon DEF CalmRoutine
<1>9. Continues(g, {r})
  BY <1>2, <1>6, <1>7
<1>10. GoesOnAs(g, r)
  BY <1>8, <1>9, OneForOne DEF Looks, Alone
<1>11. CalmRoutine(r) /\ ~Shakes(r) /\ r.kind = "wait"
  BY <1>4, <1>6, <1>8 DEF Looks, CalmRoutine, Shakes, Dialing
<1>12. \A h \in Routines : h.kind # "connect"
  BY <1>2 DEF CalmInv, FirstConnects, FirstConnect
<1>13. idle' => idle /\ ~connecting'
  BY <1>1 DEF CalmInv, IdleIsSettled
<1> QED
  BY <1>1, <1>5, <1>10, <1>11, <1>12, <1>13, CalmGoesOn

\* The first connect succeeds, before the window was ever idle.
LEMMA CalmHandleConnectResult ==
  ASSUME CalmInv, IsABag(go), NEW g \in Routines, HandleConnectResult(g)
  PROVE  IsABag(go)' /\ CalmInv' /\ ~idle
<1>1. /\ CalmRoutine(g) /\ g.kind = "connect" /\ g.pc = "done" /\ g.out = "ok"
      /\ g.client = First /\ client = First /\ FirstConnect(g)
      /\ UNCHANGED <<sock, spent, conn, closed, shut, events, client, sends>>
  BY DEF CalmInv, CalmTypes, Places, CalmRoutine, FirstConnects, HandleConnectResult, Dialing,
         Shakes
<1>2. Continues(g, {WaitRoutine(First)}) /\ ~idle' /\ ~idle
  BY <1>1 DEF HandleConnectResult, markConnected, FirstConnect
<1>3. PICK r : r = WaitRoutine(First)
  OBVIOUS
<1>4. Looks(r, "wait", "start", NoSocket, "none")
  BY <1>3, LooksNew, Zenon DEF WaitRoutine
<1>5. GoesOnAs(g, r)
  BY <1>2, <1>3, <1>4, OneForOne DEF Looks, Alone
<1>6. CalmRoutine(r) /\ ~Shakes(r) /\ r.kind = "wait"
  BY <1>4 DEF Looks, CalmRoutine, Shakes, Dialing
<1>7. \A h \in Routines : h.kind = "connect" => h = g
  BY <1>1 DEF CalmInv, Singles, Alone
<1>8. events' \in [Client -> Seq(News)]
  BY <1>1 DEF CalmInv, CalmTypes
<1> QED
  BY <1>1, <1>2, <1>5, <1>6, <1>7, <1>8, CalmGoesOn

\* An event starts the next wait and ends no idle time.
LEMMA CalmHandleEvent ==
  ASSUME CalmInv, IsABag(go), NEW g \in Routines, HandleEvent(g)
  PROVE  IsABag(go)' /\ CalmInv' /\ (idle => idle')
<1>1. /\ CalmRoutine(g) /\ g.kind = "wait" /\ g.pc = "done" /\ g.out # "err"
      /\ g.client = First /\ client = First
      /\ UNCHANGED <<sock, spent, conn, closed, shut, events, client, sends>>
  BY DEF CalmInv, CalmTypes, Places, CalmRoutine, HandleEvent, News
<1>2. Continues(g, {WaitRoutine(First)})
  BY <1>1 DEF HandleEvent
<1>3. (idle' => idle /\ ~connecting') /\ (idle => idle')
  BY <1>1 DEF HandleEvent, markConnected, CalmInv, IdleIsSettled
<1>4. PICK r : r = WaitRoutine(First)
  OBVIOUS
<1>5. Looks(r, "wait", "start", NoSocket, "none")
  BY <1>4, LooksNew, Zenon DEF WaitRoutine
<1>6. GoesOnAs(g, r)
  BY <1>2, <1>4, <1>5, OneForOne DEF Looks, Alone
<1>7. CalmRoutine(r) /\ ~Shakes(r) /\ r.kind = "wait"
  BY <1>5 DEF Looks, CalmRoutine, Shakes, Dialing
<1>8. \A h \in Routines : h.kind # "connect"
  BY <1>1 DEF CalmInv, FirstConnects, FirstConnect
<1>9. events' \in [Client -> Seq(News)]
  BY <1>1 DEF CalmInv, CalmTypes
<1> QED
  BY <1>1, <1>3, <1>6, <1>7, <1>8, <1>9, CalmGoesOn

\* The answer to a send may end the idle time.
LEMMA CalmHandleSendResult ==
  ASSUME CalmInv, IsABag(go), NEW g \in Routines, HandleSendResult(g)
  PROVE  IsABag(go)' /\ CalmInv'
<1>1. /\ CalmRoutine(g) /\ g.kind = "send" /\ Continues(g, {})
      /\ UNCHANGED <<sock, spent, conn, closed, shut, events, client, sends>>
  BY DEF CalmInv, Places, HandleSendResult
<1>2. idle' => idle /\ ~connecting'
  BY DEF HandleSendResult, markConnected, CalmInv, IdleIsSettled
<1>3. Leaves(g)
  BY <1>1, OneForNone
<1>4. \A h \in Routines : h.kind # "connect"
  BY <1>1 DEF CalmInv, FirstConnects, FirstConnect, NoneSent
<1> QED
  BY <1>1, <1>2, <1>3, <1>4, CalmLeaves

\* A handshake fails only after a Disconnect took its connection.
LEMMA CalmHandshakeFails ==
  ASSUME CalmInv, IsABag(go), NEW g \in Routines, HandshakeFails(g), UNCHANGED uiVars
  PROVE  IsABag(go)' /\ CalmInv'
<1>1. CalmRoutine(g) /\ Shakes(g) /\ g.conn \in Socket /\ g.client = First /\ g.kind \in Alone
  BY DEF CalmInv, Places, CalmRoutine, HandshakeFails, Shakes, Dialing, Alone
<1>2. ~Undisturbed(g)
  <2>1. /\ Head(<<"challenge">>) = "challenge" /\ <<"challenge">> # <<>>
        /\ Head(<<"ack">>) = "ack" /\ <<"ack">> # <<>>
    OBVIOUS
  <2> QED
    BY <1>1, <2>1 DEF CalmInv, CalmTypes, HandshakeFails, Undisturbed, Reads
<1>3. g.kind = "send" /\ conn[First] = NoSocket /\ ~IsOpen(g.conn)
  BY <1>1, <1>2 DEF CalmInv, Handshakes, HandshakeSound
<1>4. PICK r : r = Returned(g, "fail")
  OBVIOUS
<1>5. Looks(r, "send", "done", NoSocket, "fail")
  BY <1>1, <1>3, <1>4, LooksNew DEF Returned
<1>6. /\ Continues(g, {r})
      /\ UNCHANGED <<spent, conn, closed, shut, events, client, sends, idle, connecting, connected>>
  BY <1>3, <1>4 DEF HandshakeFails, Reads, uiVars
<1>7. GoesOnAs(g, r)
  BY <1>3, <1>5, <1>6, OneForOne DEF Looks
<1>8. /\ sock' \in SockType /\ \A j \in Socket : j # g.conn => sock'[j] = sock[j]
      /\ sock'[g.conn].state = "closed"
  BY <1>1, SockShut DEF HandshakeFails, CalmInv, CalmTypes, SockType
<1>9. /\ r \in Routines' /\ g \notin Routines' /\ \A h \in Routines' : h = r \/ h \in Routines
      /\ \A h \in Routines : h # g => h \in Routines'
  BY <1>1, <1>5, <1>7 DEF GoesOnAs, Looks, Shakes
<1>10. \A h \in Routines' : ~Dialing(h) /\ h.kind # "connect" /\ (h.kind = "send" => h = r)
  <2>1. \A h \in Routines : h.kind # "connect"
    BY <1>3 DEF CalmInv, FirstConnects, FirstConnect, NoneSent
  <2>2. \A h \in Routines : Dialing(h) => h = g
    BY <1>1, OneShakes DEF Dialing
  <2>3. \A h \in Routines : h.kind = "send" => h = g
    BY <1>3 DEF CalmInv, Singles, Alone
  <2> QED
    BY <1>5, <1>9, <2>1, <2>2, <2>3 DEF Looks, Dialing, Shakes
<1>11. CalmTypes'
  BY <1>6, <1>8 DEF CalmInv, CalmTypes, SockType
<1>12. Places'
  BY <1>5, <1>9 DEF CalmInv, Places, CalmRoutine, Looks, Dialing, Shakes
<1>13. CurrentIsOpen'
  BY <1>3, <1>6 DEF CurrentIsOpen
<1>14. Handshakes' /\ OwnSockets' /\ QuietWhileDialing' /\ FirstConnects'
  BY <1>10 DEF Handshakes, OwnSockets, QuietWhileDialing, FirstConnects, Dialing
<1>15. QuietWhenIdle'
  BY <1>3, <1>5, <1>6, <1>10 DEF QuietWhenIdle, CalmInv, NoneSent, Looks
<1>16. NoneSent' /\ SomeoneWaits' /\ IdleIsSettled'
  BY <1>3, <1>6, <1>9 DEF CalmInv, NoneSent, SomeoneWaits, IdleIsSettled
<1> QED
  BY <1>7, <1>11, <1>12, <1>13, <1>14, <1>15, <1>16 DEF CalmInv, GoesOnAs

\* Connect takes a connection nobody holds; the read loops there are have
\* nothing to read.
LEMMA CalmDial ==
  ASSUME CalmInv, IsABag(go), NEW g \in Routines, Dial(g), UNCHANGED uiVars
  PROVE  IsABag(go)' /\ CalmInv'
<1>1. CalmRoutine(g) /\ g.pc = "dial" /\ Dialing(g) /\ g.client = First /\ g.kind \in Alone
  BY DEF CalmInv, Places, CalmRoutine, Dial, Dials, Dialing, Shakes, Alone
<1>2. PICK k : k = CHOOSE x \in Unused : \A y \in Unused : x <= y
  OBVIOUS
<1>3. k \in Unused
  <2>1. Unused \subseteq Nat /\ Unused # {}
    BY NoSocketIsNone DEF Unused, Dial
  <2> QED
    BY <1>2, <2>1, LeastNumber
<1>4. k \in Socket /\ ~IsOpen(k) /\ k # conn[First] /\ \A h \in Routines : h.conn # k
  BY <1>3, ChatConnectionAssumption DEF Unused, Held
<1>5. PICK r : r = [g EXCEPT !.pc = "challenge", !.conn = k]
  OBVIOUS
<1>6. Looks(r, g.kind, "challenge", k, g.out)
  BY <1>1, <1>5, LooksOn, Zenon DEF CalmRoutine
<1>7. /\ Continues(g, {r}) /\ conn' = [conn EXCEPT ![First] = k]
      /\ sock' = [Shut(sock, conn[First]) EXCEPT
                    ![k] = [state |-> "open", inbox |-> <<"challenge">>]]
      /\ closed' = [closed EXCEPT ![First] = FALSE]
      /\ spent' = spent \ {k}
      /\ UNCHANGED <<shut, events, client, sends, idle, connecting, connected>>
  BY <1>1, <1>2, <1>5 DEF Dial, uiVars
<1>8. GoesOnAs(g, r)
  BY <1>6, <1>7, OneForOne DEF Looks
<1>9. /\ r \in Routines' /\ g \notin Routines' /\ \A h \in Routines' : h = r \/ h \in Routines
      /\ \A h \in Routines : h # g => h \in Routines'
  BY <1>1, <1>6, <1>8 DEF GoesOnAs, Looks
<1>10. \A h \in Routines : Dialing(h) => h = g
  BY <1>1, OneShakes
<1>11. conn \in [Client -> Socket \cup {NoSocket}] /\ First \in Client /\ sock \in SockType
  BY ChatConnectionAssumption DEF CalmInv, CalmTypes, SockType
<1>12. PICK s : s = Shut(sock, conn[First])
  OBVIOUS
<1>13. /\ s \in SockType /\ \A j \in Socket : j # conn[First] => s[j] = sock[j]
       /\ conn[First] \in Socket => s[conn[First]].state = "closed"
  BY <1>11, <1>12, SockShut
<1>14. /\ sock' \in SockType
       /\ sock'[k].state = "open" /\ sock'[k].inbox = <<"challenge">>
       /\ \A j \in Socket : j # k => sock'[j] = sock[j] \/ sock'[j].state = "closed"
  <2>1. PICK t : t = [state |-> "open", inbox |-> <<"challenge">>]
    OBVIOUS
  <2>2. "challenge" \in Words
    BY DEF Words
  <2>3. <<"challenge">> \in Seq(Words)
    BY <2>2
  <2>4. t \in [state : {"open", "closed"}, inbox : Seq(Words)]
    BY <2>1, <2>3
  <2>5. sock' = [s EXCEPT ![k] = t]
    BY <1>7, <1>12, <2>1
  <2>6. sock' \in SockType /\ sock'[k] = t /\ \A j \in Socket : j # k => sock'[j] = s[j]
    BY <1>4, <1>13, <2>4, <2>5 DEF SockType
  <2> QED
    BY <1>13, <2>1, <2>6
<1>15. conn' \in [Client -> Socket \cup {NoSocket}] /\ conn'[First] = k /\ k # NoSocket
  BY <1>4, <1>7, <1>11, NoSocketIsNone
<1>16. CalmTypes'
  BY <1>7, <1>14, <1>15 DEF CalmInv, CalmTypes, SockType
<1>17. Places'
  BY <1>1, <1>4, <1>6, <1>9 DEF CalmInv, Places, CalmRoutine, Looks, Dialing, Shakes
<1>18. CurrentIsOpen'
  BY <1>14, <1>15 DEF CurrentIsOpen, IsOpen
<1>19. Handshakes'
  BY <1>6, <1>7, <1>9, <1>10, <1>14, <1>15
     DEF Handshakes, HandshakeSound, Undisturbed, IsOpen, Looks, Dialing, Shakes
<1>20. OwnSockets'
  BY <1>1, <1>4, <1>6, <1>9, <1>10 DEF OwnSockets, Looks, Dialing, Shakes, Alone
<1>21. LoopsAreQuiet => LoopsAreQuiet'
  <2> SUFFICES ASSUME LoopsAreQuiet, NEW h \in Routines', h.kind = "loop" PROVE Quiet(h)'
    BY DEF LoopsAreQuiet
  <2>1. h \in Routines /\ Quiet(h) /\ h.conn # k
    BY <1>1, <1>4, <1>6, <1>9 DEF LoopsAreQuiet, Looks, Alone
  <2>2. h.conn \in Socket
    BY <2>1 DEF CalmInv, Places, CalmRoutine, Quiet
  <2> QED
    BY <1>14, <2>1, <2>2 DEF Quiet, IsOpen
<1>22. QuietWhileDialing'
  BY <1>1, <1>6, <1>9, <1>10, <1>21 DEF CalmInv, QuietWhileDialing, Looks
<1>23. QuietWhenIdle'
  BY <1>6, <1>7, <1>9, <1>21 DEF CalmInv, QuietWhenIdle, Looks
<1>24. FirstConnects'
  BY <1>1, <1>6, <1>7, <1>9
     DEF CalmInv, FirstConnects, FirstConnect, NoneSent, Singles, Looks, Alone
<1>25. NoneSent' /\ SomeoneWaits' /\ IdleIsSettled'
  BY <1>1, <1>6, <1>7, <1>9 DEF CalmInv, NoneSent, SomeoneWaits, IdleIsSettled, Looks, Alone
<1> QED
  BY <1>8, <1>16, <1>17, <1>18, <1>19, <1>20, <1>22, <1>23, <1>24, <1>25 DEF CalmInv, GoesOnAs

\* A read loop with something to read runs beside no handshake.
LEMMA CalmLoopReads ==
  ASSUME CalmInv, IsABag(go), NEW g \in Routines, LoopReads(g), UNCHANGED uiVars
  PROVE  IsABag(go)' /\ CalmInv'
<1>1. /\ CalmRoutine(g) /\ g.kind = "loop" /\ g.pc = "read" /\ g.client = First
      /\ g.conn \in Socket /\ IsOpen(g.conn) /\ sock[g.conn].inbox # <<>>
  BY DEF CalmInv, Places, CalmRoutine, LoopReads
<1>2. UNCHANGED <<spent, conn, closed, shut, events, client, sends, idle, connecting, connected>>
  BY DEF LoopReads, uiVars
<1>3. PICK out : out = IF Head(sock[g.conn].inbox) = "ack" THEN "ack" ELSE "other"
  OBVIOUS
<1>4. PICK r : r = [g EXCEPT !.pc = "event", !.conn = NoSocket, !.out = out]
  OBVIOUS
<1>5. Looks(r, "loop", "event", NoSocket, out) /\ out \in News
  <2>1. IsRoutine(g) /\ g.client = First /\ g.kind = "loop"
    BY <1>1 DEF CalmRoutine
  <2>2. Looks([g EXCEPT !.pc = "event", !.conn = NoSocket, !.out = out],
              g.kind, "event", NoSocket, out)
    BY <2>1, LooksOn, Zenon
  <2>3. Looks(r, "loop", "event", NoSocket, out)
    BY <1>4, <2>1, <2>2
  <2> QED
    BY <1>3, <2>3 DEF News
<1>6. Continues(g, {r})
  BY <1>3, <1>4 DEF LoopReads
<1>7. GoesOnAs(g, r)
  BY <1>5, <1>6, OneForOne DEF Looks, Alone
<1>8. /\ r \in Routines' /\ \A h \in Routines' : h = r \/ h \in Routines
      /\ \A h \in Routines : h # g => h \in Routines'
  BY <1>7 DEF GoesOnAs
<1>9. /\ sock' \in SockType /\ \A j \in Socket : j # g.conn => sock'[j] = sock[j]
      /\ sock'[g.conn].state = sock[g.conn].state
  BY <1>1, SockConsumed DEF LoopReads, CalmInv, CalmTypes, SockType
<1>10. \A h \in Routines : ~Shakes(h) /\ h.kind # "connect"
  <2>1. ~LoopsAreQuiet
    BY <1>1 DEF LoopsAreQuiet, Quiet
  <2>2. \A h \in Routines : h.kind # "connect"
    BY <1>1 DEF CalmInv, FirstConnects, FirstConnect
  <2> QED
    BY <2>1, <2>2 DEF CalmInv, Places, CalmRoutine, QuietWhileDialing, Shakes, Dialing
<1>11. ~LoopsAreQuiet
  BY <1>1 DEF LoopsAreQuiet, Quiet
<1>12. CalmTypes'
  BY <1>2, <1>9 DEF CalmInv, CalmTypes, SockType
<1>13. Places'
  BY <1>5, <1>8 DEF CalmInv, Places, CalmRoutine, Looks, Dialing, Shakes
<1>14. CurrentIsOpen'
  <2>1. conn[First] # NoSocket => conn[First] \in Socket
    BY ChatConnectionAssumption DEF CalmInv, CalmTypes
  <2> QED
    BY <1>2, <1>9, <2>1 DEF CalmInv, CurrentIsOpen, IsOpen
<1>15. Handshakes' /\ OwnSockets' /\ FirstConnects'
  BY <1>5, <1>8, <1>10 DEF Handshakes, OwnSockets, FirstConnects, Looks, Shakes
<1>16. QuietWhileDialing' /\ QuietWhenIdle'
  BY <1>2, <1>5, <1>8, <1>11 DEF CalmInv, QuietWhileDialing, QuietWhenIdle, Looks, Dialing, Shakes
<1>17. NoneSent' /\ SomeoneWaits' /\ IdleIsSettled'
  BY <1>1, <1>2, <1>5, <1>8 DEF CalmInv, NoneSent, SomeoneWaits, IdleIsSettled, Looks
<1> QED
  BY <1>7, <1>12, <1>13, <1>14, <1>15, <1>16, <1>17 DEF CalmInv, GoesOnAs

\* Disconnect may close the connection of a handshake that began meanwhile.
LEMMA CalmDisconnect ==
  ASSUME CalmInv, IsABag(go), NEW g \in Routines, Disconnect(g), UNCHANGED uiVars
  PROVE  IsABag(go)' /\ CalmInv'
<1>1. CalmRoutine(g) /\ g.kind = "idle" /\ g.client = First /\ ~closed[First]
  BY DEF CalmInv, CalmTypes, Places, CalmRoutine, Disconnect
<1>2. /\ sock' = Shut(sock, conn[First]) /\ conn' = [conn EXCEPT ![First] = NoSocket]
      /\ Continues(g, {})
      /\ UNCHANGED <<spent, closed, shut, events, client, sends, idle, connecting, connected>>
  BY <1>1 DEF Disconnect, uiVars
<1>3. Leaves(g)
  BY <1>2, OneForNone
<1>4. (\A h \in Routines' : h \in Routines) /\ (\A h \in Routines : h # g => h \in Routines')
  BY <1>3 DEF Leaves
<1>5. conn \in [Client -> Socket \cup {NoSocket}] /\ First \in Client /\ sock \in SockType
  BY ChatConnectionAssumption DEF CalmInv, CalmTypes, SockType
<1>6. conn' \in [Client -> Socket \cup {NoSocket}] /\ conn'[First] = NoSocket
  BY <1>2, <1>5
<1>7. /\ sock' \in SockType /\ \A j \in Socket : j # conn[First] => sock'[j] = sock[j]
      /\ conn[First] \in Socket => sock'[conn[First]].state = "closed"
  BY <1>2, <1>5, SockShut
<1>8. \A h \in Routines : h.kind # "connect"
  BY <1>1 DEF CalmInv, FirstConnects, FirstConnect
<1>9. CalmTypes'
  BY <1>2, <1>6, <1>7 DEF CalmInv, CalmTypes, SockType
<1>10. Places'
  BY <1>4 DEF CalmInv, Places, CalmRoutine, Dialing, Shakes
<1>11. CurrentIsOpen'
  BY <1>6 DEF CurrentIsOpen
<1>12. Handshakes'
  <2> SUFFICES ASSUME NEW h \in Routines', Shakes(h) PROVE HandshakeSound(h)'
    BY DEF Handshakes, Shakes
  <2>1. h \in Routines /\ h.kind = "send" /\ h.conn \in Socket /\ HandshakeSound(h)
    BY <1>4, <1>8 DEF CalmInv, Places, CalmRoutine, Handshakes, Dialing, Shakes
  <2>2. ~IsOpen(h.conn)'
    BY <1>7, <2>1 DEF HandshakeSound, Undisturbed, IsOpen
  <2> QED
    BY <1>6, <2>1, <2>2 DEF HandshakeSound
<1>13. OwnSockets'
  BY <1>4 DEF CalmInv, OwnSockets, Shakes
<1>14. LoopsAreQuiet => LoopsAreQuiet'
  <2> SUFFICES ASSUME LoopsAreQuiet, NEW h \in Routines', h.kind = "loop" PROVE Quiet(h)'
    BY DEF LoopsAreQuiet
  <2>1. h \in Routines /\ Quiet(h) /\ h.conn \in Socket
    BY <1>4 DEF LoopsAreQuiet, Quiet, CalmInv, Places, CalmRoutine
  <2> QED
    BY <1>7, <2>1 DEF Quiet, IsOpen
<1>15. QuietWhileDialing' /\ QuietWhenIdle'
  BY <1>2, <1>4, <1>14 DEF CalmInv, QuietWhileDialing, QuietWhenIdle, Dialing, Shakes
<1>16. FirstConnects'
  BY <1>4, <1>8 DEF FirstConnects
<1>17. NoneSent' /\ SomeoneWaits' /\ IdleIsSettled'
  BY <1>1, <1>2, <1>4 DEF CalmInv, NoneSent, SomeoneWaits, IdleIsSettled
<1> QED
  BY <1>3, <1>9, <1>10, <1>11, <1>12, <1>13, <1>15, <1>16, <1>17 DEF CalmInv, Leaves

\* A send writes to the current connection, if there is one.
LEMMA CalmSendWrites ==
  ASSUME CalmInv, IsABag(go), NEW g \in Routines, SendWrites(g)
  PROVE  IsABag(go)' /\ CalmInv'
<1>1. /\ CalmRoutine(g) /\ g.kind = "send" /\ g.pc = "write" /\ client = First
      /\ UNCHANGED <<spent, conn, closed, shut, events, client, sends, idle, connecting, connected>>
  BY DEF CalmInv, CalmTypes, Places, CalmRoutine, SendWrites, uiVars
<1>2. PICK out \in {g.out, "fail"} :
         Continues(g, {NewRoutine("send", First, "done", NoSocket, out)})
  BY <1>1 DEF SendWrites
<1>3. PICK r : r = NewRoutine("send", First, "done", NoSocket, out)
  OBVIOUS
<1>4. Looks(r, "send", "done", NoSocket, out)
  BY <1>3, LooksNew, Zenon
<1>5. GoesOnAs(g, r)
  BY <1>1, <1>2, <1>3, <1>4, OneForOne DEF Looks
<1>6. CalmRoutine(r) /\ ~Shakes(r) /\ ~Dialing(r) /\ r.kind = "send" /\ r.pc = "done"
  BY <1>4 DEF Looks, CalmRoutine, Shakes, Dialing
<1>7. \A h \in Routines : h.kind # "connect" /\ ~Dialing(h) /\ (h.kind = "send" => h = g)
  <2>1. \A h \in Routines : h.kind = "send" => h = g
    BY <1>1 DEF CalmInv, Singles, Alone
  <2>2. \A h \in Routines : h.kind # "connect"
    BY <1>1 DEF CalmInv, FirstConnects, FirstConnect, NoneSent
  <2> QED
    BY <1>1, <2>1, <2>2 DEF CalmInv, Places, CalmRoutine, Dialing, Shakes
<1>8. events' \in [Client -> Seq(News)] /\ (idle' => idle /\ ~connecting')
  BY <1>1 DEF CalmInv, CalmTypes, IdleIsSettled
<1>9. CASE UNCHANGED sock
  BY <1>1, <1>5, <1>6, <1>7, <1>8, <1>9, CalmGoesOn
<1>10. CASE IsOpen(conn[First]) /\ sock' = [sock EXCEPT ![conn[First]].inbox = Append(@, "ack")]
  <2>1. conn[First] \in Socket /\ sock \in SockType /\ "ack" \in Words
    BY <1>10, ChatConnectionAssumption DEF CalmInv, CalmTypes, SockType, IsOpen, Words
  <2>2. /\ sock' \in SockType /\ \A j \in Socket : j # conn[First] => sock'[j] = sock[j]
        /\ sock'[conn[First]].state = sock[conn[First]].state
    BY <1>10, <2>1, SockAppended
  <2>3. /\ r \in Routines' /\ g \notin Routines' /\ \A h \in Routines' : h = r \/ h \in Routines
        /\ \A h \in Routines : h # g => h \in Routines'
    BY <1>1, <1>4, <1>5 DEF GoesOnAs, Looks, Alone
  <2>4. \A h \in Routines' : h.kind # "connect" /\ ~Dialing(h) /\ (h.kind = "send" => h = r)
    BY <1>6, <1>7, <2>3
  <2>5. CalmTypes'
    BY <1>1, <2>2 DEF CalmInv, CalmTypes, SockType
  <2>6. Places'
    BY <1>6, <2>3 DEF CalmInv, Places, CalmRoutine, Dialing, Shakes
  <2>7. CurrentIsOpen'
    BY <1>1, <1>10, <2>2 DEF CurrentIsOpen, IsOpen
  <2>8. Handshakes' /\ OwnSockets' /\ QuietWhileDialing' /\ FirstConnects'
    BY <2>4 DEF Handshakes, OwnSockets, QuietWhileDialing, FirstConnects, Dialing
  <2>9. QuietWhenIdle'
    BY <1>1, <1>6, <2>4 DEF QuietWhenIdle, CalmInv, NoneSent
  <2>10. NoneSent' /\ SomeoneWaits' /\ IdleIsSettled'
    BY <1>1, <2>3 DEF CalmInv, NoneSent, SomeoneWaits, IdleIsSettled
  <2> QED
    BY <1>5, <2>5, <2>6, <2>7, <2>8, <2>9, <2>10 DEF CalmInv, GoesOnAs
<1> QED
  BY <1>1, <1>9, <1>10 DEF SendWrites

\* When the window goes idle, the read loops have nothing to read: the channel
\* is not full, because the wait that is there found it empty.
LEMMA CalmIdleTimeout ==
  ASSUME CalmInv, IsABag(go), IdleTimeout
  PROVE  IsABag(go)' /\ CalmInv' /\ idle'
<1>1. PICK r : r = NewRoutine("idle", First, "start", NoSocket, "none")
  OBVIOUS
<1>2. Looks(r, "idle", "start", NoSocket, "none")
  BY <1>1, LooksNew, Zenon
<1>3. go' = go (+) SetToBag({r}) /\ client = First /\ ~shut[First]
  BY <1>1 DEF CalmInv, CalmTypes, IdleTimeout
<1>4. Joins(r)
  BY <1>2, <1>3, JoinIn DEF CalmInv, Looks, Alone
<1>5. Routines' = Routines \cup {r}
  BY <1>4 DEF Joins
<1>6. /\ UNCHANGED <<sock, spent, conn, closed, shut, events, client, sends>>
      /\ idle' /\ ~connecting' /\ ~connected'
  BY DEF IdleTimeout
<1>7. \A h \in Routines : h.kind = "send" \/ (Waiting(h) /\ h.kind # "connect")
  BY DEF IdleTimeout
<1>8. events[First] = <<>>
  <2>1. PICK h \in Routines : h.kind = "wait"
    BY DEF CalmInv, SomeoneWaits
  <2>2. Waiting(h) /\ CalmRoutine(h)
    BY <1>7, <2>1 DEF CalmInv, Places
  <2> QED
    BY <2>1, <2>2 DEF Waiting, CalmRoutine
<1>9. LoopsAreQuiet
  <2> SUFFICES ASSUME NEW h \in Routines, h.kind = "loop" PROVE Quiet(h)
    BY DEF LoopsAreQuiet
  <2>1. Waiting(h) /\ CalmRoutine(h) /\ h.client = First
    BY <1>7 DEF CalmInv, Places, CalmRoutine
  <2>2. Len(events[First]) # EventCap
    BY <1>8, WsClientAssumption
  <2>3. h.pc = "read" /\ h.conn \in Socket
    BY <2>1, <2>2 DEF Waiting, CalmRoutine
  <2>4. ~IsCut(h.conn)
    BY <2>3 DEF IsCut, CalmInv, CalmTypes, SockType
  <2> QED
    BY <2>1, <2>3, <2>4 DEF Waiting, Quiet
<1>10. LoopsAreQuiet'
  BY <1>2, <1>5, <1>6, <1>9 DEF LoopsAreQuiet, Quiet, IsOpen, Looks
<1>11. CalmTypes' /\ CurrentIsOpen'
  BY <1>6 DEF CalmInv, CalmTypes, CurrentIsOpen, IsOpen
<1>12. Places'
  BY <1>2, <1>5 DEF CalmInv, Places, CalmRoutine, Looks, Dialing, Shakes
<1>13. Handshakes'
  BY <1>2, <1>5, <1>6
     DEF CalmInv, Handshakes, HandshakeSound, Undisturbed, IsOpen, Looks, Shakes
<1>14. OwnSockets' /\ QuietWhileDialing' /\ QuietWhenIdle'
  BY <1>2, <1>5, <1>10
     DEF CalmInv, OwnSockets, QuietWhileDialing, QuietWhenIdle, Looks, Shakes
<1>15. FirstConnects'
  BY <1>2, <1>5, <1>7 DEF FirstConnects, Looks
<1>16. NoneSent' /\ SomeoneWaits' /\ IdleIsSettled'
  BY <1>2, <1>5, <1>6 DEF CalmInv, NoneSent, SomeoneWaits, IdleIsSettled, Looks
<1> QED
  BY <1>4, <1>6, <1>11, <1>12, <1>13, <1>14, <1>15, <1>16 DEF CalmInv, Joins

\* The first message of the user is sent by the only send.
LEMMA CalmUserSends ==
  ASSUME CalmInv, IsABag(go), UserSends, sends = MaxSends
  PROVE  IsABag(go)' /\ CalmInv' /\ idle' = idle
<1>1. PICK r : r = NewRoutine("send", First, "start", NoSocket, "none")
  OBVIOUS
<1>2. Looks(r, "send", "start", NoSocket, "none")
  BY <1>1, LooksNew, Zenon
<1>3. go' = go (+) SetToBag({r}) /\ client = First
  BY <1>1 DEF CalmInv, CalmTypes, UserSends
<1>4. \A h \in Routines : h.kind # "send" /\ h.kind # "connect"
  BY DEF CalmInv, NoneSent, FirstConnects, FirstConnect, UserSends
<1>5. Joins(r)
  BY <1>2, <1>3, <1>4, JoinIn DEF CalmInv, Looks
<1>6. Routines' = Routines \cup {r}
  BY <1>5 DEF Joins
<1>7. /\ UNCHANGED <<sock, spent, conn, closed, shut, events, client, idle, connecting, connected>>
      /\ sends' # MaxSends
  BY ChatConnectionAssumption DEF UserSends
<1>8. idle => LoopsAreQuiet
  BY DEF CalmInv, QuietWhenIdle
<1>9. LoopsAreQuiet => LoopsAreQuiet'
  BY <1>2, <1>6, <1>7 DEF LoopsAreQuiet, Quiet, IsOpen, Looks
<1>10. CalmTypes' /\ CurrentIsOpen'
  BY <1>7 DEF CalmInv, CalmTypes, CurrentIsOpen, IsOpen
<1>11. Places'
  BY <1>2, <1>6 DEF CalmInv, Places, CalmRoutine, Looks, Dialing, Shakes
<1>12. Handshakes'
  BY <1>2, <1>6, <1>7
     DEF CalmInv, Handshakes, HandshakeSound, Undisturbed, IsOpen, Looks, Shakes
<1>13. OwnSockets'
  BY <1>2, <1>6 DEF CalmInv, OwnSockets, Looks, Shakes
<1>14. QuietWhileDialing'
  BY <1>2, <1>4, <1>6 DEF QuietWhileDialing, Looks, Dialing, Shakes
<1>15. QuietWhenIdle'
  BY <1>7, <1>8, <1>9 DEF QuietWhenIdle
<1>16. FirstConnects'
  BY <1>2, <1>4, <1>6 DEF FirstConnects, Looks
<1>17. NoneSent' /\ SomeoneWaits' /\ IdleIsSettled'
  BY <1>6, <1>7 DEF CalmInv, NoneSent, SomeoneWaits, IdleIsSettled
<1> QED
  BY <1>5, <1>7, <1>10, <1>11, <1>12, <1>13, <1>14, <1>15, <1>16, <1>17 DEF CalmInv, Joins

\* The window starts calm.
LEMMA CalmInitially == WindowInit => CalmInv
<1> SUFFICES ASSUME WindowInit PROVE CalmInv
  OBVIOUS
<1>1. PICK p, q : p = ConnectRoutine(First) /\ q = WaitRoutine(First)
  OBVIOUS
<1>2. Looks(p, "connect", "dial", NoSocket, "none") /\ Looks(q, "wait", "start", NoSocket, "none")
  BY <1>1, LooksNew DEF ConnectRoutine, WaitRoutine
<1>3. go = [r \in {p, q} |-> 1]
  BY <1>1 DEF WindowInit, SetToBag
<1>4. Routines = {p, q} /\ \A r \in Routines : go[r] = 1
  BY <1>3 DEF Routines, BagToSet
<1>5. CalmTypes
  <2>1. <<>> \in Seq(Words) /\ <<>> \in Seq(News)
    OBVIOUS
  <2>2. [state |-> "closed", inbox |-> <<>>] \in [state : {"open", "closed"}, inbox : Seq(Words)]
    BY <2>1
  <2> QED
    BY <2>1, <2>2, ChatConnectionAssumption DEF WindowInit, WsInit, CalmTypes, SockType
<1>6. Places
  BY <1>2, <1>4 DEF Places, CalmRoutine, Looks, Dialing, Shakes
<1>7. Singles
  BY <1>2, <1>4 DEF Singles, Looks, Alone
<1>8. CurrentIsOpen
  BY ChatConnectionAssumption DEF CurrentIsOpen, WindowInit, WsInit
<1>9. Handshakes /\ OwnSockets /\ QuietWhileDialing /\ QuietWhenIdle
  BY <1>2, <1>4
     DEF Handshakes, OwnSockets, QuietWhileDialing, QuietWhenIdle, WindowInit, Looks, Shakes
<1>10. FirstConnects
  BY <1>2, <1>4, ChatConnectionAssumption
     DEF FirstConnects, FirstConnect, WindowInit, WsInit, Looks
<1>11. NoneSent /\ SomeoneWaits /\ IdleIsSettled
  BY <1>2, <1>4 DEF NoneSent, SomeoneWaits, IdleIsSettled, WindowInit, Looks
<1> QED
  BY <1>5, <1>6, <1>7, <1>8, <1>9, <1>10, <1>11 DEF CalmInv

\* The answer to a send that has reconnected.
Answered == \E g \in Routines : g.kind = "send" /\ g.out = "reconnected"

\* No step of a goroutine, or of Update with its result, touches the budgets; in
\* a calm window each keeps the invariant, and only an answered send ends the
\* idle time.
LEMMA CalmGoStep ==
  ASSUME NEW g \in Routines, GoStep(g)
  PROVE  /\ UNCHANGED <<faults, sends>>
         /\ CalmInv /\ IsABag(go) => CalmInv' /\ (idle /\ ~idle' => Answered)
<1>1. CASE ConnectStep(g)
  <2>1. UNCHANGED uiVars /\ UNCHANGED <<faults, sends, idle>>
    BY <1>1 DEF ConnectStep, Dial, ReadChallenge, WriteSubscribe, ReadSubscribeAck,
                HandshakeFails, uiVars
  <2>2. CalmInv /\ IsABag(go) => CalmInv'
    BY <1>1, <2>1, CalmDial, CalmReadChallenge, CalmWriteSubscribe, CalmReadSubscribeAck,
       CalmHandshakeFails DEF ConnectStep
  <2> QED
    BY <2>1, <2>2
<1>2. CASE LoopStep(g)
  <2>1. UNCHANGED uiVars /\ UNCHANGED <<faults, sends, idle>>
    BY <1>2 DEF LoopStep, LoopTop, LoopReads, LoopFails, SendEvent, uiVars
  <2>2. CalmInv /\ IsABag(go) => CalmInv'
    BY <1>2, <2>1, CalmLoopTop, CalmLoopReads, CalmLoopFails, CalmSendEvent DEF LoopStep
  <2> QED
    BY <2>1, <2>2
<1>3. CASE RunsDisconnect(g)
  <2>1. UNCHANGED uiVars /\ UNCHANGED <<faults, sends, idle>>
    BY <1>3 DEF RunsDisconnect, Disconnect, uiVars
  <2> QED
    BY <1>3, <2>1, CalmDisconnect DEF RunsDisconnect
<1>4. CASE SendStep(g)
  <2>1. UNCHANGED <<faults, sends, idle>>
    BY <1>4 DEF SendStep, StartSend, SendWrites, uiVars
  <2> QED
    BY <1>4, <2>1, CalmStartSend, CalmSendWrites DEF SendStep
<1>5. CASE TakeEvent(g)
  <2>1. UNCHANGED <<faults, sends, idle>>
    BY <1>5 DEF TakeEvent, uiVars
  <2> QED
    BY <1>5, <2>1, CalmTakeEvent
<1>6. CASE UpdateStep(g)
  <2>1. UNCHANGED <<faults, sends>>
    BY <1>6 DEF UpdateStep, HandleConnectResult, HandleEvent, HandleSendResult
  <2>2. HandleSendResult(g) => (idle /\ ~idle' => Answered)
    BY DEF HandleSendResult, Answered
  <2> QED
    BY <1>6, <2>1, <2>2, CalmHandleConnectResult, CalmHandleEvent, CalmHandleSendResult
       DEF UpdateStep
<1> QED
  BY <1>1, <1>2, <1>3, <1>4, <1>5, <1>6 DEF GoStep

\* Faults and switches take from their budget and leave idle alone.
LEMMA FaultsAreCounted ==
  ASSUME faults \in Nat, Fault \/ \E c \in Client : SwitchRelay(c)
  PROVE  faults' = faults - 1 /\ faults > 0 /\ UNCHANGED <<sends, idle>>
<1>1. ASSUME Fault PROVE faults' = faults - 1 /\ faults > 0 /\ UNCHANGED <<sends, idle>>
  BY <1>1 DEF Fault, DialFails, Refuse, Cut, uiVars
<1>2. ASSUME NEW c \in Client, SwitchRelay(c)
      PROVE  faults' = faults - 1 /\ faults > 0 /\ UNCHANGED <<sends, idle>>
  BY <1>2 DEF SwitchRelay
<1> QED
  BY <1>1, <1>2

\* Every step keeps the invariant, and in a calm window only the answer to a send
\* ends the idle time.
LEMMA IdleStep ==
  ASSUME IdleInv, IsABag(go), [WindowNext]_windowVars
  PROVE  IdleInv' /\ (Calm /\ idle /\ ~idle' => Answered)
<1>1. /\ faults \in 0..MaxFaults /\ sends \in 0..MaxSends /\ (Calm => CalmInv)
      /\ MaxFaults \in Nat /\ MaxSends \in Nat
  BY WsClientAssumption, ChatConnectionAssumption DEF IdleInv
<1>2. ASSUME NEW g \in Routines, GoStep(g)
      PROVE  IdleInv' /\ (Calm /\ idle /\ ~idle' => Answered)
  <2>1. /\ UNCHANGED <<faults, sends>>
        /\ CalmInv => CalmInv' /\ (idle /\ ~idle' => Answered)
    BY <1>2, CalmGoStep
  <2> QED
    BY <1>1, <2>1 DEF IdleInv, Calm
<1>3. CASE IdleTimeout
  <2>1. UNCHANGED <<faults, sends>> /\ idle'
    BY <1>3 DEF IdleTimeout
  <2>2. CalmInv => CalmInv'
    BY <1>3, CalmIdleTimeout
  <2> QED
    BY <1>1, <2>1, <2>2 DEF IdleInv, Calm
<1>4. CASE UserSends
  <2>1. UNCHANGED <<faults, idle>> /\ sends' = sends - 1 /\ sends > 0
    BY <1>4 DEF UserSends
  <2>2. Calm' => Calm /\ sends = MaxSends
    BY <1>1, <2>1 DEF Calm
  <2>3. Calm' => CalmInv'
    BY <1>1, <1>4, <2>2, CalmUserSends
  <2> QED
    BY <1>1, <2>1, <2>3 DEF IdleInv
<1>5. CASE Fault \/ \E c \in Client : SwitchRelay(c)
  <2>1. faults' = faults - 1 /\ faults > 0 /\ UNCHANGED <<sends, idle>>
    BY <1>1, <1>5, FaultsAreCounted
  <2> QED
    BY <1>1, <2>1 DEF IdleInv, Calm
<1>6. CASE UNCHANGED windowVars
  <2>1. UNCHANGED <<sock, spent, conn, closed, shut, events, go, faults, client, connecting,
                    connected, idle, authFailed, unopened, sends>>
    BY <1>6 DEF windowVars, wsVars, uiVars
  <2>2. Routines' = Routines /\ \A k : IsOpen(k)' = IsOpen(k)
    BY <2>1 DEF Routines, IsOpen
  <2>3. CalmTypes => CalmTypes'
    BY <2>1 DEF CalmTypes, SockType
  <2>4. /\ Places => Places'
        /\ Singles => Singles'
        /\ CurrentIsOpen => CurrentIsOpen'
        /\ OwnSockets => OwnSockets'
        /\ NoneSent => NoneSent'
        /\ SomeoneWaits => SomeoneWaits'
        /\ IdleIsSettled => IdleIsSettled'
    BY <2>1, <2>2 DEF Places, Singles, CurrentIsOpen, OwnSockets, NoneSent,
                      SomeoneWaits, IdleIsSettled
  <2>5. Handshakes => Handshakes'
    BY <2>1, <2>2 DEF Handshakes, HandshakeSound, Undisturbed
  <2>6. LoopsAreQuiet' = LoopsAreQuiet
    BY <2>1, <2>2 DEF LoopsAreQuiet, Quiet
  <2>7. /\ QuietWhileDialing => QuietWhileDialing'
        /\ QuietWhenIdle => QuietWhenIdle'
    BY <2>1, <2>2, <2>6 DEF QuietWhileDialing, QuietWhenIdle
  <2>8. FirstConnects => FirstConnects'
    BY <2>1, <2>2 DEF FirstConnects, FirstConnect
  <2>9. CalmInv => CalmInv'
    BY <2>3, <2>4, <2>5, <2>7, <2>8 DEF CalmInv
  <2> QED
    BY <1>1, <2>1, <2>9 DEF IdleInv, Calm
<1> QED
  BY <1>2, <1>3, <1>4, <1>5, <1>6 DEF WindowNext

-----------------------------------------------------------------------------
\* A window that is idle dials again because the user sends: with no faults, and
\* one message sent, only the answer to that message ends the idle time
\* (model_test.go:1653).
THEOREM IdleUntilSentCorrect == WindowSpec => IdleUntilSent
<1>1. WindowInit => EarsInv /\ IdleInv
  <2>1. WindowInit => faults \in 0..MaxFaults /\ sends \in 0..MaxSends
    BY WsClientAssumption, ChatConnectionAssumption DEF WindowInit, WsInit
  <2> QED
    BY <2>1, EarsInitially, CalmInitially DEF IdleInv
<1>2. EarsInv /\ IdleInv /\ [WindowNext]_windowVars => EarsInv' /\ IdleInv'
  BY EarsStep, IdleStep DEF EarsInv
<1>3. EarsInv /\ IdleInv /\ [WindowNext]_windowVars =>
        [idle /\ ~idle' /\ faults = MaxFaults /\ MaxSends <= sends + 1 =>
            \E g \in Routines : g.kind = "send" /\ g.out = "reconnected"]_windowVars
  BY IdleStep DEF EarsInv, Calm, Answered
<1> QED
  BY <1>1, <1>2, <1>3, PTL DEF WindowSpec, IdleUntilSent
===============================================================================
