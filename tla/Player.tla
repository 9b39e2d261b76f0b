------------------------------- MODULE Player -------------------------------
(***************************************************************************)
(* The voice note player (internal/ui/audio/player.go).  Play runs in a    *)
(* goroutine, Stop in the chat window's, and each playback has a goroutine *)
(* that waits for its process.  Player.token is raised by every Play and   *)
(* Stop, so a playback's token is the latest exactly while the playback is *)
(* the active one: the comparison of tokens is a comparison with active.   *)
(***************************************************************************)
EXTENDS Naturals

CONSTANTS
    Playback,  \* playbacks, numbered in the order their processes start
    Speaker    \* goroutines that run Play

ASSUME PlayerAssumption == Playback \subseteq Nat \ {0}

VARIABLES
    active,      \* Player.active; NoPlayback is nil
    sound,       \* [Playback -> "unused", "running", "ended" or "reaped"]
    play,        \* [Speaker -> [pc, proc]]: the Play it runs
    overwritten  \* playbacks that a second Play took the place of

playerVars == <<active, sound, play, overwritten>>

NoPlayback == 0
NotPlaying == [pc |-> "idle", proc |-> NoPlayback]
Sounding == {n \in Playback : sound[n] = "running"}

PlayerInit ==
    /\ active = NoPlayback
    /\ sound = [n \in Playback |-> "unused"]
    /\ play = [s \in Speaker |-> NotPlaying]
    /\ overwritten = {}

\* Player.Stop kills the active process.
Silenced == [n \in Playback |-> IF n = active /\ sound[n] = "running" THEN "ended" ELSE sound[n]]

StopPlayer ==
    /\ sound' = Silenced
    /\ active' = NoPlayback
    /\ UNCHANGED <<play, overwritten>>

\* Play begins with Stop.
PlayStops(s) ==
    /\ play[s].pc = "stop"
    /\ sound' = Silenced
    /\ active' = NoPlayback
    /\ play' = [play EXCEPT ![s].pc = "spawn"]
    /\ UNCHANGED overwritten

\* Play writes the temporary file and starts the process, or neither.
PlaySpawns(s) ==
    /\ play[s].pc = "spawn"
    /\ \/ \E n \in Playback :
            /\ sound[n] = "unused" /\ \A k \in Playback : k < n => sound[k] # "unused"
            /\ sound' = [sound EXCEPT ![n] = "running"]
            /\ play' = [play EXCEPT ![s] = [pc |-> "register", proc |-> n]]
       \/ play' = [play EXCEPT ![s] = NotPlaying] /\ UNCHANGED sound
    /\ UNCHANGED <<active, overwritten>>

\* Play makes its process the active one.
PlayRegisters(s) ==
    /\ play[s].pc = "register"
    /\ active' = play[s].proc
    /\ overwritten' = overwritten \cup ({active} \ {NoPlayback})
    /\ play' = [play EXCEPT ![s] = NotPlaying]
    /\ UNCHANGED sound

SoundEnds(n) ==
    /\ sound[n] = "running"
    /\ sound' = [sound EXCEPT ![n] = "ended"]
    /\ UNCHANGED <<active, play, overwritten>>

\* Mutant of Reap: the token is not compared.
ReapAny(n) ==
    /\ sound[n] = "ended" /\ \A s \in Speaker : play[s].proc # n
    /\ sound' = [sound EXCEPT ![n] = "reaped"]
    /\ active' = NoPlayback
    /\ UNCHANGED <<play, overwritten>>

\* The goroutine of a playback, once the process is over: the player is
\* cleared only if nothing was played or stopped since.
Reap(n) ==
    /\ sound[n] = "ended" /\ \A s \in Speaker : play[s].proc # n
    /\ sound' = [sound EXCEPT ![n] = "reaped"]
    /\ active' = IF active = n THEN NoPlayback ELSE active
    /\ UNCHANGED <<play, overwritten>>

PlayerStep ==
    \/ \E s \in Speaker : PlayStops(s) \/ PlaySpawns(s) \/ PlayRegisters(s)
    \/ \E n \in Playback : SoundEnds(n) \/ Reap(n)

\* Every playback that sounds can be stopped: it is the active one, or the Play
\* that started it is about to make it so.  The end of an earlier playback,
\* noticed late, takes nothing away from the current one.  A playback that a
\* second Play overwrote (player.go:55) is excepted: it sounds until its end.
PlaybackIsTracked ==
    Sounding \subseteq {active} \cup {play[s].proc : s \in Speaker} \cup overwritten
=============================================================================
