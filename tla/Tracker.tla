------------------------------ MODULE Tracker ------------------------------
(***************************************************************************)
(* The playback tracker of mpdscribble: MPD (the player, an environment),  *)
(* the MpdObserver that turns MPD status snapshots into listener           *)
(* callbacks, the Stopwatch, and the Instance callbacks of src/Main.cxx    *)
(* that decide whether a listen is submitted (SongChange) and announce     *)
(* new songs (NowPlaying).                                                 *)
(*                                                                         *)
(* Time is in seconds and advances in steps of Tick.  MPD notifies the     *)
(* observer through "idle" events: no time passes between a player change  *)
(* and the observer's next status read, but several changes may be         *)
(* coalesced into one read.                                                *)
(***************************************************************************)
EXTENDS Integers, Sequences, FiniteSets

CONSTANTS
  Songs,       \* MPD song ids (model values)
  NoSong,      \* no current song (model value)
  SongLength,  \* SongLength[s]: duration of s in seconds, 0 = unknown
  Tick,        \* granularity of time
  MaxTime,     \* bound on every measured duration
  MaxOps,      \* bound on the number of player operations
  CoalescedRestart, \* may the user act on a restart of the tracked song
                    \* before the observer has read it?
  ProcessRestarts   \* may mpdscribble itself be stopped and started again?

ASSUME /\ NoSong \notin Songs
       /\ SongLength \in [Songs -> Nat]
       /\ Tick \in Nat \ {0}
       /\ \A s \in Songs : SongLength[s] % Tick = 0
       /\ MaxTime \in Nat /\ MaxOps \in Nat
       /\ CoalescedRestart \in BOOLEAN /\ ProcessRestarts \in BOOLEAN

PlayerStates == {"play", "pause", "stop"}

VARIABLES
  mpd,        \* MPD status: [song, state, elapsed]
  pending,    \* MPD changed since the observer last read its status
  cur,        \* MpdObserver: the song it reported as started, or NoSong
  wasPaused,  \* MpdObserver: it reported OnMpdPaused for cur
  tr,         \* Instance: [sw |-> Stopwatch, np |-> last NowPlaying song,
              \*            subs |-> SongChange submissions,
              \*            heard |-> history: real play time since sw.Start]
  inst,       \* history: real play time of MPD's current play of its song
              \*          since mpdscribble last started
  owed,       \* history: owed[s] = plays of s that MPD ended after the song
              \*          was heard long enough
  forgone,    \* history: forgone[s] = qualifying plays of s that were not
              \*          submitted when mpdscribble stopped
  restarted,  \* MPD restarted the tracked song; the observer has not read it
  ops         \* number of player operations so far (bound)

vars == <<mpd, pending, cur, wasPaused, tr, inst, owed, forgone, restarted, ops>>

-----------------------------------------------------------------------------
(* src/Main.cxx: the Last.fm rule and the repeat heuristic.                *)

FourMinutes == 240
OneMinute   == 60
MinLength   == 30

GetSongDuration(s) == SongLength[s]

\* elapsed > length / 2, with exact (nanosecond) durations
played_long_enough(elapsed, length) ==
  \/ elapsed > FourMinutes
  \/ length >= MinLength /\ 2 * elapsed > length

song_repeated(s, elapsed, prev_elapsed) ==
  /\ elapsed < OneMinute
  /\ prev_elapsed > elapsed
  /\ played_long_enough(prev_elapsed - elapsed, GetSongDuration(s))

-----------------------------------------------------------------------------
(* Stopwatch (time/Stopwatch.hxx, not in this repository): the accumulated *)
(* duration stands for accumulated + (now - start_time).                   *)

StopwatchStart(w)  == [acc |-> 0, running |-> TRUE]
StopwatchStop(w)   == [w EXCEPT !.running = FALSE]
StopwatchResume(w) == [w EXCEPT !.running = TRUE]
GetDuration(w)     == w.acc

-----------------------------------------------------------------------------
(* Instance callbacks (src/Main.cxx), as functions of the Instance state t *)

\* mutant: the stopwatch is resumed instead of restarted for a new song
OnMpdSongChangedNoRestart(t, s) ==
  [t EXCEPT !.sw = StopwatchResume(@), !.np = s, !.heard = 0]

OnMpdSongChanged(t, s) ==
  [t EXCEPT !.sw = StopwatchStart(@), !.np = s, !.heard = 0]

\* mutant: pausing forgets to stop the stopwatch
OnMpdPausedNoStop(t) == t

OnMpdPaused(t)  == [t EXCEPT !.sw = StopwatchStop(@)]

OnMpdResumed(t) == [t EXCEPT !.sw = StopwatchResume(@)]

OnMpdStarted(t, s) == OnMpdSongChanged(t, s)

\* mutant: a stream is submitted with its unknown length 0
OnMpdEndedLengthOnly(t, s) ==
  LET elapsed == GetDuration(t.sw)
      length  == GetSongDuration(s)
  IN  IF ~played_long_enough(elapsed, length)
      THEN t
      ELSE [t EXCEPT !.subs = Append(@, [song |-> s, length |-> length])]

\* the submitted length is the song's, or the elapsed time when unknown
OnMpdEnded(t, s) ==
  LET elapsed == GetDuration(t.sw)
      length  == GetSongDuration(s)
  IN  IF ~played_long_enough(elapsed, length)
      THEN t
      ELSE [t EXCEPT !.subs = Append(@, [song   |-> s,
                                          length |-> IF length > 0
                                                     THEN length
                                                     ELSE elapsed])]

\* mutant: the virtual restart starts the song before ending it
OnMpdPlayingSwapped(t, s, elapsed) ==
  IF song_repeated(s, elapsed, GetDuration(t.sw))
  THEN OnMpdEnded(OnMpdStarted(t, s), s)
  ELSE t

OnMpdPlaying(t, s, elapsed) ==
  IF song_repeated(s, elapsed, GetDuration(t.sw))
  THEN OnMpdStarted(OnMpdEnded(t, s), s)
  ELSE t

-----------------------------------------------------------------------------
(* MpdObserver (not in this repository, modelled from the spec): one      *)
(* status read; each disjunct is one case of the snapshot comparison.     *)

ObserveStop ==
  /\ mpd.state = "stop"
  /\ tr' = IF cur # NoSong THEN OnMpdEnded(tr, cur) ELSE tr
  /\ cur' = NoSong
  /\ wasPaused' = FALSE

\* a different song: end the old one, start the new one, then its pause
ObserveSongChange ==
  LET paused == mpd.state = "pause"
      ended  == IF cur # NoSong THEN OnMpdEnded(tr, cur) ELSE tr
      begun  == OnMpdStarted(ended, mpd.song)
  IN  /\ mpd.state # "stop"
      /\ mpd.song # cur
      /\ tr' = IF paused THEN OnMpdPaused(begun) ELSE begun
      /\ cur' = mpd.song
      /\ wasPaused' = paused

ObservePause ==
  /\ mpd.state = "pause"
  /\ mpd.song = cur
  /\ tr' = IF wasPaused THEN tr ELSE OnMpdPaused(tr)
  /\ wasPaused' = TRUE
  /\ UNCHANGED cur

\* same song playing: resumed if it was paused, then a progress tick
ObservePlay ==
  LET resumed == IF wasPaused THEN OnMpdResumed(tr) ELSE tr
  IN  /\ mpd.state = "play"
      /\ mpd.song = cur
      /\ tr' = OnMpdPlaying(resumed, cur, mpd.elapsed)
      /\ wasPaused' = FALSE
      /\ UNCHANGED cur

Observe ==
  /\ pending
  /\ \/ ObserveStop \/ ObserveSongChange \/ ObservePause \/ ObservePlay
  /\ pending' = FALSE
  /\ restarted' = FALSE
  /\ UNCHANGED <<mpd, inst, owed, forgone, ops>>

-----------------------------------------------------------------------------
(* MPD, the environment: user operations and the passing of time.          *)

Playing == mpd.state = "play"

\* seek targets and the position at which a song of known length ends
Positions(s) == {p \in 0..SongLength[s] : p % Tick = 0}

AtEnd == Playing /\ GetSongDuration(mpd.song) > 0
         /\ mpd.elapsed = GetSongDuration(mpd.song)

\* MPD's current play of its song ends: count it if it was heard long enough
EndPlay ==
  /\ owed' = IF mpd.state # "stop"
                /\ played_long_enough(inst, GetSongDuration(mpd.song))
             THEN [owed EXCEPT ![mpd.song] = @ + 1]
             ELSE owed
  /\ inst' = 0

\* restart: MPD plays the tracked song again from its start, which the
\* observer can only tell from the drop of "elapsed"
PlayerOp(newMpd, restart) ==
  /\ ops < MaxOps
  /\ CoalescedRestart \/ ~restarted
  /\ mpd' = newMpd
  /\ pending' = TRUE
  /\ restarted' = (restarted \/ restart)
  /\ ops' = ops + 1
  /\ UNCHANGED <<cur, wasPaused, tr, forgone>>

\* "play <pos>": start s (possibly the current song again) from the start
Play(s) ==
  /\ ~AtEnd
  /\ PlayerOp([song |-> s, state |-> "play", elapsed |-> 0], s = cur)
  /\ EndPlay

Pause ==
  /\ Playing /\ ~AtEnd
  /\ PlayerOp([mpd EXCEPT !.state = "pause"], FALSE)
  /\ UNCHANGED <<inst, owed>>

Resume ==
  /\ mpd.state = "pause"
  /\ PlayerOp([mpd EXCEPT !.state = "play"], FALSE)
  /\ UNCHANGED <<inst, owed>>

Stop ==
  /\ mpd.state # "stop" /\ ~AtEnd
  /\ PlayerOp([song |-> NoSong, state |-> "stop", elapsed |-> 0], FALSE)
  /\ EndPlay

Seek(p) ==
  /\ mpd.state # "stop" /\ ~AtEnd
  /\ GetSongDuration(mpd.song) > 0
  /\ p \in Positions(mpd.song) \ {mpd.elapsed, GetSongDuration(mpd.song)}
  /\ PlayerOp([mpd EXCEPT !.elapsed = p], FALSE)
  /\ UNCHANGED <<inst, owed>>

\* the song played to its end: MPD repeats it, plays another one, or stops
Finish ==
  /\ AtEnd
  /\ \E next \in Songs \cup {NoSong} :
       PlayerOp(IF next = NoSong
                THEN [song |-> NoSong, state |-> "stop", elapsed |-> 0]
                ELSE [song |-> next, state |-> "play", elapsed |-> 0],
                next = cur)
  /\ EndPlay

\* Tick seconds pass; MPD has been observed, so the observer is idle
Advance(x, on) == IF on THEN x + Tick ELSE x

TimePasses ==
  LET sw == tr.sw
  IN  /\ ~pending
      /\ ~AtEnd
      /\ Playing \/ sw.running
      /\ Advance(mpd.elapsed, Playing) <= MaxTime
      /\ Advance(sw.acc, sw.running) <= MaxTime
      /\ Advance(inst, Playing) <= MaxTime
      /\ mpd' = [mpd EXCEPT !.elapsed = Advance(@, Playing)]
      /\ tr' = [tr EXCEPT !.sw.acc = Advance(@, sw.running),
                          !.heard = Advance(@, Playing)]
      /\ inst' = Advance(inst, Playing)
      /\ UNCHANGED <<pending, cur, wasPaused, owed, forgone, restarted, ops>>

\* the submissions of s handed to SongChange
Submitted(s) == Cardinality({i \in DOMAIN tr.subs : tr.subs[i].song = s})

\* mpdscribble is stopped (main: the loop returns, WriteJournal saves the
\* submissions handed over, the process exits) and started again: a new
\* Instance with a fresh Stopwatch and an observer that has reported
\* nothing reads MPD's status; MPD plays on.  Counted as an operation.
\* What the old process owed and had not submitted, and MPD's current play
\* if it already qualified, is forgone; the new process is owed only what
\* it can hear.
ProcessRestart ==
  LET qualified(s) == IF /\ mpd.state # "stop" /\ mpd.song = s
                        /\ played_long_enough(inst, GetSongDuration(s))
                     THEN 1 ELSE 0
  IN
  /\ ProcessRestarts
  /\ ops < MaxOps
  /\ pending' = TRUE
  /\ cur' = NoSong
  /\ wasPaused' = FALSE
  /\ tr' = [tr EXCEPT !.sw = [acc |-> 0, running |-> FALSE], !.np = NoSong,
                      !.heard = 0]
  /\ ops' = ops + 1
  /\ forgone' = [s \in Songs |-> owed[s] + qualified(s) - Submitted(s)]
  /\ inst' = 0
  /\ UNCHANGED <<mpd, owed, restarted>>

\* the bounded run has used up its player operations
Exhausted ==
  /\ ops = MaxOps
  /\ UNCHANGED vars

-----------------------------------------------------------------------------

Init ==
  /\ mpd = [song |-> NoSong, state |-> "stop", elapsed |-> 0]
  /\ pending = FALSE
  /\ cur = NoSong
  /\ wasPaused = FALSE
  /\ tr = [sw    |-> [acc |-> 0, running |-> FALSE],
           np    |-> NoSong,
           subs  |-> <<>>,
           heard |-> 0]
  /\ inst = 0
  /\ owed = [s \in Songs |-> 0]
  /\ forgone = [s \in Songs |-> 0]
  /\ restarted = FALSE
  /\ ops = 0

Next ==
  \/ Observe
  \/ \E s \in Songs : Play(s)
  \/ Pause \/ Resume \/ Stop
  \/ \E p \in 0..MaxTime : Seek(p)
  \/ Finish
  \/ TimePasses
  \/ ProcessRestart
  \/ Exhausted

\* the observer's idle loop always reads a pending change
Spec == Init /\ [][Next]_vars /\ WF_vars(Observe)

-----------------------------------------------------------------------------

Times == 0..MaxTime
Song  == Songs \cup {NoSong}
\* a submitted length is a positive duration (the scrobbling protocol has
\* no length 0)
Submission == [song : Songs, length : 1..MaxTime]

TypeOK ==
  /\ mpd \in [song : Song, state : PlayerStates, elapsed : Times]
  /\ pending \in BOOLEAN
  /\ cur \in Song
  /\ wasPaused \in BOOLEAN
  /\ tr \in [sw : [acc : Times, running : BOOLEAN], np : Song,
             subs : Seq(Submission), heard : Times]
  /\ inst \in Times
  /\ owed \in [Songs -> 0..MaxOps]
  /\ forgone \in [Songs -> -MaxOps..MaxOps]
  /\ restarted \in BOOLEAN
  /\ ops \in 0..MaxOps

Synced == ~pending


\* Once the observer has read MPD's status, the Stopwatch that OnMpdEnded
\* reads has counted exactly the time MPD played the song since
\* OnMpdSongChanged started it, and it runs exactly while MPD plays.
StopwatchMatchesPlayback ==
  Synced /\ cur # NoSong =>
    /\ tr.sw.acc = tr.heard
    /\ tr.sw.running <=> Playing

\* Every play of a song that MPD ended (next song, repeat, replay, stop)
\* after the song was heard long enough is, once the observer has caught
\* up, either submitted through OnMpdEnded or still held by the Stopwatch
\* of the tracked song, which OnMpdEnded submits when the observer next
\* ends it: repeats of the same song id (song_repeated) included.
Carried(s) ==
  IF cur = s /\ played_long_enough(GetDuration(tr.sw), GetSongDuration(s))
  THEN 1 ELSE 0

NoQualifyingPlayLost ==
  Synced => \A s \in Songs : owed[s] <= Submitted(s) + Carried(s) + forgone[s]

\* When mpdscribble stops (main: Run returns, WriteJournal, exit), every
\* play that already qualified has been submitted: nothing is forgone.
NoPlayForgone ==
  \A s \in Songs : forgone[s] <= 0

\* Every play that MPD ended after it was heard long enough is eventually
\* handed to SongChange by OnMpdEnded, directly or through the repeat
\* detection of OnMpdPlaying, unless a stop of mpdscribble forgoes it:
\* the observer handles every idle event (weak fairness of Observe) and no
\* callback leaves a qualifying play to a later status read that never
\* comes.
QualifyingPlayEventuallySubmitted ==
  \A s \in Songs, k \in 1..MaxOps :
    owed[s] >= k ~> Submitted(s) + forgone[s] >= k

\* OnMpdEnded never submits a song that was not really played long enough
\* since the tracker started it: pauses are not counted as listening.
ScrobbleOnlyListened ==
  [][Len(tr'.subs) > Len(tr.subs) =>
       played_long_enough(tr.heard, GetSongDuration(cur))]_vars

====
