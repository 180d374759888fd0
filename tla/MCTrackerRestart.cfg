\* A restart of the tracked song that the user seeks or pauses before the
\* observer has read it: song_repeated then sees a drop smaller than the
\* first listen and the listen is lost.
CONSTANTS
  a = a
  b = b
  Songs = {a, b}
  NoSong = NoSong
  SongLength <- MCSongLength
  Tick = 20
  MaxTime = 260
  MaxOps = 5
  CoalescedRestart = TRUE
  ProcessRestarts = FALSE

SPECIFICATION Spec

INVARIANT NoQualifyingPlayLost
