CONSTANTS
  a = a
  b = b
  Songs = {a, b}
  NoSong = NoSong
  SongLength <- MCSongLength
  Tick = 20
  MaxTime = 260
  MaxOps = 5
  CoalescedRestart = FALSE
  ProcessRestarts = TRUE

SPECIFICATION Spec

INVARIANT TypeOK
INVARIANT StopwatchMatchesPlayback
INVARIANT NoQualifyingPlayLost
PROPERTY ScrobbleOnlyListened
PROPERTY QualifyingPlayEventuallySubmitted
