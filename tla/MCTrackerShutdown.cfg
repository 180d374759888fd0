\* a restart of mpdscribble in the middle of a listen that already
\* qualified: the new Stopwatch starts from zero
CONSTANTS
  a = a
  b = b
  Songs = {a, b}
  NoSong = NoSong
  SongLength <- MCSongLength
  Tick = 20
  MaxTime = 260
  MaxOps = 5
  CoalescedRestart = FALSE
  ProcessRestarts = TRUE

SPECIFICATION Spec

INVARIANT NoPlayForgone
