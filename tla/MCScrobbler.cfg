\* The delivery engine with every reply outcome, journal saves, and a clean
\* shutdown or a crash.  One network backend: backends share nothing but
\* the broadcast, and each property is stated per backend.
CONSTANTS
  n = n
  f = f
  Backends = {n, f}
  Files = {f}
  MaxIds = 4
  Capacity = 3
  MaxBatch = 2
  BaseDelay = 1
  MaxDelay = 4
  MaxRestarts = 2
  Crashes = TRUE
  Damages = TRUE

SPECIFICATION Spec

INVARIANT TypeOK
INVARIANT QueueOrdered
INVARIANT NoSubmissionLost
PROPERTY Refines
