----------------------------- MODULE MCTracker -----------------------------
(* Two songs: one of 100 s (half: 50 s) and a stream of unknown length,   *)
(* which qualifies only after more than four minutes.                      *)
EXTENDS Tracker, TLC

CONSTANTS a, b

MCSongLength == (a :> 100) @@ (b :> 0)

====
