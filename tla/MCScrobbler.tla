---------------------------- MODULE MCScrobbler ----------------------------
(* One network backend and one file sink.  Four submissions into a queue *)
(* of 3 with batches of 2 evict while a request is in flight; delays 1,   *)
(* 2, 4 reach the cap after two consecutive failures; two restarts let a  *)
(* crash follow a shutdown or another crash.                              *)
EXTENDS Scrobbler, TLC

CONSTANTS n, f

====
