------------------------------ MODULE Delivery ------------------------------
(***************************************************************************)
(* What the delivery engine promises (spec.md sections 1, 4.3 and 7):      *)
(* every submission is broadcast to every backend and delivered to each   *)
(* at least once, unless that backend's bounded queue evicted it or the   *)
(* backend was disabled by a permanent rejection, or a crash of the      *)
(* process lost it before a journal save.  A delivery may be repeated     *)
(* (at-least-once); nothing is delivered that was not submitted.          *)
(***************************************************************************)
EXTENDS Naturals, FiniteSets

CONSTANTS Backends, Ids

VARIABLES
  sent,      \* the submissions SongChange broadcast
  acked,     \* acked[b]: the submissions backend b's destination accepted
  dropped,   \* dropped[b]: the submissions b's queue evicted or a crash lost
  disabled   \* the backends that stopped after a permanent rejection

avars == <<sent, acked, dropped, disabled>>

Init ==
  /\ sent = {}
  /\ acked = [b \in Backends |-> {}]
  /\ dropped = [b \in Backends |-> {}]
  /\ disabled = {}

\* a new submission: some backends take it at once (file sinks), each
\* backend may drop at most one older entry to make room for it
Produce(id) ==
  /\ id \notin sent
  /\ sent' = sent \cup {id}
  /\ \E now \in SUBSET Backends, d \in [Backends -> SUBSET sent] :
       /\ \A b \in Backends : Cardinality(d[b]) <= 1
       /\ acked' = [b \in Backends |->
                      IF b \in now THEN acked[b] \cup {id} ELSE acked[b]]
       /\ dropped' = [b \in Backends |-> dropped[b] \cup d[b]]
  /\ UNCHANGED disabled

\* the destination of b accepts a batch of submissions; one dropped from
\* the queue may still arrive from an older journal, which is harmless
Ack(b, S) ==
  /\ S # {} /\ S \subseteq sent
  /\ acked' = [acked EXCEPT ![b] = @ \cup S]
  /\ UNCHANGED <<sent, dropped, disabled>>

Disable(b) ==
  /\ b \notin disabled
  /\ disabled' = disabled \cup {b}
  /\ UNCHANGED <<sent, acked, dropped>>

Pending(b) == sent \ (acked[b] \cup dropped[b])

\* the process starts again, which lifts every permanent rejection; after
\* a crash each backend may have lost some of its pending submissions
Restart ==
  /\ disabled' = {}
  /\ \E d \in [Backends -> SUBSET sent] :
       /\ \A b \in Backends : d[b] \subseteq Pending(b)
       /\ dropped' = [b \in Backends |-> dropped[b] \cup d[b]]
  /\ UNCHANGED <<sent, acked>>

Next ==
  \/ \E id \in Ids : Produce(id)
  \/ \E b \in Backends, S \in SUBSET Ids : Ack(b, S)
  \/ \E b \in Backends : Disable(b)
  \/ Restart

\* a healthy backend does not leave a submission pending forever
Fairness ==
  \A b \in Backends, id \in Ids :
    WF_avars(b \notin disabled /\ id \in Pending(b) /\ Ack(b, {id}))

Spec == Init /\ [][Next]_avars /\ Fairness

====
