----------------------------- MODULE Scrobbler -----------------------------
(***************************************************************************)
(* The delivery engine of spec.md (sections 4.3, 4.4, 5 and 7): the        *)
(* MultiScrobbler broadcasts each submission of Instance::OnMpdEnded to    *)
(* every backend; a file sink writes it at once, a network backend queues *)
(* it (bounded, the oldest unsent entry evicted), handshakes, submits     *)
(* batches oldest first and classifies the reply; the journals are saved *)
(* by the periodic timer and at shutdown and reloaded at start.  Of this  *)
(* only main and Instance's journal timer are in src/src/Main.cxx; the    *)
(* rest follows the spec.                                                  *)
(*                                                                         *)
(* A submission is an id, ids in the order the tracker produced them.     *)
(* Backoff delays are kept as numbers; the time they wait is not.         *)
(***************************************************************************)
EXTENDS Naturals, Sequences, SequencesExt, FiniteSets

CONSTANTS
  Backends,     \* the configured backends
  Files,        \* the file sinks among them
  MaxIds,       \* submissions produced in a run
  Capacity,     \* bound of a queue
  MaxBatch,     \* the protocol's batch size
  BaseDelay,    \* backoff: first delay
  MaxDelay,     \* backoff: cap
  MaxRestarts,  \* process stops and starts in a run
  Crashes,      \* may the process die without its final journal save?
  Damages       \* may a record of a journal file become unreadable?

ASSUME /\ Files \subseteq Backends
       /\ 0 < MaxBatch /\ MaxBatch < Capacity
       /\ 0 < BaseDelay /\ BaseDelay <= MaxDelay
       /\ Crashes \in BOOLEAN /\ Damages \in BOOLEAN

Ids      == 1..MaxIds
Network  == Backends \ Files
States   == {"idle", "handshaking", "ready", "submitting", "retry_handshake",
             "retry_submit", "disabled"}

VARIABLES
  next,       \* the id of the next submission
  queue,      \* queue[b]: b's pending submissions, oldest first
  batch,      \* batch[b]: the queue heads the request in flight carries
  state,      \* state[b]: the protocol state of b
  delay,      \* delay[b]: the current backoff delay
  journal,    \* journal[b]: b's journal file, a sequence of records
  restarts,   \* stops and starts so far
  delivered,  \* history: delivered[b], what b's destination accepted
  evicted,    \* history: evicted[b], what b's queue dropped for room
  unsaved,    \* history: unsaved[b], what a crash lost from b's queue
  discarded   \* history: discarded[b], what b's load skipped as malformed

vars == <<next, queue, batch, state, delay, journal, restarts, delivered,
          evicted, unsaved, discarded>>

-----------------------------------------------------------------------------
(* MultiScrobbler::SongChange and the backends' queues                     *)

\* mutant: the oldest entry is evicted even when it is in flight
EvictOldest(b) == 1

\* the oldest entry not in the batch being submitted
EvictOldestUnsent(b) == Len(batch[b]) + 1

Admit(b, id) ==
  IF Len(queue[b]) < Capacity THEN <<Append(queue[b], id), {}>>
  ELSE LET i == EvictOldestUnsent(b)
       IN  <<Append(RemoveAt(queue[b], i), id), {queue[b][i]}>>

SongChange ==
  LET id == next
      adm == [b \in Network |-> Admit(b, id)]
  IN  /\ next <= MaxIds
      /\ next' = next + 1
      /\ queue' = [b \in Backends |-> IF b \in Files THEN <<>> ELSE adm[b][1]]
      /\ evicted' = [b \in Backends |->
                       IF b \in Files THEN evicted[b] ELSE evicted[b] \cup adm[b][2]]
      /\ delivered' = [b \in Backends |->
                         IF b \in Files THEN delivered[b] \cup {id}
                         ELSE delivered[b]]
      /\ UNCHANGED <<batch, state, delay, journal, restarts, unsaved, discarded>>

-----------------------------------------------------------------------------
(* A network backend                                                       *)

Set(b, st) == state' = [state EXCEPT ![b] = st]
\* mutant: the delay doubles without its cap
BackoffUncapped(b) == delay' = [delay EXCEPT ![b] = 2 * @]

Backoff(b) == delay' = [delay EXCEPT ![b] = IF 2 * @ > MaxDelay THEN MaxDelay
                                                ELSE 2 * @]
ResetDelay(b) == delay' = [delay EXCEPT ![b] = BaseDelay]

StartHandshake(b) ==
  /\ state[b] = "idle"
  /\ Set(b, "handshaking")
  /\ UNCHANGED <<next, queue, batch, delay, journal, restarts, delivered,
                 evicted, unsaved, discarded>>

HandshakeDone(b, outcome) ==
  /\ state[b] = "handshaking"
  /\ CASE outcome = "ok"        -> Set(b, "ready") /\ ResetDelay(b)
       [] outcome = "transient" -> Set(b, "retry_handshake") /\ Backoff(b)
       [] outcome = "hard"      -> Set(b, "disabled") /\ UNCHANGED delay
  /\ UNCHANGED <<next, queue, batch, journal, restarts, delivered, evicted,
                 unsaved, discarded>>

\* mutant: only a full batch is submitted
SubmittableFullBatch(b) == Len(queue[b]) > MaxBatch

\* while Ready and the queue is non-empty, the backend submits
Submittable(b) == queue[b] # <<>>

Submit(b) ==
  /\ state[b] = "ready" /\ Submittable(b)
  /\ Set(b, "submitting")
  /\ batch' = [batch EXCEPT ![b] = SubSeq(queue[b], 1, Min({Len(queue[b]), MaxBatch}))]
  /\ UNCHANGED <<next, queue, delay, journal, restarts, delivered, evicted,
                 unsaved, discarded>>

\* an accepted batch leaves the queue: as many heads as it carried
Accepted(b) == SubSeq(queue[b], Len(batch[b]) + 1, Len(queue[b]))

\* mutant: a failed batch is put back at the tail of the queue
RetainedRequeued(b) == Accepted(b) \o batch[b]

\* a failed batch stays at the head of the queue
Retained(b) == queue[b]

\* the reply to a batch; "lost": the destination took it but the reply did
\* not arrive, which the backend can only treat as a transient failure
Response(b, outcome) ==
  /\ state[b] = "submitting"
  /\ delivered' = IF outcome \in {"accepted", "lost"}
                  THEN [delivered EXCEPT ![b] = @ \cup Range(batch[b])]
                  ELSE delivered
  /\ queue' = [queue EXCEPT ![b] = IF outcome = "accepted" THEN Accepted(b)
                                   ELSE Retained(b)]
  /\ batch' = [batch EXCEPT ![b] = <<>>]
  /\ CASE outcome = "accepted" -> Set(b, "ready") /\ ResetDelay(b)
       [] outcome = "session"  -> Set(b, "idle") /\ UNCHANGED delay
       [] outcome \in {"transient", "lost"} ->
                                   Set(b, "retry_submit") /\ Backoff(b)
       [] outcome = "hard"     -> Set(b, "disabled") /\ UNCHANGED delay
  /\ UNCHANGED <<next, journal, restarts, evicted, unsaved, discarded>>

\* the backoff timer fires
Wake(b) ==
  /\ state[b] \in {"retry_handshake", "retry_submit"}
  /\ Set(b, IF state[b] = "retry_handshake" THEN "idle" ELSE "ready")
  /\ UNCHANGED <<next, queue, batch, delay, journal, restarts, delivered,
                 evicted, unsaved, discarded>>

-----------------------------------------------------------------------------
(* Journals, shutdown and crash                                            *)

\* a journal holds one record per pending submission; a record the loader
\* cannot read keeps, as history, the id it was written for
Record(id)  == [id |-> id, ok |-> TRUE]
Records(q)  == [i \in DOMAIN q |-> Record(q[i])]
JournalIds(j)     == {j[i].id : i \in DOMAIN j}

\* mutant: one malformed record makes the whole journal load as empty
LoadJournalAbort(j) ==
  IF \A i \in DOMAIN j : j[i].ok THEN [i \in DOMAIN j |-> j[i].id] ELSE <<>>

\* loading a journal skips its malformed records and keeps the others in
\* order (spec section 7, Data errors)
LoadJournal(j) ==
  LET wellFormed(r) == r.ok
      kept == SelectSeq(j, wellFormed)
  IN  [i \in DOMAIN kept |-> kept[i].id]

\* Instance's save_journal_timer fires every save_journal_interval and
\* calls MultiScrobbler::WriteJournal: every backend replaces its journal
SaveJournal ==
  /\ journal' = [b \in Backends |-> Records(queue[b])]
  /\ UNCHANGED <<next, queue, batch, state, delay, restarts, delivered,
                 evicted, unsaved, discarded>>

\* the process starts again: each backend reloads its journal, with no
\* session and the base delay; in-flight requests are abandoned
Reload(saved) ==
  /\ queue' = saved
  /\ batch' = [b \in Backends |-> <<>>]
  /\ state' = [b \in Backends |-> "idle"]
  /\ delay' = [b \in Backends |-> BaseDelay]
  /\ restarts' = restarts + 1

\* main: instance.Run() returns, instance.scrobblers.WriteJournal() saves
\* every queue, the process exits and is started again
Shutdown ==
  /\ restarts < MaxRestarts
  /\ journal' = [b \in Backends |-> Records(queue[b])]
  /\ Reload([b \in Backends |-> LoadJournal(Records(queue[b]))])
  /\ UNCHANGED <<next, delivered, evicted, unsaved, discarded>>

\* the process dies (killed, power loss) without the final save: what was
\* queued after the last WriteJournal and is still pending is lost
Crash ==
  /\ Crashes /\ restarts < MaxRestarts
  /\ Reload([b \in Backends |-> LoadJournal(journal[b])])
  /\ unsaved' = [b \in Backends |->
                   unsaved[b] \cup ((Range(queue[b]) \ JournalIds(journal[b]))
                                     \ (delivered[b] \cup evicted[b]))]
  /\ discarded' = [b \in Backends |->
                     discarded[b] \cup ({journal[b][i].id :
                                          i \in {k \in DOMAIN journal[b] :
                                                  ~journal[b][k].ok}}
                                         \ (delivered[b] \cup evicted[b]))]
  /\ UNCHANGED <<next, journal, delivered, evicted>>

\* a record of a journal file on disk becomes one the loader cannot read
\* (an edit by hand, a file of another version, a bad sector)
Damage ==
  /\ Damages
  /\ \E b \in Network, i \in 1..Capacity :
       /\ i \in DOMAIN journal[b] /\ journal[b][i].ok
       /\ journal' = [journal EXCEPT ![b][i].ok = FALSE]
  /\ UNCHANGED <<next, queue, batch, state, delay, restarts, delivered,
                 evicted, unsaved, discarded>>

-----------------------------------------------------------------------------

\* main reads the configuration and constructs the Instance: every backend
\* idle with an empty queue and no journal written yet
Init ==
  /\ next = 1
  /\ queue = [b \in Backends |-> <<>>]
  /\ batch = [b \in Backends |-> <<>>]
  /\ state = [b \in Backends |-> "idle"]
  /\ delay = [b \in Backends |-> BaseDelay]
  /\ journal = [b \in Backends |-> <<>>]
  /\ restarts = 0
  /\ delivered = [b \in Backends |-> {}]
  /\ evicted = [b \in Backends |-> {}]
  /\ unsaved = [b \in Backends |-> {}]
  /\ discarded = [b \in Backends |-> {}]

BackendStep(b) ==
  \/ StartHandshake(b)
  \/ \E o \in {"ok", "transient", "hard"} : HandshakeDone(b, o)
  \/ Submit(b)
  \/ \E o \in {"accepted", "lost", "session", "transient", "hard"} :
       Response(b, o)
  \/ Wake(b)

Next ==
  \/ SongChange
  \/ \E b \in Network : BackendStep(b)
  \/ SaveJournal \/ Shutdown \/ Crash \/ Damage

\* the timers and completions of the event loop run; the periodic journal
\* save comes; a destination that is only temporarily unavailable
\* eventually accepts a handshake and a batch
Fairness ==
  /\ WF_vars(SaveJournal)
  /\ \A b \in Network :
       /\ WF_vars(StartHandshake(b)) /\ WF_vars(Submit(b)) /\ WF_vars(Wake(b))
       /\ WF_vars(\E o \in {"ok", "transient", "hard"} : HandshakeDone(b, o))
       /\ WF_vars(\E o \in {"accepted", "lost", "session", "transient", "hard"} :
                   Response(b, o))
       /\ SF_vars(HandshakeDone(b, "ok")) /\ SF_vars(Response(b, "accepted"))

Spec == Init /\ [][Next]_vars /\ Fairness

-----------------------------------------------------------------------------

TypeOK ==
  /\ next \in 1..MaxIds + 1
  /\ queue \in [Backends -> Seq(Ids)]
  /\ journal \in [Backends -> Seq([id : Ids, ok : BOOLEAN])]
  /\ \A b \in Backends : Len(queue[b]) <= Capacity /\ Len(batch[b]) <= MaxBatch
  /\ \A b \in Files : queue[b] = <<>>
  /\ state \in [Backends -> States]
  /\ delay \in [Backends -> BaseDelay..MaxDelay]
  /\ restarts \in 0..MaxRestarts
  /\ delivered \in [Backends -> SUBSET Ids] /\ evicted \in [Backends -> SUBSET Ids]
  /\ unsaved \in [Backends -> SUBSET Ids] /\ discarded \in [Backends -> SUBSET Ids]

\* A queue keeps its submissions oldest first, each once (spec section 3,
\* Queue): appends, evictions, accepted and failed batches, journal saves and
\* reloads after a crash never reorder or repeat an entry, and the request
\* in flight carries the queue's heads.
QueueOrdered ==
  \A b \in Network :
    /\ \A i, j \in DOMAIN queue[b] : i < j => queue[b][i] < queue[b][j]
    /\ IsPrefix(batch[b], queue[b])

\* No submission is lost (spec section 7): every submission produced is,
\* for every network backend, still queued, accepted by its destination,
\* evicted for room, lost by a crash before a journal save saw it, or
\* skipped at a load because its own record was malformed; accepting,
\* retrying, abandoning at shutdown and reloading drop nothing, and a bad
\* record costs no other entry of its journal.
NoSubmissionLost ==
  \A b \in Network, id \in 1..next - 1 :
    id \in Range(queue[b]) \cup delivered[b] \cup evicted[b] \cup unsaved[b]
              \cup discarded[b]

\* The backends implement at-least-once delivery (module Delivery): every
\* step is a broadcast, an acceptance, a permanent rejection or a restart,
\* and a backend that is not disabled delivers every submission it did
\* not evict and no crash lost.
D == INSTANCE Delivery WITH
       Ids <- Ids,
       sent <- 1..next - 1,
       acked <- delivered,
       dropped <- [b \in Backends |-> evicted[b] \cup unsaved[b] \cup discarded[b]],
       disabled <- {b \in Backends : state[b] = "disabled"}

Refines == D!Spec

====
