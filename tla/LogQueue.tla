------------------------------- MODULE LogQueue -------------------------------
(***************************************************************************)
(* The queue between the event-loop threads that log and the one daemon     *)
(* thread that persists (logging/handler.py).                               *)
(*                                                                         *)
(* A record reaches the handler once for every logger on its way to the     *)
(* root.  What persist_event does with one is the module LogStore.          *)
(***************************************************************************)
EXTENDS Naturals, Sequences, FiniteSets

CONSTANTS Emitters,     \* event-loop threads that log
          Workers,      \* worker threads the process can start
          LogRecords,   \* records, numbered in the order they are first emitted
          QueueSize     \* _ASYNC_QUEUE_MAXSIZE

NoWorker == "no worker"

ASSUME QueueBounds ==
  /\ LogRecords \in Nat /\ QueueSize \in Nat \ {0}
  /\ NoWorker \notin Workers

Stop == 0                      \* the sentinel of shutdown_async_worker
Items == 0..LogRecords

VARIABLES next,       \* the next record to be emitted
          emitter,    \* what each thread is doing
          queue,      \* _async_queue
          unfinished, \* its unfinished_tasks
          worker,     \* the worker threads
          current,    \* _async_worker
          accepted,   \* history: records put in the queue, in order
          done,       \* history: records persisted, in order
          flush       \* a flush_async call: what it waits for, or its answer

queueVars == <<next, emitter, queue, unfinished, worker, current, accepted, done,
               flush>>

NewRecords == 1..LogRecords

Emitter == [at: {"idle", "put", "again"}, record: Items]
Worker == [at: {"none", "get", "persist", "done", "ended"}, item: Items]
Flush == [at: {"idle", "waiting", "true"}, seen: SUBSET NewRecords]

QueueTypeOK ==
  /\ next \in 1..(LogRecords + 1)
  /\ emitter \in [Emitters -> Emitter]
  /\ queue \in Seq(Items) /\ Len(queue) <= QueueSize
  /\ unfinished \in Nat
  /\ worker \in [Workers -> Worker] /\ current \in Workers \cup {NoWorker}
  /\ accepted \in Seq(NewRecords) /\ done \in Seq(NewRecords)
  /\ flush \in Flush

QueueInit ==
  /\ next = 1
  /\ emitter = [t \in Emitters |-> [at |-> "idle", record |-> 0]]
  /\ queue = <<>> /\ unfinished = 0
  /\ worker = [w \in Workers |-> [at |-> "none", item |-> 0]] /\ current = NoWorker
  /\ accepted = <<>> /\ done = <<>>
  /\ flush = [at |-> "idle", seen |-> {}]

Elements(s) == {s[i] : i \in 1..Len(s)}

-----------------------------------------------------------------------------
(* emit, in an event loop.                                                 *)

Alive(w) == worker[w].at \in {"get", "persist", "done"}

\* The slip of starting a worker without looking for one.
AlwaysNeeded == TRUE

\* _ensure_async_worker, under its lock: one worker that is alive is enough.
Needed == current = NoWorker \/ ~Alive(current)

EnsureWorker ==
  IF Needed
  THEN \E w \in {x \in Workers : worker[x].at = "none"} :
         /\ worker' = [worker EXCEPT ![w] = [at |-> "get", item |-> 0]]
         /\ current' = w
  ELSE UNCHANGED <<worker, current>>

\* The first handler on the record's way: the record is marked as captured.
Emit(t) ==
  /\ emitter[t].at = "idle" /\ next <= LogRecords
  /\ next' = next + 1
  /\ EnsureWorker
  /\ emitter' = [emitter EXCEPT ![t] = [at |-> "put", record |-> next]]
  /\ UNCHANGED <<queue, unfinished, accepted, done, flush>>

\* put_nowait: a full queue drops the newest record, with a line on stderr.
Enqueue(t) ==
  LET r == emitter[t].record IN
  /\ emitter[t].at = "put"
  /\ emitter' = [emitter EXCEPT ![t].at = "again"]
  /\ IF Len(queue) < QueueSize
     THEN /\ queue' = Append(queue, r)
          /\ unfinished' = unfinished + 1
          /\ accepted' = Append(accepted, r)
     ELSE UNCHANGED <<queue, unfinished, accepted>>
  /\ UNCHANGED <<next, worker, current, done, flush>>

\* The handler of the root logger finds the mark and returns.
EmitAgain(t) ==
  /\ emitter[t].at = "again"
  /\ emitter' = [emitter EXCEPT ![t].at = "idle"]
  /\ UNCHANGED <<next, queue, unfinished, worker, current, accepted, done, flush>>

-----------------------------------------------------------------------------
(* The worker.                                                             *)

Get(w) ==
  /\ worker[w].at = "get" /\ queue # <<>>
  /\ queue' = Tail(queue)
  /\ worker' = [worker EXCEPT ![w] = [at |-> IF Head(queue) = Stop THEN "done" ELSE "persist",
                                      item |-> Head(queue)]]
  /\ UNCHANGED <<next, emitter, unfinished, current, accepted, done, flush>>

\* The record is persisted, is empty, or fails; each ends in the finally clause.
Store(w) ==
  /\ worker[w].at = "persist"
  /\ worker' = [worker EXCEPT ![w].at = "done"]
  /\ done' = Append(done, worker[w].item)
  /\ UNCHANGED <<next, emitter, queue, unfinished, current, accepted, flush>>

\* task_done, and the next round or, after the sentinel, the end of the thread.
TaskDone(w) ==
  /\ worker[w].at = "done"
  /\ unfinished' = unfinished - 1
  /\ worker' = [worker EXCEPT ![w] =
                  [at |-> IF @.item = Stop THEN "ended" ELSE "get", item |-> 0]]
  /\ UNCHANGED <<next, emitter, queue, current, accepted, done, flush>>

\* shutdown_async_worker: the sentinel is queued behind what waits there.
Shutdown ==
  /\ current # NoWorker /\ Alive(current)
  /\ Stop \notin Elements(queue)
  /\ Len(queue) < QueueSize
  /\ queue' = Append(queue, Stop)
  /\ unfinished' = unfinished + 1
  /\ UNCHANGED <<next, emitter, worker, current, accepted, done, flush>>

-----------------------------------------------------------------------------
(* flush_async.                                                            *)

\* The slip of waiting for an empty queue.
QueueEmpty == queue = <<>>

Quiet == unfinished = 0

FlushStart ==
  /\ flush.at = "idle"
  /\ flush' = [at |-> "waiting", seen |-> Elements(accepted)]
  /\ UNCHANGED <<next, emitter, queue, unfinished, worker, current, accepted, done>>

\* It answers that all is written, or its deadline passes.
FlushEnd ==
  /\ flush.at = "waiting"
  /\ flush' = IF Quiet THEN [flush EXCEPT !.at = "true"] ELSE [at |-> "idle", seen |-> {}]
  /\ UNCHANGED <<next, emitter, queue, unfinished, worker, current, accepted, done>>

-----------------------------------------------------------------------------
QueueNext ==
  \/ \E t \in Emitters : Emit(t) \/ Enqueue(t) \/ EmitAgain(t)
  \/ \E w \in Workers : Get(w) \/ Store(w) \/ TaskDone(w)
  \/ Shutdown \/ FlushStart \/ FlushEnd

QueueSpec == QueueInit /\ [][QueueNext]_queueVars

-----------------------------------------------------------------------------
(* Properties.                                                             *)

\* Records are persisted once each, in the order the queue accepted them: workers
\* that end and start again never work side by side or take a record twice.
StoredInOrder == \E n \in 0..Len(accepted) : done = SubSeq(accepted, 1, n)

\* flush_async answers True only when every record queued before it was called
\* has been handled, not just taken from the queue.
FlushedIsStored == flush.at = "true" => flush.seen \subseteq Elements(done)

=============================================================================
