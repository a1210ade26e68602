------------------------------- MODULE Sender -------------------------------
(***************************************************************************)
(* The client's Sender (Client/src/sender.hpp): the worker thread, the     *)
(* connections with their event loops, the retry queue, the slots of       *)
(* chunks in flight and stop().  The chunk queue is the FIFO channel that  *)
(* BoundedQueue implements; main is its only producer.                     *)
(*                                                                         *)
(* Threads: main; the worker; for every connection a runner, the thread in *)
(* io_context.run().  A completion handler (on_chunk_success or            *)
(* on_chunk_failure, then release_slot) runs step by step on the runner or *)
(* on the worker, which runs the event loop itself while it connects.      *)
(*                                                                         *)
(* The worker holds retry_mutex_ from the evaluation of retry_cv_'s        *)
(* predicate until wait() has put it to sleep ("dozing"); slots are        *)
(* released and retry_cv_ is notified without that mutex.  Notifying       *)
(* inflight_cv_ is part of the step that releases the slot: its predicate  *)
(* is read and its waiter put to sleep under inflight_mutex_.              *)
(***************************************************************************)
EXTENDS Naturals, Sequences, FiniteSets

CONSTANTS
    Chunks,
    Connections,   \* options_.connections
    MaxAttempts,   \* max_attempts()
    None,          \* no task
    MaxFailures    \* bound: failing connects and writes

ASSUME SenderAssumption ==
    /\ IsFiniteSet(Chunks)
    /\ Connections \in Nat \ {0}
    /\ MaxAttempts \in Nat \ {0}
    /\ MaxFailures \in Nat

Conns == 1..Connections
Worker == 0
Threads == Conns \cup {Worker}
Task == [chunk : Chunks, attempt : 1..MaxAttempts]

ASSUME NoneAssumption == None \notin Task

VARIABLES
    queue, closed,   \* queue_
    retry,           \* retry_queue_
    inflight,
    finishing,
    stop,            \* the worker's stop token
    main,            \* where the main thread is
    worker,          \* the worker's place, task and connection
    next,            \* next_connection_index_
    up,              \* connections whose socket is open, their runner running
    ops,             \* per connection: sends dispatched to its strand
    handler,         \* per thread: the completion handler it runs
    fate,            \* history: what became of each chunk
    failures         \* what MaxFailures counts

channelVars == <<queue, closed, main>>
vars == <<channelVars, retry, inflight, finishing, stop, worker, next, up, ops,
          handler, fate, failures>>

Idle == [at |-> "none", task |-> None]
Run(t, step, task) == handler' = [handler EXCEPT ![t] = [at |-> step, task |-> task]]

\* The worker goes on, keeping its task and connection.
WorkerAt(place) == worker.at = place /\ handler[Worker] = Idle
WorkerTo(place) == worker' = [worker EXCEPT !.at = place]

Fails == failures < MaxFailures /\ failures' = failures + 1
Settle(task, f) == fate' = [fate EXCEPT ![task.chunk] = f]
-----------------------------------------------------------------------------
(* main: pushes chunks, closes the queue, stops the sender.                *)

Enqueue(c) ==
    /\ main = "running"
    /\ fate[c] = "new"
    /\ fate' = [fate EXCEPT ![c] = "accepted"]
    /\ queue' = Append(queue, c)
    /\ UNCHANGED <<closed, main, retry, inflight, finishing, stop, worker, next,
                   up, ops, handler, failures>>

CloseQueue ==
    /\ main = "running"
    /\ main' = "closing" /\ closed' = TRUE
    /\ UNCHANGED <<queue, retry, inflight, finishing, stop, worker, next, up, ops,
                   handler, fate, failures>>

\* stop(): request_stop wakes nobody ...
RequestStop ==
    /\ main = "closing"
    /\ main' = "joining" /\ stop' = TRUE
    /\ UNCHANGED <<queue, closed, retry, inflight, finishing, worker, next, up, ops,
                   handler, fate, failures>>

\* ... join the worker ...
JoinWorker ==
    /\ main = "joining" /\ WorkerAt("done")
    /\ main' = "waiting"
    /\ UNCHANGED <<queue, closed, retry, inflight, finishing, stop, worker, next,
                   up, ops, handler, fate, failures>>

\* ... wait_for_inflight_zero and stop the connections, joining the runners.
StopConnections ==
    /\ main = "waiting" /\ inflight = 0
    /\ \A k \in Conns : handler[k] = Idle
    /\ main' = "stopped" /\ up' = {}
    /\ UNCHANGED <<queue, closed, retry, inflight, finishing, stop, worker, next,
                   ops, handler, fate, failures>>
-----------------------------------------------------------------------------
(* The worker: run().                                                      *)

\* The loop's condition.
LeaveLoop ==
    /\ WorkerAt("top") /\ stop
    /\ WorkerTo("done")
    /\ UNCHANGED <<channelVars, retry, inflight, finishing, stop, next, up, ops,
                   handler, fate, failures>>

\* Faulty variant: front() without pop().
PeekRetry ==
    /\ WorkerAt("top") /\ ~stop /\ retry # <<>>
    /\ worker' = [worker EXCEPT !.at = "slot", !.task = Head(retry)]
    /\ UNCHANGED <<channelVars, retry, inflight, finishing, stop, next, up, ops,
                   handler, fate, failures>>

TakeRetry ==
    /\ WorkerAt("top") /\ ~stop /\ retry # <<>>
    /\ retry' = Tail(retry)
    /\ worker' = [worker EXCEPT !.at = "slot", !.task = Head(retry)]
    /\ UNCHANGED <<channelVars, inflight, finishing, stop, next, up, ops, handler,
                   fate, failures>>

NoRetry ==
    /\ WorkerAt("top") /\ ~stop /\ retry = <<>>
    /\ WorkerTo("pop")
    /\ UNCHANGED <<channelVars, retry, inflight, finishing, stop, next, up, ops,
                   handler, fate, failures>>

\* queue_.pop(), which blocks while the queue is open and empty.
PopChunk ==
    /\ WorkerAt("pop") /\ queue # <<>>
    /\ queue' = Tail(queue)
    /\ worker' = [worker EXCEPT !.at = "slot",
                    !.task = [chunk |-> Head(queue), attempt |-> 1]]
    /\ UNCHANGED <<closed, main, retry, inflight, finishing, stop, next, up, ops,
                   handler, fate, failures>>

PopNothing ==
    /\ WorkerAt("pop") /\ queue = <<>> /\ closed
    /\ finishing' = TRUE
    /\ WorkerTo("finish")
    /\ UNCHANGED <<channelVars, retry, inflight, stop, next, up, ops, handler, fate,
                   failures>>

MayFinish == stop \/ retry # <<>> \/ inflight = 0

\* Faulty variant: the retry queue is not looked at again.
FinishAtOnce ==
    /\ WorkerAt("finish") /\ MayFinish
    /\ WorkerTo("done")
    /\ UNCHANGED <<channelVars, retry, inflight, finishing, stop, next, up, ops,
                   handler, fate, failures>>

\* The predicate of retry_cv_ is true: stop, retry or leave.
Finish ==
    /\ WorkerAt("finish") /\ MayFinish
    /\ IF ~stop /\ retry # <<>>
       THEN WorkerTo("top") /\ finishing' = FALSE
       ELSE WorkerTo("done") /\ UNCHANGED finishing
    /\ UNCHANGED <<channelVars, retry, inflight, stop, next, up, ops, handler, fate,
                   failures>>

\* The predicate is false; the mutex is still held.
Doze ==
    /\ WorkerAt("finish") /\ ~MayFinish
    /\ WorkerTo("dozing")
    /\ UNCHANGED <<channelVars, retry, inflight, finishing, stop, next, up, ops,
                   handler, fate, failures>>

\* From here on a notification reaches the worker.
FallAsleep ==
    /\ WorkerAt("dozing")
    /\ WorkerTo("asleep")
    /\ UNCHANGED <<channelVars, retry, inflight, finishing, stop, next, up, ops,
                   handler, fate, failures>>

\* acquire_slot: a slot, sleep on inflight_cv_, or give up the chunk.
AcquireSlot ==
    /\ WorkerAt("slot")
    /\ \/ /\ stop
          /\ worker' = [worker EXCEPT !.at = "done", !.task = None]
          /\ Settle(worker.task, "discarded")
          /\ UNCHANGED <<inflight, next>>
       \/ /\ ~stop /\ inflight < Connections
          /\ inflight' = inflight + 1
          /\ worker' = [worker EXCEPT !.at = "connect", !.conn = next]
          /\ next' = (next % Connections) + 1
          /\ UNCHANGED fate
       \/ /\ ~stop /\ inflight >= Connections
          /\ WorkerTo("no_slot")
          /\ UNCHANGED <<inflight, next, fate>>
    /\ UNCHANGED <<channelVars, retry, finishing, stop, up, ops, handler, failures>>

\* ensure_connected: the socket is open ...
Connected ==
    /\ WorkerAt("connect") /\ worker.conn \in up
    /\ WorkerTo("dispatch")
    /\ UNCHANGED <<channelVars, retry, inflight, finishing, stop, next, up, ops,
                   handler, fate, failures>>

\* ... or the former runner is out of its handler, nothing is left in the
\* event loop, and a connection is made or refused max_connect_attempts times.
Connect ==
    /\ WorkerAt("connect") /\ worker.conn \notin up
    /\ handler[worker.conn] = Idle /\ ops[worker.conn] = {}
    /\ \/ /\ up' = up \cup {worker.conn}
          /\ WorkerTo("dispatch")
          /\ UNCHANGED failures
       \/ Fails /\ WorkerTo("unconnected") /\ UNCHANGED up
    /\ UNCHANGED <<channelVars, retry, inflight, finishing, stop, next, ops,
                   handler, fate>>

\* While it connects the worker runs what a stopped event loop has left: the
\* completion of a write that was cut off (its close() takes the new socket
\* away), or a send that was not started, which then goes over the new socket.
RunLeftover(o) ==
    LET k == worker.conn
    IN  /\ WorkerAt("connect") /\ k \notin up
        /\ handler[k] = Idle /\ o \in ops[k]
        /\ ops' = [ops EXCEPT ![k] = @ \ {o}]
        /\ \/ /\ Settle(o.task, "sent") /\ Run(Worker, "release", o.task)
              /\ IF o.at = "posted" /\ ops[k] = {o}
                 THEN up' = up \cup {k} /\ WorkerTo("dispatch")
                 ELSE UNCHANGED <<up, worker>>
              /\ UNCHANGED failures
           \/ /\ Run(Worker, "failed", o.task)
              /\ IF o.at = "posted" THEN Fails ELSE UNCHANGED failures
              /\ \/ WorkerTo("unconnected")
                 \/ o.at = "posted" /\ UNCHANGED worker
              /\ UNCHANGED <<up, fate>>
        /\ UNCHANGED <<channelVars, retry, inflight, finishing, stop, next>>

\* ensure_connected throws: on_chunk_failure on this thread.
ConnectThrows ==
    /\ WorkerAt("unconnected")
    /\ Run(Worker, "failed", worker.task)
    /\ worker' = [worker EXCEPT !.at = "top", !.task = None]
    /\ UNCHANGED <<channelVars, retry, inflight, finishing, stop, next, up, ops,
                   fate, failures>>

\* async_send_chunk: dispatch to the strand, whatever the loop does by then.
Dispatch ==
    /\ WorkerAt("dispatch")
    /\ ops' = [ops EXCEPT ![worker.conn] = @ \cup {[at |-> "posted", task |-> worker.task]}]
    /\ worker' = [worker EXCEPT !.at = "top", !.task = None]
    /\ UNCHANGED <<channelVars, retry, inflight, finishing, stop, next, up, handler,
                   fate, failures>>
-----------------------------------------------------------------------------
(* The runners and the completion handlers.                                *)

RunnerReady(k) == k \in up /\ handler[k] = Idle

\* The dispatched operation starts async_write.
StartWrite(k, o) ==
    /\ RunnerReady(k)
    /\ o \in ops[k] /\ o.at = "posted"
    /\ ops' = [ops EXCEPT ![k] = (@ \ {o}) \cup {[o EXCEPT !.at = "writing"]}]
    /\ UNCHANGED <<channelVars, retry, inflight, finishing, stop, worker, next, up,
                   handler, fate, failures>>

WriteDone(k, o) ==
    /\ RunnerReady(k)
    /\ o \in ops[k] /\ o.at = "writing"
    /\ ops' = [ops EXCEPT ![k] = @ \ {o}]
    /\ Settle(o.task, "sent")
    /\ Run(k, "release", o.task)
    /\ UNCHANGED <<channelVars, retry, inflight, finishing, stop, worker, next, up,
                   failures>>

\* The write fails: close() stops the event loop of the connection, with the
\* other sends of that connection in it.
WriteFails(k, o) ==
    /\ RunnerReady(k)
    /\ o \in ops[k] /\ o.at = "writing"
    /\ Fails
    /\ ops' = [ops EXCEPT ![k] = @ \ {o}]
    /\ up' = up \ {k}
    /\ Run(k, "failed", o.task)
    /\ UNCHANGED <<channelVars, retry, inflight, finishing, stop, worker, next, fate>>

\* Faulty variant: one attempt more.
OneMore(t) == t.attempt > MaxAttempts

LastAttempt(t) == t.attempt >= MaxAttempts

\* Faulty variant: a dropped chunk keeps its slot.
DropWithSlot(t) ==
    LET task == handler[t].task
    IN  /\ handler[t].at = "failed"
        /\ \/ /\ LastAttempt(task)
              /\ Settle(task, "dropped")
              /\ Run(t, "none", None)
              /\ UNCHANGED <<retry, worker>>
           \/ /\ ~LastAttempt(task)
              /\ worker.at # "dozing"
              /\ retry' = Append(retry, [task EXCEPT !.attempt = @ + 1])
              /\ worker' = [worker EXCEPT !.at = IF @ = "asleep" THEN "finish" ELSE @]
              /\ Run(t, "release", task)
              /\ UNCHANGED fate
        /\ UNCHANGED <<channelVars, inflight, finishing, stop, next, up, ops, failures>>

\* on_chunk_failure: drop the chunk, or queue it again and notify retry_cv_.
HandleFailure(t) ==
    LET task == handler[t].task
    IN  /\ handler[t].at = "failed"
        /\ \/ /\ LastAttempt(task)
              /\ Settle(task, "dropped")
              /\ UNCHANGED <<retry, worker>>
           \/ /\ ~LastAttempt(task)
              /\ worker.at # "dozing"
              /\ retry' = Append(retry, [task EXCEPT !.attempt = @ + 1])
              /\ worker' = [worker EXCEPT !.at = IF @ = "asleep" THEN "finish" ELSE @]
              /\ UNCHANGED fate
        /\ Run(t, "release", task)
        /\ UNCHANGED <<channelVars, inflight, finishing, stop, next, up, ops, failures>>

\* Faulty variant: inflight_cv_ is not notified.
ReleaseSilently(t) ==
    /\ handler[t].at = "release"
    /\ inflight' = IF inflight > 0 THEN inflight - 1 ELSE inflight
    /\ IF inflight' = 0 /\ finishing
       THEN Run(t, "notify", handler[t].task)
       ELSE Run(t, "none", None)
    /\ UNCHANGED <<channelVars, retry, finishing, stop, worker, next, up, ops, fate,
                   failures>>

\* release_slot, and the waiter of inflight_cv_ is woken.
ReleaseSlot(t) ==
    /\ handler[t].at = "release"
    /\ inflight' = IF inflight > 0 THEN inflight - 1 ELSE inflight
    /\ worker' = [worker EXCEPT !.at = IF @ = "no_slot" THEN "slot" ELSE @]
    /\ IF inflight' = 0 /\ finishing
       THEN Run(t, "notify", handler[t].task)
       ELSE Run(t, "none", None)
    /\ UNCHANGED <<channelVars, retry, finishing, stop, next, up, ops, fate, failures>>

\* retry_cv_.notify_all(), without retry_mutex_.
NotifyRetry(t) ==
    /\ handler[t].at = "notify"
    /\ worker' = [worker EXCEPT !.at = IF @ = "asleep" THEN "finish" ELSE @]
    /\ Run(t, "none", None)
    /\ UNCHANGED <<channelVars, retry, inflight, finishing, stop, next, up, ops, fate,
                   failures>>

Init ==
    /\ queue = <<>> /\ closed = FALSE /\ main = "running"
    /\ retry = <<>> /\ inflight = 0 /\ finishing = FALSE /\ stop = FALSE
    /\ worker = [at |-> "top", task |-> None, conn |-> 1]
    /\ next = 1 /\ up = {}
    /\ ops = [k \in Conns |-> {}]
    /\ handler = [t \in Threads |-> Idle]
    /\ fate = [c \in Chunks |-> "new"]
    /\ failures = 0

StopStep == RequestStop \/ JoinWorker \/ StopConnections

WorkerStep ==
    \/ LeaveLoop \/ TakeRetry \/ NoRetry \/ PopChunk \/ PopNothing
    \/ Finish \/ Doze \/ FallAsleep \/ AcquireSlot
    \/ Connected \/ Connect \/ ConnectThrows \/ Dispatch
    \/ \E o \in ops[worker.conn] : RunLeftover(o)

RunnerStep(k) ==
    \E o \in ops[k] : StartWrite(k, o) \/ WriteDone(k, o) \/ WriteFails(k, o)

HandlerStep(t) == HandleFailure(t) \/ ReleaseSlot(t) \/ NotifyRetry(t)

\* A condition variable may wake the worker for no reason.
SpuriousWakeup ==
    /\ worker.at \in {"asleep", "no_slot"}
    /\ WorkerTo(IF worker.at = "asleep" THEN "finish" ELSE "slot")
    /\ UNCHANGED <<channelVars, retry, inflight, finishing, stop, next, up, ops,
                   handler, fate, failures>>

Next ==
    \/ CloseQueue \/ StopStep \/ \E c \in Chunks : Enqueue(c)
    \/ WorkerStep
    \/ \E k \in Conns : RunnerStep(k)
    \/ \E t \in Threads : HandlerStep(t)
    \/ SpuriousWakeup

Spec == Init /\ [][Next]_vars

\* Threads are scheduled, handlers run on, writes and connects succeed or fail
\* in the end.  Nobody needs to enqueue a chunk or to stop the client.
Fairness ==
    /\ WF_vars(StopStep)
    /\ WF_vars(WorkerStep)
    /\ \A k \in Conns : WF_vars(RunnerStep(k))
    /\ \A t \in Threads : WF_vars(HandlerStep(t))

FairSpec == Spec /\ Fairness
-----------------------------------------------------------------------------
(* Properties.                                                             *)

Op == [at : {"posted", "writing"}, task : Task]
WorkerPlaces ==
    {"top", "pop", "finish", "dozing", "asleep", "slot", "no_slot", "connect",
     "unconnected", "dispatch", "done"}
Fates == {"new", "accepted", "sent", "dropped", "discarded"}

\* The values of the variables; no task is tried more than max_attempts()
\* times, no more than options_.connections chunks are in flight.
TypeOK ==
    /\ queue \in Seq(Chunks) /\ closed \in BOOLEAN
    /\ retry \in Seq(Task)
    /\ inflight \in 0..Connections
    /\ finishing \in BOOLEAN /\ stop \in BOOLEAN
    /\ main \in {"running", "closing", "joining", "waiting", "stopped"}
    /\ worker \in [at : WorkerPlaces, task : Task \cup {None}, conn : Conns]
    /\ next \in Conns
    /\ up \subseteq Conns
    /\ ops \in [Conns -> SUBSET Op]
    /\ handler \in [Threads -> [at : {"none", "failed", "release", "notify"},
                                task : Task \cup {None}]]
    /\ fate \in [Chunks -> Fates]
    /\ failures \in 0..MaxFailures

\* The sends of all connections.
Sends == UNION {{k} \X ops[k] : k \in Conns}

Handling(steps) == {t \in Threads : handler[t].at \in steps}

WorkerHasSlot == worker.at \in {"connect", "unconnected", "dispatch"}

\* inflight_ counts exactly the chunks on their way: one per dispatched send,
\* per completion handler that has not released yet and for the chunk the
\* worker is connecting for.  No slot leaks, none is released twice, whichever
\* thread runs the handler.
SlotsAccounted ==
    inflight = Cardinality(Sends) + Cardinality(Handling({"failed", "release"}))
                 + (IF WorkerHasSlot THEN 1 ELSE 0)

\* How often chunk c is held somewhere in the sender.
Copies(c) ==
    Cardinality({i \in DOMAIN queue : queue[i] = c})
      + Cardinality({i \in DOMAIN retry : retry[i].chunk = c})
      + Cardinality({x \in Sends : x[2].task.chunk = c})
      + Cardinality({t \in Handling({"failed"}) : handler[t].task.chunk = c})
      + (IF worker.task # None /\ worker.task.chunk = c THEN 1 ELSE 0)

\* A chunk main has pushed is in exactly one place until it is sent, dropped
\* after its last attempt or discarded by stop, and nowhere afterwards: none is
\* lost or sent by two tasks, through retries and broken connections.
OnePlace ==
    \A c \in Chunks : Copies(c) = IF fate[c] = "accepted" THEN 1 ELSE 0

\* When the worker leaves of its own accord, because the queue is closed,
\* nothing is waiting for another attempt and nothing is in flight, every chunk
\* was sent or dropped after its last attempt.
FinishLosesNothing ==
    worker.at = "done" /\ ~stop => \A c \in Chunks : fate[c] # "accepted"

\* While connections are healthy and main goes on, every chunk is sent: a
\* worker waiting for a slot is always woken.
HealthySends ==
    \A c \in Chunks :
        (fate[c] = "accepted") ~> (fate[c] = "sent" \/ failures > 0 \/ stop)

\* A chunk put on the retry queue is tried again.
RetriedEventually ==
    \A c \in Chunks :
        (\E i \in DOMAIN retry : retry[i].chunk = c)
            ~> (closed \/ \A i \in DOMAIN retry : retry[i].chunk # c)

\* stop() joins the worker, waits for what is in flight and returns.
StopReturns == stop ~> (main = "stopped")
=============================================================================
