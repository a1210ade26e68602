----------------------------- MODULE SseStream -----------------------------
(***************************************************************************)
(* SuperAPI: one http::SseStream, between the handler that writes events   *)
(* and the loop thread that announces the response stream and beats.       *)
(* Each method body under mutex_ is one step. enqueueUnlocked calls        *)
(* sendError, which locks mutex_ again, when the buffer overflows: whoever *)
(* gets there keeps the mutex for ever (`jammed`) and everyone else waits. *)
(***************************************************************************)
EXTENDS Integers, Sequences, SequencesExt, SeqMeasures

CONSTANTS
  MaxBuffered,  \* options_.maxBufferedBytes, in the unit of frame sizes
  MaxBeats      \* bound: heartbeats a run may see

ASSUME SseAssumption == MaxBuffered \in Nat /\ MaxBeats \in Nat

VARIABLES
  script,       \* the calls the handler makes on its stream
  made,         \* how many of them it has made
  ready,        \* streamReady_: drogon has given the response stream
  closed,       \* closed_
  pending,      \* pending_
  buffered,     \* bufferedBytes_
  timer,        \* the heartbeat timer is armed
  wire,         \* what the response stream took
  cut,          \* the response stream refused a frame: the client is gone
  jammed        \* a thread is waiting for the mutex it holds

sseVars == <<script, made, ready, closed, pending, buffered, timer, wire, cut, jammed>>

Event(kind, size) == [kind |-> kind, size |-> size]
Retry5000 == Event("retry", 1)
Beat == Event("heartbeat", 1)
Closing == Event("close", 0)

\* respondWithPayload sends a delta and sendDone (an event, then close);
\* respondWithError sends an error and close.
Scripts ==
  UNION {{<<Event("delta", n), Event("done", 1), Closing>>, <<Event("error", n), Closing>>} :
           n \in 1..(MaxBuffered + 1)}

SseInit ==
  /\ script \in Scripts
  /\ made = 0
  /\ ready = FALSE /\ closed = FALSE
  /\ pending = <<>> /\ buffered = 0
  /\ timer = FALSE
  /\ wire = <<>> /\ cut = FALSE /\ jammed = FALSE

-----------------------------------------------------------------------------
Sizes(frames) == [i \in 1..Len(frames) |-> frames[i].size]

\* Faulty variant: what went out stays in the queue.
FlushAndKeep(isReady, queue, bytes) ==
  /\ pending' = queue /\ buffered' = bytes
  /\ wire' = IF isReady THEN wire \o queue ELSE wire
  /\ UNCHANGED <<closed, cut>>

\* Faulty variant: what went out is still counted.
FlushUncounted(isReady, queue, bytes) ==
  /\ pending' = (IF isReady THEN <<>> ELSE queue)
  /\ buffered' = bytes
  /\ wire' = IF isReady THEN wire \o queue ELSE wire
  /\ UNCHANGED <<closed, cut>>

\* flushUnlocked, once the queue holds `queue` and bufferedBytes_ is `bytes`: frame by
\* frame everything goes out and is taken off the count, unless the stream is not there
\* yet or refuses a frame; a refusal ends the SseStream and resets the count.
Flush(isReady, queue, bytes) ==
  \/ /\ ~isReady
     /\ pending' = queue /\ buffered' = bytes
     /\ UNCHANGED <<closed, wire, cut>>
  \/ /\ isReady
     /\ pending' = <<>> /\ buffered' = bytes - Total(Sizes(queue))
     /\ wire' = wire \o queue
     /\ UNCHANGED <<closed, cut>>
  \/ /\ isReady
     /\ pending' = <<>> /\ buffered' = 0
     /\ \E n \in 0..(Len(queue) - 1) : wire' = wire \o SubSeq(queue, 1, n)
     /\ closed' = TRUE /\ cut' = TRUE

\* Faulty variant: closing leaves the timer alone.
TimerStays(armed) == armed

\* cancelHeartbeatUnlocked, called wherever closed_ is set.
CancelledIfClosed(armed) == armed /\ ~closed'

Overflows(e) == buffered + e.size > MaxBuffered

\* enqueueUnlocked: the size is checked before anything is flushed.
Enqueue(isReady, e) ==
  IF Overflows(e)
  THEN /\ jammed' = TRUE
       /\ pending' = Append(pending, e)
       /\ buffered' = buffered + e.size
       /\ UNCHANGED <<closed, wire, cut>>
  ELSE Flush(isReady, Append(pending, e), buffered + e.size) /\ UNCHANGED jammed

\* sendJsonEvent: what sendError and the first half of sendDone come down to.
SendEvent ==
  /\ ~jammed
  /\ made < Len(script) /\ script[made + 1] # Closing
  /\ made' = made + 1
  /\ IF closed
     THEN UNCHANGED <<closed, pending, buffered, wire, cut, jammed>>
     ELSE Enqueue(ready, script[made + 1])
  /\ timer' = CancelledIfClosed(timer)
  /\ UNCHANGED <<script, ready>>

\* What was not flushed is dropped.
Close ==
  /\ ~jammed
  /\ made < Len(script) /\ script[made + 1] = Closing
  /\ made' = made + 1
  /\ closed' = TRUE /\ pending' = <<>>
  /\ buffered' = IF closed THEN buffered ELSE 0
  /\ timer' = CancelledIfClosed(timer)
  /\ UNCHANGED <<script, ready, wire, cut, jammed>>

\* drogon may give the stream before, between or after the handler's calls. A closed
\* SseStream closes it; if the SseStream is gone the callback does, to the same effect.
OnStreamReady ==
  /\ ~jammed /\ ~ready /\ ~closed
  /\ ready' = TRUE
  /\ Enqueue(TRUE, Retry5000)
  /\ timer' = (~jammed' /\ CancelledIfClosed(TRUE))
  /\ UNCHANGED <<script, made>>

\* The timer's callback: a heartbeat is queued and counted without a look at the limit.
Heartbeat ==
  /\ ~jammed /\ timer /\ ~closed
  /\ Len(Selected(wire, {Beat})) < MaxBeats
  /\ Flush(ready, Append(pending, Beat), buffered + Beat.size)
  /\ timer' = CancelledIfClosed(timer)
  /\ UNCHANGED <<script, made, ready, jammed>>

SseNext == SendEvent \/ Close \/ OnStreamReady \/ Heartbeat

SseSpec == SseInit /\ [][SseNext]_sseVars

-----------------------------------------------------------------------------
(* Properties *)

SseTypeOK ==
  /\ script \in Scripts /\ made \in 0..Len(script)
  /\ {ready, closed, timer, cut, jammed} \subseteq BOOLEAN
  /\ buffered \in Nat

Events(frames) ==
  Selected(frames, [kind : {"delta", "error", "done"}, size : 1..(MaxBuffered + 1)])

Sent == Events(SubSeq(script, 1, made))

\* The client gets the handler's events in order, none twice, and once it has the
\* stream it gets every one the handler has sent, unless it leaves: closing right
\* after the last event loses nothing then (sendDone, flushUnlocked, close).
EventsArrive ==
  /\ IsPrefix(Events(wire), Sent)
  /\ ready /\ ~cut /\ ~jammed => Events(wire) = Sent

\* bufferedBytes_ is the size of what waits, through every frame added and taken off,
\* refusals, beats and closing, and the overflow path is entered exactly when more than
\* the limit waits: a count that drifted up, or below zero, where it wraps, would jam a
\* stream that has room (enqueueUnlocked, flushUnlocked, sendHeartbeatUnlocked, close).
BufferAccounted ==
  /\ buffered = Total(Sizes(pending))
  /\ jammed <=> Total(Sizes(pending)) > MaxBuffered

\* A stream that closed, by its handler or by a refused frame, at whatever moment of its
\* start, leaves no timer armed on the loop (it would fire until the server stops) and
\* nothing waiting.
ClosedIsQuiet == closed => ~timer /\ pending = <<>>
=============================================================================
