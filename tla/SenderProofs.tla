---------------------------- MODULE SenderProofs ----------------------------
(***************************************************************************)
(* Theorems about Sender, for any chunks, connections and attempts: its    *)
(* types; where a chunk is; the slots, and the end of the worker.          *)
(***************************************************************************)
EXTENDS Sender, TLAPS, FiniteSetTheorems

(***************************************************************************)
(* Types. They alone are not inductive: a task is handed on only if        *)
(* whoever hands it on has one (Equipped).                                 *)
(***************************************************************************)

WorkerType == [at : WorkerPlaces, task : Task \cup {None}, conn : Conns]
HandlerType == [at : {"none", "failed", "release", "notify"}, task : Task \cup {None}]

\* The worker has a task from the moment it took one until it hands it on, and a
\* handler works on the task of its send.
Equipped ==
  /\ worker.at \in {"slot", "no_slot", "connect", "unconnected", "dispatch"} => worker.task \in Task
  /\ \A t \in Threads : handler[t].at # "none" => handler[t].task \in Task

TypeInv == TypeOK /\ Equipped

LEMMA InitTyped == Init => TypeInv
<1>. SUFFICES ASSUME Init PROVE TypeInv
  OBVIOUS
<1>1. worker \in [at : WorkerPlaces, task : Task \cup {None}, conn : Conns] /\ next \in Conns
  <2>1. 1 \in Conns
    BY SenderAssumption DEF Conns
  <2>2. "top" \in WorkerPlaces
    BY DEF WorkerPlaces
  <2>3. worker = [at |-> "top", task |-> None, conn |-> 1] /\ next = 1
    BY DEF Init
  <2>. QED
    BY <2>1, <2>2, <2>3
<1>2. Idle \in [at : {"none", "failed", "release", "notify"}, task : Task \cup {None}]
  BY DEF Idle
<1>3. TypeOK
  <2>1. queue \in Seq(Chunks) /\ retry \in Seq(Task)
    BY DEF Init
  <2>2. inflight \in 0..Connections /\ failures \in 0..MaxFailures
    BY SenderAssumption DEF Init
  <2>3. up \subseteq Conns /\ ops \in [Conns -> SUBSET Op]
    BY DEF Init
  <2>4. handler \in [Threads -> [at : {"none", "failed", "release", "notify"},
                                 task : Task \cup {None}]]
    BY <1>2 DEF Init
  <2>5. fate \in [Chunks -> Fates]
    BY DEF Init, Fates
  <2>. QED
    BY <1>1, <2>1, <2>2, <2>3, <2>4, <2>5 DEF Init, TypeOK
<1>4. Equipped
  BY DEF Init, Equipped, Idle
<1>. QED
  BY <1>3, <1>4 DEF TypeInv

-----------------------------------------------------------------------------
(* What the actions share *)

\* The worker only moves: its task stays, and is there where it has to be.
LEMMA Moves ==
  ASSUME TypeInv, NEW place \in WorkerPlaces, WorkerTo(place),
         place \in {"slot", "no_slot", "connect", "unconnected", "dispatch"} => worker.task \in Task
  PROVE  /\ worker' \in WorkerType
         /\ worker'.at \in {"slot", "no_slot", "connect", "unconnected", "dispatch"}
              => worker'.task \in Task
BY DEF TypeInv, TypeOK, WorkerTo, WorkerType

\* A handler takes its next step, or ends.
LEMMA Runs ==
  ASSUME TypeInv, NEW t \in Threads, NEW step \in {"failed", "release", "notify"},
         NEW task \in Task, Run(t, step, task)
  PROVE  /\ handler' \in [Threads -> HandlerType]
         /\ \A u \in Threads : handler'[u].at # "none" => handler'[u].task \in Task
BY DEF TypeInv, TypeOK, Equipped, Run, HandlerType

LEMMA Ends ==
  ASSUME TypeInv, NEW t \in Threads, Run(t, "none", None)
  PROVE  /\ handler' \in [Threads -> HandlerType]
         /\ \A u \in Threads : handler'[u].at # "none" => handler'[u].task \in Task
BY DEF TypeInv, TypeOK, Equipped, Run, HandlerType

LEMMA Settles ==
  ASSUME TypeInv, NEW task \in Task, NEW f \in Fates, Settle(task, f)
  PROVE  fate' \in [Chunks -> Fates]
BY DEF TypeInv, TypeOK, Settle, Task

LEMMA FailsCounted ==
  ASSUME TypeInv, Fails
  PROVE  failures' \in 0..MaxFailures
BY SenderAssumption DEF TypeInv, TypeOK, Fails

LEMMA OpTask ==
  ASSUME TypeInv, NEW k \in Conns, NEW o \in ops[k]
  PROVE  o \in Op /\ o.task \in Task
BY DEF TypeInv, TypeOK, Op

-----------------------------------------------------------------------------
(* main *)

LEMMA MainStep ==
  ASSUME TypeInv, CloseQueue \/ StopStep \/ \E c \in Chunks : Enqueue(c)
  PROVE  TypeInv'
<1>1. CASE CloseQueue
  BY <1>1 DEF CloseQueue, TypeInv, TypeOK, Equipped
<1>2. CASE RequestStop
  BY <1>2 DEF RequestStop, TypeInv, TypeOK, Equipped
<1>3. CASE JoinWorker
  BY <1>3 DEF JoinWorker, TypeInv, TypeOK, Equipped
<1>4. CASE StopConnections
  BY <1>4 DEF StopConnections, TypeInv, TypeOK, Equipped
<1>5. ASSUME NEW c \in Chunks, Enqueue(c) PROVE TypeInv'
  BY <1>5 DEF Enqueue, TypeInv, TypeOK, Equipped, Fates
<1>. QED
  BY <1>1, <1>2, <1>3, <1>4, <1>5 DEF StopStep

-----------------------------------------------------------------------------
(* The worker *)

LEMMA WorkerMoves ==
  ASSUME TypeInv, LeaveLoop \/ NoRetry \/ PopNothing \/ Finish \/ Doze \/ FallAsleep \/ Connected
                    \/ SpuriousWakeup
  PROVE  TypeInv'
<1>1. /\ \E place \in WorkerPlaces :
           /\ WorkerTo(place)
           /\ place \in {"slot", "no_slot", "connect", "unconnected", "dispatch"} => worker.task \in Task
      /\ finishing' \in BOOLEAN
      /\ UNCHANGED <<channelVars, retry, inflight, stop, next, up, ops, handler, fate, failures>>
  <2>1. CASE LeaveLoop
    BY <2>1 DEF LeaveLoop, TypeInv, TypeOK, WorkerPlaces
  <2>2. CASE NoRetry
    BY <2>2 DEF NoRetry, TypeInv, TypeOK, WorkerPlaces
  <2>3. CASE PopNothing
    BY <2>3 DEF PopNothing, TypeInv, TypeOK, WorkerPlaces
  <2>4. CASE Finish
    BY <2>4 DEF Finish, TypeInv, TypeOK, WorkerPlaces
  <2>5. CASE Doze
    BY <2>5 DEF Doze, TypeInv, TypeOK, WorkerPlaces
  <2>6. CASE FallAsleep
    BY <2>6 DEF FallAsleep, TypeInv, TypeOK, WorkerPlaces
  <2>7. CASE Connected
    BY <2>7 DEF Connected, WorkerAt, TypeInv, TypeOK, Equipped, WorkerPlaces
  <2>8. CASE SpuriousWakeup
    BY <2>8 DEF SpuriousWakeup, TypeInv, TypeOK, Equipped, WorkerPlaces
  <2>. QED
    BY <2>1, <2>2, <2>3, <2>4, <2>5, <2>6, <2>7, <2>8
<1>. QED
  BY <1>1, Moves DEF TypeInv, TypeOK, Equipped, WorkerType, channelVars

LEMMA WorkerTakes ==
  ASSUME TypeInv, TakeRetry \/ PopChunk
  PROVE  TypeInv'
<1>1. CASE TakeRetry
  <2>1. Head(retry) \in Task /\ Tail(retry) \in Seq(Task)
    BY <1>1 DEF TakeRetry, TypeInv, TypeOK
  <2>2. worker' \in WorkerType /\ worker'.task \in Task
    BY <1>1, <2>1 DEF TakeRetry, TypeInv, TypeOK, WorkerType, WorkerPlaces
  <2>. QED
    BY <1>1, <2>1, <2>2 DEF TakeRetry, TypeInv, TypeOK, Equipped, WorkerType, channelVars
<1>2. CASE PopChunk
  <2>1. Head(queue) \in Chunks /\ Tail(queue) \in Seq(Chunks)
    BY <1>2 DEF PopChunk, TypeInv, TypeOK
  <2>2. [chunk |-> Head(queue), attempt |-> 1] \in Task
    BY <2>1, SenderAssumption DEF Task
  <2>3. worker' \in WorkerType /\ worker'.task \in Task
    BY <1>2, <2>2 DEF PopChunk, TypeInv, TypeOK, WorkerType, WorkerPlaces
  <2>. QED
    BY <1>2, <2>1, <2>3 DEF PopChunk, TypeInv, TypeOK, Equipped, WorkerType
<1>. QED
  BY <1>1, <1>2

LEMMA WorkerAcquires ==
  ASSUME TypeInv, AcquireSlot
  PROVE  TypeInv'
<1>1. worker.task \in Task
  BY DEF AcquireSlot, WorkerAt, TypeInv, Equipped
<1>2. UNCHANGED <<channelVars, retry, finishing, stop, up, ops, handler, failures>>
  BY DEF AcquireSlot
<1>3. worker' \in WorkerType /\ (worker'.task \in Task \/ worker'.at = "done")
  BY <1>1 DEF AcquireSlot, WorkerTo, TypeInv, TypeOK, WorkerType, WorkerPlaces
<1>4. inflight' \in 0..Connections
  BY SenderAssumption DEF AcquireSlot, TypeInv, TypeOK
<1>5. next' \in Conns
  BY SenderAssumption DEF AcquireSlot, TypeInv, TypeOK, Conns
<1>6. fate' \in [Chunks -> Fates]
  BY <1>1, Settles DEF AcquireSlot, TypeInv, TypeOK, Fates
<1>. QED
  BY <1>2, <1>3, <1>4, <1>5, <1>6 DEF TypeInv, TypeOK, Equipped, WorkerType, channelVars

LEMMA WorkerConnects ==
  ASSUME TypeInv, Connect \/ ConnectThrows \/ Dispatch
  PROVE  TypeInv'
<1>1. worker.task \in Task /\ worker.conn \in Conns
  BY DEF Connect, ConnectThrows, Dispatch, WorkerAt, TypeInv, TypeOK, Equipped
<1>2. CASE Connect
  <2>1. worker' \in WorkerType /\ worker'.task \in Task
    BY <1>1, <1>2 DEF Connect, WorkerTo, TypeInv, TypeOK, WorkerType, WorkerPlaces
  <2>2. up' \subseteq Conns /\ failures' \in 0..MaxFailures
    BY <1>1, <1>2, FailsCounted DEF Connect, TypeInv, TypeOK
  <2>. QED
    BY <1>2, <2>1, <2>2 DEF Connect, TypeInv, TypeOK, Equipped, WorkerType, channelVars
<1>3. CASE ConnectThrows
  <2>1. /\ handler' \in [Threads -> HandlerType]
        /\ \A u \in Threads : handler'[u].at # "none" => handler'[u].task \in Task
    BY <1>1, <1>3, Runs DEF ConnectThrows, Threads
  <2>2. worker' \in WorkerType /\ worker'.at = "top"
    BY <1>3 DEF ConnectThrows, TypeInv, TypeOK, WorkerType, WorkerPlaces
  <2>. QED
    BY <1>3, <2>1, <2>2 DEF ConnectThrows, TypeInv, TypeOK, Equipped, WorkerType, HandlerType, channelVars
<1>4. CASE Dispatch
  <2>1. [at |-> "posted", task |-> worker.task] \in Op
    BY <1>1 DEF Op
  <2>2. ops' \in [Conns -> SUBSET Op]
    BY <1>1, <1>4, <2>1 DEF Dispatch, TypeInv, TypeOK
  <2>3. worker' \in WorkerType /\ worker'.at = "top"
    BY <1>4 DEF Dispatch, TypeInv, TypeOK, WorkerType, WorkerPlaces
  <2>. QED
    BY <1>4, <2>2, <2>3 DEF Dispatch, TypeInv, TypeOK, Equipped, WorkerType, channelVars
<1>. QED
  BY <1>2, <1>3, <1>4

LEMMA WorkerRunsLeftover ==
  ASSUME TypeInv, NEW o \in ops[worker.conn], RunLeftover(o)
  PROVE  TypeInv'
<1>. DEFINE k == worker.conn
<1>1. k \in Conns /\ worker.task \in Task
  BY DEF RunLeftover, WorkerAt, TypeInv, TypeOK, Equipped
<1>2. o.task \in Task
  BY <1>1, OpTask
<1>3. ops' \in [Conns -> SUBSET Op]
  BY <1>1 DEF RunLeftover, TypeInv, TypeOK
<1>4. worker' \in WorkerType /\ worker'.task \in Task
  BY <1>1 DEF RunLeftover, WorkerTo, TypeInv, TypeOK, WorkerType, WorkerPlaces
<1>5. \E step \in {"failed", "release"} : Run(Worker, step, o.task)
  BY DEF RunLeftover
<1>6. /\ handler' \in [Threads -> HandlerType]
      /\ \A u \in Threads : handler'[u].at # "none" => handler'[u].task \in Task
  BY <1>2, <1>5, Runs DEF Threads
<1>7. fate' \in [Chunks -> Fates]
  BY <1>2, Settles DEF RunLeftover, TypeInv, TypeOK, Fates
<1>8. up' \subseteq Conns
  BY <1>1 DEF RunLeftover, TypeInv, TypeOK
<1>9. failures' \in 0..MaxFailures
  BY FailsCounted DEF RunLeftover, TypeInv, TypeOK
<1>10. UNCHANGED <<channelVars, retry, inflight, finishing, stop, next>>
  BY DEF RunLeftover
<1>. QED
  BY <1>3, <1>4, <1>6, <1>7, <1>8, <1>9, <1>10
     DEF TypeInv, TypeOK, Equipped, WorkerType, HandlerType, channelVars

-----------------------------------------------------------------------------
(* The runners and the handlers *)

LEMMA RunnerTyped ==
  ASSUME TypeInv, NEW k \in Conns, RunnerStep(k)
  PROVE  TypeInv'
<1>. PICK o \in ops[k] : StartWrite(k, o) \/ WriteDone(k, o) \/ WriteFails(k, o)
  BY DEF RunnerStep
<1>1. o \in Op /\ o.task \in Task
  BY OpTask
<1>2. CASE StartWrite(k, o)
  <2>1. [o EXCEPT !.at = "writing"] \in Op
    BY <1>1 DEF Op
  <2>2. ops' \in [Conns -> SUBSET Op]
    BY <1>2, <2>1 DEF StartWrite, TypeInv, TypeOK
  <2>. QED
    BY <1>2, <2>2 DEF StartWrite, TypeInv, TypeOK, Equipped, channelVars
<1>3. CASE WriteDone(k, o) \/ WriteFails(k, o)
  <2>1. ops' \in [Conns -> SUBSET Op] /\ up' \subseteq Conns
    BY <1>3 DEF WriteDone, WriteFails, TypeInv, TypeOK
  <2>2. \E step \in {"failed", "release"} : Run(k, step, o.task)
    BY <1>3 DEF WriteDone, WriteFails
  <2>3. /\ handler' \in [Threads -> HandlerType]
        /\ \A u \in Threads : handler'[u].at # "none" => handler'[u].task \in Task
    BY <1>1, <2>2, Runs DEF Threads
  <2>4. fate' \in [Chunks -> Fates]
    BY <1>1, <1>3, Settles DEF WriteDone, WriteFails, TypeInv, TypeOK, Fates
  <2>5. failures' \in 0..MaxFailures
    BY <1>3, FailsCounted DEF WriteDone, WriteFails, TypeInv, TypeOK
  <2>6. UNCHANGED <<channelVars, retry, inflight, finishing, stop, worker, next>>
    BY <1>3 DEF WriteDone, WriteFails
  <2>. QED
    BY <2>1, <2>3, <2>4, <2>5, <2>6 DEF TypeInv, TypeOK, Equipped, HandlerType, channelVars
<1>. QED
  BY <1>2, <1>3

\* A task that is not at its last attempt has another one.
LEMMA AnotherAttempt ==
  ASSUME NEW task \in Task, ~LastAttempt(task)
  PROVE  [task EXCEPT !.attempt = @ + 1] \in Task
BY SenderAssumption DEF Task, LastAttempt

LEMMA HandlerTyped ==
  ASSUME TypeInv, NEW t \in Threads, HandlerStep(t)
  PROVE  TypeInv'
<1>1. handler[t].task \in Task
  BY DEF HandlerStep, HandleFailure, ReleaseSlot, NotifyRetry, TypeInv, Equipped
<1>2. CASE HandleFailure(t)
  <2>. DEFINE task == handler[t].task
  <2>1. retry' \in Seq(Task)
    <3>1. retry \in Seq(Task)
      BY DEF TypeInv, TypeOK
    <3>2. CASE LastAttempt(task)
      BY <1>2, <3>1, <3>2 DEF HandleFailure
    <3>3. CASE ~LastAttempt(task)
      <4>1. retry' = Append(retry, [task EXCEPT !.attempt = @ + 1])
        BY <1>2, <3>3 DEF HandleFailure
      <4>2. [task EXCEPT !.attempt = @ + 1] \in Task
        BY <1>1, <3>3, AnotherAttempt
      <4>. QED
        BY <3>1, <4>1, <4>2
    <3>. QED
      BY <3>2, <3>3
  <2>2. /\ worker' \in WorkerType
        /\ worker'.at \in {"slot", "no_slot", "connect", "unconnected", "dispatch"}
             => worker'.task \in Task
    BY <1>2 DEF HandleFailure, TypeInv, TypeOK, Equipped, WorkerType, WorkerPlaces
  <2>3. /\ handler' \in [Threads -> HandlerType]
        /\ \A u \in Threads : handler'[u].at # "none" => handler'[u].task \in Task
    BY <1>1, <1>2, Runs DEF HandleFailure
  <2>4. fate' \in [Chunks -> Fates]
    BY <1>1, <1>2, Settles DEF HandleFailure, TypeInv, TypeOK, Fates
  <2>. QED
    BY <1>2, <2>1, <2>2, <2>3, <2>4
       DEF HandleFailure, TypeInv, TypeOK, Equipped, WorkerType, HandlerType, channelVars
<1>3. CASE ReleaseSlot(t) \/ NotifyRetry(t)
  <2>1. inflight' \in 0..Connections
    BY <1>3, SenderAssumption DEF ReleaseSlot, NotifyRetry, TypeInv, TypeOK
  <2>2. /\ worker' \in WorkerType
        /\ worker'.at \in {"slot", "no_slot", "connect", "unconnected", "dispatch"}
             => worker'.task \in Task
    BY <1>3 DEF ReleaseSlot, NotifyRetry, TypeInv, TypeOK, Equipped, WorkerType, WorkerPlaces
  <2>3. Run(t, "notify", handler[t].task) \/ Run(t, "none", None)
    BY <1>3 DEF ReleaseSlot, NotifyRetry
  <2>4. /\ handler' \in [Threads -> HandlerType]
        /\ \A u \in Threads : handler'[u].at # "none" => handler'[u].task \in Task
    BY <1>1, <2>3, Runs, Ends
  <2>5. UNCHANGED <<channelVars, retry, finishing, stop, next, up, ops, fate, failures>>
    BY <1>3 DEF ReleaseSlot, NotifyRetry
  <2>. QED
    BY <2>1, <2>2, <2>4, <2>5 DEF TypeInv, TypeOK, Equipped, WorkerType, HandlerType, channelVars
<1>. QED
  BY <1>2, <1>3 DEF HandlerStep

-----------------------------------------------------------------------------
LEMMA NextTyped == TypeInv /\ [Next]_vars => TypeInv'
<1>. SUFFICES ASSUME TypeInv, [Next]_vars PROVE TypeInv'
  OBVIOUS
<1>1. CASE UNCHANGED vars
  BY <1>1 DEF vars, channelVars, TypeInv, TypeOK, Equipped
<1>2. CASE WorkerStep
  BY <1>2, WorkerMoves, WorkerTakes, WorkerAcquires, WorkerConnects, WorkerRunsLeftover
     DEF WorkerStep
<1>. QED
  BY <1>1, <1>2, MainStep, WorkerMoves, RunnerTyped, HandlerTyped DEF Next

\* The values of the variables: no task is tried more than max_attempts() times, no more
\* than options_.connections chunks are in flight, for any number of chunks and
\* connections, whatever fails (on_chunk_failure, acquire_slot).
THEOREM TypeCorrect == Spec => []TypeOK
<1>1. TypeInv => TypeOK
  BY DEF TypeInv
<1>. QED
  BY <1>1, InitTyped, NextTyped, PTL DEF Spec

-----------------------------------------------------------------------------
(***************************************************************************)
(* What becomes of a chunk. The chunks in the places of the sender are     *)
(* sets here: no place holds a chunk twice, and the places partition the   *)
(* accepted ones. The numbers of copies and of slots follow from that.     *)
(***************************************************************************)

Queued == {queue[i] : i \in DOMAIN queue}
Retried == {retry[i].chunk : i \in DOMAIN retry}
Sending == {x[2].task.chunk : x \in Sends}
Failing == {handler[t].task.chunk : t \in Handling({"failed"})}
Carried == {task.chunk : task \in {worker.task} \ {None}}
Accepted == {c \in Chunks : fate[c] = "accepted"}

QueueOnce == \A i, j \in DOMAIN queue : queue[i] = queue[j] => i = j
RetryOnce == \A i, j \in DOMAIN retry : retry[i].chunk = retry[j].chunk => i = j
SendOnce == \A x, y \in Sends : x[2].task.chunk = y[2].task.chunk => x = y
FailOnce ==
  \A t, u \in Handling({"failed"}) : handler[t].task.chunk = handler[u].task.chunk => t = u

Partition ==
  /\ Accepted = Queued \cup Retried \cup Sending \cup Failing \cup Carried
  /\ Queued \cap (Retried \cup Sending \cup Failing \cup Carried) = {}
  /\ Retried \cap (Sending \cup Failing \cup Carried) = {}
  /\ Sending \cap (Failing \cup Carried) = {}
  /\ Failing \cap Carried = {}

\* The worker lets a task go before it takes another.
HandsFree ==
  worker.at \notin {"slot", "no_slot", "connect", "unconnected", "dispatch"} => worker.task = None

OnceEach == QueueOnce /\ RetryOnce /\ SendOnce /\ FailOnce

PlaceInv == TypeInv /\ HandsFree /\ OnceEach /\ Partition

-----------------------------------------------------------------------------
(* Sequences and sets *)

LEMMA TailOfQueue ==
  ASSUME NEW S, NEW s \in Seq(S), s # <<>>,
         \A i, j \in DOMAIN s : s[i] = s[j] => i = j
  PROVE  /\ \A i, j \in DOMAIN Tail(s) : Tail(s)[i] = Tail(s)[j] => i = j
         /\ {Tail(s)[i] : i \in DOMAIN Tail(s)} = {s[i] : i \in DOMAIN s} \ {Head(s)}
         /\ Head(s) \in {s[i] : i \in DOMAIN s}
<1>1. /\ DOMAIN s = 1..Len(s) /\ Len(s) \in Nat /\ Len(s) # 0
      /\ Head(s) = s[1]
  OBVIOUS
<1>2. /\ DOMAIN Tail(s) = 1..(Len(s) - 1)
      /\ \A i \in 1..(Len(s) - 1) : Tail(s)[i] = s[i + 1]
  <2>1. Tail(s) \in Seq(S) /\ Len(Tail(s)) = Len(s) - 1
    OBVIOUS
  <2>. QED
    BY <1>1, <2>1
<1>3. \A i, j \in DOMAIN Tail(s) : Tail(s)[i] = Tail(s)[j] => i = j
  BY <1>1, <1>2
<1>4. ASSUME NEW i \in DOMAIN Tail(s)
      PROVE  Tail(s)[i] \in {s[j] : j \in DOMAIN s} \ {Head(s)}
  <2>1. i + 1 \in DOMAIN s /\ Tail(s)[i] = s[i + 1] /\ i + 1 # 1 /\ 1 \in DOMAIN s
    BY <1>1, <1>2
  <2>. QED
    BY <1>1, <2>1
<1>5. ASSUME NEW j \in DOMAIN s, s[j] # Head(s)
      PROVE  s[j] \in {Tail(s)[i] : i \in DOMAIN Tail(s)}
  <2>1. j - 1 \in DOMAIN Tail(s) /\ Tail(s)[j - 1] = s[j]
    BY <1>1, <1>2, <1>5
  <2>. QED
    BY <2>1
<1>6. Head(s) \in {s[i] : i \in DOMAIN s}
  BY <1>1
<1>. QED
  BY <1>3, <1>4, <1>5, <1>6

LEMMA TailOfRetry ==
  ASSUME NEW s \in Seq(Task), s # <<>>,
         \A i, j \in DOMAIN s : s[i].chunk = s[j].chunk => i = j
  PROVE  /\ \A i, j \in DOMAIN Tail(s) : Tail(s)[i].chunk = Tail(s)[j].chunk => i = j
         /\ {Tail(s)[i].chunk : i \in DOMAIN Tail(s)}
              = {s[i].chunk : i \in DOMAIN s} \ {Head(s).chunk}
         /\ Head(s).chunk \in {s[i].chunk : i \in DOMAIN s}
<1>1. /\ DOMAIN s = 1..Len(s) /\ Len(s) \in Nat /\ Len(s) # 0
      /\ Head(s) = s[1]
  OBVIOUS
<1>2. /\ DOMAIN Tail(s) = 1..(Len(s) - 1)
      /\ \A i \in 1..(Len(s) - 1) : Tail(s)[i] = s[i + 1]
  <2>1. Tail(s) \in Seq(Task) /\ Len(Tail(s)) = Len(s) - 1
    OBVIOUS
  <2>. QED
    BY <1>1, <2>1
<1>3. \A i, j \in DOMAIN Tail(s) : Tail(s)[i].chunk = Tail(s)[j].chunk => i = j
  BY <1>1, <1>2
<1>4. ASSUME NEW i \in DOMAIN Tail(s)
      PROVE  Tail(s)[i].chunk \in {s[j].chunk : j \in DOMAIN s} \ {Head(s).chunk}
  <2>1. i + 1 \in DOMAIN s /\ Tail(s)[i] = s[i + 1] /\ i + 1 # 1 /\ 1 \in DOMAIN s
    BY <1>1, <1>2
  <2>. QED
    BY <1>1, <2>1
<1>5. ASSUME NEW j \in DOMAIN s, s[j].chunk # Head(s).chunk
      PROVE  s[j].chunk \in {Tail(s)[i].chunk : i \in DOMAIN Tail(s)}
  <2>1. j - 1 \in DOMAIN Tail(s) /\ Tail(s)[j - 1] = s[j]
    BY <1>1, <1>2, <1>5
  <2>. QED
    BY <2>1
<1>6. Head(s).chunk \in {s[i].chunk : i \in DOMAIN s}
  BY <1>1
<1>. QED
  BY <1>3, <1>4, <1>5, <1>6

LEMMA AppendToQueue ==
  ASSUME NEW S, NEW s \in Seq(S), NEW e \in S,
         \A i, j \in DOMAIN s : s[i] = s[j] => i = j,
         e \notin {s[i] : i \in DOMAIN s}
  PROVE  /\ \A i, j \in DOMAIN Append(s, e) : Append(s, e)[i] = Append(s, e)[j] => i = j
         /\ {Append(s, e)[i] : i \in DOMAIN Append(s, e)} = {s[i] : i \in DOMAIN s} \cup {e}
<1>1. /\ DOMAIN s = 1..Len(s) /\ Len(s) \in Nat
      /\ DOMAIN Append(s, e) = 1..(Len(s) + 1)
      /\ Append(s, e)[Len(s) + 1] = e
      /\ \A i \in 1..Len(s) : Append(s, e)[i] = s[i]
  OBVIOUS
<1>2. \A i \in 1..(Len(s) + 1) : i \in 1..Len(s) \/ i = Len(s) + 1
  BY <1>1
<1>3. Len(s) + 1 \in 1..(Len(s) + 1) /\ 1..Len(s) \subseteq 1..(Len(s) + 1)
  BY <1>1
<1>. QED
  BY <1>1, <1>2, <1>3

LEMMA AppendToRetry ==
  ASSUME NEW s \in Seq(Task), NEW e \in Task,
         \A i, j \in DOMAIN s : s[i].chunk = s[j].chunk => i = j,
         e.chunk \notin {s[i].chunk : i \in DOMAIN s}
  PROVE  /\ \A i, j \in DOMAIN Append(s, e) :
              Append(s, e)[i].chunk = Append(s, e)[j].chunk => i = j
         /\ {Append(s, e)[i].chunk : i \in DOMAIN Append(s, e)}
              = {s[i].chunk : i \in DOMAIN s} \cup {e.chunk}
<1>1. /\ DOMAIN s = 1..Len(s) /\ Len(s) \in Nat
      /\ DOMAIN Append(s, e) = 1..(Len(s) + 1)
      /\ Append(s, e)[Len(s) + 1] = e
      /\ \A i \in 1..Len(s) : Append(s, e)[i] = s[i]
  OBVIOUS
<1>2. \A i \in 1..(Len(s) + 1) : i \in 1..Len(s) \/ i = Len(s) + 1
  BY <1>1
<1>3. Len(s) + 1 \in 1..(Len(s) + 1) /\ 1..Len(s) \subseteq 1..(Len(s) + 1)
  BY <1>1
<1>. QED
  BY <1>1, <1>2, <1>3

LEMMA AtMostOne ==
  ASSUME NEW S, \A x, y \in S : x = y
  PROVE  IsFiniteSet(S) /\ Cardinality(S) = IF S = {} THEN 0 ELSE 1
<1>1. CASE S = {}
  BY <1>1, FS_EmptySet
<1>2. CASE S # {}
  <2>1. PICK x : S = {x}
    BY <1>2
  <2>. QED
    BY <2>1, FS_Singleton
<1>. QED
  BY <1>1, <1>2

-----------------------------------------------------------------------------
(* What one step does to a place *)

LEMMA Pairs ==
  ASSUME NEW f
  PROVE  \A x : x \in UNION {{k} \X f[k] : k \in Conns}
                  <=> \E k \in Conns : \E o \in f[k] : x = <<k, o>>
OBVIOUS

LEMMA Removed ==
  ASSUME TypeOK, SendOnce, NEW k \in Conns, NEW o \in ops[k],
         ops' = [ops EXCEPT ![k] = @ \ {o}]
  PROVE  /\ SendOnce' /\ Sending' = Sending \ {o.task.chunk}
         /\ o.task.chunk \in Sending
         /\ Sends' = Sends \ {<<k, o>>} /\ <<k, o>> \in Sends
<1>1. \A x : x \in Sends <=> \E l \in Conns : \E p \in ops[l] : x = <<l, p>>
  BY Pairs DEF Sends
<1>2. \A x : x \in Sends' <=> \E l \in Conns : \E p \in ops'[l] : x = <<l, p>>
  BY Pairs DEF Sends
<1>3. \A l \in Conns : ops'[l] = IF l = k THEN ops[l] \ {o} ELSE ops[l]
  BY DEF TypeOK
<1>4. Sends' = Sends \ {<<k, o>>}
  BY <1>1, <1>2, <1>3
<1>5. <<k, o>> \in Sends
  BY <1>1
<1>6. Sending' = Sending \ {o.task.chunk} /\ o.task.chunk \in Sending
  BY <1>4, <1>5 DEF Sending, SendOnce
<1>. QED
  BY <1>4, <1>5, <1>6 DEF SendOnce

LEMMA Added ==
  ASSUME TypeOK, SendOnce, NEW k \in Conns, NEW o \in Op, o.task.chunk \notin Sending,
         ops' = [ops EXCEPT ![k] = @ \cup {o}]
  PROVE  /\ SendOnce' /\ Sending' = Sending \cup {o.task.chunk}
         /\ Sends' = Sends \cup {<<k, o>>} /\ <<k, o>> \notin Sends
<1>1. \A x : x \in Sends <=> \E l \in Conns : \E p \in ops[l] : x = <<l, p>>
  BY Pairs DEF Sends
<1>2. \A x : x \in Sends' <=> \E l \in Conns : \E p \in ops'[l] : x = <<l, p>>
  BY Pairs DEF Sends
<1>3. \A l \in Conns : ops'[l] = IF l = k THEN ops[l] \cup {o} ELSE ops[l]
  BY DEF TypeOK
<1>4. Sends' = Sends \cup {<<k, o>>}
  BY <1>1, <1>2, <1>3
<1>5. <<k, o>> \notin Sends
  BY DEF Sending
<1>6. Sending' = Sending \cup {o.task.chunk}
  <2>1. <<k, o>>[2].task.chunk = o.task.chunk
    OBVIOUS
  <2>. QED
    BY <1>4, <2>1 DEF Sending
<1>7. \A x \in Sends : x[2].task.chunk # <<k, o>>[2].task.chunk
  BY DEF Sending
<1>8. SendOnce'
  BY <1>4, <1>7 DEF SendOnce
<1>. QED
  BY <1>4, <1>5, <1>6, <1>8

LEMMA Started ==
  ASSUME TypeOK, SendOnce, NEW k \in Conns, NEW o \in ops[k], NEW p \in Op,
         p # o, p.task = o.task,
         ops' = [ops EXCEPT ![k] = (@ \ {o}) \cup {p}]
  PROVE  /\ SendOnce' /\ Sending' = Sending
         /\ Sends' = (Sends \ {<<k, o>>}) \cup {<<k, p>>}
         /\ <<k, o>> \in Sends /\ <<k, p>> \notin Sends
<1>1. \A x : x \in Sends <=> \E l \in Conns : \E q \in ops[l] : x = <<l, q>>
  BY Pairs DEF Sends
<1>2. \A x : x \in Sends' <=> \E l \in Conns : \E q \in ops'[l] : x = <<l, q>>
  BY Pairs DEF Sends
<1>3. \A l \in Conns : ops'[l] = IF l = k THEN (ops[l] \ {o}) \cup {p} ELSE ops[l]
  BY DEF TypeOK
<1>4. <<k, o>> \in Sends
  BY <1>1
<1>5. <<k, p>> \notin Sends
  <2>1. <<k, p>> # <<k, o>>
    OBVIOUS
  <2>2. <<k, p>>[2].task.chunk = <<k, o>>[2].task.chunk
    OBVIOUS
  <2>. QED
    BY <1>4, <2>1, <2>2 DEF SendOnce
<1>6. Sends' = (Sends \ {<<k, o>>}) \cup {<<k, p>>}
  BY <1>1, <1>2, <1>3
<1>7. Sending' = Sending
  <2>1. <<k, p>>[2].task.chunk = <<k, o>>[2].task.chunk
    OBVIOUS
  <2>. QED
    BY <1>4, <1>6, <2>1 DEF Sending
<1>. QED
  BY <1>4, <1>5, <1>6, <1>7 DEF SendOnce

Busy == Handling({"failed", "release"})

\* The handler of thread t goes on to a step.
LEMMA HandlerSets ==
  ASSUME TypeOK, NEW t \in Threads, NEW step \in {"failed", "release", "notify", "none"},
         NEW task, Run(t, step, task)
  PROVE  /\ Handling({"failed"})' = IF step = "failed" THEN Handling({"failed"}) \cup {t}
                                    ELSE Handling({"failed"}) \ {t}
         /\ Busy' = IF step \in {"failed", "release"} THEN Busy \cup {t} ELSE Busy \ {t}
         /\ handler'[t].task = task
         /\ \A u \in Threads \ {t} : handler'[u] = handler[u]
BY DEF TypeOK, Run, Handling, Busy

LEMMA FailStarts ==
  ASSUME TypeOK, FailOnce, NEW t \in Threads, NEW task, Run(t, "failed", task),
         handler[t].at # "failed", task.chunk \notin Failing
  PROVE  FailOnce' /\ Failing' = Failing \cup {task.chunk}
<1>1. /\ Handling({"failed"})' = Handling({"failed"}) \cup {t}
      /\ handler'[t].task = task
      /\ \A u \in Threads \ {t} : handler'[u] = handler[u]
  BY HandlerSets
<1>2. t \notin Handling({"failed"}) /\ Handling({"failed"}) \subseteq Threads
  BY DEF Handling
<1>3. \A u \in Handling({"failed"}) :
        handler'[u] = handler[u] /\ handler[u].task.chunk \in Failing
  BY <1>1, <1>2 DEF Failing
<1>4. Failing' = Failing \cup {task.chunk}
  BY <1>1, <1>3 DEF Failing
<1>. QED
  BY <1>1, <1>3, <1>4 DEF FailOnce

LEMMA FailEnds ==
  ASSUME TypeOK, FailOnce, NEW t \in Threads, NEW step \in {"release", "notify", "none"},
         NEW task, Run(t, step, task), handler[t].at = "failed"
  PROVE  /\ FailOnce' /\ Failing' = Failing \ {handler[t].task.chunk}
         /\ handler[t].task.chunk \in Failing
<1>1. /\ Handling({"failed"})' = Handling({"failed"}) \ {t}
      /\ \A u \in Threads \ {t} : handler'[u] = handler[u]
  BY HandlerSets
<1>2. t \in Handling({"failed"}) /\ Handling({"failed"}) \subseteq Threads
  BY DEF Handling
<1>3. Failing' = Failing \ {handler[t].task.chunk}
  BY <1>1, <1>2 DEF Failing, FailOnce
<1>. QED
  BY <1>1, <1>2, <1>3 DEF FailOnce, Failing

LEMMA FailStays ==
  ASSUME TypeOK, FailOnce, NEW t \in Threads, NEW step \in {"release", "notify", "none"},
         NEW task, Run(t, step, task), handler[t].at # "failed"
  PROVE  FailOnce' /\ Failing' = Failing
<1>1. /\ Handling({"failed"})' = Handling({"failed"})
      /\ \A u \in Threads \ {t} : handler'[u] = handler[u]
  BY HandlerSets DEF Handling
<1>2. t \notin Handling({"failed"}) /\ Handling({"failed"}) \subseteq Threads
  BY DEF Handling
<1>. QED
  BY <1>1, <1>2 DEF FailOnce, Failing

\* A settled chunk is no longer accepted.
LEMMA SettledChunk ==
  ASSUME TypeOK, NEW task \in Task, NEW f \in Fates \ {"accepted"}, Settle(task, f)
  PROVE  Accepted' = Accepted \ {task.chunk}
BY DEF TypeOK, Settle, Accepted, Task

LEMMA CarriedTask ==
  /\ worker.task \in Task => Carried = {worker.task.chunk}
  /\ worker.task = None => Carried = {}
BY NoneAssumption DEF Carried

-----------------------------------------------------------------------------
(* The places *)

Held == <<queue, retry, ops, fate, worker.task>>

LEMMA InitPlaces == Init => PlaceInv
<1>. SUFFICES ASSUME Init PROVE PlaceInv
  OBVIOUS
<1>1. TypeInv /\ HandsFree
  BY InitTyped DEF Init, HandsFree
<1>2. Sends = {} /\ Handling({"failed"}) = {}
  BY Pairs DEF Init, Sends, Handling, Idle
<1>3. Queued = {} /\ Retried = {} /\ Sending = {} /\ Failing = {} /\ Carried = {}
  BY <1>2, CarriedTask DEF Init, Queued, Retried, Sending, Failing
<1>4. Accepted = {}
  BY DEF Init, Accepted
<1>5. OnceEach
  BY <1>2 DEF Init, OnceEach, QueueOnce, RetryOnce, SendOnce, FailOnce
<1>. QED
  BY <1>1, <1>3, <1>4, <1>5 DEF PlaceInv, Partition

\* A step that moves no chunk and leaves the failed handlers alone.
LEMMA Unmoved ==
  ASSUME PlaceInv, UNCHANGED Held, FailOnce', Failing' = Failing
  PROVE  OnceEach' /\ Partition'
<1>1. /\ Queued' = Queued /\ Retried' = Retried /\ Sending' = Sending
      /\ Carried' = Carried /\ Accepted' = Accepted
  BY DEF Held, Queued, Retried, Sending, Sends, Carried, Accepted
<1>2. QueueOnce' /\ RetryOnce' /\ SendOnce'
  BY DEF Held, PlaceInv, OnceEach, QueueOnce, RetryOnce, SendOnce, Sends
<1>. QED
  BY <1>1, <1>2 DEF PlaceInv, OnceEach, Partition

LEMMA SameHandlers ==
  ASSUME PlaceInv, handler' = handler
  PROVE  FailOnce' /\ Failing' = Failing
BY DEF PlaceInv, OnceEach, FailOnce, Failing, Handling

\* The steps that hand no chunk on.
LEMMA IdlePlaces ==
  ASSUME PlaceInv, TypeInv',
         \/ CloseQueue \/ StopStep \/ LeaveLoop \/ NoRetry \/ PopNothing \/ Finish \/ Doze
         \/ FallAsleep \/ Connected \/ Connect \/ SpuriousWakeup \/ UNCHANGED vars
  PROVE  PlaceInv'
<1>1. UNCHANGED Held /\ handler' = handler
  <2>1. CASE CloseQueue \/ StopStep \/ UNCHANGED vars
    BY <2>1 DEF Held, CloseQueue, StopStep, RequestStop, JoinWorker, StopConnections, vars, channelVars
  <2>2. CASE LeaveLoop \/ NoRetry \/ PopNothing \/ Finish \/ Doze \/ FallAsleep \/ Connected
               \/ Connect \/ SpuriousWakeup
    <3>1. worker'.task = worker.task
      BY <2>2 DEF LeaveLoop, NoRetry, PopNothing, Finish, Doze, FallAsleep, Connected, Connect,
                  SpuriousWakeup, WorkerTo, PlaceInv, TypeInv, TypeOK
    <3>. QED
      BY <2>2, <3>1
         DEF Held, LeaveLoop, NoRetry, PopNothing, Finish, Doze, FallAsleep, Connected, Connect,
             SpuriousWakeup, channelVars
  <2>. QED
    BY <2>1, <2>2
<1>2. HandsFree'
  <2>1. CASE CloseQueue \/ StopStep \/ UNCHANGED vars
    BY <2>1 DEF CloseQueue, StopStep, RequestStop, JoinWorker, StopConnections, vars, PlaceInv, HandsFree
  <2>2. CASE LeaveLoop \/ NoRetry \/ PopNothing \/ Finish \/ Doze \/ FallAsleep
    BY <2>2 DEF LeaveLoop, NoRetry, PopNothing, Finish, Doze, FallAsleep, WorkerAt, WorkerTo,
                PlaceInv, HandsFree, TypeInv, TypeOK
  <2>3. CASE Connected \/ Connect \/ SpuriousWakeup
    BY <2>3 DEF Connected, Connect, SpuriousWakeup, WorkerAt, WorkerTo, PlaceInv, HandsFree,
                TypeInv, TypeOK
  <2>. QED
    BY <2>1, <2>2, <2>3
<1>. QED
  BY <1>1, <1>2, Unmoved, SameHandlers DEF PlaceInv

LEMMA ReleasePlaces ==
  ASSUME PlaceInv, TypeInv', NEW t \in Threads, ReleaseSlot(t) \/ NotifyRetry(t)
  PROVE  PlaceInv'
<1>1. worker'.task = worker.task
  BY DEF ReleaseSlot, NotifyRetry, PlaceInv, TypeInv, TypeOK
<1>2. UNCHANGED Held
  BY <1>1 DEF ReleaseSlot, NotifyRetry, Held, channelVars
<1>3. HandsFree'
  BY DEF ReleaseSlot, NotifyRetry, PlaceInv, HandsFree, TypeInv, TypeOK
<1>4. handler[t].at # "failed" /\ (Run(t, "notify", handler[t].task) \/ Run(t, "none", None))
  BY DEF ReleaseSlot, NotifyRetry
<1>5. FailOnce' /\ Failing' = Failing
  BY <1>4, FailStays DEF PlaceInv, TypeInv, OnceEach
<1>. QED
  BY <1>2, <1>3, <1>5, Unmoved DEF PlaceInv

LEMMA EnqueuePlaces ==
  ASSUME PlaceInv, TypeInv', NEW c \in Chunks, Enqueue(c)
  PROVE  PlaceInv'
<1>1. c \notin Accepted
  BY DEF Enqueue, Accepted
<1>2. Accepted' = Accepted \cup {c}
  BY DEF Enqueue, Accepted, PlaceInv, TypeInv, TypeOK
<1>3. c \notin Queued
  BY <1>1 DEF PlaceInv, Partition
<1>4. QueueOnce' /\ Queued' = Queued \cup {c}
  <2>1. queue \in Seq(Chunks) /\ queue' = Append(queue, c)
    BY DEF Enqueue, PlaceInv, TypeInv, TypeOK
  <2>. QED
    BY <1>3, <2>1, AppendToQueue DEF Queued, QueueOnce, PlaceInv, OnceEach
<1>5. /\ Retried' = Retried /\ Sending' = Sending /\ Carried' = Carried
      /\ RetryOnce' /\ SendOnce' /\ HandsFree'
  BY DEF Enqueue, Retried, Sending, Sends, Carried, RetryOnce, SendOnce, HandsFree, PlaceInv, OnceEach
<1>6. FailOnce' /\ Failing' = Failing
  BY SameHandlers DEF Enqueue
<1>. QED
  BY <1>1, <1>2, <1>4, <1>5, <1>6 DEF PlaceInv, OnceEach, Partition

LEMMA TakePlaces ==
  ASSUME PlaceInv, TypeInv', TakeRetry
  PROVE  PlaceInv'
<1>. DEFINE task == Head(retry)
<1>1. task \in Task /\ Carried = {}
  BY CarriedTask DEF TakeRetry, WorkerAt, PlaceInv, HandsFree, TypeInv, TypeOK
<1>2. RetryOnce' /\ Retried' = Retried \ {task.chunk} /\ task.chunk \in Retried
  <2>1. retry \in Seq(Task) /\ retry # <<>> /\ retry' = Tail(retry)
    BY DEF TakeRetry, PlaceInv, TypeInv, TypeOK
  <2>. QED
    <3>1. \A i, j \in DOMAIN retry : retry[i].chunk = retry[j].chunk => i = j
      BY DEF PlaceInv, OnceEach, RetryOnce
    <3>2. /\ \A i, j \in DOMAIN Tail(retry) : Tail(retry)[i].chunk = Tail(retry)[j].chunk => i = j
          /\ {Tail(retry)[i].chunk : i \in DOMAIN Tail(retry)}
               = {retry[i].chunk : i \in DOMAIN retry} \ {Head(retry).chunk}
          /\ Head(retry).chunk \in {retry[i].chunk : i \in DOMAIN retry}
      BY <2>1, <3>1, TailOfRetry
    <3>. QED
      BY <2>1, <3>2 DEF Retried, RetryOnce
<1>3. worker'.task = task /\ worker'.at = "slot"
  BY DEF TakeRetry, PlaceInv, TypeInv, TypeOK
<1>4. Carried' = {task.chunk} /\ HandsFree'
  BY <1>1, <1>3, NoneAssumption DEF Carried, HandsFree
<1>5. /\ Queued' = Queued /\ Sending' = Sending /\ Accepted' = Accepted
      /\ QueueOnce' /\ SendOnce'
  BY DEF TakeRetry, channelVars, Queued, Sending, Sends, Accepted, QueueOnce, SendOnce, PlaceInv, OnceEach
<1>6. FailOnce' /\ Failing' = Failing
  BY SameHandlers DEF TakeRetry
<1>. QED
  BY <1>1, <1>2, <1>4, <1>5, <1>6 DEF PlaceInv, OnceEach, Partition

LEMMA PopPlaces ==
  ASSUME PlaceInv, TypeInv', PopChunk
  PROVE  PlaceInv'
<1>. DEFINE c == Head(queue)
<1>1. c \in Chunks /\ Carried = {}
  BY CarriedTask DEF PopChunk, WorkerAt, PlaceInv, HandsFree, TypeInv, TypeOK
<1>2. QueueOnce' /\ Queued' = Queued \ {c} /\ c \in Queued
  <2>1. queue \in Seq(Chunks) /\ queue # <<>> /\ queue' = Tail(queue)
    BY DEF PopChunk, PlaceInv, TypeInv, TypeOK
  <2>. QED
    <3>1. \A i, j \in DOMAIN queue : queue[i] = queue[j] => i = j
      BY DEF PlaceInv, OnceEach, QueueOnce
    <3>. QED
      BY <2>1, <3>1, TailOfQueue DEF Queued, QueueOnce
<1>3. worker'.task = [chunk |-> c, attempt |-> 1] /\ worker'.at = "slot"
  BY DEF PopChunk, PlaceInv, TypeInv, TypeOK
<1>4. [chunk |-> c, attempt |-> 1] \in Task
  BY <1>1, SenderAssumption DEF Task
<1>5. Carried' = {c} /\ HandsFree'
  BY <1>3, <1>4, NoneAssumption DEF Carried, HandsFree
<1>6. /\ Retried' = Retried /\ Sending' = Sending /\ Accepted' = Accepted
      /\ RetryOnce' /\ SendOnce'
  BY DEF PopChunk, Retried, Sending, Sends, Accepted, RetryOnce, SendOnce, PlaceInv, OnceEach
<1>7. FailOnce' /\ Failing' = Failing
  BY SameHandlers DEF PopChunk
<1>. QED
  BY <1>1, <1>2, <1>5, <1>6, <1>7 DEF PlaceInv, OnceEach, Partition

LEMMA AcquirePlaces ==
  ASSUME PlaceInv, TypeInv', AcquireSlot
  PROVE  PlaceInv'
<1>1. worker.task \in Task
  BY DEF AcquireSlot, WorkerAt, PlaceInv, TypeInv, Equipped
<1>2. FailOnce' /\ Failing' = Failing
  BY SameHandlers DEF AcquireSlot
<1>3. CASE worker'.at = "done"
  <2>1. worker'.task = None /\ Settle(worker.task, "discarded")
    BY <1>3 DEF AcquireSlot, WorkerTo, PlaceInv, TypeInv, TypeOK
  <2>2. Accepted' = Accepted \ {worker.task.chunk}
    BY <1>1, <2>1, SettledChunk DEF PlaceInv, TypeInv, Fates
  <2>3. Carried' = {} /\ Carried = {worker.task.chunk} /\ HandsFree'
    BY <1>1, <2>1, CarriedTask DEF Carried, HandsFree
  <2>4. /\ Queued' = Queued /\ Retried' = Retried /\ Sending' = Sending
        /\ QueueOnce' /\ RetryOnce' /\ SendOnce'
    BY DEF AcquireSlot, channelVars, Queued, Retried, Sending, Sends, QueueOnce, RetryOnce, SendOnce,
           PlaceInv, OnceEach
  <2>. QED
    BY <1>2, <2>2, <2>3, <2>4 DEF PlaceInv, OnceEach, Partition
<1>4. CASE worker'.at # "done"
  <2>1. worker'.task = worker.task /\ worker'.at \in {"connect", "no_slot"} /\ fate' = fate
    BY <1>4 DEF AcquireSlot, WorkerTo, PlaceInv, TypeInv, TypeOK
  <2>2. UNCHANGED Held
    BY <2>1 DEF AcquireSlot, Held, channelVars
  <2>. QED
    BY <1>2, <2>1, <2>2, Unmoved DEF PlaceInv, HandsFree
<1>. QED
  BY <1>3, <1>4

LEMMA ThrowPlaces ==
  ASSUME PlaceInv, TypeInv', ConnectThrows
  PROVE  PlaceInv'
<1>1. worker.task \in Task
  BY DEF ConnectThrows, WorkerAt, PlaceInv, TypeInv, Equipped
<1>2. worker'.task = None
  BY DEF ConnectThrows, PlaceInv, TypeInv, TypeOK
<1>3. Carried' = {} /\ Carried = {worker.task.chunk} /\ HandsFree'
  BY <1>1, <1>2, CarriedTask DEF Carried, HandsFree
<1>4. FailOnce' /\ Failing' = Failing \cup {worker.task.chunk}
  <2>1. Run(Worker, "failed", worker.task) /\ handler[Worker].at # "failed" /\ Worker \in Threads
    BY DEF ConnectThrows, WorkerAt, Idle, Threads
  <2>2. worker.task.chunk \notin Failing
    BY <1>3 DEF PlaceInv, Partition
  <2>. QED
    BY <2>1, <2>2, FailStarts DEF PlaceInv, TypeInv, OnceEach
<1>5. /\ Queued' = Queued /\ Retried' = Retried /\ Sending' = Sending /\ Accepted' = Accepted
      /\ QueueOnce' /\ RetryOnce' /\ SendOnce'
  BY DEF ConnectThrows, channelVars, Queued, Retried, Sending, Sends, Accepted, QueueOnce, RetryOnce,
         SendOnce, PlaceInv, OnceEach
<1>. QED
  BY <1>3, <1>4, <1>5 DEF PlaceInv, OnceEach, Partition

LEMMA DispatchPlaces ==
  ASSUME PlaceInv, TypeInv', Dispatch
  PROVE  PlaceInv'
<1>. DEFINE o == [at |-> "posted", task |-> worker.task]
<1>1. worker.task \in Task /\ worker.conn \in Conns
  BY DEF Dispatch, WorkerAt, PlaceInv, TypeInv, TypeOK, Equipped
<1>2. worker'.task = None
  BY DEF Dispatch, PlaceInv, TypeInv, TypeOK
<1>3. Carried' = {} /\ Carried = {worker.task.chunk} /\ HandsFree'
  BY <1>1, <1>2, CarriedTask DEF Carried, HandsFree
<1>4. SendOnce' /\ Sending' = Sending \cup {worker.task.chunk}
  <2>1. o \in Op /\ o.task = worker.task
    BY <1>1 DEF Op
  <2>2. worker.task.chunk \notin Sending
    BY <1>3 DEF PlaceInv, Partition
  <2>3. ops' = [ops EXCEPT ![worker.conn] = @ \cup {o}]
    BY DEF Dispatch
  <2>4. TypeOK /\ SendOnce
    BY DEF PlaceInv, TypeInv, OnceEach
  <2>. HIDE DEF o
  <2>. QED
    BY <1>1, <2>1, <2>2, <2>3, <2>4, Added
<1>5. /\ Queued' = Queued /\ Retried' = Retried /\ Accepted' = Accepted
      /\ QueueOnce' /\ RetryOnce'
  BY DEF Dispatch, channelVars, Queued, Retried, Accepted, QueueOnce, RetryOnce, PlaceInv, OnceEach
<1>6. FailOnce' /\ Failing' = Failing
  BY SameHandlers DEF Dispatch
<1>. QED
  BY <1>3, <1>4, <1>5, <1>6 DEF PlaceInv, OnceEach, Partition

\* A send ends on thread t: it is settled, or its failure handled next.
LEMMA SendEnds ==
  ASSUME PlaceInv, TypeInv', HandsFree', NEW k \in Conns, NEW o \in ops[k], NEW t \in Threads,
         handler[t] = Idle, ops' = [ops EXCEPT ![k] = @ \ {o}],
         \/ Settle(o.task, "sent") /\ Run(t, "release", o.task)
         \/ fate' = fate /\ Run(t, "failed", o.task),
         UNCHANGED <<queue, retry, worker.task>>
  PROVE  PlaceInv'
<1>1. /\ SendOnce' /\ Sending' = Sending \ {o.task.chunk} /\ o.task.chunk \in Sending
  BY Removed DEF PlaceInv, TypeInv, OnceEach
<1>2. /\ Queued' = Queued /\ Retried' = Retried /\ Carried' = Carried
      /\ QueueOnce' /\ RetryOnce'
  BY DEF Queued, Retried, Carried, QueueOnce, RetryOnce, PlaceInv, OnceEach
<1>3. o.task \in Task /\ handler[t].at # "failed"
  BY OpTask DEF PlaceInv, Idle
<1>4. CASE Settle(o.task, "sent") /\ Run(t, "release", o.task)
  <2>1. Accepted' = Accepted \ {o.task.chunk}
    BY <1>3, <1>4, SettledChunk DEF PlaceInv, TypeInv, Fates
  <2>2. FailOnce' /\ Failing' = Failing
    BY <1>3, <1>4, FailStays DEF PlaceInv, TypeInv, OnceEach
  <2>. QED
    BY <1>1, <1>2, <2>1, <2>2 DEF PlaceInv, OnceEach, Partition
<1>5. CASE fate' = fate /\ Run(t, "failed", o.task)
  <2>1. Accepted' = Accepted
    BY <1>5 DEF Accepted
  <2>2. FailOnce' /\ Failing' = Failing \cup {o.task.chunk}
    <3>1. o.task.chunk \notin Failing
      BY <1>1 DEF PlaceInv, Partition
    <3>. QED
      BY <1>3, <1>5, <3>1, FailStarts DEF PlaceInv, TypeInv, OnceEach
  <2>. QED
    BY <1>1, <1>2, <2>1, <2>2 DEF PlaceInv, OnceEach, Partition
<1>. QED
  BY <1>4, <1>5

LEMMA LeftoverPlaces ==
  ASSUME PlaceInv, TypeInv', NEW o \in ops[worker.conn], RunLeftover(o)
  PROVE  PlaceInv'
<1>1. worker.conn \in Conns /\ Worker \in Threads /\ handler[Worker] = Idle
  BY DEF RunLeftover, WorkerAt, Threads, PlaceInv, TypeInv, TypeOK
<1>2. worker'.task = worker.task /\ HandsFree'
  BY DEF RunLeftover, WorkerAt, WorkerTo, HandsFree, PlaceInv, TypeInv, TypeOK
<1>3. ops' = [ops EXCEPT ![worker.conn] = @ \ {o}]
  BY DEF RunLeftover
<1>4. \/ Settle(o.task, "sent") /\ Run(Worker, "release", o.task)
      \/ fate' = fate /\ Run(Worker, "failed", o.task)
  BY DEF RunLeftover
<1>5. UNCHANGED <<queue, retry>>
  BY DEF RunLeftover, channelVars
<1>. QED
  BY <1>1, <1>2, <1>3, <1>4, <1>5, SendEnds

LEMMA RunnerPlaces ==
  ASSUME PlaceInv, TypeInv', NEW k \in Conns, RunnerStep(k)
  PROVE  PlaceInv'
<1>. PICK o \in ops[k] : StartWrite(k, o) \/ WriteDone(k, o) \/ WriteFails(k, o)
  BY DEF RunnerStep
<1>1. CASE StartWrite(k, o)
  <2>. DEFINE p == [o EXCEPT !.at = "writing"]
  <2>1. p \in Op /\ p # o /\ p.task = o.task
    BY <1>1, OpTask DEF StartWrite, Op, PlaceInv
  <2>2. TypeOK /\ SendOnce /\ ops' = [ops EXCEPT ![k] = (@ \ {o}) \cup {p}]
    BY <1>1 DEF StartWrite, PlaceInv, TypeInv, OnceEach
  <2>3. SendOnce' /\ Sending' = Sending
    <3>. HIDE DEF p
    <3>. QED
      BY <2>1, <2>2, Started
  <2>4. /\ Queued' = Queued /\ Retried' = Retried /\ Accepted' = Accepted /\ Carried' = Carried
        /\ QueueOnce' /\ RetryOnce' /\ HandsFree'
    BY <1>1 DEF StartWrite, channelVars, Queued, Retried, Accepted, Carried, QueueOnce, RetryOnce,
                HandsFree, PlaceInv, OnceEach
  <2>5. FailOnce' /\ Failing' = Failing
    BY <1>1, SameHandlers DEF StartWrite
  <2>. QED
    BY <2>3, <2>4, <2>5 DEF PlaceInv, OnceEach, Partition
<1>2. CASE WriteDone(k, o) \/ WriteFails(k, o)
  <2>1. k \in Threads /\ handler[k] = Idle
    BY <1>2 DEF WriteDone, WriteFails, RunnerReady, Threads
  <2>2. ops' = [ops EXCEPT ![k] = @ \ {o}]
    BY <1>2 DEF WriteDone, WriteFails
  <2>3. \/ Settle(o.task, "sent") /\ Run(k, "release", o.task)
        \/ fate' = fate /\ Run(k, "failed", o.task)
    BY <1>2 DEF WriteDone, WriteFails
  <2>4. UNCHANGED <<queue, retry, worker>>
    BY <1>2 DEF WriteDone, WriteFails, channelVars
  <2>5. HandsFree'
    BY <2>4 DEF HandsFree, PlaceInv
  <2>. QED
    BY <2>1, <2>2, <2>3, <2>4, <2>5, SendEnds
<1>. QED
  BY <1>1, <1>2

LEMMA FailurePlaces ==
  ASSUME PlaceInv, TypeInv', NEW t \in Threads, HandleFailure(t)
  PROVE  PlaceInv'
<1>. DEFINE task == handler[t].task
<1>1. task \in Task
  BY DEF HandleFailure, PlaceInv, TypeInv, Equipped
<1>2. FailOnce' /\ Failing' = Failing \ {task.chunk} /\ task.chunk \in Failing
  BY FailEnds DEF HandleFailure, PlaceInv, TypeInv, OnceEach
<1>3. worker'.task = worker.task /\ HandsFree'
  BY DEF HandleFailure, HandsFree, PlaceInv, TypeInv, TypeOK
<1>4. /\ Queued' = Queued /\ Sending' = Sending /\ Carried' = Carried
      /\ QueueOnce' /\ SendOnce'
  BY <1>3 DEF HandleFailure, channelVars, Queued, Sending, Sends, Carried, QueueOnce, SendOnce,
              PlaceInv, OnceEach
<1>5. CASE LastAttempt(task)
  <2>1. Settle(task, "dropped") /\ retry' = retry
    BY <1>5 DEF HandleFailure
  <2>2. Accepted' = Accepted \ {task.chunk}
    BY <1>1, <2>1, SettledChunk DEF PlaceInv, TypeInv, Fates
  <2>3. Retried' = Retried /\ RetryOnce'
    BY <2>1 DEF Retried, RetryOnce, PlaceInv, OnceEach
  <2>. QED
    BY <1>2, <1>3, <1>4, <2>2, <2>3 DEF PlaceInv, OnceEach, Partition
<1>6. CASE ~LastAttempt(task)
  <2>. DEFINE again == [task EXCEPT !.attempt = @ + 1]
  <2>1. retry' = Append(retry, again) /\ fate' = fate /\ retry \in Seq(Task)
    BY <1>6 DEF HandleFailure, PlaceInv, TypeInv, TypeOK
  <2>2. again \in Task /\ again.chunk = task.chunk
    BY <1>1, <1>6, AnotherAttempt DEF Task
  <2>3. task.chunk \notin Retried
    BY <1>2 DEF PlaceInv, Partition
  <2>4. RetryOnce' /\ Retried' = Retried \cup {task.chunk}
    <3>. HIDE DEF again
    <3>1. /\ \A i, j \in DOMAIN retry : retry[i].chunk = retry[j].chunk => i = j
          /\ again.chunk \notin {retry[i].chunk : i \in DOMAIN retry}
      BY <2>2, <2>3 DEF PlaceInv, OnceEach, RetryOnce, Retried
    <3>2. /\ \A i, j \in DOMAIN Append(retry, again) :
                Append(retry, again)[i].chunk = Append(retry, again)[j].chunk => i = j
          /\ {Append(retry, again)[i].chunk : i \in DOMAIN Append(retry, again)}
               = {retry[i].chunk : i \in DOMAIN retry} \cup {again.chunk}
      BY <2>1, <2>2, <3>1, AppendToRetry
    <3>. QED
      BY <2>1, <2>2, <3>2 DEF Retried, RetryOnce
  <2>5. Accepted' = Accepted
    BY <2>1 DEF Accepted
  <2>. QED
    BY <1>2, <1>3, <1>4, <2>4, <2>5 DEF PlaceInv, OnceEach, Partition
<1>. QED
  BY <1>5, <1>6

LEMMA NextPlaces == PlaceInv /\ [Next]_vars => PlaceInv'
<1>. SUFFICES ASSUME PlaceInv, [Next]_vars PROVE PlaceInv'
  OBVIOUS
<1>1. TypeInv'
  BY NextTyped DEF PlaceInv
<1>2. CASE WorkerStep
  BY <1>1, <1>2, IdlePlaces, TakePlaces, PopPlaces, AcquirePlaces, ThrowPlaces, DispatchPlaces,
     LeftoverPlaces DEF WorkerStep
<1>3. CASE \E t \in Threads : HandlerStep(t)
  BY <1>1, <1>3, FailurePlaces, ReleasePlaces DEF HandlerStep
<1>. QED
  BY <1>1, <1>2, <1>3, IdlePlaces, EnqueuePlaces, RunnerPlaces DEF Next

\* What is in no place has no copy, what is in one has one there.
LEMMA OneCopy == PlaceInv => OnePlace
<1>. SUFFICES ASSUME PlaceInv, NEW c \in Chunks
              PROVE  Copies(c) = IF fate[c] = "accepted" THEN 1 ELSE 0
  BY DEF OnePlace
<1>1. Cardinality({i \in DOMAIN queue : queue[i] = c}) = IF c \in Queued THEN 1 ELSE 0
  <2>. DEFINE S == {i \in DOMAIN queue : queue[i] = c}
  <2>1. (\A x, y \in S : x = y) /\ (S = {} <=> c \notin Queued)
    BY DEF PlaceInv, OnceEach, QueueOnce, Queued
  <2>. HIDE DEF S
  <2>2. Cardinality(S) = IF c \in Queued THEN 1 ELSE 0
    BY <2>1, AtMostOne
  <2>. QED
    BY <2>2 DEF S
<1>2. Cardinality({i \in DOMAIN retry : retry[i].chunk = c}) = IF c \in Retried THEN 1 ELSE 0
  <2>. DEFINE S == {i \in DOMAIN retry : retry[i].chunk = c}
  <2>1. (\A x, y \in S : x = y) /\ (S = {} <=> c \notin Retried)
    BY DEF PlaceInv, OnceEach, RetryOnce, Retried
  <2>. HIDE DEF S
  <2>2. Cardinality(S) = IF c \in Retried THEN 1 ELSE 0
    BY <2>1, AtMostOne
  <2>. QED
    BY <2>2 DEF S
<1>3. Cardinality({x \in Sends : x[2].task.chunk = c}) = IF c \in Sending THEN 1 ELSE 0
  <2>. DEFINE S == {x \in Sends : x[2].task.chunk = c}
  <2>1. (\A x, y \in S : x = y) /\ (S = {} <=> c \notin Sending)
    BY DEF PlaceInv, OnceEach, SendOnce, Sending
  <2>. HIDE DEF S
  <2>2. Cardinality(S) = IF c \in Sending THEN 1 ELSE 0
    BY <2>1, AtMostOne
  <2>. QED
    BY <2>2 DEF S
<1>4. Cardinality({t \in Handling({"failed"}) : handler[t].task.chunk = c})
        = IF c \in Failing THEN 1 ELSE 0
  <2>. DEFINE S == {t \in Handling({"failed"}) : handler[t].task.chunk = c}
  <2>1. (\A x, y \in S : x = y) /\ (S = {} <=> c \notin Failing)
    BY DEF PlaceInv, OnceEach, FailOnce, Failing
  <2>. HIDE DEF S
  <2>2. Cardinality(S) = IF c \in Failing THEN 1 ELSE 0
    BY <2>1, AtMostOne
  <2>. QED
    BY <2>2 DEF S
<1>5. (worker.task # None /\ worker.task.chunk = c) <=> c \in Carried
  BY DEF Carried
<1>6. fate[c] = "accepted" <=> c \in Accepted
  BY DEF Accepted
<1>. QED
  BY <1>1, <1>2, <1>3, <1>4, <1>5, <1>6 DEF Copies, PlaceInv, Partition

\* A chunk main has pushed is in exactly one place until it is sent, dropped or
\* discarded, and nowhere afterwards (run, on_chunk_failure, async_send_chunk and
\* the event loop the worker runs while it connects).
THEOREM Conserved == Spec => []OnePlace
BY InitPlaces, NextPlaces, OneCopy, PTL DEF Spec

-----------------------------------------------------------------------------
(***************************************************************************)
(* The slots: each is held by the worker, by a send or by a handler, and   *)
(* goes from one to the next. That a dispatched send is a new one takes    *)
(* the places of the chunks.                                               *)
(***************************************************************************)

Own == IF WorkerHasSlot THEN 1 ELSE 0

SlotInv == PlaceInv /\ IsFiniteSet(Sends) /\ SlotsAccounted

\* The sums of SlotsAccounted.
LEMMA Sum == SlotsAccounted <=> inflight = Cardinality(Sends) + Cardinality(Busy) + Own
BY DEF SlotsAccounted, Busy, Own

LEMMA BusyIsFinite == IsFiniteSet(Busy) /\ Cardinality(Busy) \in Nat
<1>1. IsFiniteSet(Threads)
  <2>1. IsFiniteSet(Conns)
    BY SenderAssumption, FS_Interval DEF Conns
  <2>. QED
    BY <2>1, FS_AddElement DEF Threads
<1>2. Busy \in SUBSET Threads
  BY DEF Busy, Handling
<1>. QED
  BY <1>1, <1>2, FS_Subset, FS_CardinalityType

LEMMA Numbers ==
  ASSUME SlotInv
  PROVE  /\ inflight \in Nat /\ Cardinality(Sends) \in Nat /\ Own \in 0..1
         /\ inflight = Cardinality(Sends) + Cardinality(Busy) + Own
  BY Sum, FS_CardinalityType, SenderAssumption DEF SlotInv, PlaceInv, TypeInv, TypeOK, Own

-----------------------------------------------------------------------------
LEMMA InitSlots == Init => SlotInv
<1>. SUFFICES ASSUME Init PROVE SlotInv
  OBVIOUS
<1>1. Sends = {} /\ Busy = {}
  BY Pairs DEF Init, Sends, Busy, Handling, Idle
<1>2. inflight = 0 /\ Own = 0
  BY DEF Init, Own, WorkerHasSlot
<1>3. Cardinality(Sends) = 0 /\ Cardinality(Busy) = 0 /\ IsFiniteSet(Sends)
  BY <1>1, FS_EmptySet
<1>. QED
  BY <1>2, <1>3, InitPlaces, Sum DEF SlotInv

\* A step that takes and gives no slot.
LEMMA SlotsKept ==
  ASSUME SlotInv, PlaceInv', UNCHANGED <<inflight, ops>>, Busy' = Busy, Own' = Own
  PROVE  SlotInv'
<1>1. Sends' = Sends
  BY DEF Sends
<1>2. SlotsAccounted'
  <2>1. inflight' = Cardinality(Sends') + Cardinality(Busy') + Own'
    BY <1>1, Numbers
  <2>. QED
    BY <2>1 DEF SlotsAccounted, Busy, Own
<1>. QED
  BY <1>1, <1>2 DEF SlotInv

LEMMA IdleSlots ==
  ASSUME SlotInv, PlaceInv',
         \/ CloseQueue \/ StopStep \/ \E c \in Chunks : Enqueue(c)
         \/ LeaveLoop \/ TakeRetry \/ NoRetry \/ PopChunk \/ PopNothing \/ Finish \/ Doze
         \/ FallAsleep \/ Connected \/ Connect \/ SpuriousWakeup \/ UNCHANGED vars
  PROVE  SlotInv'
<1>1. UNCHANGED <<inflight, ops, handler>>
  BY DEF CloseQueue, StopStep, RequestStop, JoinWorker, StopConnections, Enqueue, LeaveLoop,
         TakeRetry, NoRetry, PopChunk, PopNothing, Finish, Doze, FallAsleep, Connected, Connect,
         SpuriousWakeup, vars
<1>2. Busy' = Busy
  BY <1>1 DEF Busy, Handling
<1>3. WorkerHasSlot' = WorkerHasSlot
  <2>1. CASE CloseQueue \/ StopStep \/ (\E c \in Chunks : Enqueue(c)) \/ UNCHANGED vars
    BY <2>1 DEF CloseQueue, StopStep, RequestStop, JoinWorker, StopConnections, Enqueue, vars,
                WorkerHasSlot
  <2>2. CASE LeaveLoop \/ TakeRetry \/ NoRetry \/ PopChunk \/ PopNothing
    <3>1. worker.at \in {"top", "pop"}
      BY <2>2 DEF LeaveLoop, TakeRetry, NoRetry, PopChunk, PopNothing, WorkerAt
    <3>2. worker'.at \in {"done", "slot", "pop", "finish"}
      BY <2>2 DEF LeaveLoop, TakeRetry, NoRetry, PopChunk, PopNothing, WorkerTo, SlotInv, PlaceInv,
                  TypeInv, TypeOK
    <3>. QED
      BY <3>1, <3>2 DEF WorkerHasSlot
  <2>3. CASE Finish \/ Doze \/ FallAsleep
    BY <2>3 DEF Finish, Doze, FallAsleep, WorkerAt, WorkerTo, WorkerHasSlot, SlotInv, PlaceInv,
                TypeInv, TypeOK
  <2>4. CASE Connected \/ Connect \/ SpuriousWakeup
    BY <2>4 DEF Connected, Connect, SpuriousWakeup, WorkerAt, WorkerTo, WorkerHasSlot, SlotInv,
                PlaceInv, TypeInv, TypeOK
  <2>. QED
    BY <2>1, <2>2, <2>3, <2>4
<1>4. Own' = Own
  BY <1>3 DEF Own
<1>. QED
  BY <1>1, <1>2, <1>4, SlotsKept

LEMMA AcquireSlots ==
  ASSUME SlotInv, PlaceInv', AcquireSlot
  PROVE  SlotInv'
<1>1. ops' = ops /\ Busy' = Busy
  BY DEF AcquireSlot, Busy, Handling
<1>2. ~WorkerHasSlot
  BY DEF AcquireSlot, WorkerAt, WorkerHasSlot
<1>3. CASE inflight' = inflight
  <2>1. worker'.at \in {"done", "no_slot"}
    <3>1. inflight + 1 # inflight
      BY Numbers
    <3>. QED
      BY <1>3, <3>1 DEF AcquireSlot, WorkerTo, SlotInv, PlaceInv, TypeInv, TypeOK
  <2>2. Own' = Own
    BY <1>2, <2>1 DEF Own, WorkerHasSlot
  <2>. QED
    BY <1>1, <1>3, <2>2, SlotsKept
<1>4. CASE inflight' # inflight
  <2>1. inflight' = inflight + 1 /\ worker'.at = "connect"
    BY <1>4 DEF AcquireSlot, SlotInv, PlaceInv, TypeInv, TypeOK
  <2>2. Own = 0 /\ Own' = 1 /\ Sends' = Sends
    BY <1>1, <1>2, <2>1 DEF Own, WorkerHasSlot, Sends
  <2>3. inflight' = Cardinality(Sends') + Cardinality(Busy') + Own'
    BY <1>1, <2>1, <2>2, Numbers, BusyIsFinite
  <2>. QED
    BY <2>2, <2>3 DEF SlotInv, SlotsAccounted, Busy, Own
<1>. QED
  BY <1>3, <1>4

LEMMA ThrowSlots ==
  ASSUME SlotInv, PlaceInv', ConnectThrows
  PROVE  SlotInv'
<1>1. Own = 1 /\ Own' = 0 /\ Sends' = Sends /\ inflight' = inflight
  BY DEF ConnectThrows, WorkerAt, Own, WorkerHasSlot, Sends, SlotInv, PlaceInv, TypeInv, TypeOK
<1>2. Worker \in Threads /\ Worker \notin Busy /\ Run(Worker, "failed", worker.task)
  BY DEF ConnectThrows, WorkerAt, Idle, Busy, Handling, Threads
<1>3. Busy' = Busy \cup {Worker}
  BY <1>2, HandlerSets DEF SlotInv, PlaceInv, TypeInv
<1>4. Cardinality(Busy') = Cardinality(Busy) + 1
  BY <1>2, <1>3, BusyIsFinite, FS_AddElement
<1>5. inflight' = Cardinality(Sends') + Cardinality(Busy') + Own'
  BY <1>1, <1>4, Numbers, BusyIsFinite
<1>. QED
  BY <1>1, <1>5 DEF SlotInv, SlotsAccounted, Busy, Own

LEMMA DispatchSlots ==
  ASSUME SlotInv, PlaceInv', Dispatch
  PROVE  SlotInv'
<1>. DEFINE o == [at |-> "posted", task |-> worker.task]
<1>1. worker.task \in Task /\ worker.conn \in Conns
  BY DEF Dispatch, WorkerAt, SlotInv, PlaceInv, TypeInv, TypeOK, Equipped
<1>2. Own = 1 /\ Own' = 0 /\ Busy' = Busy /\ inflight' = inflight
  BY DEF Dispatch, WorkerAt, Own, WorkerHasSlot, Busy, Handling, SlotInv, PlaceInv, TypeInv, TypeOK
<1>3. Sends' = Sends \cup {<<worker.conn, o>>} /\ <<worker.conn, o>> \notin Sends
  <2>1. o \in Op /\ o.task = worker.task
    BY <1>1 DEF Op
  <2>2. worker.task.chunk \notin Sending
    BY <1>1, CarriedTask DEF SlotInv, PlaceInv, Partition
  <2>3. ops' = [ops EXCEPT ![worker.conn] = @ \cup {o}]
    BY DEF Dispatch
  <2>4. TypeOK /\ SendOnce
    BY DEF SlotInv, PlaceInv, TypeInv, OnceEach
  <2>. HIDE DEF o
  <2>. QED
    BY <1>1, <2>1, <2>2, <2>3, <2>4, Added
<1>4. IsFiniteSet(Sends') /\ Cardinality(Sends') = Cardinality(Sends) + 1
  <2>. HIDE DEF o
  <2>. QED
    BY <1>3, FS_AddElement DEF SlotInv
<1>5. inflight' = Cardinality(Sends') + Cardinality(Busy') + Own'
  BY <1>2, <1>4, Numbers, BusyIsFinite
<1>. QED
  BY <1>4, <1>5 DEF SlotInv, SlotsAccounted, Busy, Own

LEMMA SendEndsSlots ==
  ASSUME SlotInv, PlaceInv', NEW k \in Conns, NEW o \in ops[k], NEW t \in Threads,
         handler[t] = Idle, ops' = [ops EXCEPT ![k] = @ \ {o}],
         Run(t, "release", o.task) \/ Run(t, "failed", o.task),
         inflight' = inflight, Own' = Own
  PROVE  SlotInv'
<1>1. Sends' = Sends \ {<<k, o>>} /\ <<k, o>> \in Sends
  BY Removed DEF SlotInv, PlaceInv, TypeInv, OnceEach
<1>2. Busy' = Busy \cup {t} /\ t \notin Busy
  <2>1. Busy' = Busy \cup {t}
    BY HandlerSets DEF SlotInv, PlaceInv, TypeInv
  <2>. QED
    BY <2>1 DEF Busy, Handling, Idle
<1>3. IsFiniteSet(Sends') /\ Cardinality(Sends') = Cardinality(Sends) - 1
  BY <1>1, FS_RemoveElement DEF SlotInv
<1>4. Cardinality(Busy') = Cardinality(Busy) + 1
  BY <1>2, BusyIsFinite, FS_AddElement
<1>5. inflight' = Cardinality(Sends') + Cardinality(Busy') + Own'
  BY <1>3, <1>4, Numbers, BusyIsFinite
<1>. QED
  BY <1>3, <1>5 DEF SlotInv, SlotsAccounted, Busy, Own

LEMMA LeftoverSlots ==
  ASSUME SlotInv, PlaceInv', NEW o \in ops[worker.conn], RunLeftover(o)
  PROVE  SlotInv'
<1>1. worker.conn \in Conns /\ Worker \in Threads /\ handler[Worker] = Idle
  BY DEF RunLeftover, WorkerAt, Threads, SlotInv, PlaceInv, TypeInv, TypeOK
<1>2. Own' = Own
  BY DEF RunLeftover, WorkerAt, WorkerTo, Own, WorkerHasSlot, SlotInv, PlaceInv, TypeInv, TypeOK
<1>3. /\ ops' = [ops EXCEPT ![worker.conn] = @ \ {o}]
      /\ Run(Worker, "release", o.task) \/ Run(Worker, "failed", o.task)
      /\ inflight' = inflight
  BY DEF RunLeftover
<1>. QED
  BY <1>1, <1>2, <1>3, SendEndsSlots

LEMMA RunnerSlots ==
  ASSUME SlotInv, PlaceInv', NEW k \in Conns, RunnerStep(k)
  PROVE  SlotInv'
<1>. PICK o \in ops[k] : StartWrite(k, o) \/ WriteDone(k, o) \/ WriteFails(k, o)
  BY DEF RunnerStep
<1>1. Own' = Own /\ inflight' = inflight
  BY DEF StartWrite, WriteDone, WriteFails, Own, WorkerHasSlot
<1>2. CASE StartWrite(k, o)
  <2>. DEFINE p == [o EXCEPT !.at = "writing"]
  <2>1. p \in Op /\ p # o /\ p.task = o.task
    BY <1>2, OpTask DEF StartWrite, Op, SlotInv, PlaceInv
  <2>2. TypeOK /\ SendOnce /\ ops' = [ops EXCEPT ![k] = (@ \ {o}) \cup {p}]
    BY <1>2 DEF StartWrite, SlotInv, PlaceInv, TypeInv, OnceEach
  <2>. HIDE DEF p
  <2>3. /\ Sends' = (Sends \ {<<k, o>>}) \cup {<<k, p>>}
        /\ <<k, o>> \in Sends /\ <<k, p>> \notin Sends
    BY <2>1, <2>2, Started
  <2>4. IsFiniteSet(Sends \ {<<k, o>>}) /\ Cardinality(Sends \ {<<k, o>>}) = Cardinality(Sends) - 1
    BY <2>3, FS_RemoveElement DEF SlotInv
  <2>5. IsFiniteSet(Sends') /\ Cardinality(Sends') = Cardinality(Sends \ {<<k, o>>}) + 1
    BY <2>3, <2>4, FS_AddElement
  <2>6. Busy' = Busy
    BY <1>2 DEF StartWrite, Busy, Handling
  <2>7. inflight' = Cardinality(Sends') + Cardinality(Busy') + Own'
    BY <1>1, <2>4, <2>5, <2>6, Numbers
  <2>. QED
    BY <2>5, <2>7 DEF SlotInv, SlotsAccounted, Busy, Own
<1>3. CASE WriteDone(k, o) \/ WriteFails(k, o)
  <2>1. k \in Threads /\ handler[k] = Idle
    BY <1>3 DEF WriteDone, WriteFails, RunnerReady, Threads
  <2>2. /\ ops' = [ops EXCEPT ![k] = @ \ {o}]
        /\ Run(k, "release", o.task) \/ Run(k, "failed", o.task)
    BY <1>3 DEF WriteDone, WriteFails
  <2>. QED
    BY <1>1, <2>1, <2>2, SendEndsSlots
<1>. QED
  BY <1>2, <1>3

LEMMA HandlerSlots ==
  ASSUME SlotInv, PlaceInv', NEW t \in Threads, HandlerStep(t)
  PROVE  SlotInv'
<1>1. ops' = ops /\ Own' = Own
  BY DEF HandlerStep, HandleFailure, ReleaseSlot, NotifyRetry, Own, WorkerHasSlot, SlotInv, PlaceInv,
         TypeInv, TypeOK
<1>2. CASE HandleFailure(t)
  <2>1. Busy' = Busy \cup {t} /\ t \in Busy
    <3>1. Busy' = Busy \cup {t}
      BY <1>2, HandlerSets DEF HandleFailure, SlotInv, PlaceInv, TypeInv
    <3>. QED
      BY <1>2, <3>1 DEF HandleFailure, Busy, Handling
  <2>2. Busy' = Busy /\ inflight' = inflight
    BY <1>2, <2>1 DEF HandleFailure
  <2>. QED
    BY <1>1, <2>2, SlotsKept
<1>3. CASE NotifyRetry(t)
  <2>1. Busy' = Busy \ {t}
    BY <1>3, HandlerSets DEF NotifyRetry, SlotInv, PlaceInv, TypeInv
  <2>2. Busy' = Busy /\ inflight' = inflight
    BY <1>3, <2>1 DEF NotifyRetry, Busy, Handling
  <2>. QED
    BY <1>1, <2>2, SlotsKept
<1>4. CASE ReleaseSlot(t)
  <2>1. t \in Busy /\ (Run(t, "notify", handler[t].task) \/ Run(t, "none", None))
    BY <1>4 DEF ReleaseSlot, Busy, Handling
  <2>2. Busy' = Busy \ {t}
    BY <2>1, HandlerSets DEF SlotInv, PlaceInv, TypeInv
  <2>3. Cardinality(Busy') = Cardinality(Busy) - 1
    BY <2>1, <2>2, BusyIsFinite, FS_RemoveElement
  <2>4. Cardinality(Busy) # 0
    BY <2>1, BusyIsFinite, FS_EmptySet
  <2>5. inflight' = inflight - 1 /\ Sends' = Sends
    BY <1>1, <1>4, <2>4, Numbers, BusyIsFinite DEF ReleaseSlot, Sends
  <2>6. inflight' = Cardinality(Sends') + Cardinality(Busy') + Own'
    BY <1>1, <2>3, <2>5, Numbers, BusyIsFinite
  <2>. QED
    BY <2>5, <2>6 DEF SlotInv, SlotsAccounted, Busy, Own
<1>. QED
  BY <1>2, <1>3, <1>4 DEF HandlerStep

LEMMA NextSlots == SlotInv /\ [Next]_vars => SlotInv'
<1>. SUFFICES ASSUME SlotInv, [Next]_vars PROVE SlotInv'
  OBVIOUS
<1>1. PlaceInv'
  BY NextPlaces DEF SlotInv
<1>2. CASE WorkerStep
  BY <1>1, <1>2, IdleSlots, AcquireSlots, ThrowSlots, DispatchSlots, LeftoverSlots DEF WorkerStep
<1>. QED
  BY <1>1, <1>2, IdleSlots, RunnerSlots, HandlerSlots DEF Next

\* Every slot is held by exactly one of the worker, a send and a handler that has not
\* released it: none leaks and none is released twice, whichever thread runs the
\* handler (acquire_slot, release_slot).
THEOREM Slots == Spec => []SlotsAccounted
<1>1. SlotInv => SlotsAccounted
  BY DEF SlotInv
<1>. QED
  BY <1>1, InitSlots, NextSlots, PTL DEF Spec

-----------------------------------------------------------------------------
(* The end of the worker *)

\* The worker waits for the last attempts only when the queue is closed and empty, and
\* leaves of its own accord only when nothing can come back.
Settled ==
  /\ main = "running" => ~closed
  /\ worker.at \in {"finish", "dozing", "asleep"} => closed /\ queue = <<>>
  /\ worker.at = "done" /\ ~stop => closed /\ queue = <<>> /\ retry = <<>> /\ inflight = 0

EndInv == SlotInv /\ Settled

LEMMA NothingHeld ==
  ASSUME SlotInv, inflight = 0
  PROVE  Sends = {} /\ Busy = {}
<1>1. Cardinality(Sends) = 0 /\ Cardinality(Busy) = 0
  BY Numbers, BusyIsFinite
<1>. QED
  BY <1>1, BusyIsFinite, FS_EmptySet DEF SlotInv

LEMMA NextSettled ==
  ASSUME EndInv, [Next]_vars
  PROVE  Settled'
<1>. USE DEF EndInv, Settled
<1>1. worker.at \in WorkerPlaces
  BY DEF SlotInv, PlaceInv, TypeInv, TypeOK
<1>2. CASE UNCHANGED vars
  BY <1>2 DEF vars, channelVars
<1>3. CASE CloseQueue \/ StopStep \/ \E c \in Chunks : Enqueue(c)
  BY <1>3 DEF CloseQueue, StopStep, RequestStop, JoinWorker, StopConnections, Enqueue
<1>4. CASE LeaveLoop \/ NoRetry \/ PopNothing \/ Doze \/ FallAsleep \/ SpuriousWakeup
  BY <1>4 DEF LeaveLoop, NoRetry, PopNothing, Doze, FallAsleep, SpuriousWakeup, WorkerAt, WorkerTo,
              channelVars, SlotInv, PlaceInv, TypeInv, TypeOK
<1>5. CASE Finish
  BY <1>5 DEF Finish, MayFinish, WorkerAt, WorkerTo, channelVars, SlotInv, PlaceInv, TypeInv, TypeOK
<1>6. CASE TakeRetry \/ PopChunk \/ AcquireSlot
  <2>1. worker'.at \in {"slot", "no_slot", "connect"} \/ (worker'.at = "done" /\ stop)
    <3>1. worker \in [at : WorkerPlaces, task : Task \cup {None}, conn : Conns]
      BY DEF SlotInv, PlaceInv, TypeInv, TypeOK
    <3>2. CASE TakeRetry
      BY <3>1, <3>2 DEF TakeRetry
    <3>3. CASE PopChunk
      BY <3>1, <3>3 DEF PopChunk
    <3>4. CASE AcquireSlot
      BY <3>1, <3>4 DEF AcquireSlot, WorkerTo
    <3>. QED
      BY <1>6, <3>2, <3>3, <3>4
  <2>2. UNCHANGED <<main, closed, stop>>
    BY <1>6 DEF TakeRetry, PopChunk, AcquireSlot, channelVars
  <2>. QED
    BY <2>1, <2>2
<1>7. CASE Connected \/ Connect \/ ConnectThrows \/ Dispatch \/ \E o \in ops[worker.conn] : RunLeftover(o)
  <2>1. worker'.at \in {"connect", "unconnected", "dispatch", "top"}
    <3>1. CASE Connected \/ Connect
      BY <3>1 DEF Connected, Connect, WorkerTo, SlotInv, PlaceInv, TypeInv, TypeOK
    <3>2. CASE ConnectThrows \/ Dispatch
      BY <3>2 DEF ConnectThrows, Dispatch, SlotInv, PlaceInv, TypeInv, TypeOK
    <3>3. CASE \E o \in ops[worker.conn] : RunLeftover(o)
      BY <3>3 DEF RunLeftover, WorkerAt, WorkerTo, SlotInv, PlaceInv, TypeInv, TypeOK
    <3>. QED
      BY <1>7, <3>1, <3>2, <3>3
  <2>2. UNCHANGED <<main, closed, stop>>
    BY <1>7 DEF Connected, Connect, ConnectThrows, Dispatch, RunLeftover, channelVars
  <2>. QED
    BY <2>1, <2>2
<1>8. CASE \E k \in Conns : RunnerStep(k)
  BY <1>8 DEF RunnerStep, StartWrite, WriteDone, WriteFails, channelVars
<1>9. ASSUME NEW t \in Threads, HandlerStep(t) PROVE Settled'
  <2>1. CASE HandleFailure(t)
    <3>1. inflight # 0
      BY <2>1, NothingHeld DEF HandleFailure, Busy, Handling
    <3>. QED
      BY <2>1, <3>1 DEF HandleFailure, channelVars, SlotInv, PlaceInv, TypeInv, TypeOK
  <2>2. CASE ReleaseSlot(t) \/ NotifyRetry(t)
    BY <2>2 DEF ReleaseSlot, NotifyRetry, channelVars, SlotInv, PlaceInv, TypeInv, TypeOK
  <2>. QED
    BY <1>9, <2>1, <2>2 DEF HandlerStep
<1>. QED
  BY <1>2, <1>3, <1>4, <1>5, <1>6, <1>7, <1>8, <1>9 DEF Next, WorkerStep

LEMMA EndLosesNothing == EndInv => FinishLosesNothing
<1>. SUFFICES ASSUME EndInv, worker.at = "done", ~stop PROVE Accepted = {}
  BY DEF FinishLosesNothing, Accepted
<1>1. queue = <<>> /\ retry = <<>> /\ inflight = 0
  BY DEF EndInv, Settled
<1>2. Sends = {} /\ Handling({"failed"}) = {}
  BY <1>1, NothingHeld DEF EndInv, Busy, Handling
<1>3. Carried = {}
  BY CarriedTask DEF EndInv, SlotInv, PlaceInv, HandsFree
<1>4. Queued = {} /\ Retried = {} /\ Sending = {} /\ Failing = {}
  BY <1>1, <1>2 DEF Queued, Retried, Sending, Failing
<1>. QED
  BY <1>3, <1>4 DEF EndInv, SlotInv, PlaceInv, Partition

\* A worker that leaves because the queue is closed, nothing waits for another attempt
\* and nothing is in flight has seen every chunk sent or dropped (run).
THEOREM EndsComplete == Spec => []FinishLosesNothing
<1>1. Init => EndInv
  BY InitSlots DEF Init, EndInv, Settled
<1>2. EndInv /\ [Next]_vars => EndInv'
  BY NextSlots, NextSettled DEF EndInv
<1>. QED
  BY <1>1, <1>2, EndLosesNothing, PTL DEF Spec
=============================================================================
