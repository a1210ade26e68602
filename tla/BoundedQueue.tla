---------------------------- MODULE BoundedQueue ----------------------------
(***************************************************************************)
(* BoundedBlockingQueue (Client/src/queue.hpp): a queue under one mutex    *)
(* with a condition variable for "not empty" and one for "not full".       *)
(*                                                                         *)
(* Each critical section is one step.  condition_variable::wait evaluates  *)
(* its predicate with the mutex held and, when it is false, goes to sleep  *)
(* and releases the mutex in one step; a thread that is woken is "ready"   *)
(* again and has to win the mutex and evaluate the predicate once more,    *)
(* against whoever took its place.  close() notifies outside the lock.     *)
(***************************************************************************)
EXTENDS Naturals, Sequences, FiniteSets

CONSTANTS
    Producers,     \* threads calling push
    Consumers,     \* threads calling pop
    Closers,       \* threads calling close
    Values,
    Capacity,
    MaxAccepted    \* bound: no push is called once so many were accepted

ASSUME QueueAssumption ==
    /\ Capacity \in Nat \ {0}
    /\ MaxAccepted \in Nat
    /\ IsFiniteSet(Producers) /\ IsFiniteSet(Consumers)
    /\ Producers \cap Consumers = {}
    /\ Closers \cap (Producers \cup Consumers) = {}

VARIABLES
    queue,       \* queue_
    closed,      \* closed_
    pc,          \* per thread: "idle", "ready" for the mutex, "waiting" on its
                 \* condition variable; a closer: "notify_empty", "notify_full"
    value,       \* per producer: the argument of push
    accepted,    \* history: values for which push returned true
    delivered    \* history: values pop returned

vars == <<queue, closed, pc, value, accepted, delivered>>

Threads == Producers \cup Consumers \cup Closers

In(S, state) == {t \in S : pc[t] = state}

\* Faulty variant: one element too many.
AlmostFull == Len(queue) <= Capacity

\* The predicate of not_full_cv_, without closed_.
NotFull == Len(queue) < Capacity

\* notify_one: at with one of the threads of S that wait made ready, if any.
NotifyOne(S, at) ==
    LET W == {t \in S : at[t] = "waiting"}
    IN  IF W = {} THEN {at} ELSE {[at EXCEPT ![t] = "ready"] : t \in W}

NotifyAll(S, at) ==
    [t \in Threads |-> IF t \in S /\ at[t] = "waiting" THEN "ready" ELSE at[t]]
-----------------------------------------------------------------------------
CallPush(p, v) ==
    /\ pc[p] = "idle"
    /\ Len(accepted) < MaxAccepted
    /\ pc' = [pc EXCEPT ![p] = "ready"]
    /\ value' = [value EXCEPT ![p] = v]
    /\ UNCHANGED <<queue, closed, accepted, delivered>>

PushWait(p) ==
    /\ pc[p] = "ready"
    /\ ~closed /\ ~NotFull
    /\ pc' = [pc EXCEPT ![p] = "waiting"]
    /\ UNCHANGED <<queue, closed, value, accepted, delivered>>

PushRefused(p) ==
    /\ pc[p] = "ready"
    /\ closed
    /\ pc' = [pc EXCEPT ![p] = "idle"]
    /\ UNCHANGED <<queue, closed, value, accepted, delivered>>

\* Faulty variant: no consumer is notified.
PushSilently(p) ==
    /\ pc[p] = "ready"
    /\ ~closed /\ NotFull
    /\ queue' = Append(queue, value[p])
    /\ accepted' = Append(accepted, value[p])
    /\ pc' = [pc EXCEPT ![p] = "idle"]
    /\ UNCHANGED <<closed, value, delivered>>

Push(p) ==
    /\ pc[p] = "ready"
    /\ ~closed /\ NotFull
    /\ queue' = Append(queue, value[p])
    /\ accepted' = Append(accepted, value[p])
    /\ pc' \in NotifyOne(Consumers, [pc EXCEPT ![p] = "idle"])
    /\ UNCHANGED <<closed, value, delivered>>

CallPop(c) ==
    /\ pc[c] = "idle"
    /\ pc' = [pc EXCEPT ![c] = "ready"]
    /\ UNCHANGED <<queue, closed, value, accepted, delivered>>

PopWait(c) ==
    /\ pc[c] = "ready"
    /\ ~closed /\ queue = <<>>
    /\ pc' = [pc EXCEPT ![c] = "waiting"]
    /\ UNCHANGED <<queue, closed, value, accepted, delivered>>

\* Faulty variant: a closed queue is not drained.
PopNoneWhenClosed(c) ==
    /\ pc[c] = "ready"
    /\ closed
    /\ pc' = [pc EXCEPT ![c] = "idle"]
    /\ UNCHANGED <<queue, closed, value, accepted, delivered>>

\* pop returns nullopt.
PopNone(c) ==
    /\ pc[c] = "ready"
    /\ closed /\ queue = <<>>
    /\ pc' = [pc EXCEPT ![c] = "idle"]
    /\ UNCHANGED <<queue, closed, value, accepted, delivered>>

\* Faulty variant: the newest value is returned.
PopNewest(c) ==
    /\ pc[c] = "ready"
    /\ queue # <<>>
    /\ queue' = SubSeq(queue, 1, Len(queue) - 1)
    /\ delivered' = Append(delivered, queue[Len(queue)])
    /\ pc' \in NotifyOne(Producers, [pc EXCEPT ![c] = "idle"])
    /\ UNCHANGED <<closed, value, accepted>>

Pop(c) ==
    /\ pc[c] = "ready"
    /\ queue # <<>>
    /\ queue' = Tail(queue)
    /\ delivered' = Append(delivered, Head(queue))
    /\ pc' \in NotifyOne(Producers, [pc EXCEPT ![c] = "idle"])
    /\ UNCHANGED <<closed, value, accepted>>

\* close: the flag under the lock, then each condition variable.
Close(k) ==
    /\ pc[k] = "idle"
    /\ closed' = TRUE
    /\ pc' = [pc EXCEPT ![k] = "notify_empty"]
    /\ UNCHANGED <<queue, value, accepted, delivered>>

\* Faulty variant: sleeping consumers are forgotten.
CloseForgetsConsumers(k) ==
    /\ pc[k] = "notify_empty"
    /\ pc' = [pc EXCEPT ![k] = "notify_full"]
    /\ UNCHANGED <<queue, closed, value, accepted, delivered>>

CloseNotifyEmpty(k) ==
    /\ pc[k] = "notify_empty"
    /\ pc' = NotifyAll(Consumers, [pc EXCEPT ![k] = "notify_full"])
    /\ UNCHANGED <<queue, closed, value, accepted, delivered>>

CloseNotifyFull(k) ==
    /\ pc[k] = "notify_full"
    /\ pc' = NotifyAll(Producers, [pc EXCEPT ![k] = "idle"])
    /\ UNCHANGED <<queue, closed, value, accepted, delivered>>

\* A condition variable may wake a waiter for no reason.
SpuriousWakeup(t) ==
    /\ pc[t] = "waiting"
    /\ pc' = [pc EXCEPT ![t] = "ready"]
    /\ UNCHANGED <<queue, closed, value, accepted, delivered>>

Init ==
    /\ queue = <<>> /\ closed = FALSE
    /\ pc = [t \in Threads |-> "idle"]
    /\ value \in [Producers -> Values]
    /\ accepted = <<>> /\ delivered = <<>>

ProducerStep(p) == PushWait(p) \/ PushRefused(p) \/ Push(p)
ConsumerStep(c) == CallPop(c) \/ PopWait(c) \/ PopNone(c) \/ Pop(c)
CloserStep(k) == CloseNotifyEmpty(k) \/ CloseNotifyFull(k)

Next ==
    \/ \E p \in Producers : ProducerStep(p) \/ \E v \in Values : CallPush(p, v)
    \/ \E c \in Consumers : ConsumerStep(c)
    \/ \E k \in Closers : CloserStep(k) \/ Close(k)
    \/ \E t \in Producers \cup Consumers : SpuriousWakeup(t)

Spec == Init /\ [][Next]_vars

\* A thread that wants the mutex gets it, workers keep calling pop, and a
\* thread inside close() finishes.  Nobody needs to push, to close or to be
\* woken spuriously.
Fairness ==
    /\ \A p \in Producers : WF_vars(ProducerStep(p))
    /\ \A c \in Consumers : WF_vars(ConsumerStep(c))
    /\ \A k \in Closers : WF_vars(CloserStep(k))

FairSpec == Spec /\ Fairness
-----------------------------------------------------------------------------
(* Properties.                                                             *)

States == {"idle", "ready", "waiting"}

\* The values of the variables; queue_ never outgrows capacity_.
TypeOK ==
    /\ queue \in Seq(Values) /\ Len(queue) <= Capacity
    /\ closed \in BOOLEAN
    /\ pc \in [Threads -> States \cup {"notify_empty", "notify_full"}]
    /\ \A t \in Producers \cup Consumers : pc[t] \in States
    /\ \A k \in Closers : pc[k] # "ready" /\ pc[k] # "waiting"
    /\ value \in [Producers -> Values]
    /\ accepted \in Seq(Values) /\ delivered \in Seq(Values)

\* While a consumer sleeps, every queued value has an awake consumer of its
\* own on its way to it.
ConsumersSuffice ==
    In(Consumers, "waiting") # {} =>
        Len(queue) <= Cardinality(In(Consumers, "ready"))

\* While a producer sleeps and the queue is open, so has every free slot.
ProducersSuffice ==
    In(Producers, "waiting") # {} /\ ~closed =>
        Capacity - Len(queue) <= Cardinality(In(Producers, "ready"))

\* On a closed queue a sleeper has its notify_all still to come.
ClosersRemember ==
    closed =>
        /\ In(Consumers, "waiting") # {} => In(Closers, "notify_empty") # {}
        /\ In(Producers, "waiting") # {} =>
              In(Closers, "notify_empty") \cup In(Closers, "notify_full") # {}

\* No wakeup is lost: one notify_one per push and per pop, and the two
\* notify_all of close, are enough.
NotifyOneSuffices == ConsumersSuffice /\ ProducersSuffice /\ ClosersRemember

\* The queue is a bounded FIFO channel: what pop returns is what push
\* accepted, in that order, nothing lost, repeated or accepted after close.
Channel == INSTANCE FifoChannel WITH
    Values <- Values, Capacity <- Capacity,
    accepted <- accepted, delivered <- delivered, closed <- closed
ImplementsChannel == Channel!Spec

\* Whatever push accepted is popped in the end, also when close comes first:
\* pop returns nullopt only when the queue is empty.
AcceptedIsDelivered ==
    \A n \in 1..(MaxAccepted + Cardinality(Producers)) :
        (Len(accepted) >= n) ~> (Len(delivered) >= n)

\* close() releases every blocked push and pop.
CloseReleases ==
    \A t \in Producers \cup Consumers :
        (closed /\ pc[t] # "idle") ~> (pc[t] = "idle")
=============================================================================
