------------------------- MODULE BoundedQueueProofs -------------------------
(***************************************************************************)
(* Theorems about BoundedQueue for any threads, values and capacity.       *)
(***************************************************************************)
EXTENDS BoundedQueue, FiniteSetTheorems, TLAPS

-----------------------------------------------------------------------------
\* TypeOK holds initially.
LEMMA InitType == Init => TypeOK
<1>. SUFFICES ASSUME Init PROVE TypeOK
  OBVIOUS
<1>1. queue \in Seq(Values) /\ Len(queue) <= Capacity
  BY QueueAssumption DEF Init
<1>. QED
  BY <1>1, QueueAssumption DEF Init, TypeOK, States, Threads

\* Every step keeps the types and the capacity bound.
LEMMA NextType == TypeOK /\ [Next]_vars => TypeOK'
<1>. SUFFICES ASSUME TypeOK, [Next]_vars PROVE TypeOK'
  OBVIOUS
<1>. USE QueueAssumption DEF TypeOK, States, Threads
<1>1. ASSUME NEW p \in Producers, NEW v \in Values, CallPush(p, v) PROVE TypeOK'
  BY <1>1 DEF CallPush
<1>2. ASSUME NEW p \in Producers, PushWait(p) PROVE TypeOK'
  BY <1>2 DEF PushWait
<1>3. ASSUME NEW p \in Producers, PushRefused(p) PROVE TypeOK'
  BY <1>3 DEF PushRefused
<1>4. ASSUME NEW p \in Producers, Push(p) PROVE TypeOK'
  <2>1. /\ queue' \in Seq(Values) /\ Len(queue') = Len(queue) + 1
        /\ accepted' \in Seq(Values)
    BY <1>4 DEF Push
  <2>2. Len(queue') <= Capacity
    BY <1>4, <2>1 DEF Push, NotFull
  <2>3. pc' = [pc EXCEPT ![p] = "idle"]
        \/ \E t \in Consumers : pc' = [[pc EXCEPT ![p] = "idle"] EXCEPT ![t] = "ready"]
    BY <1>4 DEF Push, NotifyOne
  <2>. QED
    BY <1>4, <2>1, <2>2, <2>3 DEF Push
<1>5. ASSUME NEW c \in Consumers, CallPop(c) PROVE TypeOK'
  BY <1>5 DEF CallPop
<1>6. ASSUME NEW c \in Consumers, PopWait(c) PROVE TypeOK'
  BY <1>6 DEF PopWait
<1>7. ASSUME NEW c \in Consumers, PopNone(c) PROVE TypeOK'
  BY <1>7 DEF PopNone
<1>8. ASSUME NEW c \in Consumers, Pop(c) PROVE TypeOK'
  <2>1. /\ queue' \in Seq(Values) /\ Len(queue') = Len(queue) - 1
        /\ Head(queue) \in Values
    BY <1>8 DEF Pop
  <2>2. delivered' \in Seq(Values) /\ Len(queue') <= Capacity
    BY <1>8, <2>1 DEF Pop
  <2>3. pc' = [pc EXCEPT ![c] = "idle"]
        \/ \E t \in Producers : pc' = [[pc EXCEPT ![c] = "idle"] EXCEPT ![t] = "ready"]
    BY <1>8 DEF Pop, NotifyOne
  <2>. QED
    BY <1>8, <2>1, <2>2, <2>3 DEF Pop
<1>9. ASSUME NEW k \in Closers, Close(k) PROVE TypeOK'
  BY <1>9 DEF Close
<1>10. ASSUME NEW k \in Closers, CloseNotifyEmpty(k) PROVE TypeOK'
  BY <1>10 DEF CloseNotifyEmpty, NotifyAll
<1>11. ASSUME NEW k \in Closers, CloseNotifyFull(k) PROVE TypeOK'
  BY <1>11 DEF CloseNotifyFull, NotifyAll
<1>12. ASSUME NEW t \in Producers \cup Consumers, SpuriousWakeup(t) PROVE TypeOK'
  BY <1>12 DEF SpuriousWakeup
<1>13. CASE UNCHANGED vars
  BY <1>13 DEF vars
<1>. QED
  BY <1>1, <1>2, <1>3, <1>4, <1>5, <1>6, <1>7, <1>8, <1>9, <1>10, <1>11, <1>12, <1>13
  DEF Next, ProducerStep, ConsumerStep, CloserStep

\* BoundedBlockingQueue never holds more than capacity_ values, and its
\* threads are only ever where the code can be.
THEOREM TypeCorrect == Spec => []TypeOK
BY InitType, NextType, PTL DEF Spec

-----------------------------------------------------------------------------
\* Sets of threads can be counted.
LEMMA InFinite ==
    ASSUME NEW S, IsFiniteSet(S), NEW state
    PROVE  IsFiniteSet(In(S, state)) /\ Cardinality(In(S, state)) \in Nat
<1>1. In(S, state) \subseteq S
  BY DEF In
<1>. QED
  BY <1>1, FS_Subset, FS_CardinalityType

\* A larger set of threads is at least as large.
LEMMA CardMonotone ==
    ASSUME NEW A, NEW B, IsFiniteSet(B), A \subseteq B
    PROVE  Cardinality(A) <= Cardinality(B)
BY FS_Subset

\* One thread more counts as one more, one less as one less.
LEMMA CardStep ==
    ASSUME NEW A, NEW x, IsFiniteSet(A)
    PROVE  /\ x \notin A => Cardinality(A \cup {x}) = Cardinality(A) + 1
           /\ x \in A => Cardinality(A \ {x}) = Cardinality(A) - 1
BY FS_AddElement, FS_RemoveElement

\* A push takes one slot and makes room for no one; it wakes a consumer
\* whenever one sleeps.
LEMMA PushWakes ==
    ASSUME TypeOK, NotifyOneSuffices, NEW p \in Producers, Push(p)
    PROVE  ConsumersSuffice' /\ ProducersSuffice'
<1>. USE QueueAssumption
<1>1. Len(queue') = Len(queue) + 1 /\ Len(queue) \in Nat /\ ~closed /\ ~closed'
  BY DEF Push, TypeOK
<1>2. ConsumersSuffice'
  <2>1. CASE In(Consumers, "waiting") = {}
    <3>1. In(Consumers, "waiting")' = {}
      BY <2>1 DEF Push, NotifyOne, In, TypeOK, Threads, States
    <3>. QED
      BY <3>1 DEF ConsumersSuffice
  <2>2. CASE In(Consumers, "waiting") # {}
    <3>1. PICK t \in Consumers :
             /\ pc[t] = "waiting"
             /\ pc' = [[pc EXCEPT ![p] = "idle"] EXCEPT ![t] = "ready"]
      BY <2>2 DEF Push, NotifyOne, In, TypeOK, Threads
    <3>2. In(Consumers, "ready")' = In(Consumers, "ready") \cup {t}
      BY <3>1 DEF In, TypeOK, Threads
    <3>3. t \notin In(Consumers, "ready")
      BY <3>1 DEF In
    <3>4. Cardinality(In(Consumers, "ready")') = Cardinality(In(Consumers, "ready")) + 1
      BY <3>2, <3>3, InFinite, CardStep
    <3>. QED
      BY <2>2, <3>4, <1>1, InFinite DEF ConsumersSuffice, NotifyOneSuffices
  <2>. QED
    BY <2>1, <2>2
<1>3. ProducersSuffice'
  <2>1. \A t \in Producers : t # p => pc'[t] = pc[t]
    BY DEF Push, NotifyOne, TypeOK, Threads
  <2>2. pc[p] = "ready" /\ pc'[p] = "idle"
    BY DEF Push, NotifyOne, TypeOK, Threads
  <2>3. In(Producers, "waiting")' = In(Producers, "waiting")
    BY <2>1, <2>2 DEF In
  <2>4. In(Producers, "ready")' = In(Producers, "ready") \ {p}
    BY <2>1, <2>2 DEF In
  <2>5. p \in In(Producers, "ready")
    BY <2>2 DEF In
  <2>6. Cardinality(In(Producers, "ready")') = Cardinality(In(Producers, "ready")) - 1
    BY <2>4, <2>5, InFinite, CardStep
  <2>. QED
    BY <1>1, <2>3, <2>6, InFinite DEF ProducersSuffice, NotifyOneSuffices
<1>. QED
  BY <1>2, <1>3

\* A pop frees one slot and takes one value; it wakes a producer whenever one
\* sleeps.
LEMMA PopWakes ==
    ASSUME TypeOK, NotifyOneSuffices, NEW c \in Consumers, Pop(c)
    PROVE  ConsumersSuffice' /\ ProducersSuffice'
<1>. USE QueueAssumption
<1>1. /\ Len(queue') = Len(queue) - 1 /\ Len(queue) \in Nat /\ Len(queue') \in Nat
      /\ closed' = closed /\ Len(queue) <= Capacity
  BY DEF Pop, TypeOK
<1>2. ConsumersSuffice'
  <2>1. \A t \in Consumers : t # c => pc'[t] = pc[t]
    BY DEF Pop, NotifyOne, TypeOK, Threads
  <2>2. pc[c] = "ready" /\ pc'[c] = "idle"
    BY DEF Pop, NotifyOne, TypeOK, Threads
  <2>3. In(Consumers, "waiting")' = In(Consumers, "waiting")
    BY <2>1, <2>2 DEF In
  <2>4. In(Consumers, "ready")' = In(Consumers, "ready") \ {c}
    BY <2>1, <2>2 DEF In
  <2>5. c \in In(Consumers, "ready")
    BY <2>2 DEF In
  <2>6. Cardinality(In(Consumers, "ready")') = Cardinality(In(Consumers, "ready")) - 1
    BY <2>4, <2>5, InFinite, CardStep
  <2>. QED
    BY <1>1, <2>3, <2>6, InFinite DEF ConsumersSuffice, NotifyOneSuffices
<1>3. ProducersSuffice'
  <2>1. CASE In(Producers, "waiting") = {}
    <3>1. In(Producers, "waiting")' = {}
      BY <2>1 DEF Pop, NotifyOne, In, TypeOK, Threads, States
    <3>. QED
      BY <3>1 DEF ProducersSuffice
  <2>2. CASE In(Producers, "waiting") # {}
    <3>1. PICK t \in Producers :
             /\ pc[t] = "waiting"
             /\ pc' = [[pc EXCEPT ![c] = "idle"] EXCEPT ![t] = "ready"]
      BY <2>2 DEF Pop, NotifyOne, In, TypeOK, Threads
    <3>2. In(Producers, "ready")' = In(Producers, "ready") \cup {t}
      BY <3>1 DEF In, TypeOK, Threads
    <3>3. t \notin In(Producers, "ready")
      BY <3>1 DEF In
    <3>4. Cardinality(In(Producers, "ready")') = Cardinality(In(Producers, "ready")) + 1
      BY <3>2, <3>3, InFinite, CardStep
    <3>. QED
      BY <2>2, <3>4, <1>1, InFinite DEF ProducersSuffice, NotifyOneSuffices
  <2>. QED
    BY <2>1, <2>2
<1>. QED
  BY <1>2, <1>3

\* A step that leaves the queue alone and lets no consumer go keeps the
\* consumers' part.
LEMMA ConsumersKept ==
    ASSUME TypeOK, ConsumersSuffice, queue' = queue,
           \/ /\ In(Consumers, "ready") \subseteq In(Consumers, "ready")'
              /\ In(Consumers, "waiting")' \subseteq In(Consumers, "waiting")
           \/ queue = <<>>
    PROVE  ConsumersSuffice'
<1>. USE QueueAssumption
<1>1. Len(queue) \in Nat
  BY DEF TypeOK
<1>2. IsFiniteSet(In(Consumers, "ready")') /\ Cardinality(In(Consumers, "ready")') \in Nat
  <2>1. In(Consumers, "ready")' \subseteq Consumers
    BY DEF In
  <2>. QED
    BY <2>1, FS_Subset, FS_CardinalityType
<1>3. CASE queue = <<>>
  BY <1>2, <1>3 DEF ConsumersSuffice
<1>4. CASE /\ In(Consumers, "ready") \subseteq In(Consumers, "ready")'
           /\ In(Consumers, "waiting")' \subseteq In(Consumers, "waiting")
  <2>1. Cardinality(In(Consumers, "ready")) <= Cardinality(In(Consumers, "ready")')
    BY <1>2, <1>4, CardMonotone
  <2>. QED
    BY <1>1, <1>2, <1>4, <2>1, InFinite DEF ConsumersSuffice
<1>. QED
  BY <1>3, <1>4

\* The same for the producers' part.
LEMMA ProducersKept ==
    ASSUME TypeOK, ProducersSuffice, queue' = queue,
           \/ /\ In(Producers, "ready") \subseteq In(Producers, "ready")'
              /\ In(Producers, "waiting")' \subseteq In(Producers, "waiting")
              /\ closed => closed'
           \/ ~NotFull
           \/ closed'
    PROVE  ProducersSuffice'
<1>. USE QueueAssumption
<1>1. Len(queue) \in Nat /\ Capacity \in Nat
  BY DEF TypeOK
<1>2. IsFiniteSet(In(Producers, "ready")') /\ Cardinality(In(Producers, "ready")') \in Nat
  <2>1. In(Producers, "ready")' \subseteq Producers
    BY DEF In
  <2>. QED
    BY <2>1, FS_Subset, FS_CardinalityType
<1>3. CASE closed'
  BY <1>3 DEF ProducersSuffice
<1>4. CASE ~NotFull
  BY <1>1, <1>2, <1>4 DEF ProducersSuffice, NotFull
<1>5. CASE /\ In(Producers, "ready") \subseteq In(Producers, "ready")'
           /\ In(Producers, "waiting")' \subseteq In(Producers, "waiting")
           /\ closed => closed'
  <2>1. Cardinality(In(Producers, "ready")) <= Cardinality(In(Producers, "ready")')
    BY <1>2, <1>5, CardMonotone
  <2>. QED
    BY <1>1, <1>2, <1>5, <2>1, InFinite DEF ProducersSuffice
<1>. QED
  BY <1>3, <1>4, <1>5

\* Whoever sleeps on a closed queue is still to be notified: no step puts a
\* thread to sleep there, and close wakes all before it returns.
LEMMA ClosersKept ==
    ASSUME TypeOK, ClosersRemember, [Next]_vars
    PROVE  ClosersRemember'
<1>. USE QueueAssumption DEF ClosersRemember, In, TypeOK, Threads, States
<1>1. ASSUME NEW p \in Producers, NEW v \in Values, CallPush(p, v) PROVE ClosersRemember'
  BY <1>1 DEF CallPush
<1>2. ASSUME NEW p \in Producers, PushWait(p) PROVE ClosersRemember'
  BY <1>2 DEF PushWait
<1>3. ASSUME NEW p \in Producers, PushRefused(p) PROVE ClosersRemember'
  BY <1>3 DEF PushRefused
<1>4. ASSUME NEW p \in Producers, Push(p) PROVE ClosersRemember'
  BY <1>4 DEF Push
<1>5. ASSUME NEW c \in Consumers, CallPop(c) PROVE ClosersRemember'
  BY <1>5 DEF CallPop
<1>6. ASSUME NEW c \in Consumers, PopWait(c) PROVE ClosersRemember'
  BY <1>6 DEF PopWait
<1>7. ASSUME NEW c \in Consumers, PopNone(c) PROVE ClosersRemember'
  BY <1>7 DEF PopNone
<1>8. ASSUME NEW c \in Consumers, Pop(c) PROVE ClosersRemember'
  <2>1. /\ \A t \in Threads : pc'[t] = "waiting" => pc[t] = "waiting"
        /\ \A k \in Closers : pc'[k] = pc[k]
    <3>1. pc' = [pc EXCEPT ![c] = "idle"]
          \/ \E t \in Producers : pc' = [[pc EXCEPT ![c] = "idle"] EXCEPT ![t] = "ready"]
      BY <1>8 DEF Pop, NotifyOne
    <3>. QED
      BY <3>1
  <2>. QED
    BY <1>8, <2>1 DEF Pop
<1>9. ASSUME NEW k \in Closers, Close(k) PROVE ClosersRemember'
  <2>1. pc'[k] = "notify_empty"
    BY <1>9 DEF Close
  <2>. QED
    BY <2>1
<1>10. ASSUME NEW k \in Closers, CloseNotifyEmpty(k) PROVE ClosersRemember'
  <2>1. /\ pc'[k] = "notify_full"
        /\ \A c \in Consumers : pc'[c] # "waiting"
    BY <1>10 DEF CloseNotifyEmpty, NotifyAll
  <2>. QED
    BY <2>1
<1>11. ASSUME NEW k \in Closers, CloseNotifyFull(k) PROVE ClosersRemember'
  <2>1. /\ \A p \in Producers : pc'[p] # "waiting"
        /\ \A t \in Threads \ {k} : t \notin Producers => pc'[t] = pc[t]
        /\ pc[k] = "notify_full" /\ closed' = closed
    BY <1>11 DEF CloseNotifyFull, NotifyAll
  <2>. QED
    BY <2>1
<1>12. ASSUME NEW t \in Producers \cup Consumers, SpuriousWakeup(t) PROVE ClosersRemember'
  BY <1>12 DEF SpuriousWakeup
<1>13. CASE UNCHANGED vars
  BY <1>13 DEF vars
<1>. QED
  BY <1>1, <1>2, <1>3, <1>4, <1>5, <1>6, <1>7, <1>8, <1>9, <1>10, <1>11, <1>12, <1>13
  DEF Next, ProducerStep, ConsumerStep, CloserStep

-----------------------------------------------------------------------------
\* No step loses a wakeup.
LEMMA NextNotify ==
    TypeOK /\ NotifyOneSuffices /\ [Next]_vars => NotifyOneSuffices'
<1>. SUFFICES ASSUME TypeOK, NotifyOneSuffices, [Next]_vars
              PROVE  ConsumersSuffice' /\ ProducersSuffice'
  BY ClosersKept DEF NotifyOneSuffices
<1>. DEFINE Goal == ConsumersSuffice' /\ ProducersSuffice'
            Kept == /\ queue' = queue
                    /\ closed => closed'
                    /\ In(Consumers, "ready") \subseteq In(Consumers, "ready")'
                    /\ In(Consumers, "waiting")' \subseteq In(Consumers, "waiting")
                    /\ In(Producers, "ready") \subseteq In(Producers, "ready")'
                    /\ In(Producers, "waiting")' \subseteq In(Producers, "waiting")
<1>0. ASSUME Kept PROVE Goal
  BY <1>0, ConsumersKept, ProducersKept DEF NotifyOneSuffices
<1>1. ASSUME NEW p \in Producers, NEW v \in Values, CallPush(p, v) PROVE Goal
  <2>. Kept
    BY <1>1, QueueAssumption DEF CallPush, In, TypeOK, Threads
  <2>. QED
    BY <1>0
<1>2. ASSUME NEW p \in Producers, PushWait(p) PROVE Goal
  <2>1. /\ In(Consumers, "ready") \subseteq In(Consumers, "ready")'
        /\ In(Consumers, "waiting")' \subseteq In(Consumers, "waiting")
    BY <1>2, QueueAssumption DEF PushWait, In, TypeOK, Threads
  <2>. QED
    BY <1>2, <2>1, ConsumersKept, ProducersKept DEF NotifyOneSuffices, PushWait
<1>3. ASSUME NEW p \in Producers, PushRefused(p) PROVE Goal
  <2>1. /\ In(Consumers, "ready") \subseteq In(Consumers, "ready")'
        /\ In(Consumers, "waiting")' \subseteq In(Consumers, "waiting")
    BY <1>3, QueueAssumption DEF PushRefused, In, TypeOK, Threads
  <2>. QED
    BY <1>3, <2>1, ConsumersKept, ProducersKept DEF NotifyOneSuffices, PushRefused
<1>4. ASSUME NEW p \in Producers, Push(p) PROVE Goal
  BY <1>4, PushWakes
<1>5. ASSUME NEW c \in Consumers, CallPop(c) PROVE Goal
  <2>. Kept
    BY <1>5, QueueAssumption DEF CallPop, In, TypeOK, Threads
  <2>. QED
    BY <1>0
<1>6. ASSUME NEW c \in Consumers, PopWait(c) PROVE Goal
  <2>1. /\ In(Producers, "ready") \subseteq In(Producers, "ready")'
        /\ In(Producers, "waiting")' \subseteq In(Producers, "waiting")
    BY <1>6, QueueAssumption DEF PopWait, In, TypeOK, Threads
  <2>. QED
    BY <1>6, <2>1, ConsumersKept, ProducersKept DEF NotifyOneSuffices, PopWait
<1>7. ASSUME NEW c \in Consumers, PopNone(c) PROVE Goal
  BY <1>7, ConsumersKept, ProducersKept DEF NotifyOneSuffices, PopNone
<1>8. ASSUME NEW c \in Consumers, Pop(c) PROVE Goal
  BY <1>8, PopWakes
<1>9. ASSUME NEW k \in Closers, Close(k) PROVE Goal
  <2>. Kept
    BY <1>9, QueueAssumption DEF Close, In, TypeOK, Threads
  <2>. QED
    BY <1>0
<1>10. ASSUME NEW k \in Closers, CloseNotifyEmpty(k) PROVE Goal
  <2>. Kept
    BY <1>10, QueueAssumption DEF CloseNotifyEmpty, NotifyAll, In, TypeOK, Threads
  <2>. QED
    BY <1>0
<1>11. ASSUME NEW k \in Closers, CloseNotifyFull(k) PROVE Goal
  <2>. Kept
    BY <1>11, QueueAssumption DEF CloseNotifyFull, NotifyAll, In, TypeOK, Threads
  <2>. QED
    BY <1>0
<1>12. ASSUME NEW t \in Producers \cup Consumers, SpuriousWakeup(t) PROVE Goal
  <2>. Kept
    BY <1>12, QueueAssumption DEF SpuriousWakeup, In, TypeOK, Threads
  <2>. QED
    BY <1>0
<1>13. CASE UNCHANGED vars
  <2>. Kept
    BY <1>13 DEF vars, In
  <2>. QED
    BY <1>0
<1>. QED
  BY <1>1, <1>2, <1>3, <1>4, <1>5, <1>6, <1>7, <1>8, <1>9, <1>10, <1>11, <1>12, <1>13
  DEF Next, ProducerStep, ConsumerStep, CloserStep

\* However many threads push, pop and close, and whoever is woken for no
\* reason, no thread sleeps while there is something for it to do that no
\* awake thread is about to do.
THEOREM NoLostWakeup == Spec => []NotifyOneSuffices
<1>1. Init => NotifyOneSuffices
  BY QueueAssumption DEF Init, NotifyOneSuffices, ConsumersSuffice, ProducersSuffice,
     ClosersRemember, In, Threads
<1>. QED
  BY <1>1, InitType, NextType, NextNotify, PTL DEF Spec

-----------------------------------------------------------------------------
\* What is queued is what was accepted and not yet delivered, in that order.
QueueIsBacklog ==
    /\ Len(accepted) = Len(delivered) + Len(queue)
    /\ \A i \in 1..Len(queue) : queue[i] = accepted[Len(delivered) + i]

\* Push and pop keep the queue equal to the backlog.
LEMMA NextBacklog == TypeOK /\ QueueIsBacklog /\ [Next]_vars => QueueIsBacklog'
<1>. SUFFICES ASSUME TypeOK, QueueIsBacklog, [Next]_vars PROVE QueueIsBacklog'
  OBVIOUS
<1>1. ASSUME NEW p \in Producers, Push(p) PROVE QueueIsBacklog'
  <2>1. /\ queue \in Seq(Values) /\ accepted \in Seq(Values) /\ value[p] \in Values
        /\ Len(queue) \in Nat /\ Len(delivered) \in Nat /\ Len(accepted) \in Nat
    BY DEF TypeOK
  <2>2. /\ queue' = Append(queue, value[p]) /\ accepted' = Append(accepted, value[p])
        /\ delivered' = delivered
    BY <1>1 DEF Push
  <2>3. Len(queue') = Len(queue) + 1 /\ Len(accepted') = Len(accepted) + 1
    BY <2>1, <2>2
  <2>4. ASSUME NEW i \in 1..Len(queue') PROVE queue'[i] = accepted'[Len(delivered) + i]
    <3>1. CASE i = Len(queue')
      BY <2>1, <2>2, <2>3, <3>1 DEF QueueIsBacklog
    <3>2. CASE i # Len(queue')
      <4>1. i \in 1..Len(queue) /\ Len(delivered) + i \in 1..Len(accepted)
        BY <2>1, <2>3, <3>2 DEF QueueIsBacklog
      <4>2. queue'[i] = queue[i] /\ accepted'[Len(delivered) + i] = accepted[Len(delivered) + i]
        BY <2>1, <2>2, <4>1
      <4>. QED
        BY <4>1, <4>2 DEF QueueIsBacklog
    <3>. QED
      BY <3>1, <3>2
  <2>5. Len(accepted') = Len(delivered') + Len(queue')
    BY <2>1, <2>2, <2>3 DEF QueueIsBacklog
  <2>. QED
    BY <2>2, <2>4, <2>5 DEF QueueIsBacklog
<1>2. ASSUME NEW c \in Consumers, Pop(c) PROVE QueueIsBacklog'
  <2>1. /\ Len(queue') = Len(queue) - 1
        /\ Len(delivered') = Len(delivered) + 1
        /\ \A i \in 1..Len(queue') : queue'[i] = queue[i + 1]
    BY <1>2 DEF Pop, TypeOK
  <2>0. accepted' = accepted
    BY <1>2 DEF Pop
  <2>2. Len(queue) \in Nat /\ Len(delivered) \in Nat /\ Len(queue') \in Nat
    BY <2>1 DEF TypeOK
  <2>3. ASSUME NEW i \in 1..Len(queue')
        PROVE  queue'[i] = accepted'[Len(delivered') + i]
    <3>1. i + 1 \in 1..Len(queue) /\ Len(delivered') + i = Len(delivered) + (i + 1)
      BY <2>1, <2>2
    <3>. QED
      BY <2>0, <2>1, <3>1 DEF QueueIsBacklog
  <2>4. Len(accepted') = Len(delivered') + Len(queue')
    <3>1. Len(accepted) = Len(delivered) + Len(queue)
      BY DEF QueueIsBacklog
    <3>. QED
      BY <2>0, <2>1, <2>2, <3>1
  <2>. QED
    BY <2>3, <2>4 DEF QueueIsBacklog
<1>3. CASE UNCHANGED <<queue, accepted, delivered>>
  BY <1>3 DEF QueueIsBacklog
<1>. QED
  BY <1>1, <1>2, <1>3
  DEF Next, ProducerStep, ConsumerStep, CloserStep, CallPush, PushWait, PushRefused,
      CallPop, PopWait, PopNone, Close, CloseNotifyEmpty, CloseNotifyFull,
      SpuriousWakeup, vars

\* Every step is a step of the channel or leaves the channel alone.
LEMMA StepRefines ==
    TypeOK /\ QueueIsBacklog /\ [Next]_vars => [Channel!Next]_<<accepted, delivered, closed>>
<1>. SUFFICES ASSUME TypeOK, QueueIsBacklog, [Next]_vars
              PROVE  Channel!Next \/ UNCHANGED <<accepted, delivered, closed>>
  OBVIOUS
<1>1. ASSUME NEW p \in Producers, Push(p) PROVE Channel!Next
  <2>1. value[p] \in Values
    BY DEF TypeOK
  <2>2. Len(accepted) < Len(delivered) + Capacity
    BY <1>1, QueueAssumption DEF Push, NotFull, TypeOK, QueueIsBacklog
  <2>3. Channel!Accept(value[p])
    BY <1>1, <2>2 DEF Push, Channel!Accept
  <2>. QED
    BY <2>1, <2>3 DEF Channel!Next
<1>2. ASSUME NEW c \in Consumers, Pop(c) PROVE Channel!Next
  <2>1. Len(queue) > 0 /\ Head(queue) = queue[1]
    BY <1>2 DEF Pop, TypeOK
  <2>2. Len(delivered) < Len(accepted) /\ Head(queue) = accepted[Len(delivered) + 1]
    BY <2>1 DEF TypeOK, QueueIsBacklog
  <2>3. Channel!Deliver
    BY <1>2, <2>2 DEF Pop, Channel!Deliver
  <2>. QED
    BY <2>3 DEF Channel!Next
<1>3. ASSUME NEW k \in Closers, Close(k) PROVE Channel!Next
  BY <1>3 DEF Close, Channel!Close, Channel!Next
<1>4. CASE UNCHANGED <<accepted, delivered, closed>>
  BY <1>4
<1>. QED
  BY <1>1, <1>2, <1>3, <1>4
  DEF Next, ProducerStep, ConsumerStep, CloserStep, CallPush, PushWait, PushRefused,
      CallPop, PopWait, PopNone, CloseNotifyEmpty, CloseNotifyFull, SpuriousWakeup, vars

\* BoundedBlockingQueue is a bounded FIFO channel: pop returns what push
\* accepted, in that order, whatever the threads' interleaving.
THEOREM RefinesChannel == Spec => ImplementsChannel
<1>1. Init => QueueIsBacklog /\ Channel!Init
  BY DEF Init, QueueIsBacklog, Channel!Init
<1>. QED
  BY <1>1, InitType, NextType, NextBacklog, StepRefines, PTL
  DEF Spec, ImplementsChannel, Channel!Spec, Channel!channelVars
=============================================================================
