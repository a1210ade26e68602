--------------------------- MODULE SuperApiProofs ---------------------------
(***************************************************************************)
(* Theorems about the parts of SuperAPI: ProviderGateway, for any threads, *)
(* requests and providers and any setting of each provider; SseStream, for *)
(* any size of the buffer and any number of heartbeats; Observability, for *)
(* any threads, requests and companies; and the types of all three.        *)
(* What a step does to one breaker is summed up first (OneBreaker): it     *)
(* lets a thread in, lets one out, rests, or leaves the breaker alone. The *)
(* bound on the failures and the refinement of CircuitBreaker follow from  *)
(* that summary.                                                           *)
(***************************************************************************)
EXTENDS MCSuperApi, SeqMeasureTheorems

-----------------------------------------------------------------------------
(* The gateway: types *)

BreakerType == [failures : Nat, open : BOOLEAN, left : Nat]
ThreadType == {Idle} \cup Stuck \cup Busy
AnswerType == [status : Nat, form : {"sse", "json", "none"}]

\* A thread inside a handler works on a request for a provider.
LEMMA AtWork ==
  ASSUME GatewayTypeOK, NEW t \in Threads,
         thread[t].phase \in {"admit", "calling", "backoff"}
  PROVE  thread[t] \in Busy
<1>1. thread[t] \in {Idle} \cup Stuck \cup Busy
  BY DEF GatewayTypeOK
<1>2. thread[t] # Idle
  BY DEF Idle
<1>3. thread[t] \notin Stuck
  BY DEF Stuck
<1>. QED
  BY <1>1, <1>2, <1>3

\* The end of an operation: the thread is free, or stuck, and the request answered.
LEMMA ReplyType ==
  ASSUME GatewayTypeOK, NEW t \in Threads, thread[t] \in Busy,
         NEW a \in AnswerType, NEW big \in BOOLEAN, Reply(t, a, big)
  PROVE  /\ thread' \in [Threads -> ThreadType]
         /\ answer' \in [Requests -> AnswerType]
<1>1. thread[t].req \in Requests
  BY DEF Busy
<1>2. [phase |-> "stuck", req |-> thread[t].req] \in ThreadType /\ Idle \in ThreadType
  BY <1>1 DEF ThreadType, Stuck
<1>3. thread \in [Threads -> ThreadType] /\ answer \in [Requests -> AnswerType]
  BY DEF GatewayTypeOK, ThreadType, AnswerType
<1>4. CASE big /\ a.form = "sse"
  BY <1>2, <1>3, <1>4 DEF Reply
<1>5. CASE ~(big /\ a.form = "sse")
  BY <1>1, <1>2, <1>3, <1>5 DEF Reply
<1>. QED
  BY <1>4, <1>5

\* An error is answered with a status and in the form of the request.
LEMMA ErrorType ==
  ASSUME NEW type, NEW form \in {"sse", "json"}
  PROVE  ErrorAnswer(type, form) \in AnswerType
BY DEF ErrorAnswer, StatusOf, AnswerType

LEMMA ReplyErrorType ==
  ASSUME GatewayTypeOK, NEW t \in Threads, thread[t] \in Busy,
         NEW type, NEW big \in BOOLEAN, ReplyError(t, type, big)
  PROVE  /\ thread' \in [Threads -> ThreadType]
         /\ answer' \in [Requests -> AnswerType]
<1>1. thread[t].form \in {"sse", "json"}
  BY DEF Busy
<1>2. ErrorAnswer(type, thread[t].form) \in AnswerType
  BY <1>1, ErrorType
<1>3. Reply(t, ErrorAnswer(type, thread[t].form), big)
  BY DEF ReplyError
<1>. QED
  BY <1>2, <1>3, ReplyType

LEMMA CountType ==
  ASSUME GatewayTypeOK, NEW p \in Providers, CountFailure(p)
  PROVE  breaker' \in [Providers -> BreakerType]
<1>1. Settings[p].threshold \in Nat /\ Settings[p].cooldown \in Nat
  BY GatewayAssumption DEF Setting
<1>2. breaker \in [Providers -> BreakerType]
  BY DEF GatewayTypeOK, BreakerType
<1>. QED
  BY <1>1, <1>2 DEF CountFailure, BreakerType

LEMMA ResetType ==
  ASSUME GatewayTypeOK, NEW p \in Providers, ResetBreaker(p)
  PROVE  breaker' \in [Providers -> BreakerType]
BY DEF GatewayTypeOK, BreakerType, ResetBreaker

\* What the handler answers on its own, and the provider it turns to otherwise.
LEMMA RefusalType ==
  ASSUME NEW s \in Shapes, Refusal(s) # NoAnswer
  PROVE  Refusal(s) \in AnswerType
BY DEF Refusal, CompanyRefusal, XaiRefusal, NoAnswer, ErrorAnswer, StatusOf, AnswerType

LEMMA ProviderType ==
  ASSUME NEW s \in Shapes, Refusal(s) = NoAnswer
  PROVE  ProviderOf(s) \in Providers
BY DEF Refusal, CompanyRefusal, XaiRefusal, Unconfigured, NoAnswer, ErrorAnswer, StatusOf

LEMMA ReceiveType ==
  ASSUME GatewayTypeOK, NEW t \in Threads, NEW r \in Requests, NEW s \in Shapes,
         Receive(t, r, s)
  PROVE  GatewayTypeOK'
<1>0. /\ thread \in [Threads -> ThreadType] /\ answer \in [Requests -> AnswerType]
      /\ breaker \in [Providers -> BreakerType] /\ breaker' = breaker
  BY DEF GatewayTypeOK, ThreadType, AnswerType, BreakerType, Receive
<1>1. CASE Refusal(s) # NoAnswer
  <2>1. Refusal(s) \in AnswerType
    BY <1>1, RefusalType
  <2>2. thread' = thread /\ answer' = [answer EXCEPT ![r] = Refusal(s)]
    BY <1>1 DEF Receive
  <2>. QED
    BY <1>0, <2>1, <2>2 DEF GatewayTypeOK, ThreadType, AnswerType, BreakerType
<1>2. CASE Refusal(s) = NoAnswer
  <2>1. ProviderOf(s) \in Providers
    BY <1>2, ProviderType
  <2>2. FormOf(s) \in {"sse", "json"}
    BY DEF FormOf
  <2>3. [phase |-> "admit", req |-> r, form |-> FormOf(s),
         provider |-> ProviderOf(s), attempt |-> 0, wait |-> 0] \in Busy
    BY <2>1, <2>2 DEF Busy
  <2>4. /\ thread' = [thread EXCEPT ![t] =
              [phase |-> "admit", req |-> r, form |-> FormOf(s),
               provider |-> ProviderOf(s), attempt |-> 0, wait |-> 0]]
        /\ answer' = answer
    BY <1>2 DEF Receive
  <2>5. thread' \in [Threads -> ThreadType]
    BY <1>0, <2>3, <2>4 DEF ThreadType
  <2>. QED
    BY <1>0, <2>4, <2>5 DEF GatewayTypeOK, ThreadType, AnswerType, BreakerType
<1>. QED
  BY <1>1, <1>2

LEMMA BackoffType ==
  ASSUME GatewayTypeOK, NEW t \in Threads, thread[t] \in Busy, Backoff(t)
  PROVE  thread' \in [Threads -> ThreadType]
<1>1. PICK delay \in computeBackoff(thread[t].attempt) :
        thread' = [thread EXCEPT ![t].phase = "backoff", ![t].wait = delay]
  BY DEF Backoff
<1>2. delay \in Nat
  BY GatewayAssumption DEF computeBackoff
<1>3. [thread[t] EXCEPT !.phase = "backoff", !.wait = delay] \in Busy
  BY <1>2 DEF Busy
<1>. QED
  BY <1>1, <1>3 DEF GatewayTypeOK, ThreadType

LEMMA NextAttemptType ==
  ASSUME NEW b \in Busy, NEW n \in Nat
  PROVE  [b EXCEPT !.phase = "calling", !.attempt = n] \in Busy
BY DEF Busy

LEMMA HandleType ==
  ASSUME GatewayTypeOK, NEW t \in Threads, Handle(t)
  PROVE  GatewayTypeOK'
<1>0. /\ thread \in [Threads -> ThreadType] /\ answer \in [Requests -> AnswerType]
      /\ breaker \in [Providers -> BreakerType]
  BY DEF GatewayTypeOK, ThreadType, AnswerType, BreakerType
<1>. SUFFICES /\ thread' \in [Threads -> ThreadType]
              /\ answer' \in [Requests -> AnswerType]
              /\ breaker' \in [Providers -> BreakerType]
  BY DEF GatewayTypeOK, ThreadType, AnswerType, BreakerType
<1>1. thread[t] \in Busy
  BY AtWork DEF Handle, Misconfigured, ShutOut, Admit, Ready, Retry, Wake, Fail, Succeed,
                Break, Calling
<1>2. thread[t].provider \in Providers /\ thread[t].form \in {"sse", "json"}
      /\ thread[t].attempt \in Nat
  BY <1>1 DEF Busy
<1>3. CASE Misconfigured(t)
  BY <1>0, <1>1, <1>3, ReplyErrorType DEF Misconfigured
<1>4. CASE ShutOut(t)
  BY <1>0, <1>1, <1>4, ReplyErrorType DEF ShutOut
<1>5. CASE Admit(t)
  <2>1. [thread[t] EXCEPT !.phase = "calling"] \in Busy
    BY <1>1 DEF Busy
  <2>2. thread' \in [Threads -> ThreadType] /\ answer' = answer
    BY <1>0, <1>5, <2>1 DEF Admit, ThreadType
  <2>3. breaker' \in [Providers -> BreakerType]
    BY <1>0, <1>2, <1>5 DEF Admit, BreakerType
  <2>. QED
    BY <1>0, <2>2, <2>3
<1>6. CASE Retry(t)
  BY <1>0, <1>1, <1>6, BackoffType DEF Retry
<1>7. CASE Wake(t)
  <2>0. thread[t].attempt + 1 \in Nat
    BY <1>2
  <2>1. [thread[t] EXCEPT !.phase = "calling", !.attempt = thread[t].attempt + 1] \in Busy
    BY <1>1, <2>0, NextAttemptType, Zenon
  <2>. QED
    BY <1>0, <1>7, <2>1 DEF Wake, ThreadType
<1>8. ASSUME NEW big \in BOOLEAN, NEW o \in Failing, Fail(t, o, big)
      PROVE  /\ thread' \in [Threads -> ThreadType]
             /\ answer' \in [Requests -> AnswerType]
             /\ breaker' \in [Providers -> BreakerType]
  <2>1. CountFailure(thread[t].provider) /\ ReplyError(t, FailureOf(o), big)
    BY <1>8 DEF Fail
  <2>. QED
    BY <1>1, <1>2, <2>1, CountType, ReplyErrorType
<1>9. ASSUME NEW big \in BOOLEAN, NEW o \in Answering, Succeed(t, o, big)
      PROVE  /\ thread' \in [Threads -> ThreadType]
             /\ answer' \in [Requests -> AnswerType]
             /\ breaker' \in [Providers -> BreakerType]
  <2>1. [status |-> 200, form |-> thread[t].form] \in AnswerType
    BY <1>2 DEF AnswerType
  <2>2. /\ ResetBreaker(thread[t].provider)
        /\ Reply(t, [status |-> 200, form |-> thread[t].form], big)
    BY <1>9 DEF Succeed
  <2>. QED
    BY <1>1, <1>2, <2>1, <2>2, ResetType, ReplyType
<1>10. ASSUME NEW o \in Throwing, Break(t, o)
       PROVE  /\ thread' \in [Threads -> ThreadType]
              /\ answer' \in [Requests -> AnswerType]
              /\ breaker' \in [Providers -> BreakerType]
  <2>1. [status |-> 500, form |-> "json"] \in AnswerType
    BY DEF AnswerType
  <2>2. Reply(t, [status |-> 500, form |-> "json"], FALSE)
    BY <1>10 DEF Break, Throw
  <2>3. ResetBreaker(thread[t].provider) \/ breaker' = breaker
    BY <1>10 DEF Break
  <2>. QED
    BY <1>0, <1>1, <1>2, <2>1, <2>2, <2>3, ResetType, ReplyType
<1>. QED
  BY <1>3, <1>4, <1>5, <1>6, <1>7, <1>8, <1>9, <1>10 DEF Handle

LEMMA TickType ==
  ASSUME GatewayTypeOK, Tick
  PROVE  GatewayTypeOK'
<1>0. /\ thread \in [Threads -> ThreadType] /\ answer \in [Requests -> AnswerType]
      /\ breaker \in [Providers -> BreakerType]
  BY DEF GatewayTypeOK, ThreadType, AnswerType, BreakerType
<1>1. ASSUME NEW p \in Providers
      PROVE  [breaker[p] EXCEPT !.left = IF @ > 0 THEN @ - 1 ELSE 0] \in BreakerType
  BY <1>0 DEF BreakerType
<1>2. breaker' \in [Providers -> BreakerType]
  BY <1>1 DEF Tick
<1>3. ASSUME NEW t \in Threads
      PROVE  (IF thread[t] \in Busy /\ thread[t].wait > 0
              THEN [thread[t] EXCEPT !.wait = @ - 1] ELSE thread[t]) \in ThreadType
  <2>1. CASE thread[t] \in Busy /\ thread[t].wait > 0
    <3>1. [thread[t] EXCEPT !.wait = @ - 1] \in Busy
      BY <2>1 DEF Busy
    <3>. QED
      BY <2>1, <3>1 DEF ThreadType
  <2>2. CASE ~(thread[t] \in Busy /\ thread[t].wait > 0)
    BY <1>0, <2>2
  <2>. QED
    BY <2>1, <2>2
<1>4. thread' \in [Threads -> ThreadType]
  BY <1>3 DEF Tick
<1>5. answer' = answer
  BY DEF Tick
<1>. QED
  BY <1>0, <1>2, <1>4, <1>5 DEF GatewayTypeOK, ThreadType, AnswerType, BreakerType

LEMMA InitTyped == GatewayInit => GatewayTypeOK
BY DEF GatewayInit, GatewayTypeOK, Idle, NoAnswer

LEMMA NextTyped == GatewayTypeOK /\ [GatewayNext]_gatewayVars => GatewayTypeOK'
<1>. SUFFICES ASSUME GatewayTypeOK, [GatewayNext]_gatewayVars
              PROVE  GatewayTypeOK'
  OBVIOUS
<1>1. CASE UNCHANGED gatewayVars
  BY <1>1 DEF gatewayVars, GatewayTypeOK
<1>2. CASE GatewayNext
  BY <1>2, TickType, ReceiveType, HandleType DEF GatewayNext
<1>. QED
  BY <1>1, <1>2

\* Breakers, threads and answers are what the code's types say, for any number of
\* threads, requests and providers; no backoff and no rest is negative.
THEOREM TypeCorrect == GatewaySpec => []GatewayTypeOK
BY InitTyped, NextTyped, PTL DEF GatewaySpec

-----------------------------------------------------------------------------
(* What a step does to one breaker *)

Left(p, t) == t \in Inside(p) /\ Inside(p)' = Inside(p) \ {t}

\* Nothing, or a thread that was inside has ended in an exception.
Untouched(p) == Inside(p)' = Inside(p) /\ breaker'[p] = breaker[p]
Slipped(p, t) == Left(p, t) /\ breaker'[p] = breaker[p]

\* A thread is let in, failed, or succeeded.
LetIn(p, t) ==
  /\ t \in Threads \ Inside(p)
  /\ Inside(p)' = Inside(p) \cup {t}
  /\ breaker[p].open => breaker[p].left = 0
  /\ breaker'[p].open = FALSE
  /\ breaker'[p].failures = IF breaker[p].open THEN 0 ELSE breaker[p].failures
  /\ breaker'[p].left = breaker[p].left

Failed(p, t) ==
  /\ Left(p, t)
  /\ breaker'[p].failures = breaker[p].failures + 1
  /\ IF breaker'[p].failures >= Settings[p].threshold
     THEN breaker'[p].open = TRUE /\ breaker'[p].left = Settings[p].cooldown
     ELSE breaker'[p].open = breaker[p].open /\ breaker'[p].left = breaker[p].left

Succeeded(p, t) ==
  /\ Left(p, t)
  /\ breaker'[p].failures = 0 /\ breaker'[p].open = FALSE /\ breaker'[p].left = 0

\* A tick of the clock.
Rested(p) ==
  /\ Inside(p)' = Inside(p)
  /\ breaker'[p].failures = breaker[p].failures
  /\ breaker'[p].open = breaker[p].open
  /\ breaker'[p].left = IF breaker[p].left > 0 THEN breaker[p].left - 1 ELSE 0

\* A thread whose record is replaced by one that is not inside p has left it.
LEMMA InsideLess ==
  ASSUME GatewayTypeOK, NEW t \in Threads, NEW v, NEW p,
         thread' = [thread EXCEPT ![t] = v],
         ~(v.phase \in {"calling", "backoff"} /\ v.provider = p)
  PROVE  Inside(p)' = Inside(p) \ {t}
<1>1. thread'[t] = v /\ \A s \in Threads \ {t} : thread'[s] = thread[s]
  BY DEF GatewayTypeOK
<1>. QED
  BY <1>1 DEF Inside

\* One whose record is replaced by one that is inside p is there afterwards.
LEMMA InsideMore ==
  ASSUME GatewayTypeOK, NEW t \in Threads, NEW v, NEW p,
         thread' = [thread EXCEPT ![t] = v],
         v.phase \in {"calling", "backoff"}, v.provider = p
  PROVE  Inside(p)' = Inside(p) \cup {t}
<1>1. thread'[t] = v /\ \A s \in Threads \ {t} : thread'[s] = thread[s]
  BY DEF GatewayTypeOK
<1>. QED
  BY <1>1 DEF Inside

\* Every way to end an operation takes the thread out.
LEMMA ReplyLeaves ==
  ASSUME GatewayTypeOK, NEW t \in Threads, NEW a, NEW big, NEW p, Reply(t, a, big)
  PROVE  Inside(p)' = Inside(p) \ {t}
<1>1. CASE big /\ a.form = "sse"
  <2>1. thread' = [thread EXCEPT ![t] = [phase |-> "stuck", req |-> thread[t].req]]
    BY <1>1 DEF Reply
  <2>. QED
    BY <2>1, InsideLess
<1>2. CASE ~(big /\ a.form = "sse")
  <2>1. thread' = [thread EXCEPT ![t] = Idle]
    BY <1>2 DEF Reply
  <2>2. Idle.phase = "idle"
    BY DEF Idle
  <2>. QED
    BY <2>1, <2>2, InsideLess
<1>. QED
  BY <1>1, <1>2

LEMMA NotInside ==
  ASSUME NEW t, NEW p, t \notin Inside(p)
  PROVE  Inside(p) \ {t} = Inside(p)
OBVIOUS

\* Before it is admitted a thread is inside no breaker, afterwards inside its own only.
LEMMA OutsideAtFirst ==
  ASSUME NEW t \in Threads, thread[t].phase = "admit", NEW p
  PROVE  t \notin Inside(p)
BY DEF Inside

LEMMA InsideItsOwn ==
  ASSUME NEW t \in Threads, Calling(t), NEW p
  PROVE  t \in Inside(p) <=> thread[t].provider = p
BY DEF Inside, Calling

LEMMA ReceiveBreaker ==
  ASSUME GatewayTypeOK, NEW t \in Threads, NEW r \in Requests, NEW s \in Shapes,
         Receive(t, r, s), NEW p \in Providers
  PROVE  Untouched(p)
<1>1. breaker' = breaker /\ t \notin Inside(p)
  BY DEF Receive, Inside, Idle
<1>2. CASE Refusal(s) # NoAnswer
  BY <1>1, <1>2 DEF Receive, Untouched, Inside
<1>3. CASE Refusal(s) = NoAnswer
  <2>1. thread' = [thread EXCEPT ![t] =
          [phase |-> "admit", req |-> r, form |-> FormOf(s),
           provider |-> ProviderOf(s), attempt |-> 0, wait |-> 0]]
    BY <1>3 DEF Receive
  <2>2. Inside(p)' = Inside(p) \ {t}
    BY <2>1, InsideLess
  <2>. QED
    BY <1>1, <2>2, NotInside DEF Untouched
<1>. QED
  BY <1>2, <1>3

LEMMA AdmitBreaker ==
  ASSUME GatewayTypeOK, NEW t \in Threads, Admit(t), NEW p \in Providers
  PROVE  Untouched(p) \/ LetIn(p, t)
<1>1. thread[t] \in Busy /\ t \notin Inside(p)
  BY AtWork, OutsideAtFirst DEF Admit, Ready
<1>2. thread[t].provider \in Providers
  BY <1>1 DEF Busy
<1>3. thread' = [thread EXCEPT ![t] = [thread[t] EXCEPT !.phase = "calling"]]
  BY DEF Admit
<1>4. /\ [thread[t] EXCEPT !.phase = "calling"].phase = "calling"
      /\ [thread[t] EXCEPT !.phase = "calling"].provider = thread[t].provider
  BY <1>1 DEF Busy
<1>5. CASE thread[t].provider = p
  <2>1. Inside(p)' = Inside(p) \cup {t}
    BY <1>3, <1>4, <1>5, InsideMore
  <2>2. breaker[p] \in BreakerType
    BY DEF GatewayTypeOK, BreakerType
  <2>3. breaker'[p] = IF breaker[p].open
                      THEN [breaker[p] EXCEPT !.open = FALSE, !.failures = 0]
                      ELSE breaker[p]
    BY <1>5 DEF Admit, GatewayTypeOK
  <2>4. /\ breaker[p].open => breaker[p].left = 0
        /\ breaker'[p].open = FALSE
        /\ breaker'[p].failures = IF breaker[p].open THEN 0 ELSE breaker[p].failures
        /\ breaker'[p].left = breaker[p].left
    <3>1. breaker[p].open => breaker[p].left = 0
      BY <1>5 DEF Admit
    <3>2. CASE breaker[p].open
      <4>1. breaker'[p] = [breaker[p] EXCEPT !.open = FALSE, !.failures = 0]
        BY <2>3, <3>2
      <4>. QED
        BY <2>2, <3>1, <3>2, <4>1 DEF BreakerType
    <3>3. CASE ~breaker[p].open
      <4>1. breaker'[p] = breaker[p] /\ breaker[p].open = FALSE
        BY <2>2, <2>3, <3>3 DEF BreakerType
      <4>. QED
        BY <3>1, <3>3, <4>1
    <3>. QED
      BY <3>2, <3>3
  <2>. QED
    BY <1>1, <2>1, <2>4 DEF LetIn
<1>6. CASE thread[t].provider # p
  <2>1. Inside(p)' = Inside(p) \ {t}
    BY <1>3, <1>4, <1>6, InsideLess
  <2>2. breaker'[p] = breaker[p]
    BY <1>6 DEF Admit, GatewayTypeOK
  <2>. QED
    BY <1>1, <2>1, <2>2, NotInside DEF Untouched
<1>. QED
  BY <1>5, <1>6

\* An attempt after another changes nothing the breaker sees.
LEMMA RetryBreaker ==
  ASSUME GatewayTypeOK, NEW t \in Threads, Retry(t) \/ Wake(t), NEW p \in Providers
  PROVE  Untouched(p)
<1>1. thread[t] \in Busy
  BY AtWork DEF Retry, Wake, Calling
<1>2. PICK v \in Busy : /\ thread' = [thread EXCEPT ![t] = v]
                        /\ v.phase \in {"calling", "backoff"}
                        /\ v.provider = thread[t].provider
  <2>1. CASE Retry(t)
    <3>1. PICK delay \in computeBackoff(thread[t].attempt) :
            thread' = [thread EXCEPT ![t].phase = "backoff", ![t].wait = delay]
      BY <2>1 DEF Retry, Backoff
    <3>2. delay \in Nat
      BY GatewayAssumption DEF computeBackoff
    <3>3. /\ [thread[t] EXCEPT !.phase = "backoff", !.wait = delay] \in Busy
          /\ [thread[t] EXCEPT !.phase = "backoff", !.wait = delay].phase = "backoff"
          /\ [thread[t] EXCEPT !.phase = "backoff", !.wait = delay].provider
               = thread[t].provider
      BY <1>1, <3>2 DEF Busy
    <3>4. thread' = [thread EXCEPT ![t] =
                       [thread[t] EXCEPT !.phase = "backoff", !.wait = delay]]
      BY <3>1
    <3>. QED
      BY <3>3, <3>4
  <2>2. CASE Wake(t)
    <3>. DEFINE n == thread[t].attempt + 1
    <3>1. n \in Nat
      BY <1>1 DEF Busy
    <3>2. thread' = [thread EXCEPT ![t] =
                       [thread[t] EXCEPT !.phase = "calling", !.attempt = n]]
      BY <2>2 DEF Wake
    <3>. HIDE DEF n
    <3>3. /\ [thread[t] EXCEPT !.phase = "calling", !.attempt = n] \in Busy
          /\ [thread[t] EXCEPT !.phase = "calling", !.attempt = n].phase = "calling"
          /\ [thread[t] EXCEPT !.phase = "calling", !.attempt = n].provider
               = thread[t].provider
      BY <1>1, <3>1 DEF Busy
    <3>. QED
      BY <3>2, <3>3
  <2>. QED
    BY <2>1, <2>2
<1>3. t \in Inside(p) <=> thread[t].provider = p
  BY DEF Inside, Retry, Wake, Calling
<1>4. breaker' = breaker
  BY DEF Retry, Wake
<1>5. CASE thread[t].provider = p
  <2>1. Inside(p)' = Inside(p) \cup {t}
    BY <1>2, <1>5, InsideMore
  <2>. QED
    BY <1>3, <1>4, <1>5, <2>1 DEF Untouched
<1>6. CASE thread[t].provider # p
  <2>1. Inside(p)' = Inside(p) \ {t}
    BY <1>2, <1>6, InsideLess
  <2>. QED
    BY <1>3, <1>4, <1>6, <2>1, NotInside DEF Untouched
<1>. QED
  BY <1>5, <1>6

\* An answer the breaker is not told of.
LEMMA TurnedAway ==
  ASSUME GatewayTypeOK, NEW t \in Threads, Misconfigured(t) \/ ShutOut(t),
         NEW p \in Providers
  PROVE  Untouched(p)
<1>1. thread[t].phase = "admit" /\ breaker' = breaker
  BY DEF Misconfigured, ShutOut, Ready
<1>2. PICK type \in {Setup(t), "provider_error"} : ReplyError(t, type, FALSE)
  BY DEF Misconfigured, ShutOut
<1>3. Inside(p)' = Inside(p) \ {t}
  BY <1>2, ReplyLeaves DEF ReplyError
<1>. QED
  BY <1>1, <1>3, OutsideAtFirst, NotInside DEF Untouched

LEMMA FailBreaker ==
  ASSUME GatewayTypeOK, NEW t \in Threads, NEW o, NEW big, Fail(t, o, big),
         NEW p \in Providers
  PROVE  Untouched(p) \/ Failed(p, t)
<1>1. Calling(t) /\ CountFailure(thread[t].provider) /\ ReplyError(t, FailureOf(o), big)
  BY DEF Fail
<1>2. Inside(p)' = Inside(p) \ {t}
  BY <1>1, ReplyLeaves DEF ReplyError
<1>3. breaker[p] \in BreakerType /\ breaker \in [Providers -> BreakerType]
  BY DEF GatewayTypeOK, BreakerType
<1>4. CASE thread[t].provider = p
  <2>1. t \in Inside(p)
    BY <1>1, <1>4, InsideItsOwn
  <2>. DEFINE n == breaker[p].failures + 1
  <2>2. breaker'[p] = IF n >= Settings[p].threshold
                      THEN [failures |-> n, open |-> TRUE, left |-> Settings[p].cooldown]
                      ELSE [breaker[p] EXCEPT !.failures = n]
    BY <1>1, <1>3, <1>4 DEF CountFailure
  <2>. HIDE DEF n
  <2>3. CASE n >= Settings[p].threshold
    <3>1. /\ breaker'[p].failures = n /\ breaker'[p].open = TRUE
          /\ breaker'[p].left = Settings[p].cooldown
      BY <2>2, <2>3
    <3>. QED
      BY <1>2, <2>1, <2>3, <3>1 DEF Failed, Left, n
  <2>4. CASE ~(n >= Settings[p].threshold)
    <3>1. /\ breaker'[p].failures = n /\ breaker'[p].open = breaker[p].open
          /\ breaker'[p].left = breaker[p].left
      BY <1>3, <2>2, <2>4 DEF BreakerType
    <3>. QED
      BY <1>2, <2>1, <2>4, <3>1 DEF Failed, Left, n
  <2>. QED
    BY <2>3, <2>4
<1>5. CASE thread[t].provider # p
  <2>1. breaker'[p] = breaker[p]
    BY <1>1, <1>3, <1>5 DEF CountFailure
  <2>. QED
    BY <1>1, <1>2, <1>5, <2>1, InsideItsOwn, NotInside DEF Untouched
<1>. QED
  BY <1>4, <1>5

\* A call that reset its breaker, or left it alone.
LEMMA EndBreaker ==
  ASSUME GatewayTypeOK, NEW t \in Threads, NEW a, NEW big, Calling(t), Reply(t, a, big),
         ResetBreaker(thread[t].provider) \/ breaker' = breaker, NEW p \in Providers
  PROVE  Untouched(p) \/ Succeeded(p, t) \/ Slipped(p, t)
<1>1. Inside(p)' = Inside(p) \ {t}
  BY ReplyLeaves
<1>2. CASE breaker' = breaker
  BY <1>1, <1>2, NotInside DEF Untouched, Slipped, Left
<1>3. CASE ResetBreaker(thread[t].provider) /\ thread[t].provider = p
  <2>1. t \in Inside(p)
    BY <1>3, InsideItsOwn
  <2>2. breaker'[p] = [failures |-> 0, open |-> FALSE, left |-> 0]
    BY <1>3 DEF ResetBreaker, GatewayTypeOK
  <2>. QED
    BY <1>1, <2>1, <2>2 DEF Succeeded, Left
<1>4. CASE ResetBreaker(thread[t].provider) /\ thread[t].provider # p
  <2>1. breaker'[p] = breaker[p]
    BY <1>4 DEF ResetBreaker, GatewayTypeOK
  <2>. QED
    BY <1>1, <1>4, <2>1, InsideItsOwn, NotInside DEF Untouched
<1>. QED
  BY <1>2, <1>3, <1>4

LEMMA TickBreaker ==
  ASSUME GatewayTypeOK, Tick, NEW p \in Providers
  PROVE  Rested(p)
<1>1. ASSUME NEW t \in Threads
      PROVE  /\ thread'[t].phase = thread[t].phase
             /\ thread[t] \in Busy => thread'[t].provider = thread[t].provider
  <2>1. CASE thread[t] \in Busy /\ thread[t].wait > 0
    <3>1. thread'[t] = [thread[t] EXCEPT !.wait = @ - 1]
      BY <2>1 DEF Tick
    <3>. QED
      BY <2>1, <3>1 DEF Busy
  <2>2. CASE ~(thread[t] \in Busy /\ thread[t].wait > 0)
    <3>1. thread'[t] = thread[t]
      BY <2>2 DEF Tick
    <3>. QED
      BY <3>1
  <2>. QED
    BY <2>1, <2>2
<1>2. ASSUME NEW t \in Threads
      PROVE  t \in Inside(p)' <=> t \in Inside(p)
  <2>1. CASE thread[t].phase \in {"calling", "backoff"}
    <3>1. thread[t] \in Busy
      BY <2>1, AtWork
    <3>2. thread'[t].phase = thread[t].phase /\ thread'[t].provider = thread[t].provider
      BY <1>1, <3>1
    <3>. QED
      BY <3>2 DEF Inside
  <2>2. CASE thread[t].phase \notin {"calling", "backoff"}
    BY <1>1, <2>2 DEF Inside
  <2>. QED
    BY <2>1, <2>2
<1>3. Inside(p)' = Inside(p)
  BY <1>2 DEF Inside
<1>4. breaker'[p] = [breaker[p] EXCEPT !.left = IF @ > 0 THEN @ - 1 ELSE 0]
  BY DEF Tick
<1>5. breaker[p] \in BreakerType
  BY DEF GatewayTypeOK, BreakerType
<1>6. /\ breaker'[p].failures = breaker[p].failures
      /\ breaker'[p].open = breaker[p].open
      /\ breaker'[p].left = IF breaker[p].left > 0 THEN breaker[p].left - 1 ELSE 0
  BY <1>4, <1>5 DEF BreakerType
<1>. QED
  BY <1>3, <1>6 DEF Rested

\* Whatever the step, one breaker sees at most one thread come or go.
LEMMA OneBreaker ==
  ASSUME GatewayTypeOK, [GatewayNext]_gatewayVars, NEW p \in Providers
  PROVE  \/ Untouched(p) \/ Rested(p)
         \/ \E t \in Threads :
              LetIn(p, t) \/ Failed(p, t) \/ Succeeded(p, t) \/ Slipped(p, t)
<1>1. CASE UNCHANGED gatewayVars
  BY <1>1 DEF gatewayVars, Untouched, Inside
<1>2. CASE Tick
  BY <1>2, TickBreaker
<1>3. ASSUME NEW t \in Threads, NEW r \in Requests, NEW s \in Shapes, Receive(t, r, s)
      PROVE  Untouched(p)
  BY <1>3, ReceiveBreaker
<1>4. ASSUME NEW t \in Threads, Handle(t)
      PROVE  \/ Untouched(p)
             \/ LetIn(p, t) \/ Failed(p, t) \/ Succeeded(p, t) \/ Slipped(p, t)
  <2>1. CASE Misconfigured(t) \/ ShutOut(t)
    BY <2>1, TurnedAway
  <2>2. CASE Admit(t)
    BY <2>2, AdmitBreaker
  <2>3. CASE Retry(t) \/ Wake(t)
    BY <2>3, RetryBreaker
  <2>4. ASSUME NEW o \in Failing, NEW big \in BOOLEAN, Fail(t, o, big)
        PROVE  Untouched(p) \/ Failed(p, t)
    BY <2>4, FailBreaker
  <2>5. ASSUME NEW o \in Answering, NEW big \in BOOLEAN, Succeed(t, o, big)
        PROVE  Untouched(p) \/ Succeeded(p, t) \/ Slipped(p, t)
    BY <2>5, EndBreaker DEF Succeed
  <2>6. ASSUME NEW o \in Throwing, Break(t, o)
        PROVE  Untouched(p) \/ Succeeded(p, t) \/ Slipped(p, t)
    BY <2>6, EndBreaker DEF Break, Throw
  <2>. QED
    BY <1>4, <2>1, <2>2, <2>3, <2>4, <2>5, <2>6 DEF Handle
<1>. QED
  BY <1>1, <1>2, <1>3, <1>4 DEF GatewayNext

-----------------------------------------------------------------------------
(* The failures a breaker may still collect *)

LEMMA FewThreads ==
  ASSUME NEW S \in SUBSET Threads
  PROVE  /\ IsFiniteSet(S) /\ Cardinality(S) \in Nat
         /\ Cardinality(S) <= Cardinality(Threads) /\ Cardinality(Threads) \in Nat
BY GatewayAssumption, FS_Subset, FS_CardinalityType

\* A thread that enters is one more, one that leaves one less.
LEMMA InsideCounted ==
  ASSUME NEW p \in Providers, NEW t \in Threads
  PROVE  /\ Inside(p) \subseteq Threads
         /\ Cardinality(Inside(p)) \in Nat
         /\ Left(p, t) => Cardinality(Inside(p)') = Cardinality(Inside(p)) - 1
<1>1. Inside(p) \subseteq Threads
  BY DEF Inside
<1>2. IsFiniteSet(Inside(p)) /\ Cardinality(Inside(p)) \in Nat
  BY <1>1, FewThreads
<1>. QED
  BY <1>1, <1>2, FS_RemoveElement DEF Left

OvershootInv(p) ==
  /\ breaker[p].open <=> breaker[p].failures > 0 /\ breaker[p].failures >= Settings[p].threshold
  /\ breaker[p].failures + Cardinality(Inside(p))
       < Cardinality(Threads) + (IF Settings[p].threshold > 0 THEN Settings[p].threshold ELSE 1)

LEMMA OvershootStep ==
  ASSUME GatewayTypeOK, GatewayTypeOK', [GatewayNext]_gatewayVars,
         NEW p \in Providers, OvershootInv(p)
  PROVE  OvershootInv(p)'
<1>. DEFINE n == breaker[p].failures
            m == breaker'[p].failures
            c == Cardinality(Inside(p))
            d == Cardinality(Inside(p)')
            k == Cardinality(Threads)
            h == Settings[p].threshold
<1>1. n \in Nat /\ m \in Nat /\ breaker[p].open \in BOOLEAN /\ breaker'[p].open \in BOOLEAN
  BY DEF GatewayTypeOK
<1>2. c \in Nat /\ d \in Nat /\ k \in Nat /\ c <= k /\ d <= k
  <2>1. Inside(p) \in SUBSET Threads /\ Inside(p)' \in SUBSET Threads
    BY DEF Inside
  <2>. QED
    BY <2>1, FewThreads
<1>3. h \in Nat
  BY GatewayAssumption DEF Setting
<1>4. /\ breaker[p].open <=> n > 0 /\ n >= h
      /\ n + c < k + (IF h > 0 THEN h ELSE 1)
  BY DEF OvershootInv
<1>. SUFFICES /\ breaker'[p].open <=> m > 0 /\ m >= h
              /\ m + d < k + (IF h > 0 THEN h ELSE 1)
  BY DEF OvershootInv
<1>5. CASE Untouched(p) \/ Rested(p)
  <2>1. m = n /\ d = c /\ breaker'[p].open = breaker[p].open
    BY <1>5 DEF Untouched, Rested
  <2>. QED
    BY <1>4, <2>1
<1>6. ASSUME NEW t \in Threads, LetIn(p, t)
      PROVE  /\ breaker'[p].open <=> m > 0 /\ m >= h
             /\ m + d < k + (IF h > 0 THEN h ELSE 1)
  <2>1. ~breaker'[p].open /\ m = IF breaker[p].open THEN 0 ELSE n
    BY <1>6 DEF LetIn
  <2>2. m = 0 \/ m < h
    BY <1>1, <1>3, <1>4, <2>1
  <2>. HIDE DEF n, m, c, d, k, h
  <2>. QED
    BY <1>1, <1>2, <1>3, <2>1, <2>2
<1>7. ASSUME NEW t \in Threads, Failed(p, t)
      PROVE  /\ breaker'[p].open <=> m > 0 /\ m >= h
             /\ m + d < k + (IF h > 0 THEN h ELSE 1)
  <2>1. d = c - 1
    BY <1>7, InsideCounted DEF Failed
  <2>2. m = n + 1 /\ (m >= h => breaker'[p].open = TRUE)
        /\ (~(m >= h) => breaker'[p].open = breaker[p].open)
    BY <1>7 DEF Failed
  <2>. HIDE DEF n, m, c, d, k, h
  <2>3. m + d < k + (IF h > 0 THEN h ELSE 1)
    BY <1>1, <1>2, <1>3, <1>4, <2>1, <2>2
  <2>4. breaker'[p].open <=> m > 0 /\ m >= h
    <3>1. CASE m >= h
      BY <1>1, <2>2, <3>1
    <3>2. CASE ~(m >= h)
      <4>1. ~(n >= h)
        BY <1>1, <1>3, <2>2, <3>2
      <4>. QED
        BY <1>4, <2>2, <3>2, <4>1
    <3>. QED
      BY <3>1, <3>2
  <2>. QED
    BY <2>3, <2>4
<1>8. ASSUME NEW t \in Threads, Succeeded(p, t) \/ Slipped(p, t)
      PROVE  /\ breaker'[p].open <=> m > 0 /\ m >= h
             /\ m + d < k + (IF h > 0 THEN h ELSE 1)
  <2>1. d = c - 1
    BY <1>8, InsideCounted DEF Succeeded, Slipped
  <2>2. \/ m = 0 /\ breaker'[p].open = FALSE
        \/ m = n /\ breaker'[p].open = breaker[p].open
    BY <1>8 DEF Succeeded, Slipped
  <2>. HIDE DEF n, m, c, d, k, h
  <2>. QED
    BY <1>1, <1>2, <1>3, <1>4, <2>1, <2>2
<1>. QED
  BY <1>5, <1>6, <1>7, <1>8, OneBreaker

LEMMA OvershootInit == GatewayInit => \A p \in Providers : OvershootInv(p)
<1>. SUFFICES ASSUME GatewayInit, NEW p \in Providers
              PROVE  OvershootInv(p)
  OBVIOUS
<1>1. Inside(p) = {}
  BY DEF GatewayInit, Inside, Idle
<1>2. Cardinality(Inside(p)) = 0
  BY <1>1, FS_EmptySet
<1>3. breaker[p].failures = 0 /\ breaker[p].open = FALSE
  BY DEF GatewayInit
<1>4. Settings[p].threshold \in Nat
  BY GatewayAssumption DEF Setting
<1>5. Cardinality(Threads) \in Nat
  BY GatewayAssumption, FS_CardinalityType
<1>. QED
  BY <1>2, <1>3, <1>4, <1>5 DEF OvershootInv

LEMMA OvershootNext ==
  GatewayTypeOK /\ GatewayTypeOK' /\ (\A p \in Providers : OvershootInv(p))
    /\ [GatewayNext]_gatewayVars => (\A p \in Providers : OvershootInv(p))'
BY OvershootStep

LEMMA OvershootImplies == (\A p \in Providers : OvershootInv(p)) => OvershootBounded
BY DEF OvershootInv, OvershootBounded

\* However many threads call a failing provider at once, its breaker counts fewer
\* failures than the threshold and one for each thread: every failure after the
\* opening was already on its way.
THEOREM Overshoot == GatewaySpec => []OvershootBounded
BY InitTyped, NextTyped, OvershootInit, OvershootNext, OvershootImplies, PTL DEF GatewaySpec

LEMMA ConsistentImplied == (\A p \in Providers : OvershootInv(p)) => BreakerConsistent
BY DEF OvershootInv, BreakerConsistent

\* A breaker is open exactly when its count says so: no order of failures, late
\* successes and expiries leaves it open without cause, or closed at the threshold.
THEOREM Consistent == GatewaySpec => []BreakerConsistent
BY InitTyped, NextTyped, OvershootInit, OvershootNext, ConsistentImplied, PTL DEF GatewaySpec

-----------------------------------------------------------------------------
(* The watched breaker is a CircuitBreaker *)

LEMMA BreakerRefines ==
  ASSUME GatewayTypeOK, GatewayTypeOK', [GatewayNext]_gatewayVars
  PROVE  [Breaker!Next]_(Breaker!breakerVars)
<1>. DEFINE p == Watched
<1>0. p \in Providers /\ Settings[p].threshold \in Nat
  BY GatewayAssumption DEF Setting
<1>1. breaker[p] \in BreakerType /\ breaker'[p] \in BreakerType
  BY <1>0 DEF GatewayTypeOK, BreakerType
<1>2. CASE Untouched(p)
  BY <1>2 DEF Untouched, Breaker!breakerVars
<1>3. CASE Rested(p)
  <2>1. CASE breaker[p].left > 0
    <3>1. Breaker!Tick
      BY <1>3, <2>1 DEF Rested, Breaker!Tick
    <3>. QED
      BY <3>1 DEF Breaker!Next
  <2>2. CASE ~(breaker[p].left > 0)
    <3>1. breaker'[p].left = breaker[p].left
      BY <1>1, <1>3, <2>2 DEF Rested, BreakerType
    <3>. QED
      BY <1>3, <3>1 DEF Rested, Breaker!breakerVars
  <2>. QED
    BY <2>1, <2>2
<1>4. ASSUME NEW t \in Threads, LetIn(p, t)
      PROVE  Breaker!Enter(t)
  BY <1>1, <1>4 DEF LetIn, Breaker!Enter, BreakerType
<1>5. ASSUME NEW t \in Threads, Failed(p, t)
      PROVE  Breaker!Fail(t)
  <2>1. CASE breaker'[p].failures >= Settings[p].threshold
    <3>1. breaker'[p].open = TRUE /\ breaker'[p].left = Settings[p].cooldown
      BY <1>5, <2>1 DEF Failed
    <3>. QED
      BY <1>5, <2>1, <3>1 DEF Failed, Left, Breaker!Fail
  <2>2. CASE ~(breaker'[p].failures >= Settings[p].threshold)
    <3>1. breaker'[p].open = breaker[p].open /\ breaker'[p].left = breaker[p].left
      BY <1>5, <2>2 DEF Failed
    <3>2. breaker'[p].open
            = (breaker[p].open \/ breaker'[p].failures >= Settings[p].threshold)
      BY <1>1, <2>2, <3>1 DEF BreakerType
    <3>. QED
      BY <1>5, <2>2, <3>1, <3>2 DEF Failed, Left, Breaker!Fail
  <2>. QED
    BY <2>1, <2>2
<1>6. ASSUME NEW t \in Threads, Succeeded(p, t)
      PROVE  Breaker!Succeed(t)
  BY <1>6 DEF Succeeded, Left, Breaker!Succeed
<1>7. ASSUME NEW t \in Threads, Slipped(p, t)
      PROVE  Breaker!Leave(t)
  BY <1>7 DEF Slipped, Left, Breaker!Leave
<1>. QED
  BY <1>0, <1>2, <1>3, <1>4, <1>5, <1>6, <1>7, OneBreaker DEF Breaker!Next

LEMMA BreakerStarts == GatewayInit => Breaker!Init
<1>. SUFFICES ASSUME GatewayInit PROVE Breaker!Init
  OBVIOUS
<1>1. Inside(Watched) = {}
  BY DEF GatewayInit, Inside, Idle
<1>2. breaker[Watched] = [failures |-> 0, open |-> FALSE, left |-> 0]
  BY GatewayAssumption DEF GatewayInit
<1>. QED
  BY <1>1, <1>2 DEF Breaker!Init

\* To the threads of the gateway a provider's breaker, spread over the lock sections of
\* performHttpRequest, is one CircuitBreaker: a call is let in at a point in time,
\* counts at most once however often it is retried, and nobody gets in while it rests.
THEOREM RefinesBreaker == GatewaySpec => ImplementsBreaker
BY InitTyped, NextTyped, BreakerStarts, BreakerRefines, PTL
DEF GatewaySpec, ImplementsBreaker, Breaker!Spec

-----------------------------------------------------------------------------
(***************************************************************************)
(* A closed stream. Every method that sets closed_ cancels the timer and   *)
(* drops what waits in the same critical section, so the property is       *)
(* inductive.                                                              *)
(***************************************************************************)

\* Whatever flushUnlocked meets, a stream that is closed after it has an empty queue,
\* if it was not closed before.
LEMMA FlushQuiet ==
  ASSUME NEW isReady, NEW queue, NEW bytes, ~closed, Flush(isReady, queue, bytes)
  PROVE  closed' => pending' = <<>>
BY DEF Flush

LEMMA EnqueueQuiet ==
  ASSUME NEW isReady, NEW e, ~closed, Enqueue(isReady, e)
  PROVE  closed' => pending' = <<>>
<1>1. CASE Overflows(e)
  BY <1>1 DEF Enqueue
<1>2. CASE ~Overflows(e)
  BY <1>2, FlushQuiet DEF Enqueue
<1>. QED
  BY <1>1, <1>2

LEMMA Cancelled ==
  ASSUME NEW armed, timer' = CancelledIfClosed(armed)
  PROVE  closed' => ~timer'
BY DEF CancelledIfClosed

LEMMA QuietNext ==
  ASSUME ClosedIsQuiet, [SseNext]_sseVars
  PROVE  ClosedIsQuiet'
<1>1. CASE SendEvent
  <2>1. closed' => ~timer'
    BY <1>1, Cancelled DEF SendEvent
  <2>2. CASE closed
    BY <1>1, <2>1, <2>2 DEF SendEvent, ClosedIsQuiet
  <2>3. CASE ~closed
    <3>1. Enqueue(ready, script[made + 1])
      BY <1>1, <2>3 DEF SendEvent
    <3>2. closed' => pending' = <<>>
      BY <2>3, <3>1, EnqueueQuiet
    <3>. QED
      BY <2>1, <3>2 DEF ClosedIsQuiet
  <2>. QED
    BY <2>2, <2>3
<1>2. CASE Close
  BY <1>2, Cancelled DEF Close, ClosedIsQuiet
<1>3. CASE OnStreamReady
  <2>1. closed' => pending' = <<>>
    BY <1>3, EnqueueQuiet DEF OnStreamReady
  <2>2. closed' => ~timer'
    BY <1>3 DEF OnStreamReady, CancelledIfClosed
  <2>. QED
    BY <2>1, <2>2 DEF ClosedIsQuiet
<1>4. CASE Heartbeat
  <2>1. closed' => pending' = <<>>
    BY <1>4, FlushQuiet DEF Heartbeat
  <2>2. closed' => ~timer'
    BY <1>4, Cancelled DEF Heartbeat
  <2>. QED
    BY <2>1, <2>2 DEF ClosedIsQuiet
<1>5. CASE UNCHANGED sseVars
  BY <1>5 DEF sseVars, ClosedIsQuiet
<1>. QED
  BY <1>1, <1>2, <1>3, <1>4, <1>5 DEF SseNext

\* A stream that closed, at whatever moment of its start, leaves no timer armed and
\* nothing waiting (close, flushUnlocked, onStreamReady).
THEOREM Quiet == SseSpec => []ClosedIsQuiet
<1>1. SseInit => ClosedIsQuiet
  BY DEF SseInit, ClosedIsQuiet
<1>. QED
  BY <1>1, QuietNext, PTL DEF SseSpec
-----------------------------------------------------------------------------
(* The bytes that wait. Only a stream that has been announced beats, and   *)
(* then nothing waits.                                                     *)

Frame == [kind : {"delta", "error", "done", "close", "retry", "heartbeat"}, size : Nat]

Framed ==
  /\ script \in Scripts /\ made \in 0..Len(script)
  /\ pending \in Seq(Frame) /\ wire \in Seq(Frame) /\ buffered \in Nat
  /\ ready \in BOOLEAN /\ closed \in BOOLEAN /\ jammed \in BOOLEAN

Announced ==
  /\ timer => ready
  /\ ready /\ ~jammed => pending = <<>>

BufferInv == Framed /\ Announced /\ BufferAccounted /\ ClosedIsQuiet

LEMMA ScriptFacts ==
  ASSUME NEW s \in Scripts
  PROVE  /\ s \in Seq(Frame) /\ Len(s) \in Nat
         /\ \A i \in 1..Len(s) : s[i] = Closing <=> i = Len(s)
         /\ \A i \in 1..Len(s) : s[i] # Closing =>
              s[i] \in [kind : {"delta", "error", "done"}, size : 1..(MaxBuffered + 1)]
<1>. USE SseAssumption
<1>1. PICK n \in 1..(MaxBuffered + 1) :
        \/ s = <<Event("delta", n), Event("done", 1), Closing>>
        \/ s = <<Event("error", n), Closing>>
  BY DEF Scripts
<1>2. n \in Nat /\ 1 \in 1..(MaxBuffered + 1)
  OBVIOUS
<1>3. ASSUME s = <<Event("delta", n), Event("done", 1), Closing>>
      PROVE  /\ s \in Seq(Frame) /\ Len(s) = 3 /\ s[1] # Closing /\ s[2] # Closing /\ s[3] = Closing
             /\ s[1] \in [kind : {"delta", "error", "done"}, size : 1..(MaxBuffered + 1)]
             /\ s[2] \in [kind : {"delta", "error", "done"}, size : 1..(MaxBuffered + 1)]
  BY <1>2, <1>3 DEF Event, Closing, Frame
<1>4. ASSUME s = <<Event("error", n), Closing>>
      PROVE  /\ s \in Seq(Frame) /\ Len(s) = 2 /\ s[1] # Closing /\ s[2] = Closing
             /\ s[1] \in [kind : {"delta", "error", "done"}, size : 1..(MaxBuffered + 1)]
  BY <1>2, <1>4 DEF Event, Closing, Frame
<1>5. CASE s = <<Event("delta", n), Event("done", 1), Closing>>
  <2>1. \A i \in 1..Len(s) : i = 1 \/ i = 2 \/ i = 3
    BY <1>3, <1>5
  <2>. QED
    BY <1>3, <1>5, <2>1
<1>6. CASE s = <<Event("error", n), Closing>>
  <2>1. \A i \in 1..Len(s) : i = 1 \/ i = 2
    BY <1>4, <1>6
  <2>. QED
    BY <1>4, <1>6, <2>1
<1>. QED
  BY <1>1, <1>5, <1>6

\* What flushUnlocked leaves of a queue.
LEMMA Flushed ==
  ASSUME NEW isReady \in BOOLEAN, NEW queue \in Seq(Frame), NEW bytes,
         Flush(isReady, queue, bytes), wire \in Seq(Frame), closed \in BOOLEAN
  PROVE  /\ pending' = (IF isReady THEN <<>> ELSE queue) /\ pending' \in Seq(Frame)
         /\ wire' \in Seq(Frame) /\ closed' \in BOOLEAN
<1>1. \A n \in 0..(Len(queue) - 1) : wire \o SubSeq(queue, 1, n) \in Seq(Frame)
  <2>1. ASSUME NEW n \in 0..(Len(queue) - 1) PROVE SubSeq(queue, 1, n) \in Seq(Frame)
    OBVIOUS
  <2>. QED
    BY <2>1
<1>2. wire \o queue \in Seq(Frame) /\ <<>> \in Seq(Frame)
  OBVIOUS
<1>3. wire' \in Seq(Frame) /\ closed' \in BOOLEAN
  BY <1>1, <1>2 DEF Flush
<1>4. pending' = IF isReady THEN <<>> ELSE queue
  BY DEF Flush
<1>. QED
  BY <1>2, <1>3, <1>4

LEMMA SizesTotal ==
  ASSUME NEW queue \in Seq(Frame)
  PROVE  Sizes(queue) \in Seq(Nat) /\ Total(Sizes(queue)) \in Nat
<1>1. \A i \in 1..Len(queue) : queue[i].size \in Nat
  <2>1. \A i \in 1..Len(queue) : queue[i] \in Frame
    OBVIOUS
  <2>. QED
    BY <2>1 DEF Frame
<1>2. Sizes(queue) \in Seq(Nat)
  BY <1>1 DEF Sizes
<1>3. 0 \in Nat
  OBVIOUS
<1>. QED
  BY <1>2, <1>3, TotalAppend

\* Once more in the queue is once more in the count.
LEMMA SizesAppend ==
  ASSUME NEW queue \in Seq(Frame), NEW e \in Frame
  PROVE  /\ Append(queue, e) \in Seq(Frame)
         /\ Total(Sizes(queue)) \in Nat
         /\ Total(Sizes(Append(queue, e))) = Total(Sizes(queue)) + e.size
<1>1. Append(queue, e) \in Seq(Frame) /\ e.size \in Nat
  BY DEF Frame
<1>2. Sizes(queue) \in Seq(Nat) /\ Sizes(Append(queue, e)) = Append(Sizes(queue), e.size)
  <2>1. \A i \in 1..Len(queue) : queue[i] \in Frame
    OBVIOUS
  <2>2. \A i \in 1..Len(queue) : queue[i].size \in Nat
    BY <2>1 DEF Frame
  <2>. QED
    BY <1>1, <2>2 DEF Sizes
<1>. QED
  BY <1>1, <1>2, TotalAppend

\* flushUnlocked takes off the count what it takes off the queue, or resets both.
LEMMA FlushAccounts ==
  ASSUME NEW isReady \in BOOLEAN, NEW queue \in Seq(Frame),
         Flush(isReady, queue, Total(Sizes(queue)))
  PROVE  buffered' = Total(Sizes(pending')) /\ buffered' \in Nat
<1>1. Total(Sizes(<<>>)) = 0
  BY TotalEmpty DEF Sizes
<1>2. Total(Sizes(queue)) \in Nat
  BY SizesTotal
<1>. DEFINE bytes == Total(Sizes(queue))
<1>3. CASE ~isReady /\ pending' = queue /\ buffered' = bytes
  BY <1>2, <1>3
<1>4. CASE pending' = <<>> /\ buffered' = bytes - bytes
  <2>1. bytes - bytes = 0
    BY <1>2
  <2>. QED
    BY <1>1, <1>4, <2>1
<1>5. CASE pending' = <<>> /\ buffered' = 0
  BY <1>1, <1>5
<1>. QED
  BY <1>3, <1>4, <1>5 DEF Flush

\* enqueueUnlocked keeps the account, whether it flushes, keeps or jams.
LEMMA EnqueueAccounts ==
  ASSUME Framed, BufferAccounted, ~jammed, NEW isReady \in BOOLEAN, NEW e \in Frame,
         Enqueue(isReady, e)
  PROVE  /\ BufferAccounted'
         /\ pending' \in Seq(Frame) /\ wire' \in Seq(Frame) /\ buffered' \in Nat
         /\ closed' \in BOOLEAN /\ jammed' \in BOOLEAN
         /\ isReady /\ ~jammed' => pending' = <<>>
<1>. USE SseAssumption
<1>. DEFINE queue == Append(pending, e)
<1>1. /\ queue \in Seq(Frame) /\ e.size \in Nat /\ buffered = Total(Sizes(pending))
      /\ Total(Sizes(queue)) = buffered + e.size
  BY SizesAppend DEF Framed, BufferAccounted, Frame
<1>. HIDE DEF queue
<1>2. ASSUME Overflows(e) PROVE /\ pending' = queue /\ buffered' = buffered + e.size /\ jammed' = TRUE
                                /\ UNCHANGED <<wire, closed>>
  BY <1>2 DEF Enqueue, queue
<1>3. ASSUME ~Overflows(e)
      PROVE  /\ pending' = (IF isReady THEN <<>> ELSE queue) /\ pending' \in Seq(Frame)
             /\ wire' \in Seq(Frame) /\ closed' \in BOOLEAN /\ jammed' = FALSE
             /\ buffered' = Total(Sizes(pending')) /\ buffered' \in Nat
             /\ ~(Total(Sizes(queue)) > MaxBuffered)
  <2>1. Flush(isReady, queue, Total(Sizes(queue))) /\ jammed' = FALSE
    <3>1. Flush(isReady, queue, buffered + e.size) /\ UNCHANGED jammed
      BY <1>3 DEF Enqueue, queue
    <3>. QED
      BY <1>1, <3>1 DEF Framed
  <2>2. ~(Total(Sizes(queue)) > MaxBuffered)
    BY <1>1, <1>3 DEF Overflows
  <2>3. buffered' = Total(Sizes(pending')) /\ buffered' \in Nat
    BY <1>1, <2>1, FlushAccounts
  <2>. QED
    BY <1>1, <2>1, <2>2, <2>3, Flushed DEF Framed
<1>4. Total(Sizes(<<>>)) = 0
  BY TotalEmpty DEF Sizes
<1>5. CASE Overflows(e)
  <2>1. buffered' = Total(Sizes(pending')) /\ buffered' \in Nat
    BY <1>1, <1>2, <1>5 DEF Framed
  <2>2. Total(Sizes(pending')) > MaxBuffered
    BY <1>1, <1>2, <1>5 DEF Overflows
  <2>. QED
    BY <1>1, <1>2, <1>5, <2>1, <2>2 DEF BufferAccounted, Framed
<1>6. CASE ~Overflows(e)
  <2>1. ~(Total(Sizes(pending')) > MaxBuffered)
    BY <1>3, <1>4, <1>6
  <2>. QED
    BY <1>3, <1>6, <2>1 DEF BufferAccounted
<1>. QED
  BY <1>5, <1>6

LEMMA BufferInit == SseInit => BufferInv
<1>. SUFFICES ASSUME SseInit PROVE BufferInv
  OBVIOUS
<1>. USE SseAssumption DEF SseInit
<1>1. script \in Seq(Frame) /\ Len(script) \in Nat
  BY ScriptFacts
<1>2. Framed
  <2>1. <<>> \in Seq(Frame) /\ 0 \in 0..Len(script)
    BY <1>1
  <2>. QED
    BY <2>1 DEF Framed
<1>3. Total(Sizes(<<>>)) = 0
  BY TotalEmpty DEF Sizes
<1>. QED
  BY <1>2, <1>3 DEF BufferInv, Announced, BufferAccounted, ClosedIsQuiet

LEMMA BufferNext ==
  ASSUME BufferInv, [SseNext]_sseVars
  PROVE  BufferInv'
<1>. USE SseAssumption DEF BufferInv
<1>1. ClosedIsQuiet'
  BY QuietNext
<1>2. script \in Seq(Frame) /\ Len(script) \in Nat
  BY ScriptFacts DEF Framed
<1>3. ASSUME SendEvent PROVE BufferInv'
  <2>. DEFINE e == script[made + 1]
  <2>1. /\ ~jammed /\ made < Len(script) /\ made' = made + 1 /\ UNCHANGED <<script, ready>>
        /\ made + 1 \in 1..Len(script)
    BY <1>2, <1>3 DEF SendEvent, Framed
  <2>2. e \in Frame /\ made' \in 0..Len(script)
    BY <1>2, <2>1 DEF Framed
  <2>3. timer' => ready'
    <3>1. timer' => timer
      BY <1>3 DEF SendEvent, CancelledIfClosed
    <3>. QED
      BY <2>1, <3>1 DEF Announced
  <2>4. CASE closed
    BY <1>1, <1>3, <2>1, <2>2, <2>3, <2>4 DEF SendEvent, Framed, Announced, BufferAccounted
  <2>5. CASE ~closed
    <3>1. Enqueue(ready, e)
      BY <1>3, <2>5 DEF SendEvent
    <3>. HIDE DEF e
    <3>2. /\ BufferAccounted'
          /\ pending' \in Seq(Frame) /\ wire' \in Seq(Frame) /\ buffered' \in Nat
          /\ closed' \in BOOLEAN /\ jammed' \in BOOLEAN
          /\ ready /\ ~jammed' => pending' = <<>>
      BY <2>1, <2>2, <3>1, EnqueueAccounts DEF Framed
    <3>. QED
      BY <1>1, <2>1, <2>2, <2>3, <3>2 DEF Framed, Announced
  <2>. QED
    BY <2>4, <2>5
<1>4. ASSUME Close PROVE BufferInv'
  <2>1. /\ ~jammed /\ made < Len(script) /\ made' = made + 1 /\ closed' = TRUE /\ pending' = <<>>
        /\ buffered' = IF closed THEN buffered ELSE 0
        /\ ~timer' /\ UNCHANGED <<script, ready, wire, jammed>>
    BY <1>4 DEF Close, CancelledIfClosed
  <2>2. Total(Sizes(<<>>)) = 0
    BY TotalEmpty DEF Sizes
  <2>3. closed => buffered = 0
    BY <2>2 DEF ClosedIsQuiet, BufferAccounted
  <2>4. buffered' = 0 /\ jammed' = FALSE /\ ~(0 > MaxBuffered)
    BY <2>1, <2>3 DEF Framed
  <2>5. BufferAccounted'
    BY <2>1, <2>2, <2>4 DEF BufferAccounted
  <2>. QED
    BY <1>1, <1>2, <2>1, <2>4, <2>5 DEF Framed, Announced
<1>5. ASSUME OnStreamReady PROVE BufferInv'
  <2>1. /\ ~jammed /\ ready' = TRUE /\ Enqueue(TRUE, Retry5000) /\ UNCHANGED <<script, made>>
        /\ Retry5000 \in Frame
    BY <1>5 DEF OnStreamReady, Retry5000, Event, Frame
  <2>2. /\ BufferAccounted'
        /\ pending' \in Seq(Frame) /\ wire' \in Seq(Frame) /\ buffered' \in Nat
        /\ closed' \in BOOLEAN /\ jammed' \in BOOLEAN
        /\ ~jammed' => pending' = <<>>
    BY <2>1, EnqueueAccounts
  <2>. QED
    BY <1>1, <2>1, <2>2 DEF Framed, Announced
<1>6. ASSUME Heartbeat PROVE BufferInv'
  <2>1. /\ ready /\ ~jammed /\ pending = <<>>
        /\ Flush(TRUE, Append(pending, Beat), buffered + Beat.size)
        /\ UNCHANGED <<script, made, ready, jammed>>
    BY <1>6 DEF Heartbeat, Announced, Framed
  <2>2. /\ Append(pending, Beat) \in Seq(Frame)
        /\ Total(Sizes(Append(pending, Beat))) = buffered + Beat.size
    <3>1. Beat \in Frame
      BY DEF Beat, Event, Frame
    <3>. QED
      BY <3>1, SizesAppend DEF Framed, BufferAccounted
  <2>3. pending' = <<>> /\ wire' \in Seq(Frame) /\ closed' \in BOOLEAN
    BY <2>1, <2>2, Flushed DEF Framed
  <2>4. buffered' = Total(Sizes(pending')) /\ buffered' \in Nat
    BY <2>1, <2>2, FlushAccounts
  <2>5. jammed' <=> Total(Sizes(pending')) > MaxBuffered
    <3>1. ~(Total(Sizes(<<>>)) > MaxBuffered)
      BY TotalEmpty DEF Sizes
    <3>. QED
      BY <2>1, <2>3, <3>1
  <2>. QED
    BY <1>1, <2>1, <2>3, <2>4, <2>5 DEF Framed, Announced, BufferAccounted
<1>7. ASSUME UNCHANGED sseVars PROVE BufferInv'
  BY <1>1, <1>7 DEF sseVars, Framed, Announced, BufferAccounted
<1>. QED
  BY <1>3, <1>4, <1>5, <1>6, <1>7 DEF SseNext

\* bufferedBytes_, added to and subtracted from frame by frame, never drifts from what
\* waits, for any size of the buffer, through refused frames, heartbeats and closing: a
\* stream jams if and only if more than the buffer waits (enqueueUnlocked, flushUnlocked,
\* sendHeartbeatUnlocked, close).
THEOREM Accounted == SseSpec => []BufferAccounted
<1>1. BufferInv => BufferAccounted
  BY DEF BufferInv
<1>. QED
  BY <1>1, BufferInit, BufferNext, PTL DEF SseSpec

-----------------------------------------------------------------------------
(* The events. What the handler has sent is what is on the wire and what   *)
(* waits, until the stream is closed; nothing is sent after the closing    *)
(* unless the client has left.                                             *)

Told == [kind : {"delta", "error", "done"}, size : 1..(MaxBuffered + 1)]

Delivery ==
  /\ \E rest \in Seq(Told) : Sent = Events(wire) \o rest
  /\ ~ready => wire = <<>>
  /\ ~closed /\ ~jammed => ~cut /\ Sent = Events(wire) \o Events(pending)
  /\ closed /\ ~cut => made = Len(script)
  /\ ready /\ ~cut /\ ~jammed => Sent = Events(wire)

ArrivalInv == BufferInv /\ Delivery

\* Nothing is a prefix but what something follows.
LEMMA PrefixIs ==
  ASSUME NEW S, NEW s \in Seq(S), NEW t \in Seq(S)
  PROVE  IsPrefix(s, s \o t)
<1>1. Len(s) <= Len(s \o t)
  OBVIOUS
<1>2. SubSeq(s, 1, Len(s)) = SubSeq(s \o t, 1, Len(s))
  OBVIOUS
<1>. QED
  BY <1>1, <1>2 DEF IsPrefix

LEMMA EventType ==
  ASSUME NEW s \in Seq(Frame)
  PROVE  Events(s) \in Seq(Told)
<1>1. Selected(s, Told) \in Seq(Frame \cap Told)
  BY SelectedType
<1>2. Selected(s, Told) \in Seq(Told)
  BY <1>1
<1>. QED
  BY <1>2 DEF Events, Told

LEMMA EventNone == Events(<<>>) = <<>>
BY SelectedEmpty DEF Events

LEMMA EventConcat ==
  ASSUME NEW s \in Seq(Frame), NEW t \in Seq(Frame)
  PROVE  Events(s \o t) = Events(s) \o Events(t)
BY SelectedConcat DEF Events

LEMMA EventAppend ==
  ASSUME NEW s \in Seq(Frame), NEW e \in Frame
  PROVE  Events(Append(s, e)) = IF e \in Told THEN Append(Events(s), e) ELSE Events(s)
BY SelectedAppend DEF Events, Told

\* The two parts of a sequence.
LEMMA Parts ==
  ASSUME NEW S, NEW s \in Seq(S), NEW n \in 0..Len(s)
  PROVE  /\ SubSeq(s, 1, n) \in Seq(S) /\ SubSeq(s, n + 1, Len(s)) \in Seq(S)
         /\ s = SubSeq(s, 1, n) \o SubSeq(s, n + 1, Len(s))
<1>1. SubSeq(s, 1, n) \in Seq(S) /\ SubSeq(s, n + 1, Len(s)) \in Seq(S)
  OBVIOUS
<1>2. SubSeq(s, 1, n) \o SubSeq(s, n + 1, Len(s)) = SubSeq(s, 1, Len(s))
  <2>1. /\ 1 \in 1..(Len(s) + 1) /\ n \in (1 - 1)..Len(s) /\ Len(s) \in n..Len(s)
    OBVIOUS
  <2>. QED
    BY <2>1, ConcatAdjacentSubSeq
<1>. QED
  BY <1>1, <1>2, SubSeqFull

LEMMA ThreeParts == \A a, b, c \in Seq(Told) : a \o (b \o c) = (a \o b) \o c
OBVIOUS

LEMMA AppendAfter ==
  \A a, b \in Seq(Told), e \in Told : Append(a \o b, e) = a \o Append(b, e)
OBVIOUS

\* flushUnlocked: all of the queue gets on the wire, or a part of it if the client leaves.
LEMMA FlushTells ==
  ASSUME wire \in Seq(Frame), NEW isReady \in BOOLEAN, NEW queue \in Seq(Frame), NEW bytes,
         Flush(isReady, queue, bytes), ~closed, ~cut, ~isReady => wire = <<>>,
         NEW sent \in Seq(Told), sent = Events(wire) \o Events(queue)
  PROVE  /\ \E rest \in Seq(Told) : sent = Events(wire') \o rest
         /\ ~isReady => wire' = <<>>
         /\ ~closed' => ~cut' /\ sent = Events(wire') \o Events(pending')
         /\ closed' => cut'
         /\ isReady /\ ~cut' => sent = Events(wire')
<1>1. Events(wire) \in Seq(Told) /\ Events(queue) \in Seq(Told) /\ Events(<<>>) = <<>>
  BY EventType, EventNone
<1>2. CASE ~isReady /\ pending' = queue /\ UNCHANGED <<closed, wire, cut>>
  BY <1>1, <1>2
<1>3. CASE isReady /\ pending' = <<>> /\ wire' = wire \o queue /\ UNCHANGED <<closed, cut>>
  <2>1. Events(wire') = sent
    BY <1>3, EventConcat
  <2>2. sent \o <<>> = sent /\ <<>> \in Seq(Told)
    OBVIOUS
  <2>. QED
    BY <1>1, <1>3, <2>1, <2>2
<1>4. ASSUME isReady, NEW n \in 0..(Len(queue) - 1), wire' = wire \o SubSeq(queue, 1, n),
             closed' = TRUE, cut' = TRUE
      PROVE  \E rest \in Seq(Told) : sent = Events(wire') \o rest
  <2>. DEFINE a == SubSeq(queue, 1, n)
              b == SubSeq(queue, n + 1, Len(queue))
  <2>1. a \in Seq(Frame) /\ b \in Seq(Frame) /\ queue = a \o b
    BY Parts
  <2>. HIDE DEF a, b
  <2>2. /\ Events(queue) = Events(a) \o Events(b)
        /\ Events(a) \in Seq(Told) /\ Events(b) \in Seq(Told)
        /\ Events(wire \o a) = Events(wire) \o Events(a)
    BY <2>1, EventType, EventConcat
  <2>. DEFINE x == Events(wire)
              y == Events(a)
              z == Events(b)
  <2>3. x \o (y \o z) = (x \o y) \o z
    <3>1. x \in Seq(Told) /\ y \in Seq(Told) /\ z \in Seq(Told)
      BY <1>1, <2>2
    <3>. HIDE DEF x, y, z
    <3>. QED
      BY <3>1, ThreeParts, ZenonT(30)
  <2>. QED
    BY <1>4, <2>2, <2>3 DEF a
<1>5. CASE /\ isReady /\ closed' = TRUE /\ cut' = TRUE
           /\ \E n \in 0..(Len(queue) - 1) : wire' = wire \o SubSeq(queue, 1, n)
  BY <1>4, <1>5
<1>. QED
  BY <1>2, <1>3, <1>5 DEF Flush

LEMMA SentType ==
  ASSUME Framed
  PROVE  Sent \in Seq(Told)
<1>1. script \in Seq(Frame) /\ made \in 0..Len(script)
  BY ScriptFacts DEF Framed
<1>2. SubSeq(script, 1, made) \in Seq(Frame)
  BY <1>1
<1>. QED
  BY <1>2, EventType DEF Sent

\* The handler's calls come down to their events.
LEMMA SentFacts ==
  ASSUME Framed, made < Len(script)
  PROVE  /\ made + 1 \in 1..Len(script) /\ script[made + 1] \in Frame
         /\ Sent \in Seq(Told)
         /\ script[made + 1] = Closing <=> made + 1 = Len(script)
         /\ made' = made + 1 /\ script' = script =>
              /\ script[made + 1] # Closing => /\ script[made + 1] \in Told
                                               /\ Sent' = Append(Sent, script[made + 1])
              /\ script[made + 1] = Closing => Sent' = Sent
<1>. DEFINE said == SubSeq(script, 1, made)
            e == script[made + 1]
<1>1. /\ script \in Seq(Frame) /\ Len(script) \in Nat /\ made + 1 \in 1..Len(script)
      /\ e \in Frame /\ made \in Nat
  BY ScriptFacts DEF Framed
<1>2. said \in Seq(Frame) /\ SubSeq(script, 1, made + 1) = Append(said, e)
  BY <1>1
<1>3. (e = Closing <=> made + 1 = Len(script)) /\ (e # Closing => e \in Told)
  BY <1>1, ScriptFacts DEF Framed, Told
<1>4. Closing \notin Told
  BY DEF Closing, Event, Told
<1>5. Events(said) \in Seq(Told)
  BY <1>2, EventType
<1>6. Events(Append(said, e)) = IF e \in Told THEN Append(Events(said), e) ELSE Events(said)
  BY <1>1, <1>2, EventAppend
<1>7. ASSUME made' = made + 1, script' = script PROVE Sent' = Events(Append(said, e))
  BY <1>2, <1>7 DEF Sent
<1>. QED
  BY <1>1, <1>3, <1>4, <1>5, <1>6, <1>7 DEF Sent

\* enqueueUnlocked, of an event of the handler's or of a frame that is none.
LEMMA EnqueueTells ==
  ASSUME ArrivalInv, ~closed, ~jammed, NEW isReady \in BOOLEAN, NEW e \in Frame,
         ready => isReady, NEW sent \in Seq(Told),
         sent = IF e \in Told THEN Append(Sent, e) ELSE Sent,
         NEW bytes, Flush(isReady, Append(pending, e), bytes)
  PROVE  /\ \E rest \in Seq(Told) : sent = Events(wire') \o rest
         /\ ~isReady => wire' = <<>>
         /\ ~closed' => ~cut' /\ sent = Events(wire') \o Events(pending')
         /\ closed' => cut'
         /\ isReady /\ ~cut' => sent = Events(wire')
<1>. DEFINE queue == Append(pending, e)
            x == Events(wire)
            y == Events(pending)
<1>1. /\ wire \in Seq(Frame) /\ pending \in Seq(Frame) /\ queue \in Seq(Frame)
      /\ ready \in BOOLEAN
  BY DEF ArrivalInv, BufferInv, Framed
<1>2. x \in Seq(Told) /\ y \in Seq(Told)
  BY <1>1, EventType
<1>3. ~cut /\ Sent = x \o y /\ (~isReady => wire = <<>>)
  BY <1>1 DEF ArrivalInv, Delivery
<1>4. /\ queue \in Seq(Frame) /\ wire \in Seq(Frame) /\ ~cut /\ (~isReady => wire = <<>>)
      /\ x \in Seq(Told) /\ y \in Seq(Told) /\ Sent = x \o y
  BY <1>1, <1>2, <1>3
<1>5. Events(queue) = IF e \in Told THEN Append(y, e) ELSE y
  BY EventAppend DEF ArrivalInv, BufferInv, Framed
<1>6. e \in Told => Append(x \o y, e) = x \o Append(y, e)
  <2>. HIDE DEF x, y
  <2>. QED
    BY <1>4, AppendAfter
<1>7. sent = x \o Events(queue)
  BY <1>4, <1>5, <1>6
<1>. HIDE DEF queue
<1>8. Flush(isReady, queue, bytes)
  BY DEF queue
<1>. QED
  BY <1>4, <1>7, <1>8, FlushTells

LEMMA ArrivalNext ==
  ASSUME ArrivalInv, [SseNext]_sseVars
  PROVE  ArrivalInv'
<1>. USE DEF ArrivalInv
<1>1. BufferInv' /\ Framed
  BY BufferNext DEF BufferInv
<1>. SUFFICES Delivery'
  BY <1>1
<1>2. ASSUME SendEvent PROVE Delivery'
  <2>. DEFINE e == script[made + 1]
  <2>1. /\ ~jammed /\ made < Len(script) /\ made' = made + 1 /\ UNCHANGED <<script, ready>>
        /\ e # Closing
    BY <1>2 DEF SendEvent
  <2>2. e \in Frame /\ e \in Told /\ Sent \in Seq(Told) /\ Sent' = Append(Sent, e)
    BY <1>1, <2>1, SentFacts
  <2>. HIDE DEF e
  <2>3. Sent' \in Seq(Told)
    BY <2>2
  <2>4. CASE closed
    <3>1. cut /\ UNCHANGED <<closed, pending, wire, cut, jammed>>
      BY <1>1, <1>2, <2>1, <2>4 DEF SendEvent, Delivery
    <3>2. PICK rest \in Seq(Told) : Sent = Events(wire) \o rest
      BY DEF Delivery
    <3>3. Events(wire) \in Seq(Told)
      BY <1>1, EventType DEF Framed
    <3>. DEFINE x == Events(wire)
                more == Append(rest, e)
    <3>4. Append(x \o rest, e) = x \o more
      <4>1. x \in Seq(Told) /\ rest \in Seq(Told) /\ e \in Told
        BY <2>2, <3>3
      <4>. HIDE DEF x
      <4>. QED
        BY <4>1, AppendAfter
    <3>5. more \in Seq(Told) /\ Events(wire') = x
      BY <2>2, <3>1
    <3>6. Sent' = x \o more
      BY <2>2, <3>2, <3>4
    <3>. HIDE DEF x, more
    <3>7. \E m \in Seq(Told) : Sent' = Events(wire') \o m
      BY <3>5, <3>6
    <3>. QED
      BY <2>1, <2>4, <3>1, <3>7 DEF Delivery
  <2>5. CASE ~closed /\ Overflows(e)
    <3>1. jammed' = TRUE /\ UNCHANGED <<closed, wire, cut>> /\ ~cut
      BY <1>2, <2>5 DEF SendEvent, Enqueue, Delivery, e
    <3>2. PICK rest \in Seq(Told) : Sent = Events(wire) \o rest
      BY DEF Delivery
    <3>3. Events(wire) \in Seq(Told)
      BY <1>1, EventType DEF Framed
    <3>. DEFINE x == Events(wire)
                more == Append(rest, e)
    <3>4. Append(x \o rest, e) = x \o more
      <4>1. x \in Seq(Told) /\ rest \in Seq(Told) /\ e \in Told
        BY <2>2, <3>3
      <4>. HIDE DEF x
      <4>. QED
        BY <4>1, AppendAfter
    <3>5. more \in Seq(Told) /\ Events(wire') = x
      BY <2>2, <3>1
    <3>6. Sent' = x \o more
      BY <2>2, <3>2, <3>4
    <3>. HIDE DEF x, more
    <3>7. \E m \in Seq(Told) : Sent' = Events(wire') \o m
      BY <3>5, <3>6
    <3>. QED
      BY <2>1, <2>5, <3>1, <3>7 DEF Delivery
  <2>6. CASE ~closed /\ ~Overflows(e)
    <3>1. Flush(ready, Append(pending, e), buffered + e.size) /\ UNCHANGED jammed
      BY <1>2, <2>6 DEF SendEvent, Enqueue, e
    <3>2. ready \in BOOLEAN
      BY <1>1 DEF Framed
    <3>3. /\ \E rest \in Seq(Told) : Sent' = Events(wire') \o rest
          /\ ~ready => wire' = <<>>
          /\ ~closed' => ~cut' /\ Sent' = Events(wire') \o Events(pending')
          /\ closed' => cut'
          /\ ready /\ ~cut' => Sent' = Events(wire')
      BY <2>1, <2>2, <2>3, <2>6, <3>1, <3>2, EnqueueTells
    <3>. QED
      BY <2>1, <3>1, <3>3 DEF Delivery
  <2>. QED
    BY <2>4, <2>5, <2>6
<1>3. ASSUME Close PROVE Delivery'
  <2>1. /\ ~jammed /\ made < Len(script) /\ made' = made + 1 /\ script[made + 1] = Closing
        /\ closed' = TRUE /\ UNCHANGED <<script, ready, wire, cut, jammed>>
    BY <1>3 DEF Close
  <2>2. Sent' = Sent /\ made' = Len(script)
    BY <1>1, <2>1, SentFacts
  <2>. QED
    BY <2>1, <2>2 DEF Delivery
<1>4. ASSUME OnStreamReady PROVE Delivery'
  <2>1. /\ ~jammed /\ ~ready /\ ~closed /\ ready' = TRUE /\ UNCHANGED <<script, made>>
        /\ Retry5000 \in Frame /\ Retry5000 \notin Told /\ Enqueue(TRUE, Retry5000)
    BY <1>4 DEF OnStreamReady, Retry5000, Event, Frame, Told
  <2>2. Sent' = Sent
    BY <2>1 DEF Sent
  <2>3. Sent \in Seq(Told)
    BY <1>1, <2>1, SentType
  <2>4. CASE Overflows(Retry5000)
    BY <2>1, <2>2, <2>4 DEF Enqueue, Delivery
  <2>5. CASE ~Overflows(Retry5000)
    <3>1. /\ Flush(TRUE, Append(pending, Retry5000), buffered + Retry5000.size)
          /\ UNCHANGED jammed
      BY <2>1, <2>5 DEF Enqueue
    <3>2. /\ \E rest \in Seq(Told) : Sent = Events(wire') \o rest
          /\ ~closed' => ~cut' /\ Sent = Events(wire') \o Events(pending')
          /\ closed' => cut'
          /\ ~cut' => Sent = Events(wire')
      BY <2>1, <2>3, <3>1, EnqueueTells
    <3>. QED
      BY <2>1, <2>2, <3>1, <3>2 DEF Delivery
  <2>. QED
    BY <2>4, <2>5
<1>5. ASSUME Heartbeat PROVE Delivery'
  <2>1. /\ ~jammed /\ ready /\ ~closed /\ UNCHANGED <<script, made, ready, jammed>>
        /\ Beat \in Frame /\ Beat \notin Told
        /\ Flush(TRUE, Append(pending, Beat), buffered + Beat.size)
    BY <1>5 DEF Heartbeat, Beat, Event, Frame, Told, BufferInv, Announced, Framed
  <2>2. Sent' = Sent
    BY <2>1 DEF Sent
  <2>3. Sent \in Seq(Told)
    BY <1>1, <2>1, SentType
  <2>4. /\ \E rest \in Seq(Told) : Sent = Events(wire') \o rest
        /\ ~closed' => ~cut' /\ Sent = Events(wire') \o Events(pending')
        /\ closed' => cut'
        /\ ~cut' => Sent = Events(wire')
    BY <2>1, <2>3, EnqueueTells
  <2>. QED
    BY <2>1, <2>2, <2>4 DEF Delivery
<1>6. ASSUME UNCHANGED sseVars PROVE Delivery'
  BY <1>6 DEF sseVars, Delivery, Sent
<1>. QED
  BY <1>2, <1>3, <1>4, <1>5, <1>6 DEF SseNext

LEMMA ArrivalInit == SseInit => ArrivalInv
<1>. SUFFICES ASSUME SseInit PROVE ArrivalInv
  OBVIOUS
<1>1. BufferInv /\ Framed
  BY BufferInit DEF BufferInv
<1>2. Sent = <<>>
  <2>1. script \in Seq(Frame)
    BY <1>1, ScriptFacts DEF Framed
  <2>2. SubSeq(script, 1, 0) = <<>>
    BY <2>1
  <2>. QED
    BY <2>2, EventNone DEF Sent, SseInit
<1>3. <<>> \o <<>> = <<>> /\ <<>> \in Seq(Told)
  OBVIOUS
<1>. QED
  BY <1>1, <1>2, <1>3, EventNone DEF ArrivalInv, Delivery, SseInit

\* The client gets the handler's events in order and none twice, for any size of the
\* buffer and whenever drogon gives the stream, and closing right after the last event
\* loses none of them (sendDone, flushUnlocked, close).
THEOREM Arrival == SseSpec => []EventsArrive
<1>1. ASSUME ArrivalInv PROVE EventsArrive
  <2>1. PICK rest \in Seq(Told) : Sent = Events(wire) \o rest
    BY <1>1 DEF ArrivalInv, Delivery
  <2>2. Events(wire) \in Seq(Told)
    BY <1>1, EventType DEF ArrivalInv, BufferInv, Framed
  <2>3. IsPrefix(Events(wire), Sent)
    BY <2>1, <2>2, PrefixIs
  <2>. QED
    BY <1>1, <2>3 DEF EventsArrive, ArrivalInv, Delivery
<1>. QED
  BY <1>1, ArrivalInit, ArrivalNext, PTL DEF SseSpec

-----------------------------------------------------------------------------
(***************************************************************************)
(* The lines of the log. The invariant says what a thread's log context is *)
(* between two requests and within one, and that a request is served by    *)
(* one thread and never again.                                             *)
(***************************************************************************)

Steps == {"idle", "handler", "record", "end", "export", "post", "release", "log"}

Serving(t) == at[t].step # "idle"

FieldsTyped ==
  /\ at \in [Workers -> [step : Steps, call : Calls \cup {Nil}]]
  /\ tag \in [Calls -> Companies \cup {Nil}]
  /\ logContext \in [Workers -> [id : Calls \cup {Nil}, company : Companies \cup {Nil}]]
  /\ DOMAIN span = Calls

\* A thread serves a request that has begun, and no two serve the same.
ServedOnce ==
  /\ \A t \in Workers : Serving(t) => at[t].call \in Calls /\ span[at[t].call] # "no"
  /\ \A t, u \in Workers : Serving(t) /\ Serving(u) /\ at[t].call = at[u].call => t = u

\* A line is of a request that nobody serves any more.
LinesAreOver ==
  \A l \in lines :
    /\ l.call \in Calls /\ span[l.call] # "no"
    /\ \A t \in Workers : Serving(t) => at[t].call # l.call

ContextOf(c) ==
  IF c \in Filtered THEN [id |-> c, company |-> CompanyOf[c]] ELSE NoContext

\* The context is the request's own, or none; where the request has no company tag, the
\* context has no company either.
ContextIsOwn ==
  \A t \in Workers :
    /\ logContext[t] = IF Serving(t) THEN ContextOf(at[t].call) ELSE NoContext
    /\ Serving(t) /\ tag[at[t].call] = Nil => logContext[t].company = Nil

LinesInv == FieldsTyped /\ ServedOnce /\ LinesAreOver /\ ContextIsOwn /\ LinesAreOwn

LEMMA LinesInit == ObsInit => LinesInv
BY DEF ObsInit, LinesInv, FieldsTyped, Steps, ServedOnce, LinesAreOver, ContextIsOwn, LinesAreOwn,
       Serving, NoContext

-----------------------------------------------------------------------------
(* The steps *)

\* A step that only moves a thread on within its request, and may mark spans.
LEMMA MovesOn ==
  ASSUME LinesInv, NEW t \in Workers, Serving(t), NEW step \in Steps, step # "idle",
         Go(t, step), UNCHANGED <<tag, logContext, lines>>,
         DOMAIN span' = Calls, \A c \in Calls : span[c] # "no" => span'[c] # "no"
  PROVE  LinesInv'
<1>1. \A u \in Workers : at'[u].call = at[u].call /\ (Serving(u)' <=> Serving(u))
  BY DEF Go, Serving, LinesInv, FieldsTyped
<1>2. at' \in [Workers -> [step : Steps, call : Calls \cup {Nil}]]
  BY DEF Go, LinesInv, FieldsTyped
<1>3. FieldsTyped'
  BY <1>2 DEF LinesInv, FieldsTyped
<1>4. ServedOnce' /\ LinesAreOver'
  BY <1>1 DEF LinesInv, ServedOnce, LinesAreOver
<1>5. ContextIsOwn'
  BY <1>1 DEF LinesInv, ContextIsOwn, ContextOf
<1>6. LinesAreOwn'
  BY DEF LinesInv, LinesAreOwn
<1>. QED
  BY <1>3, <1>4, <1>5, <1>6 DEF LinesInv

LEMMA BeginStep ==
  ASSUME LinesInv, NEW t \in Workers, NEW c \in Calls, DoFilter(t, c) \/ SkipFilter(t, c)
  PROVE  LinesInv'
<1>. USE ObservabilityAssumption
<1>1. /\ ~Serving(t) /\ span[c] = "no"
      /\ at' = [at EXCEPT ![t] = [step |-> "handler", call |-> c]]
      /\ lines' = lines
  BY DEF DoFilter, SkipFilter, Serving
<1>2. \/ /\ c \in Filtered
         /\ tag' = [tag EXCEPT ![c] = CompanyOf[c]]
         /\ logContext' = [logContext EXCEPT ![t] = [id |-> c, company |-> CompanyOf[c]]]
         /\ span' = [span EXCEPT ![c] = "open"]
      \/ /\ c \notin Filtered
         /\ UNCHANGED <<tag, logContext>>
         /\ span' = [span EXCEPT ![c] = "none"]
  BY DEF DoFilter, SkipFilter
<1>3. CompanyOf[c] \in Companies
  BY DEF Companies
<1>4. \A u \in Workers :
        IF u = t THEN Serving(u)' /\ at'[u].call = c ELSE at'[u] = at[u]
  BY <1>1 DEF Serving, LinesInv, FieldsTyped
<1>5. \A u \in Workers : u # t => (Serving(u)' <=> Serving(u))
  BY <1>4 DEF Serving
<1>6. \A u \in Workers : Serving(u) => at[u].call # c
  BY <1>1 DEF LinesInv, ServedOnce
<1>7. \A l \in lines : l.call # c
  BY <1>1 DEF LinesInv, LinesAreOver
<1>8. FieldsTyped'
  <2>1. at' \in [Workers -> [step : Steps, call : Calls \cup {Nil}]]
    BY <1>1 DEF LinesInv, FieldsTyped, Steps
  <2>2. CASE c \in Filtered
    <3>1. [id |-> c, company |-> CompanyOf[c]]
            \in [id : Calls \cup {Nil}, company : Companies \cup {Nil}]
      BY <1>3
    <3>2. logContext' \in [Workers -> [id : Calls \cup {Nil}, company : Companies \cup {Nil}]]
      BY <1>2, <2>2, <3>1 DEF LinesInv, FieldsTyped
    <3>3. tag' \in [Calls -> Companies \cup {Nil}] /\ DOMAIN span' = Calls
      BY <1>2, <1>3, <2>2 DEF LinesInv, FieldsTyped
    <3>. QED
      BY <2>1, <3>2, <3>3 DEF FieldsTyped
  <2>3. CASE c \notin Filtered
    BY <1>2, <2>1, <2>3 DEF LinesInv, FieldsTyped
  <2>. QED
    BY <2>2, <2>3
<1>9. \A d \in Calls : span[d] # "no" => span'[d] # "no"
  BY <1>2 DEF LinesInv, FieldsTyped
<1>10. span'[c] # "no"
  BY <1>2 DEF LinesInv, FieldsTyped
<1>11. ServedOnce'
  BY <1>4, <1>5, <1>6, <1>9, <1>10 DEF LinesInv, ServedOnce
<1>12. LinesAreOver'
  BY <1>1, <1>4, <1>5, <1>7, <1>9 DEF LinesInv, LinesAreOver
<1>13. \A d \in Calls : d # c => tag'[d] = tag[d]
  BY <1>2 DEF LinesInv, FieldsTyped
<1>14. LinesAreOwn'
  BY <1>1, <1>7, <1>13 DEF LinesInv, LinesAreOwn, LinesAreOver
<1>15. ContextIsOwn'
  <2>. SUFFICES ASSUME NEW u \in Workers
       PROVE  /\ logContext'[u] = IF Serving(u)' THEN ContextOf(at'[u].call) ELSE NoContext
              /\ Serving(u)' /\ tag'[at'[u].call] = Nil => logContext'[u].company = Nil
    BY DEF ContextIsOwn, ContextOf
  <2>1. CASE u # t
    <3>1. logContext'[u] = logContext[u]
      BY <1>2, <2>1 DEF LinesInv, FieldsTyped
    <3>2. Serving(u) => at[u].call \in Calls /\ at[u].call # c
      BY <1>6 DEF LinesInv, ServedOnce
    <3>. QED
      BY <3>1, <3>2, <2>1, <1>4, <1>5, <1>13 DEF LinesInv, ContextIsOwn
  <2>2. CASE u = t /\ c \in Filtered
    <3>1. logContext'[t] = [id |-> c, company |-> CompanyOf[c]] /\ tag'[c] = CompanyOf[c]
      BY <1>2, <2>2 DEF LinesInv, FieldsTyped
    <3>. QED
      BY <3>1, <2>2, <1>4 DEF ContextOf
  <2>3. CASE u = t /\ c \notin Filtered
    <3>1. logContext'[t] = NoContext
      BY <1>1, <1>2, <2>3 DEF LinesInv, ContextIsOwn
    <3>. QED
      BY <3>1, <2>3, <1>4 DEF ContextOf, NoContext
  <2>. QED
    BY <2>1, <2>2, <2>3
<1>. QED
  BY <1>8, <1>11, <1>12, <1>14, <1>15 DEF LinesInv

LEMMA HandlerStep ==
  ASSUME LinesInv, NEW t \in Workers, RunHandler(t)
  PROVE  LinesInv'
<1>. DEFINE c == at[t].call
<1>. USE ObservabilityAssumption
<1>1. Serving(t) /\ c \in Calls
  BY DEF RunHandler, Serving, LinesInv, ServedOnce
<1>2. RouteProvider[c] \in Companies
  BY <1>1 DEF Companies
<1>3. /\ tag' \in [Calls -> Companies \cup {Nil}]
      /\ \A d \in Calls : d # c => tag'[d] = tag[d]
      /\ tag'[c] = Nil => tag[c] = Nil
  BY <1>1, <1>2 DEF RunHandler, LinesInv, FieldsTyped
<1>4. at' = [at EXCEPT ![t].step = "record"] /\ UNCHANGED <<logContext, lines, span>>
  BY DEF RunHandler, Go
<1>5. \A u \in Workers : at'[u].call = at[u].call /\ (Serving(u)' <=> Serving(u))
  BY <1>1, <1>4 DEF Serving, LinesInv, FieldsTyped
<1>6. FieldsTyped'
  BY <1>3, <1>4, SMTT(20) DEF LinesInv, FieldsTyped, Steps
<1>7. ServedOnce' /\ LinesAreOver'
  BY <1>4, <1>5 DEF LinesInv, ServedOnce, LinesAreOver
<1>8. \A u \in Workers : u # t /\ Serving(u) => at[u].call \in Calls /\ at[u].call # c
  BY <1>1 DEF LinesInv, ServedOnce
<1>9. ContextIsOwn'
  BY <1>3, <1>4, <1>5, <1>8 DEF LinesInv, ContextIsOwn, ContextOf
<1>10. LinesAreOwn'
  BY <1>1, <1>3, <1>4 DEF LinesInv, LinesAreOwn, LinesAreOver
<1>. QED
  BY <1>6, <1>7, <1>9, <1>10 DEF LinesInv

\* What a line says: the request's id or none, and its tag.
LEMMA LineSaysOwn ==
  ASSUME LinesInv, NEW t \in Workers, Serving(t),
         NEW id \in {at[t].call} \cup (IF at[t].call \in Filtered THEN {} ELSE {Nil})
  PROVE  LET said == Updated(logContext[t], id, tag[at[t].call]) IN
         said.id \in {at[t].call, Nil} /\ said.company = tag[at[t].call]
<1>. DEFINE c == at[t].call
<1>1. logContext[t] = ContextOf(c) /\ (tag[c] = Nil => logContext[t].company = Nil)
  BY DEF LinesInv, ContextIsOwn
<1>2. logContext[t].id \in {c, Nil}
  BY <1>1 DEF ContextOf, NoContext
<1>. QED
  BY <1>1, <1>2 DEF Updated

LEMMA LineStep ==
  ASSUME LinesInv, NEW t \in Workers, LogLine(t)
  PROVE  LinesInv'
<1>. DEFINE c == at[t].call
<1>1. Serving(t) /\ c \in Calls /\ span[c] # "no"
  BY DEF LogLine, Serving, LinesInv, ServedOnce
<1>2. PICK id \in {c} \cup (IF c \in Filtered THEN {} ELSE {Nil}) :
        lines' = lines \cup {[call |-> c, said |-> Updated(logContext[t], id, tag[c])]}
  BY DEF LogLine
<1>3. /\ at' = [at EXCEPT ![t] = [step |-> "idle", call |-> Nil]]
      /\ logContext' = [logContext EXCEPT ![t] = NoContext]
      /\ UNCHANGED <<span, tag>>
  BY DEF LogLine, Cleared
<1>4. ~Serving(t)' /\ \A u \in Workers : u # t => at'[u] = at[u] /\ (Serving(u)' <=> Serving(u))
  BY <1>3 DEF Serving, LinesInv, FieldsTyped
<1>5. FieldsTyped'
  BY <1>3 DEF LinesInv, FieldsTyped, NoContext, Steps
<1>6. ServedOnce'
  BY <1>3, <1>4 DEF LinesInv, ServedOnce
<1>7. LinesAreOver'
  BY <1>1, <1>2, <1>3, <1>4 DEF LinesInv, ServedOnce, LinesAreOver
<1>8. ContextIsOwn'
  <2>1. logContext'[t] = NoContext /\ \A u \in Workers : u # t => logContext'[u] = logContext[u]
    BY <1>3 DEF LinesInv, FieldsTyped
  <2>. QED
    BY <1>3, <1>4, <2>1 DEF LinesInv, ContextIsOwn, ContextOf
<1>9. LinesAreOwn'
  BY <1>1, <1>2, <1>3, LineSaysOwn DEF LinesInv, LinesAreOwn
<1>. QED
  BY <1>5, <1>6, <1>7, <1>8, <1>9 DEF LinesInv

LEMMA FreeStep ==
  ASSUME LinesInv, NEW c \in Calls, Free(c)
  PROVE  LinesInv'
<1>1. UNCHANGED <<at, tag, logContext, lines>> /\ span' = [span EXCEPT ![c] = "freed"]
  BY DEF Free
<1>2. DOMAIN span' = Calls /\ \A d \in Calls : span[d] # "no" => span'[d] # "no"
  BY <1>1 DEF LinesInv, FieldsTyped
<1>. QED
  BY <1>1, <1>2 DEF LinesInv, FieldsTyped, ServedOnce, LinesAreOver, ContextIsOwn, ContextOf,
                    LinesAreOwn, Serving

LEMMA WorkStep ==
  ASSUME LinesInv, NEW t \in Workers, Work(t)
  PROVE  LinesInv'
<1>. DEFINE Moves(step) ==
       /\ Serving(t) /\ step \in Steps /\ step # "idle" /\ Go(t, step)
       /\ UNCHANGED <<tag, logContext, lines>>
       /\ DOMAIN span' = Calls /\ \A c \in Calls : span[c] # "no" => span'[c] # "no"
<1>1. CASE Record(t)
  <2>1. Moves("end")
    BY <1>1 DEF Record, Serving, LinesInv, FieldsTyped, Steps
  <2>. QED
    BY <2>1, MovesOn
<1>2. CASE EndSpan(t)
  <2>1. \E step \in {"export", "release", "log"} : Moves(step)
    BY <1>2 DEF EndSpan, Serving, LinesInv, FieldsTyped, Steps
  <2>. QED
    BY <2>1, MovesOn
<1>3. CASE LockExporter(t)
  <2>1. Moves("post")
    BY <1>3 DEF LockExporter, Serving, LinesInv, FieldsTyped, Steps
  <2>. QED
    BY <2>1, MovesOn
<1>4. CASE Post(t)
  <2>1. Moves("release")
    BY <1>4 DEF Post, Serving, LinesInv, FieldsTyped, Steps
  <2>. QED
    BY <2>1, MovesOn
<1>5. CASE Release(t)
  <2>1. Moves("log")
    BY <1>5 DEF Release, Serving, LinesInv, FieldsTyped, Steps
  <2>. QED
    BY <2>1, MovesOn
<1>. QED
  BY <1>1, <1>2, <1>3, <1>4, <1>5, HandlerStep, LineStep DEF Work

LEMMA LinesNext == LinesInv /\ [ObsNext]_obsVars => LinesInv'
<1>. SUFFICES ASSUME LinesInv, [ObsNext]_obsVars
     PROVE  LinesInv'
  OBVIOUS
<1>1. CASE UNCHANGED obsVars
  BY <1>1 DEF obsVars, LinesInv, FieldsTyped, ServedOnce, LinesAreOver, ContextIsOwn,
              ContextOf, LinesAreOwn, Serving
<1>. QED
  BY <1>1, WorkStep, BeginStep, FreeStep DEF ObsNext

\* No line carries another request's id or company, however many requests, with and
\* without the middleware, a thread serves in turn (setLogContext, updateLogContext,
\* clearLogContext).
THEOREM OwnLines == ObsSpec => []LinesAreOwn
<1>1. LinesInv => LinesAreOwn
  BY DEF LinesInv
<1>. QED
  BY <1>1, LinesInit, LinesNext, PTL DEF ObsSpec
-----------------------------------------------------------------------------
(***************************************************************************)
(* The spans. The invariant says which span a thread's stack refers to,    *)
(* what became of the span at each step of its request, and that it has    *)
(* been posted unless a thread is about to.                                *)
(***************************************************************************)

Posting(c) == \E t \in Workers : at[t].call = c /\ at[t].step \in {"export", "post"}

SpanOver(c) == span[c] \in {"ended", "freed"}

StacksAreOwn ==
  stack = [t \in Workers |->
             IF Serving(t) /\ at[t].call \in Filtered /\ at[t].step # "log"
             THEN <<at[t].call>> ELSE <<>>]

\* What the thread that serves a request knows of its span.
SpanFollows ==
  \A t \in Workers : Serving(t) =>
    LET c == at[t].call
        step == at[t].step IN
    /\ c \in Filtered => span[c] = IF step \in {"handler", "record", "end"} THEN "open" ELSE "ended"
    /\ c \notin Filtered => span[c] = "none" /\ step \in {"handler", "record", "end", "log"}
    /\ step \in {"export", "post"} => Enabled

PostedOnce ==
  /\ DOMAIN exported = Calls
  /\ \A c \in Filtered :
       /\ span[c] \in {"no", "open", "ended", "freed"}
       /\ exported[c] = IF Enabled /\ SpanOver(c) /\ ~Posting(c) THEN 1 ELSE 0

ParentsAreForeign ==
  /\ DOMAIN parent = Calls
  /\ \A c \in Filtered : parent[c] \in {Nil, "remote"}

LinesAfterSpans == \A l \in lines : l.call \in Filtered => SpanOver(l.call)

SpanInv ==
  LinesInv /\ StacksAreOwn /\ SpanFollows /\ PostedOnce /\ ParentsAreForeign /\ LinesAfterSpans

LEMMA SpanInit == ObsInit => SpanInv
<1>. SUFFICES ASSUME ObsInit PROVE SpanInv
  OBVIOUS
<1>1. \A t \in Workers : ~Serving(t) /\ at[t].step = "idle"
  BY DEF ObsInit, Serving
<1>2. StacksAreOwn /\ SpanFollows /\ LinesAfterSpans
  BY <1>1 DEF ObsInit, StacksAreOwn, SpanFollows, LinesAfterSpans
<1>3. PostedOnce /\ ParentsAreForeign
  BY <1>1, ObservabilityAssumption DEF ObsInit, PostedOnce, ParentsAreForeign, SpanOver, Posting
<1>. QED
  BY <1>2, <1>3, LinesInit DEF SpanInv

\* A thread between two requests refers to no span, so the next one is nobody's child.
LEMMA SpanBegins ==
  ASSUME SpanInv, NEW t \in Workers, NEW c \in Calls, DoFilter(t, c)
  PROVE  SpanInv'
<1>. USE ObservabilityAssumption
<1>1. /\ ~Serving(t) /\ at[t].step = "idle" /\ span[c] = "no" /\ c \in Filtered
      /\ at' = [at EXCEPT ![t] = [step |-> "handler", call |-> c]]
      /\ span' = [span EXCEPT ![c] = "open"]
      /\ stack' = [stack EXCEPT ![t] = Append(Alive(@), c)]
      /\ UNCHANGED <<exported, lines>>
  BY DEF DoFilter, Serving
<1>2. PICK h \in Traceparents : parent' = [parent EXCEPT ![c] = ParentFor(t, h)]
  BY DEF DoFilter
<1>3. stack[t] = <<>> /\ Alive(stack[t]) = <<>>
  BY <1>1, SelectedEmpty DEF SpanInv, StacksAreOwn, Alive
<1>4. ParentFor(t, h) \in {Nil, "remote"}
  BY <1>3 DEF ParentFor, extractTraceparent
<1>5. LinesInv'
  BY BeginStep DEF SpanInv
<1>6. /\ at'[t] = [step |-> "handler", call |-> c] /\ Serving(t)'
      /\ \A u \in Workers : u # t => at'[u] = at[u] /\ (Serving(u)' <=> Serving(u))
  BY <1>1 DEF Serving, SpanInv, LinesInv, FieldsTyped
<1>7. span'[c] = "open" /\ \A d \in Calls : d # c => span'[d] = span[d]
  BY <1>1 DEF SpanInv, LinesInv, FieldsTyped
<1>8. \A u \in Workers : Serving(u) => at[u].call # c /\ at[u].call \in Calls
  BY <1>1 DEF SpanInv, LinesInv, ServedOnce
<1>9. StacksAreOwn'
  <2>1. Append(<<>>, c) = <<c>>
    OBVIOUS
  <2>2. DOMAIN stack = Workers
    BY DEF SpanInv, StacksAreOwn
  <2>3. DOMAIN stack' = Workers /\ stack' = [u \in Workers |-> stack'[u]]
    BY <1>1, <2>2
  <2>4. stack'[t] = <<c>> /\ \A u \in Workers : u # t => stack'[u] = stack[u]
    BY <1>1, <1>3, <2>1, <2>2
  <2>5. \A u \in Workers : stack'[u] =
          IF Serving(u)' /\ at'[u].call \in Filtered /\ at'[u].step # "log"
          THEN <<at'[u].call>> ELSE <<>>
    <3>. SUFFICES ASSUME NEW u \in Workers
         PROVE  stack'[u] = IF Serving(u)' /\ at'[u].call \in Filtered /\ at'[u].step # "log"
                            THEN <<at'[u].call>> ELSE <<>>
      BY DEF Serving
    <3>1. CASE u = t
      <4>1. at'[u].step = "handler" /\ at'[u].call = c
        BY <1>6, <3>1
      <4>2. stack'[u] = <<c>> /\ c \in Filtered
        BY <1>1, <2>4, <3>1
      <4>. QED
        BY <4>1, <4>2 DEF Serving
    <3>2. CASE u # t
      BY <1>6, <2>4, <3>2 DEF Serving, SpanInv, StacksAreOwn
    <3>. QED
      BY <3>1, <3>2
  <2>. QED
    BY <2>3, <2>5 DEF StacksAreOwn
<1>10. SpanFollows'
  BY <1>1, <1>6, <1>7, <1>8 DEF SpanInv, SpanFollows
<1>11. \A d \in Filtered : Posting(d)' <=> Posting(d)
  BY <1>1, <1>6 DEF Posting
<1>12. PostedOnce'
  BY <1>1, <1>7, <1>11 DEF SpanInv, PostedOnce, SpanOver
<1>13. ParentsAreForeign'
  BY <1>2, <1>4 DEF SpanInv, ParentsAreForeign
<1>14. LinesAfterSpans'
  BY <1>1, <1>7 DEF SpanInv, LinesAfterSpans, SpanOver, LinesInv, LinesAreOver
<1>. QED
  BY <1>5, <1>9, <1>10, <1>12, <1>13, <1>14 DEF SpanInv

LEMMA SpanSkipped ==
  ASSUME SpanInv, NEW t \in Workers, NEW c \in Calls, SkipFilter(t, c)
  PROVE  SpanInv'
<1>. USE ObservabilityAssumption
<1>1. /\ ~Serving(t) /\ at[t].step = "idle" /\ span[c] = "no" /\ c \notin Filtered
      /\ at' = [at EXCEPT ![t] = [step |-> "handler", call |-> c]]
      /\ span' = [span EXCEPT ![c] = "none"]
      /\ UNCHANGED <<exported, lines, parent, stack>>
  BY DEF SkipFilter, Serving
<1>2. LinesInv'
  BY BeginStep DEF SpanInv
<1>3. /\ at'[t] = [step |-> "handler", call |-> c] /\ Serving(t)'
      /\ \A u \in Workers : u # t => at'[u] = at[u] /\ (Serving(u)' <=> Serving(u))
  BY <1>1 DEF Serving, SpanInv, LinesInv, FieldsTyped
<1>4. span'[c] = "none" /\ \A d \in Calls : d # c => span'[d] = span[d]
  BY <1>1 DEF SpanInv, LinesInv, FieldsTyped
<1>5. \A u \in Workers : Serving(u) => at[u].call # c /\ at[u].call \in Calls
  BY <1>1 DEF SpanInv, LinesInv, ServedOnce
<1>6. StacksAreOwn'
  BY <1>1, <1>3 DEF SpanInv, StacksAreOwn
<1>7. SpanFollows'
  BY <1>1, <1>3, <1>4, <1>5 DEF SpanInv, SpanFollows
<1>8. \A d \in Filtered : Posting(d)' <=> Posting(d)
  BY <1>1, <1>3 DEF Posting
<1>9. PostedOnce'
  BY <1>1, <1>4, <1>8 DEF SpanInv, PostedOnce, SpanOver
<1>10. ParentsAreForeign' /\ LinesAfterSpans'
  BY <1>1, <1>4 DEF SpanInv, ParentsAreForeign, LinesAfterSpans, SpanOver
<1>. QED
  BY <1>2, <1>6, <1>7, <1>9, <1>10 DEF SpanInv

\* A step that moves a thread on within its request and leaves its spans alone.
LEMMA SpanKept ==
  ASSUME SpanInv, LinesInv', NEW t \in Workers, Serving(t), NEW step \in Steps, step # "idle",
         Go(t, step), UNCHANGED <<span, parent, stack, exported, lines>>,
         step \in {"handler", "record", "end"} <=> at[t].step \in {"handler", "record", "end"},
         step \in {"export", "post"} <=> at[t].step \in {"export", "post"},
         step # "log", at[t].step # "log", step = "release" <=> at[t].step = "release"
  PROVE  SpanInv'
<1>1. /\ at'[t].call = at[t].call /\ at'[t].step = step
      /\ \A u \in Workers : u # t => at'[u] = at[u]
      /\ \A u \in Workers : Serving(u)' <=> Serving(u)
  BY DEF Go, Serving, SpanInv, LinesInv, FieldsTyped
<1>2. StacksAreOwn'
  BY <1>1 DEF SpanInv, StacksAreOwn
<1>3. SpanFollows'
  <2>. SUFFICES ASSUME NEW u \in Workers, Serving(u)'
       PROVE  LET c == at'[u].call
                  now == at'[u].step IN
              /\ c \in Filtered => span'[c] = IF now \in {"handler", "record", "end"}
                                              THEN "open" ELSE "ended"
              /\ c \notin Filtered => span'[c] = "none" /\ now \in {"handler", "record", "end", "log"}
              /\ now \in {"export", "post"} => Enabled
    BY DEF SpanFollows
  <2>1. CASE u = t
    BY <1>1, <2>1 DEF SpanInv, SpanFollows
  <2>2. CASE u # t
    BY <1>1, <2>2 DEF SpanInv, SpanFollows
  <2>. QED
    BY <2>1, <2>2
<1>4. \A d \in Filtered : Posting(d)' <=> Posting(d)
  <2>1. \A u \in Workers : /\ at'[u].call = at[u].call
                           /\ at'[u].step \in {"export", "post"} <=> at[u].step \in {"export", "post"}
    BY <1>1
  <2>. QED
    BY <2>1 DEF Posting
<1>5. PostedOnce'
  BY <1>4 DEF SpanInv, PostedOnce, SpanOver
<1>6. ParentsAreForeign' /\ LinesAfterSpans'
  BY DEF SpanInv, ParentsAreForeign, LinesAfterSpans, SpanOver
<1>. QED
  BY <1>2, <1>3, <1>5, <1>6 DEF SpanInv

\* Span::end: the span a thread ends is over for good, and the thread is about to post it.
LEMMA SpanEnds ==
  ASSUME SpanInv, LinesInv', NEW t \in Workers, EndSpan(t)
  PROVE  SpanInv'
<1>. USE ObservabilityAssumption
<1>. DEFINE c == at[t].call
            step == IF span[c] = "open" THEN IF Enabled THEN "export" ELSE "release" ELSE "log"
<1>1. Serving(t) /\ at[t].step = "end" /\ c \in Calls /\ Go(t, step)
      /\ UNCHANGED <<parent, stack, exported, lines>>
  BY DEF EndSpan, Serving, SpanInv, LinesInv, ServedOnce
<1>2. /\ at'[t].call = c /\ at'[t].step = step /\ step # "idle" /\ Serving(t)'
      /\ \A u \in Workers : u # t => at'[u] = at[u] /\ (Serving(u)' <=> Serving(u))
  BY <1>1 DEF Go, Serving, SpanInv, LinesInv, FieldsTyped
<1>3. \A u \in Workers : u # t /\ Serving(u) => at[u].call # c /\ at[u].call \in Calls
  BY <1>1 DEF SpanInv, LinesInv, ServedOnce
<1>4. CASE c \in Filtered
  <2>1. span[c] = "open" /\ step = IF Enabled THEN "export" ELSE "release"
    BY <1>1, <1>4 DEF SpanInv, SpanFollows
  <2>2. span'[c] = "ended" /\ \A d \in Calls : d # c => span'[d] = span[d]
    BY <1>1, <2>1 DEF EndSpan, SpanInv, LinesInv, FieldsTyped
  <2>3. StacksAreOwn'
    BY <1>1, <1>2, <2>1, <1>4 DEF SpanInv, StacksAreOwn
  <2>4. SpanFollows'
    BY <1>1, <1>2, <1>3, <1>4, <2>1, <2>2 DEF SpanInv, SpanFollows
  <2>5. \A d \in Calls : d # c => (Posting(d)' <=> Posting(d))
    BY <1>1, <1>2 DEF Posting
  <2>6. (Posting(c)' <=> Enabled) /\ ~SpanOver(c)
    <3>1. \A u \in Workers : u # t => ~(at'[u].call = c /\ at'[u].step \in {"export", "post"})
      BY <1>2, <1>3 DEF Serving
    <3>. QED
      BY <1>2, <2>1, <3>1 DEF Posting, SpanOver
  <2>7. PostedOnce'
    <3>1. ASSUME NEW d \in Filtered, d # c
          PROVE  /\ span'[d] \in {"no", "open", "ended", "freed"}
                 /\ exported'[d] = IF Enabled /\ SpanOver(d)' /\ ~Posting(d)' THEN 1 ELSE 0
      BY <1>1, <2>2, <2>5, <3>1 DEF SpanInv, PostedOnce, SpanOver
    <3>2. /\ span'[c] \in {"no", "open", "ended", "freed"}
          /\ exported'[c] = IF Enabled /\ SpanOver(c)' /\ ~Posting(c)' THEN 1 ELSE 0
      BY <1>1, <1>4, <2>2, <2>6 DEF SpanInv, PostedOnce, SpanOver
    <3>3. DOMAIN exported' = Calls
      BY <1>1 DEF SpanInv, PostedOnce
    <3>4. ASSUME NEW d \in Filtered
          PROVE  /\ span'[d] \in {"no", "open", "ended", "freed"}
                 /\ exported'[d] = IF Enabled /\ SpanOver(d)' /\ ~Posting(d)' THEN 1 ELSE 0
      <4>1. CASE d = c
        BY <1>2, <3>2, <4>1 DEF SpanOver, Posting
      <4>2. CASE d # c
        BY <3>1, <4>2
      <4>. QED
        BY <4>1, <4>2
    <3>. QED
      BY <3>3, <3>4 DEF PostedOnce
  <2>8. ParentsAreForeign' /\ LinesAfterSpans'
    BY <1>1, <2>2 DEF SpanInv, ParentsAreForeign, LinesAfterSpans, SpanOver, LinesInv, LinesAreOver
  <2>. QED
    BY <2>3, <2>4, <2>7, <2>8 DEF SpanInv
<1>5. CASE c \notin Filtered
  <2>1. span[c] = "none" /\ step = "log" /\ UNCHANGED span
    BY <1>1, <1>5 DEF SpanInv, SpanFollows, EndSpan
  <2>2. StacksAreOwn'
    BY <1>1, <1>2, <2>1, <1>5 DEF SpanInv, StacksAreOwn
  <2>3. SpanFollows'
    BY <1>1, <1>2, <1>5, <2>1 DEF SpanInv, SpanFollows
  <2>4. \A d \in Calls : Posting(d)' <=> Posting(d)
    BY <1>1, <1>2, <2>1 DEF Posting
  <2>5. PostedOnce' /\ ParentsAreForeign' /\ LinesAfterSpans'
    BY <1>1, <2>1, <2>4 DEF SpanInv, PostedOnce, ParentsAreForeign, LinesAfterSpans, SpanOver
  <2>. QED
    BY <2>2, <2>3, <2>5 DEF SpanInv
<1>. QED
  BY <1>4, <1>5


\* exportSpan: what was about to be posted has been, once.
LEMMA SpanPosted ==
  ASSUME SpanInv, LinesInv', NEW t \in Workers, Post(t)
  PROVE  SpanInv'
<1>. USE ObservabilityAssumption
<1>. DEFINE c == at[t].call
<1>1. /\ Serving(t) /\ at[t].step = "post" /\ c \in Calls /\ Go(t, "release")
      /\ exported' = [exported EXCEPT ![c] = @ + 1]
      /\ UNCHANGED <<span, parent, stack, lines>>
  BY DEF Post, Serving, SpanInv, LinesInv, ServedOnce
<1>2. /\ at'[t].call = c /\ at'[t].step = "release" /\ Serving(t)'
      /\ \A u \in Workers : u # t => at'[u] = at[u] /\ (Serving(u)' <=> Serving(u))
  BY <1>1 DEF Go, Serving, SpanInv, LinesInv, FieldsTyped
<1>3. \A u \in Workers : u # t /\ Serving(u) => at[u].call # c
  BY <1>1 DEF SpanInv, LinesInv, ServedOnce
<1>4. c \in Filtered /\ span[c] = "ended" /\ Enabled
  BY <1>1 DEF SpanInv, SpanFollows
<1>5. StacksAreOwn'
  BY <1>1, <1>2 DEF SpanInv, StacksAreOwn
<1>6. SpanFollows'
  <2>1. ASSUME NEW u \in Workers, u # t, Serving(u)'
        PROVE  LET d == at'[u].call
                   now == at'[u].step IN
               /\ d \in Filtered => span'[d] = IF now \in {"handler", "record", "end"}
                                               THEN "open" ELSE "ended"
               /\ d \notin Filtered => span'[d] = "none" /\ now \in {"handler", "record", "end", "log"}
               /\ now \in {"export", "post"} => Enabled
    BY <1>1, <1>2, <2>1 DEF SpanInv, SpanFollows
  <2>. QED
    BY <1>1, <1>2, <1>4, <2>1 DEF SpanFollows
<1>7. \A d \in Calls : d # c => (Posting(d)' <=> Posting(d))
  BY <1>1, <1>2 DEF Posting
<1>8. Posting(c) /\ ~Posting(c)'
  BY <1>1, <1>2, <1>3 DEF Posting, Serving
<1>9. PostedOnce'
  <2>1. DOMAIN exported' = Calls /\ exported'[c] = exported[c] + 1
        /\ \A d \in Calls : d # c => exported'[d] = exported[d]
    BY <1>1 DEF SpanInv, PostedOnce
  <2>2. exported[c] = 0
    BY <1>4, <1>8 DEF SpanInv, PostedOnce
  <2>3. ASSUME NEW d \in Filtered
        PROVE  /\ span'[d] \in {"no", "open", "ended", "freed"}
               /\ exported'[d] = IF Enabled /\ SpanOver(d)' /\ ~Posting(d)' THEN 1 ELSE 0
    <3>1. CASE d = c
      <4>1. exported'[d] = 1 /\ span'[d] = "ended" /\ ~Posting(d)'
        BY <1>1, <1>2, <1>4, <1>8, <2>1, <2>2, <3>1 DEF Posting
      <4>. QED
        BY <4>1, <1>4 DEF SpanOver
    <3>2. CASE d # c
      BY <1>1, <1>7, <2>1, <3>2 DEF SpanInv, PostedOnce, SpanOver
    <3>. QED
      BY <3>1, <3>2
  <2>. QED
    BY <2>1, <2>3 DEF PostedOnce
<1>10. ParentsAreForeign' /\ LinesAfterSpans'
  BY <1>1 DEF SpanInv, ParentsAreForeign, LinesAfterSpans, SpanOver
<1>. QED
  BY <1>5, <1>6, <1>9, <1>10 DEF SpanInv

\* releaseSpan: the thread that ends a span refers to no other.
LEMMA SpanReleased ==
  ASSUME SpanInv, LinesInv', NEW t \in Workers, Release(t)
  PROVE  SpanInv'
<1>. USE ObservabilityAssumption
<1>. DEFINE c == at[t].call
<1>1. /\ Serving(t) /\ at[t].step = "release" /\ c \in Calls /\ Go(t, "log")
      /\ stack' = [stack EXCEPT ![t] = releaseSpan(@, c)]
      /\ UNCHANGED <<span, parent, exported, lines>>
  BY DEF Release, Serving, SpanInv, LinesInv, ServedOnce
<1>2. /\ at'[t].call = c /\ at'[t].step = "log"
      /\ \A u \in Workers : u # t => at'[u] = at[u] /\ (Serving(u)' <=> Serving(u))
  BY <1>1 DEF Go, Serving, SpanInv, LinesInv, FieldsTyped
<1>3. c \in Filtered /\ span[c] = "ended"
  BY <1>1 DEF SpanInv, SpanFollows
<1>4. stack[t] = <<c>>
  BY <1>1, <1>3 DEF SpanInv, StacksAreOwn
<1>5. releaseSpan(<<c>>, c) = <<>>
  <2>1. {i \in DOMAIN <<c>> : <<c>>[i] = c} = {1}
    OBVIOUS
  <2>2. Min({1}) = 1
    BY DEF Min
  <2>3. /\ SubSeq(<<c>>, 1, 1 - 1) = <<>> /\ SubSeq(<<c>>, 1 + 1, Len(<<c>>)) = <<>>
        /\ <<>> \o <<>> = <<>>
    OBVIOUS
  <2>4. Alive(<<>>) = <<>>
    BY SelectedEmpty DEF Alive
  <2>5. releaseSpan(<<c>>, c) = Alive(SubSeq(<<c>>, 1, 1 - 1)) \o SubSeq(<<c>>, 1 + 1, Len(<<c>>))
    BY <2>1, <2>2 DEF releaseSpan
  <2>. QED
    BY <2>3, <2>4, <2>5, Zenon
<1>6. StacksAreOwn'
  <2>1. DOMAIN stack = Workers
    BY DEF SpanInv, StacksAreOwn
  <2>2. stack' = [u \in Workers |-> stack'[u]]
    BY <1>1, <2>1
  <2>3. stack'[t] = <<>> /\ \A u \in Workers : u # t => stack'[u] = stack[u]
    BY <1>1, <1>4, <1>5, <2>1
  <2>4. ASSUME NEW u \in Workers
        PROVE  stack'[u] = IF Serving(u)' /\ at'[u].call \in Filtered /\ at'[u].step # "log"
                           THEN <<at'[u].call>> ELSE <<>>
    <3>1. CASE u = t
      BY <1>2, <2>3, <3>1
    <3>2. CASE u # t
      BY <1>2, <2>3, <3>2 DEF SpanInv, StacksAreOwn
    <3>. QED
      BY <3>1, <3>2
  <2>. QED
    BY <2>2, <2>4 DEF StacksAreOwn
<1>7. SpanFollows'
  <2>1. ASSUME NEW u \in Workers, u # t, Serving(u)'
        PROVE  LET d == at'[u].call
                   now == at'[u].step IN
               /\ d \in Filtered => span'[d] = IF now \in {"handler", "record", "end"}
                                               THEN "open" ELSE "ended"
               /\ d \notin Filtered => span'[d] = "none" /\ now \in {"handler", "record", "end", "log"}
               /\ now \in {"export", "post"} => Enabled
    BY <1>1, <1>2, <2>1 DEF SpanInv, SpanFollows
  <2>. QED
    BY <1>1, <1>2, <1>3, <2>1 DEF SpanFollows
<1>8. \A d \in Filtered : Posting(d)' <=> Posting(d)
  BY <1>1, <1>2 DEF Posting
<1>9. PostedOnce' /\ ParentsAreForeign' /\ LinesAfterSpans'
  BY <1>1, <1>8 DEF SpanInv, PostedOnce, ParentsAreForeign, LinesAfterSpans, SpanOver
<1>. QED
  BY <1>6, <1>7, <1>9 DEF SpanInv

LEMMA SpanLogged ==
  ASSUME SpanInv, LinesInv', NEW t \in Workers, LogLine(t)
  PROVE  SpanInv'
<1>. USE ObservabilityAssumption
<1>. DEFINE c == at[t].call
<1>1. /\ Serving(t) /\ at[t].step = "log" /\ c \in Calls
      /\ at' = [at EXCEPT ![t] = [step |-> "idle", call |-> Nil]]
      /\ \A l \in lines' : l \in lines \/ l.call = c
      /\ UNCHANGED <<span, parent, exported, stack>>
  BY DEF LogLine, Serving, SpanInv, LinesInv, ServedOnce
<1>2. /\ at'[t].step = "idle" /\ ~Serving(t)'
      /\ \A u \in Workers : u # t => at'[u] = at[u] /\ (Serving(u)' <=> Serving(u))
  BY <1>1 DEF Serving, SpanInv, LinesInv, FieldsTyped
<1>3. c \in Filtered => span[c] = "ended"
  BY <1>1 DEF SpanInv, SpanFollows
<1>4. StacksAreOwn'
  BY <1>1, <1>2 DEF SpanInv, StacksAreOwn
<1>5. SpanFollows'
  BY <1>1, <1>2 DEF SpanInv, SpanFollows
<1>6. \A d \in Filtered : Posting(d)' <=> Posting(d)
  BY <1>1, <1>2 DEF Posting
<1>7. PostedOnce' /\ ParentsAreForeign'
  BY <1>1, <1>6 DEF SpanInv, PostedOnce, ParentsAreForeign, SpanOver
<1>8. LinesAfterSpans'
  BY <1>1, <1>3 DEF SpanInv, LinesAfterSpans, SpanOver
<1>. QED
  BY <1>4, <1>5, <1>7, <1>8 DEF SpanInv

\* A span is open as long as a thread serves its request: the advice gets there before
\* the destructor does.
OpenIsServed ==
  \A c \in Filtered : span[c] = "open" => \E t \in Workers : Serving(t) /\ at[t].call = c

LEMMA OpenInit == ObsInit => OpenIsServed
BY ObservabilityAssumption DEF ObsInit, OpenIsServed

LEMMA OpenNext ==
  ASSUME SpanInv, OpenIsServed, [ObsNext]_obsVars
  PROVE  OpenIsServed'
<1>. USE ObservabilityAssumption
<1>1. DOMAIN span = Calls /\ at \in [Workers -> [step : Steps, call : Calls \cup {Nil}]]
  BY DEF SpanInv, LinesInv, FieldsTyped
<1>2. ASSUME NEW t \in Workers, NEW c \in Calls, DoFilter(t, c) \/ SkipFilter(t, c)
      PROVE  OpenIsServed'
  <2>1. /\ ~Serving(t) /\ at' = [at EXCEPT ![t] = [step |-> "handler", call |-> c]]
        /\ \A d \in Calls : d # c => span'[d] = span[d]
    BY <1>1, <1>2 DEF DoFilter, SkipFilter, Serving
  <2>2. /\ Serving(t)' /\ at'[t].call = c
        /\ \A u \in Workers : u # t => at'[u] = at[u] /\ (Serving(u)' <=> Serving(u))
    BY <1>1, <2>1 DEF Serving
  <2>3. ASSUME NEW d \in Filtered, d # c, span'[d] = "open"
        PROVE  \E u \in Workers : Serving(u)' /\ at'[u].call = d
    <3>1. PICK u \in Workers : Serving(u) /\ at[u].call = d
      BY <2>1, <2>3 DEF OpenIsServed
    <3>. QED
      BY <2>1, <2>2, <3>1
  <2>4. ASSUME NEW d \in Filtered, span'[d] = "open"
        PROVE  \E u \in Workers : Serving(u)' /\ at'[u].call = d
    BY <2>2, <2>3, <2>4
  <2>. QED
    BY <2>4 DEF OpenIsServed, Serving
<1>3. ASSUME \A u \in Workers : at'[u].call = at[u].call /\ (Serving(u)' <=> Serving(u)),
             \A d \in Filtered : span'[d] = "open" => span[d] = "open"
      PROVE  OpenIsServed'
  BY <1>3 DEF OpenIsServed, Serving
<1>4. ASSUME NEW t \in Workers, NEW step \in Steps, step # "idle", Serving(t), Go(t, step),
             UNCHANGED span \/ EndSpan(t)
      PROVE  OpenIsServed'
  <2>1. \A u \in Workers : at'[u].call = at[u].call /\ (Serving(u)' <=> Serving(u))
    BY <1>1, <1>4 DEF Go, Serving
  <2>2. \A d \in Filtered : span'[d] = "open" => span[d] = "open"
    BY <1>1, <1>4 DEF EndSpan
  <2>. QED
    BY <1>3, <2>1, <2>2
<1>5. ASSUME NEW t \in Workers, LogLine(t) PROVE OpenIsServed'
  <2>1. /\ Serving(t) /\ at[t].step = "log" /\ UNCHANGED span
        /\ at' = [at EXCEPT ![t] = [step |-> "idle", call |-> Nil]]
    BY <1>5 DEF LogLine, Serving
  <2>2. \A u \in Workers : u # t => at'[u] = at[u] /\ (Serving(u)' <=> Serving(u))
    BY <2>1 DEF Serving
  <2>3. ASSUME NEW d \in Filtered, span'[d] = "open"
        PROVE  \E u \in Workers : Serving(u)' /\ at'[u].call = d
    <3>1. PICK u \in Workers : Serving(u) /\ at[u].call = d
      BY <2>1, <2>3 DEF OpenIsServed
    <3>2. u # t
      BY <2>1, <2>3, <3>1 DEF SpanInv, SpanFollows
    <3>. QED
      BY <2>2, <3>1, <3>2
  <2>. QED
    BY <2>3 DEF OpenIsServed, Serving
<1>6. ASSUME NEW t \in Workers, Work(t) PROVE OpenIsServed'
  <2>1. CASE RunHandler(t) \/ Record(t) \/ LockExporter(t) \/ Post(t) \/ Release(t)
    <3>1. Serving(t) /\ UNCHANGED span
      BY <2>1 DEF RunHandler, Record, LockExporter, Post, Release, Serving
    <3>2. \E step \in Steps : step # "idle" /\ Go(t, step)
      BY <2>1 DEF RunHandler, Record, LockExporter, Post, Release, Steps
    <3>. QED
      BY <1>4, <3>1, <3>2
  <2>2. CASE EndSpan(t)
    <3>1. Serving(t) /\ \E step \in Steps : step # "idle" /\ Go(t, step)
      BY <2>2 DEF EndSpan, Steps, Serving
    <3>. QED
      BY <1>4, <2>2, <3>1
  <2>. QED
    BY <1>5, <1>6, <2>1, <2>2 DEF Work
<1>7. ASSUME NEW c \in Calls, Free(c) PROVE OpenIsServed'
  BY <1>1, <1>3, <1>7 DEF Free, Serving
<1>8. CASE UNCHANGED obsVars
  BY <1>3, <1>8 DEF obsVars, Serving
<1>. QED
  BY <1>2, <1>6, <1>7, <1>8 DEF ObsNext

LEMMA SpanFreed ==
  ASSUME SpanInv, OpenIsServed, LinesInv', NEW c \in Calls, Free(c)
  PROVE  SpanInv'
<1>. USE ObservabilityAssumption
<1>1. /\ span[c] \notin {"no", "freed"} /\ \A t \in Workers : at[t].call # c
      /\ span' = [span EXCEPT ![c] = "freed"]
      /\ UNCHANGED <<at, parent, stack, exported, lines>>
  BY DEF Free
<1>2. span'[c] = "freed" /\ \A d \in Calls : d # c => span'[d] = span[d]
  BY <1>1 DEF SpanInv, LinesInv, FieldsTyped
<1>3. StacksAreOwn'
  BY <1>1 DEF SpanInv, StacksAreOwn, Serving
<1>4. SpanFollows'
  <2>1. \A t \in Workers : Serving(t) => at[t].call \in Calls
    BY DEF SpanInv, LinesInv, ServedOnce
  <2>. QED
    BY <1>1, <1>2, <2>1 DEF SpanInv, SpanFollows, Serving
<1>5. ~Posting(c) /\ \A d \in Filtered : Posting(d)' <=> Posting(d)
  BY <1>1 DEF Posting
<1>6. PostedOnce'
  <2>1. ASSUME NEW d \in Filtered
        PROVE  /\ span'[d] \in {"no", "open", "ended", "freed"}
               /\ exported[d] = IF Enabled /\ SpanOver(d)' /\ ~Posting(d)' THEN 1 ELSE 0
    <3>1. CASE d = c
      <4>1. span[c] = "ended"
        BY <1>1, <3>1 DEF SpanInv, PostedOnce, OpenIsServed
      <4>. QED
        BY <1>2, <1>5, <3>1, <4>1 DEF SpanInv, PostedOnce, SpanOver
    <3>2. CASE d # c
      BY <1>2, <1>5, <3>2 DEF SpanInv, PostedOnce, SpanOver
    <3>. QED
      BY <3>1, <3>2
  <2>. QED
    BY <1>1, <2>1 DEF SpanInv, PostedOnce
<1>7. ParentsAreForeign' /\ LinesAfterSpans'
  BY <1>1, <1>2 DEF SpanInv, ParentsAreForeign, LinesAfterSpans, SpanOver, LinesInv, LinesAreOver
<1>. QED
  BY <1>3, <1>4, <1>6, <1>7 DEF SpanInv

LEMMA SpanNext == SpanInv /\ OpenIsServed /\ [ObsNext]_obsVars => SpanInv'
<1>. SUFFICES ASSUME SpanInv, OpenIsServed, [ObsNext]_obsVars
     PROVE  SpanInv'
  OBVIOUS
<1>1. LinesInv'
  BY LinesNext DEF SpanInv
<1>2. CASE UNCHANGED obsVars
  BY <1>1, <1>2 DEF obsVars, SpanInv, StacksAreOwn, SpanFollows, PostedOnce, ParentsAreForeign,
                    LinesAfterSpans, SpanOver, Posting, Serving
<1>3. ASSUME NEW t \in Workers, RunHandler(t) \/ Record(t) \/ LockExporter(t) PROVE SpanInv'
  <2>1. /\ Serving(t) /\ UNCHANGED <<span, parent, stack, exported, lines>>
        /\ \/ at[t].step = "handler" /\ Go(t, "record")
           \/ at[t].step = "record" /\ Go(t, "end")
           \/ at[t].step = "export" /\ Go(t, "post")
    BY <1>3 DEF RunHandler, Record, LockExporter, Serving
  <2>. QED
    BY <1>1, <2>1, SpanKept DEF Steps
<1>4. ASSUME NEW t \in Workers, Work(t) PROVE SpanInv'
  BY <1>1, <1>3, <1>4, SpanEnds, SpanPosted, SpanReleased, SpanLogged DEF Work
<1>. QED
  BY <1>1, <1>2, <1>4, SpanBegins, SpanSkipped, SpanFreed DEF ObsNext

\* No request's span is the child of another request's, and each request that is over had
\* its span posted once, whatever is still alive when a thread takes its next request and
\* however many threads queue for the exporter (startSpan, releaseSpan, Span::end).
THEOREM OwnSpans == ObsSpec => []SpansAreSeparate
<1>1. ASSUME SpanInv PROVE SpansAreSeparate
  <2>1. ASSUME NEW c \in Filtered, NEW l \in lines, l.call = c PROVE SpanOver(c) /\ ~Posting(c)
    BY <1>1, <2>1 DEF SpanInv, LinesAfterSpans, Posting, LinesInv, LinesAreOver, Serving
  <2>. QED
    BY <1>1, <2>1 DEF SpanInv, PostedOnce, ParentsAreForeign, SpansAreSeparate
<1>2. SpanInv /\ OpenIsServed /\ [ObsNext]_obsVars => OpenIsServed'
  BY OpenNext
<1>. QED
  BY <1>1, <1>2, SpanInit, OpenInit, SpanNext, PTL DEF ObsSpec

-----------------------------------------------------------------------------
(***************************************************************************)
(* The metrics. The invariant types the series and says that a request's   *)
(* observation is open or over only once its span has begun.               *)
(***************************************************************************)

Buckets == 1..(Len(Bounds) + 1)

Done(k) == {c \in Calls : observed[c] = "done" /\ labels[c] = k}

SeriesTyped == series \in [Companies -> [requests : Nat, counts : [Buckets -> Nat]]]

ObservedTyped ==
  /\ observed \in [Calls -> {"no", "open", "done"}] /\ DOMAIN labels = Calls
  /\ \A c \in Calls :
       /\ observed[c] = "open" => labels[c] \in Companies
       /\ span[c] = "no" => observed[c] = "no"

CountsAgree ==
  \A k \in Companies :
    /\ IsFiniteSet(Done(k))
    /\ series[k].requests = Cardinality(Done(k))
    /\ Total(series[k].counts) = Cardinality(Done(k))

CountInv == LinesInv /\ SeriesTyped /\ ObservedTyped /\ CountsAgree

LEMMA BucketType ==
  ASSUME NEW latency
  PROVE  BucketOf(latency) \in Buckets
<1>. DEFINE B == {i \in 1..Len(Bounds) : latency <= Bounds[i]} \cup {Len(Bounds) + 1}
<1>1. Len(Bounds) \in Nat
  BY ObservabilityAssumption
<1>2. B \subseteq Buckets /\ B \in SUBSET Nat /\ B # {}
  BY <1>1 DEF Buckets
<1>. HIDE DEF B
<1>3. \E x \in B : \A y \in B : x <= y
  BY <1>2, Least
<1>4. Min(B) \in B
  BY <1>3 DEF Min
<1>. QED
  BY <1>2, <1>4 DEF BucketOf, B

\* One more observation in one bucket of one series.
LEMMA RecordedOne ==
  ASSUME SeriesTyped, NEW k \in Companies, NEW latency, recordRequest(k, latency)
  PROVE  /\ SeriesTyped'
         /\ \A j \in Companies :
              /\ series'[j].requests = series[j].requests + (IF j = k THEN 1 ELSE 0)
              /\ Total(series'[j].counts) = Total(series[j].counts) + (IF j = k THEN 1 ELSE 0)
<1>. DEFINE b == BucketOf(latency)
            old == series[k].counts
            new == [old EXCEPT ![b] = @ + 1]
<1>1. b \in Buckets /\ Len(Bounds) \in Nat
  BY BucketType, ObservabilityAssumption
<1>2. old \in [Buckets -> Nat]
  BY DEF SeriesTyped
<1>. HIDE DEF b
<1>3. new \in [Buckets -> Nat]
  BY <1>1, <1>2
<1>4. Total(new) = Total(old) + 1
  <2>. HIDE DEF old
  <2>. QED
    <3>1. /\ old \in Seq(Nat) /\ new \in Seq(Nat) /\ Len(new) = Len(old) /\ b \in 1..Len(old)
          /\ \A i \in 1..Len(old) : new[i] = old[i] + (IF i = b THEN 1 ELSE 0)
      BY <1>1, <1>2, <1>3 DEF Buckets
    <3>. HIDE DEF new
    <3>2. 1 \in Nat
      OBVIOUS
    <3>. QED
      BY <3>1, <3>2, TotalExcept
<1>5. series' = [series EXCEPT ![k] = [requests |-> series[k].requests + 1, counts |-> new]]
  <2>1. series \in [Companies -> [requests : Nat, counts : [Buckets -> Nat]]]
    BY DEF SeriesTyped
  <2>2. series' = [series EXCEPT ![k].requests = @ + 1, ![k].counts[b] = @ + 1]
    BY DEF recordRequest, b
  <2>3. /\ DOMAIN series' = Companies /\ \A j \in Companies : j # k => series'[j] = series[j]
        /\ series' = [j \in Companies |-> series'[j]]
    BY <2>1, <2>2
  <2>4. series'[k] = [requests |-> series[k].requests + 1,
                      counts |-> [series[k].counts EXCEPT ![b] = @ + 1]]
    BY <1>1, <2>1, <2>2
  <2>. QED
    BY <2>1, <2>3, <2>4
<1>. HIDE DEF new, old
<1>6. SeriesTyped'
  BY <1>3, <1>5 DEF SeriesTyped
<1>7. Total(old) \in Nat /\ \A j \in Companies : Total(series[j].counts) \in Nat
  <2>1. \A s \in Seq(Nat) : Total(s) \in Nat
    <3>. SUFFICES ASSUME NEW s \in Seq(Nat) PROVE Total(s) \in Nat
      OBVIOUS
    <3>. QED
      BY TotalAppend
  <2>2. \A f \in [Buckets -> Nat] : f \in Seq(Nat)
    BY <1>1 DEF Buckets
  <2>. QED
    BY <1>2, <2>1, <2>2 DEF SeriesTyped
<1>. QED
  BY <1>4, <1>5, <1>6, <1>7 DEF SeriesTyped, old

\* complete and ~RequestObservation: an observation that was open is over and counted.
LEMMA ObservationOver ==
  ASSUME CountInv, NEW c \in Calls, observed[c] = "open", NEW latency,
         recordRequest(labels[c], latency),
         observed' = [observed EXCEPT ![c] = "done"], UNCHANGED labels
  PROVE  SeriesTyped' /\ CountsAgree'
<1>. DEFINE k == labels[c]
<1>1. k \in Companies
  BY DEF CountInv, ObservedTyped
<1>2. /\ SeriesTyped'
      /\ \A j \in Companies :
           /\ series'[j].requests = series[j].requests + (IF j = k THEN 1 ELSE 0)
           /\ Total(series'[j].counts) = Total(series[j].counts) + (IF j = k THEN 1 ELSE 0)
  BY <1>1, RecordedOne DEF CountInv
<1>3. observed'[c] = "done" /\ \A d \in Calls : d # c => observed'[d] = observed[d]
  BY DEF CountInv, ObservedTyped
<1>4. c \notin Done(k) /\ Done(k)' = Done(k) \cup {c}
  BY <1>3 DEF Done
<1>5. \A j \in Companies : j # k => Done(j)' = Done(j)
  BY <1>3 DEF Done
<1>6. ASSUME NEW j \in Companies
      PROVE  /\ IsFiniteSet(Done(j)')
             /\ series'[j].requests = Cardinality(Done(j)')
             /\ Total(series'[j].counts) = Cardinality(Done(j)')
  <2>1. /\ IsFiniteSet(Done(j)) /\ series[j].requests = Cardinality(Done(j))
        /\ Total(series[j].counts) = Cardinality(Done(j)) /\ Cardinality(Done(j)) \in Nat
    BY FS_CardinalityType DEF CountInv, CountsAgree
  <2>2. CASE j = k
    <3>1. c \notin Done(j) /\ Done(j)' = Done(j) \cup {c}
      BY <1>3, <2>2 DEF Done
    <3>2. IsFiniteSet(Done(j)') /\ Cardinality(Done(j)') = Cardinality(Done(j)) + 1
      BY <2>1, <3>1, FS_AddElement
    <3>. QED
      BY <1>2, <2>1, <2>2, <3>2
  <2>3. CASE j # k
    BY <1>2, <1>5, <2>1, <2>3
  <2>. QED
    BY <2>2, <2>3
<1>. QED
  BY <1>2, <1>6 DEF CountsAgree

LEMMA CountInit == ObsInit => CountInv
<1>. SUFFICES ASSUME ObsInit PROVE CountInv
  OBVIOUS
<1>. USE ObservabilityAssumption
<1>1. Len(Bounds) + 1 \in Nat
  OBVIOUS
<1>2. SeriesTyped
  BY <1>1 DEF ObsInit, SeriesTyped, EmptySeries, Buckets
<1>3. ObservedTyped
  BY DEF ObsInit, ObservedTyped
<1>4. CountsAgree
  <2>1. \A k \in Companies : Done(k) = {}
    BY DEF ObsInit, Done
  <2>2. Total([i \in 1..(Len(Bounds) + 1) |-> 0]) = 0
    BY <1>1, TotalZero
  <2>3. \A k \in Companies : series[k].requests = 0 /\ Total(series[k].counts) = 0
    BY <2>2 DEF ObsInit, EmptySeries
  <2>. QED
    BY <2>1, <2>3, FS_EmptySet DEF CountsAgree
<1>. QED
  BY <1>2, <1>3, <1>4, LinesInit DEF CountInv

LEMMA CountNext == CountInv /\ [ObsNext]_obsVars => CountInv'
<1>. SUFFICES ASSUME CountInv, [ObsNext]_obsVars
     PROVE  CountInv'
  OBVIOUS
<1>. USE ObservabilityAssumption
<1>1. LinesInv' /\ DOMAIN span = Calls
  BY LinesNext DEF CountInv, LinesInv, FieldsTyped
<1>2. ASSUME UNCHANGED <<observed, labels, series>>,
             \A c \in Calls : span'[c] = "no" => span[c] = "no"
      PROVE  CountInv'
  BY <1>1, <1>2, ZenonT(30) DEF CountInv, SeriesTyped, ObservedTyped, CountsAgree, Done
<1>3. ASSUME NEW t \in Workers, NEW c \in Calls, DoFilter(t, c) PROVE CountInv'
  <2>1. /\ span[c] = "no" /\ observed' = [observed EXCEPT ![c] = "open"]
        /\ labels' = [labels EXCEPT ![c] = CompanyOf[c]] /\ span' = [span EXCEPT ![c] = "open"]
        /\ UNCHANGED series
    BY <1>3 DEF DoFilter
  <2>2. observed[c] = "no" /\ CompanyOf[c] \in Companies
    BY <2>1 DEF CountInv, ObservedTyped, Companies
  <2>3. ObservedTyped'
    BY <1>1, <2>1, <2>2 DEF CountInv, ObservedTyped
  <2>4. \A k \in Companies : Done(k)' = Done(k)
    BY <2>1, <2>2 DEF Done, CountInv, ObservedTyped
  <2>5. SeriesTyped' /\ CountsAgree'
    BY <2>1, <2>4 DEF CountInv, SeriesTyped, CountsAgree
  <2>. QED
    BY <1>1, <2>3, <2>5 DEF CountInv
<1>4. ASSUME NEW t \in Workers, NEW c \in Calls, SkipFilter(t, c) PROVE CountInv'
  BY <1>1, <1>2, <1>4 DEF SkipFilter
<1>5. ASSUME NEW t \in Workers, Record(t) PROVE CountInv'
  <2>. DEFINE c == at[t].call
  <2>1. c \in Calls /\ UNCHANGED <<labels, span>>
    BY <1>5 DEF Record, CountInv, LinesInv, ServedOnce, Serving
  <2>2. CASE observed[c] = "open"
    <3>1. PICK latency \in Latencies : recordRequest(labels[c], latency)
      BY <1>5, <2>2 DEF Record
    <3>2. observed' = [observed EXCEPT ![c] = "done"]
      BY <1>5, <2>2 DEF Record
    <3>3. SeriesTyped' /\ CountsAgree'
      BY <2>1, <2>2, <3>1, <3>2, ObservationOver
    <3>4. ObservedTyped'
      BY <2>1, <2>2, <3>2 DEF CountInv, ObservedTyped
    <3>. QED
      BY <1>1, <3>3, <3>4 DEF CountInv
  <2>3. CASE observed[c] # "open"
    BY <1>2, <1>5, <2>1, <2>3 DEF Record
  <2>. QED
    BY <2>2, <2>3
<1>6. ASSUME NEW c \in Calls, Free(c) PROVE CountInv'
  <2>1. /\ span[c] # "no" /\ span' = [span EXCEPT ![c] = "freed"]
        /\ UNCHANGED <<observed, labels, series>>
    BY <1>6 DEF Free
  <2>2. \A d \in Calls : span'[d] = "no" => span[d] = "no"
    BY <1>1, <2>1
  <2>. QED
    BY <1>2, <2>1, <2>2
<1>7. ASSUME NEW t \in Workers, Work(t), ~Record(t) PROVE CountInv'
  <2>1. UNCHANGED <<observed, labels, series>> /\ (UNCHANGED span \/ EndSpan(t))
    BY <1>7 DEF Work, RunHandler, EndSpan, LockExporter, Post, Release, LogLine
  <2>2. \A c \in Calls : span'[c] = "no" => span[c] = "no"
    BY <1>1, <2>1 DEF EndSpan
  <2>. QED
    BY <1>2, <2>1, <2>2
<1>8. CASE UNCHANGED obsVars
  BY <1>2, <1>8 DEF obsVars
<1>. QED
  BY <1>3, <1>4, <1>5, <1>6, <1>7, <1>8 DEF ObsNext

\* Every observation that is over is in one bucket of its own company's series, once, for
\* any buckets, companies and latencies, before and after its request has gone (complete,
\* ~RequestObservation, recordRequest).
THEOREM Counted == ObsSpec => []CountedOnce
<1>1. CountInv => CountedOnce
  BY DEF CountInv, CountsAgree, CountedOnce, Done
<1>. QED
  BY <1>1, CountInit, CountNext, PTL DEF ObsSpec

-----------------------------------------------------------------------------
(***************************************************************************)
(* The types of all three, in a behaviour about one of them. What the      *)
(* invariants above do not type yet is typed here.                         *)
(***************************************************************************)

FlagsTyped == timer \in BOOLEAN /\ cut \in BOOLEAN

SseTyped == BufferInv /\ FlagsTyped

LEMMA SseTypedInit == SseInit => SseTyped
BY BufferInit DEF SseInit, SseTyped, FlagsTyped

LEMMA FlushFlags ==
  ASSUME FlagsTyped, NEW isReady, NEW queue, NEW bytes, Flush(isReady, queue, bytes)
  PROVE  cut' \in BOOLEAN
BY DEF Flush, FlagsTyped

LEMMA EnqueueFlags ==
  ASSUME FlagsTyped, NEW isReady, NEW e, Enqueue(isReady, e)
  PROVE  cut' \in BOOLEAN
<1>1. CASE Overflows(e)
  BY <1>1 DEF Enqueue, FlagsTyped
<1>2. CASE ~Overflows(e)
  BY <1>2, FlushFlags DEF Enqueue
<1>. QED
  BY <1>1, <1>2

LEMMA SseTypedNext == SseTyped /\ [SseNext]_sseVars => SseTyped'
<1>. SUFFICES ASSUME SseTyped, [SseNext]_sseVars PROVE SseTyped'
  OBVIOUS
<1>1. BufferInv'
  BY BufferNext DEF SseTyped
<1>2. FlagsTyped
  BY DEF SseTyped
<1>3. CASE SendEvent
  <2>1. cut' \in BOOLEAN
    <3>1. CASE closed
      BY <1>2, <1>3, <3>1 DEF SendEvent, FlagsTyped
    <3>2. CASE ~closed
      BY <1>2, <1>3, <3>2, EnqueueFlags DEF SendEvent
    <3>. QED
      BY <3>1, <3>2
  <2>2. timer' \in BOOLEAN
    BY <1>3 DEF SendEvent, CancelledIfClosed
  <2>. QED
    BY <1>1, <2>1, <2>2 DEF SseTyped, FlagsTyped
<1>4. CASE Close
  BY <1>1, <1>2, <1>4 DEF Close, CancelledIfClosed, SseTyped, FlagsTyped
<1>5. CASE OnStreamReady
  <2>1. cut' \in BOOLEAN
    BY <1>2, <1>5, EnqueueFlags DEF OnStreamReady
  <2>2. timer' \in BOOLEAN
    BY <1>5 DEF OnStreamReady
  <2>. QED
    BY <1>1, <2>1, <2>2 DEF SseTyped, FlagsTyped
<1>6. CASE Heartbeat
  <2>1. cut' \in BOOLEAN
    BY <1>2, <1>6, FlushFlags DEF Heartbeat
  <2>2. timer' \in BOOLEAN
    BY <1>6 DEF Heartbeat, CancelledIfClosed
  <2>. QED
    BY <1>1, <2>1, <2>2 DEF SseTyped, FlagsTyped
<1>7. CASE UNCHANGED sseVars
  BY <1>1, <1>2, <1>7 DEF sseVars, SseTyped, FlagsTyped
<1>. QED
  BY <1>3, <1>4, <1>5, <1>6, <1>7 DEF SseNext

LEMMA SseTypedImplies == SseTyped => SseTypeOK
BY DEF SseTyped, FlagsTyped, BufferInv, Framed, SseTypeOK

LabelsTyped ==
  /\ labels \in [Calls -> Companies \cup {Nil}]
  /\ exporter \in Workers \cup {Nil}

ObsTyped == SpanInv /\ OpenIsServed /\ LabelsTyped

LEMMA ObsTypedInit == ObsInit => ObsTyped
BY SpanInit, OpenInit DEF ObsInit, ObsTyped, LabelsTyped

LEMMA ObsTypedNext == ObsTyped /\ [ObsNext]_obsVars => ObsTyped'
<1>. SUFFICES ASSUME ObsTyped, [ObsNext]_obsVars PROVE ObsTyped'
  OBVIOUS
<1>1. SpanInv' /\ OpenIsServed'
  BY SpanNext, OpenNext DEF ObsTyped
<1>2. LabelsTyped
  BY DEF ObsTyped
<1>. SUFFICES LabelsTyped'
  BY <1>1 DEF ObsTyped
<1>3. CASE UNCHANGED obsVars
  BY <1>2, <1>3 DEF obsVars, LabelsTyped
<1>4. ASSUME NEW t \in Workers, Work(t) PROVE LabelsTyped'
  BY <1>2, <1>4 DEF Work, RunHandler, Record, EndSpan, LockExporter, Post, Release, LogLine,
                    LabelsTyped
<1>5. ASSUME NEW t \in Workers, NEW c \in Calls, DoFilter(t, c) \/ SkipFilter(t, c)
      PROVE  LabelsTyped'
  <2>1. CompanyOf[c] \in Companies
    BY DEF Companies
  <2>. QED
    BY <1>2, <1>5, <2>1 DEF DoFilter, SkipFilter, LabelsTyped
<1>6. ASSUME NEW c \in Calls, Free(c) PROVE LabelsTyped'
  BY <1>2, <1>6 DEF Free, LabelsTyped
<1>. QED
  BY <1>3, <1>4, <1>5, <1>6 DEF ObsNext

LEMMA ObsTypedImplies == ObsTyped => ObsTypeOK
<1>. SUFFICES ASSUME ObsTyped PROVE ObsTypeOK
  OBVIOUS
<1>1. LabelsTyped /\ FieldsTyped /\ StacksAreOwn
  BY DEF ObsTyped, SpanInv, LinesInv
<1>2. ASSUME NEW t \in Workers PROVE stack[t] \in Seq(Filtered)
  BY <1>1 DEF StacksAreOwn
<1>. QED
  BY <1>1, <1>2 DEF LabelsTyped, FieldsTyped, ObsTypeOK

ApiTyped == GatewayTypeOK /\ SseTyped /\ ObsTyped

LEMMA ApiTypedNext == ApiTyped /\ [ApiNext]_apiVars => ApiTyped'
<1>. SUFFICES ASSUME ApiTyped, [ApiNext]_apiVars PROVE ApiTyped'
  OBVIOUS
<1>1. [GatewayNext]_gatewayVars /\ [SseNext]_sseVars /\ [ObsNext]_obsVars
  BY DEF ApiNext, apiVars
<1>. QED
  BY <1>1, NextTyped, SseTypedNext, ObsTypedNext DEF ApiTyped

\* The variables of the gateway, of a stream and of what requests leave behind keep the
\* types of the code's fields, whichever part a behaviour is about, for any threads,
\* requests, providers, buffer and companies.
THEOREM ApiTypes == ApiSpec => []ApiTypeOK
<1>1. ApiInit => ApiTyped
  BY InitTyped, SseTypedInit, ObsTypedInit DEF ApiInit, ApiTyped
<1>2. ApiTyped => ApiTypeOK
  BY SseTypedImplies, ObsTypedImplies DEF ApiTyped, ApiTypeOK
<1>. QED
  BY <1>1, <1>2, ApiTypedNext, PTL DEF ApiSpec
=============================================================================
