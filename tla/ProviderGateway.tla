-------------------------- MODULE ProviderGateway --------------------------
(***************************************************************************)
(* SuperAPI: a request to /<company>/... or /xai/... from the handler that *)
(* drogon calls on one of its loop threads to the answer, through the      *)
(* provider's circuit breaker, the upstream calls and their retries.       *)
(* The handler is synchronous: its thread serves nothing else meanwhile.   *)
(* Threads share the breakers only; each lock section is one step, with    *)
(* the reading of the clock just before it. rng_ is shared too, without a  *)
(* lock: whatever it yields, the delay is one computeBackoff allows.       *)
(*                                                                         *)
(* Time is counted in ticks: `left` of a breaker is what remains of its    *)
(* cooldown, `wait` of a thread what remains of its backoff.               *)
(***************************************************************************)
EXTENDS Naturals, FiniteSets

CONSTANTS
  Threads,      \* drogon's loop threads
  Requests,     \* the requests that arrive, each once
  Shapes,       \* what a request may ask for, see Shape
  Providers,    \* the keys of the registry's factories
  Settings,     \* per provider, what buildConfig read (see Setting)
  BaseBackoff,  \* base_backoff_ms, in ticks
  MaxBackoff,   \* max_backoff_ms, in ticks
  Nobody,       \* a company whose provider the registry does not hold
  Watched       \* one provider, any: the one whose breaker the properties watch

Operations == {"chat", "embeddings", "images", "asr", "tts", "video",
               "listModels", "batches", "jobStatus"}

Shape == [route : Providers \cup {"xai", Nobody},  \* the company, or /xai/
          vendor : {"grok", "zhipu", "other"},     \* vendor= or X-Vendor
          op : Operations,
          id : BOOLEAN,                            \* the {id} of jobs/{id}
          body : {"object", "array", "invalid"},
          stream : BOOLEAN,                        \* in the query or the body
          transport : {"ws", "sse", "none"},       \* transport=
          accept : SUBSET {"text/event-stream", "websocket"}]

Setting == [dryRun : BOOLEAN, baseUrl : BOOLEAN, apiKeyEnv : BOOLEAN,
            apiKey : BOOLEAN, retries : Nat, threshold : Nat, cooldown : Nat]

ASSUME GatewayAssumption ==
  /\ IsFiniteSet(Threads)
  /\ Shapes \subseteq Shape
  /\ Settings \in [Providers -> Setting]
  /\ BaseBackoff \in Nat /\ MaxBackoff \in Nat
  /\ Nobody \notin Providers
  /\ Watched \in Providers

VARIABLES
  breaker,      \* HttpProviderBase::breaker_ of every provider
  thread,       \* what each loop thread is doing
  answer        \* what each request was answered with

gatewayVars == <<breaker, thread, answer>>

\* statusFromErrorType: the type of an error decides, its code does not.
StatusOf(type) ==
  CASE type = "auth_error" -> 401
    [] type = "validation_error" -> 400
    [] type = "dry_run" -> 503
    [] OTHER -> 502

\* An error of this type as the answer (buildErrorPayload), in JSON or as a stream.
ErrorAnswer(type, form) == [status |-> StatusOf(type), form |-> form]

Idle == [phase |-> "idle"]

NoAnswer == [status |-> 0, form |-> "none"]

-----------------------------------------------------------------------------
(* Routing: what the handler decides before it reaches a provider *)

\* resolveTransport: which stream the client gets, if it asked for one.
Transport(s) ==
  IF ~s.stream THEN "none"
  ELSE IF s.transport # "none" THEN s.transport
  ELSE IF s.accept = {"websocket"} THEN "ws"
  ELSE "sse"

PostOperations == Operations \ {"listModels", "jobStatus"}

\* The xai routes never look at `stream`; the GET routes answer before it is read.
FormOf(s) ==
  IF s.route # "xai" /\ s.op \in PostOperations /\ Transport(s) = "sse"
  THEN "sse" ELSE "json"

ProviderOf(s) ==
  IF s.route # "xai" THEN s.route ELSE IF s.vendor = "grok" THEN "xai" ELSE "zhipu"

Unconfigured(s) == ProviderOf(s) \notin Providers

NoId(s) == s.op = "jobStatus" /\ ~s.id

Unreadable(s) == s.op \in PostOperations /\ s.body = "invalid"

\* What registerEndpoint's handler answers on its own: provider_not_configured,
\* missing_job_id, invalid_json, an exception from isMember on a body that is an array,
\* unsupported_transport.
CompanyRefusal(s) ==
  IF Unconfigured(s) THEN [status |-> 503, form |-> "json"]
  ELSE IF NoId(s) \/ Unreadable(s) THEN ErrorAnswer("validation_error", "json")
  ELSE IF s.op \in PostOperations /\ s.body = "array" THEN [status |-> 500, form |-> "json"]
  ELSE IF s.op \in PostOperations /\ Transport(s) = "ws" THEN ErrorAnswer("validation_error", "json")
  ELSE NoAnswer

\* The xai handler wants a vendor first and never looks into the body.
XaiRefusal(s) ==
  IF s.vendor = "other" THEN ErrorAnswer("validation_error", "json")
  ELSE IF Unconfigured(s) THEN [status |-> 503, form |-> "json"]
  ELSE IF NoId(s) \/ Unreadable(s) THEN ErrorAnswer("validation_error", "json")
  ELSE NoAnswer

Refusal(s) == IF s.route = "xai" THEN XaiRefusal(s) ELSE CompanyRefusal(s)

-----------------------------------------------------------------------------
(* The state *)

Busy == [phase : {"admit", "calling", "backoff"}, req : Requests, form : {"sse", "json"},
         provider : Providers, attempt : Nat, wait : Nat]

Stuck == [phase : {"stuck"}, req : Requests]

GatewayTypeOK ==
  /\ breaker \in [Providers -> [failures : Nat, open : BOOLEAN, left : Nat]]
  /\ thread \in [Threads -> {Idle} \cup Stuck \cup Busy]
  /\ answer \in [Requests -> [status : Nat, form : {"sse", "json", "none"}]]

GatewayInit ==
  /\ breaker = [p \in Providers |-> [failures |-> 0, open |-> FALSE, left |-> 0]]
  /\ thread = [t \in Threads |-> Idle]
  /\ answer = [r \in Requests |-> NoAnswer]

InHand(r) == \E t \in Threads : thread[t] # Idle /\ thread[t].req = r

Answered(r) == answer[r] # NoAnswer

-----------------------------------------------------------------------------
(* The end of an operation *)

\* Faulty variant: the thread keeps the request it has answered in hand.
ReplyAndKeep(t, a, big) ==
  /\ thread' = [thread EXCEPT ![t].phase = "idle"]
  /\ answer' = [answer EXCEPT ![thread[t].req] = a]

\* The callback, then the events of a streamed answer. A text of more than the
\* 64 KiB an SseStream buffers makes enqueueUnlocked call sendError under its own
\* mutex: the thread never returns, and the response waiting behind it never leaves.
Reply(t, a, big) ==
  IF big /\ a.form = "sse"
  THEN /\ thread' = [thread EXCEPT ![t] = [phase |-> "stuck", req |-> thread[t].req]]
       /\ UNCHANGED answer
  ELSE /\ thread' = [thread EXCEPT ![t] = Idle]
       /\ answer' = [answer EXCEPT ![thread[t].req] = a]

ReplyError(t, type, big) == Reply(t, ErrorAnswer(type, thread[t].form), big)

\* An exception leaves the handler; drogon answers for it.
Throw(t) == Reply(t, [status |-> 500, form |-> "json"], FALSE)

\* Faulty variant: the breaker opens one failure too late.
CountFailureLate(p) ==
  LET n == breaker[p].failures + 1 IN
  breaker' = [breaker EXCEPT ![p] =
    IF n > Settings[p].threshold
    THEN [failures |-> n, open |-> TRUE, left |-> Settings[p].cooldown]
    ELSE [@ EXCEPT !.failures = n]]

CountFailure(p) ==
  LET n == breaker[p].failures + 1 IN
  breaker' = [breaker EXCEPT ![p] =
    IF n >= Settings[p].threshold
    THEN [failures |-> n, open |-> TRUE, left |-> Settings[p].cooldown]
    ELSE [@ EXCEPT !.failures = n]]

ResetBreaker(p) ==
  breaker' = [breaker EXCEPT ![p] = [failures |-> 0, open |-> FALSE, left |-> 0]]

-----------------------------------------------------------------------------
(* The steps of a handler *)

\* The route's handler is called; it answers itself or turns to its provider.
Receive(t, r, s) ==
  /\ thread[t] = Idle
  /\ ~Answered(r) /\ ~InHand(r)
  /\ IF Refusal(s) # NoAnswer
     THEN /\ answer' = [answer EXCEPT ![r] = Refusal(s)]
          /\ UNCHANGED thread
     ELSE /\ thread' = [thread EXCEPT ![t] =
               [phase |-> "admit", req |-> r, form |-> FormOf(s),
                provider |-> ProviderOf(s), attempt |-> 0, wait |-> 0]]
          /\ UNCHANGED answer
  /\ UNCHANGED breaker

\* What performHttpRequest checks before it looks at the breaker: the type of the
\* error, if one of base_url, api_key_env and the key is missing.
Precheck(c) ==
  CASE c.dryRun -> "dry_run"
    [] ~c.dryRun /\ ~(c.baseUrl /\ c.apiKeyEnv) -> "provider_error"
    [] ~c.dryRun /\ c.baseUrl /\ c.apiKeyEnv /\ ~c.apiKey -> "auth_error"
    [] OTHER -> "none"

Setup(t) == Precheck(Settings[thread[t].provider])

Misconfigured(t) ==
  /\ thread[t].phase = "admit"
  /\ Setup(t) # "none"
  /\ ReplyError(t, Setup(t), FALSE)
  /\ UNCHANGED breaker

Ready(t) == thread[t].phase = "admit" /\ Setup(t) = "none"

\* circuit_open is a code of the type provider_error.
ShutOut(t) ==
  /\ Ready(t)
  /\ breaker[thread[t].provider].open /\ breaker[thread[t].provider].left > 0
  /\ ReplyError(t, "provider_error", FALSE)
  /\ UNCHANGED breaker

Admit(t) ==
  LET p == thread[t].provider IN
  /\ Ready(t)
  /\ breaker[p].open => breaker[p].left = 0
  /\ breaker' = [breaker EXCEPT ![p] =
       IF @.open THEN [@ EXCEPT !.open = FALSE, !.failures = 0] ELSE @]
  /\ thread' = [thread EXCEPT ![t].phase = "calling"]
  /\ UNCHANGED answer

-----------------------------------------------------------------------------
(* What the upstream service makes of one attempt *)

\* computeBackoff: any of the delays its jitter may give.
Lesser(a, b) == IF a <= b THEN a ELSE b

computeBackoff(attempt) ==
  {delay \in 0..MaxBackoff : \E jitter \in 0..BaseBackoff :
     delay = Lesser(MaxBackoff, Lesser(MaxBackoff, BaseBackoff * 2 ^ attempt) + jitter)}

Retryable == {"network_error", "busy"}              \* no response; 429 or 5xx
Final == {"denied", "rejected", "invalid_json"}     \* 401 or 403; other; unreadable
Failing == Retryable \cup Final

\* No usage: the operation adds one of zeros and a note. A usage that is no object
\* makes extractUsage throw, an answer that is no object performJsonOperation.
Answering == {"ok", "no_usage"}
Throwing == {"bad_usage", "array"}

Calling(t) == thread[t].phase = "calling"

Backoff(t) ==
  \E delay \in computeBackoff(thread[t].attempt) :
    thread' = [thread EXCEPT ![t].phase = "backoff", ![t].wait = delay]

\* Faulty variant: every attempt that fails counts, not every operation.
RetryCounted(t) ==
  /\ Calling(t)
  /\ thread[t].attempt < Settings[thread[t].provider].retries
  /\ Backoff(t)
  /\ CountFailure(thread[t].provider)
  /\ UNCHANGED answer

Retry(t) ==
  /\ Calling(t)
  /\ thread[t].attempt < Settings[thread[t].provider].retries
  /\ Backoff(t)
  /\ UNCHANGED <<breaker, answer>>

\* Faulty variant: the attempts are not counted.
WakeUncounted(t) ==
  /\ thread[t].phase = "backoff"
  /\ thread[t].wait = 0
  /\ thread' = [thread EXCEPT ![t].phase = "calling"]
  /\ UNCHANGED <<breaker, answer>>

Wake(t) ==
  /\ thread[t].phase = "backoff"
  /\ thread[t].wait = 0
  /\ thread' = [thread EXCEPT ![t].phase = "calling", ![t].attempt = @ + 1]
  /\ UNCHANGED <<breaker, answer>>

FailureOf(o) == IF o = "denied" THEN "auth_error" ELSE "provider_error"

Fail(t, o, big) ==
  /\ Calling(t)
  /\ o \in Retryable => thread[t].attempt = Settings[thread[t].provider].retries
  /\ big => o \in {"denied", "rejected", "busy"}
  /\ CountFailure(thread[t].provider)
  /\ ReplyError(t, FailureOf(o), big)

Succeed(t, o, big) ==
  /\ Calling(t)
  /\ ResetBreaker(thread[t].provider)
  /\ Reply(t, [status |-> 200, form |-> thread[t].form], big)

\* The breaker is reset before the answer's shape is found out, but after its usage is.
Break(t, o) ==
  /\ Calling(t)
  /\ IF o = "array" THEN ResetBreaker(thread[t].provider) ELSE UNCHANGED breaker
  /\ Throw(t)

Handle(t) ==
  \/ Misconfigured(t) \/ ShutOut(t) \/ Admit(t) \/ Retry(t) \/ Wake(t)
  \/ \E big \in BOOLEAN :
       \/ \E o \in Failing : Fail(t, o, big)
       \/ \E o \in Answering : Succeed(t, o, big)
  \/ \E o \in Throwing : Break(t, o)

\* A tick of the steady clock.
Tick ==
  /\ \/ \E p \in Providers : breaker[p].left > 0
     \/ \E t \in Threads : thread[t] \in Busy /\ thread[t].wait > 0
  /\ breaker' = [p \in Providers |->
       [breaker[p] EXCEPT !.left = IF @ > 0 THEN @ - 1 ELSE 0]]
  /\ thread' = [t \in Threads |->
       IF thread[t] \in Busy /\ thread[t].wait > 0
       THEN [thread[t] EXCEPT !.wait = @ - 1] ELSE thread[t]]
  /\ UNCHANGED answer

GatewayNext ==
  \/ Tick
  \/ \E t \in Threads :
       \/ \E r \in Requests, s \in Shapes : Receive(t, r, s)
       \/ Handle(t)

\* An upstream call ends because cpr gives it timeout_ms, a sleep because time passes,
\* a handler because its thread runs. Nothing makes a request arrive.
GatewayFairness ==
  /\ WF_gatewayVars(Tick)
  /\ \A t \in Threads : WF_gatewayVars(Handle(t))

GatewaySpec == GatewayInit /\ [][GatewayNext]_gatewayVars /\ GatewayFairness

-----------------------------------------------------------------------------
(* Properties *)

\* The operations of provider p that were admitted and are not over.
Inside(p) ==
  {t \in Threads : /\ thread[t].phase \in {"calling", "backoff"}
                   /\ thread[t].provider = p}

\* A breaker is open exactly when a failure brought its count to the threshold:
\* no order of failures, late successes and expiries leaves it open with the count
\* below, or shut out with nobody to blame (performHttpRequest's four lock sections).
BreakerConsistent ==
  \A p \in Providers :
    breaker[p].open <=> breaker[p].failures > 0 /\ breaker[p].failures >= Settings[p].threshold

\* What a failing provider can be made to suffer before its breaker holds: no more
\* failures than the threshold and one for each other thread that was already inside.
OvershootBounded ==
  \A p \in Providers :
    breaker[p].failures + Cardinality(Inside(p))
      < Cardinality(Threads) + (IF Settings[p].threshold > 0 THEN Settings[p].threshold ELSE 1)

\* The breaker of a provider, behind routes, threads and retries, is a CircuitBreaker:
\* one failure per operation however often it was retried, none for an exception,
\* nobody admitted while it is cooling.
Breaker == INSTANCE CircuitBreaker WITH
  Callers <- Threads,
  Threshold <- Settings[Watched].threshold,
  Cooldown <- Settings[Watched].cooldown,
  inside <- Inside(Watched),
  count <- breaker[Watched].failures,
  open <- breaker[Watched].open,
  rest <- breaker[Watched].left

ImplementsBreaker == Breaker!Spec

\* A request a handler has taken is answered, whatever the provider does, unless its
\* thread is stuck in an event too large for its stream.
RequestAnswered ==
  \A t \in Threads, r \in Requests :
    (thread[t] \in Busy /\ thread[t].req = r) ~> (Answered(r) \/ thread[t].phase = "stuck")
=============================================================================
