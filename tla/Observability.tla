--------------------------- MODULE Observability ---------------------------
(***************************************************************************)
(* SuperAPI: what a request leaves behind. RequestIdMiddleware opens an    *)
(* observation, a span and a log context; main's post-handling advice,     *)
(* called by drogon with the response on the same thread, closes them.     *)
(* Threads share the metrics (a lock), the exporter (a mutex held over a   *)
(* blocking Post) and nothing else; span stacks and log contexts belong to *)
(* a thread. The request object, and with it the span, may outlive the     *)
(* handler: drogon frees it when it likes (Free).                          *)
(* main.cpp registers the middleware but no route names it yet: as wired,  *)
(* Filtered is empty.                                                      *)
(***************************************************************************)
EXTENDS Naturals, Sequences, SequencesExt, FiniteSets, FiniteSetsExt, SeqMeasures

CONSTANTS
  Workers,      \* drogon's loop threads
  Calls,        \* the requests
  Filtered,     \* those whose route names the middleware
  CompanyOf,    \* per request, what resolveCompany makes of its headers
  RouteProvider,   \* per request, the provider of its route, Nil outside the providers
  Traceparents, \* traceparent headers: how many parts, the first, the lengths of two
  Latencies,    \* latencies observed
  Bounds,       \* kDefaultBuckets, a sequence
  Enabled,      \* Tracer::enabled_: config/otel.yaml has an endpoint
  Nil           \* nothing: no request, no parent, an empty string

ASSUME ObservabilityAssumption ==
  /\ Filtered \subseteq Calls
  /\ Bounds \in Seq(Nat) /\ Latencies \subseteq Nat
  /\ Enabled \in BOOLEAN
  /\ DOMAIN CompanyOf = Calls /\ DOMAIN RouteProvider = Calls

Companies == {CompanyOf[c] : c \in Calls} \cup {RouteProvider[c] : c \in Calls}

VARIABLES
  at,           \* per thread, the request it serves and how far it got
  labels,       \* per request, its observation's company
  tag,          \* per request, its attribute observability.company
  observed,     \* per request, what became of its observation
  span,         \* per request, what became of its span
  parent,       \* per request, the parent of its span
  stack,        \* per thread, spanStack: weak references, oldest first
  logContext,   \* per thread, threadLogContext
  series,       \* per company, metricsBySeries_
  exporter,     \* who holds exportMutex_
  exported,     \* per request, how often its span was posted
  lines         \* the "request complete" lines: who logged, what the line said

obsVars == <<at, labels, tag, observed, span, parent, stack, logContext, series,
             exporter, exported, lines>>

NoContext == [id |-> Nil, company |-> Nil]

EmptySeries == [requests |-> 0, counts |-> [i \in 1..(Len(Bounds) + 1) |-> 0]]

ObsInit ==
  /\ at = [t \in Workers |-> [step |-> "idle", call |-> Nil]]
  /\ labels = [c \in Calls |-> Nil]
  /\ tag = [c \in Calls |-> Nil]
  /\ observed = [c \in Calls |-> "no"]
  /\ span = [c \in Calls |-> "no"]
  /\ parent = [c \in Calls |-> Nil]
  /\ stack = [t \in Workers |-> <<>>]
  /\ logContext = [t \in Workers |-> NoContext]
  /\ series = [k \in Companies |-> EmptySeries]
  /\ exporter = Nil
  /\ exported = [c \in Calls |-> 0]
  /\ lines = {}

Go(t, step) == at' = [at EXCEPT ![t].step = step]

-----------------------------------------------------------------------------
(* Before the handler *)

extractTraceparent(h) ==
  IF h.parts >= 4 /\ h.version = "00" /\ h.trace = 32 /\ h.span = 16 THEN "remote" ELSE Nil

\* currentSpan and releaseSpan drop the references that lead to no span any more.
Alive(refs) == Selected(refs, {c \in Calls : span[c] \in {"open", "ended"}})

\* startSpan: the caller's span is the parent, else the newest one of this thread.
ParentFor(t, h) ==
  IF extractTraceparent(h) # Nil THEN extractTraceparent(h)
  ELSE IF Alive(stack[t]) # <<>> THEN Last(Alive(stack[t])) ELSE Nil

\* doFilter. Company and id come from the request's headers or are made up; the
\* request itself stands for its id.
DoFilter(t, c) ==
  /\ at[t].step = "idle" /\ c \in Filtered /\ span[c] = "no"
  /\ at' = [at EXCEPT ![t] = [step |-> "handler", call |-> c]]
  /\ observed' = [observed EXCEPT ![c] = "open"]
  /\ span' = [span EXCEPT ![c] = "open"]
  /\ \E h \in Traceparents : parent' = [parent EXCEPT ![c] = ParentFor(t, h)]
  /\ stack' = [stack EXCEPT ![t] = Append(Alive(@), c)]
  /\ labels' = [labels EXCEPT ![c] = CompanyOf[c]]
  /\ tag' = [tag EXCEPT ![c] = CompanyOf[c]]
  /\ logContext' = [logContext EXCEPT ![t] = [id |-> c, company |-> CompanyOf[c]]]
  /\ UNCHANGED <<series, exporter, exported, lines>>

\* A route that does not name the middleware goes straight to its handler.
SkipFilter(t, c) ==
  /\ at[t].step = "idle" /\ c \in Calls \ Filtered /\ span[c] = "no"
  /\ at' = [at EXCEPT ![t] = [step |-> "handler", call |-> c]]
  /\ span' = [span EXCEPT ![c] = "none"]
  /\ UNCHANGED <<labels, tag, observed, parent, stack, logContext, series,
                 exporter, exported, lines>>

\* The handler answers, or throws and drogon answers. A provider's route puts its
\* provider in the company's place, /health, /version and /metrics leave it.
RunHandler(t) ==
  /\ at[t].step = "handler"
  /\ tag' = [tag EXCEPT ![at[t].call] =
       IF RouteProvider[at[t].call] # Nil THEN RouteProvider[at[t].call] ELSE @]
  /\ Go(t, "record")
  /\ UNCHANGED <<labels, observed, span, parent, stack, logContext, series,
                 exporter, exported, lines>>

-----------------------------------------------------------------------------
(* The post-handling advice *)

\* The first bucket the latency fits in, or the one after them all.
BucketOf(latency) ==
  Min({i \in 1..Len(Bounds) : latency <= Bounds[i]} \cup {Len(Bounds) + 1})

recordRequest(k, latency) ==
  series' = [series EXCEPT
    ![k].requests = @ + 1,
    ![k].counts[BucketOf(latency)] = @ + 1]

\* RequestObservation::complete: the first call counts.
Record(t) ==
  LET c == at[t].call IN
  /\ at[t].step = "record"
  /\ IF observed[c] = "open"
     THEN /\ observed' = [observed EXCEPT ![c] = "done"]
          /\ \E latency \in Latencies : recordRequest(labels[c], latency)
     ELSE UNCHANGED <<observed, series>>
  /\ Go(t, "end")
  /\ UNCHANGED <<labels, tag, span, parent, stack, logContext, exporter, exported, lines>>

\* Span::end up to the export: the first call ends the span.
EndSpan(t) ==
  LET c == at[t].call IN
  /\ at[t].step = "end"
  /\ IF span[c] = "open"
     THEN /\ span' = [span EXCEPT ![c] = "ended"]
          /\ Go(t, IF Enabled THEN "export" ELSE "release")
     ELSE /\ Go(t, "log")
          /\ UNCHANGED span
  /\ UNCHANGED <<labels, tag, observed, parent, stack, logContext, series,
                 exporter, exported, lines>>

\* exportSpan: one thread at a time, and the Post has no timeout.
LockExporter(t) ==
  /\ at[t].step = "export" /\ exporter = Nil
  /\ exporter' = t
  /\ Go(t, "post")
  /\ UNCHANGED <<labels, tag, observed, span, parent, stack, logContext, series,
                 exported, lines>>

\* Faulty variant: the exporter is not given back.
PostAndHold(t) ==
  /\ at[t].step = "post"
  /\ exported' = [exported EXCEPT ![at[t].call] = @ + 1]
  /\ Go(t, "release")
  /\ UNCHANGED <<labels, tag, observed, span, parent, stack, logContext, series,
                 exporter, lines>>

Post(t) ==
  /\ at[t].step = "post"
  /\ exported' = [exported EXCEPT ![at[t].call] = @ + 1]
  /\ exporter' = Nil
  /\ Go(t, "release")
  /\ UNCHANGED <<labels, tag, observed, span, parent, stack, logContext, series, lines>>

\* Faulty variant: an ended span stays on its thread's stack as long as it is alive.
releaseNothing(refs, c) == Alive(refs)

\* The references up to the span's own are cleaned, those after it are kept.
releaseSpan(refs, c) ==
  LET older == {i \in DOMAIN refs : refs[i] = c}
      n == IF older = {} THEN Len(refs) + 1 ELSE Min(older) IN
  Alive(SubSeq(refs, 1, n - 1)) \o SubSeq(refs, n + 1, Len(refs))

Release(t) ==
  /\ at[t].step = "release"
  /\ stack' = [stack EXCEPT ![t] = releaseSpan(@, at[t].call)]
  /\ Go(t, "log")
  /\ UNCHANGED <<labels, tag, observed, span, parent, logContext, series,
                 exporter, exported, lines>>

\* updateLogContext: what is empty leaves what was there.
Updated(context, id, company) ==
  [id |-> IF id # Nil THEN id ELSE context.id,
   company |-> IF company # Nil THEN company ELSE context.company]

\* Faulty variant: the context stays for the thread's next request.
Kept(context) == context

\* clearLogContext.
Cleared(context) == NoContext

\* The line is logged with the thread's context, which is cleared after it. An
\* unfiltered request has an id only if its client sent one.
LogLine(t) ==
  LET c == at[t].call IN
  /\ at[t].step = "log"
  /\ \E id \in {c} \cup (IF c \in Filtered THEN {} ELSE {Nil}) :
       lines' = lines \cup {[call |-> c, said |-> Updated(logContext[t], id, tag[c])]}
  /\ logContext' = [logContext EXCEPT ![t] = Cleared(@)]
  /\ at' = [at EXCEPT ![t] = [step |-> "idle", call |-> Nil]]
  /\ UNCHANGED <<labels, tag, observed, span, parent, stack, series, exporter, exported>>

\* Faulty variant: the destructor records an observation that is over once more.
FreeAndRecord(c) ==
  /\ span[c] \notin {"no", "freed"}
  /\ \A t \in Workers : at[t].call # c
  /\ span' = [span EXCEPT ![c] = "freed"]
  /\ IF observed[c] = "done" THEN recordRequest(labels[c], 0) ELSE UNCHANGED series
  /\ UNCHANGED <<at, labels, tag, observed, parent, stack, logContext, exporter, exported, lines>>

\* The request object goes, and with it its observation and its span. The advice has been
\* through with it: their destructors find the one completed and the other ended, and the
\* threads' stacks are left with a reference that has expired.
Free(c) ==
  /\ span[c] \notin {"no", "freed"}
  /\ \A t \in Workers : at[t].call # c
  /\ span' = [span EXCEPT ![c] = "freed"]
  /\ UNCHANGED <<at, labels, tag, observed, parent, stack, logContext, series,
                 exporter, exported, lines>>

Work(t) ==
  \/ RunHandler(t) \/ Record(t) \/ EndSpan(t) \/ LockExporter(t) \/ Post(t)
  \/ Release(t) \/ LogLine(t)

ObsNext ==
  \/ \E t \in Workers : Work(t) \/ \E c \in Calls : DoFilter(t, c) \/ SkipFilter(t, c)
  \/ \E c \in Calls : Free(c)

\* A thread in a handler keeps running; that a Post ends is the collector's promise.
ObsSpec == ObsInit /\ [][ObsNext]_obsVars /\ \A t \in Workers : WF_obsVars(Work(t))

-----------------------------------------------------------------------------
(* Properties *)

ObsTypeOK ==
  /\ \A t \in Workers :
       /\ at[t].call \in Calls \cup {Nil}
       /\ stack[t] \in Seq(Filtered)
       /\ logContext[t] \in [id : Calls \cup {Nil}, company : Companies \cup {Nil}]
  /\ labels \in [Calls -> Companies \cup {Nil}] /\ tag \in [Calls -> Companies \cup {Nil}]
  /\ exporter \in Workers \cup {Nil}

\* Every observation that is over is in exactly one bucket of its own company's series,
\* and stays counted once when its request goes (complete, ~RequestObservation).
CountedOnce ==
  \A k \in Companies :
    LET done == Cardinality({c \in Calls : observed[c] = "done" /\ labels[c] = k}) IN
    /\ series[k].requests = done
    /\ Total(series[k].counts) = done

\* No request's span is the child of another request's, although the spans of requests
\* that are over may still be alive when their thread takes the next one, and each
\* request that is over had its span posted once (startSpan, releaseSpan, Span::end).
SpansAreSeparate ==
  \A c \in Filtered :
    /\ parent[c] \in {Nil, "remote"}
    /\ exported[c] <= 1
    /\ Enabled /\ (\E l \in lines : l.call = c) => exported[c] = 1

\* The line of a request carries no other request's id or company, on a thread that
\* serves filtered and unfiltered requests in turn (setLogContext, clearLogContext).
LinesAreOwn ==
  \A l \in lines : l.said.id \in {l.call, Nil} /\ l.said.company = tag[l.call]

\* As long as the collector answers, threads that queue for the exporter all get it
\* and every request a thread has taken gets its line.
AdviceCompletes ==
  \A t \in Workers, c \in Calls :
    at[t].call = c ~> \E l \in lines : l.call = c
=============================================================================
