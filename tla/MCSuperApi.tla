----------------------------- MODULE MCSuperApi -----------------------------
(***************************************************************************)
(* Small instances of the parts of SuperAPI. A behaviour is about one of   *)
(* them: two loop threads before one provider that answers and one without *)
(* a key; a stream and its handler; two loop threads and what three        *)
(* requests leave in metrics, traces and logs.                             *)
(***************************************************************************)
EXTENDS ProviderGateway, SseStream, Observability, TLC

VARIABLE part

apiVars == <<part, gatewayVars, sseVars, obsVars>>

ApiInit ==
  /\ part \in {"gateway", "stream", "observability"}
  /\ GatewayInit /\ ObsInit
  /\ SseInit /\ (part # "stream" => script = <<Event("error", 1), Closing>>)

ApiNext ==
  /\ UNCHANGED part
  /\ \/ part = "gateway" /\ GatewayNext /\ UNCHANGED <<sseVars, obsVars>>
     \/ part = "stream" /\ SseNext /\ UNCHANGED <<gatewayVars, obsVars>>
     \/ part = "observability" /\ ObsNext /\ UNCHANGED <<gatewayVars, sseVars>>

\* No action that is treated fairly is enabled in a part the behaviour is not about.
ApiSpec ==
  /\ ApiInit /\ [][ApiNext]_apiVars
  /\ GatewayFairness
  /\ \A t \in Workers : WF_obsVars(Work(t))

ApiTypeOK == GatewayTypeOK /\ SseTypeOK /\ ObsTypeOK

-----------------------------------------------------------------------------
Ask(route, op) ==
  [route |-> route, vendor |-> "other", op |-> op, id |-> TRUE, body |-> "object",
   stream |-> FALSE, transport |-> "none", accept |-> {}]

SomeShapes ==
  {Ask("openai", "jobStatus"), Ask("nobody", "chat"),
   [Ask("openai", "tts") EXCEPT !.stream = TRUE, !.accept = {"text/event-stream"}],
   [Ask("xai", "batches") EXCEPT !.vendor = "grok"]}

Working == [dryRun |-> FALSE, baseUrl |-> TRUE, apiKeyEnv |-> TRUE, apiKey |-> TRUE,
            retries |-> 1, threshold |-> 1, cooldown |-> 1]

SomeSettings == "openai" :> Working @@ "xai" :> [Working EXCEPT !.apiKey = FALSE]

Parent(length) == [parts |-> 4, version |-> "00", trace |-> length, span |-> 16]

SomeTraceparents == {Parent(32), Parent(31)}

SomeCompanies == "c1" :> "a" @@ "c2" :> "b" @@ "c3" :> "b"

SomeProviders == "c1" :> "b" @@ "c2" :> "none" @@ "c3" :> "none"

TwoBounds == <<1, 3>>

\* The measures of sequences are those of the libraries.
ASSUME MeasuresAssumption ==
  \A s \in BoundedSeq(0..2, 4) :
    /\ \A wanted \in SUBSET (0..2) :
         Selected(s, wanted) = SelectSeq(s, LAMBDA x : x \in wanted)
    /\ Total(s) = FoldSeq(+, 0, s)
=============================================================================
