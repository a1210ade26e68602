---------------------------- MODULE MCRelayEdge ----------------------------
(***************************************************************************)
(* Small instances of the parts of FileRelay around its core: the server's *)
(* listeners with two control connections, the client's main loop over two *)
(* files, and the common codecs with 3-bit bytes. A behaviour is about one *)
(* of them.                                                                *)
(***************************************************************************)
EXTENDS Listeners, ClientPipeline, WireCodec, TLC

VARIABLE part

edgeVars == <<part, listenerVars, pipelineVars, codecVars>>

EdgeInit ==
  /\ part \in {"listeners", "pipeline", "codec"}
  /\ ListenersInit /\ PipelineInit /\ CodecInit
  /\ part # "pipeline" => There = {} /\ socket

EdgeNext ==
  /\ UNCHANGED part
  /\ \/ part = "listeners" /\ ListenersNext /\ UNCHANGED <<pipelineVars, codecVars>>
     \/ part = "pipeline" /\ PipelineNext /\ UNCHANGED <<listenerVars, codecVars>>
     \/ part = "codec" /\ CodecNext /\ UNCHANGED <<listenerVars, pipelineVars>>

\* Main of the client runs when the behaviour is about it; the other actions that are
\* treated fairly are not enabled in a part the behaviour is not about.
EdgeSpec ==
  /\ EdgeInit /\ [][EdgeNext]_edgeVars
  /\ ListenersFairness
  /\ WF_pipelineVars(part = "pipeline" /\ MainStep)
  /\ WF_pipelineVars(MeterStops) /\ WF_pipelineVars(Pop)

EdgeTypeOK == ListenersTypeOK /\ PipelineTypeOK

-----------------------------------------------------------------------------
TwoSizes == <<2, 3>>

OnlyTheFirstChanges == ("a" :> 2) @@ ("b" :> 1)

OneByteMagic == <<5>>

TwoDigests == {<<1, 2>>, <<7, 0>>}

ThreeNames == {<<>>, <<3>>, <<3, 1>>}
=============================================================================
