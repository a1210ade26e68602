--------------------------- MODULE ClientPipeline ---------------------------
(***************************************************************************)
(* FileRelay client: main's loop from the directory watcher through the    *)
(* compressor and the chunker to the chunk queue, with what it announces   *)
(* on the system channel, and the shutdown that a signal asks for. Files   *)
(* change meanwhile. The queue is the channel FifoChannel specifies and    *)
(* BoundedQueue implements; the sender's workers appear as whoever pops.   *)
(*                                                                         *)
(* A version of a file stands for its bytes, its size and its write time:  *)
(* an edit the watcher cannot see (same size, same time) is no version.    *)
(***************************************************************************)
EXTENDS Naturals, Sequences, SequencesExt, FiniteSets, FiniteSetsExt, SeqMeasures

CONSTANTS
  Paths,        \* the files of watch_dir
  SizeOf,       \* per version, its size when compressed
  MaxVersion,   \* bound: per path, its last version
  MaxLost,      \* bound: messages a socket fails to send
  PayloadSize,  \* --chunk-size
  QueueCapacity \* --queue-capacity

ASSUME PipelineAssumption ==
  /\ SizeOf \in Seq(Nat \ {0}) /\ MaxVersion \in [Paths -> DOMAIN SizeOf]
  /\ MaxLost \in Nat
  /\ PayloadSize \in Nat \ {0} /\ QueueCapacity \in Nat \ {0}

VARIABLES
  file,         \* per path, its version and whether it is there
  stopping,     \* g_stop_requested
  meter,        \* the thread of queue_size_loop
  phase,        \* where main is
  known,        \* known_files_: per path the version last seen, 0 if none
  listed,       \* the entries the directory iteration has yet to come to
  updated,      \* what scan has found and main has not processed
  half,         \* the version the first bytes of the file being read came from
  chunks,       \* the chunks of the file in hand that are not queued yet
  unread,       \* the paths whose last version known could not be read
  socket,       \* whether the system channel has one
  published,    \* published_meta_: the FILE_METAs handed to it
  messages,     \* what was sent on it
  lost,         \* what was to be sent, and was not
  accepted, delivered, closed   \* the queue, as FifoChannel has it

worldVars == <<file, stopping, meter>>
scanVars == <<known, listed, updated>>
channelVars == <<socket, published, messages, lost>>
fileVars == <<half, chunks, unread, channelVars>>
queueVars == <<accepted, delivered, closed>>
pipelineVars == <<worldVars, phase, scanVars, fileVars, queueVars>>

Versions == DOMAIN SizeOf

\* A file may change under its reader: its bytes are those of two versions then.
Content == Versions \X Versions

CompressedSize(content) == Max({SizeOf[content[1]], SizeOf[content[2]]})

\* Faulty variant: the tail that fills no chunk is cut off.
FullChunks(size) == size \div PayloadSize

ChunkCount(size) == (size + PayloadSize - 1) \div PayloadSize

\* Chunker::operator(): all chunks are full but the last.
Chunker(p, content) ==
  LET size == CompressedSize(content)
      total == ChunkCount(size) IN
  [i \in 1..total |->
    [path |-> p, sha |-> content, index |-> i - 1, total |-> total,
     size |-> Min({PayloadSize, size - (i - 1) * PayloadSize})]]

Chunks == UNION {Range(Chunker(p, c)) : p \in Paths, c \in Content}

Queue == INSTANCE FifoChannel WITH
  Values <- Chunks,
  Capacity <- QueueCapacity,
  accepted <- accepted, delivered <- delivered, closed <- closed

There == {p \in Paths : file[p].there}

PipelineInit ==
  /\ file \in [Paths -> [version : {1}, there : BOOLEAN]]
  /\ stopping = FALSE /\ meter = "running"
  /\ phase = "scanning"
  /\ known = [p \in Paths |-> 0] /\ listed = There /\ updated = <<>>
  /\ half = 0 /\ chunks = <<>> /\ unread = {}
  /\ socket \in BOOLEAN /\ published = {} /\ messages = {} /\ lost = {}
  /\ Queue!Init

-----------------------------------------------------------------------------
(* The world around main *)

\* A file is written, comes back as something new, or goes.
Edit(p) ==
  /\ \/ /\ file[p].version < MaxVersion[p]
        /\ file' = [file EXCEPT ![p] = [version |-> @.version + 1, there |-> TRUE]]
     \/ /\ file[p].there
        /\ file' = [file EXCEPT ![p].there = FALSE]
  /\ UNCHANGED <<stopping, meter, phase, scanVars, fileVars, queueVars>>

Signal ==
  /\ ~stopping
  /\ stopping' = TRUE
  /\ UNCHANGED <<file, meter, phase, scanVars, fileVars, queueVars>>

\* A worker of the sender pops a chunk, until Sender::stop has joined them all.
Pop ==
  /\ phase \notin {"stopping channels", "done"}
  /\ Queue!Deliver
  /\ UNCHANGED <<worldVars, phase, scanVars, fileVars>>

\* queue_size_loop looks for a stop after each report and its sleep.
MeterStops ==
  /\ meter = "asked"
  /\ meter' = "ended"
  /\ UNCHANGED <<file, stopping, phase, scanVars, fileVars, queueVars>>

-----------------------------------------------------------------------------
(* scan *)

\* An entry that is known and looks the same, or has gone unnoticed, is passed over.
ScanEntry(p) ==
  /\ phase = "scanning" /\ p \in listed
  /\ listed' = listed \ {p}
  /\ IF p \in There /\ known[p] # file[p].version
     THEN known' = [known EXCEPT ![p] = file[p].version] /\ updated' = Append(updated, p)
     ELSE UNCHANGED <<known, updated>>
  /\ UNCHANGED <<worldVars, phase, fileVars, queueVars>>

\* Faulty variant: an exception also takes what was found before it.
ScanEndsEmpty ==
  /\ phase = "scanning"
  /\ listed = {} \/ \E p \in listed : p \notin There
  /\ updated' = IF listed = {} THEN updated ELSE <<>>
  /\ listed' = {}
  /\ phase' = "next"
  /\ UNCHANGED <<worldVars, known, fileVars, queueVars>>

\* The iteration ends, or the sizing of an entry that has gone throws and so ends it;
\* what was found before that is kept.
ScanEnds ==
  /\ phase = "scanning"
  /\ listed = {} \/ \E p \in listed : p \notin There
  /\ listed' = {}
  /\ phase' = "next"
  /\ UNCHANGED <<worldVars, known, updated, fileVars, queueVars>>

-----------------------------------------------------------------------------
(* One file after the other *)

Current == Head(updated)

Open ==
  /\ phase = "next" /\ updated # <<>> /\ Current \in There
  /\ half' = file[Current].version
  /\ phase' = "reading"
  /\ UNCHANGED <<worldVars, scanVars, chunks, unread, channelVars, queueVars>>

\* The compressor throws if the file cannot be opened or read to its end; main logs it
\* and goes on, and the watcher does not report that version again.
CannotRead ==
  /\ (phase = "next" /\ updated # <<>>) \/ phase = "reading"
  /\ unread' = unread \cup {Current}
  /\ phase' = "processed"
  /\ UNCHANGED <<worldVars, scanVars, half, chunks, channelVars, queueVars>>

\* The rest of the bytes are the same file's, or what it has become; the digest is of
\* the bytes that were compressed, whichever these were.
Compress ==
  /\ phase = "reading"
  /\ \E rest \in {half} \cup {file[p].version : p \in There \cap {Current}} :
       chunks' = Chunker(Current, <<half, rest>>)
  /\ unread' = unread \ {Current}
  /\ phase' = "announcing"
  /\ UNCHANGED <<worldVars, scanVars, half, channelVars, queueVars>>

Meta(chunk) == [type |-> "FILE_META", path |-> chunk.path, sha |-> chunk.sha, n |-> chunk.total]
PatchMap(chunk) ==
  [type |-> "FILE_PATCH_MAP", path |-> chunk.path, sha |-> chunk.sha, n |-> chunk.index]

\* send_message: without a socket nothing is sent, and a failing send is only logged.
Send(told) ==
  \E sent \in SUBSET told :
    /\ IF socket THEN Cardinality(lost \cup (told \ sent)) <= MaxLost ELSE sent = {}
    /\ messages' = messages \cup sent
    /\ lost' = lost \cup (told \ sent)

\* notify_file_chunk_enqueued, before the push. The FILE_META of a path and digest is
\* marked as published first: if it is lost it is never sent again.
Announce ==
  LET chunk == Head(chunks) IN
  /\ phase = "announcing" /\ chunks # <<>>
  /\ Send({PatchMap(chunk)} \cup ({Meta(chunk)} \ published))
  /\ published' = published \cup {Meta(chunk)}
  /\ phase' = "pushing"
  /\ UNCHANGED <<worldVars, scanVars, half, chunks, unread, socket, queueVars>>

\* push waits for room whatever the signal handler has set. Nobody closes the queue
\* before main does, so it never fails.
Push ==
  /\ phase = "pushing"
  /\ Queue!Accept(Head(chunks))
  /\ chunks' = Tail(chunks)
  /\ phase' = "announcing"
  /\ UNCHANGED <<worldVars, scanVars, half, unread, channelVars>>

FileDone ==
  /\ phase = "announcing" /\ chunks = <<>>
  /\ phase' = "processed"
  /\ UNCHANGED <<worldVars, scanVars, fileVars, queueVars>>

\* Faulty variant: the directory is scanned once.
ScanOnce == [processed |-> "next", next |-> "sleeping", sleeping |-> "next"]

NextPhase == [processed |-> "next", next |-> "sleeping", sleeping |-> "scanning"]

\* Faulty variant: a signal is noticed after a file only.
ObeyAfterFile(next) == IF stopping /\ phase = "processed" THEN "closing" ELSE next

Obey(next) == IF stopping THEN "closing" ELSE next

\* g_stop_requested is looked at after each file, after the last one and after the sleep.
Proceed ==
  /\ \/ /\ phase = "processed"
        /\ updated' = Tail(updated)
        /\ UNCHANGED listed
     \/ /\ phase = "next" /\ updated = <<>>
        /\ UNCHANGED <<updated, listed>>
     \/ /\ phase = "sleeping"
        /\ listed' = IF stopping THEN {} ELSE There
        /\ UNCHANGED updated
  /\ phase' = Obey(NextPhase[phase])
  /\ half' = 0
  /\ UNCHANGED <<worldVars, known, chunks, unread, channelVars, queueVars>>

-----------------------------------------------------------------------------
(* queue.close, sender.stop, system_channels.stop *)

CloseQueue ==
  /\ phase = "closing"
  /\ Queue!Close
  /\ phase' = "stopping sender"
  /\ UNCHANGED <<worldVars, scanVars, fileVars>>

\* When Sender::stop returns, if it does, and with what left in the queue, is Sender's
\* subject.
SenderStopped ==
  /\ phase = "stopping sender"
  /\ phase' = "stopping channels" /\ meter' = "asked"
  /\ UNCHANGED <<file, stopping, scanVars, fileVars, queueVars>>

ChannelsStopped ==
  /\ phase = "stopping channels" /\ meter = "ended"
  /\ phase' = "done"
  /\ UNCHANGED <<worldVars, scanVars, fileVars, queueVars>>

MainStep ==
  \/ \E p \in Paths : ScanEntry(p)
  \/ ScanEnds \/ Open \/ CannotRead \/ Compress \/ Announce \/ Push \/ FileDone \/ Proceed
  \/ CloseQueue \/ ChannelsStopped

PipelineNext ==
  \/ MainStep \/ SenderStopped \/ Signal \/ Pop \/ MeterStops
  \/ \E p \in Paths : Edit(p)

\* Main and the reporting thread run; the workers keep popping as long as they get
\* chunks away, which is the assumption. Nobody has to edit, or to send a signal, and
\* Sender::stop need not return.
PipelineFairness ==
  WF_pipelineVars(MainStep) /\ WF_pipelineVars(MeterStops) /\ WF_pipelineVars(Pop)

PipelineSpec == PipelineInit /\ [][PipelineNext]_pipelineVars /\ PipelineFairness

-----------------------------------------------------------------------------
(* Properties *)

PipelineTypeOK ==
  /\ file \in [Paths -> [version : Versions, there : BOOLEAN]]
  /\ known \in [Paths -> {0} \cup Versions]
  /\ listed \subseteq Paths /\ updated \in Seq(Paths) /\ unread \subseteq Paths
  /\ half \in {0} \cup Versions
  /\ Range(chunks \o accepted) \subseteq Chunks

\* What the chunks of an upload hold, by one of its chunks.
UploadSize(i) ==
  LET c == accepted[i] IN
  Total([k \in 1..c.total |-> accepted[i - c.index + k - 1].size])

\* The queue gets each file's bytes whole and in order, one file after the other, cut at
\* the payload size with nothing lost at a boundary, and no chunk before its file and its
\* place were handed to the system channel, which sent them or lost them (Chunker, main's
\* loop over the chunks, published_meta_).
UploadsAreWhole ==
  LET Upload(i) == {j \in DOMAIN accepted : j - accepted[j].index = i - accepted[i].index} IN
  \A i \in DOMAIN accepted :
    LET c == accepted[i] IN
    /\ \A j \in Upload(i) : accepted[j].path = c.path /\ accepted[j].sha = c.sha
    /\ {accepted[j].index : j \in Upload(i)} = 0..(Cardinality(Upload(i)) - 1)
    /\ IF Cardinality(Upload(i)) = c.total
       THEN UploadSize(i) = CompressedSize(c.sha)
       ELSE phase \in {"announcing", "pushing"} /\ Len(accepted) \in Upload(i)
    /\ {Meta(c), PatchMap(c)} \subseteq messages \cup lost

\* The chunk of p queued last, if there is one, is of these bytes.
LastUploaded(p, content) ==
  LET own == {i \in DOMAIN accepted : accepted[i].path = p} IN
  own # {} /\ accepted[Max(own)].sha = content

\* Between two scans a file that still is what the watcher last saw has been queued with
\* exactly those bytes, last of all, unless reading it failed: an edit at any moment
\* before or while it was read is noticed later (scan, Compressor::operator()).
KnownIsUploaded ==
  phase = "sleeping" =>
    \A p \in There \ unread :
      known[p] = file[p].version => LastUploaded(p, <<known[p], known[p]>>)

\* A version that lasts is seen, even when scans end early because of files that go, which
\* they do finitely often (MaxVersion).
ChangeIsSeen ==
  \A p \in Paths :
    (p \in There /\ known[p] # file[p].version)
      ~> (p \notin There \/ known[p] = file[p].version \/ stopping)

\* Sender::stop does not keep main for ever. It may: Sender's StopReturns fails.
SenderReturns == []<>(phase # "stopping sender")

\* A signal makes main close the queue, wherever main is, as long as workers take chunks;
\* and it ends the client if Sender::stop returns (g_stop_requested, main's last lines).
SignalEnds ==
  /\ stopping ~> closed
  /\ SenderReturns => (stopping ~> phase = "done")
=============================================================================
