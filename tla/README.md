# Super Voice: specification and proofs

TLA+ models of this repository: the FileRelay server and client
(`src/Backend/FileRelay_.server`) and the SuperAPI server
(`src/Backend/SuperAPI._server`).  Paths below are relative to `src/Backend`.

## 1. Inventory

| Part | State | Operations | What is hard |
|---|---|---|---|
| Server storage, `Server/src/storage.hpp` | `payloads_` (entry per upload), default TTL; on disk `patches/<id>/patch_<i>.bin[.tmp]`, `ids.list` | `store_chunk`, `mark_published`, `update_ttl`, `cleanup_expired`, constructor | only the table is locked, the disk is not; concurrent deliveries; restart |
| Server assembler, `Server/src/assembler.hpp` | `files/<name>.part`, `files/<name>` | `assemble` | shared temporary name, crash between steps |
| Data connections and cleanup, `Server/src/main.cpp` | thread locals, TTL atomic | one detached thread per chunk; sweep every 30 s | age check and removal are two steps |
| Control plane, `Server/src/control.hpp` | the three copies of the TTL, number of listeners | `SET_TTL`, `SCALE_DATA`, `PING`, `STATUS` | non-atomic propagation |
| Listeners, `Server/src/listeners.hpp` | acceptors, their threads, one mutex | `start`, `stop`, `update_data_listener_count`, `accept_loop` | joining a thread with the mutex held |
| Chunk queue, `Client/src/queue.hpp` | `queue_`, `closed_`, two condition variables | `push`, `pop`, `close` | lost wakeups, closing |
| Sender, `Client/src/sender.hpp` | worker, connections with their own event loop, retry queue, in-flight count | `run`, `async_send_chunk`, success and failure handlers, `stop` | wakeups without the mutex, retries, shutdown |
| Watcher, chunker, compressor, `Client/src` | `known_files_`; none; none | `scan`; the split; compression and digest | files that change while they are scanned and read |
| System channels, `Client/src/system_channels.hpp` | `published_meta_`, the reporting thread | `notify_file_chunk_enqueued`, `start`, `stop` | order of announcement and push |
| Client main, `Client/src/main.cpp` | stop flag, the pipeline | scan, compress, split, announce, push, shut down | a signal anywhere, a queue that is full |
| Common library, `common/*.hpp` | none | codecs, CRC-32, SHA-256 | boundaries (used by neither program) |
| HTTP providers, `SuperAPI._server/src/providers` | one circuit breaker per provider, a random generator | `performHttpRequest` | check, call and count are separate steps of many threads |
| Routes, `src/providers.cpp` | none after start-up | `registerEndpoint`'s handler, the `/xai` handler | which error becomes which answer in which form |
| SSE streams, `src/http/SSE.cpp` | pending frames and their size, readiness, closed flag, timer | `sendJsonEvent`, `sendDone`, `onStreamReady`, heartbeat, `close` | re-entrant locking, closing before ready |
| Metrics, tracing, request ids, log context, `src/core`, `src/middleware`, `src/logging.cpp` | series; span stack per thread, exporter mutex; context per thread | `doFilter`, `complete`, `startSpan`, `end`, `exportSpan`, the post-handling advice | what a request leaves on its thread, objects that outlive their request |
| WebSocket session, environment, start-up | constants after start-up; the session is used by no route | | no interleavings of interest |

How they interact: the client's main thread finds a stable file, compresses and
splits it and pushes the chunks on the bounded queue; the sender's worker pops
them and hands each to one of its connections.  On the server every data
connection carries one chunk and has a thread of its own, which stores the chunk
and, when the table says that the upload is complete, assembles and publishes
it.  The cleanup thread removes what is too old; a control connection changes the
TTL all of them use, or the number of data listeners, whose acceptor threads start
all these connection threads.  In SuperAPI a loop thread of the framework calls a
request's filter, handler and post-handling advice one after the other; the handler
calls its provider and waits, so that as many operations as there are threads are
inside a provider at a time and share its breaker.  An answer that is to be streamed
goes through an `SseStream`, which the framework gives its response stream at a moment
of its own.

What makes each part correct:

* storage and assembler: a published file is one whole upload; only verified
  payloads are stored; an upload is assembled by exactly one thread as soon as it
  is complete; `ids.list` agrees with the table; nothing outlives its TTL, nothing
  is removed before it;
* queue: a bounded FIFO channel, no lost wakeup, close drains and releases;
* sender: every accepted chunk is sent or dropped after its last attempt, slots
  are never leaked, `stop` returns;
* listeners: whenever nobody rescales, exactly the wanted acceptors run, each with its
  thread; a context never goes while its thread uses it; no command waits for ever for
  the mutex;
* watcher, chunker, pipeline: a file is split into chunks that concatenate to it, every
  version that lasts is queued with its own bytes, a signal ends the pipeline in order;
* breaker: it opens at the threshold and only there, lets nobody in while it rests, and an
  operation counts once however often it is retried; every request is answered;
* SSE: events leave in order and completely once the stream is there, the bytes counted
  are the bytes waiting, nothing is left behind by a close;
* metrics, tracing, logging: a request is counted once, under its own company; no span is
  the child of a stranger; no line carries another request's identity;
* codecs of the common library: decoding what was encoded gives it back, a damaged header
  or a cut frame is refused, both SHA-256 pad alike.

## 2. Modules

| Module | What it is |
|---|---|
| `RelayServer` | storage, assembler, data connection threads, cleanup thread, `SET_TTL`, crashes, failing system calls, time |
| `MCRelayServer` | the small instances of it |
| `RelayServerProofs` | its theorems for whatever clients send |
| `RelayDeliveryProofs` | its theorems for clients that do not send a chunk again while it is on its way |
| `FifoChannel` | abstract specification: a bounded FIFO channel that can be closed |
| `BoundedQueue` | `queue.hpp`, shown to implement `FifoChannel` |
| `MCBoundedQueue` | its small instance |
| `BoundedQueueProofs` | its theorems |
| `Sender` | `sender.hpp`: worker, connections, retry queue, slots, `stop`, with `main` as its environment; takes the queue to be the channel `BoundedQueue` implements |
| `SenderProofs` | its theorems: types; where a chunk is; slots and the end of the worker |
| `Listeners` | `listeners.hpp` and the control connections of `control.hpp` |
| `ClientPipeline` | the client's `main` with watcher, compressor, chunker and system channel, composed with the queue as `FifoChannel` (INSTANCE) |
| `WireCodec` | `common/bytes.hpp`, `common/protocol.hpp` and the SHA-256 of `compressor.hpp` |
| `MCRelayEdge` | small instances of these three, one of them per behaviour |
| `RelayEdgeProofs` | theorems of `Listeners` and `ClientPipeline`, and the types of the composition |
| `WireCodecProofs` | theorems of `WireCodec` |
| `CircuitBreaker` | abstract specification: what a breaker promises, with no request, thread or retry |
| `ProviderGateway` | `providers.cpp` and `HttpProviderBase.cpp`: routes, breaker, attempts, backoff, answers; implements `CircuitBreaker` |
| `SseStream` | `http/SSE.cpp` with the handler that writes and the loop that announces and beats |
| `Observability` | metrics, spans, the exporter and log contexts of requests |
| `MCSuperApi` | small instances of these three, one of them per behaviour |
| `SuperApiProofs` | theorems of `ProviderGateway`, `SseStream` and `Observability`, and the types of the composition |
| `SeqMeasures` | recursion that can be proved about: a step repeated, a step folded over a sequence, the elements of a set a sequence has, the sum of its numbers |
| `SeqMeasureTheorems` | that they exist, and what one more step or element makes of them |

### RelayServer

State and code: `payloads` is `Storage::payloads_`, `default_ttl` its
`default_ttl_rep_`, `ttl_seconds` the atomic of `main`; `dirs`, `tmps`, `patches`,
`manifests` are the directories `patches/<id>` and the `.tmp` files, patch files
and `ids.list` in them; `parts`, `files` are `files/<name>.part` and
`files/<name>`.  A connection thread `h` has a program counter `pc[h]`, its chunk,
the record `store_chunk` returned, and one open descriptor `fd[h]`.

Atomicity: a critical section of the storage mutex is one step (`UpdateEntry`,
`MarkPublished`, `CleanupExpired`, `UpdateEntryTtls`); every other system call
(`mkdir`, `open`, write with fsync, `rename`, `unlink`) is a step of its
own, the assembler's `remove_all` is two (the files, then the directory), and every other thread may act in between.  A thread goes through

    Receive, CreateDir, OpenTmp, WriteTmp, RenameTmp, UpdateEntry,
    AssembleOpen, AssembleChunk ..., AssembleDone, Publish (or AbortAssembly),
    RemovePatches, RemovePatchDir, MarkPublished, Reply.

The file system is modelled by inodes: `fd[h]` says under which kind of name the
thread's inode is reachable now.  A rename takes the descriptors of other threads
along, `O_TRUNC` empties the file they are writing, and after an unlink they write
into a file nobody will see.  That is what makes the shared `.tmp` and `.part`
names dangerous, so it is modelled instead of an atomic "write file".

Data: a payload is a function of the upload and the index, so a patch file is
"empty", "full" or "corrupt" and an output is the sequence of the pieces
`<<file_id, index>>`; what the zstd stream decoder does with input that does not
continue its stream is left open (`Decompress`, external).  The clients of `RelayServer` send the
header the server reads (`main.cpp:290-342`); the repository's own client writes another one
(`sender.hpp:266-271`), which the server refuses, so the two programs are modelled each with
the peer it was written for.  Ages are counted in
units of time and not told apart once they exceed every TTL.

Abstractions to know of: the header is read in one step with the payload
(`ReceiveFails` is any connection that ends early or is refused);
the client's TTL of a chunk is a field of its header; `remove_all` takes what is in a
directory in one step, and if it fails it fails at once, without a part removed.  The
assembler calls it without the mutex (`assembler.hpp:143`), so whatever was written between
`RemovePatches` and `RemovePatchDir` makes it leave the directory.  The sweep calls it with the
mutex (`storage.hpp:193`) and it is one step: only the unlocked opens and renames of
`store_chunk` could come between its halves, and the entry of such a directory is back in the
table at the end of the same `store_chunk`.

### BoundedQueue

One step per critical section: a waiting thread is asleep on its condition
variable (`"waiting"`) until a notification or a spurious wakeup makes it `"ready"`
to take the mutex and evaluate its predicate again.  `close` sets the flag under
the lock and notifies the two condition variables in two later steps.
`accepted` and `delivered` are history variables: the values for which `push`
returned true and those `pop` returned.  They are the refinement mapping to
`FifoChannel`.

### Sender

`worker` is the thread in `run()`, with its place in the loop, the task (chunk and
attempt) in its hand and the connection it uses; `up` the connections with an open
socket and a running event loop; `ops[k]` the sends dispatched to connection `k`'s
strand, not started ("posted") or started ("writing"); `handler[t]` the completion
handler that thread `t` runs: a runner (`1..Connections`) or the worker (`0`), which
runs a connection's event loop itself while it connects (`sender.hpp:239-240`).

`on_chunk_failure` and `release_slot` are split where they take and leave a mutex:
queue the retry, release the slot, notify `retry_cv_`.  The worker's wait on
`retry_cv_` is split where the lost wakeup is: `Doze` evaluates the predicate,
`FallAsleep` releases the mutex and sleeps.  `inflight_cv_` needs no such split: the count
is changed under the mutex its waiter holds, and the stop flag, which is not, is seen
after the next release.

A failing write calls `close()`, which stops the connection's event loop; the other
sends of that connection stay in `ops[k]` with nobody to run them, until the worker
reconnects `k` (`RunLeftover`).  A completion that was cut off calls `close()` again
and takes the new socket from under `ensure_connected`; what follows is undefined
in the code (an option is set on a socket that no longer exists) and is modelled
by what asio does for a closed socket, an exception.  `sender.hpp` uses the member
`work_guard` under the name `work_guard_`; the model takes the one to mean the
other.  Left out: the metrics window, the number of connect attempts within one
call, and the bytes: two writes on one connection at a time are possible in the
model as in the code, how their bytes mix is not followed.

### Listeners

`owner` is the holder of `mutex_`; `call[t]` says where main or a control connection is:
which acceptor it starts, closes or joins next.  Every acceptor handled is a step, so a
loop may be anywhere (`check` of `running`, `enter`, `blocked` in accept, `none`) when its
acceptor is closed.  A `refused` acceptor is a context whose port could not be bound.
`accept` returns for a connection or because the system wakes it; whether closing the
acceptor does that differs between systems, so it is a step nothing forces.

### ClientPipeline

A file is a version number (its bytes, size and time; an edit that keeps size and time is
none) and whether it is there; `Edit` may happen between any two steps of main.  A reading
starts in one version and ends in the same or a later one, so the bytes of an upload are
a pair of versions, and their digest stands for them.  `known` is `known_files_`, `updated` what
one scan returned, `chunks` what is left of the file in hand.  `push` waits for room whatever
the signal handler has set: a signal is obeyed as fast as the workers take chunks.
`socket` says whether the system channel came to have one; without it nothing is sent, and with it
a send may fail (`Send`), which is only logged.  `messages` is what went out and `lost` what
did not; a `FILE_META` is in `published` either way and is not sent again.  `SenderStopped` is the
return of `Sender::stop`, and has no fairness: `sender_stop` shows that it need not come.
A version whose reading fails is not tried again until the file changes (`unread`), which
`KnownIsUploaded` excepts.  A `--chunk-size` of 0 divides by zero and is excluded by
`PipelineAssumption`.

### WireCodec

The codecs are functions over sequences of byte values, with the width of a byte and of
the words as constants.  A byte is a number; a word of the CRC is the sequence of its bits,
lowest first, so that exclusive or and shift are functions of positions and can be proved
about without bit operators; the loops of the code are folds (`SeqMeasures`).  A behaviour encodes one frame, perhaps damages it, and `Decoded` is
what the receiver makes of it; or it feeds a message piece by piece to both SHA-256 and
takes the digest, twice.  A digest stands for the blocks that were compressed; the
compression function is left out.

### ProviderGateway and CircuitBreaker

`thread[t]` is a loop thread: idle, in front of the breaker (`admit`), in an upstream call
(`calling`) or between two (`backoff`), or `stuck` in a stream that jammed.  The four lock
sections of `performHttpRequest` are `ShutOut`/`Admit`, `Succeed`, and `Fail`; the clock is a
count of the ticks left.  Settings are what `buildConfig` read at start-up, shapes what a
request may ask for: route, vendor, operation, body, stream, transport, Accept.  `Refusal` is
everything a handler answers without its provider, in the order of the code.  The answer
kept per request is its status and form.

`CircuitBreaker` knows callers, a count and a rest.  The refinement maps `inside` to the
threads in `calling` or `backoff` of the watched provider; retries and everything other
providers do are stutters.

### SseStream

The handler's calls are a script, one of the two the routes use; `OnStreamReady`, `Heartbeat`
and a refused frame come whenever they like.  `jammed` is the self-deadlock of the overflow:
no step of the stream is possible after it.  `Flush` adds and takes off the bytes of the frames as
`flushUnlocked` does, so that a counter that drifts is a behaviour of a faulty variant.

### Observability

`at[t]` is the request a thread serves and how far it got through filter, handler and
advice.  `span`, `observed` and `parent` belong to the request, whose object `Free` destroys at
any moment after the advice has run, on any thread: the destructors then find a completed observation
and an ended span, and their own completion and export, for a request that never gets to the
advice, are not modelled; `stack` and `logContext` belong to the thread.  No route
of the repository names the filter, which `main.cpp:186` registers: `Filtered` is empty as the
server is wired now, and the instance shows what the code does for routes that name it and
routes that do not.

## 3. Runs

| Run | Instance | Shows |
|---|---|---|
| `server_once` | 2 threads, uploads of 2 and 1 chunks, each chunk once, sweeps, TTL 1 | nothing half-written is published, a complete upload is assembled by exactly one thread, fresh files are kept, patch directories go (liveness) |
| `server_retry` | 1 thread, every chunk up to twice, two versions of one file, one crash and restart | what a crash leaves behind is never published |
| `server_ttl` | 2 threads, one `SET_TTL` at a time with operands 0 and 2, chunk TTLs, a damaged chunk, one failing call | the copies of the TTL and `ids.list` agree, only verified payloads are stored |
| `server_duplicate` | a chunk delivered twice at the same time | violation of `PublishedIntact` |
| `server_restart` | a crash | violation of `PatchDirsExpire` |
| `server_fresh` | a new version during a sweep | violation of `FreshFilesKept` |
| `queue` | 2 producers, 2 consumers, 1 closer, capacity 2 | refinement, no lost wakeup, drain and release after close |
| `sender` | 3 chunks, 2 connections, 2 attempts, 2 failures, `stop` at any moment | slots and chunks are accounted for, leaving the loop loses nothing, healthy connections send everything (liveness) |
| `superapi` | gateway: 2 threads, 3 requests of 4 shapes (one a stream, one for a provider without a key, one for none), 1 retry, threshold 1, cooldown 1; stream: buffer 3, every script with sizes up to 4, 2 heartbeats; observability: 2 threads, 3 requests, 1 of them past the filter, 2 companies, a valid and an invalid parent | breaker refinement and overshoot, every request answered (liveness); delivery and accounting of events; counts, spans and log lines, the exporter's queue (liveness) |
| `relay_edge` | listeners: 1 system and up to 3 data ports in a port space of 4 that wraps, a foreign port, 2 control connections, counts 0, 1 and 3; pipeline: 2 files, one with 2 versions, sizes 2 and 3 for chunks of 2, queue of 1, with a socket (1 message lost) or none; codec: bytes of 3 bits, words of 1, 2 and 3 bytes, blocks of 4 with a length of 1, messages of up to 9 | acceptors settled and the mutex returned; uploads whole, versions seen, a signal closes the queue and, if `Sender::stop` returns, ends the client (liveness); every one-byte damage and every cut refused, paddings agree |
| `sender_retry` | a failed write while the queue is open | violation of `RetriedEventually` |
| `sender_stop` | no failure at all | violation of `StopReturns` |

The violations are disagreements of the code with its own documents:

* `server_duplicate`: both threads open `patch_<i>.bin.tmp` with `O_TRUNC`
  (`storage.hpp:267`).  The first thread writes and is about to rename, the second
  truncates, the first renames the empty file and completes the upload; the
  published file lacks the chunk.  `docs/plan/verification.md:30` and
  `docs/plan/server/work_breakdown.md:31` promise atomic writes.
* `server_restart`: the constructor (`storage.hpp:61`) starts with an empty table,
  `cleanup_expired` knows only the table, so the directory of an upload the crash
  interrupted stays.  `docs/plan/server/work_breakdown.md:78` says it is deleted.
* `server_fresh`: `main.cpp:174-183` reads the age of a path and removes the path
  later; a version published in between is removed although it is fresh
  (`work_breakdown.md:79`).

* `sender_retry`: with nothing to retry and nothing queued the worker sleeps in
  `queue_.pop()` (`sender.hpp:413`).  A chunk whose write then fails goes to
  `retry_queue_`, whose condition variable nobody waits on, and stays there until
  another chunk is queued; `docs/plan/client/work_breakdown.md:55` promises the
  retry.
* `sender_stop`: the worker finds one chunk in flight (`sender.hpp:421-432`); before it
  sleeps, the completion releases the slot and notifies; `request_stop` (line 87)
  notifies nobody, so the join in `stop()` waits for ever
  (`docs/plan/client/work_breakdown.md:76`: "on shutdown, close queues and join
  threads").

Further disagreements the models show without a run of their own are listed in
`PROJECT.json`: a port is bound once (`listeners.hpp:174`), an `io_context` is destroyed under
its handlers' sockets (`:136`), payload bytes are lost to `read_until` (server
`main.cpp:359`), the client's header is not the one the server reads (`sender.hpp:266`), an open
breaker is answered 502 (`HttpProviderBase.cpp:504`), an unreadable
usage escapes the breaker (`:351`), the overflow of a stream deadlocks (`SSE.cpp:94`), a
`done` event can be dropped (`:197`), the filter is on no route (SuperAPI `main.cpp:186`), two
lines of the client do not compile, and a chunk delivered again while its upload is published
leaves a patch directory no sweep removes (`storage.hpp:154`; `PatchDirsExpire` fails with one
upload of two chunks, two threads and `MaxDeliveries` 2).  A `SET_TTL` that writes `ids.list` between
the two halves of the assembler's `remove_all` leaves one too, without any failing call
(`assembler.hpp:143`; `PatchDirsExpire` fails with one thread and one control connection).

`superapi` and `relay_edge` hold three components each, which share no variable: `part` says
which one a behaviour is about, the others stay in their initial state, and the
state space is the sum of the three, not their product.  An action that is treated fairly is
not enabled in a part the behaviour is not about (client main's steps are restricted to their
part), so the fairness of one says nothing about the others.  Both stop where all requests
are answered, main has ended or a stream is jammed, hence no check for deadlock; that
nobody stops early is what their liveness properties say.

The passing runs exclude exactly the circumstance of each: `server_once` and
`server_ttl` deliver each header once (so no chunk is being stored twice at the
same time), `server_retry` has one connection at a time, and the runs that check
`PatchDirsExpire` and `FreshFilesKept` have no crash, no second version and no control
connection.  `sender`
checks no liveness of retries or of `stop`.  It does not check for deadlock, because
the program really may stop: at the end of `main`, and in the hang of `sender_stop`.

Bounds and why they are enough.  Two threads on one upload and a third party, the
sweep, give every pairwise interleaving of the steps listed above; two chunks
give a first and a last one; two names or one shared name give independent and
competing outputs.  Ages up to one more than the largest TTL decide every
comparison the code makes.  `MaxDeliveries`, `MaxCrashes` and `MaxFsErrors` bound
what clients and the environment do; one of each is enough to reach every error
branch (every action and disjunct fires in some passing run).  For the queue,
four accepted values and capacity two let the queue fill, drain and fill again
with both producers asleep.  For the sender, three chunks over two connections put two
sends on one connection while the third waits for a slot, and two failures break a
connection a second time while the first failure's retry is on its way.  For the breaker,
two operations inside at a threshold of one give a late failure and a late success after the
opening, and the third request meets the open or the rested breaker; the proofs cover
every other size.  A buffer of 3 with events of sizes up to 4 reaches room, exact fit and
overflow.  Three requests on two threads give a thread a second request while the first
one's span is alive.  With three data listeners the ports wrap around onto the system port
and one is foreign, and two connections compete for two scalings.  Sizes 2 and 3 over a
payload of 2 give an exact fit and a short tail, and a queue of 1 blocks main at the second
chunk.  With blocks of 4, lengths up to 9 end at every place of a block, twice.

Fairness.  `RelayServer!FairSpec`: a thread that can take its next step takes it
(operating system threads are scheduled), the cleanup thread keeps sweeping
(`main.cpp:411`), time passes.  Clients need not send, operators need not issue
commands, nothing has to fail.  `BoundedQueue!FairSpec`: a thread that wants the
mutex gets it in the end, consumers keep calling `pop` (the sender's loop), a thread
inside `close` finishes; nobody has to push, close or be woken spuriously.
`Sender!FairSpec`: threads are scheduled, a started write completes or fails in the
end (the network's part), `main` carries a begun shutdown on; nobody has to enqueue
or to stop.  `GatewayFairness`: an upstream call ends because cpr is given a timeout, a sleep
because time passes, a handler because its thread runs; requests need not come.
`Observability`: that a `Post` to the collector ends is the collector's part (no timeout is
set); without it `AdviceCompletes` says nothing, and does not hold.  `ListenersFairness`: threads
are scheduled; `MutexReturned` has the hypothesis `AcceptsReturn`, that no thread stays in
accept for ever after its acceptor was closed.  `PipelineFairness`: main and the reporting
thread run, and the workers keep taking chunks, which `Sender` shows for healthy
connections; nobody has to edit a file or send a signal, and `Sender::stop` need not return.
`SignalEnds` therefore promises without condition only that main closes the queue, and the end
of the client under `SenderReturns`; without it the client may hang, against
`docs/plan/client/work_breakdown.md:76`, which is what `sender_stop` shows.  `ChangeIsSeen`
speaks of finitely many edits (`MaxVersion`): if files came and went for ever, every scan could end
(`watcher.hpp:78`) before it comes to a file that lasts.

## 4. Proofs

All theorems hold for every value of the constants that the named assumptions
(`ServerAssumption`, `QueueAssumption`, `GatewayAssumption`, `SenderAssumption` with
`NoneAssumption`, `SseAssumption`, `ObservabilityAssumption`, `ListenersAssumption`,
`PipelineAssumption`, `CodecAssumption`) allow; `TtlReachesAll` and the theorems of `RelayDeliveryProofs` have
hypotheses of their own, explained below.  `CodecAssumption` says that bytes and integers
have a width, that the polynomial's top bit is set, as it is in `0xEDB88320`, that the fields
of the samples fit where they are written, and that a block is longer than the length it
ends with.

`RelayServerProofs`
: The inductive invariant is `IInv`, the conjunction of `TypeOK` (with "a file below
  `patches/<id>` exists only with its directory"), `ThreadsEquipped` (a thread past
  `Receive` has a chunk, one past `UpdateEntry` a record) and `DescriptorsAttached`.
  `TypeOK` alone is not inductive: writing through a descriptor creates a
  well-formed file only because the descriptor's name still exists, which is what
  `DescriptorsAttached` says. That is how the model keeps inodes, no property of the
  code, and serves the induction only.
  One lemma per action, combined in `NextIInv`.  From it follow `TypeCorrect`,
  `OnlyVerified` (a payload in front of the write was verified, so no
  file gets a corrupt one, whatever name its inode has by then) and
  `ManifestsAgree` (every critical section that changes an entry persists it,
  unless a call failed).  `TtlReachesAll` assumes `Serial`, that operators wait for each
  other: two `SET_TTL`s at a time could leave the atomic of `main` with one value and
  `Storage`'s default with the other.  `TtlInv` says how far a `SET_TTL` under way has come;
  what the entries have does not matter before its last step, which sets them all.

`RelayDeliveryProofs`
: What `server_duplicate` and `server_fresh` show to fail in general, under hypotheses about
  the clients.  `HeadersAgree`: the undamaged headers of an upload tell its true length and
  one name; a client that cuts one file into chunks and numbers them sends such headers.
  `NoResend`: two threads that carry parts of one file carry different chunks of one upload,
  and a chunk on its way is not in the table yet.  `PublishedWhole` proves `PublishedIntact`
  for any behaviour that keeps to `NoResend`; two other theorems say who does: a server with
  one connection at a time (`SerialPublishedWhole`, the situation of `server_retry`), and
  clients that send every chunk and every file once (`OnceEach`, that of `server_once`), for
  any number of threads, crashes, restarts, expiries and failing calls
  (`OncePublishedWhole`). The inductive invariant `Delivery` follows an upload through the
  server: `Flow` (the entry has what the headers say, and a record of a thread that
  assembles is the whole upload), `AllAlone` (no two threads assemble under one name, and
  the table either still has the whole upload or lacks the chunk of the thread that
  assembles it), `DiskSound` (patch files are whole, and a writer's temporary file is its
  own), `AllOutSound` (what is written is the beginning of the upload).  It is inductive
  relative to `IInv`, because an expiry or a crash may take every one of these files from
  under a thread. `CompletedIsAssembled` adds `Once` (a thread owns its chunk until the
  table has it) and `Attentive`: a complete entry has a thread that assembles it, its
  patches are on disk unless a chunk of it is lost for good, and an assembly is given up
  only after a failing call or when the table no longer has the upload.  A sweep may remove
  the entry at any moment, and then its chunks are lost and the upload cannot complete a
  second time. `FreshKept` adds that an upload a file came from is over for good
  (`FilesServed`), so the victim of the sweep stays as old as it was (`VictimOld`).

`BoundedQueueProofs`
: `TypeCorrect`, `NoLostWakeup` and `RefinesChannel`.  `NotifyOneSuffices` is
  inductive relative to the types; its heart is counting: a notification moves one
  thread from the sleepers to the awake ones exactly when an element (a slot)
  appears, and a thread that takes an element is one awake thread less and one
  element less.  The refinement proof maps every step to a step of the channel or
  a stutter.

`SenderProofs`
: All safety properties of the sender.  `TypeOK` needs `Equipped`, that the worker and a
  handler have the task they are about to hand on.  `OnePlace` counts copies, and counts are
  no induction hypothesis: `PlaceInv` says it with sets instead.  No place (queue, retry queue,
  sends, failed handlers, worker) holds a chunk twice (`OnceEach`), the places are disjoint and
  together are the accepted chunks (`Partition`), and a worker that is not between two
  places carries nothing (`HandsFree`).  Every step takes a chunk from one place to another, and
  the numbers follow at the end (`OneCopy`).  `SlotsAccounted` is inductive relative to that: a
  dispatched send is a new member of its set, and the slot of a cut-off write goes to one
  handler, because no chunk is held twice.  `FinishLosesNothing` adds `Settled`: the
  worker looks at the retry queue and the slots only after the queue was closed and empty, and
  once it has left nobody holds a slot who could bring a chunk back.

`RelayEdgeProofs`
: `Settled`: the invariant `LInv` says for every step the holder of the mutex may be at what
  each acceptor is (`Shape`), when its thread runs (`Runs`), and what main's list tells of
  what is done (`Listed`); `AcceptorsSettled` speaks only of moments when nobody holds the
  mutex and says nothing of how they come about.  No assumption on the ports is needed: one
  that is refused, or that wraps around onto another, is a context without a thread.
  `UploadsWhole` and `KnownUploaded` share `PipelineInv`.  `Cut`: the queue is whole
  uploads, then the begun part of the file in hand, whose rest is `chunks`; a full queue or
  a signal leaves that as it is.  That the sizes of an upload's chunks add up to the size of
  the compressed file is `SizesSum`, by induction over the chunks.  `Followed`: for every
  file that does not wait to be processed, what was queued of it last was read no earlier
  than the watcher recorded it (`Caught`); with "no version goes back" the bytes are those
  of the recorded version when the file still is that version. `Announced`: a chunk is handed to the
  system channel before the push, and what was handed to it was sent or lost.  `EdgeTypes` are the types of both: they come with `LInv` and `PipelineInv`, and
  a file is only given up as unreadable while main has it in hand.

`WireCodecProofs`
: `TableIsBitwise`: a byte through `Crc32::update` is its bits shifted out of the register
  one by one.  `ShiftOut` is linear (`ShiftOutXor`), and the bytes above the lowest one only
  move down, so the table need only know the lowest byte.  `CrcSeesOneByte`: two
  sequences that differ in one byte have different CRCs.  A shift-out loses nothing,
  because the polynomial's top bit tells afterwards whether it was applied
  (`ShiftOutInjective`); registers that differ once therefore differ for ever
  (`RegisterDiffers`).  With another polynomial this is false, hence the assumption.

  `FramesIntact`: the invariant `FrameKept` says that what arrived is the encoded frame, or
  that frame with one byte hit (`HitByte`), or a part of it from its beginning (`CutOff`).
  `FrameIntact` says nothing of these bytes and is not inductive.  What was encoded is
  decoded because integers are their digits (`LittleEndian`, `FromLittleEndian`) and because
  fields laid end to end are found again (`SlicesOfFlatten`), the name of a `FileMeta`, whose
  length is a field of the same message, included (`FileMetaSurvives`).  A cut frame has
  fewer bytes than its fields, also when the length of a name is among those missing.  A header
  hit in one byte is refused for one of two reasons: a header that is accepted is its own
  serialisation (`AcceptedIsSerialized`), so either the hit byte is in the CRC, and everything
  else is as it was, with another CRC, or it is not, and what the CRC is taken over differs
  in one byte (`DifferInMiddle`, `OneByteRefused`).

  `DigestsSame`: the invariant `HashKept` says that each of the two has, in its whole blocks and
  a buffer that is not full, the bytes it was given, and has counted them (`Took`).
  The library's loop goes byte by byte (`LibraryUpdates`) and the compressor's by as much as
  fits (`OwnUpdates`, whose rounds make what is left shorter), and both keep that.  Blocks of
  one size are known by their bytes (`SameBlocks`), so the two have compressed the same ones and
  hold the same buffer.  At the end, `FinalFacts` tells that the last one or two blocks are whole and
  have the mark, the zeros and the length, and `ZerosFound` that these zeros are the fewest
  that fill the block, which is how the standard says it.

`SuperApiProofs`
: `OneBreaker` sums up what any step of the gateway, with its routes, retries and
  exceptions, does to the breaker of one provider: one of `CircuitBreaker`'s actions, or
  nothing.  From the summary follow `RefinesBreaker` (the initial states map, and each case
  is a step of the abstract breaker or a stutter), and, through the strengthening
  `OvershootInv`, `Overshoot` and `Consistent`.  The bound alone is not inductive: whoever
  enters adds one to the operations inside, and only because the breaker is closed exactly
  below its threshold (`Consistent`, the other half of `OvershootInv`) is there room for
  one; a failure moves one from the operations inside to the count, which a bound on the
  count alone would not survive (`InsideMore`, `InsideLess`).  `TypeCorrect` has one lemma
  per action.

  `ClosedIsQuiet` is inductive because every method that sets `closed_` cancels the timer and
  drops what waits in the same critical section, a refusal inside `flushUnlocked` included.
  `BufferAccounted` needs it, and that nothing waits once the stream is there (`Announced`): the
  counter goes up by the size of a frame and down by those that go out, one by one
  (`flushUnlocked`), and is set to 0 only where everything is dropped, on a refusal and in
  `close`; the total of what is taken off is the total of what was added (`SeqMeasureTheorems`).  `EventsArrive`
  says less than `Delivery`, its invariant: until the stream is closed, what was sent is what is
  on the wire followed by what waits, and only a stream that is cut off closes before the
  end of the script.  Both use how the measures of a sequence change when it grows
  (`SeqMeasureTheorems`).
  `LinesAreOwn` needs `LinesInv`: a thread's log context is that of the request it
  serves and empty between requests, a request is served by one thread, once, and a line is
  written when its request is over.  `SpanInv` adds that a thread's stack holds the span of the
  request it serves and nothing else (`StacksAreOwn`), which is why a request never finds a
  stranger's span as its parent although ended spans live on, and where each span is
  when (`SpanFollows`, `PostedOnce`).  `CountInv` adds that requests and buckets of a company
  count the same finite set of finished observations (`CountsAgree`).

  `ApiTypes` puts the types of the three parts together: every part is either the one the
  behaviour is about or stays where it began.  The types of `SseStream` and `Observability`
  come with their invariants above; what those leave out is which flags a frame sets on its
  way through `enqueueUnlocked` and `flushUnlocked` (`EnqueueFlags`, `FlushFlags`).

`SeqMeasureTheorems`
: The induction theorems of the standard library take an operator as parameter, which
  the provers cannot instantiate.  `Induction` says the same of a set of numbers, and is
  derived from the least element of a set (`Least`), which comes from strict inclusion of the
  intervals `0..n` being well founded.  With it the recursive functions `Selected`,
  `Total`, `Iterated` and `Folded` are shown to exist, the first two to follow `Append`,
  concatenation and a changed element, the other two one more step at either end
  (`IteratedNext`, `IteratedFirst`) and one more element (`FoldedAppend`).  `Selected` and
  `Total` replace `SelectSeq` and `FoldSeq` in the properties; `MCSuperApi` has TLC compare them
  (`MeasuresAssumption`).

Only model-checked: liveness (`PatchDirsExpire`, `AcceptedIsDelivered`, `CloseReleases`,
`HealthySends`, `RequestAnswered`, `AdviceCompletes`, `MutexReturned`, `ChangeIsSeen`,
`SignalEnds`), which needs fairness and `ENABLED`.  Every safety property of the passing runs
is a theorem, those of `RelayDeliveryProofs` and `TtlReachesAll` under their hypotheses.

## 5. Not modelled, and the plan

Next, in this order:

1. Weaker hypotheses for `CompletedIsAssembled` and `FreshKept`: chunks that are sent again
   when no copy of them is on its way.
2. Server instances with chunks that disagree on the total.

Left out: the WebSocket session (no route creates one); environment and
`app_config` (read once at start-up); the wiring of the framework in SuperAPI's `main.cpp`; libzstd
and the compression function of SHA-256 (computation without state of its own);
`socket_utils.hpp` and `config.hpp` of the common library (no state, text in and out); URLs,
headers and payloads of the upstream calls, the text of `/metrics`, of log lines and of spans
(wording); the command lines; the bytes of overlapping writes in the sender; the stubs
(`Client/Client.cpp`, `General_.serer/main.cpp`, `Frontend`).
