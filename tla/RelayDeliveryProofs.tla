------------------------ MODULE RelayDeliveryProofs ------------------------
(***************************************************************************)
(* What clients may rely on when they do not send a chunk a second time    *)
(* while another one of its file is on its way: theorems about RelayServer *)
(* for any threads, uploads and headers, any number of crashes, expiries   *)
(* and failing system calls.                                               *)
(*                                                                         *)
(* The invariant follows an upload through the server: the table has what  *)
(* its headers say (Flow), its patch files are whole (DiskSound), the      *)
(* thread that completes it is alone with it (Alone), and what that thread *)
(* has written is the beginning of the upload (OutSound).                  *)
(***************************************************************************)
EXTENDS RelayServerProofs, FiniteSetTheorems

\* The undamaged headers of an upload agree on its name, and on its length.
HeadersAgree ==
    /\ \A d \in Headers : d.crc_ok => d.total = StreamLen[d.file_id]
    /\ \A d, e \in Headers :
          d.crc_ok /\ e.crc_ok /\ d.file_id = e.file_id => d.name = e.name

Incoming == {"store", "open", "write", "rename", "lock"}

\* A thread that stores an undamaged chunk or assembles an upload.
Carries(h) == pc[h] \in Incoming \cup Assembling /\ chunk[h].crc_ok

Received(f) == IF f \in DOMAIN payloads THEN payloads[f].received ELSE {}

\* Two threads that carry parts of one file carry different chunks of one
\* upload, and a chunk that is not stored yet is not in the table.
NoResend ==
    \A g, h \in Handlers :
        g # h /\ Carries(g) /\ Carries(h) /\ chunk[g].name = chunk[h].name =>
            /\ chunk[g].file_id = chunk[h].file_id
            /\ chunk[g].index # chunk[h].index
            /\ pc[h] \in Incoming => chunk[h].index \notin Received(chunk[h].file_id)

Indices(f) == 0..(StreamLen[f] - 1)

EntrySound(f, e) ==
    /\ e.total = StreamLen[f] /\ e.size = StreamLen[f]
    /\ e.received \subseteq Indices(f)
    /\ \A d \in Headers : d.crc_ok /\ d.file_id = f => d.name = e.name

WholeRecord(d) ==
    [name |-> d.name, total |-> StreamLen[d.file_id], size |-> StreamLen[d.file_id],
     received |-> Indices(d.file_id)]

ThreadSound(h) ==
    /\ pc[h] # "idle" => chunk[h].index < chunk[h].total
    /\ pc[h] \in {"open", "write", "rename", "lock"} \cup Assembling => chunk[h].crc_ok
    /\ pc[h] \in Assembling => record[h] = WholeRecord(chunk[h])

\* The table and the threads have what the headers say.
Flow ==
    /\ \A f \in DOMAIN payloads : EntrySound(f, payloads[f])
    /\ \A h \in Handlers : ThreadSound(h)

-----------------------------------------------------------------------------
(* Steps, and what they leave alone.                                       *)

\* The steps that are not a connection's.
Background ==
    \/ SweeperStep
    \/ \E c \in Controllers : ControlStep(c) \/ \E v \in NewTtls : SetTtl(c, v)
    \/ \E d \in Headers : ReceiveFails(d)
    \/ Tick
    \/ UNCHANGED vars

LEMMA Steps ==
    [Next]_vars =>
        \/ \E h \in Handlers : HandlerStep(h) \/ \E d \in Headers : Receive(h, d)
        \/ Background \/ CrashRestart
BY DEF Next, Background

\* A thread's locals are its own.
LEMMA OwnLocals ==
    ASSUME IInv, NEW h \in Handlers, HandlerStep(h) \/ \E d \in Headers : Receive(h, d),
           NEW g \in Handlers, g # h
    PROVE  /\ pc'[g] = pc[g] /\ chunk'[g] = chunk[g]
           /\ record'[g] = record[g] /\ out'[g] = out[g]
<1>. USE DEF Goto
<1>1. /\ pc \in [Handlers -> PcValues] /\ chunk \in [Handlers -> Headers \cup {None}]
      /\ record \in [Handlers -> Record \cup {None}]
      /\ out \in [Handlers -> [idx : Nat, wrote : Nat, pending : BOOLEAN]]
  BY DEF IInv, TypeOK
<1>2. CASE (\E d \in Headers : Receive(h, d)) \/ Reply(h)
  BY <1>1, <1>2 DEF Receive, Reply
<1>3. CASE CreateDir(h) \/ OpenTmp(h) \/ WriteTmp(h) \/ RenameTmp(h) \/ UpdateEntry(h)
  BY <1>1, <1>3 DEF CreateDir, OpenTmp, WriteTmp, RenameTmp, UpdateEntry
<1>4. CASE AssembleOpen(h) \/ AssembleDone(h) \/ AbortAssembly(h) \/ Publish(h)
           \/ RemovePatches(h) \/ RemovePatchDir(h) \/ MarkPublished(h)
  BY <1>1, <1>4 DEF AssembleOpen, AssembleDone, AbortAssembly, Publish, RemovePatches,
    RemovePatchDir, MarkPublished
<1>5. CASE AssembleChunk(h)
  <2>1. chunk' = chunk /\ record' = record
    BY <1>5 DEF AssembleChunk
  <2>2. pc' = pc \/ pc' = [pc EXCEPT ![h] = "abort"]
    BY <1>5 DEF AssembleChunk
  <2>3. \/ out' = out \/ out' = [out EXCEPT ![h].idx = @ + 1]
        \/ \E v : out' = [out EXCEPT ![h] = v]
    BY <1>5 DEF AssembleChunk
  <2>. QED
    BY <1>1, <2>1, <2>2, <2>3
<1>. QED
  BY <1>2, <1>3, <1>4, <1>5 DEF HandlerStep

LEMMA BackgroundLocals ==
    ASSUME Background
    PROVE  UNCHANGED <<pc, chunk, record, out>>
BY DEF Background, SweeperStep, BeginSweep, CleanupExpired, CheckFile, RemoveFile, EndSweep,
       ControlStep, StoreDefaultTtl, UpdateEntryTtls, SetTtl, ReceiveFails, Tick, vars, threadVars

\* Where a thread's step takes it.
LEMMA Goes ==
    ASSUME IInv, NEW h \in Handlers, NEW l, Goto(h, l)
    PROVE  pc'[h] = l
BY DEF IInv, TypeOK, Goto

\* An entry with every chunk has all the indices.
LEMMA CompleteIsAll ==
    ASSUME NEW f \in FileIds, NEW e, EntrySound(f, e)
    PROVE  Complete(e) <=> e.received = Indices(f)
<1>1. IsFiniteSet(Indices(f)) /\ Cardinality(Indices(f)) = StreamLen[f]
  <2>1. StreamLen[f] \in Nat \ {0}
    BY ServerAssumption
  <2>2. 0 \in Int /\ StreamLen[f] - 1 \in Int
    BY <2>1
  <2>3. /\ IsFiniteSet(0..(StreamLen[f] - 1))
        /\ Cardinality(0..(StreamLen[f] - 1)) =
             IF 0 > StreamLen[f] - 1 THEN 0 ELSE StreamLen[f] - 1 - 0 + 1
    BY <2>2, FS_Interval
  <2>. QED
    BY <2>1, <2>3 DEF Indices
<1>. QED
  BY <1>1, FS_Subset DEF EntrySound, Complete

-----------------------------------------------------------------------------
(* The table.                                                              *)

\* Entries may go, or change in age and TTL, but not in what they hold.
Shrunk ==
    \A f \in DOMAIN payloads' :
        /\ f \in DOMAIN payloads
        /\ payloads'[f].name = payloads[f].name /\ payloads'[f].total = payloads[f].total
        /\ payloads'[f].size = payloads[f].size
        /\ payloads'[f].received = payloads[f].received

LEMMA SomeEntries ==
    ASSUME NEW F, payloads' = Drop(payloads, F)
    PROVE  Shrunk
BY DEF Shrunk, Drop, Restrict

LEMMA SameEntries ==
    ASSUME UNCHANGED payloads
    PROVE  Shrunk
BY DEF Shrunk

\* Time and SET_TTL change no entry's chunks.
LEMMA BackgroundTable ==
    ASSUME IInv, Background
    PROVE  Shrunk
<1>1. \A f \in DOMAIN payloads : payloads[f] \in Entry
  BY DEF IInv, TypeOK, IsMap
<1>2. CASE Tick
  BY <1>1, <1>2 DEF Tick, Shrunk, Entry
<1>3. ASSUME NEW c \in Controllers, UpdateEntryTtls(c) PROVE Shrunk
  BY <1>1, <1>3 DEF UpdateEntryTtls, Shrunk, Entry
<1>4. CASE CleanupExpired
  BY <1>4, SomeEntries DEF CleanupExpired
<1>5. CASE UNCHANGED payloads
  BY <1>5, SameEntries
<1>6. CASE SweeperStep
  BY <1>4, <1>5, <1>6
  DEF SweeperStep, BeginSweep, CheckFile, RemoveFile, EndSweep, tableVars
<1>7. ASSUME NEW c \in Controllers, ControlStep(c) \/ \E v \in NewTtls : SetTtl(c, v)
      PROVE  Shrunk
  BY <1>3, <1>5, <1>7 DEF ControlStep, StoreDefaultTtl, SetTtl
<1>8. CASE (\E d \in Headers : ReceiveFails(d)) \/ UNCHANGED vars
  BY <1>5, <1>8 DEF ReceiveFails, vars, tableVars
<1>. QED
  BY <1>2, <1>6, <1>7, <1>8 DEF Background

\* Only store_chunk's critical section adds to the table.
LEMMA HandlerTable ==
    ASSUME NEW h \in Handlers, HandlerStep(h), ~UpdateEntry(h)
    PROVE  Shrunk
<1>1. CASE MarkPublished(h)
  BY <1>1, SomeEntries DEF MarkPublished
<1>. QED
  BY <1>1, SameEntries
  DEF HandlerStep, CreateDir, OpenTmp, WriteTmp, RenameTmp, AssembleOpen, AssembleChunk,
      AssembleDone, AbortAssembly, Publish, RemovePatches, RemovePatchDir, Reply, tableVars

\* The fields of an undamaged header.
LEMMA HeaderFields ==
    ASSUME NEW d \in Headers
    PROVE  /\ d.file_id \in FileIds /\ d.name \in Names /\ d.index \in Nat /\ d.total \in Nat
           /\ d.crc_ok \in BOOLEAN /\ StreamLen[d.file_id] \in Nat \ {0}
BY ServerAssumption DEF HeaderType

\* What a chunk makes of its entry.
LEMMA NewEntrySound ==
    ASSUME HeadersAgree, Flow, NEW d \in Headers, d.crc_ok, d.index < d.total
    PROVE  /\ EntrySound(d.file_id, NewEntry(d))
           /\ NewEntry(d).received = Received(d.file_id) \cup {d.index}
           /\ NewEntry(d).name = d.name
<1>. DEFINE f == d.file_id
<1>1. f \in FileIds /\ d.index \in Indices(f) /\ d.total = StreamLen[f]
  BY HeaderFields DEF HeadersAgree, Indices
<1>2. CASE f \in DOMAIN payloads
  BY <1>1, <1>2 DEF Flow, EntrySound, NewEntry, OldEntry, Received
<1>3. CASE f \notin DOMAIN payloads
  <2>1. OldEntry(d) = [name |-> d.name, total |-> d.total, size |-> 0, received |-> {},
                       age |-> 0, ttl |-> 0]
    BY <1>3 DEF OldEntry
  <2>2. /\ NewEntry(d).name = d.name /\ NewEntry(d).total = d.total
        /\ NewEntry(d).size = d.total /\ NewEntry(d).received = {d.index}
    BY <1>1, <2>1, HeaderFields DEF NewEntry
  <2>. QED
    BY <1>1, <1>3, <2>2 DEF HeadersAgree, EntrySound, Received
<1>. QED
  BY <1>2, <1>3

\* A thread is sound as long as its locals are what they were.
LEMMA StillSound ==
    ASSUME NEW h \in Handlers, ThreadSound(h), pc'[h] = pc[h], chunk'[h] = chunk[h],
           record'[h] = record[h]
    PROVE  ThreadSound(h)'
BY DEF ThreadSound

\* The critical section hands a whole record to the thread that completes it.
LEMMA UpdateEntryFlow ==
    ASSUME HeadersAgree, IInv, Flow, NEW h \in Handlers, UpdateEntry(h)
    PROVE  /\ ThreadSound(h)'
           /\ \A f \in DOMAIN payloads' : EntrySound(f, payloads'[f])
<1>. DEFINE d == chunk[h]
            e == NewEntry(d)
<1>1. pc[h] = "lock" /\ chunk'[h] = d
  BY DEF UpdateEntry
<1>2. d \in Headers
  BY <1>1 DEF IInv, ThreadsEquipped
<1>3. d.crc_ok /\ d.index < d.total
  BY <1>1 DEF Flow, ThreadSound
<1>4. EntrySound(d.file_id, e) /\ e.name = d.name
  BY <1>2, <1>3, NewEntrySound
<1>5. payloads' = Put(payloads, d.file_id, e)
  BY DEF UpdateEntry
<1>6. \A f \in DOMAIN payloads' : EntrySound(f, payloads'[f])
  BY <1>4, <1>5 DEF Put, Flow
<1>7. CASE Complete(e)
  <2>1. e.received = Indices(d.file_id)
    BY <1>2, <1>4, <1>7, CompleteIsAll, HeaderFields
  <2>2. /\ Goto(h, "assemble")
        /\ record' = [record EXCEPT ![h] = [name |-> e.name, total |-> e.total,
                                            size |-> e.size, received |-> e.received]]
    BY <1>7 DEF UpdateEntry
  <2>3. pc'[h] = "assemble" /\ record'[h] = WholeRecord(d)
    BY <1>4, <2>1, <2>2, Goes DEF WholeRecord, EntrySound, IInv, TypeOK
  <2>. QED
    BY <1>1, <1>3, <1>6, <2>3 DEF ThreadSound
<1>8. CASE ~Complete(e)
  <2>1. pc'[h] = "reply"
    BY <1>8, Goes DEF UpdateEntry
  <2>. QED
    BY <1>1, <1>3, <1>6, <2>1 DEF ThreadSound, Assembling
<1>. QED
  BY <1>7, <1>8

\* The other steps of a connection.
LEMMA HandlerFlow ==
    ASSUME IInv, Flow, NEW h \in Handlers, HandlerStep(h), ~UpdateEntry(h)
    PROVE  ThreadSound(h)'
<1>1. ThreadSound(h) /\ pc[h] \in PcValues
  BY DEF Flow, IInv, TypeOK
<1>2. CASE CreateDir(h)
  <2>1. pc'[h] = "reply" \/ (pc'[h] = "open" /\ chunk[h].crc_ok)
    BY <1>2, Goes DEF CreateDir, VerifyCrc
  <2>. QED
    BY <1>1, <1>2, <2>1 DEF CreateDir, ThreadSound, Assembling
<1>3. CASE OpenTmp(h) \/ WriteTmp(h) \/ RenameTmp(h)
  <2>1. pc[h] \in {"open", "write", "rename"} /\ pc'[h] \in {"write", "rename", "lock", "reply"}
    BY <1>3, Goes DEF OpenTmp, WriteTmp, RenameTmp
  <2>. QED
    BY <1>1, <1>3, <2>1 DEF OpenTmp, WriteTmp, RenameTmp, ThreadSound, Assembling
<1>4. CASE AssembleOpen(h) \/ AssembleDone(h) \/ AbortAssembly(h) \/ Publish(h)
           \/ RemovePatches(h) \/ RemovePatchDir(h) \/ MarkPublished(h)
  <2>1. /\ pc[h] \in Assembling
        /\ pc'[h] \in {"copy", "abort", "publish", "remove", "rmdir", "mark", "reply"}
    BY <1>4, Goes
    DEF AssembleOpen, AssembleDone, AbortAssembly, Publish, RemovePatches,
        RemovePatchDir, MarkPublished, Assembling
  <2>2. UNCHANGED <<chunk, record>>
    BY <1>4
    DEF AssembleOpen, AssembleDone, AbortAssembly, Publish, RemovePatches,
        RemovePatchDir, MarkPublished
  <2>. QED
    BY <1>1, <2>1, <2>2 DEF ThreadSound, Assembling
<1>5. CASE AssembleChunk(h)
  <2>1. /\ pc[h] = "copy" /\ UNCHANGED <<chunk, record>>
        /\ pc' = pc \/ Goto(h, "abort")
    BY <1>5 DEF AssembleChunk
  <2>2. pc'[h] \in {"copy", "abort"}
    BY <2>1, Goes
  <2>. QED
    BY <1>1, <2>1, <2>2 DEF ThreadSound, Assembling
<1>6. CASE Reply(h)
  <2>1. pc'[h] = "idle"
    BY <1>6, Goes DEF Reply
  <2>. QED
    BY <2>1 DEF ThreadSound, Assembling
<1>. QED
  BY <1>2, <1>3, <1>4, <1>5, <1>6 DEF HandlerStep

LEMMA NextFlow ==
    ASSUME HeadersAgree, IInv, Flow, [Next]_vars
    PROVE  Flow'
<1>1. ASSUME Shrunk PROVE \A f \in DOMAIN payloads' : EntrySound(f, payloads'[f])
  BY <1>1 DEF Shrunk, Flow, EntrySound
<1>2. ASSUME NEW h \in Handlers, HandlerStep(h) PROVE Flow'
  <2>1. ThreadSound(h)' /\ \A f \in DOMAIN payloads' : EntrySound(f, payloads'[f])
    BY <1>1, <1>2, UpdateEntryFlow, HandlerFlow, HandlerTable
  <2>2. \A g \in Handlers : g # h => ThreadSound(g)'
    BY <1>2, OwnLocals, StillSound DEF Flow
  <2>. QED
    BY <2>1, <2>2 DEF Flow, EntrySound
<1>3. ASSUME NEW h \in Handlers, NEW d \in Headers, Receive(h, d) PROVE Flow'
  <2>1. pc'[h] = "store" /\ chunk'[h] = d
    BY <1>3, Goes DEF Receive, IInv, TypeOK
  <2>2. ThreadSound(h)'
    BY <1>3, <2>1 DEF Receive, ThreadSound, Assembling
  <2>3. \A g \in Handlers : g # h => ThreadSound(g)'
    BY <1>3, OwnLocals, StillSound DEF Flow
  <2>. QED
    BY <1>3, <2>2, <2>3 DEF Receive, tableVars, Flow, EntrySound
<1>4. CASE Background
  BY <1>1, <1>4, BackgroundLocals, BackgroundTable, StillSound DEF Flow, EntrySound
<1>5. CASE CrashRestart
  BY <1>5 DEF CrashRestart, EmptyMap, AllIdle, Flow, ThreadSound, Assembling
<1>. QED
  BY <1>2, <1>3, <1>4, <1>5, Steps

-----------------------------------------------------------------------------
(* Who assembles an upload is alone with it.                               *)

\* No other thread assembles that file; the table has the upload whole, or has
\* lost what this thread brought, which nobody sends again meanwhile.
Alone(h) ==
    pc[h] \in Assembling =>
        /\ \A g \in Handlers \ {h} : pc[g] \in Assembling => chunk[g].name # chunk[h].name
        /\ \/ Received(chunk[h].file_id) = Indices(chunk[h].file_id)
           \/ chunk[h].index \notin Received(chunk[h].file_id)

AllAlone == \A h \in Handlers : Alone(h)

\* What a thread past verify_crc carries.
LEMMA CarriedChunk ==
    ASSUME HeadersAgree, IInv, Flow, NEW h \in Handlers,
           pc[h] \in {"open", "write", "rename", "lock"} \cup Assembling
    PROVE  /\ Carries(h) /\ chunk[h] \in Headers
           /\ chunk[h].file_id \in FileIds /\ chunk[h].index \in Indices(chunk[h].file_id)
<1>1. chunk[h].crc_ok /\ chunk[h].index < chunk[h].total /\ pc[h] # "idle"
  BY DEF Flow, ThreadSound, Assembling
<1>2. chunk[h] \in Headers
  BY <1>1 DEF IInv, ThreadsEquipped
<1>. QED
  BY <1>1, <1>2, HeaderFields DEF Carries, Incoming, HeadersAgree, Indices

\* Two threads of one upload carry chunks of one file.
LEMMA SameUpload ==
    ASSUME HeadersAgree, IInv, Flow, NEW g \in Handlers, NEW h \in Handlers,
           pc[g] \in {"open", "write", "rename", "lock"} \cup Assembling,
           pc[h] \in {"open", "write", "rename", "lock"} \cup Assembling,
           chunk[g].file_id = chunk[h].file_id
    PROVE  chunk[g].name = chunk[h].name
BY CarriedChunk DEF HeadersAgree, Carries

\* An entry keeps its chunks or goes.
LEMMA ReceivedShrunk ==
    ASSUME Shrunk, NEW f
    PROVE  Received(f)' = Received(f) \/ Received(f)' = {}
BY DEF Shrunk, Received

\* A thread that assembles stays alone while others do and the table shrinks.
LEMMA AloneShrunk ==
    ASSUME AllAlone, Shrunk, UNCHANGED chunk,
           \A g \in Handlers : pc'[g] \in Assembling => pc[g] \in Assembling
    PROVE  AllAlone'
<1>. SUFFICES ASSUME NEW h \in Handlers, pc'[h] \in Assembling PROVE Alone(h)'
  BY DEF AllAlone, Alone
<1>1. Alone(h) /\ pc[h] \in Assembling
  BY DEF AllAlone
<1>2. \/ Received(chunk[h].file_id)' = Received(chunk[h].file_id)
      \/ Received(chunk[h].file_id)' = {}
  BY ReceivedShrunk DEF Received
<1>. QED
  BY <1>1, <1>2 DEF Alone, Indices

\* Another thread that comes to the table while one assembles brings another
\* chunk, does not complete the upload, and so does not assemble it.
LEMMA UpdateEntryAlone ==
    ASSUME HeadersAgree, IInv, Flow, NoResend, AllAlone, NEW h \in Handlers, UpdateEntry(h)
    PROVE  AllAlone'
<1>. DEFINE d == chunk[h]
            f == chunk[h].file_id
            e == NewEntry(d)
<1>1. pc[h] = "lock" /\ chunk' = chunk
  BY DEF UpdateEntry
<1>2. Carries(h) /\ d \in Headers /\ f \in FileIds /\ d.index \in Indices(f)
  BY <1>1, CarriedChunk
<1>3. /\ EntrySound(f, e) /\ e.received = Received(f) \cup {d.index} /\ d.index < d.total
  BY <1>1, <1>2, NewEntrySound DEF Flow, ThreadSound, Carries
<1>4. /\ Received(f)' = Received(f) \cup {d.index}
      /\ \A i : i # f => Received(i)' = Received(i)
  BY <1>1, <1>3 DEF UpdateEntry, Put, Received
<1>5. pc'[h] \in Assembling => Received(f)' = Indices(f)
  <2>1. CASE Complete(e)
    BY <1>2, <1>3, <1>4, <2>1, CompleteIsAll
  <2>2. CASE ~Complete(e)
    <3>1. pc'[h] = "reply"
      BY <2>2, Goes DEF UpdateEntry
    <3>. QED
      BY <3>1 DEF Assembling
  <2>. QED
    BY <2>1, <2>2
<1>6. ASSUME NEW g \in Handlers, g # h, pc[g] \in Assembling, chunk[g].name = d.name
      PROVE  /\ chunk[g].file_id = f /\ chunk[g].index \notin Received(f)'
             /\ pc'[h] \notin Assembling
  <2>1. Carries(g) /\ chunk[g].index \in Indices(chunk[g].file_id)
    BY <1>6, CarriedChunk
  <2>2. chunk[g].file_id = f /\ chunk[g].index # d.index /\ d.index \notin Received(f)
    BY <1>1, <1>2, <1>6, <2>1 DEF NoResend, Incoming
  <2>3. chunk[g].index \notin Received(f)
    BY <1>2, <1>6, <2>2 DEF AllAlone, Alone
  <2>. QED
    BY <1>4, <1>5, <2>1, <2>2, <2>3
<1>7. ASSUME NEW g \in Handlers, g # h, pc[g] \in Assembling PROVE Alone(g)'
  <2>1. Alone(g)
    BY DEF AllAlone
  <2>2. CASE chunk[g].file_id = f
    <3>1. chunk[g].name = d.name
      BY <1>1, <1>7, <2>2, SameUpload
    <3>2. \A i \in Handlers \ {g} : pc'[i] \in Assembling => chunk[i].name # chunk[g].name
      BY <1>6, <1>7, <2>1, <3>1, OwnLocals DEF HandlerStep, Alone
    <3>. QED
      BY <1>1, <1>6, <1>7, <3>1, <3>2 DEF Alone
  <2>3. CASE chunk[g].file_id # f
    <3>1. chunk[g].name = d.name => pc'[h] \notin Assembling
      BY <1>6, <1>7
    <3>2. \A i \in Handlers \ {g} : pc'[i] \in Assembling => chunk[i].name # chunk[g].name
      BY <1>7, <2>1, <3>1, OwnLocals DEF HandlerStep, Alone
    <3>. QED
      BY <1>1, <1>4, <1>7, <2>1, <2>3, <3>2 DEF Alone, Indices
  <2>. QED
    BY <2>2, <2>3
<1>8. Alone(h)'
  <2>1. \A i \in Handlers \ {h} : pc'[i] = pc[i]
    BY OwnLocals DEF HandlerStep
  <2>2. pc'[h] \in Assembling =>
           \A i \in Handlers \ {h} : pc[i] \in Assembling => chunk[i].name # d.name
    BY <1>6
  <2>. QED
    BY <1>1, <1>5, <2>1, <2>2 DEF Alone, Indices
<1>9. \A g \in Handlers \ {h} : pc'[g] = pc[g]
  BY OwnLocals DEF HandlerStep
<1>. QED
  BY <1>7, <1>8, <1>9 DEF AllAlone, Alone

LEMMA NextAlone ==
    ASSUME HeadersAgree, IInv, Flow, NoResend, AllAlone, [Next]_vars
    PROVE  AllAlone'
<1>1. ASSUME NEW h \in Handlers, HandlerStep(h), ~UpdateEntry(h) PROVE AllAlone'
  <2>1. Shrunk
    BY <1>1, HandlerTable
  <2>2. CASE Reply(h)
    <3>1. pc'[h] = "idle"
      BY <2>2, Goes DEF Reply
    <3>2. \A g \in Handlers : g # h => pc'[g] = pc[g] /\ chunk'[g] = chunk[g]
      BY <1>1, OwnLocals
    <3>3. UNCHANGED payloads
      BY <2>2 DEF Reply, tableVars
    <3>. QED
      BY <3>1, <3>2, <3>3 DEF AllAlone, Alone, Assembling, Received, Indices
  <2>3. CASE ~Reply(h)
    <3>1. chunk' = chunk
      BY <1>1, <2>3
      DEF HandlerStep, CreateDir, OpenTmp, WriteTmp, RenameTmp, AssembleOpen, AssembleChunk,
          AssembleDone, AbortAssembly, Publish, RemovePatches, RemovePatchDir, MarkPublished
    <3>2. pc'[h] \in Assembling => pc[h] \in Assembling
      <4>1. CASE CreateDir(h) \/ OpenTmp(h) \/ WriteTmp(h) \/ RenameTmp(h)
        <5>1. pc'[h] \in {"open", "write", "rename", "lock", "reply"}
          BY <4>1, Goes DEF CreateDir, OpenTmp, WriteTmp, RenameTmp
        <5>. QED
          BY <5>1 DEF Assembling
      <4>2. CASE AssembleOpen(h) \/ AssembleChunk(h) \/ AssembleDone(h) \/ AbortAssembly(h)
                 \/ Publish(h) \/ RemovePatches(h) \/ RemovePatchDir(h) \/ MarkPublished(h)
        BY <4>2
        DEF AssembleOpen, AssembleChunk, AssembleDone, AbortAssembly, Publish, RemovePatches,
            RemovePatchDir, MarkPublished, Assembling
      <4>. QED
        BY <1>1, <2>3, <4>1, <4>2 DEF HandlerStep
    <3>3. \A g \in Handlers : g # h => pc'[g] = pc[g]
      BY <1>1, OwnLocals
    <3>. QED
      BY <2>1, <3>1, <3>2, <3>3, AloneShrunk
  <2>. QED
    BY <2>2, <2>3
<1>2. ASSUME NEW h \in Handlers, NEW d \in Headers, Receive(h, d) PROVE AllAlone'
  <2>1. pc'[h] = "store" /\ \A g \in Handlers : g # h => pc'[g] = pc[g] /\ chunk'[g] = chunk[g]
    BY <1>2, Goes, OwnLocals DEF Receive
  <2>2. UNCHANGED payloads
    BY <1>2 DEF Receive, tableVars
  <2>. QED
    BY <2>1, <2>2 DEF AllAlone, Alone, Assembling, Received, Indices
<1>3. CASE Background
  BY <1>3, BackgroundLocals, BackgroundTable, AloneShrunk
<1>4. CASE CrashRestart
  BY <1>4 DEF CrashRestart, AllIdle, AllAlone, Alone, Assembling
<1>. QED
  BY <1>1, <1>2, <1>3, <1>4, UpdateEntryAlone, Steps

-----------------------------------------------------------------------------
(* Patch files are whole.                                                  *)

\* A writer's .tmp file is the one it has open, and whole once it is closed.
WriterSound(h) ==
    /\ pc[h] = "write" => fd[h] # "patch" /\ (Key(h) \in DOMAIN tmps => fd[h] = "tmp")
    /\ pc[h] = "rename" /\ Key(h) \in DOMAIN tmps => tmps[Key(h)] = "full"

AllFull(g) == \A k \in DOMAIN g : g[k] = "full"

DiskSound == AllFull(patches) /\ \A h \in Handlers : WriterSound(h)

\* Threads that are past verify_crc use different paths.
LEMMA KeysDiffer ==
    ASSUME HeadersAgree, IInv, Flow, NoResend, NEW g \in Handlers, NEW h \in Handlers, g # h,
           pc[g] \in {"open", "write", "rename", "lock"} \cup Assembling,
           pc[h] \in {"open", "write", "rename", "lock"} \cup Assembling
    PROVE  Key(g) # Key(h)
<1>. SUFFICES ASSUME Key(g) = Key(h) PROVE FALSE
  OBVIOUS
<1>1. chunk[g].file_id = chunk[h].file_id /\ chunk[g].index = chunk[h].index
  BY DEF Key
<1>2. chunk[g].name = chunk[h].name /\ Carries(g) /\ Carries(h)
  BY <1>1, SameUpload, CarriedChunk
<1>. QED
  BY <1>1, <1>2 DEF NoResend

\* A writer stays sound while its file stays, or goes and is detached.
LEMMA WriterKept ==
    ASSUME NEW h \in Handlers, WriterSound(h), pc'[h] = pc[h], chunk'[h] = chunk[h],
           Key(h) \in DOMAIN tmps' =>
               Key(h) \in DOMAIN tmps /\ tmps'[Key(h)] = tmps[Key(h)],
           pc[h] = "write" =>
               fd'[h] = fd[h] \/ (fd'[h] # "patch" /\ Key(h) \notin DOMAIN tmps')
    PROVE  WriterSound(h)'
BY DEF WriterSound, Key

\* Emptying directories takes the files below them and detaches their writers.
LEMMA EmptyDirsWriters ==
    ASSUME DiskSound, NEW F, EmptyDirs(F), NEW h \in Handlers, pc'[h] = pc[h], chunk'[h] = chunk[h]
    PROVE  WriterSound(h)'
<1>1. /\ tmps' = Drop(tmps, KeysOf(F, tmps))
      /\ fd' = [g \in Handlers |->
                 IF fd[g] \in {"tmp", "patch"} /\ chunk[g].file_id \in F THEN "gone" ELSE fd[g]]
  BY DEF EmptyDirs, DetachPatches
<1>2. /\ DOMAIN tmps' = {k \in DOMAIN tmps : k[1] \notin F}
      /\ \A k \in DOMAIN tmps' : tmps'[k] = tmps[k]
  BY <1>1 DEF Drop, Restrict, KeysOf
<1>3. Key(h)[1] = chunk[h].file_id
  BY DEF Key
<1>4. fd'[h] = fd[h] \/ (fd'[h] = "gone" /\ Key(h) \notin DOMAIN tmps')
  BY <1>1, <1>2, <1>3
<1>. QED
  BY <1>2, <1>4, WriterKept DEF DiskSound

\* What is left is whole.
LEMMA DropFull ==
    ASSUME NEW g, AllFull(g), NEW S
    PROVE  AllFull(Drop(g, S))
BY DEF AllFull, Drop, Restrict

\* write_binary_file of one thread, among others on other paths.
LEMMA WriteDisk ==
    ASSUME HeadersAgree, IInv, Flow, NoResend, DiskSound, NEW h \in Handlers,
           OpenTmp(h) \/ WriteTmp(h) \/ RenameTmp(h)
    PROVE  DiskSound'
<1>1. pc[h] \in {"open", "write", "rename"} /\ chunk' = chunk /\ WriterSound(h)
  BY DEF OpenTmp, WriteTmp, RenameTmp, DiskSound
<1>2. \A g \in Handlers \ {h} : pc'[g] = pc[g]
  BY OwnLocals DEF HandlerStep
<1>3. fd \in [Handlers -> {"none", "tmp", "patch", "part", "file", "gone"}]
  BY DEF IInv, TypeOK
<1>4. ASSUME NEW g \in Handlers, g # h PROVE WriterSound(g)'
  <2>1. CASE pc[g] \in {"write", "rename"}
    <3>1. Key(g) # Key(h)
      BY <1>1, <1>4, <2>1, KeysDiffer
    <3>2. Key(g) \in DOMAIN tmps' => Key(g) \in DOMAIN tmps /\ tmps'[Key(g)] = tmps[Key(g)]
      BY <3>1 DEF OpenTmp, WriteTmp, RenameTmp, Put, Drop, Restrict
    <3>3. pc[g] = "write" => fd'[g] = fd[g]
      <4>1. WriterSound(g)
        BY DEF DiskSound
      <4>2. CASE OpenTmp(h)
        BY <1>3, <1>4, <4>2 DEF OpenTmp
      <4>3. CASE WriteTmp(h)
        BY <1>3, <1>4, <3>1, <4>3 DEF WriteTmp
      <4>4. CASE RenameTmp(h)
        BY <1>3, <1>4, <3>1, <4>1, <4>4 DEF RenameTmp, WriterSound
      <4>. QED
        BY <4>2, <4>3, <4>4
    <3>. QED
      BY <1>1, <1>2, <1>4, <3>2, <3>3, WriterKept DEF DiskSound
  <2>2. CASE pc[g] \notin {"write", "rename"}
    BY <1>2, <1>4, <2>2 DEF WriterSound
  <2>. QED
    BY <2>1, <2>2
<1>5. CASE OpenTmp(h)
  <2>1. patches' = patches /\ pc'[h] \in {"write", "reply"}
    BY <1>5, Goes DEF OpenTmp
  <2>2. pc'[h] = "write" => fd'[h] = "tmp"
    BY <1>3, <1>5, <2>1, Goes DEF OpenTmp
  <2>3. WriterSound(h)'
    BY <2>1, <2>2 DEF WriterSound
  <2>. QED
    BY <1>4, <2>1, <2>3 DEF DiskSound
<1>6. CASE WriteTmp(h)
  <2>1. pc[h] = "write" /\ Payload(chunk[h]) = "full"
    <3>1. pc[h] = "write"
      BY <1>6 DEF WriteTmp
    <3>2. chunk[h].crc_ok
      BY <3>1, CarriedChunk DEF Carries
    <3>. QED
      BY <3>1, <3>2 DEF Payload
  <2>2. fd[h] # "patch" /\ (Key(h) \in DOMAIN tmps => fd[h] = "tmp")
    BY <1>1, <2>1 DEF WriterSound
  <2>3. patches' = patches
    BY <1>6, <2>2 DEF WriteTmp
  <2>4. pc'[h] \in {"rename", "reply"}
    BY <1>6, Goes DEF WriteTmp
  <2>5. pc'[h] = "rename" =>
           tmps' = IF fd[h] = "tmp" THEN Put(tmps, Key(h), "full") ELSE tmps
    BY <1>6, <2>1, Goes DEF WriteTmp
  <2>6. pc'[h] = "rename" /\ Key(h) \in DOMAIN tmps' => tmps'[Key(h)] = "full"
    BY <2>2, <2>5 DEF Put
  <2>7. WriterSound(h)'
    BY <1>1, <2>4, <2>6 DEF WriterSound, Key
  <2>. QED
    BY <1>4, <2>3, <2>7 DEF DiskSound
<1>7. CASE RenameTmp(h)
  <2>1. pc[h] = "rename" /\ pc'[h] \in {"lock", "reply"}
    BY <1>7, Goes DEF RenameTmp
  <2>2. \/ patches' = patches
        \/ Key(h) \in DOMAIN tmps /\ patches' = Put(patches, Key(h), tmps[Key(h)])
    BY <1>7 DEF RenameTmp
  <2>3. AllFull(patches')
    BY <1>1, <2>1, <2>2 DEF DiskSound, WriterSound, AllFull, Put
  <2>4. WriterSound(h)'
    BY <2>1 DEF WriterSound
  <2>. QED
    BY <1>4, <2>3, <2>4 DEF DiskSound, AllFull
<1>. QED
  BY <1>5, <1>6, <1>7

\* Steps that leave the .tmp and patch files alone and touch no writer's descriptor.
LEMMA DiskKept ==
    ASSUME DiskSound, UNCHANGED <<tmps, patches>>,
           \A h \in Handlers :
               pc'[h] \in {"write", "rename"} =>
                   pc'[h] = pc[h] /\ chunk'[h] = chunk[h] /\ (pc[h] = "write" => fd'[h] = fd[h])
    PROVE  DiskSound'
BY WriterKept DEF DiskSound, AllFull, WriterSound

LEMMA NextDisk ==
    ASSUME HeadersAgree, IInv, Flow, NoResend, DiskSound, [Next]_vars
    PROVE  DiskSound'
<1>1. fd \in [Handlers -> {"none", "tmp", "patch", "part", "file", "gone"}]
  BY DEF IInv, TypeOK
<1>2. \A h \in Handlers : fd[h] \in {"part", "file"} => pc[h] # "write"
  BY DEF IInv, DescriptorsAttached
<1>3. ASSUME NEW F, EmptyDirs(F), \A h \in Handlers : pc'[h] \in {"write", "rename"} =>
                                     pc'[h] = pc[h] /\ chunk'[h] = chunk[h]
      PROVE  DiskSound'
  <2>1. AllFull(patches')
    BY <1>3, DropFull DEF EmptyDirs, DiskSound
  <2>2. \A h \in Handlers : WriterSound(h)'
    BY <1>3, EmptyDirsWriters DEF WriterSound
  <2>. QED
    BY <2>1, <2>2 DEF DiskSound, AllFull
<1>4. ASSUME NEW h \in Handlers, HandlerStep(h) PROVE DiskSound'
  <2>1. \A g \in Handlers : g # h => pc'[g] = pc[g] /\ chunk'[g] = chunk[g]
    BY <1>4, OwnLocals
  <2>2. CASE OpenTmp(h) \/ WriteTmp(h) \/ RenameTmp(h)
    BY <2>2, WriteDisk
  <2>3. CASE RemovePatches(h)
    <3>1. pc'[h] \in {"rmdir", "mark"}
      BY <2>3, Goes DEF RemovePatches
    <3>2. CASE EmptyDirs({chunk[h].file_id})
      BY <1>3, <2>1, <3>1, <3>2
    <3>3. CASE UNCHANGED <<tmps, patches, fd>>
      BY <2>1, <3>1, <3>3, DiskKept
    <3>. QED
      BY <2>3, <3>2, <3>3 DEF RemovePatches
  <2>4. CASE AbortAssembly(h) \/ Publish(h)
    <3>1. pc'[h] \in {"reply", "remove"} /\ UNCHANGED <<tmps, patches>>
      BY <2>4, Goes DEF AbortAssembly, Publish, patchVars
    <3>2. \A g \in Handlers : g # h /\ pc[g] = "write" => fd'[g] = fd[g]
      BY <1>1, <1>2, <2>4 DEF AbortAssembly, Publish, MoveOutFds
    <3>. QED
      BY <2>1, <3>1, <3>2, DiskKept
  <2>5. CASE CreateDir(h) \/ UpdateEntry(h) \/ AssembleOpen(h) \/ AssembleChunk(h)
             \/ AssembleDone(h) \/ RemovePatchDir(h) \/ MarkPublished(h) \/ Reply(h)
    <3>1. pc'[h] \notin {"write", "rename"}
      <4>1. CASE AssembleChunk(h)
        <5>1. pc[h] = "copy" /\ (pc' = pc \/ Goto(h, "abort"))
          BY <4>1 DEF AssembleChunk
        <5>. QED
          BY <5>1, Goes
      <4>2. CASE UpdateEntry(h)
        <5>1. Goto(h, "assemble") \/ Goto(h, "reply")
          BY <4>2 DEF UpdateEntry
        <5>. QED
          BY <5>1, Goes
      <4>. QED
        BY <2>5, <4>1, <4>2, Goes
        DEF CreateDir, AssembleOpen, AssembleDone, RemovePatchDir, MarkPublished, Reply
    <3>2. UNCHANGED <<tmps, patches>>
      BY <2>5
      DEF CreateDir, UpdateEntry, AssembleOpen, AssembleChunk, AssembleDone,
          RemovePatchDir, MarkPublished, Reply, patchVars
    <3>3. \A g \in Handlers : g # h => fd'[g] = fd[g]
      BY <1>1, <2>5
      DEF CreateDir, UpdateEntry, AssembleOpen, AssembleChunk, AssembleDone,
          RemovePatchDir, MarkPublished, Reply
    <3>. QED
      BY <2>1, <3>1, <3>2, <3>3, DiskKept
  <2>. QED
    BY <1>4, <2>2, <2>3, <2>4, <2>5 DEF HandlerStep
<1>5. ASSUME NEW h \in Handlers, NEW d \in Headers, Receive(h, d) PROVE DiskSound'
  <2>1. /\ pc'[h] = "store" /\ \A g \in Handlers : g # h => pc'[g] = pc[g] /\ chunk'[g] = chunk[g]
        /\ UNCHANGED <<tmps, patches, fd>>
    BY <1>5, Goes, OwnLocals DEF Receive, patchVars
  <2>. QED
    BY <2>1, DiskKept
<1>6. CASE Background
  <2>1. UNCHANGED <<pc, chunk>>
    BY <1>6, BackgroundLocals
  <2>2. CASE CleanupExpired
    BY <1>3, <2>1, <2>2 DEF CleanupExpired, RemoveDirs
  <2>3. CASE RemoveFile
    <3>1. \A h \in Handlers : pc[h] = "write" => fd'[h] = fd[h]
      BY <1>1, <1>2, <2>3 DEF RemoveFile
    <3>. QED
      BY <2>1, <2>3, <3>1, DiskKept DEF RemoveFile, patchVars
  <2>4. CASE UNCHANGED <<tmps, patches, fd>>
    BY <2>1, <2>4, DiskKept
  <2>. QED
    BY <1>6, <2>2, <2>3, <2>4
    DEF Background, SweeperStep, BeginSweep, CheckFile, EndSweep, ControlStep, StoreDefaultTtl,
        UpdateEntryTtls, SetTtl, ReceiveFails, Tick, vars, patchVars, threadVars
<1>7. CASE CrashRestart
  BY <1>7 DEF CrashRestart, AllIdle, DiskSound, AllFull, WriterSound, patchVars
<1>. QED
  BY <1>4, <1>5, <1>6, <1>7, Steps

-----------------------------------------------------------------------------
(* What the assembler has written.                                         *)

\* The first n pieces of upload f.
Pieces(f, n) == [k \in 1..n |-> <<f, k - 1>>]

\* The thread's .part is its own and has what the thread has read so far.
OutSound(h) ==
    LET f == chunk[h].file_id
        n == chunk[h].name
        o == out[h]
    IN  /\ pc[h] = "copy" =>
              /\ fd[h] = "part" /\ n \in DOMAIN parts
              /\ o.wrote = o.idx /\ o.idx <= StreamLen[f]
              /\ o.pending <=> (o.idx # 0 /\ o.idx # StreamLen[f])
              /\ parts[n].content = Pieces(f, o.idx)
        /\ pc[h] = "publish" => n \in DOMAIN parts /\ parts[n].content = Original(f)

AllOutSound == \A h \in Handlers : OutSound(h)

\* Writing the next piece at the end.
LEMMA NextPiece ==
    ASSUME NEW f, NEW k \in Nat
    PROVE  WriteAt(Pieces(f, k), k, <<f, k>>) = Pieces(f, k + 1)
<1>1. Len(Pieces(f, k)) = k
  BY DEF Pieces
<1>2. WriteAt(Pieces(f, k), k, <<f, k>>) =
        [i \in 1..(k + 1) |-> CASE i = k + 1 -> <<f, k>>
                                [] i # k + 1 /\ i <= k -> Pieces(f, k)[i]
                                [] OTHER -> Junk]
  BY <1>1 DEF WriteAt
<1>3. ASSUME NEW i \in 1..(k + 1)
      PROVE  (CASE i = k + 1 -> <<f, k>>
                [] i # k + 1 /\ i <= k -> Pieces(f, k)[i]
                [] OTHER -> Junk) = <<f, i - 1>>
  BY <1>3 DEF Pieces
<1>. QED
  BY <1>2, <1>3 DEF Pieces

\* A thread's output stays sound while the file and the descriptor do.
LEMMA OutKept ==
    ASSUME NEW h \in Handlers, OutSound(h),
           pc'[h] \in {"copy", "publish"} =>
               /\ pc'[h] = pc[h] /\ chunk'[h] = chunk[h] /\ out'[h] = out[h]
               /\ pc[h] = "copy" => fd'[h] = fd[h]
               /\ chunk[h].name \in DOMAIN parts =>
                    /\ chunk[h].name \in DOMAIN parts'
                    /\ parts'[chunk[h].name].content = parts[chunk[h].name].content
    PROVE  OutSound(h)'
BY DEF OutSound

\* A record's name is its chunk's.
LEMMA RecordName ==
    ASSUME Flow, NEW h \in Handlers, pc[h] \in Assembling
    PROVE  /\ record[h].name = chunk[h].name
           /\ record[h].total = StreamLen[chunk[h].file_id]
           /\ record[h].received = Indices(chunk[h].file_id)
<1>1. record[h] = WholeRecord(chunk[h])
  BY DEF Flow, ThreadSound
<1>. QED
  BY <1>1 DEF WholeRecord

\* A step on the output of one thread leaves those of the others alone.
LEMMA OthersOut ==
    ASSUME IInv, Flow, AllAlone, AllOutSound, NEW h \in Handlers, pc[h] \in Assembling,
           AssembleOpen(h) \/ AssembleChunk(h) \/ AssembleDone(h) \/ AbortAssembly(h) \/ Publish(h),
           NEW g \in Handlers, g # h
    PROVE  OutSound(g)'
<1>. SUFFICES ASSUME pc'[g] \in {"copy", "publish"} PROVE OutSound(g)'
  BY DEF OutSound
<1>1. /\ pc'[g] = pc[g] /\ chunk'[g] = chunk[g] /\ out'[g] = out[g]
  BY OwnLocals DEF HandlerStep
<1>2. pc[g] \in Assembling
  BY <1>1 DEF Assembling
<1>3. /\ record[h].name = chunk[h].name /\ record[g].name = chunk[g].name
      /\ chunk[g].name # chunk[h].name
  BY <1>2, RecordName DEF AllAlone, Alone
<1>4. fd \in [Handlers -> {"none", "tmp", "patch", "part", "file", "gone"}]
  BY DEF IInv, TypeOK
<1>5. OutSound(g)
  BY DEF AllOutSound
<1>6. ASSUME chunk[g].name \in DOMAIN parts
      PROVE  /\ chunk[g].name \in DOMAIN parts'
             /\ parts'[chunk[g].name].content = parts[chunk[g].name].content
  <2>1. CASE AssembleOpen(h)
    BY <1>3, <1>6, <2>1 DEF AssembleOpen, OpenPart, Put
  <2>2. CASE AssembleChunk(h)
    <3>1. parts' = parts \/ \E z : WritePiece(h, z)
      BY <2>2 DEF AssembleChunk, outVars
    <3>. QED
      BY <1>3, <1>6, <3>1 DEF WritePiece
  <2>3. CASE AssembleDone(h)
    BY <1>6, <2>3 DEF AssembleDone, outVars
  <2>4. CASE AbortAssembly(h) \/ Publish(h)
    BY <1>3, <1>6, <2>4 DEF AbortAssembly, Publish, Drop, Restrict, outVars
  <2>. QED
    BY <2>1, <2>2, <2>3, <2>4
<1>7. pc[g] = "copy" => fd'[g] = fd[g]
  BY <1>3, <1>4 DEF AssembleOpen, AssembleChunk, AssembleDone, AbortAssembly, Publish, MoveOutFds
<1>. QED
  BY <1>1, <1>5, <1>6, <1>7, OutKept

\* The loop of the assembler: the next piece, or an error.
LEMMA CopyOut ==
    ASSUME IInv, Flow, DiskSound, NEW h \in Handlers, OutSound(h), AssembleChunk(h)
    PROVE  OutSound(h)'
<1>. DEFINE f == chunk[h].file_id
            n == chunk[h].name
            o == out[h]
            k == <<f, o.idx>>
<1>1. pc[h] = "copy" /\ pc[h] \in Assembling /\ chunk' = chunk /\ fd' = fd
  BY DEF AssembleChunk, Assembling
<1>2. /\ record[h].name = n /\ record[h].total = StreamLen[f]
      /\ o.idx \in Nat /\ f \in FileIds /\ StreamLen[f] \in Nat /\ o.idx < StreamLen[f]
  <2>1. o.idx < record[h].total
    BY DEF AssembleChunk
  <2>. QED
    BY <1>1, <2>1, RecordName, RecordType, ServerAssumption
<1>3. /\ fd[h] = "part" /\ n \in DOMAIN parts /\ o.wrote = o.idx
      /\ parts[n].content = Pieces(f, o.idx)
  BY <1>1 DEF OutSound
<1>4. out \in [Handlers -> [idx : Nat, wrote : Nat, pending : BOOLEAN]]
  BY DEF IInv, TypeOK
<1>5. CASE Goto(h, "abort")
  <2>1. pc'[h] = "abort"
    BY <1>5, Goes
  <2>. QED
    BY <2>1 DEF OutSound
<1>6. ASSUME k \in DOMAIN patches, pc' = pc,
             NEW z \in Decompress(f, o, patches[k]), WritePiece(h, z.piece),
             out' = [out EXCEPT ![h] = [idx |-> o.idx + 1, wrote |-> o.wrote + 1,
                                        pending |-> z.pending]]
      PROVE  OutSound(h)'
  <2>1. patches[k] = "full"
    BY <1>6 DEF DiskSound, AllFull
  <2>2. z = [ok |-> TRUE, piece |-> <<f, o.idx>>, pending |-> o.idx + 1 # StreamLen[f]]
    BY <1>3, <1>6, <2>1 DEF Decompress
  <2>3. z.piece = <<f, o.idx>> /\ (z.pending <=> o.idx + 1 # StreamLen[f])
    BY <2>2, Zenon
  <2>4. parts' = [parts EXCEPT ![n] = [content |-> WriteAt(parts[n].content, o.wrote, z.piece),
                                       age |-> 0]]
    BY <1>2, <1>3, <1>6 DEF WritePiece
  <2>5. parts'[n].content = Pieces(f, o.idx + 1) /\ n \in DOMAIN parts'
    BY <1>2, <1>3, <2>3, <2>4, NextPiece
  <2>6. /\ out'[h].idx = o.idx + 1 /\ out'[h].wrote = o.idx + 1 /\ out'[h].pending = z.pending
    BY <1>3, <1>4, <1>6
  <2>7. o.idx + 1 # 0 /\ o.idx + 1 <= StreamLen[f]
    BY <1>2
  <2>. QED
    BY <1>1, <1>3, <1>6, <2>3, <2>5, <2>6, <2>7 DEF OutSound
<1>7. ~(k \in DOMAIN patches /\ patches[k] = "empty")
  BY DEF DiskSound, AllFull
<1>. QED
  BY <1>5, <1>6, <1>7 DEF AssembleChunk

LEMMA NextOut ==
    ASSUME IInv, Flow, AllAlone, DiskSound, AllOutSound, [Next]_vars
    PROVE  AllOutSound'
<1>1. fd \in [Handlers -> {"none", "tmp", "patch", "part", "file", "gone"}]
  BY DEF IInv, TypeOK
<1>2. \A h \in Handlers : OutSound(h)
  BY DEF AllOutSound
<1>3. ASSUME NEW h \in Handlers,
             AssembleOpen(h) \/ AssembleChunk(h) \/ AssembleDone(h) \/ AbortAssembly(h) \/ Publish(h)
      PROVE  AllOutSound'
  <2>1. pc[h] \in Assembling /\ chunk' = chunk
    BY <1>3 DEF AssembleOpen, AssembleChunk, AssembleDone, AbortAssembly, Publish, Assembling
  <2>2. ASSUME AssembleOpen(h) PROVE OutSound(h)'
    <3>1. pc'[h] = "copy" \/ pc'[h] = "reply"
      BY <2>2, Goes DEF AssembleOpen
    <3>2. pc'[h] = "copy" =>
             /\ parts' = OpenPart(chunk[h].name) /\ fd'[h] = "part"
             /\ out'[h] = [idx |-> 0, wrote |-> 0, pending |-> FALSE]
      <4>1. pc'[h] = "copy" =>
               /\ parts' = OpenPart(record[h].name) /\ fd' = [fd EXCEPT ![h] = "part"]
               /\ out' = [out EXCEPT ![h] = [idx |-> 0, wrote |-> 0, pending |-> FALSE]]
        BY <2>2, Goes DEF AssembleOpen
      <4>. QED
        BY <1>1, <2>1, <4>1, RecordName DEF IInv, TypeOK
    <3>3. StreamLen[chunk[h].file_id] \in Nat \ {0}
      BY <2>1, RecordType, ServerAssumption
    <3>4. Pieces(chunk[h].file_id, 0) = <<>>
      BY DEF Pieces
    <3>. QED
      BY <2>1, <3>1, <3>2, <3>3, <3>4 DEF OutSound, OpenPart, Put
  <2>3. ASSUME AssembleDone(h) PROVE OutSound(h)'
    <3>1. pc'[h] = "publish" \/ pc'[h] = "abort"
      BY <2>3, Goes DEF AssembleDone
    <3>2. pc[h] = "copy" /\ out[h].idx = StreamLen[chunk[h].file_id]
      BY <2>1, <2>3, RecordName DEF AssembleDone
    <3>3. parts' = parts
      BY <2>3 DEF AssembleDone, outVars
    <3>. QED
      BY <1>2, <2>1, <3>1, <3>2, <3>3 DEF OutSound, Pieces, Original
  <2>4. ASSUME AbortAssembly(h) \/ Publish(h) PROVE OutSound(h)'
    <3>1. pc'[h] \in {"reply", "remove"}
      BY <2>4, Goes DEF AbortAssembly, Publish
    <3>. QED
      BY <3>1 DEF OutSound
  <2>5. OutSound(h)'
    BY <1>2, <1>3, <2>2, <2>3, <2>4, CopyOut DEF OutSound
  <2>6. \A g \in Handlers : g # h => OutSound(g)'
    BY <1>3, <2>1, OthersOut DEF OutSound
  <2>. QED
    BY <2>5, <2>6 DEF AllOutSound, OutSound
<1>4. ASSUME NEW h \in Handlers,
             \/ CreateDir(h) \/ OpenTmp(h) \/ WriteTmp(h) \/ RenameTmp(h) \/ UpdateEntry(h)
             \/ RemovePatches(h) \/ RemovePatchDir(h) \/ MarkPublished(h) \/ Reply(h)
             \/ \E d \in Headers : Receive(h, d)
      PROVE  AllOutSound'
  <2>1. \A g \in Handlers : g # h =>
           pc'[g] = pc[g] /\ chunk'[g] = chunk[g] /\ out'[g] = out[g]
    BY <1>4, OwnLocals DEF HandlerStep
  <2>2. pc'[h] \notin {"copy", "publish"}
    <3>1. CASE UpdateEntry(h)
      <4>1. Goto(h, "assemble") \/ Goto(h, "reply")
        BY <3>1 DEF UpdateEntry
      <4>. QED
        BY <4>1, Goes
    <3>. QED
      BY <1>4, <3>1, Goes
      DEF CreateDir, OpenTmp, WriteTmp, RenameTmp, RemovePatches,
          RemovePatchDir, MarkPublished, Reply, Receive
  <2>3. parts' = parts
    BY <1>4
    DEF CreateDir, OpenTmp, WriteTmp, RenameTmp, UpdateEntry, RemovePatches,
        RemovePatchDir, MarkPublished, Reply, Receive, outVars
  <2>4. \A g \in Handlers : g # h /\ fd[g] = "part" => fd'[g] = fd[g]
    BY <1>1, <1>4
    DEF CreateDir, OpenTmp, WriteTmp, RenameTmp, UpdateEntry, RemovePatches, EmptyDirs,
        DetachPatches, RemovePatchDir, MarkPublished, Reply, Receive
  <2>5. \A g \in Handlers : OutSound(g)'
    BY <1>2, <2>1, <2>2, <2>3, <2>4, OutKept DEF OutSound
  <2>. QED
    BY <2>5 DEF AllOutSound, OutSound
<1>5. CASE Background
  <2>1. UNCHANGED <<pc, chunk, out>>
    BY <1>5, BackgroundLocals
  <2>2. \A n \in DOMAIN parts : n \in DOMAIN parts' /\ parts'[n].content = parts[n].content
    <3>1. CASE Tick
      <4>1. \A n \in DOMAIN parts : parts[n] \in OutFile
        BY DEF IInv, TypeOK, IsMap
      <4>. QED
        BY <3>1, <4>1 DEF Tick, OutFile
    <3>. QED
      BY <1>5, <3>1
      DEF Background, SweeperStep, BeginSweep, CleanupExpired, CheckFile, RemoveFile, EndSweep,
          ControlStep, StoreDefaultTtl, UpdateEntryTtls, SetTtl, ReceiveFails, vars, outVars
  <2>3. \A h \in Handlers : fd[h] = "part" => fd'[h] = fd[h]
    BY <1>1, <1>5
    DEF Background, SweeperStep, BeginSweep, CleanupExpired, RemoveDirs, EmptyDirs, DetachPatches,
        CheckFile, RemoveFile, EndSweep, ControlStep, StoreDefaultTtl, UpdateEntryTtls, SetTtl,
        ReceiveFails, Tick, vars, threadVars
  <2>4. \A h \in Handlers : OutSound(h)'
    BY <1>2, <2>1, <2>2, <2>3, OutKept DEF OutSound
  <2>. QED
    BY <2>4 DEF AllOutSound, OutSound
<1>6. CASE CrashRestart
  BY <1>6 DEF CrashRestart, AllIdle, AllOutSound, OutSound
<1>. QED
  BY <1>3, <1>4, <1>5, <1>6, Steps DEF HandlerStep

-----------------------------------------------------------------------------
(* Published files.                                                        *)

\* Publish is the only step that makes a file, and nothing writes into one.
LEMMA NextPublished ==
    ASSUME IInv, Flow, AllOutSound, PublishedIntact, [Next]_vars
    PROVE  PublishedIntact'
<1>. SUFFICES ASSUME NEW n \in DOMAIN files'
              PROVE  \E f \in FileIds : files'[n].content = Original(f)
  BY DEF PublishedIntact
<1>1. CASE n \in DOMAIN files /\ files'[n].content = files[n].content
  BY <1>1 DEF PublishedIntact
<1>2. ASSUME NEW h \in Handlers, HandlerStep(h)
      PROVE  \/ n \in DOMAIN files /\ files'[n].content = files[n].content
             \/ \E f \in FileIds : files'[n].content = Original(f)
  <2>1. CASE Publish(h)
    <3>1. pc[h] = "publish" /\ pc[h] \in Assembling
      BY <2>1 DEF Publish, Assembling
    <3>2. /\ record[h].name = chunk[h].name /\ chunk[h].file_id \in FileIds
          /\ parts[chunk[h].name].content = Original(chunk[h].file_id)
      BY <3>1, RecordName, RecordType DEF AllOutSound, OutSound
    <3>. QED
      BY <2>1, <3>2 DEF Publish, Put, outVars
  <2>2. CASE AssembleChunk(h)
    <3>1. pc[h] = "copy" /\ fd[h] = "part"
      BY <2>2 DEF AssembleChunk, AllOutSound, OutSound
    <3>. QED
      BY <2>2, <3>1 DEF AssembleChunk, WritePiece, outVars
  <2>. QED
    BY <1>2, <2>1, <2>2
    DEF HandlerStep, CreateDir, OpenTmp, WriteTmp, RenameTmp, UpdateEntry, AssembleOpen,
        AssembleDone, AbortAssembly, RemovePatches, RemovePatchDir, MarkPublished, Reply, outVars
<1>3. CASE Tick
  <2>1. \A m \in DOMAIN files : files[m] \in OutFile
    BY DEF IInv, TypeOK, IsMap
  <2>2. n \in DOMAIN files /\ files'[n].content = files[n].content
    BY <1>3, <2>1 DEF Tick, OutFile
  <2>. QED
    BY <1>1, <2>2
<1>4. CASE RemoveFile
  BY <1>1, <1>4 DEF RemoveFile, Drop, Restrict
<1>5. CASE UNCHANGED files
  BY <1>1, <1>5
<1>6. CASE Background
  BY <1>3, <1>4, <1>5, <1>6
  DEF Background, SweeperStep, BeginSweep, CleanupExpired, CheckFile, EndSweep,
      ControlStep, StoreDefaultTtl, UpdateEntryTtls, SetTtl, ReceiveFails, vars, outVars
<1>. QED
  BY <1>1, <1>2, <1>5, <1>6, Steps DEF Receive, CrashRestart, outVars

\* An upload on its way through the server.
Delivery == Flow /\ AllAlone /\ DiskSound /\ AllOutSound /\ PublishedIntact

LEMMA InitDelivery == Init => Delivery
BY DEF Init, EmptyMap, AllIdle, Delivery, Flow, ThreadSound, AllAlone, Alone, DiskSound, AllFull,
       WriterSound, AllOutSound, OutSound, PublishedIntact, Assembling

LEMMA NextDelivery ==
    ASSUME HeadersAgree, IInv, NoResend, Delivery, [Next]_vars
    PROVE  Delivery'
BY NextFlow, NextAlone, NextDisk, NextOut, NextPublished DEF Delivery

\* As long as nobody sends a chunk again, or another version of the file,
\* while a chunk of it is on its way, a file under its final name is one whole
\* upload: through any number of crashes, restarts, expiries and failing
\* system calls, and however the connections of the upload interleave
\* (Assembler::assemble, Storage::store_chunk).
THEOREM PublishedWhole ==
    ASSUME HeadersAgree
    PROVE  Spec /\ []NoResend => []PublishedIntact
<1>1. Init => Delivery
  BY InitDelivery
<1>2. IInv /\ NoResend /\ Delivery /\ [Next]_vars => Delivery'
  BY NextDelivery
<1>3. Delivery => PublishedIntact
  BY DEF Delivery
<1>. QED
  BY <1>1, <1>2, <1>3, Inductive, PTL DEF Spec

\* With one connection served at a time, clients may send what they like as
\* often as they like.
THEOREM SerialPublishedWhole ==
    ASSUME HeadersAgree, \A g, h \in Handlers : g = h
    PROVE  Spec => []PublishedIntact
<1>1. IInv => NoResend
  BY DEF NoResend
<1>. QED
  BY <1>1, Inductive, PublishedWhole, PTL

-----------------------------------------------------------------------------
(* Clients that send every chunk once.                                     *)

\* A header is sent once, an upload has one undamaged header per chunk, and
\* no two uploads are versions of one file.
OnceEach ==
    /\ MaxDeliveries = 1
    /\ \A d, e \in Headers : d.crc_ok /\ e.crc_ok =>
          /\ d.file_id = e.file_id /\ d.index = e.index => d = e
          /\ d.name = e.name => d.file_id = e.file_id

\* A thread has its chunk for itself, and brings it before the table has it.
Owns(h) ==
    Carries(h) =>
        /\ chunk[h] \in Headers /\ deliveries[chunk[h]] = 1
        /\ \A g \in Handlers \ {h} : Carries(g) => chunk[g] # chunk[h]
        /\ pc[h] \in Incoming => chunk[h].index \notin Received(chunk[h].file_id)

\* What the table has was sent.
Spent ==
    /\ \A f \in DOMAIN payloads : payloads[f].received # {}
    /\ \A d \in Headers :
          d.crc_ok /\ d.index \in Received(d.file_id) => deliveries[d] = 1

Once == Spent /\ \A h \in Handlers : Owns(h)

LEMMA OnceIsNoResend ==
    ASSUME OnceEach, Once
    PROVE  NoResend
<1>. SUFFICES ASSUME NEW g \in Handlers, NEW h \in Handlers, g # h, Carries(g), Carries(h),
                     chunk[g].name = chunk[h].name
              PROVE  /\ chunk[g].file_id = chunk[h].file_id
                     /\ chunk[g].index # chunk[h].index
                     /\ pc[h] \in Incoming => chunk[h].index \notin Received(chunk[h].file_id)
  BY DEF NoResend
<1>1. /\ chunk[g] \in Headers /\ chunk[h] \in Headers /\ chunk[g] # chunk[h]
      /\ chunk[g].crc_ok /\ chunk[h].crc_ok
  BY DEF Once, Owns, Carries
<1>. QED
  BY <1>1 DEF OnceEach, Once, Owns

\* The counters only count up.
LEMMA CountsUp ==
    ASSUME IInv, OnceEach, [Next]_vars, NEW d \in Headers, deliveries[d] = 1
    PROVE  deliveries'[d] = 1
<1>. USE DEF OnceEach
<1>1. deliveries \in [Headers -> 0..MaxDeliveries]
  BY DEF IInv, TypeOK
<1>2. CASE \E e \in Headers : ReceiveFails(e) \/ \E h \in Handlers : Receive(h, e)
  BY <1>1, <1>2 DEF ReceiveFails, Receive
<1>3. ASSUME NEW h \in Handlers, HandlerStep(h) PROVE UNCHANGED deliveries
  BY <1>3
  DEF HandlerStep, CreateDir, OpenTmp, WriteTmp, RenameTmp, UpdateEntry, AssembleOpen,
      AssembleChunk, AssembleDone, AbortAssembly, Publish, RemovePatches,
      RemovePatchDir, MarkPublished, Reply, boundVars
<1>4. CASE \/ SweeperStep \/ Tick \/ CrashRestart \/ UNCHANGED vars
           \/ \E c \in Controllers : ControlStep(c) \/ \E v \in NewTtls : SetTtl(c, v)
  BY <1>4
  DEF SweeperStep, BeginSweep, CleanupExpired, CheckFile, RemoveFile, EndSweep, ControlStep,
      StoreDefaultTtl, UpdateEntryTtls, SetTtl, Tick, CrashRestart, vars, boundVars
<1>. QED
  BY <1>2, <1>3, <1>4 DEF Next

\* A thread that has emptied its patch directory.
Emptied == {"rmdir", "mark"}

\* Where a connection's steps after the first lead.
LEMMA Onwards ==
    ASSUME HeadersAgree, IInv, Flow, NEW h \in Handlers, HandlerStep(h)
    PROVE  /\ Carries(h)' => Carries(h) /\ chunk'[h] = chunk[h]
           /\ pc'[h] \in Incoming => pc[h] \in Incoming
           /\ pc'[h] = "lock" => RenameTmp(h)
           /\ pc'[h] \in Emptied => RemovePatches(h) \/ RemovePatchDir(h)
<1>1. CASE CreateDir(h) \/ OpenTmp(h) \/ WriteTmp(h) \/ RenameTmp(h) \/ UpdateEntry(h)
  <2>1. pc[h] \in Incoming /\ chunk' = chunk
    BY <1>1 DEF CreateDir, OpenTmp, WriteTmp, RenameTmp, UpdateEntry, Incoming
  <2>2. /\ pc'[h] = "lock" => RenameTmp(h)
        /\ pc'[h] \notin Emptied
    <3>1. CASE UpdateEntry(h)
      <4>1. Goto(h, "assemble") \/ Goto(h, "reply")
        BY <3>1 DEF UpdateEntry
      <4>. QED
        BY <4>1, Goes DEF Emptied
    <3>. QED
      BY <1>1, <3>1, Goes DEF CreateDir, OpenTmp, WriteTmp, RenameTmp, Emptied
  <2>. QED
    BY <2>1, <2>2 DEF Carries
<1>2. CASE AssembleOpen(h) \/ AssembleChunk(h) \/ AssembleDone(h) \/ AbortAssembly(h)
           \/ Publish(h) \/ RemovePatches(h) \/ RemovePatchDir(h) \/ MarkPublished(h)
  <2>1. pc[h] \in Assembling /\ chunk' = chunk
    BY <1>2
    DEF AssembleOpen, AssembleChunk, AssembleDone, AbortAssembly, Publish, RemovePatches,
        RemovePatchDir, MarkPublished, Assembling
  <2>2. /\ pc'[h] \notin Incoming
        /\ pc'[h] \in Emptied => RemovePatches(h) \/ RemovePatchDir(h)
    <3>1. CASE AssembleChunk(h)
      <4>1. pc[h] = "copy" /\ (pc' = pc \/ Goto(h, "abort"))
        BY <3>1 DEF AssembleChunk
      <4>. QED
        BY <4>1, Goes DEF Incoming, Emptied
    <3>. QED
      BY <1>2, <3>1, Goes
      DEF AssembleOpen, AssembleDone, AbortAssembly, Publish, RemovePatches,
          RemovePatchDir, MarkPublished, Incoming, Emptied
  <2>3. pc'[h] # "lock"
    BY <2>2 DEF Incoming
  <2>. QED
    BY <2>1, <2>2, <2>3 DEF Carries
<1>3. CASE Reply(h)
  <2>1. pc'[h] = "idle"
    BY <1>3, Goes DEF Reply
  <2>. QED
    BY <2>1 DEF Carries, Incoming, Assembling, Emptied
<1>. QED
  BY <1>1, <1>2, <1>3 DEF HandlerStep

\* A step after which no thread carries, or is to store, anything new.
Calmer ==
    \A h \in Handlers :
        /\ Carries(h)' => Carries(h) /\ chunk'[h] = chunk[h]
        /\ pc'[h] \in Incoming => pc[h] \in Incoming

LEMMA HandlerCalmer ==
    ASSUME HeadersAgree, IInv, Flow, NEW h \in Handlers, HandlerStep(h)
    PROVE  Calmer
BY Onwards, OwnLocals DEF Calmer, Carries

LEMMA BackgroundCalmer ==
    ASSUME Background
    PROVE  Calmer
BY BackgroundLocals DEF Calmer, Carries

LEMMA CrashCalmer ==
    ASSUME CrashRestart
    PROVE  Calmer /\ \A h \in Handlers : ~Carries(h)'
BY DEF CrashRestart, AllIdle, Calmer, Carries, Incoming, Assembling

\* Nothing new comes to the table.
LEMMA OnceCalmer ==
    ASSUME IInv, OnceEach, Once, [Next]_vars, Calmer,
           \A f \in DOMAIN payloads' : payloads'[f].received # {},
           \A f : Received(f)' = Received(f) \/ Received(f)' = {}
    PROVE  Once'
<1>1. ASSUME NEW h \in Handlers PROVE Owns(h)'
  <2>. DEFINE d == chunk[h]
  <2>1. CASE Carries(h)'
    <3>1. /\ Carries(h) /\ chunk'[h] = d /\ Owns(h)
          /\ pc'[h] \in Incoming => pc[h] \in Incoming
      BY <2>1 DEF Calmer, Once
    <3>2. d \in Headers /\ deliveries'[d] = 1
      BY <3>1, CountsUp DEF Owns
    <3>3. \A g \in Handlers \ {h} : Carries(g)' => chunk'[g] # d
      BY <3>1 DEF Calmer, Owns
    <3>4. pc'[h] \in Incoming => d.index \notin Received(d.file_id)'
      BY <3>1 DEF Owns
    <3>. QED
      BY <3>1, <3>2, <3>3, <3>4 DEF Owns, Received
  <2>. QED
    BY <2>1 DEF Owns
<1>2. ASSUME NEW d \in Headers, d.crc_ok, d.index \in Received(d.file_id)'
      PROVE  deliveries'[d] = 1
  BY <1>2, CountsUp DEF Once, Spent
<1>3. Spent'
  BY <1>2 DEF Spent, Received
<1>. QED
  BY <1>1, <1>3 DEF Once

\* The critical section adds the thread's own chunk, which no other thread has.
LEMMA OnceUpdateEntry ==
    ASSUME HeadersAgree, OnceEach, IInv, Flow, Once, NEW h \in Handlers, UpdateEntry(h)
    PROVE  Once'
<1>. DEFINE d == chunk[h]
            f == chunk[h].file_id
<1>1. pc[h] = "lock" /\ UNCHANGED <<chunk, deliveries>>
  BY DEF UpdateEntry
<1>2. /\ Carries(h) /\ d \in Headers /\ f \in FileIds /\ d.index \in Indices(f) /\ d.crc_ok
      /\ d.index < d.total
  BY <1>1, CarriedChunk DEF Carries, Flow, ThreadSound
<1>3. /\ NewEntry(d).received = Received(f) \cup {d.index}
      /\ payloads' = Put(payloads, f, NewEntry(d))
  BY <1>2, NewEntrySound DEF UpdateEntry
<1>4. /\ Received(f)' = Received(f) \cup {d.index}
      /\ \A i : i # f => Received(i)' = Received(i)
  BY <1>1, <1>3 DEF Put, Received
<1>5. Calmer /\ pc'[h] \notin Incoming
  <2>1. Goto(h, "assemble") \/ Goto(h, "reply")
    BY DEF UpdateEntry
  <2>. QED
    BY <2>1, HandlerCalmer, Goes DEF HandlerStep, Incoming
<1>6. Owns(h)
  BY DEF Once
<1>7. ASSUME NEW g \in Handlers, Carries(g)' PROVE Owns(g)'
  <2>1. Carries(g) /\ Owns(g)
    BY <1>7, <1>5 DEF Calmer, Once
  <2>2. \A i \in Handlers \ {g} : Carries(i)' => chunk[i] # chunk[g]
    BY <1>5, <2>1 DEF Calmer, Owns
  <2>3. pc'[g] \in Incoming => chunk[g].index \notin Received(chunk[g].file_id)'
    <3>1. CASE pc'[g] \in Incoming
      <4>1. g # h /\ pc[g] \in Incoming /\ chunk[g].index \notin Received(chunk[g].file_id)
        BY <1>5, <2>1, <3>1 DEF Calmer, Owns
      <4>2. chunk[g].file_id = f => chunk[g].index # d.index
        BY <1>2, <2>1, <4>1 DEF OnceEach, Owns, Carries
      <4>. QED
        BY <1>1, <1>4, <4>1, <4>2 DEF Received
    <3>. QED
      BY <3>1
  <2>. QED
    BY <1>1, <2>1, <2>2, <2>3 DEF Owns, Received
<1>8. ASSUME NEW e \in Headers, e.crc_ok, e.index \in Received(e.file_id)'
      PROVE  deliveries[e] = 1
  <2>1. CASE e.file_id = f /\ e.index = d.index
    BY <1>2, <1>6, <1>8, <2>1 DEF OnceEach, Owns
  <2>2. CASE e.index \in Received(e.file_id)
    BY <1>8, <2>2 DEF Once, Spent
  <2>. QED
    BY <1>1, <1>4, <1>8, <2>1, <2>2 DEF Received
<1>9. \A i \in DOMAIN payloads' : payloads'[i].received # {}
  BY <1>3 DEF Put, Once, Spent
<1>. QED
  BY <1>1, <1>7, <1>8, <1>9 DEF Once, Spent, Owns, Received

\* A chunk that comes in was not sent before.
LEMMA OnceReceive ==
    ASSUME OnceEach, IInv, Once, NEW h \in Handlers, NEW d \in Headers, Receive(h, d)
    PROVE  Once'
<1>1. /\ pc'[h] = "store" /\ chunk'[h] = d /\ UNCHANGED payloads
      /\ \A g \in Handlers : g # h => pc'[g] = pc[g] /\ chunk'[g] = chunk[g]
  BY Goes, OwnLocals DEF Receive, tableVars, IInv, TypeOK
<1>2. deliveries[d] = 0 /\ deliveries'[d] = 1 /\ \A e \in Headers : e # d => deliveries'[e] = deliveries[e]
  BY DEF Receive, OnceEach, IInv, TypeOK
<1>3. ASSUME NEW g \in Handlers, g # h, Carries(g)' PROVE Owns(g)'
  <2>1. Carries(g) /\ Owns(g)
    BY <1>1, <1>3 DEF Once, Carries
  <2>2. chunk[g] \in Headers /\ chunk[g] # d /\ deliveries'[chunk[g]] = 1
    BY <1>2, <2>1 DEF Owns
  <2>3. \A i \in Handlers \ {g} : Carries(i)' => chunk'[i] # chunk[g]
    BY <1>1, <2>1, <2>2 DEF Owns, Carries
  <2>. QED
    BY <1>1, <1>3, <2>1, <2>2, <2>3 DEF Owns, Received
<1>4. Owns(h)'
  <2>1. \A g \in Handlers \ {h} : Carries(g)' => chunk'[g] # d
    BY <1>1, <1>2 DEF Once, Owns, Carries
  <2>2. d.crc_ok => d.index \notin Received(d.file_id)
    BY <1>2 DEF Once, Spent
  <2>. QED
    BY <1>1, <1>2, <2>1, <2>2 DEF Owns, Received, Carries
<1>5. Spent'
  BY <1>1, <1>2 DEF Once, Spent, Received
<1>. QED
  BY <1>3, <1>4, <1>5 DEF Once, Owns

LEMMA NextOnce ==
    ASSUME HeadersAgree, OnceEach, IInv, Flow, Once, [Next]_vars
    PROVE  Once'
<1>1. ASSUME Shrunk, Calmer PROVE Once'
  <2>1. \A f : Received(f)' = Received(f) \/ Received(f)' = {}
    BY <1>1, ReceivedShrunk
  <2>2. \A f \in DOMAIN payloads' : payloads'[f].received # {}
    BY <1>1 DEF Shrunk, Once, Spent
  <2>. QED
    BY <1>1, <2>1, <2>2, OnceCalmer
<1>2. ASSUME NEW h \in Handlers, HandlerStep(h) PROVE Once'
  BY <1>1, <1>2, OnceUpdateEntry, HandlerTable, HandlerCalmer
<1>3. CASE Background
  BY <1>1, <1>3, BackgroundTable, BackgroundCalmer
<1>4. CASE CrashRestart
  <2>1. Shrunk
    BY <1>4 DEF CrashRestart, EmptyMap, Shrunk
  <2>. QED
    BY <1>1, <1>4, <2>1, CrashCalmer
<1>. QED
  BY <1>2, <1>3, <1>4, OnceReceive, Steps

\* Clients that send every chunk once, and every file once, get what they sent
\* published or nothing, whatever happens to the server.
THEOREM OncePublishedWhole ==
    ASSUME HeadersAgree, OnceEach
    PROVE  Spec => []PublishedIntact
<1>1. Init => Delivery /\ Once
  <2>1. Init => Once
    BY DEF Init, EmptyMap, AllIdle, Once, Spent, Owns, Received, Carries, Incoming, Assembling
  <2>. QED
    BY <2>1, InitDelivery
<1>2. IInv /\ Delivery /\ Once /\ [Next]_vars => (Delivery /\ Once)'
  BY NextDelivery, NextOnce, OnceIsNoResend DEF Delivery
<1>3. Delivery => PublishedIntact
  BY DEF Delivery
<1>. QED
  BY <1>1, <1>2, <1>3, Inductive, PTL DEF Spec

-----------------------------------------------------------------------------
(* A complete upload is being assembled.                                   *)

\* Chunk j of upload f was sent, and nobody brings it to the table any more.
Spoken(f, j) ==
    /\ \A d \in Headers : d.crc_ok /\ d.file_id = f /\ d.index = j => deliveries[d] = 1
    /\ \A h \in Handlers :
          Carries(h) /\ pc[h] \in Incoming => ~(chunk[h].file_id = f /\ chunk[h].index = j)

Lost(f, j) == j \notin Received(f) /\ Spoken(f, j)

\* The chunks of f that are in the table, or about to be, are on the disk.
OnDisk(f) ==
    \A i \in Indices(f) :
        i \in Received(f) \/ (\E h \in Handlers : pc[h] = "lock" /\ Key(h) = <<f, i>>)
            => <<f, i>> \in DOMAIN patches

\* The patches of f are there until f is published or cannot be completed.
Kept(f) ==
    \/ OnDisk(f)
    \/ \E j \in Indices(f) : Lost(f, j)
    \/ \E h \in Handlers : pc[h] \in Emptied /\ chunk[h].file_id = f

LEMMA StaysSpoken ==
    ASSUME IInv, OnceEach, [Next]_vars, NEW f, NEW j, Spoken(f, j),
           Calmer \/ \E h \in Handlers : \E d \in Headers : Receive(h, d)
    PROVE  Spoken(f, j)'
<1>1. \A d \in Headers : d.crc_ok /\ d.file_id = f /\ d.index = j => deliveries'[d] = 1
  BY CountsUp DEF Spoken
<1>2. CASE Calmer
  <2>1. \A h \in Handlers :
           Carries(h)' /\ pc'[h] \in Incoming => ~(chunk'[h].file_id = f /\ chunk'[h].index = j)
    BY <1>2 DEF Spoken, Calmer
  <2>. QED
    BY <1>1, <2>1 DEF Spoken, Carries
<1>3. ASSUME NEW h \in Handlers, NEW d \in Headers, Receive(h, d) PROVE Spoken(f, j)'
  <2>1. /\ chunk'[h] = d
        /\ \A g \in Handlers : g # h => pc'[g] = pc[g] /\ chunk'[g] = chunk[g]
    BY <1>3, OwnLocals DEF Receive, IInv, TypeOK
  <2>2. deliveries[d] # 1
    BY <1>3 DEF Receive, OnceEach, IInv, TypeOK
  <2>3. d.crc_ok => ~(d.file_id = f /\ d.index = j)
    BY <2>2 DEF Spoken
  <2>. QED
    BY <1>1, <2>1, <2>3 DEF Spoken, Carries
<1>. QED
  BY <1>2, <1>3

\* The chunk of a thread that assembles was sent ...
LEMMA AssemblerSpoken ==
    ASSUME OnceEach, Once, NEW h \in Handlers, pc[h] \in Assembling, Carries(h)
    PROVE  Spoken(chunk[h].file_id, chunk[h].index)
<1>1. Owns(h) /\ chunk[h] \in Headers /\ chunk[h].crc_ok /\ pc[h] \notin Incoming
  BY DEF Once, Owns, Carries, Incoming, Assembling
<1>2. \A d \in Headers : d.crc_ok /\ d.file_id = chunk[h].file_id /\ d.index = chunk[h].index
                           => deliveries[d] = 1
  BY <1>1 DEF OnceEach, Owns
<1>3. ASSUME NEW g \in Handlers, Carries(g), pc[g] \in Incoming
      PROVE  ~(chunk[g].file_id = chunk[h].file_id /\ chunk[g].index = chunk[h].index)
  BY <1>1, <1>3 DEF OnceEach, Once, Owns, Carries
<1>. QED
  BY <1>2, <1>3 DEF Spoken

\* ... and so was every chunk in the table.
LEMMA EntrySpoken ==
    ASSUME Once, NEW f, NEW j \in Received(f)
    PROVE  Spoken(f, j)
BY DEF Once, Spent, Owns, Spoken

\* A lost chunk stays lost.
LEMMA LostForever ==
    ASSUME HeadersAgree, OnceEach, IInv, Flow, [Next]_vars, NEW f, NEW j, Lost(f, j)
    PROVE  Lost(f, j)'
<1>1. ASSUME Shrunk PROVE j \notin Received(f)'
  BY <1>1, ReceivedShrunk DEF Lost
<1>2. ASSUME NEW h \in Handlers, UpdateEntry(h) PROVE j \notin Received(f)'
  <2>1. pc[h] = "lock" /\ payloads' = Put(payloads, chunk[h].file_id, NewEntry(chunk[h]))
    BY <1>2 DEF UpdateEntry
  <2>2. Carries(h) /\ chunk[h] \in Headers /\ chunk[h].crc_ok /\ chunk[h].index < chunk[h].total
    BY <2>1, CarriedChunk DEF Carries, Flow, ThreadSound
  <2>3. NewEntry(chunk[h]).received = Received(chunk[h].file_id) \cup {chunk[h].index}
    BY <2>2, NewEntrySound
  <2>4. ~(chunk[h].file_id = f /\ chunk[h].index = j)
    BY <2>1, <2>2 DEF Lost, Spoken, Incoming
  <2>. QED
    BY <2>1, <2>3, <2>4 DEF Lost, Put, Received
<1>3. ASSUME NEW h \in Handlers, HandlerStep(h) PROVE j \notin Received(f)' /\ Calmer
  BY <1>1, <1>2, <1>3, HandlerTable, HandlerCalmer
<1>4. ASSUME NEW h \in Handlers, NEW d \in Headers, Receive(h, d) PROVE j \notin Received(f)'
  BY <1>1, <1>4, SameEntries DEF Receive, tableVars
<1>5. CASE Background
  BY <1>1, <1>5, BackgroundTable, BackgroundCalmer, StaysSpoken DEF Lost
<1>6. CASE CrashRestart
  <2>1. j \notin Received(f)'
    BY <1>6 DEF CrashRestart, EmptyMap, Received
  <2>. QED
    BY <1>6, <2>1, CrashCalmer, StaysSpoken DEF Lost
<1>. QED
  BY <1>3, <1>4, <1>5, <1>6, StaysSpoken, Steps DEF Lost

\* Steps that leave the chunks of f and their patches alone.
LEMMA StillKept ==
    ASSUME HeadersAgree, OnceEach, IInv, Flow, [Next]_vars, NEW f, Kept(f),
           OnDisk(f) =>
               /\ Received(f)' = Received(f) \/ Received(f)' = {}
               /\ \A h \in Handlers : pc'[h] = "lock" => pc[h] = "lock" /\ chunk'[h] = chunk[h]
               /\ \A i \in Nat : <<f, i>> \in DOMAIN patches => <<f, i>> \in DOMAIN patches',
           \A h \in Handlers :
               pc[h] \in Emptied /\ chunk[h].file_id = f =>
                   pc'[h] \in Emptied /\ chunk'[h] = chunk[h]
    PROVE  Kept(f)'
<1>1. CASE \E j \in Indices(f) : Lost(f, j)
  <2>1. PICK j \in Indices(f) : Lost(f, j)
    BY <1>1
  <2>2. Lost(f, j)'
    BY <2>1, LostForever
  <2>. QED
    BY <2>1, <2>2 DEF Kept, Indices
<1>2. CASE \E h \in Handlers : pc[h] \in Emptied /\ chunk[h].file_id = f
  BY <1>2 DEF Kept
<1>3. CASE OnDisk(f)
  BY <1>3 DEF OnDisk, Kept, Key, Indices
<1>. QED
  BY <1>1, <1>2, <1>3 DEF Kept

\* Emptying other directories.
LEMMA OtherPatches ==
    ASSUME NEW F, EmptyDirs(F), NEW f, f \notin F, NEW i, <<f, i>> \in DOMAIN patches
    PROVE  <<f, i>> \in DOMAIN patches'
BY DEF EmptyDirs, Drop, Restrict, KeysOf

\* write_binary_file's rename and the critical section hand a chunk on.
LEMMA StoreKept ==
    ASSUME HeadersAgree, OnceEach, IInv, Flow, Once, NEW f \in FileIds, Kept(f),
           NEW h \in Handlers, RenameTmp(h) \/ UpdateEntry(h)
    PROVE  Kept(f)'
<1>1. /\ chunk' = chunk /\ \A g \in Handlers : g # h => pc'[g] = pc[g]
      /\ Calmer /\ pc[h] \in {"rename", "lock"} /\ [Next]_vars
  BY OwnLocals, HandlerCalmer DEF HandlerStep, RenameTmp, UpdateEntry, Next
<1>2. Carries(h) /\ chunk[h] \in Headers /\ chunk[h].index \in Indices(chunk[h].file_id)
  BY <1>1, CarriedChunk
<1>3. DOMAIN patches \subseteq DOMAIN patches'
  BY DEF RenameTmp, UpdateEntry, Put
<1>4. pc'[h] = "lock" => Key(h) \in DOMAIN patches'
  <2>1. CASE RenameTmp(h)
    <3>1. pc'[h] = "lock" => patches' = Put(patches, Key(h), tmps[Key(h)])
      BY <2>1, Goes DEF RenameTmp
    <3>. QED
      BY <3>1 DEF Put
  <2>2. CASE UpdateEntry(h)
    <3>1. Goto(h, "assemble") \/ Goto(h, "reply")
      BY <2>2 DEF UpdateEntry
    <3>. QED
      BY <3>1, Goes
  <2>. QED
    BY <2>1, <2>2
<1>5. ASSUME NEW j, j \in Received(f)', j \notin Received(f)
      PROVE  pc[h] = "lock" /\ Key(h) = <<f, j>>
  <2>1. CASE RenameTmp(h)
    BY <1>5, <2>1 DEF RenameTmp, tableVars, Received
  <2>2. CASE UpdateEntry(h)
    <3>1. pc[h] = "lock" /\ payloads' = Put(payloads, chunk[h].file_id, NewEntry(chunk[h]))
      BY <2>2 DEF UpdateEntry
    <3>2. NewEntry(chunk[h]).received = Received(chunk[h].file_id) \cup {chunk[h].index}
      BY <1>2, <3>1, NewEntrySound DEF Flow, ThreadSound, Carries
    <3>. QED
      BY <1>5, <3>1, <3>2 DEF Put, Received, Key
  <2>. QED
    BY <2>1, <2>2
<1>6. CASE OnDisk(f)
  <2>1. ASSUME NEW i \in Indices(f),
               i \in Received(f)' \/ \E g \in Handlers : pc'[g] = "lock" /\ Key(g) = <<f, i>>
        PROVE  <<f, i>> \in DOMAIN patches'
    BY <1>1, <1>3, <1>4, <1>5, <1>6, <2>1 DEF OnDisk
  <2>. QED
    BY <1>1, <2>1 DEF Kept, OnDisk, Key, Indices
<1>7. ASSUME NEW j \in Indices(f), Lost(f, j) PROVE Kept(f)'
  <2>1. Lost(f, j)'
    BY <1>1, <1>7, LostForever
  <2>. QED
    BY <2>1 DEF Kept, Indices
<1>8. CASE \E g \in Handlers : pc[g] \in Emptied /\ chunk[g].file_id = f
  BY <1>1, <1>8 DEF Kept, Emptied
<1>. QED
  BY <1>6, <1>7, <1>8 DEF Kept

\* A patch directory goes when its upload is published or expires.
LEMMA RemovalKept ==
    ASSUME HeadersAgree, OnceEach, IInv, Flow, Once, NEW f \in FileIds, Kept(f),
           CleanupExpired \/ \E h \in Handlers : RemovePatches(h) \/ MarkPublished(h)
    PROVE  Kept(f)'
<1>1. ASSUME NEW h \in Handlers, RemovePatches(h) PROVE Kept(f)'
  <2>1. /\ pc'[h] \in Emptied /\ chunk' = chunk
        /\ \A g \in Handlers : g # h => pc'[g] = pc[g]
        /\ pc[h] = "remove" /\ Calmer /\ UNCHANGED payloads /\ [Next]_vars
    BY <1>1, Goes, OwnLocals, HandlerCalmer
    DEF RemovePatches, HandlerStep, tableVars, Next, Emptied
  <2>2. CASE f = chunk[h].file_id
    BY <2>1, <2>2 DEF Kept
  <2>3. CASE f # chunk[h].file_id
    <3>1. \A i \in Nat : <<f, i>> \in DOMAIN patches => <<f, i>> \in DOMAIN patches'
      BY <1>1, <2>3, OtherPatches DEF RemovePatches
    <3>. QED
      BY <2>1, <3>1, StillKept DEF Received, Emptied
  <2>. QED
    BY <2>2, <2>3
<1>2. ASSUME NEW h \in Handlers, MarkPublished(h) PROVE Kept(f)'
  <2>1. /\ pc'[h] = "reply" /\ chunk' = chunk /\ \A g \in Handlers : g # h => pc'[g] = pc[g]
        /\ pc[h] = "mark" /\ Calmer /\ UNCHANGED patches /\ [Next]_vars
    BY <1>2, Goes, OwnLocals, HandlerCalmer DEF MarkPublished, HandlerStep, patchVars, Next
  <2>2. payloads' = Drop(payloads, {chunk[h].file_id})
    BY <1>2 DEF MarkPublished
  <2>3. CASE f = chunk[h].file_id
    <3>. DEFINE j == chunk[h].index
    <3>1. Carries(h) /\ j \in Indices(f)
      BY <2>1, <2>3, CarriedChunk DEF Assembling
    <3>2. Spoken(f, j)
      BY <2>1, <2>3, <3>1, AssemblerSpoken DEF Assembling
    <3>3. Received(f)' = {}
      BY <2>2, <2>3 DEF Received, Drop, Restrict
    <3>4. Lost(f, j)'
      BY <2>1, <3>2, <3>3, StaysSpoken DEF Lost, Spoken, Carries
    <3>. QED
      BY <2>1, <3>1, <3>4 DEF Kept, Indices
  <2>4. CASE f # chunk[h].file_id
    <3>1. Received(f)' = Received(f)
      BY <2>2, <2>4 DEF Received, Drop, Restrict
    <3>. QED
      BY <2>1, <2>4, <3>1, StillKept DEF Emptied
  <2>. QED
    BY <2>3, <2>4
<1>3. ASSUME CleanupExpired PROVE Kept(f)'
  <2>. DEFINE F == {i \in DOMAIN payloads : Expired(payloads[i])}
  <2>1. UNCHANGED <<pc, chunk>> /\ Calmer /\ [Next]_vars /\ payloads' = Drop(payloads, F)
    BY <1>3, BackgroundCalmer, BackgroundLocals
    DEF CleanupExpired, Background, SweeperStep, Next
  <2>2. CASE f \in F
    <3>1. PICK j \in Received(f) : TRUE
      BY <2>2 DEF Received, Once, Spent
    <3>2. j \in Indices(f)
      BY <2>2, <3>1 DEF Flow, EntrySound, Received
    <3>3. Received(f)' = {}
      BY <2>1, <2>2 DEF Received, Drop, Restrict
    <3>4. Lost(f, j)'
      BY <2>1, <3>1, <3>3, EntrySpoken, StaysSpoken DEF Lost
    <3>. QED
      BY <3>2, <3>4 DEF Kept, Indices
  <2>3. CASE f \notin F
    <3>1. PICK G : EmptyDirs(G) /\ f \notin G
      BY <1>3, <2>3 DEF CleanupExpired, RemoveDirs
    <3>2. \A i \in Nat : <<f, i>> \in DOMAIN patches => <<f, i>> \in DOMAIN patches'
      BY <3>1, OtherPatches
    <3>3. Received(f)' = Received(f)
      BY <2>1, <2>3 DEF Received, Drop, Restrict
    <3>. QED
      BY <2>1, <3>2, <3>3, StillKept
  <2>. QED
    BY <2>2, <2>3
<1>. QED
  BY <1>1, <1>2, <1>3

LEMMA NextKept ==
    ASSUME HeadersAgree, OnceEach, IInv, Flow, Once, NEW f \in FileIds, Kept(f), [Next]_vars
    PROVE  Kept(f)'
<1>1. ASSUME NEW h \in Handlers, HandlerStep(h),
             ~RenameTmp(h), ~UpdateEntry(h), ~RemovePatches(h), ~MarkPublished(h)
      PROVE  Kept(f)'
  <2>1. Calmer /\ Shrunk /\ \A g \in Handlers : g # h => pc'[g] = pc[g] /\ chunk'[g] = chunk[g]
    BY <1>1, HandlerCalmer, HandlerTable, OwnLocals
  <2>2. pc'[h] # "lock"
    BY <1>1, Onwards
  <2>3. /\ pc[h] \in Emptied => pc'[h] \in Emptied /\ chunk' = chunk
        /\ DOMAIN patches' = DOMAIN patches
    <3>1. CASE WriteTmp(h)
      <4>1. pc[h] = "write" /\ DOMAIN patches' = DOMAIN patches
        BY <3>1 DEF WriteTmp, Put, IInv, DescriptorsAttached
      <4>. QED
        BY <4>1 DEF Emptied
    <3>2. CASE RemovePatchDir(h)
      BY <3>2, Goes DEF RemovePatchDir, Emptied
    <3>. QED
      BY <1>1, <3>1, <3>2
      DEF HandlerStep, CreateDir, OpenTmp, AssembleOpen, AssembleChunk, AssembleDone,
          AbortAssembly, Publish, Reply, patchVars, Emptied
  <2>. QED
    BY <2>1, <2>2, <2>3, ReceivedShrunk, StillKept
<1>2. ASSUME NEW h \in Handlers, NEW d \in Headers, Receive(h, d) PROVE Kept(f)'
  <2>1. /\ pc[h] = "idle" /\ pc'[h] = "store" /\ UNCHANGED <<payloads, patches>>
        /\ \A g \in Handlers : g # h => pc'[g] = pc[g] /\ chunk'[g] = chunk[g]
    BY <1>2, Goes, OwnLocals DEF Receive, tableVars, patchVars
  <2>. QED
    BY <1>2, <2>1, StillKept DEF Received, Emptied
<1>3. CASE Background
  <2>1. CASE CleanupExpired
    BY <2>1, RemovalKept
  <2>2. CASE UNCHANGED patches
    BY <1>3, <2>2, BackgroundLocals, BackgroundCalmer, BackgroundTable, ReceivedShrunk, StillKept
  <2>. QED
    BY <1>3, <2>1, <2>2
    DEF Background, SweeperStep, BeginSweep, CheckFile, RemoveFile, EndSweep, ControlStep,
        StoreDefaultTtl, UpdateEntryTtls, SetTtl, ReceiveFails, Tick, vars, patchVars
<1>4. CASE CrashRestart
  BY <1>4 DEF CrashRestart, AllIdle, EmptyMap, Kept, OnDisk, Received
<1>. QED
  BY <1>1, <1>2, <1>3, <1>4, StoreKept, RemovalKept, Steps

\* An assembly is given up only after a failing system call, or when the table
\* has lost the upload.
Excused(h) ==
    pc[h] = "abort" =>
        fs_errors > 0 \/ Received(chunk[h].file_id) # Indices(chunk[h].file_id)

\* A complete upload has a thread that assembles it.
Attended(f) ==
    fs_errors = 0 /\ f \in DOMAIN payloads /\ Received(f) = Indices(f) =>
        \E h \in Handlers : pc[h] \in Assembling /\ chunk[h].file_id = f

Attentive ==
    /\ \A f \in FileIds : Kept(f) /\ Attended(f)
    /\ \A h \in Handlers : Excused(h)

\* A chunk that comes to the table while another thread gives up the upload
\* does not complete it: the chunk of the thread that gives up is missing.
LEMMA StaysIncomplete ==
    ASSUME HeadersAgree, IInv, Flow, NoResend, AllAlone,
           NEW h \in Handlers, pc[h] \in Assembling,
           Received(chunk[h].file_id) # Indices(chunk[h].file_id),
           NEW g \in Handlers, g # h, UpdateEntry(g)
    PROVE  Received(chunk[h].file_id)' # Indices(chunk[h].file_id)
<1>. DEFINE f == chunk[h].file_id
<1>1. pc[g] = "lock" /\ UNCHANGED chunk
  BY DEF UpdateEntry
<1>2. /\ Carries(g) /\ chunk[g] \in Headers /\ chunk[g].crc_ok /\ chunk[g].index < chunk[g].total
      /\ Carries(h) /\ chunk[h].index \in Indices(f)
  BY <1>1, CarriedChunk DEF Carries, Flow, ThreadSound
<1>3. chunk[h].index \notin Received(f)
  BY DEF AllAlone, Alone
<1>4. /\ payloads' = Put(payloads, chunk[g].file_id, NewEntry(chunk[g]))
      /\ NewEntry(chunk[g]).received = Received(chunk[g].file_id) \cup {chunk[g].index}
  BY <1>2, NewEntrySound DEF UpdateEntry
<1>5. CASE chunk[g].file_id = f
  <2>1. chunk[g].index # chunk[h].index
    BY <1>1, <1>2, <1>5, SameUpload DEF NoResend
  <2>. QED
    BY <1>1, <1>2, <1>3, <1>4, <1>5, <2>1 DEF Put, Received
<1>6. CASE chunk[g].file_id # f
  BY <1>1, <1>4, <1>6 DEF Put, Received
<1>. QED
  BY <1>5, <1>6

\* The assembler's own steps give up for a reason.
LEMMA GivesUp ==
    ASSUME HeadersAgree, IInv, Flow, AllAlone, DiskSound, NEW h \in Handlers, OutSound(h),
           Kept(chunk[h].file_id), ~FsError, AssembleChunk(h) \/ AssembleDone(h),
           pc'[h] = "abort"
    PROVE  Received(chunk[h].file_id) # Indices(chunk[h].file_id)
<1>. DEFINE f == chunk[h].file_id
            o == out[h]
            k == <<f, o.idx>>
<1>1. pc[h] = "copy" /\ pc[h] \in Assembling
  BY DEF AssembleChunk, AssembleDone, Assembling
<1>2. /\ record[h].total = StreamLen[f] /\ record[h].received = Indices(f)
      /\ o.idx \in Nat /\ o.wrote = o.idx /\ StreamLen[f] \in Nat /\ f \in FileIds
      /\ o.pending <=> (o.idx # 0 /\ o.idx # StreamLen[f])
  BY <1>1, RecordName, RecordType, ServerAssumption DEF OutSound
<1>3. CASE AssembleDone(h)
  <2>1. StreamDone(o)
    BY <1>2, <1>3 DEF AssembleDone, StreamDone
  <2>2. Goto(h, "publish")
    BY <1>3, <2>1 DEF AssembleDone
  <2>. QED
    BY <2>2, Goes
<1>4. CASE AssembleChunk(h)
  <2>1. k \notin DOMAIN patches
    <3>. SUFFICES ASSUME k \in DOMAIN patches PROVE FALSE
      OBVIOUS
    <3>1. patches[k] = "full" /\ o.idx \in Indices(f)
      <4>1. o.idx < record[h].total
        BY <1>4 DEF AssembleChunk
      <4>. QED
        BY <1>2, <4>1 DEF DiskSound, AllFull, Indices
    <3>2. \A z \in Decompress(f, o, patches[k]) : z.ok
      BY <1>2, <3>1 DEF Decompress
    <3>3. pc' = pc
      BY <1>2, <1>4, <3>1, <3>2 DEF AssembleChunk
    <3>. QED
      BY <1>1, <3>3
  <2>2. o.idx \in Indices(f)
    <3>1. o.idx < record[h].total
      BY <1>4 DEF AssembleChunk
    <3>. QED
      BY <1>2, <3>1 DEF Indices
  <2>3. ~\E g \in Handlers : pc[g] \in Emptied /\ chunk[g].file_id = f
    <3>. SUFFICES ASSUME NEW g \in Handlers, pc[g] \in Emptied, chunk[g].file_id = f PROVE FALSE
      OBVIOUS
    <3>1. pc[g] \in Assembling /\ g # h
      BY <1>1 DEF Assembling, Emptied
    <3>. QED
      BY <1>1, <3>1, SameUpload DEF AllAlone, Alone
  <2>. QED
    BY <2>1, <2>2, <2>3 DEF Kept, OnDisk, Lost
<1>. QED
  BY <1>3, <1>4

LEMMA NextExcused ==
    ASSUME HeadersAgree, IInv, NoResend, Delivery, Attentive, [Next]_vars,
           NEW h \in Handlers
    PROVE  Excused(h)'
<1>. DEFINE f == chunk[h].file_id
<1>1. fs_errors' \in Nat
  BY NextIInv, ServerAssumption DEF IInv, TypeOK
<1>. SUFFICES ASSUME pc'[h] = "abort", fs_errors' = 0
              PROVE  Received(chunk[h].file_id)' # Indices(chunk'[h].file_id)
  BY <1>1 DEF Excused, Received, Indices
<1>2. fs_errors = 0 /\ ~FsError
  BY NoErrorSoFar
<1>3. ASSUME pc[h] \in {"copy", "abort"}, UNCHANGED chunk,
             Received(f) # Indices(f), Shrunk
      PROVE  Received(chunk[h].file_id)' # Indices(chunk'[h].file_id)
  <2>1. f \in FileIds
    BY <1>3, RecordType DEF Assembling
  <2>2. 0 \in Indices(f)
    BY <2>1, ServerAssumption DEF Indices
  <2>. QED
    BY <1>3, <2>2 DEF Received, Shrunk
<1>4. pc[h] = "abort" => Received(f) # Indices(f)
  BY <1>2 DEF Attentive, Excused
<1>5. ASSUME NEW g \in Handlers, g # h, HandlerStep(g) \/ \E d \in Headers : Receive(g, d)
      PROVE  Received(chunk[h].file_id)' # Indices(chunk'[h].file_id)
  <2>1. pc[h] = "abort" /\ chunk'[h] = chunk[h]
    BY <1>5, OwnLocals
  <2>2. CASE UpdateEntry(g)
    <3>1. Received(chunk[h].file_id)' # Indices(chunk[h].file_id)
      BY <1>4, <1>5, <2>1, <2>2, StaysIncomplete DEF Delivery, Assembling
    <3>. QED
      BY <2>1, <3>1
  <2>3. CASE ~UpdateEntry(g)
    <3>1. Shrunk
      BY <1>5, <2>3, HandlerTable, SameEntries DEF Receive, tableVars
    <3>2. f \in FileIds /\ 0 \in Indices(f)
      BY <2>1, RecordType, ServerAssumption DEF Assembling, Indices
    <3>. QED
      BY <1>4, <2>1, <3>1, <3>2 DEF Received, Shrunk
  <2>. QED
    BY <2>2, <2>3
<1>6. ASSUME HandlerStep(h) PROVE Received(chunk[h].file_id)' # Indices(chunk'[h].file_id)
  <2>1. AssembleChunk(h) \/ AssembleDone(h)
    <3>1. CASE UpdateEntry(h)
      <4>1. Goto(h, "assemble") \/ Goto(h, "reply")
        BY <3>1 DEF UpdateEntry
      <4>. QED
        BY <4>1, Goes
    <3>. QED
      BY <1>6, <3>1, Goes
      DEF HandlerStep, CreateDir, OpenTmp, WriteTmp, RenameTmp, AssembleOpen, AbortAssembly,
          Publish, RemovePatches, RemovePatchDir, MarkPublished, Reply
  <2>2. UNCHANGED <<payloads, chunk>> /\ pc[h] = "copy"
    BY <2>1 DEF AssembleChunk, AssembleDone, tableVars
  <2>3. f \in FileIds
    BY <2>2, RecordType DEF Assembling
  <2>4. Received(f) # Indices(f)
    BY <1>2, <2>1, <2>3, GivesUp DEF Delivery, AllOutSound, Attentive
  <2>. QED
    BY <1>3, <2>2, <2>4, SameEntries
<1>7. ASSUME NEW d \in Headers, Receive(h, d) PROVE FALSE
  BY <1>7, Goes DEF Receive
<1>8. CASE Background
  BY <1>3, <1>4, <1>8, BackgroundLocals, BackgroundTable
<1>9. CASE CrashRestart
  BY <1>9 DEF CrashRestart, AllIdle
<1>. QED
  BY <1>5, <1>6, <1>7, <1>8, <1>9, Steps

LEMMA NextAttended ==
    ASSUME HeadersAgree, IInv, Delivery, Attentive, [Next]_vars, NEW f \in FileIds
    PROVE  Attended(f)'
<1>. SUFFICES ASSUME fs_errors' = 0, f \in DOMAIN payloads', Received(f)' = Indices(f)
              PROVE  \E h \in Handlers : pc'[h] \in Assembling /\ chunk'[h].file_id = f
  BY DEF Attended, Indices
<1>1. fs_errors = 0 /\ ~FsError
  BY NoErrorSoFar
<1>2. ASSUME f \in DOMAIN payloads, Received(f) = Indices(f)
      PROVE  \E h \in Handlers : pc[h] \in Assembling /\ chunk[h].file_id = f
  BY <1>1, <1>2 DEF Attentive, Attended
<1>3. ASSUME Shrunk PROVE f \in DOMAIN payloads /\ Received(f) = Indices(f)
  BY <1>3 DEF Shrunk, Received
<1>4. ASSUME NEW g \in Handlers, UpdateEntry(g)
      PROVE  \E h \in Handlers : pc'[h] \in Assembling /\ chunk'[h].file_id = f
  <2>. DEFINE d == chunk[g]
  <2>1. pc[g] = "lock" /\ UNCHANGED chunk /\ payloads' = Put(payloads, d.file_id, NewEntry(d))
    BY <1>4 DEF UpdateEntry
  <2>2. CASE d.file_id = f
    <3>1. d \in Headers /\ d.crc_ok /\ d.index < d.total
      BY <2>1, CarriedChunk DEF Carries, Delivery, Flow, ThreadSound
    <3>2. EntrySound(f, NewEntry(d)) /\ NewEntry(d).received = Indices(f)
      BY <2>1, <2>2, <3>1, NewEntrySound DEF Delivery, Put, Received
    <3>3. Complete(NewEntry(d))
      BY <3>2, CompleteIsAll
    <3>4. pc'[g] = "assemble"
      BY <1>4, <3>3, Goes DEF UpdateEntry
    <3>. QED
      BY <2>1, <2>2, <3>4 DEF Assembling
  <2>3. CASE d.file_id # f
    <3>1. f \in DOMAIN payloads /\ Received(f) = Indices(f)
      BY <2>1, <2>3 DEF Put, Received
    <3>2. PICK h \in Handlers : pc[h] \in Assembling /\ chunk[h].file_id = f
      BY <1>2, <3>1
    <3>3. pc'[h] = pc[h]
      BY <1>4, <2>1, <3>2, OwnLocals DEF HandlerStep, Assembling
    <3>. QED
      BY <2>1, <3>2, <3>3
  <2>. QED
    BY <2>2, <2>3
<1>5. ASSUME NEW g \in Handlers, HandlerStep(g), ~UpdateEntry(g)
      PROVE  \E h \in Handlers : pc'[h] \in Assembling /\ chunk'[h].file_id = f
  <2>1. f \in DOMAIN payloads /\ Received(f) = Indices(f)
    BY <1>3, <1>5, HandlerTable
  <2>2. PICK h \in Handlers : pc[h] \in Assembling /\ chunk[h].file_id = f
    BY <1>2, <2>1
  <2>3. CASE g # h
    BY <1>5, <2>2, <2>3, OwnLocals
  <2>4. CASE g = h
    <3>1. \/ AssembleOpen(h) \/ AssembleChunk(h) \/ AssembleDone(h) \/ AbortAssembly(h)
          \/ Publish(h) \/ RemovePatches(h) \/ RemovePatchDir(h) \/ MarkPublished(h)
      BY <1>5, <2>2, <2>4
      DEF HandlerStep, CreateDir, OpenTmp, WriteTmp, RenameTmp, Reply, Assembling
    <3>2. UNCHANGED chunk
      BY <3>1
      DEF AssembleOpen, AssembleChunk, AssembleDone, AbortAssembly, Publish, RemovePatches,
          RemovePatchDir, MarkPublished
    <3>3. CASE AssembleOpen(h)
      <4>1. record[h] = WholeRecord(chunk[h])
        BY <2>2 DEF Delivery, Flow, ThreadSound
      <4>2. record[h].size = record[h].total
        BY <4>1 DEF WholeRecord
      <4>3. pc'[h] = "copy"
        BY <1>1, <3>3, <4>2, Goes DEF AssembleOpen
      <4>. QED
        BY <2>2, <3>2, <4>3 DEF Assembling
    <3>4. CASE AssembleChunk(h)
      <4>1. pc[h] = "copy" /\ (pc' = pc \/ Goto(h, "abort"))
        BY <3>4 DEF AssembleChunk
      <4>. QED
        BY <2>2, <3>2, <4>1, Goes DEF Assembling
    <3>5. CASE AbortAssembly(h)
      BY <1>1, <2>1, <2>2, <3>5 DEF AbortAssembly, Attentive, Excused
    <3>6. CASE Publish(h)
      <4>1. record[h].name \in DOMAIN parts
        BY <2>2, <3>6, RecordName DEF Publish, Delivery, AllOutSound, OutSound
      <4>2. pc'[h] = "remove"
        BY <1>1, <3>6, <4>1, Goes DEF Publish
      <4>. QED
        BY <2>2, <3>2, <4>2 DEF Assembling
    <3>7. CASE MarkPublished(h)
      BY <2>2, <3>7 DEF MarkPublished, Drop, Restrict
    <3>8. CASE AssembleDone(h) \/ RemovePatches(h) \/ RemovePatchDir(h)
      <4>1. pc'[h] \in {"publish", "abort", "rmdir", "mark"}
        BY <3>8, Goes DEF AssembleDone, RemovePatches, RemovePatchDir
      <4>. QED
        BY <2>2, <3>2, <4>1 DEF Assembling
    <3>. QED
      BY <3>1, <3>3, <3>4, <3>5, <3>6, <3>7, <3>8
  <2>. QED
    BY <2>3, <2>4
<1>6. ASSUME NEW g \in Handlers, NEW d \in Headers, Receive(g, d)
      PROVE  \E h \in Handlers : pc'[h] \in Assembling /\ chunk'[h].file_id = f
  <2>1. Shrunk /\ pc[g] = "idle"
    BY <1>6, SameEntries DEF Receive, tableVars
  <2>. QED
    BY <1>2, <1>3, <1>6, <2>1, OwnLocals DEF Assembling
<1>7. CASE Background
  BY <1>2, <1>3, <1>7, BackgroundLocals, BackgroundTable
<1>8. CASE CrashRestart
  BY <1>8 DEF CrashRestart, EmptyMap
<1>. QED
  BY <1>4, <1>5, <1>6, <1>7, <1>8, Steps

LEMMA NextAttentive ==
    ASSUME HeadersAgree, OnceEach, IInv, Delivery, Once, Attentive, [Next]_vars
    PROVE  Attentive'
<1>1. \A f \in FileIds : Kept(f)'
  BY NextKept DEF Attentive, Delivery
<1>2. \A h \in Handlers : Excused(h)'
  BY NextExcused, OnceIsNoResend
<1>3. \A f \in FileIds : Attended(f)'
  BY NextAttended
<1>. QED
  BY <1>1, <1>2, <1>3 DEF Attentive

\* The thread of an upload that is complete is the only one.
LEMMA AttendedByOne ==
    ASSUME HeadersAgree, IInv, Delivery, Attentive
    PROVE  CompleteIsAssembled
<1>. SUFFICES ASSUME fs_errors = 0, NEW f \in DOMAIN payloads, Complete(payloads[f])
              PROVE  \E h \in Handlers :
                        {g \in Handlers : pc[g] \in Assembling /\ chunk[g].file_id = f} = {h}
  BY DEF CompleteIsAssembled
<1>1. f \in FileIds
  BY DEF IInv, TypeOK, IsMap
<1>2. Received(f) = Indices(f)
  BY <1>1, CompleteIsAll DEF Delivery, Flow, Received
<1>3. PICK h \in Handlers : pc[h] \in Assembling /\ chunk[h].file_id = f
  BY <1>1, <1>2 DEF Attentive, Attended
<1>4. ASSUME NEW g \in Handlers, pc[g] \in Assembling, chunk[g].file_id = f PROVE g = h
  BY <1>3, <1>4, SameUpload DEF Delivery, AllAlone, Alone
<1>. QED
  BY <1>3, <1>4

\* Clients that send every chunk once never leave a complete upload stranded:
\* exactly one thread is assembling it, whatever expires, crashes or restarts
\* in the meantime, as long as no system call fails (store_chunk, assemble,
\* mark_published).
THEOREM CompletedIsAssembled ==
    ASSUME HeadersAgree, OnceEach
    PROVE  Spec => []CompleteIsAssembled
<1>1. Init => Delivery /\ Once /\ Attentive
  <2>1. Init => Once
    BY DEF Init, EmptyMap, AllIdle, Once, Spent, Owns, Received, Carries, Incoming, Assembling
  <2>2. Init => Attentive
    BY DEF Init, EmptyMap, AllIdle, Attentive, Kept, OnDisk, Attended, Excused, Received
  <2>. QED
    BY <2>1, <2>2, InitDelivery
<1>2. IInv /\ Delivery /\ Once /\ Attentive /\ [Next]_vars => (Delivery /\ Once /\ Attentive)'
  <2>. SUFFICES ASSUME IInv, Delivery, Once, Attentive, [Next]_vars
                PROVE  Delivery' /\ Once' /\ Attentive'
    OBVIOUS
  <2>. QED
    BY NextDelivery, NextOnce, NextAttentive, OnceIsNoResend DEF Delivery
<1>3. IInv /\ Delivery /\ Attentive => CompleteIsAssembled
  BY AttendedByOne
<1>. QED
  BY <1>1, <1>2, <1>3, Inductive, PTL DEF Spec

-----------------------------------------------------------------------------
(* The sweep removes the file it looked at.                                *)

Assembles(h, f) == pc[h] \in Assembling /\ chunk[h].file_id = f

\* Upload f will never be assembled again.
Over(f) ==
    /\ \E j \in Indices(f) : Lost(f, j)
    /\ \A h \in Handlers : ~Assembles(h, f)

\* Upload f is published: its thread is tidying up, or f is over.
Served(f) ==
    Over(f) \/ \E h \in Handlers : Assembles(h, f) /\ pc[h] \in {"remove", "rmdir", "mark"}

\* A file has an upload that is served.
FilesServed ==
    \A n \in DOMAIN files :
        \E d \in Headers : d.crc_ok /\ d.name = n /\ Served(d.file_id)

\* The file the sweep is about to remove is as old as when it looked.
VictimOld ==
    sweeper.victim # None =>
        /\ sweeper.pc = "scan"
        /\ sweeper.victim \in DOMAIN files
        /\ files[sweeper.victim].age > sweeper.ttl

\* An upload that is over stays over: completing it would take the lost chunk.
LEMMA StaysOver ==
    ASSUME HeadersAgree, OnceEach, IInv, Flow, [Next]_vars, NEW f, Over(f)
    PROVE  Over(f)'
<1>1. PICK j \in Indices(f) : Lost(f, j)
  BY DEF Over
<1>2. Lost(f, j)'
  BY <1>1, LostForever
<1>3. ASSUME NEW h \in Handlers, HandlerStep(h), Assembles(h, f)' PROVE FALSE
  <2>1. CASE UpdateEntry(h)
    <3>1. pc[h] = "lock" /\ UNCHANGED chunk /\ payloads' = Put(payloads, f, NewEntry(chunk[h]))
      BY <1>3, <2>1 DEF UpdateEntry, Assembles
    <3>2. chunk[h].crc_ok /\ chunk[h].index < chunk[h].total /\ chunk[h] \in Headers
      BY <3>1, CarriedChunk DEF Carries, Flow, ThreadSound
    <3>3. EntrySound(f, NewEntry(chunk[h])) /\ f \in FileIds
      BY <1>3, <3>1, <3>2, NewEntrySound, HeaderFields DEF Assembles
    <3>4. Complete(NewEntry(chunk[h]))
      <4>1. ~Complete(NewEntry(chunk[h])) => pc'[h] = "reply"
        BY <2>1, Goes DEF UpdateEntry
      <4>. QED
        BY <1>3, <4>1 DEF Assembles, Assembling
    <3>5. Received(f)' = Indices(f)
      BY <3>1, <3>3, <3>4, CompleteIsAll DEF Received, Put
    <3>. QED
      BY <1>1, <1>2, <3>5 DEF Lost
  <2>2. CASE CreateDir(h) \/ OpenTmp(h) \/ WriteTmp(h) \/ RenameTmp(h) \/ Reply(h)
    <3>1. pc'[h] \in {"open", "write", "rename", "lock", "reply", "idle"}
      BY <2>2, Goes DEF CreateDir, OpenTmp, WriteTmp, RenameTmp, Reply
    <3>. QED
      BY <1>3, <3>1 DEF Assembles, Assembling
  <2>3. CASE AssembleOpen(h) \/ AssembleChunk(h) \/ AssembleDone(h) \/ AbortAssembly(h)
             \/ Publish(h) \/ RemovePatches(h) \/ RemovePatchDir(h) \/ MarkPublished(h)
    <3>1. pc[h] \in Assembling /\ UNCHANGED chunk
      BY <2>3
      DEF AssembleOpen, AssembleChunk, AssembleDone, AbortAssembly, Publish, RemovePatches,
          RemovePatchDir, MarkPublished, Assembling
    <3>. QED
      BY <1>3, <3>1 DEF Assembles, Over
  <2>. QED
    BY <1>3, <2>1, <2>2, <2>3 DEF HandlerStep
<1>4. ASSUME NEW h \in Handlers, NEW d \in Headers, Receive(h, d) PROVE ~Assembles(h, f)'
  BY <1>4, Goes DEF Receive, Assembles, Assembling
<1>5. ASSUME NEW h \in Handlers, HandlerStep(h) \/ \E d \in Headers : Receive(h, d)
      PROVE  \A g \in Handlers : ~Assembles(g, f)'
  BY <1>3, <1>4, <1>5, OwnLocals DEF Over, Assembles
<1>6. CASE Background
  BY <1>1, <1>2, <1>6, BackgroundLocals DEF Over, Assembles, Indices
<1>7. CASE CrashRestart
  <2>1. \A h \in Handlers : ~Assembles(h, f)'
    BY <1>7 DEF CrashRestart, AllIdle, Assembles, Assembling
  <2>. QED
    BY <1>1, <1>2, <2>1 DEF Over, Indices
<1>. QED
  BY <1>1, <1>2, <1>5, <1>6, <1>7, Steps DEF Over, Indices

\* An upload that is published is not assembled again.
LEMMA StaysServed ==
    ASSUME HeadersAgree, OnceEach, IInv, Flow, AllAlone, Once, [Next]_vars, NEW f, Served(f)
    PROVE  Served(f)'
<1>1. CASE Over(f)
  BY <1>1, StaysOver DEF Served
<1>2. ASSUME NEW h \in Handlers, Assembles(h, f), pc[h] \in {"remove", "rmdir", "mark"}
      PROVE  Served(f)'
  <2>. DEFINE j == chunk[h].index
  <2>1. Carries(h) /\ j \in Indices(f) /\ Spoken(f, j)
    BY <1>2, CarriedChunk, AssemblerSpoken DEF Assembles
  <2>2. \A g \in Handlers : g # h => ~Assembles(g, f)
    BY <1>2, SameUpload DEF Assembles, AllAlone, Alone
  <2>3. ASSUME NEW g \in Handlers, g # h, HandlerStep(g) \/ \E d \in Headers : Receive(g, d)
        PROVE  Served(f)'
    BY <1>2, <2>3, OwnLocals DEF Served, Assembles
  <2>4. CASE RemovePatches(h) \/ RemovePatchDir(h)
    <3>1. pc'[h] \in {"rmdir", "mark"} /\ UNCHANGED chunk
      BY <2>4, Goes DEF RemovePatches, RemovePatchDir
    <3>. QED
      BY <1>2, <3>1 DEF Served, Assembles, Assembling
  <2>5. CASE MarkPublished(h)
    <3>1. /\ pc'[h] = "reply" /\ UNCHANGED chunk /\ HandlerStep(h)
          /\ payloads' = Drop(payloads, {f})
      BY <1>2, <2>5, Goes DEF MarkPublished, HandlerStep, Assembles
    <3>2. Lost(f, j)'
      <4>1. Received(f)' = {}
        BY <3>1 DEF Received, Drop, Restrict
      <4>. QED
        BY <2>1, <3>1, <4>1, HandlerCalmer, StaysSpoken DEF Lost, Spoken, Carries
    <3>3. \A g \in Handlers : ~Assembles(g, f)'
      BY <2>2, <3>1, OwnLocals DEF Assembles, Assembling
    <3>4. j \in Indices(f)'
      BY <2>1 DEF Indices
    <3>. QED
      BY <3>1, <3>2, <3>3, <3>4 DEF Served, Over
  <2>6. HandlerStep(h) => RemovePatches(h) \/ RemovePatchDir(h) \/ MarkPublished(h)
    BY <1>2
    DEF HandlerStep, CreateDir, OpenTmp, WriteTmp, RenameTmp, UpdateEntry, AssembleOpen,
        AssembleChunk, AssembleDone, AbortAssembly, Publish, Reply
  <2>7. \A d \in Headers : ~Receive(h, d)
    BY <1>2 DEF Receive
  <2>8. CASE Background
    BY <1>2, <2>8, BackgroundLocals DEF Served, Assembles
  <2>9. CASE CrashRestart
    <3>1. Received(f)' = {} /\ \A g \in Handlers : ~Assembles(g, f)'
      BY <2>9 DEF CrashRestart, EmptyMap, Received, AllIdle, Assembles, Assembling
    <3>2. Spoken(f, chunk[h].index)
      BY <2>1
    <3>3. PICK i \in Indices(f) : Spoken(f, i)
      BY <2>1, <3>2
    <3>4. Lost(f, i)'
      BY <2>9, <3>1, <3>3, CrashCalmer, StaysSpoken DEF Lost
    <3>. QED
      BY <3>1, <3>3, <3>4 DEF Served, Over, Indices
  <2>. QED
    BY <2>3, <2>4, <2>5, <2>6, <2>7, <2>8, <2>9, Steps
<1>. QED
  BY <1>1, <1>2 DEF Served

\* A file that is published belongs to its thread's upload.
LEMMA NextFilesServed ==
    ASSUME HeadersAgree, OnceEach, IInv, Delivery, Once, FilesServed, [Next]_vars
    PROVE  FilesServed'
<1>1. ASSUME NEW n \in DOMAIN files, NEW d \in Headers, d.crc_ok, d.name = n, Served(d.file_id)
      PROVE  Served(d.file_id)'
  BY <1>1, StaysServed DEF Delivery
<1>2. ASSUME DOMAIN files' \subseteq DOMAIN files PROVE FilesServed'
  BY <1>1, <1>2 DEF FilesServed, Served, Over, Lost, Received, Spoken, Carries, Assembles, Indices
<1>3. ASSUME NEW h \in Handlers, Publish(h) PROVE FilesServed'
  <2>. DEFINE d == chunk[h]
  <2>1. CASE UNCHANGED files
    BY <1>2, <2>1
  <2>2. CASE Goto(h, "remove") /\ files' = Put(files, record[h].name, parts[record[h].name])
    <3>1. pc'[h] = "remove" /\ UNCHANGED chunk /\ pc[h] = "publish"
      BY <1>3, <2>2, Goes DEF Publish
    <3>2. record[h].name = d.name /\ d.crc_ok /\ d \in Headers
      BY <3>1, CarriedChunk, RecordName DEF Carries, Delivery, Assembling
    <3>3. Served(d.file_id)'
      BY <3>1 DEF Served, Assembles, Assembling
    <3>4. DOMAIN files' = DOMAIN files \cup {d.name}
      BY <2>2, <3>2 DEF Put
    <3>5. ASSUME NEW n \in DOMAIN files'
          PROVE  \E e \in Headers : e.crc_ok /\ e.name = n /\ Served(e.file_id)'
      <4>1. CASE n = d.name
        <5>1. Served(d.file_id)' => \E e \in Headers : e.crc_ok /\ e.name = n /\ Served(e.file_id)'
          BY <3>1, <3>2, <4>1 DEF Served, Over, Lost, Received, Spoken, Carries, Assembles, Indices
        <5>. QED
          BY <3>3, <5>1
      <4>2. CASE n \in DOMAIN files
        BY <1>1, <4>2 DEF FilesServed
      <4>. QED
        BY <3>4, <4>1, <4>2
    <3>. QED
      BY <3>5 DEF FilesServed
  <2>. QED
    BY <1>3, <2>1, <2>2 DEF Publish, outVars
<1>4. ASSUME NEW h \in Handlers, AssembleChunk(h) PROVE FilesServed'
  <2>1. fd[h] = "part"
    BY <1>4 DEF AssembleChunk, Delivery, AllOutSound, OutSound
  <2>2. UNCHANGED files
    BY <1>4, <2>1 DEF AssembleChunk, WritePiece, outVars
  <2>. QED
    BY <1>2, <2>2
<1>5. ASSUME NEW h \in Handlers, HandlerStep(h) PROVE FilesServed'
  <2>1. CASE CreateDir(h) \/ OpenTmp(h) \/ WriteTmp(h) \/ RenameTmp(h) \/ UpdateEntry(h)
             \/ AssembleOpen(h) \/ AssembleDone(h) \/ AbortAssembly(h) \/ RemovePatches(h)
             \/ RemovePatchDir(h) \/ MarkPublished(h) \/ Reply(h)
    BY <1>2, <2>1
    DEF CreateDir, OpenTmp, WriteTmp, RenameTmp, UpdateEntry, AssembleOpen, AssembleDone,
        AbortAssembly, RemovePatches, RemovePatchDir, MarkPublished, Reply, outVars
  <2>. QED
    BY <1>3, <1>4, <1>5, <2>1 DEF HandlerStep
<1>6. CASE Background
  <2>1. DOMAIN files' \subseteq DOMAIN files
    BY <1>6
    DEF Background, SweeperStep, BeginSweep, CleanupExpired, CheckFile, RemoveFile, EndSweep,
        ControlStep, StoreDefaultTtl, UpdateEntryTtls, SetTtl, ReceiveFails, Tick, vars, outVars,
        Drop, Restrict
  <2>. QED
    BY <1>2, <2>1
<1>. QED
  BY <1>2, <1>5, <1>6, Steps DEF Receive, CrashRestart, outVars

\* The file a thread publishes is not the one the sweep looked at.
LEMMA PublishesAnother ==
    ASSUME HeadersAgree, OnceEach, IInv, Flow, AllAlone, FilesServed,
           NEW h \in Handlers, pc[h] = "publish"
    PROVE  record[h].name \notin DOMAIN files
<1>. SUFFICES ASSUME record[h].name \in DOMAIN files PROVE FALSE
  OBVIOUS
<1>1. /\ pc[h] \in Assembling /\ record[h].name = chunk[h].name
      /\ chunk[h] \in Headers /\ chunk[h].crc_ok
  BY CarriedChunk, RecordName DEF Carries, Assembling
<1>2. PICK d \in Headers : d.crc_ok /\ d.name = chunk[h].name /\ Served(d.file_id)
  BY <1>1 DEF FilesServed
<1>3. d.file_id = chunk[h].file_id
  BY <1>1, <1>2 DEF OnceEach
<1>4. PICK g \in Handlers : Assembles(g, d.file_id) /\ pc[g] \in {"remove", "rmdir", "mark"}
  BY <1>1, <1>2, <1>3 DEF Served, Over, Assembles
<1>. QED
  BY <1>1, <1>3, <1>4, SameUpload DEF Assembles, AllAlone, Alone

LEMMA NextVictim ==
    ASSUME HeadersAgree, OnceEach, IInv, Delivery, FilesServed, VictimOld, [Next]_vars
    PROVE  VictimOld'
<1>1. CASE UNCHANGED <<files, sweeper>>
  BY <1>1 DEF VictimOld
<1>2. ASSUME NEW h \in Handlers, HandlerStep(h) PROVE VictimOld'
  <2>1. CASE Publish(h)
    <3>1. record[h].name \notin DOMAIN files
      BY <2>1, PublishesAnother DEF Publish, Delivery
    <3>. QED
      BY <2>1, <3>1 DEF Publish, Put, VictimOld, outVars
  <2>2. CASE AssembleChunk(h)
    <3>1. fd[h] = "part"
      BY <2>2 DEF AssembleChunk, Delivery, AllOutSound, OutSound
    <3>. QED
      BY <1>1, <2>2, <3>1 DEF AssembleChunk, WritePiece, outVars
  <2>3. CASE CreateDir(h) \/ OpenTmp(h) \/ WriteTmp(h) \/ RenameTmp(h) \/ UpdateEntry(h)
             \/ AssembleOpen(h) \/ AssembleDone(h) \/ AbortAssembly(h) \/ RemovePatches(h)
             \/ RemovePatchDir(h) \/ MarkPublished(h) \/ Reply(h)
    BY <1>1, <2>3
    DEF CreateDir, OpenTmp, WriteTmp, RenameTmp, UpdateEntry, AssembleOpen, AssembleDone,
        AbortAssembly, RemovePatches, RemovePatchDir, MarkPublished, Reply, outVars
  <2>. QED
    BY <1>2, <2>1, <2>2, <2>3 DEF HandlerStep
<1>3. sweeper \in [pc : {"idle", "expire", "scan"}, ttl : 0..MaxTtl,
                   todo : SUBSET Names, victim : Names \cup {None}]
  BY DEF IInv, TypeOK
<1>4. CASE BeginSweep \/ CleanupExpired \/ RemoveFile \/ EndSweep
  <2>1. CASE BeginSweep \/ CleanupExpired
    <3>1. sweeper'.victim = sweeper.victim /\ sweeper.pc # "scan"
      BY <1>3, <2>1 DEF BeginSweep, CleanupExpired
    <3>. QED
      BY <3>1 DEF VictimOld
  <2>2. CASE RemoveFile \/ EndSweep
    BY <1>3, <2>2 DEF RemoveFile, EndSweep, NoSweep, VictimOld
  <2>. QED
    BY <1>4, <2>1, <2>2
<1>5. ASSUME NEW n \in Names, CheckFile(n) PROVE VictimOld'
  BY <1>3, <1>5 DEF CheckFile, TooOld, VictimOld, outVars
<1>6. CASE Tick
  <2>1. \A n \in DOMAIN files : files[n] \in OutFile
    BY DEF IInv, TypeOK, IsMap
  <2>2. \A n \in DOMAIN files : files'[n].age = Older(files[n].age) /\ files[n].age \in Age
    BY <1>6, <2>1 DEF Tick, OutFile
  <2>3. DOMAIN files' = DOMAIN files /\ sweeper' = sweeper
    BY <1>6 DEF Tick
  <2>4. \A a \in Age : \A t \in 0..MaxTtl : a > t => Older(a) > t
    BY ServerAssumption DEF Age, MaxAge, Older
  <2>. QED
    BY <1>3, <2>2, <2>3, <2>4 DEF VictimOld
<1>7. CASE CrashRestart
  BY <1>7 DEF CrashRestart, NoSweep, VictimOld
<1>8. ASSUME \/ \E h \in Handlers : \E d \in Headers : Receive(h, d)
             \/ \E d \in Headers : ReceiveFails(d)
             \/ \E c \in Controllers : ControlStep(c) \/ \E v \in NewTtls : SetTtl(c, v)
             \/ UNCHANGED vars
      PROVE  VictimOld'
  BY <1>1, <1>8
  DEF Receive, ReceiveFails, ControlStep, StoreDefaultTtl, UpdateEntryTtls, SetTtl, vars, outVars
<1>. QED
  BY <1>2, <1>4, <1>5, <1>6, <1>7, <1>8 DEF Next, SweeperStep

\* Only the sweep removes a published file, and only the one it looked at.
LEMMA RemovedWasOld ==
    ASSUME IInv, Delivery, VictimOld, [Next]_vars, NEW n \in DOMAIN files \ DOMAIN files'
    PROVE  files[n].age > sweeper.ttl
<1>1. CASE RemoveFile
  BY <1>1 DEF RemoveFile, Drop, Restrict, VictimOld
<1>2. ASSUME NEW h \in Handlers, HandlerStep(h) PROVE DOMAIN files \subseteq DOMAIN files'
  <2>1. CASE AssembleChunk(h)
    BY <2>1 DEF AssembleChunk, WritePiece, outVars
  <2>. QED
    BY <1>2, <2>1
    DEF HandlerStep, CreateDir, OpenTmp, WriteTmp, RenameTmp, UpdateEntry, AssembleOpen,
        AssembleDone, AbortAssembly, Publish, Put, RemovePatches,
        RemovePatchDir, MarkPublished, Reply, outVars
<1>3. CASE Background /\ ~RemoveFile
  BY <1>3
  DEF Background, SweeperStep, BeginSweep, CleanupExpired, CheckFile, EndSweep, ControlStep,
      StoreDefaultTtl, UpdateEntryTtls, SetTtl, ReceiveFails, Tick, vars, outVars
<1>. QED
  BY <1>1, <1>2, <1>3, Steps DEF Receive, CrashRestart, outVars

\* As long as clients send every file once, the age the sweep has looked at
\* is still that of the file it then removes: nobody publishes the name again
\* in between (cleanup_completed_files).
THEOREM FreshKept ==
    ASSUME HeadersAgree, OnceEach
    PROVE  Spec => FreshFilesKept
<1>. DEFINE Inv == Delivery /\ Once /\ FilesServed /\ VictimOld
<1>1. Init => Inv
  <2>1. Init => Once
    BY DEF Init, EmptyMap, AllIdle, Once, Spent, Owns, Received, Carries, Incoming, Assembling
  <2>2. Init => FilesServed /\ VictimOld
    BY DEF Init, EmptyMap, NoSweep, FilesServed, VictimOld
  <2>. QED
    BY <2>1, <2>2, InitDelivery
<1>2. IInv /\ Inv /\ [Next]_vars => Inv'
  <2>. SUFFICES ASSUME IInv, Delivery, Once, FilesServed, VictimOld, [Next]_vars
                PROVE  Delivery' /\ Once' /\ FilesServed' /\ VictimOld'
    OBVIOUS
  <2>. QED
    BY NextDelivery, NextOnce, NextFilesServed, NextVictim, OnceIsNoResend DEF Delivery
<1>3. IInv /\ Inv /\ [Next]_vars =>
         [\A n \in DOMAIN files \ DOMAIN files' : files[n].age > sweeper.ttl]_vars
  BY RemovedWasOld
<1>. HIDE DEF Inv
<1>. QED
  BY <1>1, <1>2, <1>3, Inductive, PTL DEF Spec, FreshFilesKept
=============================================================================
