-------------------------- MODULE RelayServerProofs --------------------------
(***************************************************************************)
(* Theorems about RelayServer for any threads, uploads, names and headers, *)
(* any number of deliveries, crashes and failing system calls.             *)
(*                                                                         *)
(* IInv is the inductive invariant: the types need to know that a thread   *)
(* in the middle of a connection has its chunk and its record, and writing *)
(* through a descriptor keeps the directory it writes to well formed only  *)
(* because the descriptor is attached to a name that exists.               *)
(***************************************************************************)
EXTENDS RelayServer, TLAPS

\* Where an open descriptor's inode is, as the types need it: on a name that
\* exists, or on none.
DescriptorsAttached ==
    \A h \in Handlers :
        /\ fd[h] \in {"tmp", "patch"} => pc[h] = "write"
        /\ fd[h] \in {"part", "file"} => pc[h] \in {"copy", "abort"}
        /\ fd[h] = "tmp" => Key(h) \in DOMAIN tmps
        /\ fd[h] = "patch" => Key(h) \in DOMAIN patches
        /\ fd[h] = "part" => record[h].name \in DOMAIN parts
        /\ fd[h] = "file" => record[h].name \in DOMAIN files

IInv == TypeOK /\ ThreadsEquipped /\ DescriptorsAttached

-----------------------------------------------------------------------------
(* Directories and tables as partial functions.                            *)

\* Writing a name adds it.
LEMMA PutMap ==
    ASSUME NEW K, NEW V, NEW g, IsMap(g, K, V),
           NEW k, k \in K, NEW v, v \in V
    PROVE  IsMap(Put(g, k, v), K, V)
BY DEF IsMap, Put

\* The names after a write.
LEMMA PutDomain ==
    ASSUME NEW g, NEW k, NEW v
    PROVE  DOMAIN Put(g, k, v) = DOMAIN g \cup {k}
BY DEF Put

\* Removing names.
LEMMA DropMap ==
    ASSUME NEW K, NEW V, NEW g, IsMap(g, K, V), NEW S
    PROVE  /\ IsMap(Drop(g, S), K, V)
           /\ DOMAIN Drop(g, S) = DOMAIN g \ S
BY DEF IsMap, Drop, Restrict

\* Removing a directory removes what is below it.
LEMMA DropDirs ==
    ASSUME NEW D, NEW V, NEW g, IsMap(g, KeysBelow(D), V), NEW F
    PROVE  /\ IsMap(Drop(g, KeysOf(F, g)), KeysBelow(D \ F), V)
           /\ \A k \in DOMAIN g : k[1] \notin F => k \in DOMAIN Drop(g, KeysOf(F, g))
BY DEF IsMap, Drop, Restrict, KeysOf, KeysBelow

\* More names are allowed than there are.
LEMMA WiderMap ==
    ASSUME NEW K, NEW L, NEW V, NEW g, IsMap(g, K, V), K \subseteq L
    PROVE  IsMap(g, L, V)
BY DEF IsMap

-----------------------------------------------------------------------------
(* The initial states.                                                     *)

\* The inductive invariant holds when the server starts.
LEMMA InitIInv == Init => IInv
<1>. SUFFICES ASSUME Init PROVE IInv
  OBVIOUS
<1>. USE ServerAssumption
<1>1. TypeOK
  <2>1. \A K, V : IsMap(EmptyMap, K, V)
    BY DEF IsMap, EmptyMap
  <2>2. /\ default_ttl \in 1..MaxTtl /\ ttl_seconds \in 1..MaxTtl
        /\ sweeper \in [pc : {"idle", "expire", "scan"}, ttl : 0..MaxTtl,
                        todo : SUBSET Names, victim : Names \cup {None}]
    BY DEF Init, NoSweep
  <2>3. /\ pc \in [Handlers -> PcValues]
        /\ chunk \in [Handlers -> Headers \cup {None}]
        /\ record \in [Handlers -> Record \cup {None}]
        /\ fd \in [Handlers -> {"none", "tmp", "patch", "part", "file", "gone"}]
        /\ out \in [Handlers -> [idx : Nat, wrote : Nat, pending : BOOLEAN]]
    BY DEF Init, AllIdle, NoChunks, NoFds, NoOuts, NoOut, PcValues
  <2>4. /\ control \in [Controllers -> [pc : {"idle", "default", "entries"},
                                        ttl : 0..MaxTtl]]
        /\ deliveries \in [Headers -> 0..MaxDeliveries]
        /\ crashes \in 0..MaxCrashes /\ fs_errors \in 0..MaxFsErrors
    BY DEF Init, NoControl
  <2>. QED
    BY <2>1, <2>2, <2>3, <2>4 DEF TypeOK, Init
<1>2. ThreadsEquipped
  BY DEF Init, ThreadsEquipped, AllIdle, NoControl, Assembling
<1>3. DescriptorsAttached
  BY DEF Init, DescriptorsAttached, NoFds
<1>. QED
  BY <1>1, <1>2, <1>3 DEF IInv

-----------------------------------------------------------------------------
(* The connection thread.                                                  *)

\* The fields and the key of a thread's chunk.
LEMMA KeyType ==
    ASSUME NEW h \in Handlers, chunk[h] \in Headers
    PROVE  /\ Key(h) \in FileIds \X Nat /\ Key(h)[1] = chunk[h].file_id
           /\ chunk[h].file_id \in FileIds /\ chunk[h].name \in Names
           /\ chunk[h].index \in Nat /\ chunk[h].total \in Nat
           /\ chunk[h].ttl \in Int /\ chunk[h].ttl <= MaxTtl
BY ServerAssumption DEF Key, HeaderType

\* The key is below any directory set that has the upload's directory.
LEMMA KeyBelow ==
    ASSUME NEW h \in Handlers, chunk[h] \in Headers, NEW D, chunk[h].file_id \in D
    PROVE  Key(h) \in KeysBelow(D)
BY KeyType DEF Key, KeysBelow

\* A failing system call is counted.
LEMMA FsErrorType ==
    ASSUME TypeOK, FsError PROVE fs_errors' \in 0..MaxFsErrors
BY ServerAssumption DEF TypeOK, FsError

\* Taking a chunk off a connection equips its thread.
LEMMA ReceiveIInv ==
    ASSUME IInv, NEW h \in Handlers, NEW d \in Headers, Receive(h, d)
    PROVE  IInv'
<1>. USE DEF IInv, Receive, Goto
<1>1. TypeOK'
  <2>1. deliveries' \in [Headers -> 0..MaxDeliveries]
    BY ServerAssumption DEF TypeOK
  <2>2. pc' \in [Handlers -> PcValues] /\ chunk' \in [Handlers -> Headers \cup {None}]
    BY DEF TypeOK, PcValues
  <2>. QED
    BY <2>1, <2>2 DEF TypeOK, tableVars, patchVars, outVars
<1>2. ThreadsEquipped'
  BY DEF TypeOK, ThreadsEquipped, Assembling
<1>3. DescriptorsAttached'
  BY DEF TypeOK, DescriptorsAttached, Key, patchVars, outVars
<1>. QED
  BY <1>1, <1>2, <1>3

\* A refused connection changes nothing but its count.
LEMMA ReceiveFailsIInv ==
    ASSUME IInv, NEW d \in Headers, ReceiveFails(d)
    PROVE  IInv'
<1>. USE DEF IInv, ReceiveFails, tableVars, patchVars, outVars, threadVars
<1>1. TypeOK'
  <2>1. deliveries' \in [Headers -> 0..MaxDeliveries]
    BY ServerAssumption DEF TypeOK
  <2>. QED
    BY <2>1 DEF TypeOK
<1>2. ThreadsEquipped' /\ DescriptorsAttached'
  BY DEF ThreadsEquipped, DescriptorsAttached, Key
<1>. QED
  BY <1>1, <1>2

\* verify_crc and create_directories keep the inductive invariant.
LEMMA CreateDirIInv ==
    ASSUME IInv, NEW h \in Handlers, CreateDir(h)
    PROVE  IInv'
<1>. USE DEF IInv, CreateDir, Goto, tableVars, outVars
<1>1. chunk[h] \in Headers
  BY DEF ThreadsEquipped
<1>2. dirs' \subseteq FileIds /\ dirs \subseteq dirs' /\ fs_errors' \in 0..MaxFsErrors
  BY <1>1, KeyType, FsErrorType DEF TypeOK
<1>3. pc' \in [Handlers -> PcValues] /\ pc'[h] \in {"open", "reply"}
  BY DEF TypeOK, PcValues
<1>4. TypeOK'
  <2>1. KeysBelow(dirs) \subseteq KeysBelow(dirs')
    BY <1>2 DEF KeysBelow
  <2>. QED
    BY <1>2, <1>3, <2>1, WiderMap DEF TypeOK
<1>5. ThreadsEquipped'
  BY <1>1, <1>3 DEF TypeOK, ThreadsEquipped, Assembling
<1>6. DescriptorsAttached'
  BY DEF TypeOK, DescriptorsAttached, Key
<1>. QED
  BY <1>4, <1>5, <1>6

\* Opening the .tmp path attaches the descriptor to the file it made, and
\* empties the file of whoever is writing it.
LEMMA OpenTmpIInv ==
    ASSUME IInv, NEW h \in Handlers, OpenTmp(h)
    PROVE  IInv'
<1>. USE DEF IInv, tableVars, outVars
<1>1. chunk[h] \in Headers /\ pc[h] = "open"
  BY DEF ThreadsEquipped, OpenTmp
<1>2. /\ pc' \in [Handlers -> PcValues] /\ pc'[h] \in {"write", "reply"}
      /\ \A g \in Handlers : g # h => pc'[g] = pc[g]
  BY DEF TypeOK, PcValues, OpenTmp, Goto
<1>3. CASE tmps' = tmps /\ fd' = fd
  <2>1. fs_errors' \in 0..MaxFsErrors
    BY FsErrorType DEF OpenTmp, TypeOK
  <2>2. TypeOK'
    BY <1>2, <1>3, <2>1 DEF TypeOK, OpenTmp
  <2>3. ThreadsEquipped'
    BY <1>1, <1>2 DEF ThreadsEquipped, Assembling, OpenTmp
  <2>4. DescriptorsAttached'
    BY <1>1, <1>2, <1>3 DEF DescriptorsAttached, Key, OpenTmp
  <2>. QED
    BY <2>2, <2>3, <2>4
<1>4. CASE /\ chunk[h].file_id \in dirs /\ tmps' = Put(tmps, Key(h), "empty")
           /\ fd' = [fd EXCEPT ![h] = "tmp"] /\ pc' = [pc EXCEPT ![h] = "write"]
           /\ fs_errors' = fs_errors
  <2>1. Key(h) \in KeysBelow(dirs) /\ "empty" \in Content
    BY <1>1, <1>4, KeyBelow DEF Content
  <2>2. IsMap(tmps', KeysBelow(dirs), Content) /\ DOMAIN tmps' = DOMAIN tmps \cup {Key(h)}
    <3>1. IsMap(tmps, KeysBelow(dirs), Content)
      BY DEF TypeOK
    <3>2. tmps' = Put(tmps, Key(h), "empty")
      BY <1>4
    <3>3. IsMap(tmps', KeysBelow(dirs), Content)
      BY <2>1, <3>1, <3>2, PutMap
    <3>. QED
      BY <3>2, <3>3, PutDomain
  <2>3. TypeOK'
    BY <1>2, <1>4, <2>2 DEF TypeOK, OpenTmp
  <2>4. ThreadsEquipped'
    BY <1>1, <1>2 DEF ThreadsEquipped, Assembling, OpenTmp
  <2>5. DescriptorsAttached'
    BY <1>1, <1>2, <1>4, <2>2 DEF TypeOK, DescriptorsAttached, Key, OpenTmp
  <2>. QED
    BY <2>3, <2>4, <2>5
<1>. QED
  BY <1>3, <1>4 DEF OpenTmp, Goto

\* Writing goes to where the inode is by now; the error path unlinks the .tmp
\* path and detaches the others on it.
LEMMA WriteTmpIInv ==
    ASSUME IInv, NEW h \in Handlers, WriteTmp(h)
    PROVE  IInv'
<1>. USE DEF IInv
<1>1. chunk[h] \in Headers /\ pc[h] = "write"
  BY DEF ThreadsEquipped, WriteTmp
<1>2. /\ pc' \in [Handlers -> PcValues] /\ pc'[h] \in {"rename", "reply"}
      /\ \A g \in Handlers : g # h => pc'[g] = pc[g]
  BY DEF TypeOK, PcValues, WriteTmp, Goto
<1>3. /\ fd' \in [Handlers -> {"none", "tmp", "patch", "part", "file", "gone"}]
      /\ fd'[h] = "none"
      /\ \A g \in Handlers : fd'[g] \in {fd[g], "none", "gone"}
  BY DEF TypeOK, WriteTmp
<1>4. fs_errors' \in 0..MaxFsErrors
  BY FsErrorType DEF WriteTmp, TypeOK
<1>5. Payload(chunk[h]) \in Content
  BY DEF Payload, Content
<1>6. IsMap(tmps, KeysBelow(dirs), Content) /\ IsMap(patches, KeysBelow(dirs), Content)
  BY DEF TypeOK
<1>7. Key(h) \in DOMAIN tmps => Key(h) \in KeysBelow(dirs)
  BY <1>6 DEF IsMap
<1>8. Key(h) \in DOMAIN patches => Key(h) \in KeysBelow(dirs)
  BY <1>6 DEF IsMap
<1>9. /\ IsMap(tmps', KeysBelow(dirs), Content) /\ IsMap(patches', KeysBelow(dirs), Content)
      /\ DOMAIN patches' = DOMAIN patches
      /\ \/ DOMAIN tmps' = DOMAIN tmps
         \/ /\ DOMAIN tmps' = DOMAIN tmps \ {Key(h)}
            /\ \A g \in Handlers : fd'[g] = "tmp" => Key(g) # Key(h)
  <2>1. CASE /\ tmps' = IF fd[h] = "tmp"
                        THEN Put(tmps, Key(h), Payload(chunk[h])) ELSE tmps
             /\ patches' = IF fd[h] = "patch"
                           THEN Put(patches, Key(h), Payload(chunk[h])) ELSE patches
    <3>1. fd[h] = "tmp" => Key(h) \in DOMAIN tmps
      BY DEF DescriptorsAttached
    <3>2. fd[h] = "patch" => Key(h) \in DOMAIN patches
      BY DEF DescriptorsAttached
    <3>3. fd[h] = "tmp" => IsMap(tmps', KeysBelow(dirs), Content)
      BY <1>5, <1>6, <1>7, <2>1, <3>1, PutMap
    <3>4. fd[h] = "patch" => IsMap(patches', KeysBelow(dirs), Content)
      BY <1>5, <1>6, <1>8, <2>1, <3>2, PutMap
    <3>5. DOMAIN tmps' = DOMAIN tmps /\ DOMAIN patches' = DOMAIN patches
      BY <2>1, <3>1, <3>2 DEF Put
    <3>. QED
      BY <1>6, <2>1, <3>3, <3>4, <3>5
  <2>2. CASE /\ tmps' = Drop(tmps, {Key(h)}) /\ patches' = patches
             /\ fd' = [g \in Handlers |->
                         CASE g = h -> "none"
                           [] g # h /\ fd[g] = "tmp" /\ Key(g) = Key(h) -> "gone"
                           [] OTHER -> fd[g]]
    <3>1. IsMap(tmps', KeysBelow(dirs), Content) /\ DOMAIN tmps' = DOMAIN tmps \ {Key(h)}
      BY <1>6, <2>2, DropMap
    <3>2. \A g \in Handlers : fd'[g] = "tmp" => Key(g) # Key(h)
      BY <2>2
    <3>. QED
      BY <1>6, <2>2, <3>1, <3>2
  <2>. QED
    BY <2>1, <2>2 DEF WriteTmp
<1>10. TypeOK'
  BY <1>2, <1>3, <1>4, <1>9 DEF TypeOK, WriteTmp, tableVars, outVars
<1>11. ThreadsEquipped'
  BY <1>1, <1>2 DEF ThreadsEquipped, Assembling, WriteTmp
<1>12. DescriptorsAttached'
  BY <1>1, <1>2, <1>3, <1>9 DEF DescriptorsAttached, Key, WriteTmp, outVars
<1>. QED
  BY <1>10, <1>11, <1>12

\* Renaming the .tmp path takes the descriptors on it along and detaches those
\* on the file it replaces.
LEMMA RenameTmpIInv ==
    ASSUME IInv, NEW h \in Handlers, RenameTmp(h)
    PROVE  IInv'
<1>. USE DEF IInv
<1>1. chunk[h] \in Headers /\ pc[h] = "rename"
  BY DEF ThreadsEquipped, RenameTmp
<1>2. /\ pc' \in [Handlers -> PcValues] /\ pc'[h] \in {"lock", "reply"}
      /\ \A g \in Handlers : g # h => pc'[g] = pc[g]
  BY DEF TypeOK, PcValues, RenameTmp, Goto
<1>3. fs_errors' \in 0..MaxFsErrors
  BY FsErrorType DEF RenameTmp, TypeOK
<1>4. IsMap(tmps, KeysBelow(dirs), Content) /\ IsMap(patches, KeysBelow(dirs), Content)
  BY DEF TypeOK
<1>5. ThreadsEquipped'
  BY <1>1, <1>2 DEF ThreadsEquipped, Assembling, RenameTmp
<1>6. CASE UNCHANGED <<patches, tmps, fd>>
  <2>1. TypeOK'
    BY <1>2, <1>3, <1>6 DEF TypeOK, RenameTmp, tableVars, outVars
  <2>2. DescriptorsAttached'
    BY <1>1, <1>2, <1>6 DEF DescriptorsAttached, Key, RenameTmp, outVars
  <2>. QED
    BY <1>5, <2>1, <2>2
<1>7. CASE /\ Key(h) \in DOMAIN tmps
           /\ patches' = Put(patches, Key(h), tmps[Key(h)])
           /\ tmps' = Drop(tmps, {Key(h)})
           /\ fd' = [g \in Handlers |->
                       CASE fd[g] = "tmp" /\ Key(g) = Key(h) -> "patch"
                         [] fd[g] = "patch" /\ Key(g) = Key(h) -> "gone"
                         [] OTHER -> fd[g]]
  <2>1. tmps[Key(h)] \in Content /\ Key(h) \in KeysBelow(dirs)
    BY <1>4, <1>7 DEF IsMap
  <2>2. /\ IsMap(patches', KeysBelow(dirs), Content)
        /\ DOMAIN patches' = DOMAIN patches \cup {Key(h)}
    <3>1. patches' = Put(patches, Key(h), tmps[Key(h)])
      BY <1>7
    <3>2. IsMap(patches', KeysBelow(dirs), Content)
      BY <1>4, <2>1, <3>1, PutMap
    <3>. QED
      BY <3>1, <3>2, PutDomain
  <2>3. IsMap(tmps', KeysBelow(dirs), Content) /\ DOMAIN tmps' = DOMAIN tmps \ {Key(h)}
    BY <1>4, <1>7, DropMap
  <2>4. /\ fd' \in [Handlers -> {"none", "tmp", "patch", "part", "file", "gone"}]
        /\ \A g \in Handlers :
              /\ fd'[g] = "tmp" => fd[g] = "tmp" /\ Key(g) # Key(h)
              /\ fd'[g] = "patch" => \/ fd[g] = "tmp" /\ Key(g) = Key(h)
                                     \/ fd[g] = "patch"
              /\ fd'[g] \in {"part", "file"} => fd'[g] = fd[g]
    BY <1>7 DEF TypeOK
  <2>5. TypeOK'
    BY <1>2, <1>3, <2>2, <2>3, <2>4 DEF TypeOK, RenameTmp, tableVars, outVars
  <2>6. DescriptorsAttached'
    BY <1>1, <1>2, <2>2, <2>3, <2>4 DEF DescriptorsAttached, Key, RenameTmp, outVars
  <2>. QED
    BY <1>5, <2>5, <2>6
<1>. QED
  BY <1>6, <1>7 DEF RenameTmp

\* What persist_manifest writes is well formed, and only into directories
\* that exist.
LEMMA PersistType ==
    ASSUME TypeOK, NEW table, IsMap(table, FileIds, Entry), NEW F, F \subseteq DOMAIN table,
           PersistAll(table, F)
    PROVE  IsMap(manifests', dirs, ManifestType) /\ fs_errors' \in 0..MaxFsErrors
<1>1. \A f \in F : Manifest(table[f]) \in ManifestType
  BY DEF IsMap, Manifest, State, ManifestType, Entry
<1>2. ASSUME NEW bad, Persist(table, F, bad) PROVE IsMap(manifests', dirs, ManifestType)
  BY <1>1, <1>2 DEF Persist, TypeOK, IsMap
<1>3. fs_errors' \in 0..MaxFsErrors
  BY FsErrorType DEF PersistAll, TypeOK
<1>. QED
  BY <1>2, <1>3 DEF PersistAll

\* The entry a chunk leads to.
LEMMA NewEntryType ==
    ASSUME IInv, NEW d \in Headers
    PROVE  NewEntry(d) \in Entry /\ d.file_id \in FileIds
<1>1. /\ d.file_id \in FileIds /\ d.name \in Names /\ d.index \in Nat
      /\ d.total \in Nat /\ d.ttl \in Int /\ d.ttl <= MaxTtl
  BY ServerAssumption DEF HeaderType
<1>2. EntryTtl(d) \in 1..MaxTtl
  BY <1>1, ServerAssumption DEF EntryTtl, IInv, TypeOK
<1>3. /\ OldEntry(d).name \in Names /\ OldEntry(d).total \in Nat
      /\ OldEntry(d).size \in Nat /\ OldEntry(d).received \in SUBSET Nat
  <2>1. CASE d.file_id \in DOMAIN payloads
    <3>1. payloads[d.file_id] \in Entry
      BY <2>1 DEF IInv, TypeOK, IsMap
    <3>. QED
      BY <2>1, <3>1 DEF OldEntry, Entry
  <2>2. CASE d.file_id \notin DOMAIN payloads
    BY <1>1, <2>2 DEF OldEntry
  <2>. QED
    BY <2>1, <2>2
<1>4. 0 \in Age
  BY ServerAssumption DEF Age, MaxAge
<1>. QED
  BY <1>1, <1>2, <1>3, <1>4 DEF NewEntry, Entry

\* store_chunk's critical section makes a well-formed entry and record.
LEMMA UpdateEntryIInv ==
    ASSUME IInv, NEW h \in Handlers, UpdateEntry(h)
    PROVE  IInv'
<1>. DEFINE d == chunk[h]
            e == NewEntry(d)
<1>1. d \in Headers /\ pc[h] = "lock"
  BY DEF ThreadsEquipped, UpdateEntry, IInv
<1>2. e \in Entry /\ d.file_id \in FileIds
  BY <1>1, NewEntryType
<1>. HIDE DEF d, e
<1>3. payloads' = Put(payloads, d.file_id, e) /\ PersistAll(payloads', {d.file_id})
  BY DEF UpdateEntry, d, e
<1>4. IsMap(payloads', FileIds, Entry) /\ d.file_id \in DOMAIN payloads'
  <2>1. IsMap(payloads, FileIds, Entry)
    BY DEF IInv, TypeOK
  <2>2. IsMap(payloads', FileIds, Entry)
    BY <1>2, <1>3, <2>1, PutMap
  <2>3. payloads' = Put(payloads, d.file_id, e)
    BY <1>3
  <2>4. DOMAIN payloads' = DOMAIN payloads \cup {d.file_id}
    BY <2>3, PutDomain
  <2>. QED
    BY <2>2, <2>4
<1>5. IsMap(manifests', dirs, ManifestType) /\ fs_errors' \in 0..MaxFsErrors
  BY <1>3, <1>4, PersistType DEF IInv
<1>6. [name |-> e.name, total |-> e.total, size |-> e.size, received |-> e.received] \in Record
  BY <1>2 DEF Entry, Record
<1>7. /\ pc' \in [Handlers -> PcValues] /\ pc'[h] \in {"assemble", "reply"}
      /\ \A g \in Handlers : g # h => pc'[g] = pc[g]
  BY DEF IInv, TypeOK, PcValues, UpdateEntry, Goto
<1>8. /\ record' \in [Handlers -> Record \cup {None}]
      /\ pc'[h] = "assemble" => record'[h] \in Record
      /\ \A g \in Handlers : g # h => record'[g] = record[g]
  BY <1>6 DEF IInv, TypeOK, UpdateEntry, Goto, d, e
<1>9. TypeOK'
  BY <1>4, <1>5, <1>7, <1>8 DEF IInv, TypeOK, UpdateEntry, outVars
<1>10. ThreadsEquipped'
  BY <1>1, <1>7, <1>8 DEF IInv, ThreadsEquipped, Assembling, UpdateEntry, d
<1>11. DescriptorsAttached'
  BY <1>1, <1>7, <1>8 DEF IInv, DescriptorsAttached, Key, UpdateEntry, outVars
<1>. QED
  BY <1>9, <1>10, <1>11 DEF IInv

\* What assembling works with.
LEMMA RecordType ==
    ASSUME IInv, NEW h \in Handlers, pc[h] \in Assembling
    PROVE  /\ chunk[h] \in Headers /\ chunk[h].file_id \in FileIds
           /\ record[h] \in Record /\ record[h].name \in Names
           /\ out[h].idx \in Nat /\ out[h].wrote \in Nat
BY ServerAssumption
DEF IInv, TypeOK, ThreadsEquipped, Assembling, PcValues, Record, HeaderType

\* Creating the .part attaches the descriptor to it.
LEMMA AssembleOpenIInv ==
    ASSUME IInv, NEW h \in Handlers, AssembleOpen(h)
    PROVE  IInv'
<1>. DEFINE n == record[h].name
<1>1. pc[h] = "assemble" /\ n \in Names /\ record[h] \in Record /\ chunk[h] \in Headers
  BY RecordType DEF AssembleOpen, Assembling
<1>2. /\ pc' \in [Handlers -> PcValues] /\ pc'[h] \in {"copy", "reply"}
      /\ \A g \in Handlers : g # h => pc'[g] = pc[g]
  BY DEF IInv, TypeOK, PcValues, AssembleOpen, Goto
<1>3. ThreadsEquipped'
  BY <1>1, <1>2 DEF IInv, ThreadsEquipped, Assembling, AssembleOpen
<1>4. fs_errors' \in 0..MaxFsErrors
  BY FsErrorType DEF AssembleOpen, IInv, TypeOK
<1>5. CASE UNCHANGED <<parts, fd, out>>
  <2>1. TypeOK'
    BY <1>2, <1>4, <1>5 DEF IInv, TypeOK, AssembleOpen, tableVars, patchVars
  <2>2. DescriptorsAttached'
    BY <1>1, <1>2, <1>5 DEF IInv, DescriptorsAttached, Key, AssembleOpen, patchVars
  <2>. QED
    BY <1>3, <2>1, <2>2 DEF IInv
<1>6. CASE /\ parts' = OpenPart(n) /\ fd' = [fd EXCEPT ![h] = "part"]
           /\ out' = [out EXCEPT ![h] = [idx |-> 0, wrote |-> 0, pending |-> FALSE]]
           /\ pc' = [pc EXCEPT ![h] = "copy"]
  <2>1. [content |-> <<>>, age |-> 0] \in OutFile
    BY ServerAssumption DEF OutFile, Age, MaxAge
  <2>2. IsMap(parts, Names, OutFile)
    BY DEF IInv, TypeOK
  <2>3. IsMap(parts', Names, OutFile)
    BY <1>1, <1>6, <2>1, <2>2, PutMap DEF OpenPart
  <2>4. DOMAIN parts' = DOMAIN parts \cup {n}
    BY <1>6, PutDomain DEF OpenPart
  <2>5. TypeOK'
    BY <1>2, <1>4, <1>6, <2>3 DEF IInv, TypeOK, AssembleOpen, tableVars, patchVars
  <2>6. DescriptorsAttached'
    BY <1>1, <1>2, <1>6, <2>4 DEF IInv, TypeOK, DescriptorsAttached, Key, AssembleOpen, patchVars
  <2>. QED
    BY <1>3, <2>5, <2>6 DEF IInv
<1>. QED
  BY <1>5, <1>6 DEF AssembleOpen, Goto

Piece == (FileIds \X Nat) \cup {Junk}

\* write(2) makes a sequence of pieces of a sequence of pieces.
LEMMA WriteAtType ==
    ASSUME NEW s \in Seq(Piece), NEW k \in Nat, NEW piece \in Piece
    PROVE  WriteAt(s, k, piece) \in Seq(Piece)
<1>1. Junk \in Piece
  BY DEF Piece
<1>. DEFINE len == IF k < Len(s) THEN Len(s) ELSE k + 1
<1>2. len \in Nat
  OBVIOUS
<1>3. \A i \in 1..len : (CASE i = k + 1 -> piece
                           [] i # k + 1 /\ i <= Len(s) -> s[i]
                           [] OTHER -> Junk) \in Piece
  BY <1>1, <1>2
<1>4. WriteAt(s, k, piece) = [i \in 1..len |-> CASE i = k + 1 -> piece
                                [] i # k + 1 /\ i <= Len(s) -> s[i]
                                [] OTHER -> Junk]
  BY DEF WriteAt
<1>5. WriteAt(s, k, piece) \in [1..len -> Piece]
  BY <1>3, <1>4
<1>. QED
  BY <1>2, <1>5

\* Writing through a descriptor changes contents only.
LEMMA WritePieceType ==
    ASSUME IInv, NEW h \in Handlers, pc[h] = "copy", NEW piece \in Piece, WritePiece(h, piece)
    PROVE  /\ IsMap(parts', Names, OutFile) /\ IsMap(files', Names, OutFile)
           /\ DOMAIN parts' = DOMAIN parts /\ DOMAIN files' = DOMAIN files
<1>. DEFINE n == record[h].name
            w(g) == [g EXCEPT ![n] = [content |-> WriteAt(@.content, out[h].wrote, piece),
                                      age |-> 0]]
<1>1. out[h].wrote \in Nat
  BY RecordType DEF Assembling
<1>2. ASSUME NEW g, IsMap(g, Names, OutFile)
      PROVE  IsMap(w(g), Names, OutFile) /\ DOMAIN w(g) = DOMAIN g
  <2>1. CASE n \in DOMAIN g
    <3>1. g[n].content \in Seq(Piece)
      BY <1>2, <2>1 DEF IsMap, OutFile, Piece
    <3>2. WriteAt(g[n].content, out[h].wrote, piece) \in Seq(Piece)
      BY <1>1, <3>1, WriteAtType
    <3>3. [content |-> WriteAt(g[n].content, out[h].wrote, piece), age |-> 0] \in OutFile
      BY <3>2, ServerAssumption DEF OutFile, Piece, Age, MaxAge
    <3>. QED
      BY <1>2, <2>1, <3>3 DEF IsMap
  <2>2. CASE n \notin DOMAIN g
    BY <1>2, <2>2 DEF IsMap
  <2>. QED
    BY <2>1, <2>2
<1>3. IsMap(parts, Names, OutFile) /\ IsMap(files, Names, OutFile)
  BY DEF IInv, TypeOK
<1>4. parts' = (IF fd[h] = "part" THEN w(parts) ELSE parts)
  BY DEF WritePiece
<1>5. files' = (IF fd[h] = "file" THEN w(files) ELSE files)
  BY DEF WritePiece
<1>. HIDE DEF w
<1>. QED
  BY <1>2, <1>3, <1>4, <1>5

\* A step of an assembling thread that leaves the directory of patches, the
\* names of the outputs and the descriptors alone.
LEMMA AssembleStep ==
    ASSUME IInv, NEW h \in Handlers, pc[h] \in Assembling, NEW l,
           l \in Assembling \cup {"reply"}, pc' = [pc EXCEPT ![h] = l],
           fd[h] \in {"part", "file"} => l \in {"copy", "abort"},
           DOMAIN parts' = DOMAIN parts, DOMAIN files' = DOMAIN files,
           UNCHANGED <<chunk, record, fd, tmps, patches, control>>
    PROVE  /\ pc' \in [Handlers -> PcValues]
           /\ ThreadsEquipped' /\ DescriptorsAttached'
<1>1. /\ pc' \in [Handlers -> PcValues] /\ pc'[h] = l
      /\ \A g \in Handlers : g # h => pc'[g] = pc[g]
  BY DEF IInv, TypeOK, PcValues, Assembling
<1>2. chunk[h] \in Headers /\ record[h] \in Record
  BY RecordType
<1>3. ThreadsEquipped'
  BY <1>1, <1>2 DEF IInv, ThreadsEquipped
<1>4. pc[h] # "write"
  BY DEF Assembling
<1>5. DescriptorsAttached'
  BY <1>1, <1>4 DEF IInv, DescriptorsAttached, Key
<1>. QED
  BY <1>1, <1>3, <1>5

\* Whatever decompression makes of a patch, it says whether it wants more.
LEMMA DecompressType ==
    ASSUME NEW f, NEW o, NEW content, NEW z \in Decompress(f, o, content)
    PROVE  z.pending \in BOOLEAN
<1>1. CASE content = "full" /\ o.wrote = o.idx
  <2>1. z = [ok |-> TRUE, piece |-> <<f, o.idx>>, pending |-> o.idx + 1 # StreamLen[f]]
    BY <1>1 DEF Decompress
  <2>2. z.pending = (o.idx + 1 # StreamLen[f])
    BY <2>1, Zenon
  <2>. QED
    BY <2>2, Zenon
<1>2. CASE ~(content = "full" /\ o.wrote = o.idx)
  BY <1>2 DEF Decompress
<1>. QED
  BY <1>1, <1>2

\* An iteration of the assembler's loop keeps the inductive invariant.
LEMMA AssembleChunkIInv ==
    ASSUME IInv, NEW h \in Handlers, AssembleChunk(h)
    PROVE  IInv'
<1>1. /\ pc[h] = "copy" /\ pc[h] \in Assembling /\ pc \in [Handlers -> PcValues]
      /\ out[h].idx \in Nat /\ out[h].wrote \in Nat
      /\ chunk[h].file_id \in FileIds /\ record[h] \in Record
  BY RecordType DEF AssembleChunk, Assembling, IInv, TypeOK
<1>2. fs_errors' \in 0..MaxFsErrors
  BY FsErrorType DEF AssembleChunk, IInv, TypeOK
<1>3. \E l \in {"copy", "abort"} : pc' = [pc EXCEPT ![h] = l]
  BY <1>1 DEF AssembleChunk, Goto
<1>4. out' \in [Handlers -> [idx : Nat, wrote : Nat, pending : BOOLEAN]]
  <2>1. \A z \in Decompress(chunk[h].file_id, out[h],
                            patches[<<chunk[h].file_id, out[h].idx>>]) : z.pending \in BOOLEAN
    BY DecompressType
  <2>2. \/ out' = out
        \/ out' = [out EXCEPT ![h].idx = @ + 1]
        \/ \E b \in BOOLEAN :
             out' = [out EXCEPT ![h] = [idx |-> out[h].idx + 1, wrote |-> out[h].wrote + 1,
                                        pending |-> b]]
    BY <2>1 DEF AssembleChunk
  <2>3. out \in [Handlers -> [idx : Nat, wrote : Nat, pending : BOOLEAN]]
    BY DEF IInv, TypeOK
  <2>. QED
    BY <1>1, <2>2, <2>3
<1>5. /\ IsMap(parts', Names, OutFile) /\ IsMap(files', Names, OutFile)
      /\ DOMAIN parts' = DOMAIN parts /\ DOMAIN files' = DOMAIN files
  <2>1. CASE UNCHANGED outVars
    BY <2>1 DEF outVars, IInv, TypeOK
  <2>2. CASE \E z \in Decompress(chunk[h].file_id, out[h],
                                 patches[<<chunk[h].file_id, out[h].idx>>]) :
               WritePiece(h, z.piece)
    <3>1. PICK z \in Decompress(chunk[h].file_id, out[h],
                                patches[<<chunk[h].file_id, out[h].idx>>]) :
               WritePiece(h, z.piece)
      BY <2>2
    <3>2. z.piece \in Piece
      BY <1>1 DEF Decompress, Piece
    <3>. QED
      BY <1>1, <3>1, <3>2, WritePieceType
  <2>. QED
    BY <2>1, <2>2 DEF AssembleChunk
<1>6. UNCHANGED <<tableVars, patchVars, chunk, record, fd, sweeper, control,
                  deliveries, crashes>>
  BY DEF AssembleChunk
<1>7. pc' \in [Handlers -> PcValues] /\ ThreadsEquipped' /\ DescriptorsAttached'
  BY <1>1, <1>3, <1>5, <1>6, AssembleStep DEF Assembling, patchVars
<1>8. TypeOK'
  BY <1>2, <1>4, <1>5, <1>6, <1>7 DEF IInv, TypeOK, tableVars, patchVars
<1>. QED
  BY <1>7, <1>8 DEF IInv

\* So does the end of the loop.
LEMMA AssembleDoneIInv ==
    ASSUME IInv, NEW h \in Handlers, AssembleDone(h)
    PROVE  IInv'
<1>1. /\ pc[h] = "copy" /\ chunk[h] \in Headers /\ record[h] \in Record
  BY RecordType DEF AssembleDone, Assembling
<1>2. fs_errors' \in 0..MaxFsErrors
  BY FsErrorType DEF AssembleDone, IInv, TypeOK
<1>3. /\ pc' \in [Handlers -> PcValues] /\ pc'[h] \in {"publish", "abort"}
      /\ \A g \in Handlers : g # h => pc'[g] = pc[g]
  BY DEF AssembleDone, Goto, IInv, TypeOK, PcValues
<1>4. /\ fd' \in [Handlers -> {"none", "tmp", "patch", "part", "file", "gone"}]
      /\ fd'[h] = "none" \/ (fd'[h] = fd[h] /\ pc'[h] = "abort")
      /\ \A g \in Handlers : g # h => fd'[g] = fd[g]
  BY DEF AssembleDone, Goto, IInv, TypeOK
<1>5. TypeOK'
  BY <1>2, <1>3, <1>4 DEF AssembleDone, IInv, TypeOK, tableVars, patchVars, outVars
<1>6. ThreadsEquipped'
  BY <1>1, <1>3 DEF AssembleDone, IInv, ThreadsEquipped, Assembling
<1>7. DescriptorsAttached'
  BY <1>1, <1>3, <1>4 DEF AssembleDone, IInv, DescriptorsAttached, Key, patchVars, outVars
<1>. QED
  BY <1>5, <1>6, <1>7 DEF IInv

\* Unlinking the .part detaches every descriptor on it.
LEMMA AbortAssemblyIInv ==
    ASSUME IInv, NEW h \in Handlers, AbortAssembly(h)
    PROVE  IInv'
<1>. DEFINE n == record[h].name
<1>1. pc[h] = "abort" /\ chunk[h] \in Headers
  BY RecordType DEF AbortAssembly, Assembling
<1>2. /\ pc' \in [Handlers -> PcValues] /\ pc'[h] = "reply"
      /\ \A g \in Handlers : g # h => pc'[g] = pc[g]
  BY DEF AbortAssembly, Goto, IInv, TypeOK, PcValues
<1>3. /\ fd' \in [Handlers -> {"none", "tmp", "patch", "part", "file", "gone"}]
      /\ fd'[h] = "none"
      /\ \A g \in Handlers : fd'[g] \in {fd[g], "none", "gone"}
      /\ \A g \in Handlers : fd'[g] = "part" => record[g].name # n
  BY DEF AbortAssembly, MoveOutFds, IInv, TypeOK
<1>4. IsMap(parts', Names, OutFile) /\ DOMAIN parts' = DOMAIN parts \ {n}
  <2>1. IsMap(parts, Names, OutFile)
    BY DEF IInv, TypeOK
  <2>2. parts' = Drop(parts, {n})
    BY DEF AbortAssembly
  <2>. QED
    BY <2>1, <2>2, DropMap
<1>5. TypeOK'
  BY <1>2, <1>3, <1>4 DEF AbortAssembly, IInv, TypeOK, tableVars, patchVars, boundVars
<1>6. ThreadsEquipped'
  BY <1>1, <1>2 DEF AbortAssembly, IInv, ThreadsEquipped, Assembling
<1>7. DescriptorsAttached'
  BY <1>1, <1>2, <1>3, <1>4 DEF AbortAssembly, IInv, DescriptorsAttached, Key, patchVars
<1>. QED
  BY <1>5, <1>6, <1>7 DEF IInv

\* Renaming the .part moves the descriptors on it to the final name and
\* detaches those on the file it replaces.
LEMMA PublishIInv ==
    ASSUME IInv, NEW h \in Handlers, Publish(h)
    PROVE  IInv'
<1>. DEFINE n == record[h].name
<1>1. /\ pc[h] = "publish" /\ chunk[h] \in Headers /\ record[h] \in Record /\ n \in Names
  BY RecordType DEF Publish, Assembling
<1>2. /\ pc' \in [Handlers -> PcValues] /\ pc'[h] \in {"remove", "reply"}
      /\ \A g \in Handlers : g # h => pc'[g] = pc[g]
  BY DEF Publish, Goto, IInv, TypeOK, PcValues
<1>3. fs_errors' \in 0..MaxFsErrors
  BY FsErrorType DEF Publish, IInv, TypeOK
<1>4. ThreadsEquipped'
  BY <1>1, <1>2 DEF Publish, IInv, ThreadsEquipped, Assembling
<1>5. CASE UNCHANGED <<outVars, fd>>
  <2>1. TypeOK'
    BY <1>2, <1>3, <1>5 DEF Publish, IInv, TypeOK, tableVars, patchVars, outVars
  <2>2. DescriptorsAttached'
    BY <1>1, <1>2, <1>5 DEF Publish, IInv, DescriptorsAttached, Key, patchVars, outVars
  <2>. QED
    BY <1>4, <2>1, <2>2 DEF IInv
<1>6. CASE /\ n \in DOMAIN parts
           /\ files' = Put(files, n, parts[n])
           /\ parts' = Drop(parts, {n})
           /\ MoveOutFds(n, h, [part |-> "file", file |-> "gone"])
  <2>1. IsMap(parts, Names, OutFile) /\ IsMap(files, Names, OutFile)
    BY DEF IInv, TypeOK
  <2>2. parts[n] \in OutFile
    BY <1>6, <2>1 DEF IsMap
  <2>3. files' = Put(files, n, parts[n])
    BY <1>6
  <2>4. IsMap(files', Names, OutFile)
    BY <1>1, <2>1, <2>2, <2>3, PutMap
  <2>5. DOMAIN files' = DOMAIN files \cup {n}
    BY <2>3, PutDomain
  <2>6. parts' = Drop(parts, {n})
    BY <1>6
  <2>7. IsMap(parts', Names, OutFile) /\ DOMAIN parts' = DOMAIN parts \ {n}
    BY <2>1, <2>6, DropMap
  <2>8. /\ fd' \in [Handlers -> {"none", "tmp", "patch", "part", "file", "gone"}]
        /\ fd'[h] = "none"
        /\ \A g \in Handlers :
              /\ fd'[g] = "part" => fd[g] = "part" /\ record[g].name # n
              /\ fd'[g] = "file" => \/ fd[g] = "part" /\ record[g].name = n
                                    \/ fd[g] = "file" /\ record[g].name # n
              /\ fd'[g] \in {"tmp", "patch"} => fd'[g] = fd[g]
    BY <1>6 DEF MoveOutFds, IInv, TypeOK
  <2>9. TypeOK'
    BY <1>2, <1>3, <2>4, <2>7, <2>8 DEF Publish, IInv, TypeOK, tableVars, patchVars
  <2>10. DescriptorsAttached'
    BY <1>1, <1>2, <2>5, <2>7, <2>8 DEF Publish, IInv, DescriptorsAttached, Key, patchVars
  <2>. QED
    BY <1>4, <2>9, <2>10 DEF IInv
<1>. QED
  BY <1>5, <1>6 DEF Publish

\* Emptying directories keeps what is below the others well formed and
\* detaches the descriptors on what it removes.
LEMMA EmptyDirsType ==
    ASSUME IInv, NEW F, EmptyDirs(F)
    PROVE  /\ IsMap(tmps', KeysBelow(dirs \ F), Content)
           /\ IsMap(patches', KeysBelow(dirs \ F), Content)
           /\ IsMap(manifests', dirs \ F, ManifestType)
           /\ fd' \in [Handlers -> {"none", "tmp", "patch", "part", "file", "gone"}]
           /\ \A g \in Handlers :
                 /\ fd'[g] \in {fd[g], "gone"}
                 /\ fd'[g] = "tmp" => Key(g) \in DOMAIN tmps'
                 /\ fd'[g] = "patch" => Key(g) \in DOMAIN patches'
<1>1. /\ dirs \subseteq FileIds /\ IsMap(tmps, KeysBelow(dirs), Content)
      /\ IsMap(patches, KeysBelow(dirs), Content) /\ IsMap(manifests, dirs, ManifestType)
  BY DEF IInv, TypeOK
<1>2. /\ tmps' = Drop(tmps, KeysOf(F, tmps)) /\ patches' = Drop(patches, KeysOf(F, patches))
      /\ manifests' = Drop(manifests, F)
  BY DEF EmptyDirs
<1>3. /\ IsMap(tmps', KeysBelow(dirs \ F), Content)
      /\ IsMap(patches', KeysBelow(dirs \ F), Content)
  BY <1>1, <1>2, DropDirs
<1>4. IsMap(manifests', dirs \ F, ManifestType)
  BY <1>1, <1>2 DEF IsMap, Drop, Restrict
<1>5. fd' = [g \in Handlers |->
               IF fd[g] \in {"tmp", "patch"} /\ chunk[g].file_id \in F
               THEN "gone" ELSE fd[g]]
  BY DEF EmptyDirs, DetachPatches
<1>6. /\ fd' \in [Handlers -> {"none", "tmp", "patch", "part", "file", "gone"}]
      /\ \A g \in Handlers : fd'[g] \in {fd[g], "gone"}
  BY <1>5 DEF IInv, TypeOK
<1>7. ASSUME NEW g \in Handlers, fd'[g] = "tmp" PROVE Key(g) \in DOMAIN tmps'
  <2>1. Key(g) \in DOMAIN tmps /\ Key(g)[1] \notin F
    BY <1>5, <1>7 DEF IInv, DescriptorsAttached, Key
  <2>. QED
    BY <1>1, <1>2, <2>1, DropDirs
<1>8. ASSUME NEW g \in Handlers, fd'[g] = "patch" PROVE Key(g) \in DOMAIN patches'
  <2>1. Key(g) \in DOMAIN patches /\ Key(g)[1] \notin F
    BY <1>5, <1>8 DEF IInv, DescriptorsAttached, Key
  <2>. QED
    BY <1>1, <1>2, <2>1, DropDirs
<1>. QED
  BY <1>3, <1>4, <1>6, <1>7, <1>8

\* remove_all keeps the directories well formed.
LEMMA RemoveDirsType ==
    ASSUME IInv, NEW F, RemoveDirs(F)
    PROVE  /\ dirs' \subseteq FileIds
           /\ IsMap(tmps', KeysBelow(dirs'), Content)
           /\ IsMap(patches', KeysBelow(dirs'), Content)
           /\ IsMap(manifests', dirs', ManifestType)
           /\ fd' \in [Handlers -> {"none", "tmp", "patch", "part", "file", "gone"}]
           /\ \A g \in Handlers :
                 /\ fd'[g] \in {fd[g], "gone"}
                 /\ fd'[g] = "tmp" => Key(g) \in DOMAIN tmps'
                 /\ fd'[g] = "patch" => Key(g) \in DOMAIN patches'
<1>1. EmptyDirs(F) /\ dirs' = dirs \ F
  BY DEF RemoveDirs
<1>2. dirs' \subseteq FileIds
  BY <1>1 DEF IInv, TypeOK
<1>. QED
  BY <1>1, <1>2, EmptyDirsType

\* A directory whose files went stays a well-formed one.
LEMMA StillBelow ==
    ASSUME NEW g, NEW D, NEW F, NEW V
    PROVE  /\ IsMap(g, KeysBelow(D \ F), V) => IsMap(g, KeysBelow(D), V)
           /\ IsMap(g, D \ F, V) => IsMap(g, D, V)
BY DEF IsMap, KeysBelow

\* Emptying the patch directory of a published upload keeps the inductive
\* invariant.
LEMMA RemovePatchesIInv ==
    ASSUME IInv, NEW h \in Handlers, RemovePatches(h)
    PROVE  IInv'
<1>1. pc[h] = "remove" /\ chunk[h] \in Headers /\ record[h] \in Record
  BY RecordType DEF RemovePatches, Assembling
<1>2. /\ pc' \in [Handlers -> PcValues] /\ pc'[h] \in {"rmdir", "mark"}
      /\ \A g \in Handlers : g # h => pc'[g] = pc[g]
  BY DEF RemovePatches, Goto, IInv, TypeOK, PcValues
<1>3. fs_errors' \in 0..MaxFsErrors
  BY FsErrorType DEF RemovePatches, IInv, TypeOK
<1>4. ThreadsEquipped'
  BY <1>1, <1>2 DEF RemovePatches, IInv, ThreadsEquipped, Assembling
<1>5. CASE UNCHANGED <<tmps, patches, manifests, fd>>
  <2>1. TypeOK'
    BY <1>2, <1>3, <1>5 DEF RemovePatches, IInv, TypeOK, tableVars, outVars
  <2>2. DescriptorsAttached'
    BY <1>1, <1>2, <1>5 DEF RemovePatches, IInv, DescriptorsAttached, Key, outVars
  <2>. QED
    BY <1>4, <2>1, <2>2 DEF IInv
<1>6. CASE EmptyDirs({chunk[h].file_id})
  <2>1. /\ IsMap(tmps', KeysBelow(dirs), Content) /\ IsMap(patches', KeysBelow(dirs), Content)
        /\ IsMap(manifests', dirs, ManifestType)
    BY <1>6, EmptyDirsType, StillBelow
  <2>2. TypeOK'
    BY <1>2, <1>3, <1>6, <2>1, EmptyDirsType DEF RemovePatches, IInv, TypeOK, tableVars, outVars
  <2>3. DescriptorsAttached'
    BY <1>1, <1>2, <1>6, EmptyDirsType
    DEF RemovePatches, IInv, DescriptorsAttached, Key, outVars
  <2>. QED
    BY <1>4, <2>2, <2>3 DEF IInv
<1>. QED
  BY <1>5, <1>6 DEF RemovePatches

\* Nothing is below a directory that goes.
LEMMA DesertedBelow ==
    ASSUME NEW f, NEW D, IsMap(tmps, KeysBelow(D), Content),
           IsMap(patches, KeysBelow(D), Content), IsMap(manifests, D, ManifestType), Deserted(f)
    PROVE  /\ IsMap(tmps, KeysBelow(D \ {f}), Content)
           /\ IsMap(patches, KeysBelow(D \ {f}), Content)
           /\ IsMap(manifests, D \ {f}, ManifestType)
BY DEF Deserted, KeysOf, KeysBelow, IsMap

\* Removing a deserted directory keeps the inductive invariant.
LEMMA RemovePatchDirIInv ==
    ASSUME IInv, NEW h \in Handlers, RemovePatchDir(h)
    PROVE  IInv'
<1>1. pc[h] = "rmdir" /\ chunk[h] \in Headers /\ record[h] \in Record
  BY RecordType DEF RemovePatchDir, Assembling
<1>2. /\ pc' \in [Handlers -> PcValues] /\ pc'[h] = "mark"
      /\ \A g \in Handlers : g # h => pc'[g] = pc[g]
  BY DEF RemovePatchDir, Goto, IInv, TypeOK, PcValues
<1>3. fs_errors' \in 0..MaxFsErrors
  BY FsErrorType DEF RemovePatchDir, IInv, TypeOK
<1>4. /\ dirs' \subseteq FileIds /\ IsMap(tmps, KeysBelow(dirs'), Content)
      /\ IsMap(patches, KeysBelow(dirs'), Content) /\ IsMap(manifests, dirs', ManifestType)
  <2>1. /\ dirs \subseteq FileIds /\ IsMap(tmps, KeysBelow(dirs), Content)
        /\ IsMap(patches, KeysBelow(dirs), Content) /\ IsMap(manifests, dirs, ManifestType)
    BY DEF IInv, TypeOK
  <2>2. \/ dirs' = dirs
        \/ Deserted(chunk[h].file_id) /\ dirs' = dirs \ {chunk[h].file_id}
    BY DEF RemovePatchDir
  <2>. QED
    BY <2>1, <2>2, DesertedBelow
<1>5. TypeOK'
  BY <1>2, <1>3, <1>4 DEF RemovePatchDir, IInv, TypeOK, tableVars, outVars
<1>6. ThreadsEquipped'
  BY <1>1, <1>2 DEF RemovePatchDir, IInv, ThreadsEquipped, Assembling
<1>7. DescriptorsAttached'
  BY <1>1, <1>2 DEF RemovePatchDir, IInv, DescriptorsAttached, Key, outVars
<1>. QED
  BY <1>5, <1>6, <1>7 DEF IInv

\* mark_published keeps the inductive invariant.
LEMMA MarkPublishedIInv ==
    ASSUME IInv, NEW h \in Handlers, MarkPublished(h)
    PROVE  IInv'
<1>1. pc[h] = "mark" /\ chunk[h] \in Headers
  BY RecordType DEF MarkPublished, Assembling
<1>2. /\ pc' \in [Handlers -> PcValues] /\ pc'[h] = "reply"
      /\ \A g \in Handlers : g # h => pc'[g] = pc[g]
  BY DEF MarkPublished, Goto, IInv, TypeOK, PcValues
<1>3. IsMap(payloads', FileIds, Entry)
  <2>1. IsMap(payloads, FileIds, Entry)
    BY DEF IInv, TypeOK
  <2>2. payloads' = Drop(payloads, {chunk[h].file_id})
    BY DEF MarkPublished
  <2>. QED
    BY <2>1, <2>2, DropMap
<1>4. TypeOK'
  BY <1>2, <1>3 DEF MarkPublished, IInv, TypeOK, patchVars, outVars, boundVars
<1>5. ThreadsEquipped'
  BY <1>1, <1>2 DEF MarkPublished, IInv, ThreadsEquipped, Assembling
<1>6. DescriptorsAttached'
  BY <1>1, <1>2 DEF MarkPublished, IInv, DescriptorsAttached, Key, patchVars, outVars
<1>. QED
  BY <1>4, <1>5, <1>6 DEF IInv

\* A thread that has replied holds nothing.
LEMMA ReplyIInv ==
    ASSUME IInv, NEW h \in Handlers, Reply(h)
    PROVE  IInv'
<1>1. pc[h] = "reply" /\ fd[h] \notin {"tmp", "patch", "part", "file"}
  BY DEF Reply, IInv, DescriptorsAttached
<1>2. /\ pc' \in [Handlers -> PcValues] /\ pc'[h] = "idle"
      /\ \A g \in Handlers : g # h => pc'[g] = pc[g]
  BY DEF Reply, Goto, IInv, TypeOK, PcValues
<1>3. /\ chunk' \in [Handlers -> Headers \cup {None}]
      /\ record' \in [Handlers -> Record \cup {None}]
      /\ out' \in [Handlers -> [idx : Nat, wrote : Nat, pending : BOOLEAN]]
      /\ \A g \in Handlers : g # h => chunk'[g] = chunk[g] /\ record'[g] = record[g]
  BY DEF Reply, NoOut, IInv, TypeOK
<1>4. TypeOK'
  BY <1>2, <1>3 DEF Reply, IInv, TypeOK, tableVars, patchVars, outVars, boundVars
<1>5. ThreadsEquipped'
  BY <1>2, <1>3 DEF Reply, IInv, ThreadsEquipped, Assembling
<1>6. DescriptorsAttached'
  BY <1>1, <1>2, <1>3 DEF Reply, IInv, DescriptorsAttached, Key, patchVars, outVars
<1>. QED
  BY <1>4, <1>5, <1>6 DEF IInv

-----------------------------------------------------------------------------
(* The cleanup thread, SET_TTL, time and crashes.                          *)

\* A step that leaves the threads, the descriptors and the disk's names alone.
LEMMA OthersStep ==
    ASSUME IInv, UNCHANGED <<pc, chunk, record, fd, tmps, patches, control>>,
           DOMAIN parts' = DOMAIN parts, DOMAIN files' = DOMAIN files
    PROVE  ThreadsEquipped' /\ DescriptorsAttached'
BY DEF IInv, ThreadsEquipped, DescriptorsAttached, Key

\* The sweep starts with a TTL that main has set.
LEMMA BeginSweepIInv == IInv /\ BeginSweep => IInv'
<1>. SUFFICES ASSUME IInv, BeginSweep PROVE IInv'
  OBVIOUS
<1>0. sweeper' \in [pc : {"idle", "expire", "scan"}, ttl : 0..MaxTtl,
                    todo : SUBSET Names, victim : Names \cup {None}]
  <2>1. /\ sweeper \in [pc : {"idle", "expire", "scan"}, ttl : 0..MaxTtl,
                       todo : SUBSET Names, victim : Names \cup {None}]
        /\ ttl_seconds \in 1..MaxTtl
    BY DEF IInv, TypeOK
  <2>2. ttl_seconds \in 0..MaxTtl
    BY <2>1, ServerAssumption
  <2>3. sweeper' = [sweeper EXCEPT !.pc = "expire", !.ttl = ttl_seconds]
    BY DEF BeginSweep
  <2>. QED
    BY <2>1, <2>2, <2>3
<1>1. TypeOK'
  BY <1>0
  DEF BeginSweep, IInv, TypeOK, tableVars, patchVars, outVars, threadVars, boundVars
<1>. QED
  BY <1>1, OthersStep DEF BeginSweep, IInv, patchVars, outVars, threadVars

\* cleanup_expired removes entries and directories together and detaches the
\* descriptors below them.
LEMMA CleanupExpiredIInv == IInv /\ CleanupExpired => IInv'
<1>. SUFFICES ASSUME IInv, CleanupExpired PROVE IInv'
  OBVIOUS
<1>1. fs_errors' \in 0..MaxFsErrors
  BY FsErrorType DEF CleanupExpired, IInv, TypeOK
<1>2. PICK F : RemoveDirs(F)
  BY DEF CleanupExpired
<1>3. IsMap(payloads', FileIds, Entry)
  <2>1. PICK G : payloads' = Drop(payloads, G)
    BY DEF CleanupExpired
  <2>2. IsMap(payloads, FileIds, Entry)
    BY DEF IInv, TypeOK
  <2>. QED
    BY <2>1, <2>2, DropMap
<1>4. sweeper' \in [pc : {"idle", "expire", "scan"}, ttl : 0..MaxTtl,
                    todo : SUBSET Names, victim : Names \cup {None}]
  <2>1. DOMAIN files \subseteq Names
    BY DEF IInv, TypeOK, IsMap
  <2>. QED
    BY <2>1 DEF CleanupExpired, IInv, TypeOK
<1>5. TypeOK'
  BY <1>1, <1>2, <1>3, <1>4, RemoveDirsType
  DEF CleanupExpired, IInv, TypeOK, outVars
<1>6. ThreadsEquipped'
  BY DEF CleanupExpired, IInv, ThreadsEquipped
<1>7. DescriptorsAttached'
  BY <1>2, RemoveDirsType DEF CleanupExpired, IInv, DescriptorsAttached, Key, outVars
<1>. QED
  BY <1>5, <1>6, <1>7 DEF IInv

\* Looking at a file's age changes the sweep only.
LEMMA CheckFileIInv == ASSUME IInv, NEW n \in Names, CheckFile(n) PROVE IInv'
<1>1. TypeOK'
  BY DEF CheckFile, IInv, TypeOK, tableVars, patchVars, outVars, threadVars, boundVars
<1>. QED
  BY <1>1, OthersStep DEF CheckFile, IInv, patchVars, outVars, threadVars

\* Removing a published file detaches the descriptors on it.
LEMMA RemoveFileIInv == IInv /\ RemoveFile => IInv'
<1>. SUFFICES ASSUME IInv, RemoveFile PROVE IInv'
  OBVIOUS
<1>1. fs_errors' \in 0..MaxFsErrors
  BY FsErrorType DEF RemoveFile, IInv, TypeOK
<1>2. sweeper' \in [pc : {"idle", "expire", "scan"}, ttl : 0..MaxTtl,
                    todo : SUBSET Names, victim : Names \cup {None}]
  BY DEF RemoveFile, IInv, TypeOK
<1>3. ThreadsEquipped'
  BY DEF RemoveFile, IInv, ThreadsEquipped
<1>4. CASE UNCHANGED <<files, fd>>
  <2>1. TypeOK'
    BY <1>1, <1>2, <1>4 DEF RemoveFile, IInv, TypeOK, tableVars, patchVars
  <2>2. DescriptorsAttached'
    BY <1>4 DEF RemoveFile, IInv, DescriptorsAttached, Key, patchVars
  <2>. QED
    BY <1>3, <2>1, <2>2 DEF IInv
<1>5. CASE /\ files' = Drop(files, {sweeper.victim})
           /\ fd' = [g \in Handlers |->
                       IF fd[g] = "file" /\ record[g].name = sweeper.victim
                       THEN "gone" ELSE fd[g]]
  <2>1. IsMap(files, Names, OutFile)
    BY DEF IInv, TypeOK
  <2>2. IsMap(files', Names, OutFile) /\ DOMAIN files' = DOMAIN files \ {sweeper.victim}
    <3>1. files' = Drop(files, {sweeper.victim})
      BY <1>5
    <3>. QED
      BY <2>1, <3>1, DropMap
  <2>3. /\ fd' \in [Handlers -> {"none", "tmp", "patch", "part", "file", "gone"}]
        /\ \A g \in Handlers :
              /\ fd'[g] \in {fd[g], "gone"}
              /\ fd'[g] = "file" => record[g].name # sweeper.victim
    BY <1>5 DEF IInv, TypeOK
  <2>4. TypeOK'
    BY <1>1, <1>2, <2>2, <2>3 DEF RemoveFile, IInv, TypeOK, tableVars, patchVars
  <2>5. DescriptorsAttached'
    BY <2>2, <2>3 DEF RemoveFile, IInv, DescriptorsAttached, Key, patchVars
  <2>. QED
    BY <1>3, <2>4, <2>5 DEF IInv
<1>. QED
  BY <1>4, <1>5 DEF RemoveFile

\* The sweep ends.
LEMMA EndSweepIInv == IInv /\ EndSweep => IInv'
<1>. SUFFICES ASSUME IInv, EndSweep PROVE IInv'
  OBVIOUS
<1>1. TypeOK'
  BY ServerAssumption
  DEF EndSweep, NoSweep, IInv, TypeOK, tableVars, patchVars, outVars, threadVars, boundVars
<1>. QED
  BY <1>1, OthersStep DEF EndSweep, IInv, patchVars, outVars, threadVars

\* A TTL that passed the check of SET_TTL is positive.
LEMMA SetTtlIInv ==
    ASSUME IInv, NEW c \in Controllers, NEW v \in NewTtls, SetTtl(c, v) PROVE IInv'
<1>1. v \in 1..MaxTtl
  BY ServerAssumption DEF SetTtl
<1>2. control' \in [Controllers -> [pc : {"idle", "default", "entries"}, ttl : 0..MaxTtl]]
  BY <1>1, ServerAssumption DEF SetTtl, IInv, TypeOK
<1>3. TypeOK'
  BY <1>1, <1>2 DEF SetTtl, IInv, TypeOK, patchVars, outVars, threadVars, boundVars
<1>4. ThreadsEquipped'
  BY <1>1 DEF SetTtl, IInv, TypeOK, ThreadsEquipped, threadVars
<1>5. DescriptorsAttached'
  BY DEF SetTtl, IInv, DescriptorsAttached, Key, patchVars, outVars, threadVars
<1>. QED
  BY <1>3, <1>4, <1>5 DEF IInv

\* So is the default that update_ttl stores ...
LEMMA StoreDefaultTtlIInv ==
    ASSUME IInv, NEW c \in Controllers, StoreDefaultTtl(c) PROVE IInv'
<1>1. control[c].ttl \in 1..MaxTtl
  BY ServerAssumption DEF StoreDefaultTtl, IInv, TypeOK, ThreadsEquipped
<1>2. control' \in [Controllers -> [pc : {"idle", "default", "entries"}, ttl : 0..MaxTtl]]
  BY DEF StoreDefaultTtl, IInv, TypeOK
<1>3. TypeOK'
  BY <1>1, <1>2 DEF StoreDefaultTtl, IInv, TypeOK, patchVars, outVars, threadVars, boundVars
<1>4. ThreadsEquipped'
  BY <1>1 DEF StoreDefaultTtl, IInv, TypeOK, ThreadsEquipped, threadVars
<1>5. DescriptorsAttached'
  BY DEF StoreDefaultTtl, IInv, DescriptorsAttached, Key, patchVars, outVars, threadVars
<1>. QED
  BY <1>3, <1>4, <1>5 DEF IInv

\* ... and the TTL it gives the entries and their ids.list.
LEMMA UpdateEntryTtlsIInv ==
    ASSUME IInv, NEW c \in Controllers, UpdateEntryTtls(c) PROVE IInv'
<1>1. control[c].ttl \in 1..MaxTtl
  BY ServerAssumption DEF UpdateEntryTtls, IInv, TypeOK, ThreadsEquipped
<1>2. control' \in [Controllers -> [pc : {"idle", "default", "entries"}, ttl : 0..MaxTtl]]
  BY ServerAssumption DEF UpdateEntryTtls, IInv, TypeOK
<1>3. IsMap(payloads', FileIds, Entry) /\ DOMAIN payloads' = DOMAIN payloads
  <2>1. payloads' = [f \in DOMAIN payloads |-> [payloads[f] EXCEPT !.ttl = control[c].ttl]]
    BY DEF UpdateEntryTtls
  <2>2. IsMap(payloads, FileIds, Entry)
    BY DEF IInv, TypeOK
  <2>3. ASSUME NEW f \in DOMAIN payloads
        PROVE  [payloads[f] EXCEPT !.ttl = control[c].ttl] \in Entry
    <3>1. payloads[f] \in Entry
      BY <2>2 DEF IsMap
    <3>. QED
      BY <1>1, <3>1 DEF Entry
  <2>. QED
    BY <2>1, <2>2, <2>3 DEF IsMap
<1>4. PersistAll(payloads', DOMAIN payloads)
  BY DEF UpdateEntryTtls
<1>5. IsMap(manifests', dirs, ManifestType) /\ fs_errors' \in 0..MaxFsErrors
  BY <1>3, <1>4, PersistType DEF IInv
<1>6. TypeOK'
  BY <1>2, <1>3, <1>5 DEF UpdateEntryTtls, IInv, TypeOK, outVars, threadVars
<1>7. ThreadsEquipped'
  BY DEF UpdateEntryTtls, IInv, TypeOK, ThreadsEquipped, threadVars
<1>8. DescriptorsAttached'
  BY DEF UpdateEntryTtls, IInv, DescriptorsAttached, Key, outVars, threadVars
<1>. QED
  BY <1>6, <1>7, <1>8 DEF IInv

\* Ages stay within their bound.
LEMMA TickIInv == IInv /\ Tick => IInv'
<1>. SUFFICES ASSUME IInv, Tick PROVE IInv'
  OBVIOUS
<1>1. \A a \in Age : Older(a) \in Age
  BY ServerAssumption DEF Age, MaxAge, Older
<1>2. IsMap(payloads', FileIds, Entry)
  <2>1. payloads' = [f \in DOMAIN payloads |-> [payloads[f] EXCEPT !.age = Older(@)]]
    BY DEF Tick
  <2>2. IsMap(payloads, FileIds, Entry)
    BY DEF IInv, TypeOK
  <2>3. ASSUME NEW f \in DOMAIN payloads
        PROVE  [payloads[f] EXCEPT !.age = Older(@)] \in Entry
    <3>1. payloads[f] \in Entry
      BY <2>2 DEF IsMap
    <3>. QED
      BY <1>1, <3>1 DEF Entry
  <2>. QED
    BY <2>1, <2>2, <2>3 DEF IsMap
<1>3. /\ IsMap(parts', Names, OutFile) /\ DOMAIN parts' = DOMAIN parts
      /\ IsMap(files', Names, OutFile) /\ DOMAIN files' = DOMAIN files
  <2>1. ASSUME NEW g, IsMap(g, Names, OutFile), NEW n \in DOMAIN g
        PROVE  [g[n] EXCEPT !.age = Older(@)] \in OutFile
    <3>1. g[n] \in OutFile
      BY <2>1 DEF IsMap
    <3>. QED
      BY <1>1, <3>1 DEF OutFile
  <2>2. IsMap(parts, Names, OutFile) /\ IsMap(files, Names, OutFile)
    BY DEF IInv, TypeOK
  <2>3. /\ parts' = [n \in DOMAIN parts |-> [parts[n] EXCEPT !.age = Older(@)]]
        /\ files' = [n \in DOMAIN files |-> [files[n] EXCEPT !.age = Older(@)]]
    BY DEF Tick
  <2>4. \A n \in DOMAIN parts : [parts[n] EXCEPT !.age = Older(@)] \in OutFile
    BY <2>1, <2>2
  <2>5. \A n \in DOMAIN files : [files[n] EXCEPT !.age = Older(@)] \in OutFile
    BY <2>1, <2>2
  <2>6. IsMap(parts', Names, OutFile) /\ DOMAIN parts' = DOMAIN parts
    BY <2>2, <2>3, <2>4 DEF IsMap
  <2>7. IsMap(files', Names, OutFile) /\ DOMAIN files' = DOMAIN files
    BY <2>2, <2>3, <2>5 DEF IsMap
  <2>. QED
    BY <2>6, <2>7
<1>4. TypeOK'
  BY <1>2, <1>3 DEF Tick, IInv, TypeOK, patchVars, threadVars, boundVars
<1>. QED
  BY <1>3, <1>4, OthersStep DEF Tick, IInv, patchVars, threadVars

\* After a restart no thread holds a descriptor, and the disk is as it was.
LEMMA CrashRestartIInv == IInv /\ CrashRestart => IInv'
<1>. SUFFICES ASSUME IInv, CrashRestart PROVE IInv'
  OBVIOUS
<1>. USE ServerAssumption
<1>1. IsMap(payloads', FileIds, Entry)
  BY DEF CrashRestart, EmptyMap, IsMap
<1>2. crashes' \in 0..MaxCrashes
  BY DEF CrashRestart, IInv, TypeOK
<1>3. /\ sweeper' \in [pc : {"idle", "expire", "scan"}, ttl : 0..MaxTtl,
                       todo : SUBSET Names, victim : Names \cup {None}]
      /\ control' \in [Controllers -> [pc : {"idle", "default", "entries"}, ttl : 0..MaxTtl]]
  BY DEF CrashRestart, NoSweep, NoControl
<1>4. /\ pc' \in [Handlers -> PcValues]
      /\ chunk' \in [Handlers -> Headers \cup {None}]
      /\ record' \in [Handlers -> Record \cup {None}]
      /\ fd' \in [Handlers -> {"none", "tmp", "patch", "part", "file", "gone"}]
      /\ out' \in [Handlers -> [idx : Nat, wrote : Nat, pending : BOOLEAN]]
  BY DEF CrashRestart, AllIdle, NoChunks, NoFds, NoOuts, NoOut, PcValues
<1>5. TypeOK'
  BY <1>1, <1>2, <1>3, <1>4 DEF CrashRestart, IInv, TypeOK, patchVars, outVars
<1>6. ThreadsEquipped'
  BY DEF CrashRestart, ThreadsEquipped, AllIdle, NoControl, Assembling
<1>7. DescriptorsAttached'
  BY DEF CrashRestart, DescriptorsAttached, NoFds
<1>. QED
  BY <1>5, <1>6, <1>7 DEF IInv

-----------------------------------------------------------------------------
\* Every step keeps the inductive invariant.
LEMMA NextIInv == IInv /\ [Next]_vars => IInv'
<1>. SUFFICES ASSUME IInv, [Next]_vars PROVE IInv'
  OBVIOUS
<1>1. ASSUME NEW h \in Handlers, HandlerStep(h) PROVE IInv'
  BY <1>1, CreateDirIInv, OpenTmpIInv, WriteTmpIInv, RenameTmpIInv, UpdateEntryIInv,
     AssembleOpenIInv, AssembleChunkIInv, AssembleDoneIInv, AbortAssemblyIInv,
     PublishIInv, RemovePatchesIInv, RemovePatchDirIInv, MarkPublishedIInv, ReplyIInv
  DEF HandlerStep
<1>2. CASE SweeperStep
  BY <1>2, BeginSweepIInv, CleanupExpiredIInv, CheckFileIInv, RemoveFileIInv, EndSweepIInv
  DEF SweeperStep
<1>3. ASSUME NEW c \in Controllers, ControlStep(c) PROVE IInv'
  BY <1>3, StoreDefaultTtlIInv, UpdateEntryTtlsIInv DEF ControlStep
<1>4. CASE UNCHANGED vars
  BY <1>4
  DEF vars, tableVars, patchVars, outVars, threadVars, boundVars,
      IInv, TypeOK, ThreadsEquipped, DescriptorsAttached, Key
<1>. QED
  BY <1>1, <1>2, <1>3, <1>4, ReceiveIInv, ReceiveFailsIInv, SetTtlIInv, TickIInv,
     CrashRestartIInv
  DEF Next

\* The inductive invariant is an invariant.
LEMMA Inductive == Spec => []IInv
BY InitIInv, NextIInv, PTL DEF Spec

\* Whatever is sent, however often, and whatever fails: the table, the
\* directories and the threads' locals are well formed, ids.list and patches
\* exist only below an existing directory.
THEOREM TypeCorrect == Spec => []TypeOK
BY Inductive, PTL DEF IInv

-----------------------------------------------------------------------------
(* Only verified payloads reach the disk.                                  *)

\* A thread that has left verify_crc behind carries a payload that matched.
Verified ==
    \A h \in Handlers : pc[h] \in {"open", "write"} => chunk[h].crc_ok

NoneCorrupt(g) == \A k \in DOMAIN g : g[k] # "corrupt"

\* Writing something sound and removing names keep a directory sound.
LEMMA PutSound ==
    ASSUME NEW g, NoneCorrupt(g), NEW k, NEW v, v # "corrupt"
    PROVE  NoneCorrupt(Put(g, k, v))
BY DEF NoneCorrupt, Put

\* So does removing names.
LEMMA DropSound ==
    ASSUME NEW g, NoneCorrupt(g), NEW S
    PROVE  NoneCorrupt(Drop(g, S))
BY DEF NoneCorrupt, Drop, Restrict

\* The disk stays sound: the one write(2) on a patch file writes what
\* verify_crc accepted, through whichever name its inode has by then.
LEMMA NextSound ==
    ASSUME IInv, Verified, NoneCorrupt(tmps), NoneCorrupt(patches), [Next]_vars
    PROVE  NoneCorrupt(tmps') /\ NoneCorrupt(patches')
<1>. DEFINE Goal == NoneCorrupt(tmps') /\ NoneCorrupt(patches')
<1>1. ASSUME NEW h \in Handlers, OpenTmp(h) PROVE Goal
  <2>1. tmps' = tmps \/ tmps' = Put(tmps, Key(h), "empty")
    BY <1>1 DEF OpenTmp
  <2>2. patches' = patches
    BY <1>1 DEF OpenTmp
  <2>. QED
    BY <2>1, <2>2, PutSound
<1>2. ASSUME NEW h \in Handlers, WriteTmp(h) PROVE Goal
  <2>1. Payload(chunk[h]) # "corrupt"
    BY <1>2 DEF WriteTmp, Payload, Verified
  <2>2. \/ tmps' = tmps
        \/ tmps' = Put(tmps, Key(h), Payload(chunk[h]))
        \/ tmps' = Drop(tmps, {Key(h)})
    BY <1>2 DEF WriteTmp
  <2>3. patches' = patches \/ patches' = Put(patches, Key(h), Payload(chunk[h]))
    BY <1>2 DEF WriteTmp
  <2>. QED
    BY <2>1, <2>2, <2>3, PutSound, DropSound
<1>3. ASSUME NEW h \in Handlers, RenameTmp(h) PROVE Goal
  <2>1. CASE UNCHANGED <<tmps, patches>>
    BY <2>1
  <2>2. CASE /\ Key(h) \in DOMAIN tmps
             /\ patches' = Put(patches, Key(h), tmps[Key(h)])
             /\ tmps' = Drop(tmps, {Key(h)})
    <3>1. tmps[Key(h)] # "corrupt"
      BY <2>2 DEF NoneCorrupt
    <3>. QED
      BY <2>2, <3>1, PutSound, DropSound
  <2>. QED
    BY <1>3, <2>1, <2>2 DEF RenameTmp
<1>4. ASSUME NEW F, EmptyDirs(F) PROVE Goal
  BY <1>4, DropSound DEF EmptyDirs
<1>5. CASE UNCHANGED <<tmps, patches>>
  BY <1>5
<1>6. ASSUME NEW h \in Handlers, HandlerStep(h) PROVE Goal
  <2>1. CASE RemovePatches(h)
    BY <2>1, <1>4, <1>5 DEF RemovePatches
  <2>2. CASE CreateDir(h) \/ UpdateEntry(h) \/ AssembleOpen(h) \/ AssembleChunk(h)
             \/ AssembleDone(h) \/ AbortAssembly(h) \/ Publish(h) \/ RemovePatchDir(h)
             \/ MarkPublished(h) \/ Reply(h)
    BY <2>2, <1>5
    DEF CreateDir, UpdateEntry, AssembleOpen, AssembleChunk, AssembleDone, AbortAssembly,
        Publish, RemovePatchDir, MarkPublished, Reply, patchVars
  <2>. QED
    BY <1>1, <1>2, <1>3, <1>6, <2>1, <2>2 DEF HandlerStep
<1>7. CASE CleanupExpired
  BY <1>7, <1>4 DEF CleanupExpired, RemoveDirs
<1>8. ASSUME NEW h \in Handlers, NEW d \in Headers, Receive(h, d) PROVE Goal
  BY <1>8, <1>5 DEF Receive, patchVars
<1>9. ASSUME NEW c \in Controllers, NEW v \in NewTtls, SetTtl(c, v) PROVE Goal
  BY <1>9, <1>5 DEF SetTtl, patchVars
<1>10. ASSUME NEW c \in Controllers, ControlStep(c) PROVE Goal
  BY <1>10, <1>5 DEF ControlStep, StoreDefaultTtl, UpdateEntryTtls, patchVars
<1>11. CASE SweeperStep
  BY <1>11, <1>7, <1>5
  DEF SweeperStep, BeginSweep, RemoveFile, EndSweep, CheckFile, patchVars
<1>12. CASE (\E d \in Headers : ReceiveFails(d)) \/ Tick \/ CrashRestart \/ UNCHANGED vars
  BY <1>12, <1>5 DEF ReceiveFails, Tick, CrashRestart, vars, patchVars
<1>. QED
  BY <1>6, <1>8, <1>9, <1>10, <1>11, <1>12 DEF Next

\* No step puts an unverified payload in front of write_binary_file.
LEMMA NextVerified ==
    ASSUME IInv, Verified, [Next]_vars
    PROVE  Verified'
<1>. USE DEF Verified
<1>1. pc \in [Handlers -> PcValues] /\ chunk \in [Handlers -> Headers \cup {None}]
  BY DEF IInv, TypeOK
<1>2. CASE UNCHANGED <<pc, chunk>>
  BY <1>2
<1>3. ASSUME NEW h \in Handlers, HandlerStep(h) PROVE Verified'
  <2>1. CASE CreateDir(h)
    BY <1>1, <2>1 DEF CreateDir, VerifyCrc, Goto
  <2>2. CASE OpenTmp(h)
    BY <1>1, <2>2 DEF OpenTmp, Goto
  <2>3. CASE Reply(h)
    BY <1>1, <2>3 DEF Reply, Goto
  <2>4. CASE WriteTmp(h) \/ RenameTmp(h) \/ UpdateEntry(h) \/ AssembleOpen(h)
             \/ AssembleDone(h) \/ AbortAssembly(h) \/ Publish(h)
             \/ RemovePatches(h) \/ RemovePatchDir(h) \/ MarkPublished(h)
    <3>1. /\ chunk' = chunk
          /\ \E l \in PcValues \ {"open", "write"} : pc' = [pc EXCEPT ![h] = l]
      BY <2>4
      DEF WriteTmp, RenameTmp, UpdateEntry, AssembleOpen, AssembleDone, AbortAssembly,
          Publish, RemovePatches, RemovePatchDir, MarkPublished, Goto, PcValues
    <3>. QED
      BY <1>1, <3>1
  <2>5. CASE AssembleChunk(h)
    <3>1. chunk' = chunk /\ (pc' = pc \/ pc' = [pc EXCEPT ![h] = "abort"])
      BY <2>5 DEF AssembleChunk, Goto
    <3>. QED
      BY <1>1, <3>1
  <2>. QED
    BY <1>3, <2>1, <2>2, <2>3, <2>4, <2>5 DEF HandlerStep
<1>4. ASSUME NEW h \in Handlers, NEW d \in Headers, Receive(h, d) PROVE Verified'
  BY <1>1, <1>4 DEF Receive, Goto
<1>5. CASE SweeperStep
  BY <1>2, <1>5
  DEF SweeperStep, BeginSweep, CleanupExpired, CheckFile, RemoveFile, EndSweep, threadVars
<1>6. ASSUME NEW c \in Controllers, ControlStep(c) \/ \E v \in NewTtls : SetTtl(c, v)
      PROVE  Verified'
  BY <1>2, <1>6 DEF ControlStep, StoreDefaultTtl, UpdateEntryTtls, SetTtl, threadVars
<1>7. CASE CrashRestart
  BY <1>7 DEF CrashRestart, AllIdle
<1>8. CASE (\E d \in Headers : ReceiveFails(d)) \/ Tick \/ UNCHANGED vars
  BY <1>2, <1>8 DEF ReceiveFails, Tick, vars, threadVars
<1>. QED
  BY <1>3, <1>4, <1>5, <1>6, <1>7, <1>8 DEF Next

\* Whatever is sent and however it is interleaved, no patch file ever holds a
\* payload that failed its CRC.
THEOREM OnlyVerified == Spec => []VerifiedOnly
<1>1. Init => Verified /\ NoneCorrupt(tmps) /\ NoneCorrupt(patches)
  BY DEF Init, Verified, NoneCorrupt, AllIdle, EmptyMap
<1>2. IInv /\ Verified /\ NoneCorrupt(tmps) /\ NoneCorrupt(patches) /\ [Next]_vars
      => Verified' /\ NoneCorrupt(tmps)' /\ NoneCorrupt(patches)'
  BY NextVerified, NextSound
<1>3. NoneCorrupt(tmps) /\ NoneCorrupt(patches) => VerifiedOnly
  BY DEF NoneCorrupt, VerifiedOnly
<1>. QED
  BY <1>1, <1>2, <1>3, Inductive, PTL DEF Spec

-----------------------------------------------------------------------------
(* ids.list says what the table says.                                      *)

\* No system call fails twice in one step, and failures are never forgotten.
LEMMA NoErrorSoFar ==
    ASSUME IInv, [Next]_vars, fs_errors' = 0
    PROVE  fs_errors = 0 /\ ~FsError
<1>1. fs_errors \in Nat
  BY ServerAssumption DEF IInv, TypeOK
<1>2. ~FsError
  BY <1>1 DEF FsError
<1>3. ASSUME NEW h \in Handlers, HandlerStep(h) PROVE fs_errors' = fs_errors
  <2>1. CASE \/ CreateDir(h) \/ OpenTmp(h) \/ WriteTmp(h) \/ RenameTmp(h) \/ UpdateEntry(h)
             \/ MarkPublished(h) \/ Reply(h)
    BY <1>2, <2>1
    DEF CreateDir, OpenTmp, WriteTmp, RenameTmp, UpdateEntry, PersistAll, MarkPublished, Reply,
        boundVars
  <2>2. CASE \/ AssembleOpen(h) \/ AssembleChunk(h) \/ AssembleDone(h) \/ AbortAssembly(h)
             \/ Publish(h) \/ RemovePatches(h) \/ RemovePatchDir(h)
    BY <1>2, <2>2
    DEF AssembleOpen, AssembleChunk, AssembleDone, AbortAssembly, Publish, RemovePatches,
        RemovePatchDir, boundVars
  <2>. QED
    BY <1>3, <2>1, <2>2 DEF HandlerStep
<1>4. CASE SweeperStep
  BY <1>2, <1>4
  DEF SweeperStep, BeginSweep, CleanupExpired, CheckFile, RemoveFile, EndSweep, boundVars
<1>5. fs_errors' = fs_errors
  BY <1>2, <1>3, <1>4
  DEF Next, ControlStep, Receive, ReceiveFails, SetTtl, StoreDefaultTtl, UpdateEntryTtls,
      PersistAll, Tick, CrashRestart, vars, boundVars
<1>. QED
  BY <1>2, <1>5

\* Persisting the entries that changed brings ids.list up to date.
LEMMA PersistAgrees ==
    ASSUME IInv, NEW F, Persist(payloads', F, {}),
           \A f \in DOMAIN payloads' : f \notin F =>
               f \in DOMAIN payloads /\ Manifest(payloads'[f]) = Manifest(payloads[f]),
           \A f \in DOMAIN manifests \cap DOMAIN payloads :
               manifests[f] = Manifest(payloads[f])
    PROVE  \A f \in DOMAIN manifests' \cap DOMAIN payloads' :
               manifests'[f] = Manifest(payloads'[f])
<1>1. DOMAIN manifests \subseteq dirs
  BY DEF IInv, TypeOK, IsMap
<1>2. manifests' = [f \in DOMAIN manifests \cup (F \cap dirs) |->
                     IF f \in F \cap dirs THEN Manifest(payloads'[f]) ELSE manifests[f]]
  BY DEF Persist
<1>. QED
  BY <1>1, <1>2

\* Every step that changes an entry's TTL or completeness persists it in the
\* same critical section.
LEMMA NextManifests ==
    ASSUME IInv, ManifestAgrees, [Next]_vars
    PROVE  ManifestAgrees'
<1>. DEFINE Agree == \A f \in DOMAIN manifests \cap DOMAIN payloads :
                        manifests[f] = Manifest(payloads[f])
<1>. SUFFICES ASSUME fs_errors' = 0 PROVE Agree'
  BY DEF ManifestAgrees
<1>0. Agree /\ ~FsError
  BY NoErrorSoFar DEF ManifestAgrees
<1>1. ASSUME NEW h \in Handlers, UpdateEntry(h) PROVE Agree'
  <2>. DEFINE F == {chunk[h].file_id}
  <2>1. Persist(payloads', F, {})
    BY <1>0, <1>1 DEF UpdateEntry, PersistAll
  <2>2. \A f \in DOMAIN payloads' : f \notin F =>
           f \in DOMAIN payloads /\ Manifest(payloads'[f]) = Manifest(payloads[f])
    BY <1>1 DEF UpdateEntry, Put
  <2>. QED
    BY <1>0, <2>1, <2>2, PersistAgrees
<1>2. ASSUME NEW c \in Controllers, UpdateEntryTtls(c) PROVE Agree'
  <2>1. Persist(payloads', DOMAIN payloads, {})
    BY <1>0, <1>2 DEF UpdateEntryTtls, PersistAll
  <2>2. DOMAIN payloads' = DOMAIN payloads
    BY <1>2 DEF UpdateEntryTtls
  <2>. QED
    BY <1>0, <2>1, <2>2, PersistAgrees
<1>3. ASSUME NEW F, EmptyDirs(F), payloads' = payloads \/ \E G : payloads' = Drop(payloads, G)
      PROVE  Agree'
  BY <1>0, <1>3 DEF EmptyDirs, Drop, Restrict
<1>4. ASSUME NEW h \in Handlers, MarkPublished(h) PROVE Agree'
  BY <1>0, <1>4 DEF MarkPublished, patchVars, Drop, Restrict
<1>5. ASSUME Tick PROVE Agree'
  <2>1. payloads' = [f \in DOMAIN payloads |-> [payloads[f] EXCEPT !.age = Older(@)]]
    BY <1>5 DEF Tick
  <2>2. ASSUME NEW f \in DOMAIN payloads PROVE Manifest(payloads'[f]) = Manifest(payloads[f])
    <3>1. payloads[f] \in Entry
      BY DEF IInv, TypeOK, IsMap
    <3>2. /\ payloads'[f].ttl = payloads[f].ttl
          /\ payloads'[f].received = payloads[f].received
          /\ payloads'[f].total = payloads[f].total
      BY <2>1, <3>1 DEF Entry
    <3>. QED
      BY <3>2 DEF Manifest, State, Complete
  <2>. QED
    BY <1>0, <1>5, <2>1, <2>2 DEF Tick, patchVars
<1>6. CASE CrashRestart
  BY <1>6 DEF CrashRestart, EmptyMap
<1>7. CASE UNCHANGED <<payloads, manifests>>
  BY <1>0, <1>7
<1>8. ASSUME NEW h \in Handlers, HandlerStep(h) PROVE Agree'
  <2>1. CASE RemovePatches(h)
    BY <1>0, <1>3, <1>7, <2>1 DEF RemovePatches, tableVars
  <2>2. CASE CreateDir(h) \/ OpenTmp(h) \/ WriteTmp(h) \/ RenameTmp(h)
             \/ AssembleOpen(h) \/ AssembleChunk(h) \/ AssembleDone(h) \/ AbortAssembly(h)
             \/ Publish(h) \/ RemovePatchDir(h) \/ Reply(h)
    BY <1>7, <2>2
    DEF CreateDir, OpenTmp, WriteTmp, RenameTmp, AssembleOpen, AssembleChunk,
        AssembleDone, AbortAssembly, Publish, RemovePatchDir, Reply, tableVars, patchVars
  <2>. QED
    BY <1>1, <1>4, <1>8, <2>1, <2>2 DEF HandlerStep
<1>9. CASE CleanupExpired
  BY <1>0, <1>3, <1>9 DEF CleanupExpired, RemoveDirs
<1>10. CASE SweeperStep
  BY <1>7, <1>9, <1>10
  DEF SweeperStep, BeginSweep, CheckFile, RemoveFile, EndSweep, tableVars, patchVars
<1>11. ASSUME NEW c \in Controllers, ControlStep(c) \/ \E v \in NewTtls : SetTtl(c, v)
       PROVE  Agree'
  BY <1>2, <1>7, <1>11 DEF ControlStep, StoreDefaultTtl, SetTtl, patchVars
<1>12. ASSUME NEW d \in Headers, ReceiveFails(d) \/ \E h \in Handlers : Receive(h, d)
       PROVE  Agree'
  BY <1>7, <1>12 DEF ReceiveFails, Receive, tableVars, patchVars
<1>13. CASE UNCHANGED vars
  BY <1>7, <1>13 DEF vars, tableVars, patchVars
<1>. QED
  BY <1>5, <1>6, <1>8, <1>10, <1>11, <1>12, <1>13 DEF Next

\* As long as no system call failed, ids.list on disk says what the table
\* says, through any number of concurrent chunks, expiries and SET_TTLs.
THEOREM ManifestsAgree == Spec => []ManifestAgrees
<1>1. Init => ManifestAgrees
  BY DEF Init, ManifestAgrees, EmptyMap
<1>. QED
  BY <1>1, Inductive, NextManifests, PTL DEF Spec

-----------------------------------------------------------------------------
(* SET_TTL reaches every copy of the TTL.                                  *)

\* SET_TTLs come one after the other. Two at a time could leave main's atomic
\* with the one TTL and Storage's default with the other.
Serial == \A c, d \in Controllers : c = d

\* An entry has TTL t, unless its latest chunk came with one.
EntriesHave(t) ==
    \A f \in DOMAIN payloads :
        payloads[f].ttl = t \/ \E d \in Headers : d.file_id = f /\ d.ttl = payloads[f].ttl

\* How far the TTL has come while SET_TTL is carried out.
TtlInv ==
    /\ \A c \in Controllers :
          /\ control[c].pc # "idle" => ttl_seconds = control[c].ttl
          /\ control[c].pc = "entries" => default_ttl = control[c].ttl
    /\ (\A c \in Controllers : control[c].pc = "idle") =>
          ttl_seconds = default_ttl /\ EntriesHave(default_ttl)

\* A step that only ages or removes entries, or gives one its TTL, and leaves
\* SET_TTL alone.
LEMMA TtlKept ==
    ASSUME TtlInv, UNCHANGED <<default_ttl, ttl_seconds, control>>,
           EntriesHave(default_ttl) => EntriesHave(default_ttl)'
    PROVE  TtlInv'
BY DEF TtlInv

LEMMA NextTtls ==
    ASSUME Serial, IInv, TtlInv, [Next]_vars
    PROVE  TtlInv'
<1>1. CASE UNCHANGED <<tableVars, control>>
  BY <1>1 DEF tableVars, TtlInv, EntriesHave
<1>2. ASSUME NEW h \in Handlers, UpdateEntry(h) PROVE TtlInv'
  <2>. DEFINE d == chunk[h]
  <2>1. d \in Headers
    BY <1>2 DEF UpdateEntry, IInv, ThreadsEquipped
  <2>2. payloads' = Put(payloads, d.file_id, NewEntry(d)) /\ NewEntry(d).ttl = EntryTtl(d)
    BY <1>2 DEF UpdateEntry, NewEntry
  <2>3. EntryTtl(d) = default_ttl \/ EntryTtl(d) = d.ttl
    BY DEF EntryTtl
  <2>4. EntriesHave(default_ttl) => EntriesHave(default_ttl)'
    BY <1>2, <2>1, <2>2, <2>3 DEF UpdateEntry, EntriesHave, Put
  <2>. QED
    BY <1>2, <2>4, TtlKept DEF UpdateEntry
<1>3. ASSUME NEW G, payloads' = Drop(payloads, G), UNCHANGED <<default_ttl, ttl_seconds, control>>
      PROVE  TtlInv'
  <2>1. EntriesHave(default_ttl) => EntriesHave(default_ttl)'
    BY <1>3 DEF EntriesHave, Drop, Restrict
  <2>. QED
    BY <1>3, <2>1, TtlKept
<1>4. ASSUME NEW h \in Handlers, HandlerStep(h) PROVE TtlInv'
  <2>1. CASE MarkPublished(h)
    BY <1>3, <2>1 DEF MarkPublished
  <2>2. CASE CreateDir(h) \/ OpenTmp(h) \/ WriteTmp(h) \/ RenameTmp(h)
             \/ AssembleOpen(h) \/ AssembleChunk(h) \/ AssembleDone(h) \/ AbortAssembly(h)
             \/ Publish(h) \/ RemovePatches(h) \/ RemovePatchDir(h) \/ Reply(h)
    BY <1>1, <2>2
    DEF CreateDir, OpenTmp, WriteTmp, RenameTmp, AssembleOpen, AssembleChunk,
        AssembleDone, AbortAssembly, Publish, RemovePatches, RemovePatchDir, Reply
  <2>. QED
    BY <1>2, <1>4, <2>1, <2>2 DEF HandlerStep
<1>5. CASE SweeperStep
  <2>1. CASE CleanupExpired
    BY <1>3, <2>1 DEF CleanupExpired
  <2>. QED
    BY <1>1, <1>5, <2>1 DEF SweeperStep, BeginSweep, CheckFile, RemoveFile, EndSweep
<1>6. ASSUME NEW c \in Controllers, control[c].pc # "idle" \/ control'[c].pc # "idle",
             ControlStep(c) \/ \E v \in NewTtls : SetTtl(c, v)
      PROVE  TtlInv'
  <2>1. Controllers = {c}
    BY DEF Serial
  <2>2. control \in [Controllers -> [pc : {"idle", "default", "entries"}, ttl : 0..MaxTtl]]
    BY DEF IInv, TypeOK
  <2>3. CASE \E v \in NewTtls : SetTtl(c, v)
    BY <2>1, <2>2, <2>3 DEF SetTtl, TtlInv
  <2>4. CASE StoreDefaultTtl(c)
    BY <2>1, <2>2, <2>4 DEF StoreDefaultTtl, TtlInv
  <2>5. CASE UpdateEntryTtls(c)
    <3>1. default_ttl = control[c].ttl /\ ttl_seconds = control[c].ttl
      BY <2>5 DEF UpdateEntryTtls, TtlInv
    <3>2. \A f \in DOMAIN payloads' : payloads'[f].ttl = control[c].ttl
      <4>1. \A f \in DOMAIN payloads : payloads[f] \in Entry
        BY DEF IInv, TypeOK, IsMap
      <4>. QED
        BY <2>5, <4>1 DEF UpdateEntryTtls, Entry
    <3>3. control'[c].pc = "idle" /\ UNCHANGED <<default_ttl, ttl_seconds>>
      BY <2>2, <2>5 DEF UpdateEntryTtls
    <3>. QED
      BY <2>1, <3>1, <3>2, <3>3 DEF TtlInv, EntriesHave
  <2>. QED
    BY <1>6, <2>3, <2>4, <2>5 DEF ControlStep
<1>7. ASSUME NEW c \in Controllers, ControlStep(c) \/ \E v \in NewTtls : SetTtl(c, v)
      PROVE  control[c].pc # "idle" \/ control'[c].pc # "idle"
  BY <1>7 DEF ControlStep, StoreDefaultTtl, UpdateEntryTtls, SetTtl, IInv, TypeOK
<1>8. CASE Tick
  <2>1. payloads' = [f \in DOMAIN payloads |-> [payloads[f] EXCEPT !.age = Older(@)]]
    BY <1>8 DEF Tick
  <2>2. ASSUME NEW f \in DOMAIN payloads PROVE payloads'[f].ttl = payloads[f].ttl
    <3>1. payloads[f] \in Entry
      BY DEF IInv, TypeOK, IsMap
    <3>. QED
      BY <2>1, <3>1 DEF Entry
  <2>3. EntriesHave(default_ttl) => EntriesHave(default_ttl)'
    BY <1>8, <2>1, <2>2 DEF Tick, EntriesHave
  <2>. QED
    BY <1>8, <2>3, TtlKept DEF Tick
<1>9. CASE CrashRestart
  BY <1>9 DEF CrashRestart, TtlInv, EntriesHave, EmptyMap, NoControl
<1>10. ASSUME NEW d \in Headers, ReceiveFails(d) \/ \E h \in Handlers : Receive(h, d)
       PROVE  TtlInv'
  BY <1>1, <1>10 DEF ReceiveFails, Receive
<1>11. CASE UNCHANGED vars
  BY <1>1, <1>11 DEF vars
<1>. QED
  BY <1>4, <1>5, <1>6, <1>7, <1>8, <1>9, <1>10, <1>11 DEF Next

\* As long as operators wait for each other, a SET_TTL that was answered has
\* reached the cleanup thread, Storage's default and every entry, whatever
\* chunks, sweeps and crashes came between its three steps (update_ttl).
THEOREM TtlReachesAll ==
    ASSUME Serial
    PROVE  Spec => []TtlPropagated
<1>1. Init => TtlInv
  BY DEF Init, TtlInv, EntriesHave, EmptyMap, NoControl
<1>2. IInv /\ TtlInv /\ [Next]_vars => TtlInv'
  BY NextTtls
<1>3. TtlInv => TtlPropagated
  BY DEF TtlInv, EntriesHave, TtlPropagated
<1>. QED
  BY <1>1, <1>2, <1>3, Inductive, PTL DEF Spec
=============================================================================
