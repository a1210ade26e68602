----------------------------- MODULE RelayServer -----------------------------
(***************************************************************************)
(* The data path of the FileRelay server: Storage (storage.hpp), Assembler *)
(* (assembler.hpp), the detached thread main.cpp starts for every data     *)
(* connection, its cleanup thread and the SET_TTL command (control.hpp).   *)
(*                                                                         *)
(* A connection carries one chunk.  Its thread writes the chunk below      *)
(* patches/<file_id>/, then updates the in-memory table under the storage  *)
(* mutex and, when the table says the upload is complete, assembles        *)
(* files/<name>.part and renames it.  Only the table is locked: every      *)
(* system call on the disk is a step of its own here.                      *)
(*                                                                         *)
(* The disk.  A directory is a partial function from names to contents.    *)
(* No file has two links, so an open descriptor is described by where its  *)
(* inode is now ("tmp", "patch", "part", "file") or "gone" once the inode  *)
(* lost its last link: renaming moves the descriptors of others along,     *)
(* O_TRUNC empties the inode the others are writing.                       *)
(*                                                                         *)
(* Data.  A chunk's payload is a function of its upload and index, so a    *)
(* patch file is "empty", "full" (the payload) or "corrupt"; an output     *)
(* file is the sequence of the decompressed pieces <<file_id, index>>, a   *)
(* Junk piece being a hole or the output of damaged input.                 *)
(***************************************************************************)
EXTENDS Integers, Sequences, FiniteSets, Functions

CONSTANTS
    Handlers,       \* threads serving data connections
    Controllers,    \* threads serving control connections
    FileIds,        \* upload identifiers chosen by clients
    Names,          \* original file names
    Headers,        \* the chunk headers clients send
    StreamLen,      \* StreamLen[f]: number of chunks of upload f
    ConfigTtl,      \* --ttl
    NewTtls,        \* operands of SET_TTL
    None,           \* no chunk, no record, no file
    MaxTtl,         \* bound: largest TTL; older ages are not told apart
    MaxDeliveries,  \* bound: how often one header is sent
    MaxCrashes,     \* bound: crashes and restarts of the server
    MaxFsErrors     \* bound: failing system calls

HeaderType ==
    [file_id : FileIds, name : Names, index : Nat, total : Nat, ttl : Int,
     crc_ok : BOOLEAN]

ASSUME ServerAssumption ==
    /\ MaxTtl \in Nat
    /\ MaxDeliveries \in Nat /\ MaxCrashes \in Nat /\ MaxFsErrors \in Nat
    /\ ConfigTtl \in 1..MaxTtl
    /\ NewTtls \subseteq Int
    /\ \A v \in NewTtls : v <= MaxTtl
    /\ Headers \subseteq HeaderType
    /\ \A d \in Headers : d.ttl <= MaxTtl
    /\ StreamLen \in [FileIds -> Nat \ {0}]
    /\ None \notin Headers /\ None \notin Names

VARIABLES
    payloads,     \* Storage::payloads_: upload -> entry
    default_ttl,  \* Storage::default_ttl_rep_
    ttl_seconds,  \* main's atomic, set by SET_TTL, read by the cleanup thread
    dirs,         \* the directories patches/<file_id>
    tmps,         \* <<file_id, index>> -> content of patch_<index>.bin.tmp
    patches,      \* <<file_id, index>> -> content of patch_<index>.bin
    manifests,    \* file_id -> what ids.list says
    parts,        \* name -> content and age of files/<name>.part
    files,        \* name -> content and age of files/<name>
    pc, chunk, record, fd, out,   \* per connection thread: its locals
    sweeper,      \* the cleanup thread
    control,      \* per control thread: the SET_TTL in progress
    deliveries, crashes, fs_errors    \* what the bounds count

tableVars   == <<payloads, default_ttl, ttl_seconds>>
patchVars   == <<dirs, tmps, patches, manifests>>
outVars     == <<parts, files>>
threadVars  == <<pc, chunk, record, fd, out>>
boundVars   == <<deliveries, crashes, fs_errors>>
vars == <<tableVars, patchVars, outVars, threadVars, sweeper, control,
          boundVars>>

MaxAge == MaxTtl + 1
Age == 0..MaxAge
Junk == <<>>

\* Directory and table updates.
EmptyMap == [x \in {} |-> x]
Put(g, k, v) == [x \in DOMAIN g \cup {k} |-> IF x = k THEN v ELSE g[x]]
Drop(g, K) == Restrict(g, DOMAIN g \ K)
KeysOf(F, g) == {k \in DOMAIN g : k[1] \in F}

\* A system call fails: every failure takes one of the errors allowed.
FsError == fs_errors < MaxFsErrors /\ fs_errors' = fs_errors + 1

Key(h) == <<chunk[h].file_id, chunk[h].index>>
Goto(h, l) == pc' = [pc EXCEPT ![h] = l]

\* The descriptors of the patch files of F lose their inode.
DetachPatches(F) ==
    fd' = [g \in Handlers |->
             IF fd[g] \in {"tmp", "patch"} /\ chunk[g].file_id \in F
             THEN "gone" ELSE fd[g]]

\* Faulty variant: ids.list survives its directory.
RemoveDirsButList(F) ==
    /\ dirs' = dirs \ F
    /\ tmps' = Drop(tmps, KeysOf(F, tmps))
    /\ patches' = Drop(patches, KeysOf(F, patches))
    /\ DetachPatches(F)
    /\ UNCHANGED manifests

\* What remove_all finds in the directories of F goes.
EmptyDirs(F) ==
    /\ tmps' = Drop(tmps, KeysOf(F, tmps))
    /\ patches' = Drop(patches, KeysOf(F, patches))
    /\ manifests' = Drop(manifests, F)
    /\ DetachPatches(F)

\* std::filesystem::remove_all on the directories of F, for whoever holds mutex_.
RemoveDirs(F) == dirs' = dirs \ F /\ EmptyDirs(F)

-----------------------------------------------------------------------------
(* Storage: the table.                                                     *)

Complete(e) == Cardinality(e.received) = e.total

State(e) == IF Complete(e) THEN "complete" ELSE "partial"

Manifest(e) == [ttl |-> e.ttl, state |-> State(e)]

\* persist_manifest for the entries F of table: an entry whose directory is
\* gone cannot be written, and an error (bad) leaves the old ids.list.
Persist(table, F, bad) ==
    LET W == (F \cap dirs) \ bad
    IN  manifests' = [f \in DOMAIN manifests \cup W |->
                        IF f \in W THEN Manifest(table[f]) ELSE manifests[f]]

PersistAll(table, F) ==
    \/ Persist(table, F, {}) /\ UNCHANGED fs_errors
    \/ FsError /\ \E f \in F \cap dirs : Persist(table, F, {f})

\* Faulty variant: SET_TTL is forgotten by chunks without a TTL.
ConfiguredEntryTtl(d) == IF d.ttl > 0 THEN d.ttl ELSE ConfigTtl

\* The TTL of a chunk, or else the default.
EntryTtl(d) == IF d.ttl > 0 THEN d.ttl ELSE default_ttl

OldEntry(d) ==
    IF d.file_id \in DOMAIN payloads
    THEN payloads[d.file_id]
    ELSE [name |-> d.name, total |-> d.total, size |-> 0, received |-> {},
          age |-> 0, ttl |-> 0]

NewEntry(d) ==
    LET e == OldEntry(d)
    IN  [name |-> e.name, total |-> e.total,
         size |-> IF e.size < d.total THEN d.total ELSE e.size,
         received |-> e.received \cup {d.index},
         age |-> 0, ttl |-> EntryTtl(d)]
-----------------------------------------------------------------------------
(* The connection thread: receiving and Storage::store_chunk.              *)

\* The header is read and accepted, the payload is read in full.
Receive(h, d) ==
    /\ pc[h] = "idle"
    /\ deliveries[d] < MaxDeliveries
    /\ d.total > 0 /\ d.index < d.total
    /\ deliveries' = [deliveries EXCEPT ![d] = @ + 1]
    /\ chunk' = [chunk EXCEPT ![h] = d]
    /\ Goto(h, "store")
    /\ UNCHANGED <<tableVars, patchVars, outVars, record, fd, out, sweeper,
                   control, crashes, fs_errors>>

\* The connection ends early, or the header is refused: fail(), no reply.
ReceiveFails(d) ==
    /\ deliveries[d] < MaxDeliveries
    /\ deliveries' = [deliveries EXCEPT ![d] = @ + 1]
    /\ UNCHANGED <<tableVars, patchVars, outVars, threadVars, sweeper, control,
                   crashes, fs_errors>>

\* Faulty variant: the CRC is not compared.
AcceptAnyCrc(d) == TRUE

VerifyCrc(d) == d.crc_ok

\* verify_crc and create_directories.
CreateDir(h) ==
    /\ pc[h] = "store"
    /\ \/ /\ VerifyCrc(chunk[h])
          /\ dirs' = dirs \cup {chunk[h].file_id}
          /\ Goto(h, "open")
          /\ UNCHANGED fs_errors
       \/ /\ VerifyCrc(chunk[h]) /\ FsError
          /\ Goto(h, "reply")
          /\ UNCHANGED dirs
       \/ /\ ~VerifyCrc(chunk[h])
          /\ Goto(h, "reply")
          /\ UNCHANGED <<dirs, fs_errors>>
    /\ UNCHANGED <<tableVars, tmps, patches, manifests, outVars, chunk, record,
                   fd, out, sweeper, control, deliveries, crashes>>

\* write_binary_file: open(..., O_CREAT | O_TRUNC) of the .tmp path.
OpenTmp(h) ==
    /\ pc[h] = "open"
    /\ \/ /\ chunk[h].file_id \in dirs
          /\ tmps' = Put(tmps, Key(h), "empty")
          /\ fd' = [fd EXCEPT ![h] = "tmp"]
          /\ Goto(h, "write")
          /\ UNCHANGED fs_errors
       \/ /\ IF chunk[h].file_id \in dirs THEN FsError ELSE UNCHANGED fs_errors
          /\ Goto(h, "reply")
          /\ UNCHANGED <<tmps, fd>>
    /\ UNCHANGED <<tableVars, dirs, patches, manifests, outVars, chunk, record,
                   out, sweeper, control, deliveries, crashes>>

Payload(d) == IF d.crc_ok THEN "full" ELSE "corrupt"

\* write_binary_file: write, fsync and close; on an error unlink the .tmp path.
WriteTmp(h) ==
    /\ pc[h] = "write"
    /\ \/ /\ tmps' = IF fd[h] = "tmp"
                     THEN Put(tmps, Key(h), Payload(chunk[h])) ELSE tmps
          /\ patches' = IF fd[h] = "patch"
                        THEN Put(patches, Key(h), Payload(chunk[h])) ELSE patches
          /\ fd' = [fd EXCEPT ![h] = "none"]
          /\ Goto(h, "rename")
          /\ UNCHANGED fs_errors
       \/ /\ FsError
          /\ tmps' = Drop(tmps, {Key(h)})
          /\ fd' = [g \in Handlers |->
                      CASE g = h -> "none"
                        [] g # h /\ fd[g] = "tmp" /\ Key(g) = Key(h) -> "gone"
                        [] OTHER -> fd[g]]
          /\ Goto(h, "reply")
          /\ UNCHANGED patches
    /\ UNCHANGED <<tableVars, dirs, manifests, outVars, chunk, record, out,
                   sweeper, control, deliveries, crashes>>

\* write_binary_file: rename of the .tmp path, which may be gone or be
\* another thread's file by now.
RenameTmp(h) ==
    /\ pc[h] = "rename"
    /\ \/ /\ Key(h) \in DOMAIN tmps
          /\ patches' = Put(patches, Key(h), tmps[Key(h)])
          /\ tmps' = Drop(tmps, {Key(h)})
          /\ fd' = [g \in Handlers |->
                      CASE fd[g] = "tmp" /\ Key(g) = Key(h) -> "patch"
                        [] fd[g] = "patch" /\ Key(g) = Key(h) -> "gone"
                        [] OTHER -> fd[g]]
          /\ Goto(h, "lock")
          /\ UNCHANGED fs_errors
       \/ /\ IF Key(h) \in DOMAIN tmps THEN FsError ELSE UNCHANGED fs_errors
          /\ Goto(h, "reply")
          /\ UNCHANGED <<patches, tmps, fd>>
    /\ UNCHANGED <<tableVars, dirs, manifests, outVars, chunk, record, out,
                   sweeper, control, deliveries, crashes>>

\* store_chunk's critical section: the table entry, ids.list and the record
\* handed to the assembler when every chunk was received.
UpdateEntry(h) ==
    /\ pc[h] = "lock"
    /\ LET d == chunk[h]
           e == NewEntry(d)
       IN  /\ payloads' = Put(payloads, d.file_id, e)
           /\ PersistAll(payloads', {d.file_id})
           /\ IF Complete(e)
              THEN /\ record' = [record EXCEPT ![h] =
                          [name |-> e.name, total |-> e.total, size |-> e.size,
                           received |-> e.received]]
                   /\ Goto(h, "assemble")
              ELSE Goto(h, "reply") /\ UNCHANGED record
    /\ UNCHANGED <<default_ttl, ttl_seconds, dirs, tmps, patches, outVars, chunk,
                   fd, out, sweeper, control, deliveries, crashes>>
-----------------------------------------------------------------------------
(* The connection thread: Assembler::assemble and the reply.               *)

\* Descriptors on the output files of name n move or are lost.
MoveOutFds(n, h, move) ==
    fd' = [g \in Handlers |->
             CASE g = h -> "none"
               [] g # h /\ fd[g] \in {"part", "file"} /\ record[g].name = n ->
                    move[fd[g]]
               [] OTHER -> fd[g]]

\* Faulty variant: a .part left behind is opened without O_TRUNC.
ReopenPart(n) ==
    IF n \in DOMAIN parts THEN parts ELSE Put(parts, n, [content |-> <<>>, age |-> 0])

\* open(<name>.part, O_CREAT | O_TRUNC).
OpenPart(n) == Put(parts, n, [content |-> <<>>, age |-> 0])

\* Refuse a record with gaps, or create the output file.
AssembleOpen(h) ==
    /\ pc[h] = "assemble"
    /\ \/ /\ record[h].size = record[h].total
          /\ parts' = OpenPart(record[h].name)
          /\ fd' = [fd EXCEPT ![h] = "part"]
          /\ out' = [out EXCEPT ![h] = [idx |-> 0, wrote |-> 0, pending |-> FALSE]]
          /\ Goto(h, "copy")
          /\ UNCHANGED fs_errors
       \/ /\ IF record[h].size = record[h].total
             THEN FsError ELSE UNCHANGED fs_errors
          /\ Goto(h, "reply")
          /\ UNCHANGED <<parts, fd, out>>
    /\ UNCHANGED <<tableVars, patchVars, files, chunk, record, sweeper, control,
                   deliveries, crashes>>

\* What ZSTD_decompressStream may make of the next patch: the right piece when
\* the stream continues, an error or damaged output otherwise.  pending is its
\* hint that the frame is not finished.
Decompress(f, o, content) ==
    IF content = "full" /\ o.wrote = o.idx
    THEN {[ok |-> TRUE, piece |-> <<f, o.idx>>, pending |-> o.idx + 1 # StreamLen[f]]}
    ELSE [ok : BOOLEAN, piece : {Junk}, pending : BOOLEAN]

\* write(2) of piece at offset k: what lies before the offset and was
\* truncated away reads as a hole.
WriteAt(s, k, piece) ==
    [i \in 1..(IF k < Len(s) THEN Len(s) ELSE k + 1) |->
        CASE i = k + 1 -> piece
          [] i # k + 1 /\ i <= Len(s) -> s[i]
          [] OTHER -> Junk]

WritePiece(h, piece) ==
    LET n == record[h].name
        w(g) == [g EXCEPT ![n] = [content |-> WriteAt(@.content, out[h].wrote, piece),
                                  age |-> 0]]
    IN  /\ parts' = IF fd[h] = "part" THEN w(parts) ELSE parts
        /\ files' = IF fd[h] = "file" THEN w(files) ELSE files

\* One iteration of the loop over the record's chunk files.
AssembleChunk(h) ==
    LET o == out[h]
        k == <<chunk[h].file_id, o.idx>>
        missing == o.idx \notin record[h].received \/ k \notin DOMAIN patches
    IN  /\ pc[h] = "copy"
        /\ o.idx < record[h].total
        /\ \/ /\ missing
              /\ Goto(h, "abort")
              /\ UNCHANGED <<outVars, out, fs_errors>>
           \/ /\ ~missing
              /\ patches[k] = "empty"
              /\ out' = [out EXCEPT ![h].idx = @ + 1]
              /\ UNCHANGED <<outVars, pc, fs_errors>>
           \/ /\ ~missing
              /\ patches[k] # "empty"
              /\ \E z \in Decompress(chunk[h].file_id, o, patches[k]) :
                    \/ /\ z.ok
                       /\ WritePiece(h, z.piece)
                       /\ out' = [out EXCEPT ![h] =
                             [idx |-> o.idx + 1, wrote |-> o.wrote + 1,
                              pending |-> z.pending]]
                       /\ UNCHANGED <<pc, fs_errors>>
                    \/ /\ IF z.ok THEN FsError ELSE UNCHANGED fs_errors
                       /\ Goto(h, "abort")
                       /\ UNCHANGED <<outVars, out>>
        /\ UNCHANGED <<tableVars, patchVars, chunk, record, fd, sweeper, control,
                       deliveries, crashes>>

StreamDone(o) == ~o.pending

\* After the loop: the pending check, fsync and close.
AssembleDone(h) ==
    /\ pc[h] = "copy"
    /\ out[h].idx = record[h].total
    /\ \/ /\ StreamDone(out[h])
          /\ fd' = [fd EXCEPT ![h] = "none"]
          /\ Goto(h, "publish")
          /\ UNCHANGED fs_errors
       \/ /\ IF StreamDone(out[h]) THEN FsError ELSE UNCHANGED fs_errors
          /\ Goto(h, "abort")
          /\ UNCHANGED fd
    /\ UNCHANGED <<tableVars, patchVars, outVars, chunk, record, out, sweeper,
                   control, deliveries, crashes>>

\* Faulty variant: after an error the output is renamed all the same.
PublishAborted(h) ==
    /\ pc[h] = "abort"
    /\ fd' = [fd EXCEPT ![h] = "none"]
    /\ Goto(h, "publish")
    /\ UNCHANGED <<tableVars, patchVars, outVars, chunk, record, out, sweeper,
                   control, boundVars>>

\* close and unlink(<name>.part), whoever's file it is.
AbortAssembly(h) ==
    /\ pc[h] = "abort"
    /\ parts' = Drop(parts, {record[h].name})
    /\ MoveOutFds(record[h].name, h, [part |-> "gone", file |-> "file"])
    /\ Goto(h, "reply")
    /\ UNCHANGED <<tableVars, patchVars, files, chunk, record, out, sweeper,
                   control, boundVars>>

\* rename(<name>.part, <name>).
Publish(h) ==
    LET n == record[h].name
    IN  /\ pc[h] = "publish"
        /\ \/ /\ n \in DOMAIN parts
              /\ files' = Put(files, n, parts[n])
              /\ parts' = Drop(parts, {n})
              /\ MoveOutFds(n, h, [part |-> "file", file |-> "gone"])
              /\ Goto(h, "remove")
              /\ UNCHANGED fs_errors
           \/ /\ IF n \in DOMAIN parts THEN FsError ELSE UNCHANGED fs_errors
              /\ Goto(h, "reply")
              /\ UNCHANGED <<outVars, fd>>
        /\ UNCHANGED <<tableVars, patchVars, chunk, record, out, sweeper, control,
                       deliveries, crashes>>

\* Faulty variant: the patch directory of a published upload is kept.
KeepPatches(h) ==
    /\ pc[h] = "remove"
    /\ Goto(h, "mark")
    /\ UNCHANGED <<tableVars, patchVars, outVars, chunk, record, fd, out, sweeper,
                   control, boundVars>>

\* remove_all(record.patches_dir), without a lock: first the files ...
RemovePatches(h) ==
    /\ pc[h] = "remove"
    /\ \/ EmptyDirs({chunk[h].file_id}) /\ Goto(h, "rmdir") /\ UNCHANGED fs_errors
       \/ FsError /\ Goto(h, "mark") /\ UNCHANGED <<tmps, patches, manifests, fd>>
    /\ UNCHANGED <<tableVars, dirs, outVars, chunk, record, out, sweeper, control,
                   deliveries, crashes>>

Deserted(f) == KeysOf({f}, tmps) = {} /\ KeysOf({f}, patches) = {} /\ f \notin DOMAIN manifests

\* ... then the directory, which stays if something has been written into it since.
\* A failure is only logged.
RemovePatchDir(h) ==
    /\ pc[h] = "rmdir"
    /\ \/ /\ Deserted(chunk[h].file_id)
          /\ dirs' = dirs \ {chunk[h].file_id}
          /\ UNCHANGED fs_errors
       \/ /\ IF Deserted(chunk[h].file_id) THEN FsError ELSE UNCHANGED fs_errors
          /\ UNCHANGED dirs
    /\ Goto(h, "mark")
    /\ UNCHANGED <<tableVars, tmps, patches, manifests, outVars, chunk, record, fd,
                   out, sweeper, control, deliveries, crashes>>

\* Faulty variant: the entry of a published upload stays in the table.
KeepEntry(h) ==
    /\ pc[h] = "mark"
    /\ Goto(h, "reply")
    /\ UNCHANGED <<tableVars, patchVars, outVars, chunk, record, fd, out, sweeper,
                   control, boundVars>>

\* mark_published: the entry goes, whatever it has become since.
MarkPublished(h) ==
    /\ pc[h] = "mark"
    /\ payloads' = Drop(payloads, {chunk[h].file_id})
    /\ Goto(h, "reply")
    /\ UNCHANGED <<default_ttl, ttl_seconds, patchVars, outVars, chunk, record, fd,
                   out, sweeper, control, boundVars>>

NoOut == [idx |-> 0, wrote |-> 0, pending |-> FALSE]

\* "STORED" is written whatever happened, and the thread ends.
Reply(h) ==
    /\ pc[h] = "reply"
    /\ Goto(h, "idle")
    /\ chunk' = [chunk EXCEPT ![h] = None]
    /\ record' = [record EXCEPT ![h] = None]
    /\ out' = [out EXCEPT ![h] = NoOut]
    /\ UNCHANGED <<tableVars, patchVars, outVars, fd, sweeper, control, boundVars>>
-----------------------------------------------------------------------------
(* The cleanup thread of main.cpp and SET_TTL.                             *)

NoSweep == [pc |-> "idle", ttl |-> 0, todo |-> {}, victim |-> None]

\* The thread wakes up and reads the TTL.
BeginSweep ==
    /\ sweeper.pc = "idle"
    /\ sweeper' = [sweeper EXCEPT !.pc = "expire", !.ttl = ttl_seconds]
    /\ UNCHANGED <<tableVars, patchVars, outVars, threadVars, control, boundVars>>

Expired(e) == e.age > e.ttl

\* Storage::cleanup_expired, one critical section; then the directory scan of
\* cleanup_completed_files begins.  An entry goes even when removing its
\* directory fails.
CleanupExpired ==
    LET F == {f \in DOMAIN payloads : Expired(payloads[f])}
    IN  /\ sweeper.pc = "expire"
        /\ payloads' = Drop(payloads, F)
        /\ \/ RemoveDirs(F) /\ UNCHANGED fs_errors
           \/ FsError /\ \E f \in F : RemoveDirs(F \ {f})
        /\ sweeper' = [sweeper EXCEPT !.pc = "scan",
                         !.todo = IF sweeper.ttl > 0 THEN DOMAIN files ELSE {}]
        /\ UNCHANGED <<default_ttl, ttl_seconds, outVars, pc, chunk, record, out,
                       control, deliveries, crashes>>

\* Faulty variant: a file exactly as old as the TTL goes too.
OldEnough(n) == n \in DOMAIN files /\ files[n].age >= sweeper.ttl

TooOld(n) == n \in DOMAIN files /\ files[n].age > sweeper.ttl

\* cleanup_completed_files reads the age of one file ...
CheckFile(n) ==
    /\ sweeper.pc = "scan"
    /\ sweeper.victim = None
    /\ n \in sweeper.todo
    /\ sweeper' = [sweeper EXCEPT
                     !.todo = @ \ {n},
                     !.victim = IF TooOld(n) THEN n ELSE None]
    /\ UNCHANGED <<tableVars, patchVars, outVars, threadVars, control, boundVars>>

\* ... and removes the path when that age was over the TTL.
RemoveFile ==
    /\ sweeper.victim # None
    /\ \/ /\ files' = Drop(files, {sweeper.victim})
          /\ fd' = [g \in Handlers |->
                      IF fd[g] = "file" /\ record[g].name = sweeper.victim
                      THEN "gone" ELSE fd[g]]
          /\ UNCHANGED fs_errors
       \/ FsError /\ UNCHANGED <<files, fd>>
    /\ sweeper' = [sweeper EXCEPT !.victim = None]
    /\ UNCHANGED <<tableVars, patchVars, parts, pc, chunk, record, out, control,
                   deliveries, crashes>>

EndSweep ==
    /\ sweeper.pc = "scan" /\ sweeper.todo = {} /\ sweeper.victim = None
    /\ sweeper' = NoSweep
    /\ UNCHANGED <<tableVars, patchVars, outVars, threadVars, control, boundVars>>

\* SET_TTL v: the atomic of main ...
SetTtl(c, v) ==
    /\ control[c].pc = "idle"
    /\ v > 0
    /\ ttl_seconds' = v
    /\ control' = [control EXCEPT ![c] = [pc |-> "default", ttl |-> v]]
    /\ UNCHANGED <<payloads, default_ttl, patchVars, outVars, threadVars, sweeper,
                   boundVars>>

\* ... then update_ttl: the default outside the lock ...
StoreDefaultTtl(c) ==
    /\ control[c].pc = "default"
    /\ default_ttl' = control[c].ttl
    /\ control' = [control EXCEPT ![c].pc = "entries"]
    /\ UNCHANGED <<payloads, ttl_seconds, patchVars, outVars, threadVars, sweeper,
                   boundVars>>

\* Faulty variant: the new TTL is not persisted.
UpdateTtlsInMemory(c) ==
    /\ control[c].pc = "entries"
    /\ payloads' = [f \in DOMAIN payloads |-> [payloads[f] EXCEPT !.ttl = control[c].ttl]]
    /\ control' = [control EXCEPT ![c] = [pc |-> "idle", ttl |-> 0]]
    /\ UNCHANGED <<default_ttl, ttl_seconds, patchVars, outVars, threadVars, sweeper,
                   boundVars>>

\* ... and under the lock every entry and its ids.list.
UpdateEntryTtls(c) ==
    /\ control[c].pc = "entries"
    /\ payloads' = [f \in DOMAIN payloads |-> [payloads[f] EXCEPT !.ttl = control[c].ttl]]
    /\ PersistAll(payloads', DOMAIN payloads)
    /\ control' = [control EXCEPT ![c] = [pc |-> "idle", ttl |-> 0]]
    /\ UNCHANGED <<default_ttl, ttl_seconds, dirs, tmps, patches, outVars,
                   threadVars, sweeper, deliveries, crashes>>

-----------------------------------------------------------------------------
(* Time, crashes and the specification.                                    *)

Older(a) == IF a < MaxAge THEN a + 1 ELSE a

\* One unit of time passes: the ages the code compares with a TTL grow.
Tick ==
    /\ payloads' = [f \in DOMAIN payloads |-> [payloads[f] EXCEPT !.age = Older(@)]]
    /\ parts' = [n \in DOMAIN parts |-> [parts[n] EXCEPT !.age = Older(@)]]
    /\ files' = [n \in DOMAIN files |-> [files[n] EXCEPT !.age = Older(@)]]
    /\ UNCHANGED <<default_ttl, ttl_seconds, patchVars, threadVars, sweeper, control,
                   boundVars>>

\* What every thread holds when no connection is being served.
NoChunks == [h \in Handlers |-> None]
NoFds == [h \in Handlers |-> "none"]
AllIdle == [h \in Handlers |-> "idle"]
NoOuts == [h \in Handlers |-> NoOut]
NoControl == [c \in Controllers |-> [pc |-> "idle", ttl |-> 0]]

\* The process dies and is started again with an empty table and the TTL of
\* --ttl; the disk stays as it is.
CrashRestart ==
    /\ crashes < MaxCrashes
    /\ crashes' = crashes + 1
    /\ payloads' = EmptyMap /\ default_ttl' = ConfigTtl /\ ttl_seconds' = ConfigTtl
    /\ pc' = AllIdle /\ chunk' = NoChunks /\ record' = NoChunks
    /\ fd' = NoFds /\ out' = NoOuts
    /\ sweeper' = NoSweep /\ control' = NoControl
    /\ UNCHANGED <<patchVars, outVars, deliveries, fs_errors>>

Init ==
    /\ payloads = EmptyMap /\ default_ttl = ConfigTtl /\ ttl_seconds = ConfigTtl
    /\ dirs = {} /\ tmps = EmptyMap /\ patches = EmptyMap /\ manifests = EmptyMap
    /\ parts = EmptyMap /\ files = EmptyMap
    /\ pc = AllIdle /\ chunk = NoChunks /\ record = NoChunks
    /\ fd = NoFds /\ out = NoOuts
    /\ sweeper = NoSweep /\ control = NoControl
    /\ deliveries = [d \in Headers |-> 0] /\ crashes = 0 /\ fs_errors = 0

HandlerStep(h) ==
    \/ CreateDir(h) \/ OpenTmp(h) \/ WriteTmp(h) \/ RenameTmp(h) \/ UpdateEntry(h)
    \/ AssembleOpen(h) \/ AssembleChunk(h) \/ AssembleDone(h) \/ AbortAssembly(h)
    \/ Publish(h) \/ RemovePatches(h) \/ RemovePatchDir(h) \/ MarkPublished(h) \/ Reply(h)

SweeperStep ==
    \/ BeginSweep \/ CleanupExpired \/ RemoveFile \/ EndSweep
    \/ \E n \in Names : CheckFile(n)

ControlStep(c) == StoreDefaultTtl(c) \/ UpdateEntryTtls(c)

Next ==
    \/ \E h \in Handlers : HandlerStep(h) \/ \E d \in Headers : Receive(h, d)
    \/ \E d \in Headers : ReceiveFails(d)
    \/ SweeperStep
    \/ \E c \in Controllers : ControlStep(c) \/ \E v \in NewTtls : SetTtl(c, v)
    \/ Tick
    \/ CrashRestart

Spec == Init /\ [][Next]_vars

\* Running threads and the clock advance; clients and operators need not act.
Fairness ==
    /\ \A h \in Handlers : WF_vars(HandlerStep(h))
    /\ \A c \in Controllers : WF_vars(ControlStep(c))
    /\ WF_vars(SweeperStep)
    /\ WF_vars(Tick)

FairSpec == Spec /\ Fairness
-----------------------------------------------------------------------------
(* Properties.                                                             *)

Entry ==
    [name : Names, total : Nat, size : Nat, received : SUBSET Nat, age : Age,
     ttl : 1..MaxTtl]
Record == [name : Names, total : Nat, size : Nat, received : SUBSET Nat]
OutFile == [content : Seq((FileIds \X Nat) \cup {Junk}), age : Age]
Content == {"empty", "full", "corrupt"}
ManifestType == [ttl : 1..MaxTtl, state : {"partial", "complete"}]
PcValues ==
    {"idle", "store", "open", "write", "rename", "lock", "assemble", "copy",
     "abort", "publish", "remove", "rmdir", "mark", "reply"}

\* The files that may exist below the directories D.
KeysBelow(D) == D \X Nat

IsMap(g, K, V) == DOMAIN g \subseteq K /\ g \in [DOMAIN g -> V]

Assembling == {"assemble", "copy", "abort", "publish", "remove", "rmdir", "mark"}

\* The values of the variables; the files below patches/<file_id> exist only
\* with that directory.
TypeOK ==
    /\ IsMap(payloads, FileIds, Entry)
    /\ default_ttl \in 1..MaxTtl /\ ttl_seconds \in 1..MaxTtl
    /\ dirs \subseteq FileIds
    /\ IsMap(tmps, KeysBelow(dirs), Content)
    /\ IsMap(patches, KeysBelow(dirs), Content)
    /\ IsMap(manifests, dirs, ManifestType)
    /\ IsMap(parts, Names, OutFile) /\ IsMap(files, Names, OutFile)
    /\ pc \in [Handlers -> PcValues]
    /\ chunk \in [Handlers -> Headers \cup {None}]
    /\ record \in [Handlers -> Record \cup {None}]
    /\ fd \in [Handlers -> {"none", "tmp", "patch", "part", "file", "gone"}]
    /\ out \in [Handlers -> [idx : Nat, wrote : Nat, pending : BOOLEAN]]
    /\ sweeper \in [pc : {"idle", "expire", "scan"}, ttl : 0..MaxTtl,
                    todo : SUBSET Names, victim : Names \cup {None}]
    /\ control \in [Controllers -> [pc : {"idle", "default", "entries"},
                                    ttl : 0..MaxTtl]]
    /\ deliveries \in [Headers -> 0..MaxDeliveries]
    /\ crashes \in 0..MaxCrashes /\ fs_errors \in 0..MaxFsErrors

\* A thread has the chunk, the record and the TTL it is about to use.
ThreadsEquipped ==
    /\ \A h \in Handlers :
          /\ pc[h] # "idle" => chunk[h] \in Headers
          /\ pc[h] \in Assembling => record[h] \in Record
    /\ \A c \in Controllers : control[c].pc # "idle" => control[c].ttl > 0

Original(f) == [k \in 1..StreamLen[f] |-> <<f, k - 1>>]

\* A file under its final name is always, byte for byte, one whole upload:
\* what Assembler::assemble's ".part, fsync, rename" is there for.
PublishedIntact ==
    \A n \in DOMAIN files :
        \E f \in FileIds : files[n].content = Original(f)

\* ids.list on disk says what the table says (state and TTL), as long as no
\* system call failed: persist_manifest runs inside every critical section
\* that changes an entry.
ManifestAgrees ==
    fs_errors = 0 =>
        \A f \in DOMAIN manifests \cap DOMAIN payloads :
            manifests[f] = Manifest(payloads[f])

\* When no SET_TTL is being carried out, the cleanup thread, the default of
\* Storage and every entry use the same TTL, but for entries whose latest
\* chunk came with a TTL of its own.
TtlPropagated ==
    (\A c \in Controllers : control[c].pc = "idle") =>
        /\ ttl_seconds = default_ttl
        /\ \A f \in DOMAIN payloads :
              \/ payloads[f].ttl = default_ttl
              \/ \E d \in Headers : d.file_id = f /\ d.ttl = payloads[f].ttl

\* A published file is removed only when it is older than the TTL the sweep
\* read: the age check of cleanup_completed_files still holds when the file
\* is removed.
FreshFilesKept ==
    [][\A n \in DOMAIN files \ DOMAIN files' : files[n].age > sweeper.ttl]_vars

\* A payload whose CRC does not match never reaches a patch file, and no
\* directory is made for it: verify_crc comes before every disk access.
VerifiedOnly ==
    /\ \A k \in DOMAIN tmps : tmps[k] # "corrupt"
    /\ \A k \in DOMAIN patches : patches[k] # "corrupt"

\* The thread that completes an upload, and no other, assembles it: an entry
\* with every chunk received has exactly one thread between store_chunk's
\* return and mark_published, so no complete upload is stranded in the table
\* and no two threads share <name>.part.
CompleteIsAssembled ==
    fs_errors = 0 =>
        \A f \in DOMAIN payloads :
            Complete(payloads[f]) =>
                \E h \in Handlers :
                    {g \in Handlers : pc[g] \in Assembling /\ chunk[g].file_id = f}
                        = {h}

\* A patch directory does not outlive its upload: it is removed after the
\* publication or, by cleanup_expired, once the upload is older than its TTL.
PatchDirsExpire ==
    \A f \in FileIds : (f \in dirs) ~> (f \notin dirs \/ fs_errors > 0)
=============================================================================
