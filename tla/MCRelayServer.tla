---------------------------- MODULE MCRelayServer ----------------------------
(***************************************************************************)
(* Small instances of RelayServer: uploads u (two chunks) and v (one), and *)
(* the headers their clients send.                                         *)
(***************************************************************************)
EXTENDS RelayServer, TLC

CONSTANTS u, v, n1, n2

Chunk(f, n, i, len) ==
    [file_id |-> f, name |-> n, index |-> i, total |-> len, ttl |-> 0,
     crc_ok |-> TRUE]

TwoUploads == (u :> 2) @@ (v :> 1)

\* Different files.
PlainHeaders == {Chunk(u, n1, 0, 2), Chunk(u, n1, 1, 2), Chunk(v, n2, 0, 1)}

\* v is a new version of the same file.
SharedHeaders == {Chunk(u, n1, 0, 2), Chunk(u, n1, 1, 2), Chunk(v, n1, 0, 1)}

\* The second chunk of u brings its own TTL, and arrives damaged once.
Second == [Chunk(u, n1, 1, 2) EXCEPT !.ttl = 3]
TtlHeaders == {Chunk(u, n1, 0, 2), Second, [Second EXCEPT !.crc_ok = FALSE]}
=============================================================================
