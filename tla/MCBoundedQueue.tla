--------------------------- MODULE MCBoundedQueue ---------------------------
(* A small instance of BoundedQueue: safety and liveness in one run, so no  *)
(* symmetry is declared.                                                    *)
EXTENDS BoundedQueue
=============================================================================
