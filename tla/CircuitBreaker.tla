--------------------------- MODULE CircuitBreaker ---------------------------
(***************************************************************************)
(* What the circuit breaker of a provider promises to whoever watches the  *)
(* upstream service, with no request, thread, retry or error in sight:     *)
(*   - an operation enters only while the breaker is closed, or once it    *)
(*     has been left alone for Cooldown ticks;                             *)
(*   - an operation leaves once; it counts once, as a success or as a      *)
(*     failure, or not at all;                                             *)
(*   - the breaker opens at the failure that brings the count to Threshold *)
(*     and every later failure starts its rest again;                      *)
(*   - a success forgets every failure.                                    *)
(***************************************************************************)
EXTENDS Naturals

CONSTANTS
  Callers,     \* who may have an operation inside; one each at a time
  Threshold,   \* failures in a row that open the breaker
  Cooldown     \* ticks an open breaker stays shut

VARIABLES
  inside,      \* the callers whose operation was let in and is not over
  count,       \* failures since the last success or rest
  open,        \* the breaker is open
  rest         \* ticks left before an open breaker lets someone in

breakerVars == <<inside, count, open, rest>>

Init ==
  /\ inside = {}
  /\ count = 0
  /\ open = FALSE
  /\ rest = 0

\* A closed breaker lets everyone in; an open one that has rested closes first.
Enter(c) ==
  /\ c \in Callers \ inside
  /\ open => rest = 0
  /\ inside' = inside \cup {c}
  /\ open' = FALSE
  /\ count' = IF open THEN 0 ELSE count
  /\ rest' = rest

Succeed(c) ==
  /\ c \in inside
  /\ inside' = inside \ {c}
  /\ count' = 0
  /\ open' = FALSE
  /\ rest' = 0

Fail(c) ==
  /\ c \in inside
  /\ inside' = inside \ {c}
  /\ count' = count + 1
  /\ open' = (open \/ count' >= Threshold)
  /\ rest' = IF count' >= Threshold THEN Cooldown ELSE rest

\* An operation that ends in an exception tells the breaker nothing.
Leave(c) ==
  /\ c \in inside
  /\ inside' = inside \ {c}
  /\ UNCHANGED <<count, open, rest>>

Tick ==
  /\ rest > 0
  /\ rest' = rest - 1
  /\ UNCHANGED <<inside, count, open>>

Next ==
  \/ Tick
  \/ \E c \in Callers : Enter(c) \/ Succeed(c) \/ Fail(c) \/ Leave(c)

Spec == Init /\ [][Next]_breakerVars
=============================================================================
