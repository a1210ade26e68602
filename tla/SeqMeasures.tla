---------------------------- MODULE SeqMeasures ----------------------------
(***************************************************************************)
(* Recursion along a sequence with nothing for a proof to instantiate but  *)
(* sets and functions: a step repeated, a step folded over a sequence, the *)
(* elements of a set a sequence has, in order, and the sum of its numbers. *)
(* The last three are FoldLeft, SelectSeq and FoldSeq of +.                *)
(***************************************************************************)
EXTENDS Naturals, Sequences

Iterated(step, start, times) ==
  LET upTo[n \in 0..times] == IF n = 0 THEN start ELSE step[upTo[n - 1]]
  IN upTo[times]

Folded(step, start, s) ==
  LET upTo[n \in 0..Len(s)] == IF n = 0 THEN start ELSE step[<<upTo[n - 1], s[n]>>]
  IN upTo[Len(s)]

Selected(s, wanted) ==
  LET upTo[n \in 0..Len(s)] ==
        IF n = 0 THEN <<>>
        ELSE IF s[n] \in wanted THEN Append(upTo[n - 1], s[n]) ELSE upTo[n - 1]
  IN upTo[Len(s)]

Total(s) ==
  LET upTo[n \in 0..Len(s)] == IF n = 0 THEN 0 ELSE upTo[n - 1] + s[n]
  IN upTo[Len(s)]
=============================================================================
