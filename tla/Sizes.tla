-------------------------------- MODULE Sizes --------------------------------
(***************************************************************************)
(* What a queue takes up, its items having bytes, and what an eviction      *)
(* leaves of it.                                                            *)
(***************************************************************************)
EXTENDS Integers, Sequences

(* The sum of a sequence of numbers.                                        *)
Total(f) ==
  LET sum[n \in 0..Len(f)] == IF n = 0 THEN 0 ELSE sum[n - 1] + f[n]
  IN  sum[Len(f)]

Bytes(q) == Total([i \in 1..Len(q) |-> q[i].bytes])

(* What is left of a sequence when only the members of S are kept.          *)
Keep(q, S) ==
  LET kept[n \in 0..Len(q)] ==
        IF n = 0 THEN <<>>
        ELSE IF q[n] \in S THEN Append(kept[n - 1], q[n]) ELSE kept[n - 1]
  IN  kept[Len(q)]

=============================================================================
