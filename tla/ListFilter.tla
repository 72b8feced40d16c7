---- MODULE ListFilter ----
(* The list comprehension [x for x in seq if x in S], in a form that can be proved about:   *)
(* no prover expands SelectSeq.                                                           *)
EXTENDS Naturals, Sequences

\* The elements of seq that are in S, in their order.
Kept(seq, S) ==
    LET kept[k \in 0 .. Len(seq)] ==
            IF k = 0 THEN <<>>
            ELSE IF seq[k] \in S THEN Append(kept[k - 1], seq[k]) ELSE kept[k - 1]
    IN  kept[Len(seq)]
============================
