---------------------------- MODULE OrderedFilter ---------------------------
(***************************************************************************)
(* Array.prototype.filter and the deletion of keys from a Map, as the      *)
(* components use them: what is kept stays in its order.                   *)
(***************************************************************************)
EXTENDS Naturals, Sequences

\* The first n entries of seq, without those outside S, for each n.
OnlyUpTo(seq, S) ==
    LET K[n \in 0..Len(seq)] == IF n = 0 THEN <<>>
                                ELSE IF seq[n] \in S THEN Append(K[n - 1], seq[n])
                                ELSE K[n - 1]
    IN  K

\* The entries of seq that are in S, in order.
Only(seq, S) == OnlyUpTo(seq, S)[Len(seq)]
=============================================================================
