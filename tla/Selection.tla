------------------------------ MODULE Selection ------------------------------
(* Array.filter, as a function defined by recursion over the sequence.      *)
EXTENDS Naturals, Sequences

(* The elements of seq that lie in S, in the order of seq.                 *)
Where(seq, S) ==
  LET f[n \in 0..Len(seq)] ==
        IF n = 0 THEN << >>
        ELSE IF seq[n] \in S THEN Append(f[n - 1], seq[n]) ELSE f[n - 1]
  IN  f[Len(seq)]

=============================================================================
