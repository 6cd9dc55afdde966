------------------------------ MODULE Selection ------------------------------
(***************************************************************************)
(* What a loop over a list leaves of it that keeps some of its elements.   *)
(* It is SelectSeq() of a set, written as a recursive function so that it  *)
(* can be reasoned about (SelectionProofs).                                *)
(***************************************************************************)
EXTENDS Integers, Sequences

\* The elements of seq that are in S, in their order.
Sifted(seq, S) ==
  LET upTo[n \in 0 .. Len(seq)] ==
        IF n = 0 THEN <<>>
        ELSE IF seq[n] \in S THEN Append(upTo[n - 1], seq[n]) ELSE upTo[n - 1]
  IN  upTo[Len(seq)]
=============================================================================
