---------------------------- MODULE Subsequences ----------------------------
(* Subsequences by position, in a form that the provers can unfold. *)
EXTENDS Naturals, Sequences

(* The elements of s at the positions K, in their order *)
Kept(s, K) ==
  LET F[n \in 0..Len(s)] ==
        IF n = 0 THEN <<>> ELSE IF n \in K THEN Append(F[n - 1], s[n]) ELSE F[n - 1]
  IN F[Len(s)]
=============================================================================
