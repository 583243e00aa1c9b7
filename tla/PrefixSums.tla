---------------------------- MODULE PrefixSums ----------------------------
(* Sums over the first elements of a sequence of numbers: offsets and byte  *)
(* counts that the code accumulates in a loop.                              *)
EXTENDS Integers, Sequences

\* w[1] + ... + w[n].
SumTo(w, n) == LET s[i \in Nat] == IF i = 0 THEN 0 ELSE s[i - 1] + w[i] IN s[n]
=============================================================================
