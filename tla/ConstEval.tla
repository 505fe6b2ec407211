------------------------------ MODULE ConstEval ------------------------------
(****************************************************************************)
(* The compile-time functions of checker/consteval.rs that size registers.  *)
(****************************************************************************)
EXTENDS Integers

\* u128::BITS - n.leading_zeros()
BitLength(n) == CHOOSE b \in 0..n : 2^b > n /\ (b = 0 \/ 2^(b - 1) <= n)

\* `clog2_bits`: the bits that address n items, never none.
Clog2(n) == IF n <= 1 THEN 1 ELSE BitLength(n - 1)

\* A register of bits[w] holds the numbers below this.
WordsOf(w) == 2^w
=============================================================================
