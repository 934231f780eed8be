------------------------------- MODULE Totals -------------------------------
(***************************************************************************)
(* The sum of a function over a finite set, and the smaller and the larger *)
(* of two numbers: the arithmetic of credits and of bytes.                 *)
(***************************************************************************)
EXTENDS Integers, FiniteSets, FiniteSetsExt

Total(f, S) == MapThenSumSet(LAMBDA x : f[x], S)
Lesser(m, n) == IF m < n THEN m ELSE n
Greater(m, n) == IF m > n THEN m ELSE n
=============================================================================
