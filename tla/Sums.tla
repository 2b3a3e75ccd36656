-------------------------------- MODULE Sums --------------------------------
(***************************************************************************)
(* Sums over the rows of a table kept as a sequence.  The fold of the      *)
(* community modules chooses the order in which it visits a set; this one  *)
(* goes from the first row to the last, so that what one appended or one   *)
(* updated row does to the sum can be proved.                              *)
(***************************************************************************)
EXTENDS Integers, Sequences

(* The sum of f[1], ..., f[n]. *)
SumTo(f, n) ==
    LET sum[i \in 0 .. n] == IF i = 0 THEN 0 ELSE sum[i - 1] + f[i]
    IN  sum[n]

SumOf(f) == SumTo(f, Len(f))

=============================================================================
