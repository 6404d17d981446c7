-------------------------------- MODULE Sums --------------------------------
(* A loop that sums up an array. *)
EXTENDS Integers

(* The sum of the first n values, which begin at 0. *)
SumOf(values, n) ==
    LET sum[k \in 0..n] == IF k = 0 THEN 0 ELSE sum[k - 1] + values[k - 1]
    IN  sum[n]
=============================================================================
