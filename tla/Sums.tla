---------------------------------- MODULE Sums ----------------------------------
(***************************************************************************)
(* Where things that lie one behind the other begin: the records of a      *)
(* payload, the parts of a section, the instructions of a function.        *)
(***************************************************************************)
EXTENDS Integers

\* The sum of the first n sizes.
SumTo(size, n) ==
    LET at[k \in 0 .. n] == IF k = 0 THEN 0 ELSE at[k - 1] + size[k]
    IN  at[n]
================================================================================
