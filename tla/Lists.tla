-------------------------------- MODULE Lists --------------------------------
(***************************************************************************)
(* The two list idioms of the program's pure functions, as the loops they  *)
(* run: sum(f), and a list comprehension with a condition.                 *)
(***************************************************************************)
EXTENDS Integers, Sequences

\* sum(f)
Total(f) == LET sum[i \in 0 .. Len(f)] == IF i = 0 THEN 0 ELSE sum[i - 1] + f[i]
            IN  sum[Len(f)]

\* [item[i] for i in 1 .. n if i in keep]
Selected(n, keep, item) ==
  LET out[i \in 0 .. n] == IF i = 0 THEN <<>>
                           ELSE IF i \in keep THEN Append(out[i - 1], item[i]) ELSE out[i - 1]
  IN  out[n]
=============================================================================
