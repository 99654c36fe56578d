------------------------------- MODULE Totals -------------------------------
(***************************************************************************)
(* The total of a sequence of numbers, and a sequence of sequences put     *)
(* together, as recursive functions, which TLAPS can reason about.         *)
(***************************************************************************)
EXTENDS Naturals, Sequences

Total(q) ==
  LET sum[n \in 0..Len(q)] == IF n = 0 THEN 0 ELSE sum[n - 1] + q[n]
  IN  sum[Len(q)]

Joined(ss) ==
  LET join[n \in 0..Len(ss)] == IF n = 0 THEN <<>> ELSE join[n - 1] \o ss[n]
  IN  join[Len(ss)]

=============================================================================
