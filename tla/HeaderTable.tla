---------------------------- MODULE HeaderTable ----------------------------
(***************************************************************************)
(* What a table of recent header fields promises (the dynamic table of     *)
(* HPACK): first in, first out, the newest field has index 1, and the      *)
(* oldest ones go as soon as the sizes add up to more than the limit.      *)
(***************************************************************************)
EXTENDS Totals, SequencesExt

CONSTANT SizeOf(_)      \* the size of a header field

VARIABLES entries,   \* newest first
          limit

vars == <<entries, limit>>

SizeOfAll(s) == Total([i \in DOMAIN s |-> SizeOf(s[i])])

(* The newest entries that have room in n.                                 *)
Fit(s, n) ==
  LET fitting == {k \in 0..Len(s) : SizeOfAll(SubSeq(s, 1, k)) <= n}
  IN  SubSeq(s, 1, CHOOSE k \in fitting : \A j \in fitting : j <= k)

Init ==
  /\ entries = <<>>
  /\ limit \in Nat

Insert(f) ==
  /\ entries' = IF SizeOf(f) > limit THEN <<>>
                ELSE <<f>> \o Fit(entries, limit - SizeOf(f))
  /\ UNCHANGED limit

Resize(n) ==
  /\ limit' = n
  /\ entries' = Fit(entries, n)

Clear ==
  /\ entries' = <<>>
  /\ UNCHANGED limit

(* Any field may come, and any limit.                                      *)
Next ==
  \/ entries' # <<>> /\ Insert(Head(entries'))
  \/ limit' \in Nat /\ Resize(limit')
  \/ Clear

Spec == Init /\ [][Next]_vars

=============================================================================
