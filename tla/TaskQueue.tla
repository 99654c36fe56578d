----------------------------- MODULE TaskQueue -----------------------------
(***************************************************************************)
(* What a Threading queue promises to the code that dispatches on it       *)
(* (PerfectLib/ThreadQueue.swift): closures are started in the order in    *)
(* which they were dispatched, each of them once, on as many of them at a  *)
(* time as the queue has worker slots (one for a serial queue), and a      *)
(* closure is never left waiting while a slot is free.                     *)
(*                                                                         *)
(* Nothing here knows of locks, condition variables or threads: those are  *)
(* in ThreadQueue, which implements this specification.                    *)
(***************************************************************************)
EXTENDS Naturals, Sequences

CONSTANTS Slots,    \* how many closures may run at once
          Tasks,    \* the closures that are ever dispatched
          NoTask    \* what an unused slot holds

VARIABLES pending,  \* dispatched and not yet started, oldest first
          slot,     \* slot[s]: the closure running in s, or NoTask
          ended     \* the closures that have returned

vars == <<pending, slot, ended>>

Held == {slot[s] : s \in Slots} \ {NoTask}

Waiting == {pending[i] : i \in 1..Len(pending)}

Init ==
  /\ pending = <<>>
  /\ slot = [s \in Slots |-> NoTask]
  /\ ended = {}

(* Any thread hands over a closure that was not handed over before.        *)
Submit(t) ==
  /\ t \notin ended \cup Held \cup Waiting
  /\ pending' = Append(pending, t)
  /\ UNCHANGED <<slot, ended>>

(* The oldest waiting closure starts in a free slot.                       *)
Start(s) ==
  /\ pending # <<>>
  /\ slot[s] = NoTask
  /\ slot' = [slot EXCEPT ![s] = Head(pending)]
  /\ pending' = Tail(pending)
  /\ UNCHANGED ended

(* A running closure returns and frees its slot.                           *)
End(s) ==
  /\ slot[s] # NoTask
  /\ ended' = ended \cup {slot[s]}
  /\ slot' = [slot EXCEPT ![s] = NoTask]
  /\ UNCHANGED pending

Next ==
  \/ \E t \in Tasks : Submit(t)
  \/ \E s \in Slots : Start(s) \/ End(s)

(* Work conservation: a free slot and a waiting closure do not stay side   *)
(* by side for ever, and closures that return free their slots.            *)
Fairness ==
  /\ WF_vars(\E s \in Slots : Start(s))
  /\ \A s \in Slots : WF_vars(End(s))

SafeSpec == Init /\ [][Next]_vars
Spec == SafeSpec /\ Fairness

=============================================================================
