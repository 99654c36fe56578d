---------------------------- MODULE ThreadQueue ----------------------------
(***************************************************************************)
(* SerialQueue and ConcurrentQueue of PerfectLib/ThreadQueue.swift, over   *)
(* Threading.Event of PerfectLib/Threading.swift.                          *)
(*                                                                         *)
(* Both classes run the same loop; they differ in the number of workers    *)
(* that startLoop creates (one, or max(4, processorCount)), here the size  *)
(* of Workers.  A critical section under the queue's lock is one action,   *)
(* except that wait() gives the lock up in the middle: a worker that finds *)
(* the queue empty parks, and reacquires the lock in a later step after a  *)
(* signal or a spurious wakeup, at which moment other threads may have     *)
(* emptied the queue again.                                                *)
(***************************************************************************)
EXTENDS Sequences, FiniteSets, Naturals

CONSTANTS Workers,  \* the threads startLoop creates
          Tasks,    \* the closures that are ever dispatched
          NoTask    \* "block == nil"

ASSUME WorkersAssumption == IsFiniteSet(Workers)
ASSUME NoTaskAssumption == NoTask \notin Tasks

VARIABLES
  q,       \* the closures in self.q
  pc,      \* where each worker is in its loop, see WorkerStates
  block,   \* the closure each worker has taken out of q
  ended    \* the closures that have returned

vars == <<q, pc, block, ended>>

(* "top":     about to lock at the head of the while loop                  *)
(* "parked":  in pthread_cond_wait, not yet signalled                      *)
(* "woken":   signalled, waiting for the lock so that wait() can return    *)
(* "running": outside the lock, inside b()                                 *)
WorkerStates == {"top", "parked", "woken", "running"}

Parked  == {w \in Workers : pc[w] = "parked"}
Awake   == {w \in Workers : pc[w] \in {"top", "woken"}}
Running == {w \in Workers : pc[w] = "running"}

Queued == {q[i] : i \in 1..Len(q)}
Held   == {block[w] : w \in Workers} \ {NoTask}

-----------------------------------------------------------------------------
(* startLoop: every worker thread enters its loop on an empty queue.       *)
Init ==
  /\ q = <<>>
  /\ pc = [w \in Workers |-> "top"]
  /\ block = [w \in Workers |-> NoTask]
  /\ ended = {}

(* Mutation: signal() forgotten.                                           *)
SignalNothing == UNCHANGED pc

(* Event.signal: at most one of the waiting threads is woken, any of them; *)
(* without a waiting thread the signal has no effect.                      *)
Signal ==
  IF Parked = {} THEN UNCHANGED pc
                 ELSE \E w \in Parked : pc' = [pc EXCEPT ![w] = "woken"]

(* dispatch: append and signal under one lock.  The caller is any thread,  *)
(* a worker's own closure included.                                        *)
Dispatch(t) ==
  /\ t \notin ended \cup Held \cup Queued
  /\ q' = Append(q, t)
  /\ Signal
  /\ UNCHANGED <<block, ended>>

(* Mutation: the newest closure is taken, not the oldest.                  *)
TakeLast(w) ==
  /\ pc[w] = "top"
  /\ q # <<>>
  /\ block' = [block EXCEPT ![w] = q[Len(q)]]
  /\ q' = SubSeq(q, 1, Len(q) - 1)
  /\ pc' = [pc EXCEPT ![w] = "running"]
  /\ UNCHANGED ended

(* Mutation: the first closure is read and not removed.                    *)
TakeAndKeep(w) ==
  /\ pc[w] = "top"
  /\ q # <<>>
  /\ block' = [block EXCEPT ![w] = Head(q)]
  /\ pc' = [pc EXCEPT ![w] = "running"]
  /\ UNCHANGED <<q, ended>>

(* The loop body when the queue is not empty: removeFirst under the lock,  *)
(* then b() outside it.                                                    *)
Take(w) ==
  /\ pc[w] = "top"
  /\ q # <<>>
  /\ block' = [block EXCEPT ![w] = Head(q)]
  /\ q' = Tail(q)
  /\ pc' = [pc EXCEPT ![w] = "running"]
  /\ UNCHANGED ended

(* The loop body when the queue is empty: wait() releases the lock and     *)
(* blocks.                                                                 *)
Park(w) ==
  /\ pc[w] = "top"
  /\ q = <<>>
  /\ pc' = [pc EXCEPT ![w] = "parked"]
  /\ UNCHANGED <<q, block, ended>>

(* pthread_cond_wait may return without a signal.                          *)
SpuriousWakeup(w) ==
  /\ pc[w] = "parked"
  /\ pc' = [pc EXCEPT ![w] = "woken"]
  /\ UNCHANGED <<q, block, ended>>

(* Mutation: a woken worker waits again without a new test of the queue.   *)
ReturnToWait(w) ==
  /\ pc[w] = "woken"
  /\ pc' = [pc EXCEPT ![w] = "parked"]
  /\ UNCHANGED <<q, block, ended>>

(* wait() returns with the lock held; block is still nil, so the loop      *)
(* unlocks, runs nothing and tests the queue again.                        *)
WaitReturns(w) ==
  /\ pc[w] = "woken"
  /\ pc' = [pc EXCEPT ![w] = "top"]
  /\ UNCHANGED <<q, block, ended>>

(* Mutation: block outlives the turn of the loop it was taken in.          *)
FinishKeepsBlock(w) ==
  /\ pc[w] = "running"
  /\ ended' = ended \cup {block[w]}
  /\ pc' = [pc EXCEPT ![w] = "top"]
  /\ UNCHANGED <<q, block>>

(* b() returns.                                                            *)
Finish(w) ==
  /\ pc[w] = "running"
  /\ ended' = ended \cup {block[w]}
  /\ block' = [block EXCEPT ![w] = NoTask]
  /\ pc' = [pc EXCEPT ![w] = "top"]
  /\ UNCHANGED q

(* One trip through the locked part of the loop.                           *)
Loop(w) == Take(w) \/ Park(w)

Next ==
  \/ \E t \in Tasks : Dispatch(t)
  \/ \E w \in Workers :
       Loop(w) \/ SpuriousWakeup(w) \/ WaitReturns(w) \/ Finish(w)

(* The threads are scheduled, the mutex is not withheld from one of them   *)
(* for ever, and the closures return.  Nobody has to dispatch, and no      *)
(* spurious wakeup is relied upon.                                         *)
Fairness ==
  \A w \in Workers :
    WF_vars(Loop(w)) /\ WF_vars(WaitReturns(w)) /\ WF_vars(Finish(w))

SafeSpec == Init /\ [][Next]_vars
Spec == SafeSpec /\ Fairness

-----------------------------------------------------------------------------
(* The types of the variables, and which of them hold a closure.           *)
TypeOK ==
  /\ q \in Seq(Tasks)
  /\ pc \in [Workers -> WorkerStates]
  /\ block \in [Workers -> Tasks \cup {NoTask}]
  /\ ended \subseteq Tasks
  /\ \A w \in Workers : block[w] # NoTask <=> pc[w] = "running"

(* A signal wakes one thread and is forgotten when nobody waits, and a     *)
(* woken thread competes for the lock with threads that come back from a   *)
(* closure.  Still no closure sits in the queue behind a sleeping worker:  *)
(* as long as some worker of startLoop is asleep, there is an awake worker *)
(* for every queued closure.                                               *)
NoClosureBehindSleeper ==
  Parked # {} => Len(q) <= Cardinality(Awake)

(* Each dispatched closure is in exactly one place: it is queued once, or  *)
(* run by one worker, or has ended (the removeFirst of several workers of  *)
(* a ConcurrentQueue never hands one closure out twice).                   *)
RunsOnce ==
  /\ \A i, j \in 1..Len(q) : q[i] = q[j] => i = j
  /\ \A v, w \in Running : block[v] = block[w] => v = w
  /\ Queued \cap Held = {}
  /\ ended \cap (Queued \cup Held) = {}

(* A worker that sleeps while there is work, or work that waits while a    *)
(* worker sleeps, never lasts: again and again the moment comes when every *)
(* closure that was dispatched so far has been run to its end.  Closures   *)
(* are finitely many here, so each of them is run.                         *)
DispatchedRuns == []<>(Queued \cup Held = {})

(* The queue is the TaskQueue it promises to be: first in, first out,      *)
(* work conserving, at most one closure per worker.                        *)
TQ == INSTANCE TaskQueue
        WITH Slots <- Workers, pending <- q, slot <- block, ended <- ended

Refinement == TQ!Spec
SafeRefinement == TQ!SafeSpec

=============================================================================
