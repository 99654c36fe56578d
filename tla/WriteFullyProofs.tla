-------------------------- MODULE WriteFullyProofs --------------------------
(***************************************************************************)
(* Theorems about ThreadQueue, for any finite set of workers and any set   *)
(* of closures, and about WriteFully, which puts writers on that queue,    *)
(* for any number of workers, writers, bytes and rounds: what writeFully   *)
(* returns is true to what was sent, and a writer that sleeps has          *)
(* something that will signal it.  (Whether a worker is free to run it is  *)
(* another matter, see run write_fully_full.)                              *)
(***************************************************************************)
EXTENDS WriteFully, TLAPS, FiniteSetTheorems

USE NoTaskAssumption

-----------------------------------------------------------------------------
(* Typing.                                                                  *)

LEMMA InitTyped == Init => TypeOK
  BY DEF Init, TypeOK, WorkerStates

LEMMA NextTyped == TypeOK /\ [Next]_vars => TypeOK'
<1> SUFFICES ASSUME TypeOK, [Next]_vars
             PROVE  TypeOK'
  OBVIOUS
<1> USE DEF TypeOK, WorkerStates
<1>1. CASE UNCHANGED vars
  BY <1>1 DEF vars
<1>2. ASSUME NEW t \in Tasks, Dispatch(t)
      PROVE  TypeOK'
  <2>1. pc' \in [Workers -> WorkerStates]
    BY <1>2 DEF Dispatch, Signal, Parked
  <2>2. ASSUME NEW w \in Workers
        PROVE  pc'[w] = "running" <=> pc[w] = "running"
    BY <1>2 DEF Dispatch, Signal, Parked
  <2> QED
    BY <1>2, <2>1, <2>2 DEF Dispatch
<1>3. ASSUME NEW w \in Workers, Take(w)
      PROVE  TypeOK'
  <2>1. Head(q) \in Tasks /\ Tail(q) \in Seq(Tasks)
    BY <1>3 DEF Take
  <2> QED
    BY <1>3, <2>1 DEF Take
<1>4. ASSUME NEW w \in Workers, Park(w)
      PROVE  TypeOK'
  BY <1>4 DEF Park
<1>5. ASSUME NEW w \in Workers, SpuriousWakeup(w)
      PROVE  TypeOK'
  BY <1>5 DEF SpuriousWakeup
<1>6. ASSUME NEW w \in Workers, WaitReturns(w)
      PROVE  TypeOK'
  BY <1>6 DEF WaitReturns
<1>7. ASSUME NEW w \in Workers, Finish(w)
      PROVE  TypeOK'
  BY <1>7 DEF Finish
<1> QED
  BY <1>1, <1>2, <1>3, <1>4, <1>5, <1>6, <1>7 DEF Next, Loop

(* The variables keep their types, and a worker holds a closure exactly    *)
(* while it is outside the lock in b().                                    *)
THEOREM Typing == SafeSpec => []TypeOK
<1>1. Init => TypeOK
  BY InitTyped
<1>2. TypeOK /\ [Next]_vars => TypeOK'
  BY NextTyped
<1> QED
  BY <1>1, <1>2, PTL DEF SafeSpec

-----------------------------------------------------------------------------
(* No closure behind a sleeping worker.                                     *)

LEMMA AwakeFinite == IsFiniteSet(Awake) /\ Cardinality(Awake) \in Nat
  BY WorkersAssumption, FS_Subset, FS_CardinalityType DEF Awake

LEMMA NextNoClosureBehindSleeper ==
  TypeOK /\ NoClosureBehindSleeper /\ [Next]_vars => NoClosureBehindSleeper'
<1> SUFFICES ASSUME TypeOK, NoClosureBehindSleeper, [Next]_vars
             PROVE  NoClosureBehindSleeper'
  OBVIOUS
<1> USE DEF TypeOK, NoClosureBehindSleeper
<1>a. IsFiniteSet(Awake) /\ Cardinality(Awake) \in Nat /\ Len(q) \in Nat
  BY AwakeFinite
<1>1. CASE UNCHANGED vars
  BY <1>1 DEF vars, Parked, Awake
<1>2. ASSUME NEW t \in Tasks, Dispatch(t)
      PROVE  NoClosureBehindSleeper'
  <2>1. Len(q') = Len(q) + 1
    BY <1>2 DEF Dispatch
  <2>2. CASE Parked = {}
    BY <1>2, <2>2 DEF Dispatch, Signal, Parked
  <2>3. CASE Parked # {}
    <3>1. PICK w \in Parked : pc' = [pc EXCEPT ![w] = "woken"]
      BY <1>2, <2>3 DEF Dispatch, Signal
    <3>2. Awake' = Awake \cup {w} /\ w \notin Awake
      BY <3>1 DEF Awake, Parked
    <3>3. Cardinality(Awake') = Cardinality(Awake) + 1
      BY <1>a, <3>2, FS_AddElement
    <3> QED
      BY <1>a, <2>1, <2>3, <3>3
  <2> QED
    BY <2>2, <2>3
<1>3. ASSUME NEW w \in Workers, Take(w)
      PROVE  NoClosureBehindSleeper'
  <2>1. Len(q') = Len(q) - 1
    BY <1>3 DEF Take
  <2>2. Awake' = Awake \ {w} /\ w \in Awake
    BY <1>3 DEF Take, Awake
  <2>3. Cardinality(Awake') = Cardinality(Awake) - 1
    BY <1>a, <2>2, FS_RemoveElement
  <2>4. Parked' = Parked
    BY <1>3 DEF Take, Parked
  <2> QED
    BY <1>a, <2>1, <2>3, <2>4
<1>4. ASSUME NEW w \in Workers, Park(w)
      PROVE  NoClosureBehindSleeper'
  <2>1. Len(q') = 0
    BY <1>4 DEF Park
  <2>2. IsFiniteSet(Awake') /\ Cardinality(Awake') \in Nat
    BY WorkersAssumption, FS_Subset, FS_CardinalityType DEF Awake
  <2> QED
    BY <2>1, <2>2
<1>5. ASSUME NEW w \in Workers, SpuriousWakeup(w)
      PROVE  NoClosureBehindSleeper'
  <2>1. Awake' = Awake \cup {w} /\ w \notin Awake
    BY <1>5 DEF SpuriousWakeup, Awake
  <2>2. Cardinality(Awake') = Cardinality(Awake) + 1
    BY <1>a, <2>1, FS_AddElement
  <2>3. w \in Parked /\ q' = q
    BY <1>5 DEF SpuriousWakeup, Parked
  <2> QED
    BY <1>a, <2>2, <2>3
<1>6. ASSUME NEW w \in Workers, WaitReturns(w)
      PROVE  NoClosureBehindSleeper'
  <2>1. Awake' = Awake /\ Parked' = Parked /\ q' = q
    BY <1>6 DEF WaitReturns, Awake, Parked
  <2> QED
    BY <2>1
<1>7. ASSUME NEW w \in Workers, Finish(w)
      PROVE  NoClosureBehindSleeper'
  <2>1. Awake' = Awake \cup {w} /\ w \notin Awake
    BY <1>7 DEF Finish, Awake
  <2>2. Cardinality(Awake') = Cardinality(Awake) + 1
    BY <1>a, <2>1, FS_AddElement
  <2>3. Parked' = Parked /\ q' = q
    BY <1>7 DEF Finish, Parked
  <2> QED
    BY <1>a, <2>2, <2>3
<1> QED
  BY <1>1, <1>2, <1>3, <1>4, <1>5, <1>6, <1>7 DEF Next, Loop

(* The signal protocol loses no wakeup that matters: while one worker      *)
(* sleeps in wait(), the queue holds at most one closure per awake worker. *)
THEOREM NoClosureWaitsBehindSleeper == SafeSpec => []NoClosureBehindSleeper
<1>1. Init => NoClosureBehindSleeper
  BY DEF Init, NoClosureBehindSleeper, Parked
<1>2. TypeOK /\ NoClosureBehindSleeper /\ [Next]_vars => NoClosureBehindSleeper'
  BY NextNoClosureBehindSleeper
<1> QED
  BY <1>1, <1>2, Typing, PTL DEF SafeSpec

-----------------------------------------------------------------------------
(* Every closure is in one place.                                           *)

LEMMA NextRunsOnce == TypeOK /\ RunsOnce /\ [Next]_vars => RunsOnce'
<1> SUFFICES ASSUME TypeOK, RunsOnce, [Next]_vars
             PROVE  RunsOnce'
  OBVIOUS
<1> USE DEF TypeOK
<1>1. ASSUME UNCHANGED <<q, block, ended>>, Running' = Running
      PROVE  RunsOnce'
  BY <1>1 DEF RunsOnce, Queued, Held
<1>2. ASSUME NEW t \in Tasks, Dispatch(t)
      PROVE  RunsOnce'
  <2>1. Running' = Running
    BY <1>2 DEF Dispatch, Signal, Running, Parked
  <2>2. Queued' = Queued \cup {t}
    BY <1>2 DEF Dispatch, Queued
  <2>3. Held' = Held
    BY <1>2 DEF Dispatch, Held
  <2>4. t \notin Queued /\ t \notin Held /\ t \notin ended
    BY <1>2 DEF Dispatch
  <2>5. \A i, j \in 1..Len(q') : q'[i] = q'[j] => i = j
    BY <1>2, <2>4 DEF Dispatch, Queued, RunsOnce
  <2>6. \A v, w \in Running' : block'[v] = block'[w] => v = w
    BY <1>2, <2>1 DEF Dispatch, RunsOnce
  <2> QED
    BY <1>2, <2>2, <2>3, <2>4, <2>5, <2>6 DEF Dispatch, RunsOnce
<1>3. ASSUME NEW w \in Workers, Take(w)
      PROVE  RunsOnce'
  <2>1. /\ Len(q) > 0
        /\ Len(q') = Len(q) - 1
        /\ \A i \in 1..Len(q') : q'[i] = q[i+1]
        /\ Head(q) = q[1]
    BY <1>3 DEF Take
  <2>2. Running' = Running \cup {w} /\ w \notin Running
    BY <1>3 DEF Take, Running
  <2>3. Head(q) \in Queued /\ Head(q) # NoTask
    BY <2>1 DEF Queued
  <2>4. Queued' = Queued \ {Head(q)}
    <3>1. ASSUME NEW i \in 1..Len(q')
          PROVE  q'[i] \in Queued \ {Head(q)}
      <4>1. q'[i] = q[i+1] /\ i+1 \in 1..Len(q) /\ i+1 # 1 /\ 1 \in 1..Len(q)
        BY <2>1
      <4> QED
        BY <2>1, <4>1 DEF Queued, RunsOnce
    <3>2. ASSUME NEW i \in 1..Len(q), q[i] # Head(q)
          PROVE  q[i] \in Queued'
      <4>1. i - 1 \in 1..Len(q') /\ q'[i-1] = q[i]
        BY <2>1, <3>2
      <4> QED
        BY <4>1 DEF Queued
    <3> QED
      BY <3>1, <3>2 DEF Queued
  <2>5. block[w] = NoTask
    BY <1>3 DEF Take
  <2>6. Held' = Held \cup {Head(q)}
    BY <1>3, <2>3, <2>5 DEF Take, Held
  <2>7. \A i, j \in 1..Len(q') : q'[i] = q'[j] => i = j
    BY <2>1 DEF RunsOnce
  <2>8. \A v \in Running : block[v] \in Held
    BY DEF Running, Held
  <2>9. \A u, v \in Running' : block'[u] = block'[v] => u = v
    <3>1. Head(q) \notin Held
      BY <2>3 DEF RunsOnce
    <3> QED
      BY <1>3, <2>2, <2>8, <3>1 DEF Take, RunsOnce, Running
  <2>10. ended' = ended
    BY <1>3 DEF Take
  <2> QED
    BY <2>3, <2>4, <2>6, <2>7, <2>9, <2>10 DEF RunsOnce
<1>4. ASSUME NEW w \in Workers, Finish(w)
      PROVE  RunsOnce'
  <2>1. Running' = Running \ {w} /\ w \in Running
    BY <1>4 DEF Finish, Running
  <2>2. Queued' = Queued /\ q' = q
    BY <1>4 DEF Finish, Queued
  <2>3. block[w] \in Held
    BY <2>1 DEF Held, Running
  <2>4. Held' = Held \ {block[w]}
    <3>1. ASSUME NEW v \in Workers, v # w, block[v] = block[w]
          PROVE  FALSE
      BY <2>1, <3>1 DEF Running, RunsOnce
    <3> QED
      BY <1>4, <2>3, <3>1 DEF Finish, Held
  <2>5. \A u, v \in Running' : block'[u] = block'[v] => u = v
    BY <1>4, <2>1 DEF Finish, RunsOnce, Running
  <2>6. ended' = ended \cup {block[w]}
    BY <1>4 DEF Finish
  <2> QED
    BY <2>2, <2>3, <2>4, <2>5, <2>6 DEF RunsOnce
<1>5. CASE UNCHANGED vars
  BY <1>1, <1>5 DEF vars, Running
<1>6. ASSUME NEW w \in Workers, Park(w) \/ SpuriousWakeup(w) \/ WaitReturns(w)
      PROVE  RunsOnce'
  BY <1>1, <1>6 DEF Park, SpuriousWakeup, WaitReturns, Running
<1> QED
  BY <1>2, <1>3, <1>4, <1>5, <1>6 DEF Next, Loop

(* However many workers share the queue, a dispatched closure is never     *)
(* handed out twice.                                                       *)
THEOREM ClosuresRunOnce == SafeSpec => []RunsOnce
<1>1. Init => RunsOnce
  BY DEF Init, RunsOnce, Running, Queued, Held
<1>2. TypeOK /\ RunsOnce /\ [Next]_vars => RunsOnce'
  BY NextRunsOnce
<1> QED
  BY <1>1, <1>2, Typing, PTL DEF SafeSpec

-----------------------------------------------------------------------------
(* Refinement.                                                              *)

LEMMA StepsImplement == TypeOK /\ [Next]_vars => [TQ!Next]_(TQ!vars)
<1> SUFFICES ASSUME TypeOK, [Next]_vars
             PROVE  TQ!Next \/ UNCHANGED TQ!vars
  OBVIOUS
<1> USE DEF TypeOK, TQ!vars
<1>1. ASSUME NEW t \in Tasks, Dispatch(t)
      PROVE  TQ!Submit(t)
  BY <1>1 DEF Dispatch, TQ!Submit, Held, Queued, TQ!Held, TQ!Waiting
<1>2. ASSUME NEW w \in Workers, Take(w)
      PROVE  TQ!Start(w)
  BY <1>2 DEF Take, TQ!Start
<1>3. ASSUME NEW w \in Workers, Finish(w)
      PROVE  TQ!End(w)
  BY <1>3 DEF Finish, TQ!End
<1>4. ASSUME NEW w \in Workers, Park(w) \/ SpuriousWakeup(w) \/ WaitReturns(w)
      PROVE  UNCHANGED TQ!vars
  BY <1>4 DEF Park, SpuriousWakeup, WaitReturns
<1>5. CASE UNCHANGED vars
  BY <1>5 DEF vars
<1> QED
  BY <1>1, <1>2, <1>3, <1>4, <1>5 DEF Next, Loop, TQ!Next

(* The lock, the condition variable and the worker threads implement the   *)
(* first-in first-out queue of TaskQueue: closures are started in the      *)
(* order of their dispatch, one per worker at a time.                      *)
THEOREM ImplementsTaskQueue == SafeSpec => SafeRefinement
<1>1. Init => TQ!Init
  BY DEF Init, TQ!Init
<1>2. TypeOK /\ [Next]_vars => [TQ!Next]_(TQ!vars)
  BY StepsImplement
<1> QED
  BY <1>1, <1>2, Typing, PTL DEF SafeSpec, SafeRefinement, TQ!SafeSpec

-----------------------------------------------------------------------------
(* Writers on the queue: WriteFully.                                       *)

(* The types of the writers' variables.                                    *)
WTypeOK ==
  /\ unsent \in [Writers -> Nat]
  /\ round \in [Writers -> 0..MaxRounds]
  /\ reg \in [Writers -> 0..MaxRounds]
  /\ step \in [Writers -> WriterSteps]
  /\ what \in [Writers -> {"None", "Write", "Error"}]
  /\ report \in [Wakeups -> {"None", "Write", "Error"}]
  /\ result \in [Writers -> {"none", "true", "false"}]

(* TrueMeansSent, with what makes it inductive: a writeFully that has not  *)
(* returned still has bytes to send.                                       *)
SentInv ==
  \A t \in Writers :
    IF step[t] = "returned" THEN result[t] = "true" <=> unsent[t] = 0
                            ELSE unsent[t] # 0

WIInv == TypeOK /\ WTypeOK /\ SentInv /\ SleepingWriterIsWatched

-----------------------------------------------------------------------------
LEMMA WInitWIInv == WInit => WIInv
<1> SUFFICES ASSUME WInit PROVE WIInv
  OBVIOUS
<1>1. TypeOK
  BY InitTyped DEF WInit
<1>2. WTypeOK
  BY LengthAssumption DEF WInit, WTypeOK, WriterSteps
<1>3. SentInv /\ SleepingWriterIsWatched
  BY LengthAssumption DEF WInit, SentInv, SleepingWriterIsWatched
<1> QED
  BY <1>1, <1>2, <1>3 DEF WIInv

(* The writers use the queue as ThreadQueue says.                          *)
LEMMA WNextIsNext == WTypeOK /\ [WNext]_allvars => [Next]_vars
<1> SUFFICES ASSUME WTypeOK, [WNext]_allvars PROVE [Next]_vars
  OBVIOUS
<1>1. ASSUME NEW t \in Tasks, Dispatch(t) PROVE Next
  BY <1>1 DEF Next
<1>2. ASSUME NEW w \in Workers, Loop(w) \/ WaitReturns(w) \/ SpuriousWakeup(w) \/ Finish(w)
      PROVE  Next
  BY <1>2 DEF Next
<1>3. ASSUME NEW t \in Writers, DispatchWriter(t) PROVE Next
  BY <1>1, <1>3, TasksAssumption DEF DispatchWriter
<1>4. ASSUME NEW t \in Writers, WriterStep(t) \/ SpuriousWake(t) PROVE UNCHANGED vars
  BY <1>4 DEF WriterStep, SpuriousWake, SendRest, SendFails, SendSome, TestWhat
<1>5. ASSUME NEW t \in Writers, NEW filter \in {"Write", "Error"}, Ready(t, filter)
      PROVE  Next
  <2>1. <<t, reg[t]>> \in Tasks
    <3>1. reg[t] \in 1..MaxRounds
      BY <1>5 DEF Ready, WTypeOK
    <3> QED
      BY <3>1, TasksAssumption DEF Wakeups
  <2> QED
    BY <1>1, <1>5, <2>1 DEF Ready
<1>6. ASSUME NEW w \in Workers,
             QueueStep(w) \/ Wake(w) \/ WriterEnds(w) \/ (SpuriousWakeup(w) /\ UNCHANGED wvars)
      PROVE  Next
  BY <1>2, <1>6 DEF QueueStep, Wake, WriterEnds
<1>7. CASE UNCHANGED allvars
  BY <1>7 DEF allvars
<1> QED
  BY <1>3, <1>4, <1>5, <1>6, <1>7 DEF WNext

-----------------------------------------------------------------------------
(* A closure leaves queue and workers only by its end.                     *)
LEMMA KeepsPlace ==
  ASSUME TypeOK, [Next]_vars, NEW k \in Queued \cup Held,
         \A w \in Workers : Finish(w) => block[w] # k
  PROVE  k \in (Queued \cup Held)'
<1> USE DEF TypeOK
<1>1. CASE UNCHANGED vars
  BY <1>1 DEF vars, Queued, Held
<1>2. ASSUME NEW t \in Tasks, Dispatch(t)
      PROVE  k \in (Queued \cup Held)'
  <2>1. block' = block /\ q' = Append(q, t)
    BY <1>2 DEF Dispatch
  <2>2. \A i \in 1..Len(q) : i \in 1..Len(q') /\ q'[i] = q[i]
    BY <2>1
  <2> QED
    BY <2>1, <2>2 DEF Queued, Held
<1>3. ASSUME NEW w \in Workers, Take(w)
      PROVE  k \in (Queued \cup Held)'
  <2>1. q # <<>> /\ q' = Tail(q) /\ block' = [block EXCEPT ![w] = q[1]] /\ block[w] = NoTask
    BY <1>3 DEF Take
  <2>2. CASE k \in Held
    BY <2>1, <2>2 DEF Held
  <2>3. CASE k \in Queued
    <3>1. PICK i \in 1..Len(q) : k = q[i]
      BY <2>3 DEF Queued
    <3>2. CASE i = 1
      <4>1. block'[w] = k /\ k # NoTask
        BY <2>1, <3>1, <3>2, NoTaskAssumption
      <4> QED
        BY <4>1 DEF Held
    <3>3. CASE i # 1
      <4>1. i - 1 \in 1..Len(q') /\ q'[i - 1] = q[i]
        BY <2>1, <3>3
      <4> QED
        BY <3>1, <4>1 DEF Queued
    <3> QED
      BY <3>2, <3>3
  <2> QED
    BY <2>2, <2>3
<1>4. ASSUME NEW w \in Workers, Park(w) \/ SpuriousWakeup(w) \/ WaitReturns(w)
      PROVE  k \in (Queued \cup Held)'
  BY <1>4 DEF Park, SpuriousWakeup, WaitReturns, Queued, Held
<1>5. ASSUME NEW w \in Workers, Finish(w)
      PROVE  k \in (Queued \cup Held)'
  <2>1. block[w] # k /\ q' = q /\ block' = [block EXCEPT ![w] = NoTask]
    BY <1>5 DEF Finish
  <2> QED
    BY <2>1 DEF Queued, Held
<1> QED
  BY <1>1, <1>2, <1>3, <1>4, <1>5 DEF Next, Loop

LEMMA DispatchPlaces ==
  ASSUME TypeOK, NEW t \in Tasks, Dispatch(t) PROVE t \in Queued'
<1>1. q \in Seq(Tasks) /\ q' = Append(q, t)
  BY DEF Dispatch, TypeOK
<1>2. Len(q) + 1 \in 1..Len(q') /\ q'[Len(q) + 1] = t
  BY <1>1
<1> QED
  BY <1>2 DEF Queued

-----------------------------------------------------------------------------
LEMMA NextWTypeOK == WTypeOK /\ [WNext]_allvars => WTypeOK'
<1> SUFFICES ASSUME WTypeOK, [WNext]_allvars PROVE WTypeOK'
  OBVIOUS
<1> USE LengthAssumption DEF WTypeOK, WriterSteps
<1>1. CASE UNCHANGED wvars
  BY <1>1 DEF wvars
<1>2. ASSUME NEW t \in Writers, SendRest(t) \/ SendFails(t) PROVE WTypeOK'
  BY <1>2 DEF SendRest, SendFails, Return
<1>3. ASSUME NEW t \in Writers, NEW n \in 0..(Length - 1), SendSome(t, n) PROVE WTypeOK'
  <2>1. unsent[t] - n \in Nat /\ round[t] + 1 \in 0..MaxRounds
    BY <1>3 DEF SendSome
  <2> QED
    BY <1>3, <2>1 DEF SendSome
<1>4. ASSUME NEW t \in Writers, TestWhat(t) \/ SpuriousWake(t) PROVE WTypeOK'
  <2>1. CASE SpuriousWake(t)
    BY <2>1 DEF SpuriousWake
  <2>2. CASE TestWhat(t)
    BY <2>2 DEF TestWhat, Return
  <2> QED
    BY <1>4, <2>1, <2>2
<1>5. ASSUME NEW t \in Writers, NEW filter \in {"Write", "Error"}, Ready(t, filter)
      PROVE  WTypeOK'
  <2>1. report' = [report EXCEPT ![<<t, reg[t]>>] = filter]
    BY <1>5 DEF Ready
  <2>2. report' \in [Wakeups -> {"None", "Write", "Error"}]
    BY <2>1
  <2>3. reg' \in [Writers -> 0..MaxRounds]
    BY <1>5 DEF Ready
  <2> QED
    BY <1>5, <2>2, <2>3 DEF Ready
<1>6. ASSUME NEW w \in Workers, Wake(w) PROVE WTypeOK'
  <2>1. PICK t \in Writers, i \in 1..MaxRounds : block[w] = <<t, i>>
    BY <1>6 DEF Wake, Wakeups
  <2> QED
    BY <1>6, <2>1 DEF Wake
<1>7. ASSUME NEW t \in Writers, DispatchWriter(t) PROVE WTypeOK'
  BY <1>1, <1>7 DEF DispatchWriter
<1>8. ASSUME NEW w \in Workers, QueueStep(w) \/ WriterEnds(w) PROVE WTypeOK'
  BY <1>1, <1>8 DEF QueueStep, WriterEnds
<1>9. CASE UNCHANGED allvars
  BY <1>1, <1>9 DEF allvars
<1> HIDE DEF WTypeOK
<1> QED
  BY <1>1, <1>2, <1>3, <1>4, <1>5, <1>6, <1>7, <1>8, <1>9 DEF WNext, WriterStep

LEMMA NextSentInv == WTypeOK /\ SentInv /\ [WNext]_allvars => SentInv'
<1> SUFFICES ASSUME WTypeOK, SentInv, [WNext]_allvars PROVE SentInv'
  OBVIOUS
<1> USE DEF WTypeOK, SentInv
<1>1. CASE UNCHANGED <<unsent, step, result>>
  BY <1>1
<1>2. ASSUME NEW t \in Writers, SendRest(t) \/ SendFails(t) PROVE SentInv'
  BY <1>2 DEF SendRest, SendFails, Return, InWriteFully
<1>3. ASSUME NEW t \in Writers, NEW n \in 0..(Length - 1), SendSome(t, n) PROVE SentInv'
  <2>1. unsent[t] - n # 0
    BY <1>3, LengthAssumption DEF SendSome
  <2> QED
    BY <1>3, <2>1 DEF SendSome, InWriteFully
<1>4. ASSUME NEW t \in Writers, TestWhat(t) PROVE SentInv'
  BY <1>4 DEF TestWhat, Return, InWriteFully
<1>5. ASSUME NEW t \in Writers, SpuriousWake(t) PROVE SentInv'
  BY <1>5 DEF SpuriousWake, InWriteFully
<1>6. ASSUME NEW w \in Workers, Wake(w) PROVE SentInv'
  <2>1. PICK t \in Writers, i \in 1..MaxRounds : block[w] = <<t, i>>
    BY <1>6 DEF Wake, Wakeups
  <2>2. step' = [step EXCEPT ![t] = IF @ = "asleep" THEN "test" ELSE @]
    BY <1>6, <2>1 DEF Wake
  <2>3. \A s \in Writers : step'[s] = "returned" <=> step[s] = "returned"
    BY <2>2
  <2> QED
    BY <1>6, <2>3 DEF Wake
<1>7. ASSUME NEW t \in Writers, NEW filter \in {"Write", "Error"}, Ready(t, filter)
      PROVE  SentInv'
  BY <1>1, <1>7 DEF Ready
<1>8. ASSUME NEW t \in Writers, DispatchWriter(t) PROVE SentInv'
  BY <1>1, <1>8 DEF DispatchWriter, wvars
<1>9. ASSUME NEW w \in Workers, QueueStep(w) \/ WriterEnds(w) PROVE SentInv'
  BY <1>1, <1>9 DEF QueueStep, WriterEnds, wvars
<1>10. CASE UNCHANGED allvars \/ UNCHANGED wvars
  BY <1>1, <1>10 DEF allvars, wvars
<1> HIDE DEF WTypeOK, SentInv
<1> QED
  BY <1>2, <1>3, <1>4, <1>5, <1>6, <1>7, <1>8, <1>9, <1>10 DEF WNext, WriterStep

LEMMA NextWatchedWriter ==
  TypeOK /\ WTypeOK /\ SleepingWriterIsWatched /\ [WNext]_allvars
    => SleepingWriterIsWatched'
<1> SUFFICES ASSUME TypeOK, WTypeOK, SleepingWriterIsWatched, [WNext]_allvars,
                    NEW s \in Writers, step'[s] = "asleep"
             PROVE  reg'[s] # 0 \/ OnTheWay(s)'
  BY DEF SleepingWriterIsWatched
<1>0. [Next]_vars
  BY WNextIsNext
<1> USE DEF WTypeOK
(* A step that leaves s asleep and ends no callback of s.                  *)
<1>1. ASSUME step[s] = "asleep", reg'[s] = reg[s],
             \A w \in Workers, i \in 1..MaxRounds : Finish(w) => block[w] # <<s, i>>
      PROVE  reg'[s] # 0 \/ OnTheWay(s)'
  <2>1. CASE reg[s] # 0
    BY <1>1, <2>1
  <2>2. CASE OnTheWay(s)
    <3>1. PICK i \in 1..MaxRounds : <<s, i>> \in Queued \cup Held
      BY <2>2 DEF OnTheWay
    <3>2. <<s, i>> \in (Queued \cup Held)'
      BY <1>0, <1>1, <3>1, KeepsPlace
    <3> QED
      BY <3>2 DEF OnTheWay
  <2> QED
    BY <1>1, <2>1, <2>2 DEF SleepingWriterIsWatched
(* No closure ends: none leaves its worker, or one leaves the queue.       *)
<1>2. CASE step[s] = "asleep" /\ reg'[s] = reg[s] /\ (block' = block \/ q' # q)
  <2>1. ASSUME NEW w \in Workers, NEW i \in 1..MaxRounds, Finish(w)
        PROVE  block[w] # <<s, i>>
    <3>1. block[w] \in Tasks /\ block'[w] = NoTask /\ q' = q
      BY <2>1 DEF Finish, TypeOK
    <3> QED
      BY <1>2, <3>1, NoTaskAssumption
  <2> QED
    BY <1>1, <1>2, <2>1
(* The closure of w ends, and it is no callback of s.                      *)
<1>3. ASSUME step[s] = "asleep", reg'[s] = reg[s], NEW w \in Workers, Finish(w),
             \A i \in 1..MaxRounds : block[w] # <<s, i>>
      PROVE  reg'[s] # 0 \/ OnTheWay(s)'
  <2>1. ASSUME NEW v \in Workers, Finish(v)
        PROVE  v = w
    BY <1>3, <2>1 DEF Finish, TypeOK
  <2> QED
    BY <1>1, <1>3, <2>1
<1>4. CASE UNCHANGED allvars
  BY <1>2, <1>4 DEF allvars, wvars, vars
<1>5. ASSUME NEW t \in Writers, DispatchWriter(t)
      PROVE  reg'[s] # 0 \/ OnTheWay(s)'
  BY <1>2, <1>5 DEF DispatchWriter, Dispatch, wvars
<1>6. ASSUME NEW t \in Writers, WriterStep(t) \/ SpuriousWake(t)
      PROVE  reg'[s] # 0 \/ OnTheWay(s)'
  <2>1. UNCHANGED vars
    BY <1>6 DEF WriterStep, SpuriousWake, SendRest, SendFails, SendSome, TestWhat
  <2>2. CASE SendRest(t) \/ SendFails(t) \/ TestWhat(t) \/ SpuriousWake(t)
    <3>1. step[s] = "asleep" /\ reg' = reg
      BY <2>2 DEF SendRest, SendFails, TestWhat, SpuriousWake, Return
    <3> QED
      BY <1>2, <2>1, <3>1 DEF vars
  <2>3. ASSUME NEW n \in 0..(Length - 1), SendSome(t, n)
        PROVE  reg'[s] # 0 \/ OnTheWay(s)'
    <3>1. CASE t = s
      <4>1. reg'[s] = round[s] + 1 /\ round[s] \in Nat
        BY <2>3, <3>1 DEF SendSome
      <4> QED
        BY <4>1
    <3>2. CASE t # s
      <4>1. step[s] = "asleep" /\ reg'[s] = reg[s]
        BY <2>3, <3>2 DEF SendSome
      <4> QED
        BY <1>2, <2>1, <4>1 DEF vars
    <3> QED
      BY <3>1, <3>2
  <2> QED
    BY <1>6, <2>2, <2>3 DEF WriterStep
<1>7. ASSUME NEW t \in Writers, NEW filter \in {"Write", "Error"}, Ready(t, filter)
      PROVE  reg'[s] # 0 \/ OnTheWay(s)'
  <2>1. step[s] = "asleep" /\ block' = block
    BY <1>7 DEF Ready, Dispatch
  <2>2. CASE t = s
    <3>1. reg[s] \in 1..MaxRounds
      BY <1>7, <2>2 DEF Ready
    <3>2. <<s, reg[s]>> \in Tasks
      BY <3>1, TasksAssumption DEF Wakeups
    <3>3. <<s, reg[s]>> \in Queued'
      BY <1>7, <2>2, <3>2, DispatchPlaces DEF Ready
    <3> QED
      BY <3>1, <3>3 DEF OnTheWay
  <2>3. CASE t # s
    <3>1. reg'[s] = reg[s]
      BY <1>7, <2>3 DEF Ready
    <3> QED
      BY <1>2, <2>1, <3>1
  <2> QED
    BY <2>2, <2>3
<1>8. ASSUME NEW w \in Workers, Wake(w)
      PROVE  reg'[s] # 0 \/ OnTheWay(s)'
  <2>1. PICK t \in Writers, i \in 1..MaxRounds : block[w] = <<t, i>>
    BY <1>8 DEF Wake, Wakeups
  <2>2. step' = [step EXCEPT ![t] = IF @ = "asleep" THEN "test" ELSE @]
    BY <1>8, <2>1 DEF Wake
  <2>3. t # s /\ step[s] = "asleep"
    BY <2>2
  <2>4. \A j \in 1..MaxRounds : block[w] # <<s, j>>
    BY <2>1, <2>3
  <2> QED
    BY <1>3, <1>8, <2>3, <2>4 DEF Wake
<1>9. ASSUME NEW w \in Workers, WriterEnds(w)
      PROVE  reg'[s] # 0 \/ OnTheWay(s)'
  <2>1. \A i \in 1..MaxRounds : block[w] # <<s, i>>
    <3>1. \A i \in 1..MaxRounds : <<s, i>> \notin Writers
      BY TasksAssumption DEF Wakeups
    <3> QED
      BY <1>9, <3>1 DEF WriterEnds
  <2> QED
    BY <1>3, <1>9, <2>1 DEF WriterEnds, wvars
<1>10. ASSUME NEW w \in Workers, QueueStep(w) \/ (SpuriousWakeup(w) /\ UNCHANGED wvars)
      PROVE  reg'[s] # 0 \/ OnTheWay(s)'
  <2>1. step[s] = "asleep" /\ reg'[s] = reg[s]
    BY <1>10 DEF QueueStep, wvars
  <2>2. CASE Take(w)
    <3>1. Len(q') # Len(q)
      BY <2>2 DEF Take, TypeOK
    <3> QED
      BY <1>2, <2>1, <3>1
  <2>3. CASE Park(w) \/ WaitReturns(w) \/ SpuriousWakeup(w)
    BY <1>2, <2>1, <2>3 DEF Park, WaitReturns, SpuriousWakeup
  <2> QED
    BY <1>10, <2>2, <2>3 DEF QueueStep, Loop
<1> HIDE DEF WTypeOK
<1> QED
  BY <1>4, <1>5, <1>6, <1>7, <1>8, <1>9, <1>10 DEF WNext

LEMMA WritersKeep == WSafeSpec => []WIInv
<1>1. WIInv /\ [WNext]_allvars => WIInv'
  BY WNextIsNext, NextTyped, NextWTypeOK, NextSentInv, NextWatchedWriter DEF WIInv
<1> QED
  BY <1>1, WInitWIInv, PTL DEF WSafeSpec

-----------------------------------------------------------------------------
(* The writers and their callbacks are users of the default queue like any *)
(* other: what is proved of ThreadQueue holds of it here.                  *)
THEOREM WritersUseQueue == WSafeSpec => SafeSpec
<1>1. WInit => Init
  BY DEF WInit
<1>2. WIInv /\ [WNext]_allvars => [Next]_vars
  BY WNextIsNext DEF WIInv
<1> QED
  BY <1>1, <1>2, WritersKeep, PTL DEF WSafeSpec, SafeSpec

(* writeFully returns true exactly when all bytes were sent, though        *)
(* callbacks of earlier rounds overwrite what.                             *)
THEOREM TrueIsSent == WSafeSpec => []TrueMeansSent
<1>1. WIInv => TrueMeansSent
  BY DEF WIInv, SentInv, TrueMeansSent
<1> QED
  BY <1>1, WritersKeep, PTL

(* A writer that sleeps in s.wait is registered with NetEvent, or the      *)
(* callback that will signal it is in the queue or on a worker.            *)
THEOREM SleepersAreWatched == WSafeSpec => []SleepingWriterIsWatched
<1>1. WIInv => SleepingWriterIsWatched
  BY DEF WIInv
<1> QED
  BY <1>1, WritersKeep, PTL

=============================================================================
