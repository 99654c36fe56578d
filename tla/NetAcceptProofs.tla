-------------------------- MODULE NetAcceptProofs --------------------------
(***************************************************************************)
(* Theorems about NetAccept: type correctness, and that the accepting      *)
(* thread never sleeps on an open socket without somebody who will wake    *)
(* it, for any number of callbacks that run at once.                       *)
(***************************************************************************)
EXTENDS NetAccept, TLAPS

(* forEachAccept has returned before start's own close begins.             *)
StartClosesLast == spc["start"] # "idle" => pc = "returned"

(* A closer that looks at the semaphore has invalidated the descriptor.    *)
InvalidBeforeSemaphore == \A s \in Closers : spc[s] = "semtest" => fd = "invalid"

(* The kernel's socket is closed a step before the field says so.          *)
ClosedIsInvalidated ==
  sock = "closed" /\ fd = "listening" => \E s \in Closers : spc[s] = "invalidate"

(* What SleeperIsWatched says of a thread that sleeps holds one step       *)
(* earlier, when it is about to, because it has the lock by then.          *)
Cared ==
  \/ reg = "watched"
  \/ \E s \in Signalers : Signalling(s)
  \/ \E s \in Closers : Closing(s)
WatchedBeforeSleep == pc \in {"wait", "parked"} /\ fd = "listening" => Cared

IInv ==
  /\ TypeOK
  /\ StartClosesLast
  /\ InvalidBeforeSemaphore
  /\ ClosedIsInvalidated
  /\ WatchedBeforeSleep

-----------------------------------------------------------------------------
(* The lock's holder is a thread or nobody, and these differ.              *)
LEMMA Names ==
  /\ "acceptor" \notin Signalers /\ "nobody" \notin Signalers
  /\ Closers \subseteq Signalers /\ Callbacks \subseteq Signalers
  /\ "stop" \in Closers /\ "start" \in Closers
  BY CallbacksAssumption DEF Signalers, Closers

LEMMA InitIInv == Init => IInv
<1> SUFFICES ASSUME Init PROVE IInv
  OBVIOUS
<1>1. TypeOK
  BY Names DEF Init, TypeOK, Steps, SignalSteps, Alive
<1>2. StartClosesLast /\ InvalidBeforeSemaphore /\ ClosedIsInvalidated /\ WatchedBeforeSleep
  BY Names DEF Init, StartClosesLast, InvalidBeforeSemaphore, ClosedIsInvalidated,
     WatchedBeforeSleep
<1> QED
  BY <1>1, <1>2 DEF IInv

-----------------------------------------------------------------------------
LEMMA NextTyped == TypeOK /\ StartClosesLast /\ [Next]_vars => TypeOK'
<1> SUFFICES ASSUME TypeOK, StartClosesLast, [Next]_vars
             PROVE  TypeOK'
  OBVIOUS
<1> USE Names DEF TypeOK, Steps, SignalSteps, Alive, Goto, GotoS, At, AtS, fields, kernel
<1>1. ASSUME NEW c \in Conns, Arrive(c)
      PROVE  TypeOK'
  BY <1>1 DEF Arrive
<1>2. ASSUME NEW k \in Callbacks, Event(k)
      PROVE  TypeOK'
  BY <1>2 DEF Event
<1>3. CASE Enter
  BY <1>3 DEF Enter
<1>4. ASSUME NEW c \in Conns, TryAccept(c)
      PROVE  TypeOK'
  BY <1>4 DEF TryAccept
<1>5. CASE TryAgain \/ TryFails
  BY <1>5 DEF TryAgain, TryFails
<1>6. CASE Lock
  BY <1>6 DEF Lock
<1>7. CASE WaitAccept
  BY <1>7 DEF WaitAccept
<1>8. CASE Wait
  BY <1>8 DEF Wait
<1>9. CASE WaitReturns \/ SpuriousWakeup
  BY <1>9 DEF WaitReturns, SpuriousWakeup
<1>10. CASE Test
  BY <1>10 DEF Test
<1>11. CASE Leave
  BY <1>11 DEF Leave, StartClosesLast
<1>12. CASE Stop
  BY <1>12 DEF Stop
<1>13. ASSUME NEW s \in Closers, Closer(s)
       PROVE  TypeOK'
  BY <1>13 DEF Closer, CheckOpen, Shutdown, CloseFd, Invalidate, TestSemaphore
<1>14. ASSUME NEW s \in Signalers, BeginLock(s)
       PROVE  TypeOK'
  <2>1. CASE s \in Callbacks /\ ~Alive
    <3>1. s \notin {"start", "stop"}
      BY <2>1, CallbacksAssumption
    <3>2. ~Alive'
      BY <1>14, <2>1, <3>1 DEF BeginLock, Unwrap
    <3> QED
      BY <1>14, <2>1, <3>2 DEF BeginLock, Unwrap
  <2>2. CASE ~(s \in Callbacks /\ ~Alive) /\ semaphore = "nil"
    BY <1>14, <2>2 DEF BeginLock, Unwrap
  <2>3. CASE ~(s \in Callbacks /\ ~Alive) /\ semaphore # "nil"
    BY <1>14, <2>3 DEF BeginLock, Unwrap
  <2> QED
    BY <2>1, <2>2, <2>3
<1>15. ASSUME NEW s \in Signalers, Acquire(s)
       PROVE  TypeOK'
  BY <1>15 DEF Acquire
<1>16. ASSUME NEW s \in Signalers, Signal(s)
       PROVE  TypeOK'
  BY <1>16 DEF Signal, Unwrap
<1>17. ASSUME NEW s \in Signalers, Unlock(s)
       PROVE  TypeOK'
  BY <1>17 DEF Unlock, Unwrap
<1>18. CASE UNCHANGED vars
  BY <1>18 DEF vars
<1> HIDE DEF TypeOK
<1> QED
  BY <1>1, <1>2, <1>3, <1>4, <1>5, <1>6, <1>7, <1>8, <1>9, <1>10, <1>11, <1>12, <1>13,
     <1>14, <1>15, <1>16, <1>17, <1>18 DEF Next, Acceptor, Signaler

-----------------------------------------------------------------------------
(* The three facts about close.                                            *)
LEMMA NextCloses ==
  TypeOK /\ StartClosesLast /\ InvalidBeforeSemaphore /\ ClosedIsInvalidated /\ [Next]_vars
    => (StartClosesLast /\ InvalidBeforeSemaphore /\ ClosedIsInvalidated)'
<1> SUFFICES ASSUME TypeOK, StartClosesLast, InvalidBeforeSemaphore, ClosedIsInvalidated,
                    [Next]_vars
             PROVE  (StartClosesLast /\ InvalidBeforeSemaphore /\ ClosedIsInvalidated)'
  OBVIOUS
<1> USE Names DEF TypeOK, StartClosesLast, InvalidBeforeSemaphore, ClosedIsInvalidated,
                  Goto, GotoS, At, AtS, fields, kernel
<1> DEFINE Same == UNCHANGED <<fd, sock, spc>>
<1>1. ASSUME Same, pc' = pc \/ pc # "returned"
      PROVE  (StartClosesLast /\ InvalidBeforeSemaphore /\ ClosedIsInvalidated)'
  BY <1>1
<1>2. ASSUME NEW c \in Conns, Arrive(c)
      PROVE  (StartClosesLast /\ InvalidBeforeSemaphore /\ ClosedIsInvalidated)'
  BY <1>2, <1>1 DEF Arrive
<1>3. ASSUME NEW k \in Callbacks, Event(k)
      PROVE  (StartClosesLast /\ InvalidBeforeSemaphore /\ ClosedIsInvalidated)'
  <2>1. k \notin Closers
    BY CallbacksAssumption DEF Closers
  <2> QED
    BY <1>3, <2>1 DEF Event
<1>4. CASE Acceptor /\ ~Leave
  BY <1>4, <1>1 DEF Acceptor, Enter, TryAccept, TryAgain, TryFails, Lock, WaitAccept, Wait,
     WaitReturns, Test
<1>5. CASE Leave
  BY <1>5 DEF Leave
<1>6. CASE SpuriousWakeup
  BY <1>6, <1>1 DEF SpuriousWakeup
<1>7. CASE Stop
  BY <1>7 DEF Stop
<1>8. ASSUME NEW s \in Closers, Closer(s)
      PROVE  (StartClosesLast /\ InvalidBeforeSemaphore /\ ClosedIsInvalidated)'
  <2>1. CASE CheckOpen(s)
    BY <2>1 DEF CheckOpen
  <2>2. CASE Shutdown(s)
    BY <2>2 DEF Shutdown
  <2>3. CASE CloseFd(s)
    BY <2>3 DEF CloseFd
  <2>4. CASE Invalidate(s)
    BY <2>4 DEF Invalidate
  <2>5. CASE TestSemaphore(s)
    BY <2>5 DEF TestSemaphore
  <2> QED
    BY <1>8, <2>1, <2>2, <2>3, <2>4, <2>5 DEF Closer
<1>9. ASSUME NEW s \in Signalers, Signaler(s)
      PROVE  (StartClosesLast /\ InvalidBeforeSemaphore /\ ClosedIsInvalidated)'
  <2>1. CASE BeginLock(s)
    BY <2>1 DEF BeginLock, Unwrap
  <2>2. CASE Acquire(s)
    BY <2>2 DEF Acquire
  <2>3. CASE Signal(s)
    BY <2>3 DEF Signal, Unwrap
  <2>4. CASE Unlock(s)
    BY <2>4 DEF Unlock, Unwrap
  <2> QED
    BY <1>9, <2>1, <2>2, <2>3, <2>4 DEF Signaler
<1>10. CASE UNCHANGED vars
  BY <1>10, <1>1 DEF vars
<1> QED
  BY <1>2, <1>3, <1>4, <1>5, <1>6, <1>7, <1>8, <1>9, <1>10 DEF Next

-----------------------------------------------------------------------------
(* No step takes away the last one who cares for a thread that sleeps, or  *)
(* is about to, on an open socket.                                         *)
LEMMA NextWatched == IInv /\ [Next]_vars => WatchedBeforeSleep'
<1> SUFFICES ASSUME IInv, [Next]_vars, pc' \in {"wait", "parked"}, fd' = "listening"
             PROVE  Cared'
  BY DEF WatchedBeforeSleep
<1> USE Names DEF IInv, TypeOK, Goto, GotoS, At, AtS, fields, kernel
<1>1. Cared <=>
        \/ reg = "watched"
        \/ \E s \in Signalers : spc[s] \in {"lock", "acquire", "signal"}
        \/ \E s \in Closers :
             spc[s] \in {"check", "shutdown", "close", "invalidate", "semtest"}
  BY DEF Cared, Signalling, Closing
<1>2. Cared' <=>
        \/ reg' = "watched"
        \/ \E s \in Signalers : spc'[s] \in {"lock", "acquire", "signal"}
        \/ \E s \in Closers :
             spc'[s] \in {"check", "shutdown", "close", "invalidate", "semtest"}
  BY DEF Cared, Signalling, Closing
<1>3. ASSUME pc \in {"wait", "parked"}, fd = "listening", UNCHANGED <<reg, spc>>
      PROVE  Cared'
  BY <1>3, <1>1, <1>2 DEF WatchedBeforeSleep
<1>4. ASSUME NEW c \in Conns, Arrive(c)
      PROVE  Cared'
  BY <1>4, <1>3 DEF Arrive
<1>5. ASSUME NEW k \in Callbacks, Event(k)
      PROVE  Cared'
  BY <1>5, <1>2 DEF Event
<1>6. CASE Acceptor /\ ~WaitAccept
  BY <1>6, <1>3, <1>2 DEF Acceptor, Enter, TryAccept, TryAgain, TryFails, Lock, Wait,
     WaitReturns, Test, Leave
<1>7. CASE WaitAccept
  BY <1>7, <1>2 DEF WaitAccept, ClosedIsInvalidated
<1>8. CASE SpuriousWakeup
  BY <1>8 DEF SpuriousWakeup
<1>9. CASE Stop
  BY <1>9, <1>2 DEF Stop
<1>10. ASSUME NEW s \in Closers, Closer(s)
       PROVE  Cared'
  <2>1. CASE CheckOpen(s)
    BY <2>1, <1>2 DEF CheckOpen
  <2>2. CASE Shutdown(s)
    BY <2>2, <1>2 DEF Shutdown
  <2>3. CASE CloseFd(s)
    BY <2>3, <1>2 DEF CloseFd
  <2>4. CASE Invalidate(s)
    BY <2>4 DEF Invalidate
  <2>5. CASE TestSemaphore(s)
    BY <2>5 DEF TestSemaphore, InvalidBeforeSemaphore
  <2> QED
    BY <1>10, <2>1, <2>2, <2>3, <2>4, <2>5 DEF Closer
<1>11. ASSUME NEW s \in Signalers, Signaler(s)
       PROVE  Cared'
  <2>1. Alive
    BY <1>11 DEF Alive, StartClosesLast, Signaler, BeginLock, Acquire, Signal, Unlock
  <2>2. pc \in {"wait", "parked"} /\ fd = "listening" /\ reg' = reg
    BY <1>11 DEF Signaler, BeginLock, Acquire, Signal, Unlock
  <2>3. CASE BeginLock(s)
    BY <2>1, <2>3, <1>2 DEF BeginLock, Unwrap
  <2>4. CASE Acquire(s)
    BY <2>4, <1>2 DEF Acquire
  <2>5. CASE Signal(s)
    <3>1. pc = "parked" /\ (trapped' \/ pc' = "woken")
      BY <2>1, <2>2, <2>5 DEF Signal, Unwrap
    <3>2. UNCHANGED <<spc, reg>>
      BY <3>1, <2>1, <2>5 DEF Signal, Unwrap
    <3> QED
      BY <3>2, <2>2, <1>3
  <2>6. CASE Unlock(s)
    BY <2>1, <2>2, <2>6, <1>1, <1>2 DEF Unlock, Unwrap, WatchedBeforeSleep
  <2> QED
    BY <1>11, <2>3, <2>4, <2>5, <2>6 DEF Signaler
<1>12. CASE UNCHANGED vars
  BY <1>12, <1>3 DEF vars
<1> QED
  BY <1>4, <1>5, <1>6, <1>7, <1>8, <1>9, <1>10, <1>11, <1>12 DEF Next

-----------------------------------------------------------------------------
(* forEachAccept (NetTCP.swift:526) never sleeps on its semaphore while    *)
(* the socket is open, unless NetEvent watches the socket or a callback or *)
(* a close is on its way to the signal; with the types of all variables,   *)
(* and the lock held by who is between its lock and unlock.                *)
THEOREM AcceptorSleepsWatched == SafeSpec => [](TypeOK /\ SleeperIsWatched)
<1>1. Init => IInv
  BY InitIInv
<1>2. IInv /\ [Next]_vars => IInv'
  BY NextTyped, NextCloses, NextWatched DEF IInv
<1>3. IInv => TypeOK /\ SleeperIsWatched
  BY DEF IInv, WatchedBeforeSleep, Cared, SleeperIsWatched
<1> QED
  BY <1>1, <1>2, <1>3, PTL DEF SafeSpec

=============================================================================
