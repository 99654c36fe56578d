----------------------------- MODULE NetAccept -----------------------------
(***************************************************************************)
(* NetTCP.forEachAccept and NetTCP.close (PerfectLib/NetTCP.swift) as      *)
(* HTTPServer.start and HTTPServer.stop (PerfectLib/HTTPServer.swift) use  *)
(* them: one thread is inside start, another may call stop.                *)
(*                                                                         *)
(* The accepting thread takes connections until accept says EAGAIN, then   *)
(* registers the socket with NetEvent and sleeps on the object's semaphore *)
(* (a Threading.Event), from which the event callback or close wakes it.   *)
(* The two fields fd and semaphore are read and written by three kinds of  *)
(* threads; the semaphore's lock orders only its signals and waits, so the *)
(* steps between two lock operations are actions of their own.             *)
(*                                                                         *)
(* NetEvent is reduced to what it promises one socket (module NetEvent):   *)
(* a registration is answered at most once, and a registration of a        *)
(* descriptor that is closed, or of -1, is never answered.                 *)
(***************************************************************************)
EXTENDS Naturals, FiniteSets

CONSTANTS
  Conns,       \* the connections clients ever open
  Callbacks,   \* queue workers that can run the callback at the same time
  MayFail      \* whether accept may fail on a healthy socket (EMFILE,
               \* ECONNABORTED, ...)

ASSUME MayFailAssumption == MayFail \in BOOLEAN
ASSUME CallbacksAssumption ==
  IsFiniteSet(Callbacks) /\ Callbacks \cap {"stop", "start", "acceptor", "nobody"} = {}

VARIABLES
  fd,         \* self.fd.fd: "listening" or "invalid"
  sock,       \* the kernel's socket: "open", "shutdown" or "closed"
  backlog,    \* connections waiting in the kernel
  accepted,   \* connections handed to Threading.dispatch
  failure,    \* self.networkFailure
  semaphore,  \* self.semaphore: "nil" or "set"
  holder,     \* who holds the semaphore's lock, or "nobody"
  pc,         \* where the accepting thread is
  spc,        \* where the threads are that may signal
  reg,        \* the registration: "none", "watched" or "dead"
  trapped     \* a nil semaphore was unwrapped: the process is gone

vars == <<fd, sock, backlog, accepted, failure, semaphore, holder, pc, spc,
          reg, trapped>>

kernel   == <<sock, backlog, reg>>
fields   == <<fd, failure, semaphore>>

(* close() runs in the thread that calls stop, and in start when its       *)
(* "defer { sock.close() }" runs.                                          *)
Closers   == {"stop", "start"}
Signalers == Closers \cup Callbacks

Steps == {"enter", "try", "lock", "add", "wait", "parked", "woken", "test",
          "leave", "returned"}
SignalSteps == {"idle", "check", "shutdown", "close", "invalidate", "semtest",
                "lock", "acquire", "signal", "unlock", "done"}

Init ==
  /\ fd = "listening" /\ sock = "open"
  /\ backlog = {} /\ accepted = {}
  /\ failure = FALSE
  /\ semaphore = "nil" /\ holder = "nobody"
  /\ pc = "enter" /\ spc = [s \in Signalers |-> "idle"]
  /\ reg = "none"
  /\ trapped = FALSE

Goto(step)      == pc' = step
GotoS(s, step)  == spc' = [spc EXCEPT ![s] = step]
At(step)        == ~trapped /\ pc = step
AtS(s, step)    == ~trapped /\ spc[s] = step

-----------------------------------------------------------------------------
(* The network: a client connects.                                         *)
Arrive(c) ==
  /\ ~trapped
  /\ sock = "open"
  /\ c \notin backlog \cup accepted
  /\ backlog' = backlog \cup {c}
  /\ UNCHANGED <<fields, sock, accepted, holder, pc, spc, reg, trapped>>

(* NetEvent: the socket has become readable (a listening socket that was   *)
(* shut down is), and a worker is given the callback of waitAccept.        *)
Event(k) ==
  /\ AtS(k, "idle")
  /\ reg = "watched"
  /\ backlog # {} \/ sock = "shutdown"
  /\ reg' = "none"
  /\ GotoS(k, "lock")
  /\ UNCHANGED <<fields, sock, backlog, accepted, holder, pc, trapped>>

-----------------------------------------------------------------------------
(* forEachAccept.                                                          *)

Enter ==
  /\ At("enter")
  /\ semaphore = "nil"
  /\ semaphore' = "set"
  /\ Goto("try")
  /\ UNCHANGED <<fd, failure, kernel, accepted, holder, spc, trapped>>

AcceptWorks == fd = "listening" /\ sock = "open"

(* tryAccept returns a connection; its callback is dispatched.             *)
TryAccept(c) ==
  /\ At("try")
  /\ AcceptWorks /\ c \in backlog
  /\ backlog' = backlog \ {c}
  /\ accepted' = accepted \cup {c}
  /\ Goto("test")
  /\ UNCHANGED <<fields, sock, reg, holder, spc, trapped>>

(* tryAccept returns EAGAIN.                                               *)
TryAgain ==
  /\ At("try")
  /\ AcceptWorks /\ backlog = {}
  /\ Goto("lock")
  /\ UNCHANGED <<fields, kernel, accepted, holder, spc, trapped>>

(* tryAccept fails with anything but EAGAIN: the socket is shut down, the  *)
(* descriptor is gone, or the process is out of descriptors, ...           *)
TryFails ==
  /\ At("try")
  /\ ~AcceptWorks \/ MayFail
  /\ failure' = TRUE
  /\ Goto("test")
  /\ UNCHANGED <<fd, semaphore, kernel, accepted, holder, spc, trapped>>

(* Mutation: the registration is made before the semaphore is locked.      *)
LockTooLate ==
  /\ At("lock")
  /\ reg' = IF fd = "listening" /\ sock # "closed" THEN "watched" ELSE "dead"
  /\ Goto("wait")
  /\ UNCHANGED <<fields, sock, backlog, accepted, holder, spc, trapped>>

Lock ==
  /\ At("lock")
  /\ holder = "nobody"
  /\ holder' = "acceptor"
  /\ Goto("add")
  /\ UNCHANGED <<fields, kernel, accepted, spc, trapped>>

(* waitAccept, with the value fd has by now.                               *)
WaitAccept ==
  /\ At("add")
  /\ reg' = IF fd = "listening" /\ sock # "closed" THEN "watched" ELSE "dead"
  /\ Goto("wait")
  /\ UNCHANGED <<fields, sock, backlog, accepted, holder, spc, trapped>>

(* semaphore.wait() gives up the lock and sleeps.                          *)
Wait ==
  /\ At("wait")
  /\ holder' = "nobody"
  /\ Goto("parked")
  /\ UNCHANGED <<fields, kernel, accepted, spc, trapped>>

SpuriousWakeup ==
  /\ At("parked")
  /\ Goto("woken")
  /\ UNCHANGED <<fields, kernel, accepted, holder, spc, trapped>>

(* wait() returns with the lock, which is then released.                   *)
WaitReturns ==
  /\ At("woken")
  /\ holder = "nobody"
  /\ Goto("test")
  /\ UNCHANGED <<fields, kernel, accepted, holder, spc, trapped>>

(* while !networkFailure && self.fd.fd != invalidSocket                    *)
Test ==
  /\ At("test")
  /\ Goto(IF failure \/ fd = "invalid" THEN "leave" ELSE "try")
  /\ UNCHANGED <<fields, kernel, accepted, holder, spc, trapped>>

(* defer { self.semaphore = nil }, then startInner's defer { sock.close() }*)
Leave ==
  /\ At("leave")
  /\ semaphore' = "nil"
  /\ Goto("returned")
  /\ GotoS("start", "check")
  /\ UNCHANGED <<fd, failure, kernel, accepted, holder, trapped>>

-----------------------------------------------------------------------------
(* close, in thread s.                                                     *)

Stop ==
  /\ AtS("stop", "idle")
  /\ GotoS("stop", "check")
  /\ UNCHANGED <<fields, kernel, accepted, holder, pc, trapped>>

CheckOpen(s) ==
  /\ AtS(s, "check")
  /\ GotoS(s, IF fd = "invalid" THEN "done" ELSE "shutdown")
  /\ UNCHANGED <<fields, kernel, accepted, holder, pc, trapped>>

Shutdown(s) ==
  /\ AtS(s, "shutdown")
  /\ sock' = IF sock = "open" THEN "shutdown" ELSE sock
  /\ GotoS(s, "close")
  /\ UNCHANGED <<fields, backlog, reg, accepted, holder, pc, trapped>>

(* The kernel drops the backlog and what it watched.                       *)
CloseFd(s) ==
  /\ AtS(s, "close")
  /\ sock' = "closed"
  /\ backlog' = {}
  /\ reg' = IF reg = "watched" THEN "dead" ELSE reg
  /\ GotoS(s, "invalidate")
  /\ UNCHANGED <<fields, accepted, holder, pc, trapped>>

Invalidate(s) ==
  /\ AtS(s, "invalidate")
  /\ fd' = "invalid"
  /\ GotoS(s, "semtest")
  /\ UNCHANGED <<failure, semaphore, kernel, accepted, holder, pc, trapped>>

TestSemaphore(s) ==
  /\ AtS(s, "semtest")
  /\ GotoS(s, IF semaphore = "nil" THEN "done" ELSE "lock")
  /\ UNCHANGED <<fields, kernel, accepted, holder, pc, trapped>>

-----------------------------------------------------------------------------
(* semaphore!.lock(), semaphore!.signal(), semaphore!.unlock(), each of    *)
(* which reads the field again.                                            *)

(* The callback refers to the object weakly.  The object is alive while a  *)
(* thread is in start, and HTTPServer.net keeps it until stop is through.  *)
Alive == spc["start"] # "done" \/ spc["stop"] # "done"

Unwrap(s, here, next) ==
  /\ AtS(s, here)
  /\ IF s \in Callbacks /\ ~Alive
     THEN GotoS(s, "idle") /\ UNCHANGED trapped
     ELSE IF semaphore = "nil"
          THEN trapped' = TRUE /\ UNCHANGED spc
          ELSE GotoS(s, next) /\ UNCHANGED trapped

BeginLock(s) ==
  /\ Unwrap(s, "lock", "acquire")
  /\ UNCHANGED <<fields, kernel, accepted, holder, pc>>

Acquire(s) ==
  /\ AtS(s, "acquire")
  /\ holder = "nobody"
  /\ holder' = s
  /\ GotoS(s, "signal")
  /\ UNCHANGED <<fields, kernel, accepted, pc, trapped>>

Signal(s) ==
  /\ Unwrap(s, "signal", "unlock")
  /\ pc' = IF pc = "parked" /\ spc'[s] = "unlock" THEN "woken" ELSE pc
  /\ UNCHANGED <<fields, kernel, accepted, holder>>

Unlock(s) ==
  /\ Unwrap(s, "unlock", IF s \in Callbacks THEN "idle" ELSE "done")
  /\ holder' = IF semaphore = "nil" THEN holder ELSE "nobody"
  /\ UNCHANGED <<fields, kernel, accepted, pc>>

-----------------------------------------------------------------------------
(* The accepting thread, without the spurious wakeups.                     *)
Acceptor ==
  \/ Enter
  \/ \E c \in Conns : TryAccept(c)
  \/ TryAgain \/ TryFails
  \/ Lock \/ WaitAccept \/ Wait \/ WaitReturns
  \/ Test \/ Leave

Closer(s) ==
  \/ CheckOpen(s) \/ Shutdown(s) \/ CloseFd(s) \/ Invalidate(s) \/ TestSemaphore(s)

Signaler(s) == BeginLock(s) \/ Acquire(s) \/ Signal(s) \/ Unlock(s)

Next ==
  \/ \E c \in Conns : Arrive(c)
  \/ \E k \in Callbacks : Event(k)
  \/ Acceptor \/ SpuriousWakeup
  \/ Stop
  \/ \E s \in Closers : Closer(s)
  \/ \E s \in Signalers : Signaler(s)

(* Threads are scheduled, and the semaphore's lock is not withheld from    *)
(* the thread that waits for it; the event loop reports a socket that is   *)
(* ready (module NetEvent).  Clients need not connect, nobody need stop.   *)
Fairness ==
  /\ WF_vars(Acceptor)
  /\ \A s \in Closers : WF_vars(Closer(s))
  /\ \A s \in Signalers : SF_vars(Signaler(s))
  /\ SF_vars(Lock) /\ SF_vars(WaitReturns)
  /\ WF_vars(\E k \in Callbacks : Event(k))

SafeSpec == Init /\ [][Next]_vars
Spec == SafeSpec /\ Fairness

-----------------------------------------------------------------------------
(* The types of the variables, and who can hold the lock where.            *)
TypeOK ==
  /\ fd \in {"listening", "invalid"}
  /\ sock \in {"open", "shutdown", "closed"}
  /\ backlog \subseteq Conns /\ accepted \subseteq Conns
  /\ failure \in BOOLEAN
  /\ semaphore \in {"nil", "set"}
  /\ holder \in {"nobody", "acceptor"} \cup Signalers
  /\ pc \in Steps
  /\ spc \in [Signalers -> SignalSteps]
  /\ reg \in {"none", "watched", "dead"}
  /\ trapped \in BOOLEAN
  /\ ~trapped /\ Alive =>
       /\ holder = "acceptor" <=> pc \in {"add", "wait"}
       /\ \A s \in Signalers : holder = s <=> spc[s] \in {"signal", "unlock"}

(* A thread on its way to signal.                                          *)
Signalling(s) == spc[s] \in {"lock", "acquire", "signal"}

(* A thread on its way through close, before the test of the semaphore.    *)
Closing(s) == spc[s] \in {"check", "shutdown", "close", "invalidate", "semtest"}

(* forEachAccept never sleeps with nobody to wake it while the socket is   *)
(* open: NetEvent watches the socket, or a callback or a close is on its   *)
(* way to the signal.                                                      *)
SleeperIsWatched ==
  pc = "parked" /\ fd = "listening" =>
    \/ reg = "watched"
    \/ \E s \in Signalers : Signalling(s)
    \/ \E s \in Closers : Closing(s)

(* Every connection that reaches the listening socket is accepted, unless  *)
(* accept failed for good or the server is being stopped.                  *)
EveryConnectionAccepted ==
  \A c \in Conns :
    c \in backlog ~> c \in accepted \/ failure \/ spc["stop"] # "idle"

(* "Calling this will cause the server to break out of the otherwise       *)
(* blocking start function": once stop was called, forEachAccept returns   *)
(* (or the process has ended).                                             *)
StopEndsStart == spc["stop"] # "idle" ~> pc = "returned" \/ trapped

=============================================================================
