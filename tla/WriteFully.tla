----------------------------- MODULE WriteFully -----------------------------
(***************************************************************************)
(* NetTCP.writeFully (PerfectLib/NetTCP.swift) called by closures that run *)
(* on the default queue, as FastCGIRequest.write and the callbacks of      *)
(* HTTP2Client do.                                                         *)
(*                                                                         *)
(* writeFully blocks its thread until NetEvent reports room in the socket. *)
(* The report reaches it through a closure that NetEvent.add dispatches on *)
(* the same default queue, so this module composes the queue (ThreadQueue) *)
(* with writers that occupy its workers while they sleep.  Each writer has *)
(* a socket of its own.                                                    *)
(***************************************************************************)
EXTENDS ThreadQueue

CONSTANTS
  Writers,    \* the closures that call writeFully
  Length,     \* bytes.count
  MaxRounds   \* bound on the times one writer has to wait for room

ASSUME LengthAssumption == Length \in Nat \ {0} /\ MaxRounds \in Nat

(* The closure NetEvent dispatches to answer round i of writer t.          *)
Wakeups == Writers \X (1..MaxRounds)

ASSUME TasksAssumption == Tasks = Writers \cup Wakeups /\ Writers \cap Wakeups = {}

VARIABLES
  unsent,   \* length - totalSent of each writer
  round,    \* how many registrations each writer has made
  reg,      \* reg[t]: the round NetEvent holds a registration for, or 0
  step,     \* where each writer is in writeFully, see WriterSteps
  what,     \* the captured variable of the same name
  report,   \* the filter each wakeup closure carries
  result    \* what writeFully returned

wvars == <<unsent, round, reg, step, what, report, result>>
allvars == <<vars, wvars>>

WriterSteps == {"send", "asleep", "test", "returned"}

RunningTask(t) == \E w \in Running : block[w] = t

-----------------------------------------------------------------------------
WInit ==
  /\ Init
  /\ unsent = [t \in Writers |-> Length]
  /\ round = [t \in Writers |-> 0]
  /\ reg = [t \in Writers |-> 0]
  /\ step = [t \in Writers |-> "send"]
  /\ what = [t \in Writers |-> "None"]
  /\ report = [k \in Wakeups |-> "None"]
  /\ result = [t \in Writers |-> "none"]

(* Some thread dispatches a closure that will call writeFully.             *)
DispatchWriter(t) ==
  /\ Dispatch(t)
  /\ UNCHANGED wvars

InWriteFully(t, s) == RunningTask(t) /\ step[t] = s

Return(t, value) ==
  /\ step' = [step EXCEPT ![t] = "returned"]
  /\ result' = [result EXCEPT ![t] = value]

(* send takes everything that is left.                                     *)
SendRest(t) ==
  /\ InWriteFully(t, "send")
  /\ unsent' = [unsent EXCEPT ![t] = 0]
  /\ Return(t, "true")
  /\ UNCHANGED <<vars, round, reg, what, report>>

(* send fails with anything but EAGAIN.                                    *)
SendFails(t) ==
  /\ InWriteFully(t, "send")
  /\ Return(t, "false")
  /\ UNCHANGED <<vars, unsent, round, reg, what, report>>

(* Mutation: waitFunc is called once, before the loop.                     *)
SendSomeAddOnce(t, n) ==
  /\ InWriteFully(t, "send")
  /\ n < unsent[t]
  /\ round[t] < MaxRounds
  /\ unsent' = [unsent EXCEPT ![t] = @ - n]
  /\ round' = [round EXCEPT ![t] = @ + 1]
  /\ reg' = [reg EXCEPT ![t] = IF round[t] = 0 THEN 1 ELSE @]
  /\ step' = [step EXCEPT ![t] = "asleep"]
  /\ UNCHANGED <<vars, what, report, result>>

(* send takes n bytes, none when it says EAGAIN; then s.lock, waitFunc and *)
(* s.wait.  The callback signals under s.lock, so it comes after the wait  *)
(* has begun.  A registration that is still there is replaced.             *)
SendSome(t, n) ==
  /\ InWriteFully(t, "send")
  /\ n < unsent[t]
  /\ round[t] < MaxRounds
  /\ unsent' = [unsent EXCEPT ![t] = @ - n]
  /\ round' = [round EXCEPT ![t] = @ + 1]
  /\ reg' = [reg EXCEPT ![t] = round[t] + 1]
  /\ step' = [step EXCEPT ![t] = "asleep"]
  /\ UNCHANGED <<vars, what, report, result>>

(* The socket has room (or is broken): NetEvent drops the registration and *)
(* dispatches the callback.                                                *)
Ready(t, filter) ==
  /\ reg[t] # 0
  /\ Dispatch(<<t, reg[t]>>)
  /\ report' = [report EXCEPT ![<<t, reg[t]>>] = filter]
  /\ reg' = [reg EXCEPT ![t] = 0]
  /\ UNCHANGED <<unsent, round, step, what, result>>

(* A worker runs the callback: what = w, then s.signal under s.lock.       *)
Wake(w) ==
  /\ w \in Running /\ block[w] \in Wakeups
  /\ LET t == block[w][1] IN
       /\ what' = [what EXCEPT ![t] = report[block[w]]]
       /\ step' = [step EXCEPT ![t] = IF @ = "asleep" THEN "test" ELSE @]
  /\ Finish(w)
  /\ UNCHANGED <<unsent, round, reg, report, result>>

(* s.wait returns without a signal.                                        *)
SpuriousWake(t) ==
  /\ InWriteFully(t, "asleep")
  /\ step' = [step EXCEPT ![t] = "test"]
  /\ UNCHANGED <<vars, unsent, round, reg, what, report, result>>

(* Mutation: after the wakeup of a last round everything counts as sent.   *)
TestWhatReturnsTrue(t) ==
  /\ InWriteFully(t, "test")
  /\ IF what[t] = "Write"
     THEN step' = [step EXCEPT ![t] = "send"] /\ UNCHANGED result
     ELSE Return(t, "true")
  /\ UNCHANGED <<vars, unsent, round, reg, what, report>>

(* if case .Write = what {} else { break }; return totalSent == length     *)
TestWhat(t) ==
  /\ InWriteFully(t, "test")
  /\ IF what[t] = "Write"
     THEN step' = [step EXCEPT ![t] = "send"] /\ UNCHANGED result
     ELSE Return(t, IF unsent[t] = 0 THEN "true" ELSE "false")
  /\ UNCHANGED <<vars, unsent, round, reg, what, report>>

(* The closure that called writeFully returns.                             *)
WriterEnds(w) ==
  /\ w \in Running /\ block[w] \in Writers
  /\ step[block[w]] = "returned"
  /\ Finish(w)
  /\ UNCHANGED wvars

QueueStep(w) ==
  /\ Loop(w) \/ WaitReturns(w)
  /\ UNCHANGED wvars

WriterStep(t) ==
  \/ SendRest(t) \/ SendFails(t)
  \/ \E n \in 0..(Length - 1) : SendSome(t, n)
  \/ TestWhat(t)

WNext ==
  \/ \E t \in Writers : DispatchWriter(t) \/ WriterStep(t) \/ SpuriousWake(t)
  \/ \E t \in Writers : \E filter \in {"Write", "Error"} : Ready(t, filter)
  \/ \E w \in Workers : QueueStep(w) \/ Wake(w) \/ WriterEnds(w)
  \/ \E w \in Workers : SpuriousWakeup(w) /\ UNCHANGED wvars

(* Threads are scheduled, and every peer goes on reading what it is sent,  *)
(* so that a registered socket gets room.                                  *)
WFairness ==
  /\ \A w \in Workers :
       /\ WF_allvars((Take(w) \/ Park(w)) /\ UNCHANGED wvars)
       /\ WF_allvars(WaitReturns(w) /\ UNCHANGED wvars)
       /\ WF_allvars(Wake(w)) /\ WF_allvars(WriterEnds(w))
  /\ \A t \in Writers :
       /\ WF_allvars(WriterStep(t))
       /\ WF_allvars(\E filter \in {"Write", "Error"} : Ready(t, filter))

WSafeSpec == WInit /\ [][WNext]_allvars
WSpec == WSafeSpec /\ WFairness

-----------------------------------------------------------------------------
(* The wakeup closures of writer t that the queue holds or a worker runs.  *)
OnTheWay(t) == \E i \in 1..MaxRounds : <<t, i>> \in Queued \cup Held

(* A writer never sleeps without a registration or a callback that will    *)
(* signal it, spurious wakeups and replaced registrations included.        *)
SleepingWriterIsWatched ==
  \A t \in Writers : step[t] = "asleep" => reg[t] # 0 \/ OnTheWay(t)

(* writeFully says true exactly when the kernel took all the bytes: a late *)
(* callback of an earlier round, which overwrites what, does not make it   *)
(* stop early with true or go on after the end.                            *)
TrueMeansSent ==
  \A t \in Writers : step[t] = "returned" => (result[t] = "true" <=> unsent[t] = 0)

(* Every writeFully returns: its callback finds a worker.                  *)
WritesReturn ==
  \A t \in Writers : t \in Queued ~> t \in ended

=============================================================================
