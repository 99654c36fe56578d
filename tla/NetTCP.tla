------------------------------- MODULE NetTCP -------------------------------
(***************************************************************************)
(* readBytesFully and write of NetTCP (PerfectLib/NetTCP.swift) on one     *)
(* connected socket, over the event loop of module NetEvent.               *)
(*                                                                         *)
(* Both operations try the socket first and go to NetEvent only when it    *)
(* would block; between the failed attempt and the registration the peer   *)
(* may have moved.  Each is run once, by whatever thread: first in the     *)
(* caller's, later in the queue worker that runs the event callback.       *)
(* NetEvent holds one request per descriptor, whatever its direction; the  *)
(* callers that are not disciplined have the two operations under way at   *)
(* the same time.                                                          *)
(***************************************************************************)
EXTENDS NetEvent, Integers

CONSTANTS
  Socket,    \* the descriptor of the connection
  Count,     \* bytes asked of readBytesFully
  Length,    \* bytes given to write
  SendBuf    \* what the kernel buffers of unread output

ASSUME SocketAssumption == Fds = {Socket}
ASSUME SizesAssumption == {Count, Length, SendBuf} \subseteq Nat \ {0}

VARIABLES
  arrived, taken,   \* bytes the peer sent, bytes recv returned
  sent, drained,    \* bytes send took, bytes the peer read of them (less
                    \* than none while it has not read earlier output)
  eof, broken,      \* the peer closed its half; the connection was reset
  rd,               \* the read: [pc, remaining, req, result, timed]
  wr                \* the write: [pc, length, wrote, req, reported]

network == <<arrived, taken, sent, drained, eof, broken>>
tvars   == <<vars, network, rd, wr>>

Inbox == arrived - taken
Room  == SendBuf - (sent - drained)

Steps == {"idle", "try", "add", "wait", "done"}

TInit ==
  /\ Init
  /\ arrived = 0 /\ taken = 0 /\ sent = 0
  /\ drained \in -SendBuf..0
  /\ eof = FALSE /\ broken = FALSE
  /\ \E timed \in BOOLEAN :
       rd = [pc |-> "idle", remaining |-> Count, req |-> NoRequest,
             result |-> "none", timed |-> timed]
  /\ wr = [pc |-> "idle", length |-> Length, wrote |-> 0, req |-> NoRequest, reported |-> 0]

-----------------------------------------------------------------------------
(* The peer and the network; MaxArrived bounds what the peer sends.        *)
MaxArrived == Count + 1

PeerSends ==
  /\ ~eof /\ ~broken /\ arrived < MaxArrived
  /\ arrived' = arrived + 1
  /\ UNCHANGED <<vars, taken, sent, drained, eof, broken, rd, wr>>

PeerReads ==
  /\ ~broken /\ drained < sent
  /\ drained' = drained + 1
  /\ UNCHANGED <<vars, arrived, taken, sent, eof, broken, rd, wr>>

PeerCloses ==
  /\ ~eof /\ ~broken
  /\ eof' = TRUE
  /\ UNCHANGED <<vars, arrived, taken, sent, drained, broken, rd, wr>>

Reset ==
  /\ ~broken
  /\ broken' = TRUE
  /\ UNCHANGED <<vars, arrived, taken, sent, drained, eof, rd, wr>>

-----------------------------------------------------------------------------
(* readBytesFully.                                                         *)

StartRead ==
  /\ rd.pc = "idle"
  /\ disciplined => wr.pc \in {"idle", "done"}
  /\ rd' = [rd EXCEPT !.pc = "try"]
  /\ UNCHANGED <<vars, network, wr>>

ReadDone(result) == rd' = [rd EXCEPT !.pc = "done", !.result = result]

(* recv returns n of the bytes that are there: all that was asked for, or  *)
(* "try again for more".                                                   *)
RecvSome(n) ==
  /\ rd.pc = "try" /\ ~broken
  /\ n <= Inbox /\ n <= rd.remaining
  /\ taken' = taken + n
  /\ rd' = [rd EXCEPT !.remaining = @ - n,
                      !.pc = IF rd.remaining = n THEN "done" ELSE "try",
                      !.result = IF rd.remaining = n THEN "data" ELSE @]
  /\ UNCHANGED <<vars, arrived, sent, drained, eof, broken, wr>>

(* recv says that the peer closed, or fails.                               *)
RecvEnds ==
  /\ rd.pc = "try"
  /\ broken \/ (eof /\ Inbox = 0)
  /\ ReadDone("nil")
  /\ UNCHANGED <<vars, network, wr>>

(* EAGAIN.                                                                 *)
RecvAgain ==
  /\ rd.pc = "try"
  /\ ~broken /\ ~eof /\ Inbox = 0
  /\ rd' = [rd EXCEPT !.pc = "add"]
  /\ UNCHANGED <<vars, network, wr>>

ReadBytesFullyIncomplete(r) ==
  /\ rd.pc = "add"
  /\ Add(Socket, r, "Read", rd.timed)
  /\ rd' = [rd EXCEPT !.pc = "wait", !.req = r]
  /\ UNCHANGED <<network, wr>>

Answered(op) == op.pc = "wait" /\ calls[op.req] # <<>>

(* Mutation: the callback starts over with the whole count.                *)
ReadCallbackRestarts ==
  /\ Answered(rd)
  /\ IF calls[rd.req][1].got = "Read"
     THEN rd' = [rd EXCEPT !.pc = "try", !.remaining = Count]
     ELSE ReadDone("nil")
  /\ UNCHANGED <<vars, network, wr>>

ReadCallback ==
  /\ Answered(rd)
  /\ IF calls[rd.req][1].got = "Read"
     THEN rd' = [rd EXCEPT !.pc = "try"]
     ELSE ReadDone("nil")
  /\ UNCHANGED <<vars, network, wr>>

-----------------------------------------------------------------------------
(* write.                                                                  *)

StartWrite ==
  /\ wr.pc = "idle"
  /\ disciplined => rd.pc \in {"idle", "done"}
  /\ wr' = [wr EXCEPT !.pc = "try"]
  /\ UNCHANGED <<vars, network, rd>>

(* Mutation: after a short send the whole length is sent again.            *)
SendSomeAgain(n) ==
  /\ wr.pc = "try" /\ ~broken
  /\ n <= Room /\ n <= wr.length
  /\ sent' = sent + n
  /\ wr' = IF n < wr.length
           THEN [wr EXCEPT !.pc = "add", !.wrote = @ + n]
           ELSE [wr EXCEPT !.pc = "done", !.reported = wr.wrote + n]
  /\ UNCHANGED <<vars, arrived, taken, drained, eof, broken, rd>>

(* send takes n bytes: all that is left, or less ("flow control").         *)
SendSome(n) ==
  /\ wr.pc = "try" /\ ~broken
  /\ n <= Room /\ n <= wr.length
  /\ sent' = sent + n
  /\ wr' = IF n < wr.length
           THEN [wr EXCEPT !.pc = "add", !.wrote = @ + n, !.length = @ - n]
           ELSE [wr EXCEPT !.pc = "done", !.reported = wr.wrote + n]
  /\ UNCHANGED <<vars, arrived, taken, drained, eof, broken, rd>>

SendAgain ==
  /\ wr.pc = "try" /\ ~broken
  /\ Room = 0
  /\ wr' = [wr EXCEPT !.pc = "add"]
  /\ UNCHANGED <<vars, network, rd>>

(* completion(sent), sent being -1.                                        *)
SendFails ==
  /\ wr.pc = "try" /\ broken
  /\ wr' = [wr EXCEPT !.pc = "done", !.reported = -1]
  /\ UNCHANGED <<vars, network, rd>>

WriteIncomplete(r) ==
  /\ wr.pc = "add"
  /\ Add(Socket, r, "Write", FALSE)
  /\ wr' = [wr EXCEPT !.pc = "wait", !.req = r]
  /\ UNCHANGED <<network, rd>>

(* Mutation: the callback waits for room once more before it writes.       *)
WriteCallbackAdds ==
  /\ Answered(wr)
  /\ wr' = [wr EXCEPT !.pc = "add"]
  /\ UNCHANGED <<vars, network, rd>>

(* The filter is not looked at.                                            *)
WriteCallback ==
  /\ Answered(wr)
  /\ wr' = [wr EXCEPT !.pc = "try"]
  /\ UNCHANGED <<vars, network, rd>>

-----------------------------------------------------------------------------
(* The event loop; the kernel now reports what the network justifies.      *)

Justified(e) ==
  CASE e[2] = "Timer" -> TRUE
    [] e[2] = "Error" -> broken
    [] e[2] = "Read"  -> IF broken THEN platform = "kqueue" ELSE eof \/ Inbox > 0
    [] e[2] = "Write" -> IF broken THEN platform = "kqueue" ELSE Room > 0
    [] OTHER          -> FALSE

FetchReady(kinds) ==
  /\ \E events \in SUBSET Reportable :
       /\ \A e \in events : Justified(e)
       /\ \E e \in events : e[2] \in kinds
       /\ Fetch(events)
  /\ UNCHANGED <<network, rd, wr>>

LoopStep ==
  /\ LockForEvents \/ \E e \in batch : Handle(e)
  /\ UNCHANGED <<network, rd, wr>>

Reader ==
  \/ \E n \in 1..Count : RecvSome(n)
  \/ RecvEnds \/ RecvAgain
  \/ \E r \in Requests : ReadBytesFullyIncomplete(r)
  \/ ReadCallback

Writer ==
  \/ \E n \in 1..Length : SendSome(n)
  \/ SendAgain \/ SendFails
  \/ \E r \in Requests : WriteIncomplete(r)
  \/ WriteCallback

TNext ==
  \/ PeerSends \/ PeerReads \/ PeerCloses \/ Reset
  \/ StartRead \/ Reader
  \/ StartWrite \/ Writer
  \/ FetchReady(Filters) \/ LoopStep

(* Threads run; the kernel reports a socket that stays ready; the peer     *)
(* sends and reads what the operations need.  A timer need not expire      *)
(* before the data comes.                                                  *)
TFairness ==
  /\ WF_tvars(Reader) /\ WF_tvars(Writer)
  /\ WF_tvars(LoopStep)
  /\ WF_tvars(FetchReady({"Read", "Write", "Error"}))
  /\ WF_tvars(PeerSends) /\ WF_tvars(PeerReads)

TSafeSpec == TInit /\ [][TNext]_tvars
TSpec == TSafeSpec /\ TFairness

-----------------------------------------------------------------------------
(* "Read the indicated number of bytes": what the callback gets are all    *)
(* the bytes asked for and no byte more was taken from the connection.     *)
ReadIsExact ==
  /\ taken <= Count
  /\ rd.result = "data" => taken = Count

(* write sends each byte once, going on behind what a short send took:     *)
(* when it reports a number of bytes, these were sent and are all of them, *)
(* and it gives up only when the connection broke.  (What it reports then  *)
(* is the matter of ReportIsSent.)                                         *)
WriteIsExact ==
  /\ sent <= Length
  /\ wr.pc = "done" /\ wr.reported # -1 => wr.reported = sent /\ sent = Length
  /\ wr.reported = -1 => broken

(* "The callback will be passed the number of bytes which were             *)
(* successfuly written": of a write that fails after a short send, too.    *)
ReportIsSent == wr.pc = "done" /\ sent > 0 => wr.reported = sent

(* An operation that waits is the one NetEvent will call back.             *)
(* It needs callers that run one operation at a time on a socket: a second *)
(* one replaces the entry of the first.                                    *)
WaiterIsRegistered ==
  disciplined => \A op \in {rd, wr} : op.pc = "wait" =>
    \/ IsQueued(Socket) /\ queued[Socket].req = op.req
    \/ calls[op.req] # <<>>

(* The callback of a read is called, though data may arrive between the    *)
(* failed recv and the registration.                                       *)
ReadAnswered == rd.pc = "try" ~> rd.pc = "done"

(* "The callback which will be called once the write has completed".       *)
WriteAnswered == wr.pc = "try" ~> wr.pc = "done"

=============================================================================
