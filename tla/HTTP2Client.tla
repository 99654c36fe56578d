---------------------------- MODULE HTTP2Client ----------------------------
(***************************************************************************)
(* HTTP2Client (PerfectLib/HTTP2.swift): requests that share a connection, *)
(* its read thread, and the default queue they run on.                     *)
(*                                                                         *)
(* sendRequest writes a request and then blocks its own thread until the   *)
(* frames of its stream have come.  The read thread, a closure that never  *)
(* leaves its worker, has one frame read at a time by another closure of   *)
(* the same queue; the frame is put on frameQueue and the one event of the *)
(* client, frameReadEvent, is broadcast to the read thread and to every    *)
(* waiting request.  All of frameQueue and frameReadOK is touched under    *)
(* that event's lock, except the read thread's last look at frameReadOK,   *)
(* so a locked section is one action, cut where it waits.                  *)
(*                                                                         *)
(* The default queue is what TaskQueue promises: closures start in order,  *)
(* while fewer than NWorkers of them run.  NetEvent is what NetEvent       *)
(* promises a disciplined caller; close does not tell it (NetTCP.close).   *)
(* Left out: TLS, and writes that have to wait for room (NetTCP,           *)
(* WriteFully).  Of the header code (HPACK) it is kept whether the other   *)
(* side can read a block.  Calls of sendRequest on one client do not       *)
(* overlap before they wait: newStreamId and the encoder are not locked.   *)
(* A frame is written in two pieces, its header and its payload, and the   *)
(* thread that reads may acknowledge a frame between the two.              *)
(***************************************************************************)
EXTENDS Integers, Sequences, FiniteSets, SequencesExt

CONSTANTS
  Clients,     \* the HTTP2Client objects
  Requests,    \* the calls of sendRequest
  NWorkers,    \* threads of the default queue
  NoClient,    \* a request that has no client yet
  IdBase,      \* 256: a stream's number takes several bytes from here on
  MaxFrames,   \* bound on the frames of one response
  MaxOthers,   \* bound on the frames that answer nothing
  MaxWire      \* bound on the frames between server and client

ASSUME BoundsAssumption ==
  /\ NWorkers \in Nat \ {0} /\ IdBase \in Nat \ {0, 1}
  /\ MaxFrames \in Nat \ {0} /\ MaxOthers \in Nat /\ MaxWire \in Nat \ {0}
ASSUME ClientsAssumption ==
  NoClient \notin Clients /\ IsFiniteSet(Clients) /\ Clients # {}
ASSUME RequestsAssumption == IsFiniteSet(Requests)

VARIABLES
  platform,       \* "kqueue" or "epoll"
  trouble,        \* what goes wrong in the world, see Troubles
  troubled,       \* the client it happens to
  net,            \* net[c]: "new", "connecting", "open" or "closed"
  peer,           \* peer[c]: the server's end, "up" or "gone"
  wire,           \* wire[c]: frames on their way from the server
  others,         \* how many frames answered nothing
  watched,        \* watched[c]: a read waits in NetEvent: "no", "yes", or
                  \* "lost" when the socket was closed under it
  frameQueue,     \* frameQueue[c]
  frameReadOK,    \* frameReadOK[c]
  reader,         \* reader[c]: where the read thread is
  streamCounter,  \* streamCounter[c]
  pending,        \* closures of the default queue that no worker has yet
  client,         \* client[r]
  pc,             \* pc[r]: where sendRequest is
  onWorker,       \* onWorker[r]: its thread is one of the queue's
  stream,         \* stream[r]: streamId, or 0
  told,           \* told[r]: what the callback was given, or "nothing"
  reply,          \* history: the frames the server sent for r, and if it ended
  got,            \* history: the frames that went into r's response
  cut,            \* history: cut[r]: "no", or what r's response misses of a
                  \* frame it was given: "payload" or "block"
  misread,        \* history: requests the server does not read as they were
                  \* meant
  trapped         \* the process is gone

worldVars  == <<platform, trouble, troubled>>
netVars    == <<net, watched, pending>>
serverVars == <<peer, wire, others, reply, misread>>
readVars   == <<frameQueue, frameReadOK, reader>>
askVars    == <<client, onWorker, stream, streamCounter>>
answerVars == <<told, got, cut, trapped>>
cvars == <<worldVars, netVars, serverVars, readVars, askVars, pc, answerVars>>

(* What may go wrong, all of it at one client.  In a kind world the server *)
(* answers in time every request that it can read, sends no frame but      *)
(* SETTINGS, its acknowledgement of ours and its answers, and stays,       *)
(* connecting works and no wait ends without a cause.  An old client is    *)
(* one whose stream numbers have grown.  With "headers" the server is      *)
(* kind, but the two sides' tables of header fields differ.                *)
Troubles == {"none", "server leaves", "stray frames", "spurious wakeups",
             "slow server", "old client", "headers"}
Trouble(c, what) == trouble = what /\ troubled = c
Kind(c) == trouble \in {"none", "headers"} \/ troubled # c

OfClient(c) == {r \in Requests : client[r] = c}

(* The server misread a request of the connection.                         *)
Misled(c) == OfClient(c) \cap misread # {}

-----------------------------------------------------------------------------
(* The default queue.                                                      *)

(* The workers that are held by a read thread or a blocked request.        *)
Held ==
  Cardinality({c \in Clients : reader[c] \in {"top", "waiting", "test"}})
    + Cardinality({r \in Requests :
                     onWorker[r] /\ pc[r] \notin {"idle", "connect", "done"}})

(* A free worker starts the oldest closure.                                *)
Starts(closure) ==
  /\ pending # <<>> /\ Head(pending) = closure
  /\ Held < NWorkers

-----------------------------------------------------------------------------
(* Frames.                                                                 *)

(* bytesToHeader adds the four bytes of a stream identifier; the results   *)
(* of its shifts are not used.                                             *)
IdRead(id) ==
  LET b == IdBase IN
    (id % b) + ((id \div b) % b) + ((id \div (b * b)) % b)
      + ((id \div (b * b * b)) % b)

(* A frame as the client sees it.  of and n say which frame of which       *)
(* response it is; whole is false when its payload never comes; alone is   *)
(* false when its header block refers to an entry of an earlier one.       *)
ResponseFrame(r, n, end, alone) ==
  [type |-> IF n = 1 THEN "HEADERS" ELSE "DATA", id |-> IdRead(stream[r]),
   end |-> end, whole |-> TRUE, alone |-> alone, of |-> r, n |-> n]

OtherFrame(type, id) ==
  [type |-> type, id |-> id, end |-> FALSE, whole |-> TRUE, alone |-> TRUE,
   of |-> NoClient, n |-> 0]

-----------------------------------------------------------------------------
(* close: the kernel forgets what it watched on the socket, unless the     *)
(* loop thread has already been given the event that shutdown raised.  q   *)
(* is the queue as the rest of the step leaves it.                         *)
Close(c, q) ==
  /\ net' = [net EXCEPT ![c] = "closed"]
  /\ \/ /\ watched[c] = "yes"
        /\ \/ /\ watched' = [watched EXCEPT ![c] = "lost"]
              /\ pending' = q
           \/ /\ watched' = [watched EXCEPT ![c] = "no"]
              /\ pending' = Append(q, <<"readable", c>>)
     \/ /\ watched[c] # "yes"
        /\ pending' = q
        /\ UNCHANGED watched

(* frameReadEvent.broadcast().                                             *)
Broadcast(c) ==
  /\ reader' = [reader EXCEPT ![c] = IF @ = "waiting" THEN "test" ELSE @]
  /\ pc' = [r \in Requests |->
              IF pc[r] = "waiting" /\ client[r] = c THEN "woken" ELSE pc[r]]

(* Requests of which the header of a frame is written and its payload is   *)
(* not.                                                                    *)
BetweenPieces(c) == {r \in OfClient(c) : pc[r] = "sending"}

(* readOneFrame's callback with a frame: SETTINGS and PING (here both      *)
(* SETTINGS) are acknowledged, if the connection is still there, their     *)
(* acknowledgements (ACK) are not, and the next frame is read; everything  *)
(* else is queued.  The acknowledgement of a PING is in two pieces as      *)
(* well, but only a server that is not kind sends one.                     *)
GotFrame(c, f, q) ==
  IF f.type \in {"SETTINGS", "ACK"}
  THEN /\ pending' = Append(q, <<"read", c>>)
       /\ misread' = IF f.type = "SETTINGS" /\ net[c] = "open"
                     THEN misread \cup BetweenPieces(c) ELSE misread
       /\ UNCHANGED <<readVars, pc, net, watched>>
  ELSE /\ pending' = q
       /\ frameQueue' = [frameQueue EXCEPT ![c] = Append(@, f)]
       /\ frameReadOK' = [frameReadOK EXCEPT ![c] = TRUE]
       /\ Broadcast(c)
       /\ UNCHANGED <<net, watched, misread>>

(* Mutation: a network error is not broadcast.                             *)
GotNothingSilently(c, q) ==
  /\ Close(c, q)
  /\ frameReadOK' = [frameReadOK EXCEPT ![c] = FALSE]
  /\ UNCHANGED <<frameQueue, reader, pc>>

(* readOneFrame's callback without one.                                    *)
GotNothing(c, q) ==
  /\ Close(c, q)
  /\ frameReadOK' = [frameReadOK EXCEPT ![c] = FALSE]
  /\ Broadcast(c)
  /\ UNCHANGED frameQueue

(* A worker runs readHTTP2Frame, the first time or when NetEvent says that *)
(* the socket is readable.  A frame whose header was read before the       *)
(* socket broke is delivered without its payload.                          *)
ReadFrame(c) ==
  \E kind \in {"read", "readable"} :
    /\ Starts(<<kind, c>>)
    /\ \/ /\ net[c] = "open" /\ wire[c] # <<>>
          /\ GotFrame(c, Head(wire[c]), Tail(pending))
          /\ wire' = [wire EXCEPT ![c] = Tail(@)]
       \/ /\ net[c] = "open" /\ wire[c] = <<>> /\ peer[c] = "up"
          /\ watched' = [watched EXCEPT ![c] = "yes"]
          /\ pending' = Tail(pending)
          /\ UNCHANGED <<net, readVars, pc, wire, misread>>
       \/ /\ net[c] = "closed" \/ (wire[c] = <<>> /\ peer[c] = "gone")
          /\ GotNothing(c, Tail(pending))
          /\ UNCHANGED <<wire, misread>>
       \/ /\ net[c] = "closed" /\ kind = "readable" /\ wire[c] # <<>>
          /\ GotFrame(c, [Head(wire[c]) EXCEPT !.whole = FALSE], Tail(pending))
          /\ wire' = [wire EXCEPT ![c] = <<>>]
    /\ UNCHANGED <<worldVars, peer, others, reply, askVars, answerVars>>

(* NetEvent hands the callback of a readable socket to the queue.          *)
Readable(c) ==
  /\ watched[c] = "yes"
  /\ wire[c] # <<>> \/ peer[c] = "gone"
  /\ watched' = [watched EXCEPT ![c] = "no"]
  /\ pending' = Append(pending, <<"readable", c>>)
  /\ UNCHANGED <<worldVars, net, serverVars, readVars, askVars, pc, answerVars>>

-----------------------------------------------------------------------------
(* startReadThread.                                                        *)

ReaderStarts(c) ==
  /\ Starts(<<"reader", c>>)
  /\ pending' = Tail(pending)
  /\ reader' = [reader EXCEPT ![c] = "top"]
  /\ UNCHANGED <<worldVars, net, watched, serverVars, frameQueue, frameReadOK,
                 askVars, pc, answerVars>>

(* The last look at frameReadOK, then while net.fd.isValid.                *)
GoesOn(c) == reader[c] = "top" \/ (reader[c] = "test" /\ frameReadOK[c])

(* frameReadOK = false; readOneFrame(); wait.  A close that comes between  *)
(* the loop's look at the descriptor and the second one, just before the   *)
(* wait, ends the loop as a close just after it does.                      *)
ReaderReads(c) ==
  /\ GoesOn(c) /\ net[c] = "open"
  /\ frameReadOK' = [frameReadOK EXCEPT ![c] = FALSE]
  /\ pending' = Append(pending, <<"read", c>>)
  /\ reader' = [reader EXCEPT ![c] = "waiting"]
  /\ UNCHANGED <<worldVars, net, watched, serverVars, frameQueue, askVars, pc,
                 answerVars>>

ReaderEnds(c) ==
  /\ GoesOn(c) /\ net[c] # "open"
  /\ reader' = [reader EXCEPT ![c] = "ended"]
  /\ UNCHANGED <<worldVars, netVars, serverVars, frameQueue, frameReadOK, askVars,
                 pc, answerVars>>

(* wait() returns without a broadcast.                                     *)
ReaderSpurious(c) ==
  /\ Trouble(c, "spurious wakeups")
  /\ reader[c] = "waiting"
  /\ reader' = [reader EXCEPT ![c] = "test"]
  /\ UNCHANGED <<worldVars, netVars, serverVars, frameQueue, frameReadOK, askVars,
                 pc, answerVars>>

(* if !frameReadOK { close(); break }                                      *)
ReaderGivesUp(c) ==
  /\ reader[c] = "test" /\ ~frameReadOK[c]
  /\ reader' = [reader EXCEPT ![c] = "ended"]
  /\ Close(c, pending)
  /\ UNCHANGED <<worldVars, serverVars, frameQueue, frameReadOK, askVars, pc,
                 answerVars>>

ReaderStep(c) == ReaderReads(c) \/ ReaderEnds(c) \/ ReaderGivesUp(c)

-----------------------------------------------------------------------------
(* connect, up to its callback.                                            *)

(* The connection and its TLS session stand: NetEvent dispatches the       *)
(* closure that goes on.                                                   *)
Connects(c) ==
  /\ net[c] = "connecting"
  /\ <<"connected", c>> \notin ToSet(pending)
  /\ pending' = Append(pending, <<"connected", c>>)
  /\ UNCHANGED <<worldVars, net, watched, serverVars, readVars, askVars, pc,
                 answerVars>>

(* Mutation: the read thread is not started.                               *)
CompleteConnectUnread(r) ==
  LET c == client[r] IN
    /\ pc[r] = "connect"
    /\ Starts(<<"connected", c>>)
    /\ net' = [net EXCEPT ![c] = "open"]
    /\ pending' = Tail(pending)
    /\ onWorker' = [onWorker EXCEPT ![r] = TRUE]
    /\ pc' = [pc EXCEPT ![r] = "send"]
    /\ UNCHANGED <<worldVars, watched, serverVars, readVars, client, stream,
                   streamCounter, answerVars>>

(* completeConnect: the preface and SETTINGS are written, the read thread  *)
(* is dispatched, and the callback goes on in this worker.                 *)
CompleteConnect(r) ==
  LET c == client[r] IN
    /\ pc[r] = "connect"
    /\ Starts(<<"connected", c>>)
    /\ net' = [net EXCEPT ![c] = "open"]
    /\ pending' = Append(Tail(pending), <<"reader", c>>)
    /\ onWorker' = [onWorker EXCEPT ![r] = TRUE]
    /\ pc' = [pc EXCEPT ![r] = "send"]
    /\ UNCHANGED <<worldVars, watched, serverVars, readVars, client, stream,
                   streamCounter, answerVars>>

(* The connection is refused, or breaks before SETTINGS is written: the    *)
(* callback is given false, and nobody closes the socket.                  *)
ConnectFails(r) ==
  LET c == client[r] IN
    /\ Trouble(c, "server leaves")
    /\ pc[r] = "connect"
    /\ Starts(<<"connected", c>>)
    /\ net' = [net EXCEPT ![c] = "closed"]
    /\ pending' = Tail(pending)
    /\ told' = [told EXCEPT ![r] = "no client"]
    /\ pc' = [pc EXCEPT ![r] = "done"]
    /\ UNCHANGED <<worldVars, watched, serverVars, readVars, askVars, got, cut, trapped>>

-----------------------------------------------------------------------------
(* sendRequest, in the thread of request r.                                *)

(* writeHTTP2Frame: a broken connection may show or not.                   *)
WriteWorks(c) == net[c] = "open"
WriteFails(c) == net[c] # "open" \/ peer[c] = "gone"

Answer(r, outcome) ==
  /\ told' = [told EXCEPT ![r] = outcome]
  /\ pc' = [pc EXCEPT ![r] = "answered"]

(* newStreamId, the header block and the first piece of its frame.  From   *)
(* the second request on the block may refer to an entry that only the     *)
(* encoder's table has (:path, which is sent not to be indexed), and what  *)
(* follows a misread request is misread too.                               *)
SendRequest(r) ==
  LET c == client[r] IN
    /\ pc[r] = "send"
    /\ BetweenPieces(c) = {}
    /\ stream' = [stream EXCEPT ![r] = streamCounter[c]]
    /\ streamCounter' = [streamCounter EXCEPT ![c] = @ + 2]
    /\ \E agree \in BOOLEAN :
         /\ agree \/ (streamCounter[c] > 1 /\ Trouble(c, "headers"))
         /\ misread' = IF agree /\ ~Misled(c) THEN misread ELSE misread \cup {r}
    /\ \/ /\ WriteWorks(c)
          /\ pc' = [pc EXCEPT ![r] = "sending"]
          /\ UNCHANGED told
       \/ /\ WriteFails(c)
          /\ Answer(r, "unable")
    /\ UNCHANGED <<worldVars, netVars, peer, wire, others, reply, readVars, client,
                   onWorker, got, cut, trapped>>

(* The pieces after it: the header block and, with a body, those of DATA.  *)
(* Between the two of DATA an acknowledgement does what it does between    *)
(* the two of HEADERS.  Whether DATA could be written is not looked at:    *)
(* the request waits as if it was.                                         *)
SendPayload(r) ==
  LET c == client[r] IN
    /\ pc[r] = "sending"
    /\ \/ /\ WriteWorks(c)
          /\ pc' = [pc EXCEPT ![r] = "await"]
          /\ UNCHANGED told
       \/ /\ WriteFails(c)
          /\ Answer(r, "unable")
    /\ UNCHANGED <<worldVars, netVars, serverVars, readVars, askVars, got, cut,
                   trapped>>

(* dequeueFrame(timeoutSeconds:streamId:): the event is waited for only    *)
(* while no frame at all is queued.                                        *)
Waits(r) ==
  /\ pc[r] = "await"
  /\ frameQueue[client[r]] = <<>>
  /\ pc' = [pc EXCEPT ![r] = "waiting"]
  /\ UNCHANGED <<worldVars, netVars, serverVars, readVars, askVars, answerVars>>

(* pthread_cond_timedwait_relative_np on Linux adds the seconds to the     *)
(* wall clock, while the condition uses the monotonic clock: decades.      *)
TimedWaitEnds == platform = "kqueue"

(* The server of c is still kind, and every answer of it can come in.      *)
InTime(c) ==
  /\ Kind(c) /\ net[c] = "open"
  /\ ~Misled(c) /\ \A r \in OfClient(c) : cut[r] = "no"

TimesOut(r) ==
  /\ TimedWaitEnds
  /\ pc[r] = "waiting"
  /\ ~InTime(client[r])
  /\ pc' = [pc EXCEPT ![r] = "woken"]
  /\ UNCHANGED <<worldVars, netVars, serverVars, readVars, askVars, answerVars>>

(* Mutation: the stream of a frame is not compared.                        *)
MineIsAny(r) == 1..Len(frameQueue[client[r]])

(* Frames of this stream in the queue.                                     *)
Mine(r) == {i \in 1..Len(frameQueue[client[r]]) :
              frameQueue[client[r]][i].id = stream[r]}

(* The rest of dequeueFrame: the first frame of the stream, or none.       *)
MayDequeue(r) ==
  pc[r] = "woken" \/ (pc[r] = "await" /\ frameQueue[client[r]] # <<>>)

Missing(f) ==
  IF ~f.whole THEN "payload" ELSE IF ~f.alone THEN "block" ELSE "no"

(* awaitResponse with a frame.  DATA unwraps its payload, HEADERS does not *)
(* miss it.  Each header block gets a decoder of its own, and an error     *)
(* closes the connection, but the response goes on.                        *)
TakesFrame(r) ==
  /\ MayDequeue(r) /\ Mine(r) # {}
  /\ LET c == client[r]
         i == CHOOSE k \in Mine(r) : \A j \in Mine(r) : k <= j
         f == frameQueue[c][i] IN
       /\ frameQueue' = [frameQueue EXCEPT ![c] = RemoveAt(@, i)]
       /\ cut' = [cut EXCEPT ![r] = IF @ # "no" THEN @ ELSE Missing(f)]
       /\ got' = [got EXCEPT ![r] = IF f.whole /\ f.type \in {"HEADERS", "DATA"}
                                    THEN Append(@, <<f.of, f.n>>) ELSE @]
       /\ IF Missing(f) = "block" THEN Close(c, pending) ELSE UNCHANGED netVars
       /\ trapped' = (f.type = "DATA" /\ ~f.whole)
       /\ \/ f.type \notin {"HEADERS", "DATA"} /\ Answer(r, "unexpected")
          \/ f.type \in {"HEADERS", "DATA"} /\ f.end /\ Answer(r, "response")
          \/ /\ f.type \in {"HEADERS", "DATA"} /\ ~f.end
             /\ pc' = [pc EXCEPT ![r] = "await"]
             /\ UNCHANGED told
  /\ UNCHANGED <<worldVars, serverVars, frameReadOK, reader, askVars>>

(* Mutation: without a frame the request waits again.                      *)
DropsNothing(r) ==
  /\ MayDequeue(r) /\ Mine(r) = {}
  /\ pc' = [pc EXCEPT ![r] = "await"]
  /\ UNCHANGED <<worldVars, netVars, serverVars, readVars, askVars, answerVars>>

(* awaitResponse with nil: close, "Connection dropped".                    *)
Drops(r) ==
  /\ MayDequeue(r) /\ Mine(r) = {}
  /\ Close(client[r], pending)
  /\ Answer(r, "dropped")
  /\ UNCHANGED <<worldVars, serverVars, readVars, askVars, got, cut, trapped>>

RequestStep(r) ==
  \/ SendRequest(r) \/ SendPayload(r) \/ Waits(r)
  \/ TakesFrame(r) \/ Drops(r)

-----------------------------------------------------------------------------
(* The server of connection c.                                             *)

Reachable(c) == net[c] = "open" /\ peer[c] = "up"
CanSend(c) == Reachable(c) /\ Len(wire[c]) < MaxWire

(* All of request r is written.                                            *)
Asked(r) == stream[r] # 0 /\ pc[r] \notin {"send", "sending"}

(* The server has sent a header block on connection c, whose entries are   *)
(* in its table and may be referred to.                                    *)
SentBlock(c) ==
  Trouble(c, "headers") /\ \E s \in OfClient(c) : reply[s].frames > 0

ServerReplies(r, end, alone) ==
  /\ Asked(r) /\ CanSend(client[r])
  /\ ~reply[r].ended
  /\ reply[r].frames < MaxFrames /\ (reply[r].frames = MaxFrames - 1 => end)
  /\ alone \/ (reply[r].frames = 0 /\ SentBlock(client[r]))
  /\ reply' = [reply EXCEPT ![r] = [frames |-> @.frames + 1, ended |-> end]]
  /\ wire' = [wire EXCEPT ![client[r]] =
                Append(@, ResponseFrame(r, reply[r].frames + 1, end, alone))]
  /\ UNCHANGED <<worldVars, netVars, peer, others, misread, readVars, askVars, pc,
                 answerVars>>

(* SETTINGS, PING and their acknowledgements; strays are frames that       *)
(* concern the whole connection (GOAWAY, WINDOW_UPDATE) and frames that    *)
(* end a stream without an answer (RST_STREAM).  A server that misread a   *)
(* request may send any of them.  Bound: in the other troubles there are   *)
(* none of these.                                                          *)
Strays(c) ==
  {OtherFrame("OTHER", 0)} \cup
  {OtherFrame("OTHER", IdRead(stream[r])) :
     r \in {s \in OfClient(c) : Asked(s) /\ ~reply[s].ended}}

ServerSendsOther(c) ==
  /\ c = troubled /\ CanSend(c)
  /\ others < MaxOthers
  /\ others' = others + 1
  /\ \E f \in {OtherFrame("SETTINGS", 0), OtherFrame("ACK", 0)} \cup Strays(c) :
       /\ trouble = (IF f.type = "SETTINGS" THEN "none" ELSE "stray frames")
       /\ wire' = [wire EXCEPT ![c] = Append(@, f)]
  /\ UNCHANGED <<worldVars, netVars, peer, reply, misread, readVars, askVars, pc,
                 answerVars>>

(* The server goes away, as it may when it misread a request.  The last    *)
(* frame may have lost its payload.                                        *)
ServerLeaves(c) ==
  /\ Trouble(c, "server leaves") \/ Misled(c)
  /\ Reachable(c)
  /\ peer' = [peer EXCEPT ![c] = "gone"]
  /\ \/ UNCHANGED wire
     \/ /\ wire[c] # <<>>
        /\ wire' = [wire EXCEPT ![c][Len(wire[c])].whole = FALSE]
  /\ UNCHANGED <<worldVars, netVars, others, reply, misread, readVars, askVars, pc,
                 answerVars>>

=============================================================================
