------------------------- MODULE NotificationPusher -------------------------
(***************************************************************************)
(* NotificationPusher (PerfectLib/NotificationPusher.swift) over           *)
(* HTTP2Client: pushes that take a connection from the pool of their       *)
(* configuration, open one when the pool is empty, and give it back.       *)
(*                                                                         *)
(* The other use of HTTP2Client is shared: several threads send requests   *)
(* on one client that is connected, which is what the stream identifiers   *)
(* and dequeueFrame's search by stream are for.  That client may have      *)
(* served before, so its counter starts anywhere in FirstIds.              *)
(*                                                                         *)
(* A push is to one device.  A push to several sends them one after the    *)
(* other on the client it holds, as separate pushes would.                 *)
(***************************************************************************)
EXTENDS HTTP2Client

CONSTANTS FirstIds   \* values of streamCounter a client in use may have

ASSUME FirstIdsAssumption == FirstIds \subseteq {n \in Nat : n % 2 = 1}

VARIABLES
  use,           \* "pool" or "shared"
  streams,       \* NotificationConfiguration.streams
  activeStreams  \* the clients in the dictionary of that name

poolVars == <<use, streams, activeStreams>>
vars == <<cvars, poolVars>>

Shared == CHOOSE c \in Clients : TRUE

(* Bound: clients other than c are new only where servers may leave;       *)
(* elsewhere they have had their connection, and pushes share c.           *)
InitWith(c, connected, first) ==
  /\ net = [d \in Clients |->
              IF d # c /\ trouble # "server leaves" THEN "closed"
              ELSE IF connected /\ d = c THEN "open" ELSE "new"]
  /\ reader = [d \in Clients |-> IF connected /\ d = c THEN "top" ELSE "none"]
  /\ client = [r \in Requests |-> IF connected THEN c ELSE NoClient]
  /\ streamCounter = [d \in Clients |-> IF connected /\ d = c THEN first ELSE 1]

(* Every trouble meets both uses and both platforms, but an old client is  *)
(* one that is shared.                                                     *)
Init ==
  /\ use \in {"pool", "shared"}
  /\ trouble \in Troubles
  /\ troubled = Shared
  /\ platform \in {"kqueue", "epoll"}
  /\ trouble = "old client" => use = "shared"
  /\ \E first \in FirstIds :
       /\ first # 1 <=> trouble = "old client"
       /\ InitWith(Shared, use = "shared", first)
  /\ peer = [c \in Clients |-> "up"]
  /\ wire = [c \in Clients |-> <<>>]
  /\ others = 0
  /\ watched = [c \in Clients |-> "no"]
  /\ frameQueue = [c \in Clients |-> <<>>]
  /\ frameReadOK = [c \in Clients |-> FALSE]
  /\ pending = <<>>
  /\ pc = [r \in Requests |-> IF use = "shared" THEN "send" ELSE "idle"]
  /\ onWorker = [r \in Requests |-> FALSE]
  /\ stream = [r \in Requests |-> 0]
  /\ told = [r \in Requests |-> "nothing"]
  /\ reply = [r \in Requests |-> [frames |-> 0, ended |-> FALSE]]
  /\ got = [r \in Requests |-> <<>>]
  /\ cut = [r \in Requests |-> "no"]
  /\ misread = {}
  /\ trapped = FALSE
  /\ streams = <<>> /\ activeStreams = {}

-----------------------------------------------------------------------------
(* Mutation: the client is used and stays in the pool.                     *)
GetPooledStreamKept(r) ==
  /\ use = "pool" /\ pc[r] = "idle"
  /\ streams # <<>>
  /\ client' = [client EXCEPT ![r] = Last(streams)]
  /\ pc' = [pc EXCEPT ![r] = "send"]
  /\ UNCHANGED <<worldVars, netVars, serverVars, readVars, onWorker, stream,
                 streamCounter, answerVars, poolVars>>

(* getStreamIOS with a client in the pool, which may be connected no more. *)
GetPooledStream(r) ==
  /\ use = "pool" /\ pc[r] = "idle"
  /\ streams # <<>>
  /\ client' = [client EXCEPT ![r] = Last(streams)]
  /\ streams' = Front(streams)
  /\ pc' = [pc EXCEPT ![r] = "send"]
  /\ UNCHANGED <<worldVars, netVars, serverVars, readVars, onWorker, stream,
                 streamCounter, answerVars, use, activeStreams>>

(* getStreamIOS makes a client and connects it.                            *)
GetNewStream(r) ==
  /\ use = "pool" /\ pc[r] = "idle"
  /\ streams = <<>>
  /\ \E c \in Clients :
       /\ net[c] = "new"
       /\ net' = [net EXCEPT ![c] = "connecting"]
       /\ client' = [client EXCEPT ![r] = c]
       /\ activeStreams' = activeStreams \cup {c}
  /\ pc' = [pc EXCEPT ![r] = "connect"]
  /\ UNCHANGED <<worldVars, watched, pending, serverVars, readVars, onWorker, stream,
                 streamCounter, answerVars, use, streams>>

(* releaseStreamIOS, then the callback of the push.                        *)
ReleaseStream(r) ==
  LET c == client[r] IN
    /\ use = "pool" /\ pc[r] = "answered"
    /\ activeStreams' = activeStreams \ {c}
    /\ streams' = IF net[c] = "open" THEN Append(streams, c) ELSE streams
    /\ pc' = [pc EXCEPT ![r] = "done"]
    /\ UNCHANGED <<worldVars, netVars, serverVars, readVars, askVars, answerVars, use>>

-----------------------------------------------------------------------------
PushStep(r) == GetPooledStream(r) \/ GetNewStream(r) \/ ReleaseStream(r)

Replies(r) == \E end, alone \in BOOLEAN : ServerReplies(r, end, alone)

(* The server can read the request and means to answer it.                 *)
Served(r) == Kind(client[r]) /\ r \notin misread

(* What the world may do and need not.                                     *)
World ==
  \/ \E c \in Clients : ServerSendsOther(c) \/ ServerLeaves(c) \/ ReaderSpurious(c)
  \/ \E r \in Requests : ~Served(r) /\ Replies(r)

(* Steps of threads, of the queue and NetEvent, the end of a connection    *)
(* attempt, the end of a timed wait, and the answers of a kind server.     *)
Progress ==
  \/ \E c \in Clients :
       \/ ReadFrame(c) \/ Readable(c) \/ Connects(c)
       \/ ReaderStarts(c) \/ ReaderStep(c)
  \/ \E r \in Requests :
       \/ CompleteConnect(r) \/ ConnectFails(r)
       \/ RequestStep(r) \/ TimesOut(r)
       \/ Served(r) /\ Replies(r)

Moves == ~trapped /\ ((\E r \in Requests : PushStep(r)) \/ (Progress /\ UNCHANGED poolVars))

Next == Moves \/ (~trapped /\ World /\ UNCHANGED poolVars)

(* Threads are scheduled and take the lock in turn, the default queue is   *)
(* work conserving (TaskQueue), NetEvent reports what is ready, a          *)
(* connection attempt ends, and a timed wait ends where the platform's     *)
(* timer works.  No behaviour takes infinitely many steps, because frames  *)
(* and requests are finitely many; fairness of all these steps together    *)
(* is then fairness of each.                                               *)
Fairness == WF_vars(Moves)

SafeSpec == Init /\ [][Next]_vars
Spec == SafeSpec /\ Fairness

-----------------------------------------------------------------------------
(* A response that sendRequest reports has every frame the server sent for *)
(* that request, in order and none of another request, and the server had  *)
(* ended it: the frame queue, which all requests of a client search at     *)
(* once, mixes nothing up.  The exceptions: a connection that breaks       *)
(* between a frame's header and its payload, and a header block that is    *)
(* not decoded.                                                            *)
ResponseIsWhole ==
  \A r \in Requests : told[r] = "response" /\ cut[r] = "no" =>
    /\ reply[r].ended
    /\ got[r] = [i \in 1..reply[r].frames |-> <<r, i>>]

(* The pushes that hold a client.                                          *)
Holds(r, c) == client[r] = c /\ pc[r] \notin {"idle", "done"}

(* The pool never gives one connection to two pushes: a client in the pool *)
(* is there once, is held by nobody and is not active.                     *)
PoolIsExclusive == use = "pool" =>
  /\ IsInjective(streams)
  /\ \A i \in DOMAIN streams :
       streams[i] \notin activeStreams /\ \A r \in Requests : ~Holds(r, streams[i])
  /\ \A c \in Clients, r, s \in Requests : Holds(r, c) /\ Holds(s, c) => r = s

(* r has been given its connection, and its sendRequest begins.            *)
HasClient(r) == pc[r] \notin {"idle", "connect"}

(* What a request has become when it is told, and that a connection is     *)
(* closed, stays so.  In the properties below, that something is the case  *)
(* again and again for all of them therefore says that for each of them it *)
(* comes true in the end.                                                  *)

(* A push over a kind connection of its own is answered with the response: *)
(* no interleaving of its threads and no wait, and no frame and no wakeup  *)
(* that an earlier push left on the client, get in the way.  What may get  *)
(* in the way is the code of the headers and of frames: the server does    *)
(* not read the request as it was meant (an acknowledgement was written    *)
(* between the two pieces of one of its frames, or its :path refers to an  *)
(* entry that only the client's table has), or the response's header block *)
(* refers to an earlier one and is not decoded.                            *)
ResponseComes ==
  []<>(\A r \in Requests :
         use = "pool" /\ Kind(client[r]) /\ HasClient(r) =>
           \/ told[r] = "response" /\ cut[r] = "no"
           \/ r \in misread \/ cut[r] = "block" \/ trapped)

(* Where the timed wait works every request is told something, be it only  *)
(* that the connection dropped, whatever the server does: no wait is for   *)
(* ever, and no request goes on waiting for frames that do not come.       *)
EveryRequestTold ==
  []<>(TimedWaitEnds =>
         \A r \in Requests : HasClient(r) => told[r] # "nothing" \/ trapped)

(* A connection that has ended gives back the worker of its read thread,   *)
(* unless it was closed under a read that waits in NetEvent.               *)
WorkerGivenBack ==
  []<>(\A c \in Clients :
         net[c] = "closed" => \/ reader[c] \in {"none", "ended"}
                              \/ watched[c] = "lost" \/ trapped)

=============================================================================
