---------------------- MODULE NotificationPusherProofs ----------------------
(***************************************************************************)
(* Theorems about NotificationPusher, for any number of clients, requests  *)
(* and workers: the pool of connections does not give one out twice, and   *)
(* as long as no stream's number is read as another's, a response that     *)
(* sendRequest reports is the whole response to that request.              *)
(***************************************************************************)
EXTENDS NotificationPusher, WellFoundedInduction, TLAPS

PCs == {"idle", "connect", "send", "sending", "await", "waiting", "woken", "answered", "done"}

(* The types of what decides who has which client.                         *)
PoolTyped ==
  /\ net \in [Clients -> {"new", "connecting", "open", "closed"}]
  /\ pc \in [Requests -> PCs]
  /\ client \in [Requests -> Clients \cup {NoClient}]
  /\ \A r \in Requests : pc[r] # "idle" => client[r] \in Clients
  /\ streams \in Seq(Clients)

(* A client that a push holds or the pool has is no new one, so that a     *)
(* push that finds the pool empty makes one that nobody has.               *)
NoneIsNew == use = "pool" =>
  /\ \A i \in DOMAIN streams : net[streams[i]] # "new"
  /\ \A r \in Requests, c \in Clients : Holds(r, c) => net[c] # "new"

PIInv == PoolTyped /\ NoneIsNew /\ PoolIsExclusive

-----------------------------------------------------------------------------
LEMMA InitPIInv == Init => PIInv
<1> SUFFICES ASSUME Init PROVE PIInv
  OBVIOUS
<1>0. Shared \in Clients
  BY ClientsAssumption DEF Shared
<1>1. net \in [Clients -> {"new", "connecting", "open", "closed"}]
  BY DEF Init, InitWith
<1>2. pc = [r \in Requests |-> IF use = "shared" THEN "send" ELSE "idle"]
  BY DEF Init
<1>3. client = [r \in Requests |-> IF use = "shared" THEN Shared ELSE NoClient]
  BY DEF Init, InitWith
<1>4. streams = <<>>
  BY DEF Init
<1>5. use \in {"pool", "shared"}
  BY DEF Init
<1>6. PoolTyped
  BY <1>0, <1>1, <1>2, <1>3, <1>4, <1>5 DEF PoolTyped, PCs
<1>7. use = "pool" => \A r \in Requests, c \in Clients : ~Holds(r, c)
  BY <1>2 DEF Holds
<1> QED
  BY <1>4, <1>6, <1>7 DEF PIInv, NoneIsNew, PoolIsExclusive, IsInjective

-----------------------------------------------------------------------------
(* What a step of a connection, of its requests or of the world leaves     *)
(* alone: it makes no client new and no request the holder of a client.    *)
NetKept ==
  /\ net' \in [Clients -> {"new", "connecting", "open", "closed"}]
  /\ \A c \in Clients : net[c] # "new" => net'[c] # "new"

PcKept ==
  /\ pc' \in [Requests -> PCs]
  /\ \A r \in Requests :
       /\ pc[r] \in {"idle", "done"} => pc'[r] = pc[r]
       /\ pc'[r] = "idle" => pc[r] = "idle"

LEMMA CloseKeeps ==
  ASSUME PoolTyped, NEW c, NEW s, Close(c, s)
  PROVE  NetKept
BY DEF PoolTyped, Close, NetKept

LEMMA BroadcastKeeps ==
  ASSUME PoolTyped, NEW c, Broadcast(c)
  PROVE  PcKept
BY DEF PoolTyped, Broadcast, PcKept, PCs

LEMMA SamePc == PoolTyped /\ pc' = pc => PcKept
BY DEF PoolTyped, PcKept

LEMMA SameNet == PoolTyped /\ net' = net => NetKept
BY DEF PoolTyped, NetKept

(* One request moves on.                                                   *)
LEMMA MovesOn ==
  ASSUME PoolTyped, NEW r \in Requests, NEW to \in PCs \ {"idle"},
         pc[r] \notin {"idle", "done"}, pc' = [pc EXCEPT ![r] = to]
  PROVE  /\ pc' \in [Requests -> PCs]
         /\ \A q \in Requests : q # r => pc'[q] = pc[q]
         /\ to # "done" => PcKept
BY DEF PoolTyped, PcKept, PCs

LEMMA FrameKeeps ==
  ASSUME PoolTyped, NEW c \in Clients, ReadFrame(c)
  PROVE  NetKept /\ PcKept /\ client' = client
<1>1. ASSUME NEW f, NEW s, GotFrame(c, f, s)
      PROVE  NetKept /\ PcKept
  BY <1>1, BroadcastKeeps, SamePc, SameNet DEF GotFrame, readVars
<1>2. ASSUME NEW s, GotNothing(c, s)
      PROVE  NetKept /\ PcKept
  BY <1>2, BroadcastKeeps, CloseKeeps DEF GotNothing
<1> QED
  BY <1>1, <1>2, SamePc, SameNet DEF ReadFrame, askVars, readVars

LEMMA RequestKeeps ==
  ASSUME PoolTyped, NEW r \in Requests, RequestStep(r) \/ TimesOut(r) \/ CompleteConnect(r)
  PROVE  NetKept /\ PcKept /\ client' = client
<1>1. CASE SendRequest(r) \/ SendPayload(r)
  <2>1. \E to \in {"sending", "await", "answered"} : pc' = [pc EXCEPT ![r] = to]
    BY <1>1 DEF SendRequest, SendPayload, Answer
  <2>2. pc[r] \in {"send", "sending"} /\ UNCHANGED <<net, client>>
    BY <1>1 DEF SendRequest, SendPayload, netVars, askVars
  <2> QED
    BY <2>1, <2>2, MovesOn, SameNet DEF PCs
<1>2. CASE Waits(r) \/ TimesOut(r)
  <2>1. \E to \in {"waiting", "woken"} : pc' = [pc EXCEPT ![r] = to]
    BY <1>2 DEF Waits, TimesOut
  <2>2. pc[r] \in {"await", "waiting"} /\ UNCHANGED <<net, client>>
    BY <1>2 DEF Waits, TimesOut, netVars, askVars
  <2> QED
    BY <2>1, <2>2, MovesOn, SameNet DEF PCs
<1>3. CASE TakesFrame(r)
  <2>1. pc' = [pc EXCEPT ![r] = "await"] \/ pc' = [pc EXCEPT ![r] = "answered"]
    BY <1>3 DEF TakesFrame, Answer
  <2>2. pc[r] \in {"await", "woken"} /\ client' = client
    BY <1>3 DEF TakesFrame, MayDequeue, askVars
  <2>3. Close(client[r], pending) \/ net' = net
    BY <1>3 DEF TakesFrame, netVars
  <2>4. NetKept
    BY <2>3, CloseKeeps, SameNet
  <2> QED
    BY <2>1, <2>2, <2>4, MovesOn DEF PCs
<1>4. CASE Drops(r)
  <2>1. pc' = [pc EXCEPT ![r] = "answered"]
    BY <1>4 DEF Drops, Answer
  <2>2. pc[r] \in {"await", "woken"} /\ client' = client
    BY <1>4 DEF Drops, MayDequeue, askVars
  <2>3. NetKept
    BY <1>4, CloseKeeps DEF Drops
  <2> QED
    BY <2>1, <2>2, <2>3, MovesOn DEF PCs
<1>5. CASE CompleteConnect(r)
  <2>1. pc' = [pc EXCEPT ![r] = "send"] /\ pc[r] = "connect" /\ client' = client
    BY <1>5 DEF CompleteConnect
  <2>2. net' = [net EXCEPT ![client[r]] = "open"]
    BY <1>5 DEF CompleteConnect
  <2>3. NetKept
    BY <2>2 DEF NetKept, PoolTyped
  <2> QED
    BY <2>1, <2>3, MovesOn DEF PCs
<1> QED
  BY <1>1, <1>2, <1>3, <1>4, <1>5 DEF RequestStep

(* The other steps of connections, and those of the world.                 *)
LEMMA WorldKeeps ==
  ASSUME PoolTyped,
         \/ World
         \/ \E c \in Clients : Readable(c) \/ Connects(c) \/ ReaderStarts(c) \/ ReaderStep(c)
         \/ \E r \in Requests : Replies(r)
  PROVE  NetKept /\ PcKept /\ client' = client
<1>1. ASSUME NEW r \in Requests, Replies(r)
      PROVE  UNCHANGED <<net, pc, client>>
  BY <1>1 DEF Replies, ServerReplies, netVars, askVars
<1>2. ASSUME NEW c \in Clients,
             \/ ServerSendsOther(c) \/ ServerLeaves(c) \/ ReaderSpurious(c)
             \/ Readable(c) \/ Connects(c) \/ ReaderStarts(c) \/ ReaderReads(c) \/ ReaderEnds(c)
      PROVE  UNCHANGED <<net, pc, client>>
  BY <1>2 DEF ServerSendsOther, ServerLeaves, ReaderSpurious, Readable, Connects,
              ReaderStarts, ReaderReads, ReaderEnds, netVars, askVars
<1>3. ASSUME NEW c \in Clients, ReaderGivesUp(c)
      PROVE  NetKept /\ pc' = pc /\ client' = client
  BY <1>3, CloseKeeps DEF ReaderGivesUp, askVars
<1> QED
  BY <1>1, <1>2, <1>3, SamePc, SameNet DEF World, ReaderStep

-----------------------------------------------------------------------------
(* With fewer holders and no client made new the pool stays as it is.      *)
LEMMA FewerHolders ==
  ASSUME PIInv, NetKept, UNCHANGED <<client, poolVars>>,
         pc' \in [Requests -> PCs],
         \A r \in Requests : /\ pc[r] \in {"idle", "done"} => pc'[r] = pc[r]
                             /\ pc'[r] = "idle" => pc[r] = "idle"
  PROVE  PIInv'
<1>1. \A c : \A r \in Requests : Holds(r, c)' => Holds(r, c)
  BY DEF Holds
<1>2. PoolTyped'
  BY DEF PIInv, PoolTyped, NetKept, poolVars
<1>3. NoneIsNew'
  BY <1>1 DEF PIInv, PoolTyped, NoneIsNew, NetKept, poolVars
<1>4. PoolIsExclusive'
  BY <1>1 DEF PIInv, PoolTyped, PoolIsExclusive, poolVars
<1> QED
  BY <1>2, <1>3, <1>4 DEF PIInv

LEMMA ConnectFailsKeeps ==
  ASSUME PIInv, NEW r \in Requests, ConnectFails(r), UNCHANGED poolVars
  PROVE  PIInv'
<1>1. PoolTyped
  BY DEF PIInv
<1>2. pc' = [pc EXCEPT ![r] = "done"] /\ pc[r] = "connect"
  BY DEF ConnectFails
<1>3. net' = [net EXCEPT ![client[r]] = "closed"] /\ client' = client
  BY DEF ConnectFails, askVars
<1>4. NetKept
  BY <1>1, <1>3 DEF NetKept, PoolTyped
<1>5. /\ pc' \in [Requests -> PCs]
      /\ \A q \in Requests : q # r => pc'[q] = pc[q]
  BY <1>1, <1>2, MovesOn DEF PCs
<1>6. pc'[r] = "done"
  BY <1>1, <1>2 DEF PoolTyped
<1> QED
  BY <1>2, <1>3, <1>4, <1>5, <1>6, FewerHolders

(* Holds(r, c) after a step, for the client that c is before it.           *)
HoldsNext(r, c) == client'[r] = c /\ pc'[r] \notin {"idle", "done"}

(* getStreamIOS: the last client of the pool.                              *)
LEMMA PooledKeeps ==
  ASSUME PIInv, NEW r \in Requests, GetPooledStream(r)
  PROVE  PIInv'
<1> DEFINE n == Len(streams)
           c == streams[n]
<1>1. /\ PoolTyped /\ NoneIsNew /\ PoolIsExclusive
      /\ use = "pool" /\ pc[r] = "idle" /\ streams # <<>>
      /\ UNCHANGED <<net, use, activeStreams>>
  BY DEF PIInv, GetPooledStream, netVars
<1>2. n \in Nat \ {0} /\ c \in Clients /\ DOMAIN streams = 1..n
  BY <1>1 DEF PoolTyped
<1>3. client' = [client EXCEPT ![r] = c] /\ pc' = [pc EXCEPT ![r] = "send"]
  BY DEF GetPooledStream, Last
<1>4. streams' = SubSeq(streams, 1, n - 1)
  BY DEF GetPooledStream, Front
<1>5. /\ streams' \in Seq(Clients) /\ DOMAIN streams' = 1..(n - 1)
      /\ \A i \in 1..(n - 1) : streams'[i] = streams[i]
  BY <1>1, <1>2, <1>4 DEF PoolTyped
<1> HIDE DEF n, c
<1>6. HoldsNext(r, c) /\ client'[r] = c
  BY <1>1, <1>3 DEF Holds, HoldsNext, PoolTyped
<1>7. \A q \in Requests, d \in Clients : q # r /\ HoldsNext(q, d) => Holds(q, d) /\ d # c
  <2>1. \A q \in Requests : q # r => client'[q] = client[q] /\ pc'[q] = pc[q]
    BY <1>1, <1>3 DEF PoolTyped
  <2>2. \A q \in Requests : ~Holds(q, c)
    BY <1>1, <1>2 DEF PoolIsExclusive, c
  <2> QED
    BY <2>1, <2>2 DEF Holds, HoldsNext
<1>8. \A i \in DOMAIN streams' : i \in DOMAIN streams /\ streams'[i] = streams[i] /\ streams[i] # c
  <2>1. \A i \in 1..(n - 1) : i \in 1..n /\ n \in 1..n /\ i # n
    BY <1>2
  <2>2. \A i \in 1..(n - 1) : streams[i] # streams[n]
    BY <1>1, <1>2, <2>1 DEF PoolIsExclusive, IsInjective
  <2> QED
    BY <1>2, <1>5, <2>1, <2>2 DEF c
<1>9. PoolTyped'
  BY <1>1, <1>2, <1>3, <1>5 DEF PoolTyped, PCs
<1>10. net[c] # "new" /\ c \in Clients
  BY <1>1, <1>2 DEF NoneIsNew, c
<1>11. NoneIsNew'
  <2>1. \A q \in Requests, d \in Clients : HoldsNext(q, d) => d = c \/ Holds(q, d)
    BY <1>6, <1>7 DEF Holds, HoldsNext
  <2> QED
    BY <1>1, <1>8, <1>10, <2>1 DEF NoneIsNew, Holds, HoldsNext
<1>12. PoolIsExclusive'
  <2>1. IsInjective(streams)'
    BY <1>1, <1>8 DEF PoolIsExclusive, IsInjective
  <2>2. \A i \in DOMAIN streams' :
          streams'[i] \notin activeStreams' /\ \A q \in Requests : ~HoldsNext(q, streams'[i])
    <3> SUFFICES ASSUME NEW i \in DOMAIN streams', NEW q \in Requests
                 PROVE  streams'[i] \notin activeStreams' /\ ~HoldsNext(q, streams'[i])
      BY <1>1, <1>8 DEF PoolIsExclusive
    <3>1. streams'[i] = streams[i] /\ i \in DOMAIN streams /\ streams[i] # c /\ streams[i] \in Clients
      BY <1>1, <1>8 DEF PoolTyped
    <3>2. ~Holds(q, streams[i])
      BY <1>1, <3>1 DEF PoolIsExclusive
    <3>3. streams'[i] \notin activeStreams'
      BY <1>1, <3>1 DEF PoolIsExclusive
    <3>4. CASE q = r
      BY <1>6, <3>1, <3>3, <3>4 DEF HoldsNext
    <3>5. CASE q # r
      BY <1>7, <3>1, <3>2, <3>3, <3>5
    <3> QED
      BY <3>4, <3>5
  <2>3. \A d \in Clients, q, s \in Requests : HoldsNext(q, d) /\ HoldsNext(s, d) => q = s
    <3> SUFFICES ASSUME NEW d \in Clients, NEW q \in Requests, NEW s \in Requests,
                        HoldsNext(q, d), HoldsNext(s, d)
                 PROVE  q = s
      OBVIOUS
    <3>1. HoldsNext(r, d) => d = c
      BY <1>6 DEF Holds, HoldsNext
    <3>2. CASE q = r \/ s = r
      BY <1>7, <3>1, <3>2
    <3>3. CASE q # r /\ s # r
      BY <1>1, <1>7, <3>3 DEF PoolIsExclusive
    <3> QED
      BY <3>2, <3>3
  <2> QED
    BY <2>1, <2>2, <2>3 DEF PoolIsExclusive, Holds, HoldsNext
<1> QED
  BY <1>9, <1>11, <1>12 DEF PIInv

(* getStreamIOS: a new client.                                             *)
LEMMA NewKeeps ==
  ASSUME PIInv, NEW r \in Requests, GetNewStream(r)
  PROVE  PIInv'
<1>1. /\ PoolTyped /\ NoneIsNew /\ PoolIsExclusive
      /\ use = "pool" /\ pc[r] = "idle" /\ streams = <<>>
      /\ UNCHANGED <<use, streams>>
  BY DEF PIInv, GetNewStream
<1>2. PICK c \in Clients :
        /\ net[c] = "new"
        /\ net' = [net EXCEPT ![c] = "connecting"]
        /\ client' = [client EXCEPT ![r] = c]
  BY DEF GetNewStream
<1>3. pc' = [pc EXCEPT ![r] = "connect"]
  BY DEF GetNewStream
<1>4. PoolTyped'
  BY <1>1, <1>2, <1>3 DEF PoolTyped, PCs
<1>5. \A q \in Requests, d \in Clients : HoldsNext(q, d) =>
         (q = r /\ d = c) \/ (q # r /\ Holds(q, d) /\ d # c)
  <2>1. \A q \in Requests : q # r => client'[q] = client[q] /\ pc'[q] = pc[q]
    BY <1>1, <1>2, <1>3 DEF PoolTyped
  <2>2. \A q \in Requests : ~Holds(q, c)
    BY <1>1, <1>2 DEF NoneIsNew
  <2>3. client'[r] = c
    BY <1>1, <1>2 DEF PoolTyped
  <2> QED
    BY <2>1, <2>2, <2>3 DEF Holds, HoldsNext
<1>6. net'[c] # "new" /\ \A d \in Clients : d # c => net'[d] = net[d]
  BY <1>1, <1>2 DEF PoolTyped
<1>7. NoneIsNew'
  BY <1>1, <1>5, <1>6 DEF NoneIsNew, Holds, HoldsNext
<1>8. PoolIsExclusive'
  <2>1. IsInjective(streams)'
    BY <1>1 DEF IsInjective
  <2>2. \A d \in Clients, q, s \in Requests : HoldsNext(q, d) /\ HoldsNext(s, d) => q = s
    BY <1>1, <1>5 DEF PoolIsExclusive
  <2> QED
    BY <1>1, <2>1, <2>2 DEF PoolIsExclusive, Holds, HoldsNext
<1> QED
  BY <1>4, <1>7, <1>8 DEF PIInv

(* releaseStreamIOS.                                                       *)
LEMMA ReleaseKeeps ==
  ASSUME PIInv, NEW r \in Requests, ReleaseStream(r)
  PROVE  PIInv'
<1> DEFINE c == client[r]
           n == Len(streams)
<1>1. /\ PoolTyped /\ NoneIsNew /\ PoolIsExclusive
      /\ use = "pool" /\ pc[r] = "answered"
      /\ UNCHANGED <<net, client, use>>
      /\ pc' = [pc EXCEPT ![r] = "done"]
      /\ activeStreams' = activeStreams \ {c}
      /\ streams' = IF net[c] = "open" THEN Append(streams, c) ELSE streams
  BY DEF PIInv, ReleaseStream, netVars, askVars
<1>2. c \in Clients /\ Holds(r, c) /\ n \in Nat /\ DOMAIN streams = 1..n
  BY <1>1 DEF PoolTyped, Holds, HoldsNext
<1> HIDE DEF c, n
<1>3. net[c] # "new" /\ \A i \in DOMAIN streams : streams[i] # c
  <2>1. \A i \in DOMAIN streams : streams[i] # c
    BY <1>1, <1>2 DEF PoolIsExclusive
  <2> QED
    BY <1>1, <1>2, <2>1 DEF NoneIsNew
<1>4. \A q \in Requests, d \in Clients : HoldsNext(q, d) => q # r /\ Holds(q, d) /\ d # c
  <2>1. pc'[r] = "done" /\ \A q \in Requests : q # r => pc'[q] = pc[q]
    BY <1>1 DEF PoolTyped
  <2>2. \A q \in Requests : q # r => ~Holds(q, c)
    BY <1>1, <1>2 DEF PoolIsExclusive
  <2> QED
    BY <1>1, <2>1, <2>2 DEF Holds, HoldsNext
<1>5. \A i \in DOMAIN streams' :
        \/ i \in DOMAIN streams /\ streams'[i] = streams[i]
        \/ i = n + 1 /\ streams'[i] = c
  BY <1>1, <1>2 DEF PoolTyped, n
<1>6. PoolTyped'
  <2>1. streams' \in Seq(Clients)
    BY <1>1, <1>2 DEF PoolTyped
  <2> QED
    BY <1>1, <2>1 DEF PoolTyped, PCs
<1>7. NoneIsNew'
  BY <1>1, <1>3, <1>4, <1>5 DEF NoneIsNew, Holds, HoldsNext
<1>8. PoolIsExclusive'
  <2>1. IsInjective(streams)'
    <3> SUFFICES ASSUME NEW i \in DOMAIN streams', NEW j \in DOMAIN streams',
                        streams'[i] = streams'[j]
                 PROVE  i = j
      BY DEF IsInjective
    <3>1. CASE i \in DOMAIN streams /\ streams'[i] = streams[i] /\ j \in DOMAIN streams /\ streams'[j] = streams[j]
      BY <1>1, <3>1 DEF PoolIsExclusive, IsInjective
    <3> QED
      BY <1>3, <1>5, <3>1
  <2>2. \A i \in DOMAIN streams' :
          streams'[i] \notin activeStreams' /\ \A q \in Requests : ~HoldsNext(q, streams'[i])
    <3> SUFFICES ASSUME NEW i \in DOMAIN streams', NEW q \in Requests
                 PROVE  streams'[i] \notin activeStreams' /\ ~HoldsNext(q, streams'[i])
      BY <1>1, <1>5 DEF PoolIsExclusive
    <3>1. CASE i \in DOMAIN streams /\ streams'[i] = streams[i]
      <4>1. streams[i] \in Clients /\ ~Holds(q, streams[i]) /\ streams[i] \notin activeStreams
        BY <1>1, <3>1 DEF PoolTyped, PoolIsExclusive
      <4>2. ~HoldsNext(q, streams[i])
        BY <1>1, <1>4, <3>1, <4>1 DEF Holds, HoldsNext
      <4> QED
        BY <1>1, <3>1, <4>1, <4>2 DEF Holds, HoldsNext
    <3>2. CASE streams'[i] = c
      <4>1. ~(client'[q] = c /\ pc'[q] \notin {"idle", "done"})
        BY <1>2, <1>4 DEF Holds, HoldsNext
      <4> QED
        BY <1>1, <3>2, <4>1 DEF Holds, HoldsNext
    <3> QED
      BY <1>5, <3>1, <3>2
  <2>3. \A d \in Clients, q, s \in Requests : HoldsNext(q, d) /\ HoldsNext(s, d) => q = s
    BY <1>1, <1>4 DEF PoolIsExclusive
  <2> QED
    BY <2>1, <2>2, <2>3 DEF PoolIsExclusive, Holds, HoldsNext
<1> QED
  BY <1>6, <1>7, <1>8 DEF PIInv

-----------------------------------------------------------------------------
LEMMA NextPIInv == PIInv /\ [Next]_vars => PIInv'
<1> SUFFICES ASSUME PIInv, [Next]_vars PROVE PIInv'
  OBVIOUS
<1>0. PoolTyped
  BY DEF PIInv
<1>1. ASSUME NetKept, PcKept, client' = client, UNCHANGED poolVars
      PROVE  PIInv'
  BY <1>1, FewerHolders DEF PcKept
<1>2. CASE UNCHANGED vars
  <2>1. UNCHANGED <<net, pc, client, poolVars>>
    BY <1>2 DEF vars, cvars, netVars, askVars
  <2> QED
    BY <1>0, <1>1, <2>1, SamePc, SameNet
<1>3. ASSUME NEW r \in Requests, PushStep(r)
      PROVE  PIInv'
  BY <1>3, PooledKeeps, NewKeeps, ReleaseKeeps DEF PushStep
<1>4. ASSUME Progress, UNCHANGED poolVars
      PROVE  PIInv'
  <2>1. ASSUME NEW c \in Clients, ReadFrame(c)
        PROVE  PIInv'
    BY <1>0, <1>1, <1>4, <2>1, FrameKeeps
  <2>2. ASSUME NEW c \in Clients,
               Readable(c) \/ Connects(c) \/ ReaderStarts(c) \/ ReaderStep(c)
        PROVE  PIInv'
    BY <1>0, <1>1, <1>4, <2>2, WorldKeeps
  <2>3. ASSUME NEW r \in Requests, RequestStep(r) \/ TimesOut(r) \/ CompleteConnect(r)
        PROVE  PIInv'
    BY <1>0, <1>1, <1>4, <2>3, RequestKeeps
  <2>4. ASSUME NEW r \in Requests, ConnectFails(r)
        PROVE  PIInv'
    BY <1>4, <2>4, ConnectFailsKeeps
  <2>5. ASSUME NEW r \in Requests, Replies(r)
        PROVE  PIInv'
    BY <1>0, <1>1, <1>4, <2>5, WorldKeeps
  <2> QED
    BY <1>4, <2>1, <2>2, <2>3, <2>4, <2>5 DEF Progress
<1>5. CASE World /\ UNCHANGED poolVars
  BY <1>0, <1>1, <1>5, WorldKeeps
<1> QED
  BY <1>2, <1>3, <1>4, <1>5 DEF Next, Moves

(* However many pushes run at once, and whichever way connections fail, a  *)
(* client is held by one push or lies in the pool once, never both.        *)
THEOREM PoolGivesOutOnce == SafeSpec => []PoolIsExclusive
<1>1. PIInv => PoolIsExclusive
  BY DEF PIInv
<1> QED
  BY <1>1, InitPIInv, NextPIInv, PTL DEF SafeSpec

-----------------------------------------------------------------------------
(* ResponseIsWhole.  bytesToHeader reads some numbers of streams as        *)
(* others; as long as no request of a client is taken for another one,     *)
(* the frames that the server sent and nobody has taken yet are, for each  *)
(* request, the next ones of its response, in order.                       *)

StreamsReadApart ==
  \A r, s \in Requests :
    /\ client[r] = client[s]
    /\ stream[r] # 0 /\ stream[s] # 0 /\ IdRead(stream[s]) = stream[r]
    => r = s

(* What the server sent to client c and no request has taken.              *)
Sent(c) == frameQueue[c] \o wire[c]

(* Frame f belongs to the response of r.                                   *)
IsOf(f, r) == f.type \in {"HEADERS", "DATA"} /\ f.of = r

(* The numbers of r's frames before the j-th.                              *)
Before(q, j, r) == {q[i].n : i \in {k \in 1..(j - 1) : IsOf(q[k], r)}}

(* Frame f of client c is one of r's response, and follows those with the  *)
(* numbers ns, or what r has.                                              *)
Fits(f, c, r, ns) ==
  /\ client[r] = c /\ stream[r] # 0 /\ f.id = IdRead(stream[r])
  /\ f.n \in 1..reply[r].frames
  /\ f.end <=> f.n = reply[r].frames /\ reply[r].ended
  /\ \A m \in ns : m < f.n
  /\ cut[r] = "no" =>
       /\ f.n > Len(got[r])
       /\ f.n > Len(got[r]) + 1 => f.n - 1 \in ns

AnswersIn(q, c) ==
  \A r \in Requests : \A j \in 1..Len(q) :
    IsOf(q[j], r) => Fits(q[j], c, r, Before(q, j, r))

(* Every frame of an answer belongs to a request.                          *)
Sequel == \A c \in Clients : AnswersIn(Sent(c), c)

(* On an open connection no frame is lost: the last one the server sent is *)
(* there unless it was taken.                                              *)
LastIn(q, r) == \E i \in 1..Len(q) : IsOf(q[i], r) /\ q[i].n = reply[r].frames
NoneLost ==
  \A r \in Requests, c \in Clients :
    client[r] = c /\ net[c] = "open" /\ cut[r] = "no" /\ reply[r].frames > Len(got[r]) =>
      LastIn(Sent(c), r)

GotSoFar ==
  \A r \in Requests : cut[r] = "no" =>
    /\ Len(got[r]) <= reply[r].frames
    /\ got[r] = [i \in 1..Len(got[r]) |-> <<r, i>>]
    /\ told[r] = "response" => reply[r].ended /\ Len(got[r]) = reply[r].frames

NotAsked ==
  \A r \in Requests :
    /\ pc[r] \in {"idle", "connect", "send"} =>
         /\ stream[r] = 0 /\ told[r] = "nothing" /\ got[r] = <<>>
         /\ reply[r] = [frames |-> 0, ended |-> FALSE] /\ cut[r] = "no"
    /\ pc[r] \in {"sending", "await", "waiting", "woken"} => stream[r] # 0 /\ told[r] = "nothing"

(* Nothing reads or closes a client that is not connected yet, and what    *)
(* has asked holds none of these.                                          *)
Early == {"new", "connecting"}
OnlyConnects(q, c) ==
  \A i \in 1..Len(q) : q[i] # <<"connected", c>> => q[i][2] # c
Untouched ==
  \A c \in Clients : net[c] \in Early =>
    reader[c] = "none" /\ watched[c] = "no" /\ OnlyConnects(pending, c)
HeldOnes ==
  \A r \in Requests :
    /\ pc[r] = "connect" => net[client[r]] = "connecting" /\ use = "pool"
    /\ pc[r] \notin {"idle", "connect"} => net[client[r]] \notin Early
PooledOnes == \A i \in DOMAIN streams : net[streams[i]] \notin Early
NotConnected == Untouched /\ HeldOnes /\ PooledOnes

IDs == {IdRead(n) : n \in Nat} \cup {0}
Frames == {f \in [type : {"HEADERS", "DATA", "SETTINGS", "ACK", "OTHER"}, id : IDs,
                  end : BOOLEAN, whole : BOOLEAN, alone : BOOLEAN, of : Requests \cup {NoClient}, n : Nat] :
             f.type \in {"HEADERS", "DATA"} => f.of \in Requests}
Closures == {"reader", "read", "readable", "connected"} \X Clients

Cuts == {"no", "payload", "block"}
Outcomes == {"nothing", "no client", "unable", "response", "unexpected", "dropped"}

AnswersTyped ==
  /\ frameQueue \in [Clients -> Seq(Frames)] /\ wire \in [Clients -> Seq(Frames)]
  /\ stream \in [Requests -> Nat] /\ streamCounter \in [Clients -> Nat \ {0}]
  /\ told \in [Requests -> Outcomes]
  /\ cut \in [Requests -> Cuts]
  /\ got \in [Requests -> Seq((Requests \cup {NoClient}) \X Nat)]
  /\ reply \in [Requests -> [frames : Nat, ended : BOOLEAN]]
  /\ pending \in Seq(Closures)
  /\ reader \in [Clients -> {"none", "top", "waiting", "test", "ended"}]
  /\ watched \in [Clients -> {"no", "yes", "lost"}]

Asking == AnswersTyped /\ NotAsked /\ NotConnected
Answering == Sequel /\ NoneLost /\ GotSoFar
WIInv == PIInv /\ Asking /\ (StreamsReadApart => Answering)

-----------------------------------------------------------------------------
(* Lemmas about sequences of frames.                                       *)

(* f and g are one frame, with or without its payload.                     *)
Same(f, g) ==
  f.type = g.type /\ f.id = g.id /\ f.end = g.end /\ f.of = g.of /\ f.n = g.n

(* A part of the sequence from its start.                                  *)
LEMMA PartKeeps ==
  ASSUME NEW c, NEW q, NEW p, AnswersIn(q, c), Len(q) \in Nat, Len(p) \in 0..Len(q),
         \A i \in 1..Len(p) : Same(p[i], q[i])
  PROVE  AnswersIn(p, c)
<1> SUFFICES ASSUME NEW r \in Requests, NEW j \in 1..Len(p), IsOf(p[j], r)
             PROVE  Fits(p[j], c, r, Before(p, j, r))
  BY DEF AnswersIn
<1>1. \A i \in 1..j : i \in 1..Len(q) /\ (IsOf(p[i], r) <=> IsOf(q[i], r)) /\ p[i].n = q[i].n
  BY DEF Same, IsOf
<1>2. Before(p, j, r) = Before(q, j, r)
  BY <1>1 DEF Before
<1>3. j \in 1..Len(q) /\ IsOf(q[j], r) /\ Same(p[j], q[j])
  BY <1>1
<1>4. Fits(q[j], c, r, Before(q, j, r))
  BY <1>3 DEF AnswersIn
<1> QED
  BY <1>2, <1>3, <1>4 DEF Same, Fits

(* One frame more.                                                         *)
LEMMA AppendKeeps ==
  ASSUME NEW c, NEW S, NEW q \in Seq(S), NEW f, AnswersIn(q, c),
         \A r \in Requests : IsOf(f, r) => Fits(f, c, r, Before(q, Len(q) + 1, r))
  PROVE  AnswersIn(Append(q, f), c)
<1> DEFINE p == Append(q, f)
<1>1. Len(q) \in Nat /\ Len(p) = Len(q) + 1 /\ p[Len(q) + 1] = f /\ \A i \in 1..Len(q) : p[i] = q[i]
  OBVIOUS
<1> HIDE DEF p
<1> SUFFICES ASSUME NEW r \in Requests, NEW j \in 1..Len(p), IsOf(p[j], r)
             PROVE  Fits(p[j], c, r, Before(p, j, r))
  BY DEF AnswersIn, p
<1>2. Before(p, j, r) = Before(q, j, r)
  <2>1. \A i \in 1..(j - 1) : p[i] = q[i]
    BY <1>1
  <2> QED
    BY <2>1 DEF Before
<1>3. CASE p[j] = f /\ j = Len(q) + 1
  BY <1>2, <1>3
<1>4. CASE p[j] = q[j] /\ j \in 1..Len(q)
  BY <1>2, <1>4 DEF AnswersIn
<1> QED
  BY <1>1, <1>3, <1>4

(* The k-th frame is taken out: p is q without it.                         *)
Without(p, q, k) ==
  /\ Len(q) \in Nat /\ k \in 1..Len(q) /\ Len(p) = Len(q) - 1
  /\ \A i \in 1..Len(p) : p[i] = IF i < k THEN q[i] ELSE q[i + 1]

LEMMA InBefore ==
  ASSUME NEW q, NEW j, NEW r, NEW i \in 1..(j - 1), IsOf(q[i], r)
  PROVE  q[i].n \in Before(q, j, r)
BY DEF Before

LEMMA BeforeWithout ==
  ASSUME NEW p, NEW q, NEW k, Without(p, q, k), NEW r, NEW i \in 1..Len(p)
  PROVE  LET j == IF i < k THEN i ELSE i + 1 IN
           /\ j \in 1..Len(q) /\ j # k /\ p[i] = q[j]
           /\ ~IsOf(q[k], r) => Before(p, i, r) = Before(q, j, r)
           /\ Before(q, j, r) \ {q[k].n} \subseteq Before(p, i, r)
           /\ Before(p, i, r) \subseteq Before(q, j, r)
<1> DEFINE j == IF i < k THEN i ELSE i + 1
<1>1. j \in 1..Len(q) /\ j # k /\ p[i] = q[j] /\ k \in Int /\ 1 <= k /\ i \in Int
  BY DEF Without
<1>2. \A m \in 1..(i - 1) : p[m] = IF m < k THEN q[m] ELSE q[m + 1]
  BY DEF Without
<1>3. ASSUME NEW n \in Before(p, i, r)
      PROVE  n \in Before(q, j, r)
  <2>1. PICK m \in 1..(i - 1) : IsOf(p[m], r) /\ p[m].n = n
    BY <1>3 DEF Before
  <2>2. CASE m < k
    <3>1. m \in 1..(j - 1) /\ q[m] = p[m]
      BY <1>1, <1>2, <2>2
    <3> QED
      BY <2>1, <3>1, InBefore
  <2>3. CASE ~(m < k)
    <3>1. m + 1 \in 1..(j - 1) /\ q[m + 1] = p[m]
      BY <1>1, <1>2, <2>3
    <3> QED
      BY <2>1, <3>1, InBefore
  <2> QED
    BY <2>2, <2>3
<1>4. ASSUME NEW m \in 1..(j - 1), IsOf(q[m], r), m # k
      PROVE  q[m].n \in Before(p, i, r)
  <2>1. CASE m < k
    <3>1. m \in 1..(i - 1) /\ q[m] = p[m]
      BY <1>1, <1>2, <2>1
    <3> QED
      BY <1>4, <3>1, InBefore
  <2>2. CASE m > k
    <3>1. PICK u \in 1..(i - 1) : u + 1 = m /\ ~(u < k)
      <4>1. m - 1 \in 1..(i - 1) /\ (m - 1) + 1 = m /\ ~(m - 1 < k)
        BY <1>1, <2>2
      <4> QED
        BY <4>1
    <3>2. p[u] = q[m]
      BY <1>2, <3>1
    <3> QED
      BY <1>4, <3>2, InBefore
  <2> QED
    BY <1>1, <1>4, <2>1, <2>2
<1>5. \A n \in Before(q, j, r) : \E m \in 1..(j - 1) : IsOf(q[m], r) /\ q[m].n = n
  BY DEF Before
<1> HIDE DEF j
<1>6. Before(q, j, r) \ {q[k].n} \subseteq Before(p, i, r)
  BY <1>4, <1>5
<1>7. ~IsOf(q[k], r) => Before(q, j, r) \subseteq Before(p, i, r)
  BY <1>4, <1>5
<1> QED
  BY <1>1, <1>3, <1>6, <1>7 DEF j

(* A frame of no response is taken out.                                    *)
LEMMA OtherTakenKeeps ==
  ASSUME NEW c, NEW q, NEW p, NEW k, AnswersIn(q, c), Without(p, q, k),
         \A r \in Requests : ~IsOf(q[k], r)
  PROVE  AnswersIn(p, c)
<1> SUFFICES ASSUME NEW r \in Requests, NEW i \in 1..Len(p), IsOf(p[i], r)
             PROVE  Fits(p[i], c, r, Before(p, i, r))
  BY DEF AnswersIn
<1>1. PICK j \in 1..Len(q) : p[i] = q[j] /\ Before(p, i, r) = Before(q, j, r)
  BY BeforeWithout
<1> QED
  BY <1>1 DEF AnswersIn

(* Request r takes the first frame of its response.                        *)
LEMMA OwnTakenKeeps ==
  ASSUME NEW c, NEW q, NEW p, NEW k, AnswersIn(q, c), Without(p, q, k),
         NEW r \in Requests, IsOf(q[k], r), \A i \in 1..(k - 1) : ~IsOf(q[i], r),
         UNCHANGED <<client, stream, reply>>,
         \A s \in Requests : s # r => got'[s] = got[s] /\ cut'[s] = cut[s],
         Len(got[r]) \in Nat,
         cut'[r] # "no" \/ (cut[r] = "no" /\ Len(got'[r]) = Len(got[r]) + 1)
  PROVE  /\ AnswersIn(p, c)'
         /\ cut'[r] = "no" => q[k].n = Len(got[r]) + 1
<1>1. Before(q, k, r) = {} /\ Fits(q[k], c, r, {})
  <2>1. Before(q, k, r) = {}
    BY DEF Before
  <2> QED
    BY <2>1 DEF AnswersIn, Without
<1>2. cut'[r] = "no" => cut[r] = "no" /\ q[k].n = Len(got[r]) + 1 /\ Len(got'[r]) = Len(got[r]) + 1
  BY <1>1 DEF Fits
<1> SUFFICES ASSUME NEW s \in Requests, NEW i \in 1..Len(p), IsOf(p[i], s)
             PROVE  Fits(p[i], c, s, Before(p, i, s))'
  BY <1>2 DEF AnswersIn, Before
<1> DEFINE j == IF i < k THEN i ELSE i + 1
<1>3. /\ j \in 1..Len(q) /\ j # k /\ p[i] = q[j]
      /\ ~IsOf(q[k], s) => Before(p, i, s) = Before(q, j, s)
      /\ Before(q, j, s) \ {q[k].n} \subseteq Before(p, i, s)
      /\ Before(p, i, s) \subseteq Before(q, j, s)
  BY BeforeWithout
<1> HIDE DEF j
<1>4. Fits(q[j], c, s, Before(q, j, s))
  BY <1>3 DEF AnswersIn
<1>5. CASE s # r
  <2>1. ~IsOf(q[k], s)
    BY <1>5 DEF IsOf
  <2>2. Before(p, i, s) = Before(q, j, s) /\ got'[s] = got[s] /\ cut'[s] = cut[s]
    BY <1>3, <1>5, <2>1
  <2> QED
    BY <1>3, <1>4, <2>2 DEF Fits, Before
<1>6. CASE s = r
  <2>1. k \in 1..(j - 1)
    BY <1>3, <1>6 DEF Without
  <2>2. q[k].n \in Before(q, j, r)
    BY <2>1, InBefore
  <2>3. q[j].n \in Int /\ q[k].n < q[j].n
    BY <1>4, <1>6, <2>2 DEF Fits
  <2>4. ASSUME cut'[r] = "no"
        PROVE  /\ q[j].n > Len(got'[r])
               /\ q[j].n > Len(got'[r]) + 1 => q[j].n - 1 \in Before(p, i, r)
    <3>1. q[j].n > Len(got'[r])
      BY <1>2, <2>3, <2>4
    <3>2. ASSUME q[j].n > Len(got'[r]) + 1
          PROVE  q[j].n - 1 \in Before(p, i, r)
      <4>1. q[j].n - 1 \in Before(q, j, r)
        BY <1>2, <1>4, <1>6, <2>3, <2>4, <3>2 DEF Fits
      <4>2. q[j].n - 1 # q[k].n
        BY <1>2, <2>3, <2>4, <3>2
      <4> QED
        BY <1>3, <1>6, <4>1, <4>2
    <3> QED
      BY <3>1, <3>2
  <2> QED
    BY <1>3, <1>4, <1>6, <2>4 DEF Fits, Before
<1> QED
  BY <1>5, <1>6

-----------------------------------------------------------------------------
(* A set of numbers has a least one.                                       *)
LEMMA LeastOf ==
  ASSUME NEW T \in SUBSET Nat, T # {}
  PROVE  \E x \in T : \A y \in T : x <= y
<1> DEFINE R == OpToRel(<, Nat)
<1>1. IsWellFoundedOn(R, Nat)
  BY NatLessThanWellFounded
<1>2. \E x \in T : \A y \in T : ~ (<<y, x>> \in R)
  <2> HIDE DEF R
  <2> QED
    BY <1>1, WFMin
<1>3. \E x \in T : \A y \in T : ~(y < x)
  BY <1>2 DEF OpToRel
<1> QED
  BY <1>3

(* Lemmas about the queue of closures.                                     *)

LEMMA Taken ==
  ASSUME NEW closure, pending \in Seq(Closures), Starts(closure)
  PROVE  /\ Tail(pending) \in Seq(Closures)
         /\ 1 \in 1..Len(pending) /\ pending[1] = closure
         /\ \A d : OnlyConnects(pending, d) => OnlyConnects(Tail(pending), d)
<1>1. pending # <<>> /\ Head(pending) = closure
  BY DEF Starts
<1>2. /\ Tail(pending) \in Seq(Closures) /\ 1 \in 1..Len(pending) /\ pending[1] = closure
      /\ Len(Tail(pending)) = Len(pending) - 1 /\ Len(pending) \in Nat
      /\ \A i \in 1..Len(Tail(pending)) : Tail(pending)[i] = pending[i + 1]
  BY <1>1
<1>3. \A i \in 1..Len(Tail(pending)) : i + 1 \in 1..Len(pending)
  BY <1>2
<1> QED
  BY <1>2, <1>3 DEF OnlyConnects

LEMMA Added ==
  ASSUME NEW q \in Seq(Closures), NEW closure \in Closures
  PROVE  /\ Append(q, closure) \in Seq(Closures)
         /\ \A d : OnlyConnects(q, d) /\ (closure = <<"connected", d>> \/ closure[2] # d) =>
              OnlyConnects(Append(q, closure), d)
<1>1. /\ Append(q, closure) \in Seq(Closures) /\ Len(Append(q, closure)) = Len(q) + 1
      /\ \A i \in 1..Len(Append(q, closure)) :
           IF i \in 1..Len(q) THEN Append(q, closure)[i] = q[i] ELSE Append(q, closure)[i] = closure
  OBVIOUS
<1> QED
  BY <1>1 DEF OnlyConnects

(* close tells the queue nothing about another client.                     *)
LEMMA CloseFacts ==
  ASSUME PoolTyped, AnswersTyped, NEW c \in Clients, NEW q \in Seq(Closures), Close(c, q)
  PROVE  /\ net' = [net EXCEPT ![c] = "closed"]
         /\ watched' \in [Clients -> {"no", "yes", "lost"}]
         /\ \A d \in Clients \ {c} : watched'[d] = watched[d]
         /\ pending' \in Seq(Closures)
         /\ \A d \in Clients \ {c} : OnlyConnects(q, d) => OnlyConnects(pending', d)
<1>1. <<"readable", c>> \in Closures
  BY DEF Closures
<1>2. pending' = q \/ pending' = Append(q, <<"readable", c>>)
  BY DEF Close
<1>3. /\ pending' \in Seq(Closures)
      /\ \A d \in Clients \ {c} : OnlyConnects(q, d) => OnlyConnects(pending', d)
  BY <1>1, <1>2, Added
<1>4. /\ watched' \in [Clients -> {"no", "yes", "lost"}]
      /\ \A d \in Clients \ {c} : watched'[d] = watched[d]
  BY DEF Close, AnswersTyped
<1> QED
  BY <1>3, <1>4 DEF Close

-----------------------------------------------------------------------------
(* What a step of a connected client does not do to NotConnected, and one  *)
(* that asks nothing not to NotAsked.                                      *)

Of(c) ==
  /\ net[c] \notin Early /\ net'[c] \notin Early
  /\ \A d \in Clients \ {c} :
       /\ net'[d] = net[d] /\ reader'[d] = reader[d] /\ watched'[d] = watched[d]
       /\ OnlyConnects(pending, d) => OnlyConnects(pending', d)

PcStays ==
  \A r \in Requests :
    /\ pc'[r] \in {"idle", "connect"} <=> pc[r] \in {"idle", "connect"}
    /\ pc'[r] = "connect" => pc[r] = "connect"
    /\ pc'[r] = "send" => pc[r] = "send"

PcAsks ==
  \A r \in Requests :
    pc'[r] \in {"sending", "await", "waiting", "woken"} =>
      pc[r] \in {"sending", "await", "waiting", "woken"}

LEMMA OwnStep ==
  ASSUME PoolTyped, NotConnected, NEW c \in Clients, Of(c), PcStays,
         UNCHANGED <<client, use, streams>>
  PROVE  NotConnected'
<1>1. Untouched'
  BY DEF NotConnected, Untouched, Of
<1>2. HeldOnes'
  <2> SUFFICES ASSUME NEW r \in Requests
               PROVE  /\ pc'[r] = "connect" => net'[client[r]] = "connecting" /\ use = "pool"
                      /\ pc'[r] \notin {"idle", "connect"} => net'[client[r]] \notin Early
    BY DEF HeldOnes
  <2>1. pc[r] # "idle" => client[r] \in Clients
    BY DEF PoolTyped
  <2>2. net[client[r]] = "connecting" => client[r] # c
    BY DEF Of, Early
  <2>3. client[r] \in Clients => \/ net'[client[r]] = net[client[r]]
                                 \/ net'[client[r]] \notin Early /\ net[client[r]] \notin Early
    BY DEF Of
  <2>4. /\ pc[r] = "connect" => net[client[r]] = "connecting" /\ use = "pool"
        /\ pc[r] \notin {"idle", "connect"} => net[client[r]] \notin Early
    BY DEF NotConnected, HeldOnes
  <2> QED
    BY <2>1, <2>2, <2>3, <2>4 DEF PcStays, Early
<1>3. PooledOnes'
  BY DEF NotConnected, PooledOnes, Of, PoolTyped
<1> QED
  BY <1>1, <1>2, <1>3 DEF NotConnected

LEMMA SameAsked ==
  ASSUME NotAsked, UNCHANGED <<stream, told, got, reply, cut>>, PcStays, PcAsks
  PROVE  NotAsked'
BY DEF NotAsked, PcStays, PcAsks

(* The frames that come and go.                                            *)
LEMMA FrameTyped ==
  ASSUME AnswersTyped
  PROVE  /\ \A r \in Requests, n \in Nat, end, alone \in BOOLEAN :
              ResponseFrame(r, n, end, alone) \in Frames
         /\ \A r \in Requests : OtherFrame("OTHER", IdRead(stream[r])) \in Frames
         /\ \A t \in {"OTHER", "SETTINGS", "ACK"} : OtherFrame(t, 0) \in Frames
         /\ \A f \in Frames : [f EXCEPT !.whole = FALSE] \in Frames
BY DEF AnswersTyped, ResponseFrame, OtherFrame, Frames, IDs

LEMMA BroadcastFacts ==
  ASSUME PoolTyped, AnswersTyped, NEW c \in Clients, Broadcast(c)
  PROVE  /\ reader' \in [Clients -> {"none", "top", "waiting", "test", "ended"}]
         /\ \A d \in Clients \ {c} : reader'[d] = reader[d]
         /\ PcStays /\ PcAsks
BY DEF Broadcast, AnswersTyped, PcStays, PcAsks, PoolTyped

-----------------------------------------------------------------------------
(* Asking is kept, step by step.                                           *)
LEMMA ReadAsks ==
  ASSUME PIInv, Asking, NEW c \in Clients, ReadFrame(c), UNCHANGED poolVars
  PROVE  Asking'
<1>1. PICK kind \in {"read", "readable"} :
        /\ Starts(<<kind, c>>)
        /\ \/ /\ net[c] = "open" /\ wire[c] # <<>>
              /\ GotFrame(c, Head(wire[c]), Tail(pending))
              /\ wire' = [wire EXCEPT ![c] = Tail(@)]
           \/ /\ net[c] = "open" /\ wire[c] = <<>> /\ peer[c] = "up"
              /\ watched' = [watched EXCEPT ![c] = "yes"]
              /\ pending' = Tail(pending)
              /\ UNCHANGED <<net, readVars, pc, wire, misread>>
           \/ /\ net[c] = "closed" \/ (wire[c] = <<>> /\ peer[c] = "gone")
              /\ GotNothing(c, Tail(pending))
              /\ UNCHANGED <<wire, misread>>
           \/ /\ net[c] = "closed" /\ kind = "readable" /\ wire[c] # <<>>
              /\ GotFrame(c, [Head(wire[c]) EXCEPT !.whole = FALSE], Tail(pending))
              /\ wire' = [wire EXCEPT ![c] = <<>>]
  BY DEF ReadFrame
<1>2. /\ UNCHANGED <<client, stream, streamCounter, told, got, reply, cut, use, streams>>
  BY DEF ReadFrame, askVars, answerVars, poolVars
<1>3. PoolTyped /\ AnswersTyped /\ NotAsked /\ NotConnected
  BY DEF PIInv, Asking
<1>4. /\ Tail(pending) \in Seq(Closures)
      /\ 1 \in 1..Len(pending) /\ pending[1] = <<kind, c>>
      /\ \A d : OnlyConnects(pending, d) => OnlyConnects(Tail(pending), d)
  <2>1. pending \in Seq(Closures)
    BY <1>3 DEF AnswersTyped
  <2> QED
    BY <1>1, <2>1, Taken
<1>5. net[c] \notin Early
  <2>1. ~OnlyConnects(pending, c)
    BY <1>4 DEF OnlyConnects
  <2> QED
    BY <1>3, <2>1 DEF NotConnected, Untouched
<1>6. ASSUME NEW f \in Frames, GotFrame(c, f, Tail(pending))
      PROVE  /\ frameQueue' \in [Clients -> Seq(Frames)]
             /\ reader' \in [Clients -> {"none", "top", "waiting", "test", "ended"}]
             /\ watched' = watched /\ net' = net /\ pending' \in Seq(Closures)
             /\ \A d \in Clients \ {c} : OnlyConnects(pending, d) => OnlyConnects(pending', d)
             /\ \A d \in Clients \ {c} : reader'[d] = reader[d]
             /\ PcStays /\ PcAsks
  <2>1. CASE f.type \in {"SETTINGS", "ACK"}
    <3>1. pending' = Append(Tail(pending), <<"read", c>>) /\ <<"read", c>> \in Closures
      BY <1>6, <2>1 DEF GotFrame, Closures
    <3>2. /\ pending' \in Seq(Closures)
          /\ \A d \in Clients \ {c} : OnlyConnects(pending, d) => OnlyConnects(pending', d)
      BY <1>4, <3>1, Added
    <3>3. UNCHANGED <<frameQueue, reader, watched, net, pc>>
      BY <1>6, <2>1 DEF GotFrame, readVars
    <3> QED
      BY <1>3, <3>2, <3>3 DEF AnswersTyped, PcStays, PcAsks
  <2>2. CASE f.type \notin {"SETTINGS", "ACK"}
    <3>1. /\ pending' = Tail(pending) /\ UNCHANGED <<net, watched>>
          /\ frameQueue' = [frameQueue EXCEPT ![c] = Append(@, f)]
          /\ Broadcast(c)
      BY <1>6, <2>2 DEF GotFrame
    <3>2. frameQueue' \in [Clients -> Seq(Frames)]
      BY <1>3, <3>1 DEF AnswersTyped
    <3> QED
      BY <1>3, <1>4, <3>1, <3>2, BroadcastFacts
  <2> QED
    BY <2>1, <2>2
<1>7. CASE wire[c] # <<>> /\ net[c] = "open" /\ GotFrame(c, Head(wire[c]), Tail(pending))
           /\ wire' = [wire EXCEPT ![c] = Tail(@)]
  <2>1. Head(wire[c]) \in Frames /\ wire' \in [Clients -> Seq(Frames)]
    BY <1>3, <1>7 DEF AnswersTyped
  <2>2. Of(c) /\ PcStays /\ PcAsks
    BY <1>5, <1>6, <1>7, <2>1 DEF Of
  <2>3. AnswersTyped'
    BY <1>2, <1>3, <1>6, <1>7, <2>1 DEF AnswersTyped
  <2> QED
    BY <1>2, <1>3, <2>2, <2>3, OwnStep, SameAsked DEF Asking
<1>8. CASE /\ net[c] = "open" /\ watched' = [watched EXCEPT ![c] = "yes"]
           /\ pending' = Tail(pending)
           /\ UNCHANGED <<net, readVars, pc, wire>>
  <2>1. Of(c) /\ PcStays /\ PcAsks
    BY <1>3, <1>4, <1>5, <1>8 DEF Of, PcStays, PcAsks, readVars, AnswersTyped
  <2>2. AnswersTyped'
    BY <1>2, <1>3, <1>4, <1>8 DEF AnswersTyped, readVars
  <2> QED
    BY <1>2, <1>3, <2>1, <2>2, OwnStep, SameAsked DEF Asking
<1>9. CASE GotNothing(c, Tail(pending)) /\ UNCHANGED wire
  <2>1. Close(c, Tail(pending)) /\ Broadcast(c) /\ UNCHANGED frameQueue
    BY <1>9 DEF GotNothing
  <2>2. /\ net' = [net EXCEPT ![c] = "closed"]
        /\ watched' \in [Clients -> {"no", "yes", "lost"}]
        /\ \A d \in Clients \ {c} : watched'[d] = watched[d]
        /\ pending' \in Seq(Closures)
        /\ \A d \in Clients \ {c} : OnlyConnects(pending, d) => OnlyConnects(pending', d)
    BY <1>3, <1>4, <2>1, CloseFacts
  <2>3. /\ reader' \in [Clients -> {"none", "top", "waiting", "test", "ended"}]
        /\ \A d \in Clients \ {c} : reader'[d] = reader[d]
        /\ PcStays /\ PcAsks
    BY <1>3, <2>1, BroadcastFacts
  <2>4. Of(c)
    BY <1>3, <1>5, <2>2, <2>3 DEF Of, PoolTyped, Early
  <2>5. AnswersTyped'
    BY <1>2, <1>3, <1>9, <2>1, <2>2, <2>3 DEF AnswersTyped
  <2> QED
    BY <1>2, <1>3, <2>3, <2>4, <2>5, OwnStep, SameAsked DEF Asking
<1>10. CASE /\ net[c] = "closed" /\ wire[c] # <<>>
            /\ GotFrame(c, [Head(wire[c]) EXCEPT !.whole = FALSE], Tail(pending))
            /\ wire' = [wire EXCEPT ![c] = <<>>]
  <2>1. /\ [Head(wire[c]) EXCEPT !.whole = FALSE] \in Frames
        /\ wire' \in [Clients -> Seq(Frames)]
    <3>1. Head(wire[c]) \in Frames /\ wire' \in [Clients -> Seq(Frames)]
      BY <1>3, <1>10 DEF AnswersTyped
    <3> QED
      BY <1>3, <3>1, FrameTyped
  <2> DEFINE f == [Head(wire[c]) EXCEPT !.whole = FALSE]
  <2> HIDE DEF f
  <2>a. f \in Frames /\ GotFrame(c, f, Tail(pending))
    BY <1>10, <2>1 DEF f
  <2>2. Of(c) /\ PcStays /\ PcAsks
    BY <1>5, <1>6, <2>a DEF Of
  <2>3. AnswersTyped'
    BY <1>2, <1>3, <1>6, <1>10, <2>a, <2>1 DEF AnswersTyped
  <2> QED
    BY <1>2, <1>3, <2>2, <2>3, OwnStep, SameAsked DEF Asking
<1> QED
  BY <1>1, <1>7, <1>8, <1>9, <1>10

(* A step after which nothing that Asking speaks of is different, or only  *)
(* what the server sent.                                                   *)
LEMMA ServerAsks ==
  ASSUME PIInv, Asking,
         UNCHANGED <<net, watched, pending, reader, pc, client, use, streams,
                     frameQueue, stream, streamCounter, told, got, cut>>,
         wire' \in [Clients -> Seq(Frames)],
         \/ UNCHANGED reply
         \/ \E r \in Requests, e \in BOOLEAN :
              /\ Asked(r)
              /\ reply' = [reply EXCEPT ![r] = [frames |-> @.frames + 1, ended |-> e]]
  PROVE  Asking'
<1>1. AnswersTyped /\ NotAsked /\ NotConnected
  BY DEF Asking
<1>2. reply' \in [Requests -> [frames : Nat, ended : BOOLEAN]]
  <2>1. reply \in [Requests -> [frames : Nat, ended : BOOLEAN]]
    BY <1>1 DEF AnswersTyped
  <2>2. ASSUME NEW r \in Requests, NEW e \in BOOLEAN,
               reply' = [reply EXCEPT ![r] = [frames |-> @.frames + 1, ended |-> e]]
        PROVE  reply' \in [Requests -> [frames : Nat, ended : BOOLEAN]]
    <3>1. [frames |-> reply[r].frames + 1, ended |-> e] \in [frames : Nat, ended : BOOLEAN]
      BY <2>1
    <3> QED
      BY <2>1, <2>2, <3>1
  <2> QED
    BY <2>1, <2>2
<1>3. AnswersTyped'
  BY <1>1, <1>2 DEF AnswersTyped
<1>4. NotAsked'
  <2>1. \A r \in Requests : pc[r] \in {"idle", "connect", "send"} => ~Asked(r)
    BY <1>1 DEF NotAsked, Asked
  <2>2. \A r \in Requests : reply'[r] = reply[r] \/ Asked(r)
    BY <1>1 DEF AnswersTyped
  <2> QED
    BY <1>1, <2>1, <2>2 DEF NotAsked
<1>5. NotConnected'
  BY <1>1 DEF NotConnected, Untouched, HeldOnes, PooledOnes, OnlyConnects
<1> QED
  BY <1>3, <1>4, <1>5 DEF Asking

LEMMA Replaced ==
  ASSUME NEW S, NEW q \in Seq(S), NEW x \in S, NEW k
  PROVE  /\ [q EXCEPT ![k] = x] \in Seq(S)
         /\ Len([q EXCEPT ![k] = x]) = Len(q)
<1> DEFINE p == [q EXCEPT ![k] = x]
<1>1. Len(q) \in Nat /\ DOMAIN q = 1..Len(q) /\ \A i \in 1..Len(q) : q[i] \in S
  OBVIOUS
<1>2. p = [i \in 1..Len(q) |-> IF i = k THEN x ELSE q[i]]
  BY <1>1
<1> HIDE DEF p
<1>3. p \in Seq(S) /\ Len(p) = Len(q)
  BY <1>1, <1>2
<1> QED
  BY <1>3 DEF p

LEMMA WorldAsks ==
  ASSUME PIInv, Asking, UNCHANGED poolVars,
         \/ \E c \in Clients : ServerSendsOther(c) \/ ServerLeaves(c)
         \/ \E r \in Requests : Replies(r)
  PROVE  Asking'
<1>1. AnswersTyped
  BY DEF Asking
<1>2. ASSUME NEW r \in Requests, NEW end \in BOOLEAN, NEW alone \in BOOLEAN,
             ServerReplies(r, end, alone)
      PROVE  Asking'
  <2>1. /\ UNCHANGED <<net, watched, pending, reader, pc, client, use, streams,
                       frameQueue, stream, streamCounter, told, got, cut>>
        /\ Asked(r)
        /\ reply' = [reply EXCEPT ![r] = [frames |-> @.frames + 1, ended |-> end]]
    BY <1>2 DEF ServerReplies, netVars, readVars, askVars, answerVars, poolVars
  <2>2. reply[r].frames + 1 \in Nat
    BY <1>1 DEF AnswersTyped
  <2>3. ResponseFrame(r, reply[r].frames + 1, end, alone) \in Frames
    BY <1>1, <2>2, FrameTyped
  <2>4. wire' = [wire EXCEPT ![client[r]] =
                   Append(@, ResponseFrame(r, reply[r].frames + 1, end, alone))]
    BY <1>2 DEF ServerReplies
  <2>5. wire' \in [Clients -> Seq(Frames)]
    <3> DEFINE f == ResponseFrame(r, reply[r].frames + 1, end, alone)
    <3> HIDE DEF f
    <3>1. f \in Frames /\ wire' = [wire EXCEPT ![client[r]] = Append(@, f)]
      BY <2>3, <2>4 DEF f
    <3>2. wire \in [Clients -> Seq(Frames)]
      BY <1>1 DEF AnswersTyped
    <3>3. \A d \in Clients : Append(wire[d], f) \in Seq(Frames)
      BY <3>1, <3>2
    <3> QED
      BY <3>1, <3>2, <3>3
  <2> QED
    BY <2>1, <2>5, ServerAsks
<1>3. ASSUME NEW c \in Clients, ServerSendsOther(c)
      PROVE  Asking'
  <2>1. PICK f \in {OtherFrame("SETTINGS", 0), OtherFrame("ACK", 0)} \cup Strays(c) :
          wire' = [wire EXCEPT ![c] = Append(@, f)]
    BY <1>3, Zenon DEF ServerSendsOther
  <2>2. f \in Frames
    BY <1>1, FrameTyped DEF Strays, OfClient
  <2>3. UNCHANGED <<net, watched, pending, reader, pc, client, use, streams, reply,
                    frameQueue, stream, streamCounter, told, got, cut>>
    BY <1>3, Zenon DEF ServerSendsOther, netVars, readVars, askVars, answerVars, poolVars
  <2>4. wire' \in [Clients -> Seq(Frames)]
    BY <1>1, <2>1, <2>2 DEF AnswersTyped
  <2> QED
    BY <2>3, <2>4, ServerAsks
<1>4. ASSUME NEW c \in Clients, ServerLeaves(c)
      PROVE  Asking'
  <2>1. /\ UNCHANGED <<net, watched, pending, reader, pc, client, use, streams, reply,
                       frameQueue, stream, streamCounter, told, got, cut>>
        /\ \/ wire' = wire
           \/ /\ wire[c] # <<>>
              /\ wire' = [wire EXCEPT ![c][Len(wire[c])].whole = FALSE]
    BY <1>4, Zenon DEF ServerLeaves, netVars, readVars, askVars, answerVars, poolVars
  <2>2. CASE wire[c] # <<>> /\ wire' = [wire EXCEPT ![c][Len(wire[c])].whole = FALSE]
    <3> DEFINE f == wire[c][Len(wire[c])]
    <3>1. wire[c] \in Seq(Frames) /\ f \in Frames
      BY <1>1, <2>2 DEF AnswersTyped
    <3>2. [f EXCEPT !.whole = FALSE] \in Frames
      BY <1>1, <3>1, FrameTyped
    <3>3. [wire[c] EXCEPT ![Len(wire[c])] = [f EXCEPT !.whole = FALSE]] \in Seq(Frames)
      BY <3>1, <3>2, Replaced
    <3> DEFINE q == [wire[c] EXCEPT ![Len(wire[c])] = [f EXCEPT !.whole = FALSE]]
    <3>4. wire' = [wire EXCEPT ![c] = q] /\ q \in Seq(Frames)
      BY <2>2, <3>3
    <3> HIDE DEF q
    <3>5. wire' \in [Clients -> Seq(Frames)]
      BY <1>1, <3>4 DEF AnswersTyped
    <3> QED
      BY <2>1, <3>5, ServerAsks
  <2>3. CASE wire' = wire
    <3>1. wire' \in [Clients -> Seq(Frames)]
      BY <1>1, <2>3 DEF AnswersTyped
    <3> QED
      BY <2>1, <3>1, ServerAsks
  <2> QED
    BY <2>1, <2>2, <2>3
<1> QED
  BY <1>2, <1>3, <1>4 DEF Replies

(* wait() returns without a broadcast, whatever the cause.                 *)
WakesAlone(c) ==
  /\ reader[c] = "waiting"
  /\ reader' = [reader EXCEPT ![c] = "test"]
  /\ UNCHANGED <<worldVars, netVars, serverVars, frameQueue, frameReadOK, askVars,
                 pc, answerVars>>

(* The steps of the read thread and of NetEvent.                           *)
LEMMA ReaderAsks ==
  ASSUME PIInv, Asking, UNCHANGED poolVars, NEW c \in Clients,
         Readable(c) \/ ReaderStarts(c) \/ ReaderStep(c) \/ ReaderSpurious(c)
  PROVE  Asking'
<1>0. Readable(c) \/ ReaderStarts(c) \/ ReaderStep(c) \/ WakesAlone(c)
  BY Zenon DEF ReaderSpurious, WakesAlone
<1>1. PoolTyped /\ AnswersTyped /\ NotAsked /\ NotConnected
  BY DEF PIInv, Asking
<1>2. /\ UNCHANGED <<client, use, streams, frameQueue, wire, stream, streamCounter,
                     told, got, reply, cut, pc>>
  BY <1>0 DEF Readable, ReaderStarts, ReaderStep, ReaderReads, ReaderEnds, ReaderGivesUp,
              WakesAlone, netVars, serverVars, readVars, askVars, answerVars, poolVars
<1>3. pending \in Seq(Closures)
  BY <1>1 DEF AnswersTyped
<1>4. net[c] \notin Early
  <2>1. CASE ReaderStarts(c)
    <3>1. 1 \in 1..Len(pending) /\ pending[1] = <<"reader", c>>
      BY <1>3, <2>1, Taken DEF ReaderStarts
    <3> QED
      BY <1>1, <3>1 DEF NotConnected, Untouched, OnlyConnects
  <2>2. CASE Readable(c) \/ ReaderStep(c) \/ WakesAlone(c)
    <3>1. watched[c] = "yes" \/ reader[c] \in {"top", "test", "waiting"}
      BY <2>2 DEF Readable, ReaderStep, ReaderReads, ReaderEnds, ReaderGivesUp,
                  WakesAlone, GoesOn
    <3> QED
      BY <1>1, <3>1 DEF NotConnected, Untouched
  <2> QED
    BY <1>0, <2>1, <2>2
<1>5. /\ \E s \in {"top", "waiting", "test", "ended"} : reader' = [reader EXCEPT ![c] = s]
             \/ reader' = reader
      /\ \/ UNCHANGED <<net, watched>> /\ pending' = Tail(pending) /\ Starts(<<"reader", c>>)
         \/ net' = net /\ watched' = [watched EXCEPT ![c] = "no"]
            /\ pending' = Append(pending, <<"readable", c>>)
         \/ UNCHANGED <<net, watched>> /\ pending' = Append(pending, <<"read", c>>)
         \/ UNCHANGED <<net, watched, pending>>
         \/ Close(c, pending)
  BY <1>0 DEF Readable, ReaderStarts, ReaderStep, ReaderReads, ReaderEnds, ReaderGivesUp,
              WakesAlone, netVars, readVars
<1>6. /\ <<"read", c>> \in Closures /\ <<"readable", c>> \in Closures
  BY DEF Closures
<1>7. /\ pending' \in Seq(Closures)
      /\ \A d \in Clients \ {c} : OnlyConnects(pending, d) => OnlyConnects(pending', d)
  <2>1. CASE pending' = Tail(pending) /\ Starts(<<"reader", c>>)
    BY <1>3, <2>1, Taken
  <2>2. CASE pending' = Append(pending, <<"readable", c>>) \/ pending' = Append(pending, <<"read", c>>)
    BY <1>3, <1>6, <2>2, Added
  <2>3. CASE Close(c, pending)
    BY <1>1, <1>3, <2>3, CloseFacts
  <2> QED
    BY <1>3, <1>5, <2>1, <2>2, <2>3
<1>8. /\ \A d \in Clients \ {c} : net'[d] = net[d] /\ watched'[d] = watched[d]
      /\ watched' \in [Clients -> {"no", "yes", "lost"}]
      /\ net'[c] = net[c] \/ net'[c] = "closed"
  <2>1. CASE Close(c, pending)
    <3>1. /\ net' = [net EXCEPT ![c] = "closed"]
          /\ watched' \in [Clients -> {"no", "yes", "lost"}]
          /\ \A d \in Clients \ {c} : watched'[d] = watched[d]
      BY <1>1, <1>3, <2>1, CloseFacts
    <3> QED
      BY <1>1, <3>1 DEF PoolTyped
  <2>2. CASE watched' = watched \/ watched' = [watched EXCEPT ![c] = "no"]
    BY <1>1, <1>5, <2>1, <2>2 DEF AnswersTyped
  <2> QED
    BY <1>5, <2>1, <2>2
<1>9. /\ reader' \in [Clients -> {"none", "top", "waiting", "test", "ended"}]
      /\ \A d \in Clients \ {c} : reader'[d] = reader[d]
  BY <1>1, <1>5 DEF AnswersTyped
<1>10. Of(c) /\ PcStays /\ PcAsks
  BY <1>2, <1>4, <1>7, <1>8, <1>9 DEF Of, PcStays, PcAsks, Early
<1>11. AnswersTyped'
  BY <1>1, <1>2, <1>7, <1>8, <1>9 DEF AnswersTyped
<1>12. NotAsked' /\ NotConnected'
  BY <1>1, <1>2, <1>10, OwnStep, SameAsked
<1> QED
  BY <1>11, <1>12 DEF Asking

(* connect: the closure that goes on, and its two ends.                    *)
LEMMA ConnectsAsks ==
  ASSUME PIInv, Asking, UNCHANGED poolVars, NEW c \in Clients, Connects(c)
  PROVE  Asking'
<1>1. PoolTyped /\ AnswersTyped /\ NotAsked /\ NotConnected
  BY DEF PIInv, Asking
<1>2. /\ UNCHANGED <<net, watched, client, use, streams, frameQueue, wire, stream,
                     streamCounter, told, got, reply, cut, pc, reader>>
      /\ net[c] = "connecting" /\ pending' = Append(pending, <<"connected", c>>)
  BY DEF Connects, serverVars, readVars, askVars, answerVars, poolVars
<1>3. pending \in Seq(Closures) /\ <<"connected", c>> \in Closures
  BY <1>1 DEF AnswersTyped, Closures
<1>4. /\ pending' \in Seq(Closures)
      /\ \A d \in Clients : OnlyConnects(pending, d) => OnlyConnects(pending', d)
  BY <1>2, <1>3, Added
<1>5. AnswersTyped'
  BY <1>1, <1>2, <1>4 DEF AnswersTyped
<1>6. NotAsked'
  BY <1>1, <1>2 DEF NotAsked
<1>7. NotConnected'
  BY <1>1, <1>2, <1>4 DEF NotConnected, Untouched, HeldOnes, PooledOnes
<1> QED
  BY <1>5, <1>6, <1>7 DEF Asking

(* One connecting client of a push is open or closed now.                  *)
LEMMA ConnectEnds ==
  ASSUME PIInv, Asking, NEW r \in Requests, pc[r] = "connect",
         UNCHANGED <<client, use, streams, watched, reader>>,
         NEW state \in {"open", "closed"}, net' = [net EXCEPT ![client[r]] = state],
         NEW to \in {"send", "done"}, pc' = [pc EXCEPT ![r] = to],
         \A d \in Clients \ {client[r]} : OnlyConnects(pending, d) => OnlyConnects(pending', d)
  PROVE  NotConnected'
<1> DEFINE c == client[r]
<1>1. PoolTyped /\ NotConnected /\ PoolIsExclusive
  BY DEF PIInv, Asking
<1>2. c \in Clients /\ net[c] = "connecting" /\ use = "pool"
  BY <1>1 DEF PoolTyped, NotConnected, HeldOnes
<1>3. net'[c] \notin Early /\ \A d \in Clients : d # c => net'[d] = net[d]
  BY <1>1, <1>2 DEF PoolTyped, Early
<1>4. pc'[r] = to /\ \A q \in Requests : q # r => pc'[q] = pc[q]
  BY <1>1 DEF PoolTyped
<1>5. \A q \in Requests : q # r /\ pc[q] \notin {"idle", "done"} => client[q] # c /\ client[q] \in Clients
  BY <1>1, <1>2 DEF PoolIsExclusive, Holds, PoolTyped
<1> HIDE DEF c
<1>6. Untouched'
  BY <1>1, <1>3 DEF NotConnected, Untouched, c
<1>7. HeldOnes'
  <2> SUFFICES ASSUME NEW q \in Requests
               PROVE  /\ pc'[q] = "connect" => net'[client[q]] = "connecting" /\ use = "pool"
                      /\ pc'[q] \notin {"idle", "connect"} => net'[client[q]] \notin Early
    BY DEF HeldOnes
  <2>1. CASE q = r
    BY <1>3, <1>4, <2>1 DEF c
  <2>2. CASE q # r
    <3>1. /\ pc[q] = "connect" => net[client[q]] = "connecting" /\ use = "pool"
          /\ pc[q] \notin {"idle", "connect"} => net[client[q]] \notin Early
      BY <1>1 DEF NotConnected, HeldOnes
    <3>2. pc[q] = "done" => client[q] \in Clients
      BY <1>1 DEF PoolTyped
    <3> QED
      BY <1>3, <1>4, <1>5, <2>2, <3>1, <3>2
  <2> QED
    BY <2>1, <2>2
<1>8. PooledOnes'
  BY <1>1, <1>2, <1>3 DEF NotConnected, PooledOnes, PoolTyped
<1> QED
  BY <1>6, <1>7, <1>8 DEF NotConnected

LEMMA CompleteAsks ==
  ASSUME PIInv, Asking, UNCHANGED poolVars, NEW r \in Requests, CompleteConnect(r)
  PROVE  Asking'
<1> DEFINE c == client[r]
<1>1. PoolTyped /\ AnswersTyped /\ NotAsked
  BY DEF PIInv, Asking
<1>2. /\ UNCHANGED <<client, use, streams, watched, reader, frameQueue, wire, stream,
                     streamCounter, told, got, reply, cut>>
      /\ pc[r] = "connect" /\ Starts(<<"connected", c>>)
      /\ net' = [net EXCEPT ![c] = "open"] /\ pc' = [pc EXCEPT ![r] = "send"]
      /\ pending' = Append(Tail(pending), <<"reader", c>>)
  BY DEF CompleteConnect, serverVars, readVars, answerVars, poolVars
<1>3. c \in Clients /\ <<"reader", c>> \in Closures
  BY <1>1, <1>2 DEF PoolTyped, Closures
<1> HIDE DEF c
<1>4. /\ Tail(pending) \in Seq(Closures)
      /\ \A d : OnlyConnects(pending, d) => OnlyConnects(Tail(pending), d)
  <2>1. pending \in Seq(Closures)
    BY <1>1 DEF AnswersTyped
  <2> QED
    BY <1>2, <2>1, Taken
<1>5. /\ pending' \in Seq(Closures)
      /\ \A d \in Clients \ {c} : OnlyConnects(pending, d) => OnlyConnects(pending', d)
  BY <1>2, <1>3, <1>4, Added
<1>6. NotConnected'
  BY <1>2, <1>5, ConnectEnds DEF c
<1>7. AnswersTyped'
  BY <1>1, <1>2, <1>5 DEF AnswersTyped
<1>8. NotAsked'
  BY <1>1, <1>2 DEF NotAsked, PoolTyped
<1> QED
  BY <1>6, <1>7, <1>8 DEF Asking

LEMMA FailsAsks ==
  ASSUME PIInv, Asking, UNCHANGED poolVars, NEW r \in Requests, ConnectFails(r)
  PROVE  Asking' /\ (told'[r] # "response")
<1> DEFINE c == client[r]
<1>1. PoolTyped /\ AnswersTyped /\ NotAsked
  BY DEF PIInv, Asking
<1>2. /\ UNCHANGED <<client, use, streams, watched, reader, frameQueue, wire, stream,
                     streamCounter, got, reply, cut>>
      /\ pc[r] = "connect" /\ Starts(<<"connected", c>>)
      /\ net' = [net EXCEPT ![c] = "closed"] /\ pc' = [pc EXCEPT ![r] = "done"]
      /\ pending' = Tail(pending)
  BY Zenon DEF ConnectFails, serverVars, readVars, askVars, poolVars
<1>3. PICK outcome \in Outcomes : outcome # "response" /\ told' = [told EXCEPT ![r] = outcome]
  BY Zenon DEF ConnectFails, Outcomes
<1>4. /\ Tail(pending) \in Seq(Closures)
      /\ \A d : OnlyConnects(pending, d) => OnlyConnects(Tail(pending), d)
  <2>1. pending \in Seq(Closures)
    BY <1>1 DEF AnswersTyped
  <2> QED
    BY <1>2, <2>1, Taken
<1>6. NotConnected'
  BY <1>2, <1>4, ConnectEnds
<1>7. AnswersTyped' /\ told'[r] # "response"
  BY <1>1, <1>2, <1>3, <1>4 DEF AnswersTyped
<1>8. NotAsked'
  BY <1>1, <1>2, <1>3 DEF NotAsked, PoolTyped, AnswersTyped
<1> QED
  BY <1>6, <1>7, <1>8 DEF Asking

(* The frame that a request takes is the first of its stream.              *)
LEMMA Removal ==
  ASSUME NEW S, NEW q \in Seq(S), NEW w \in Seq(S), NEW k \in 1..Len(q)
  PROVE  RemoveAt(q, k) \in Seq(S) /\ Without(RemoveAt(q, k) \o w, q \o w, k)
<1> DEFINE a == SubSeq(q, 1, k - 1)
           b == SubSeq(q, k + 1, Len(q))
<1>1. Len(q) \in Nat /\ Len(w) \in Nat
  OBVIOUS
<1>2. a \in Seq(S) /\ Len(a) = k - 1 /\ \A i \in 1..(k - 1) : a[i] = q[i]
  BY <1>1
<1>3. b \in Seq(S) /\ Len(b) = Len(q) - k /\ \A i \in 1..(Len(q) - k) : b[i] = q[i + k]
  BY <1>1
<1> HIDE DEF a, b
<1>4. RemoveAt(q, k) = a \o b
  BY DEF RemoveAt, a, b
<1> DEFINE p == a \o b
<1>5. /\ p \in Seq(S) /\ Len(p) = Len(q) - 1
      /\ \A i \in 1..Len(p) : p[i] = IF i < k THEN q[i] ELSE q[i + 1]
  <2>a. a \in Seq(S) /\ b \in Seq(S)
    BY <1>2, <1>3
  <2>0. p \in Seq(S) /\ Len(p) = Len(a) + Len(b)
    BY <2>a
  <2>1. p \in Seq(S) /\ Len(p) = Len(q) - 1
    BY <1>1, <1>2, <1>3, <2>0
  <2>2. ASSUME NEW i \in 1..Len(p), i < k
        PROVE  p[i] = q[i]
    <3>1. i \in 1..(k - 1) /\ i \in 1..Len(a)
      BY <1>2, <2>1, <2>2
    <3>2. p[i] = a[i]
      BY <2>a, <3>1
    <3> QED
      BY <1>2, <3>1, <3>2
  <2>3. ASSUME NEW i \in 1..Len(p), ~(i < k)
        PROVE  p[i] = q[i + 1]
    <3>1. i - (k - 1) \in 1..(Len(q) - k) /\ (i - (k - 1)) + k = i + 1
      BY <1>1, <2>1, <2>3
    <3>2. p[i] = b[i - (k - 1)]
      BY <1>1, <1>2, <1>3, <2>1, <2>3
    <3>3. b[i - (k - 1)] = q[(i - (k - 1)) + k]
      BY <1>3, <3>1
    <3> QED
      BY <3>1, <3>2, <3>3
  <2> QED
    BY <2>1, <2>2, <2>3
<1> HIDE DEF p
<1>6. /\ Len(p \o w) = Len(p) + Len(w) /\ Len(q \o w) = Len(q) + Len(w)
      /\ \A i \in 1..Len(p \o w) : (p \o w)[i] = IF i <= Len(p) THEN p[i] ELSE w[i - Len(p)]
      /\ \A i \in 1..Len(q \o w) : (q \o w)[i] = IF i <= Len(q) THEN q[i] ELSE w[i - Len(q)]
  BY <1>5
<1>7. ASSUME NEW i \in 1..Len(p \o w)
      PROVE  (p \o w)[i] = IF i < k THEN (q \o w)[i] ELSE (q \o w)[i + 1]
  <2>1. CASE i <= Len(p)
    BY <1>1, <1>5, <1>6, <2>1
  <2>2. CASE i > Len(p)
    <3>1. ~(i < k) /\ i + 1 \in 1..Len(q \o w) /\ i + 1 > Len(q) /\ (i + 1) - Len(q) = i - Len(p)
      BY <1>1, <1>5, <1>6, <2>2
    <3>2. (q \o w)[i + 1] = w[(i + 1) - Len(q)]
      BY <1>1, <1>6, <3>1
    <3>3. (p \o w)[i] = w[i - Len(p)]
      <4>1. ~(i <= Len(p))
        BY <1>1, <1>5, <2>2
      <4> QED
        BY <1>6, <4>1, Zenon
    <3> QED
      BY <3>1, <3>2, <3>3
  <2> QED
    BY <1>1, <1>5, <2>1, <2>2
<1>8. Len(p \o w) = Len(q \o w) - 1
  BY <1>1, <1>5, <1>6
<1>9. RemoveAt(q, k) \in Seq(S) /\ RemoveAt(q, k) \o w = p \o w
  BY <1>4, <1>5, Zenon DEF p
<1>10. Without(p \o w, q \o w, k)
  BY <1>7, <1>8 DEF Without
<1> QED
  BY <1>9, <1>10, Zenon

LEMMA FirstOfMine ==
  ASSUME PoolTyped, AnswersTyped, NEW r \in Requests, client[r] \in Clients, Mine(r) # {}
  PROVE  LET i == CHOOSE k \in Mine(r) : \A j \in Mine(r) : k <= j IN
           /\ i \in Mine(r) /\ \A j \in Mine(r) : i <= j
           /\ i \in 1..Len(frameQueue[client[r]])
           /\ frameQueue[client[r]][i] \in Frames
<1>1. frameQueue[client[r]] \in Seq(Frames)
  BY DEF AnswersTyped
<1>2. Mine(r) \subseteq 1..Len(frameQueue[client[r]]) /\ Mine(r) \subseteq Nat
  BY <1>1 DEF Mine
<1>3. \E k \in Mine(r) : \A j \in Mine(r) : k <= j
  BY <1>2, LeastOf
<1> QED
  BY <1>1, <1>2, <1>3

(* The steps of sendRequest.                                               *)
LEMMA RequestAsks ==
  ASSUME PIInv, Asking, UNCHANGED poolVars, NEW r \in Requests, RequestStep(r) \/ TimesOut(r)
  PROVE  Asking'
<1> DEFINE c == client[r]
<1>1. PoolTyped /\ AnswersTyped /\ NotAsked /\ NotConnected
  BY DEF PIInv, Asking
<1>2. UNCHANGED <<client, use, streams, reply, wire, reader>>
  BY Zenon DEF RequestStep, SendRequest, SendPayload, Waits, TimesOut, TakesFrame, Drops,
               netVars, serverVars, readVars, askVars, poolVars
<1>3. pc[r] \in {"send", "sending", "await", "waiting", "woken"}
  BY Zenon DEF RequestStep, SendRequest, SendPayload, Waits, TimesOut, TakesFrame, Drops, MayDequeue
<1>4. c \in Clients /\ net[c] \notin Early
  BY <1>1, <1>3 DEF PoolTyped, NotConnected, HeldOnes
<1> HIDE DEF c
<1>5. ASSUME NEW to \in {"sending", "await", "waiting", "woken", "answered"},
             pc' = [pc EXCEPT ![r] = to]
      PROVE  PcStays /\ \A q \in Requests : q # r => pc'[q] = pc[q]
  BY <1>1, <1>3, <1>5 DEF PcStays, PoolTyped
<1>6. ASSUME UNCHANGED netVars
      PROVE  Of(c)
  BY <1>2, <1>4, <1>6 DEF Of, netVars
<1>7. CASE SendRequest(r)
  <2>1. /\ UNCHANGED <<netVars, frameQueue, got, cut>>
        /\ pc[r] = "send"
        /\ stream' = [stream EXCEPT ![r] = streamCounter[c]]
        /\ streamCounter' = [streamCounter EXCEPT ![c] = @ + 2]
    BY <1>7 DEF SendRequest, readVars, c
  <2>2. \E to \in {"sending", "answered"}, o \in Outcomes :
           pc' = [pc EXCEPT ![r] = to] /\ told' = [told EXCEPT ![r] = o]
              /\ (to = "sending" => o = "nothing")
    <3>1. told[r] = "nothing" /\ told' = [told EXCEPT ![r] = told'[r]]
             /\ told'[r] \in {"nothing", "unable"}
             /\ \/ pc' = [pc EXCEPT ![r] = "sending"] /\ told'[r] = "nothing"
                \/ pc' = [pc EXCEPT ![r] = "answered"]
      BY <1>1, <1>7 DEF SendRequest, Answer, NotAsked, AnswersTyped
    <3> QED
      BY <3>1, Zenon DEF Outcomes
  <2>3. PICK to \in {"sending", "answered"}, o \in Outcomes :
           pc' = [pc EXCEPT ![r] = to] /\ told' = [told EXCEPT ![r] = o]
              /\ (to = "sending" => o = "nothing")
    BY <2>2
  <2>4. NotConnected'
    BY <1>1, <1>2, <1>4, <1>5, <1>6, <2>1, <2>3, OwnStep
  <2>5. stream' \in [Requests -> Nat] /\ stream'[r] # 0 /\ streamCounter' \in [Clients -> Nat \ {0}]
    BY <1>1, <1>4, <2>1 DEF AnswersTyped
  <2>6. AnswersTyped'
    BY <1>1, <1>2, <2>1, <2>3, <2>5 DEF AnswersTyped, netVars
  <2>7. NotAsked'
    BY <1>1, <1>2, <2>1, <2>3, <2>5 DEF NotAsked, AnswersTyped, PoolTyped
  <2> QED
    BY <2>4, <2>6, <2>7 DEF Asking
<1>a. CASE SendPayload(r)
  <2>1. /\ UNCHANGED <<netVars, frameQueue, stream, streamCounter, got, cut>>
        /\ pc[r] = "sending"
        /\ \/ pc' = [pc EXCEPT ![r] = "await"] /\ UNCHANGED told
           \/ Answer(r, "unable")
    BY <1>a, Zenon DEF SendPayload, readVars, askVars
  <2>2. PICK to \in {"await", "answered"}, o \in Outcomes :
          /\ pc' = [pc EXCEPT ![r] = to] /\ told' = [told EXCEPT ![r] = o]
          /\ to = "await" => o = "nothing"
    <3>1. told[r] = "nothing" /\ told' = [told EXCEPT ![r] = told'[r]]
             /\ told'[r] \in {"nothing", "unable"}
             /\ \/ pc' = [pc EXCEPT ![r] = "await"] /\ told'[r] = "nothing"
                \/ pc' = [pc EXCEPT ![r] = "answered"]
      BY <1>1, <2>1 DEF Answer, NotAsked, AnswersTyped
    <3> QED
      BY <3>1, Zenon DEF Outcomes
  <2>3. NotConnected'
    BY <1>1, <1>2, <1>4, <1>5, <1>6, <2>1, <2>2, OwnStep
  <2>4. AnswersTyped'
    BY <1>1, <1>2, <2>1, <2>2 DEF AnswersTyped, netVars
  <2>5. NotAsked'
    BY <1>1, <1>2, <2>1, <2>2 DEF NotAsked, AnswersTyped, PoolTyped
  <2> QED
    BY <2>3, <2>4, <2>5 DEF Asking
<1>8. CASE Waits(r) \/ TimesOut(r)
  <2>1. /\ UNCHANGED <<netVars, frameQueue, stream, streamCounter, told, got, cut>>
        /\ pc[r] \in {"await", "waiting"}
    BY <1>8, Zenon DEF Waits, TimesOut, readVars, askVars, answerVars
  <2>2. PICK to \in {"waiting", "woken"} : pc' = [pc EXCEPT ![r] = to]
    BY <1>8, Zenon DEF Waits, TimesOut
  <2>3. PcStays /\ PcAsks
    BY <1>1, <1>5, <2>1, <2>2 DEF PcAsks, PoolTyped
  <2>4. NotConnected' /\ NotAsked'
    BY <1>1, <1>2, <1>4, <1>6, <2>1, <2>3, OwnStep, SameAsked
  <2>5. AnswersTyped'
    BY <1>1, <1>2, <2>1 DEF AnswersTyped, netVars
  <2> QED
    BY <2>4, <2>5 DEF Asking
<1>9. CASE TakesFrame(r)
  <2> DEFINE i == CHOOSE k \in Mine(r) : \A j \in Mine(r) : k <= j
             f == frameQueue[c][i]
  <2>1. /\ UNCHANGED <<stream, streamCounter>>
        /\ Close(c, pending) \/ UNCHANGED netVars
        /\ pc[r] \in {"await", "woken"} /\ Mine(r) # {}
        /\ frameQueue' = [frameQueue EXCEPT ![c] = RemoveAt(@, i)]
        /\ cut' = [cut EXCEPT ![r] = IF @ # "no" THEN @ ELSE Missing(f)]
        /\ got' = [got EXCEPT ![r] = IF f.whole /\ f.type \in {"HEADERS", "DATA"}
                                     THEN Append(@, <<f.of, f.n>>) ELSE @]
        /\ \/ Answer(r, "unexpected")
           \/ Answer(r, "response")
           \/ pc' = [pc EXCEPT ![r] = "await"] /\ UNCHANGED told
    BY <1>9 DEF TakesFrame, MayDequeue, askVars, c
  <2>2. /\ i \in Mine(r) /\ \A j \in Mine(r) : i <= j
        /\ i \in 1..Len(frameQueue[c]) /\ f \in Frames
    BY <1>1, <1>4, <2>1, FirstOfMine DEF c
  <2> HIDE DEF i, f
  <2>3. PICK o \in Outcomes, to \in {"answered", "await"} :
          /\ told' = [told EXCEPT ![r] = o] /\ pc' = [pc EXCEPT ![r] = to]
          /\ to = "await" => o = "nothing"
    <3>1. told[r] = "nothing" /\ told' = [told EXCEPT ![r] = told'[r]]
             /\ told'[r] \in {"nothing", "unexpected", "response"}
             /\ \/ pc' = [pc EXCEPT ![r] = "await"] /\ told'[r] = "nothing"
                \/ pc' = [pc EXCEPT ![r] = "answered"]
      BY <1>1, <2>1 DEF Answer, NotAsked, AnswersTyped
    <3> QED
      BY <3>1, Zenon DEF Outcomes
  <2>a. /\ Of(c)
        /\ net' \in [Clients -> {"new", "connecting", "open", "closed"}]
        /\ watched' \in [Clients -> {"no", "yes", "lost"}] /\ pending' \in Seq(Closures)
    <3>1. CASE UNCHANGED netVars
      BY <1>1, <1>6, <3>1 DEF netVars, AnswersTyped, PoolTyped
    <3>2. CASE Close(c, pending)
      <4>1. pending \in Seq(Closures)
        BY <1>1 DEF AnswersTyped
      <4>2. /\ net' = [net EXCEPT ![c] = "closed"]
            /\ watched' \in [Clients -> {"no", "yes", "lost"}]
            /\ \A d \in Clients \ {c} : watched'[d] = watched[d]
            /\ pending' \in Seq(Closures)
            /\ \A d \in Clients \ {c} : OnlyConnects(pending, d) => OnlyConnects(pending', d)
        BY <1>1, <1>4, <3>2, <4>1, CloseFacts
      <4> QED
        BY <1>1, <1>2, <1>4, <4>2 DEF Of, PoolTyped, Early
    <3> QED
      BY <2>1, <3>1, <3>2
  <2>4. NotConnected'
    BY <1>1, <1>2, <1>4, <1>5, <2>a, <2>3, OwnStep
  <2>5. frameQueue' \in [Clients -> Seq(Frames)]
    <3>1. RemoveAt(frameQueue[c], i) \in Seq(Frames)
      BY <1>1, <1>4, <2>2, Removal DEF AnswersTyped
    <3> QED
      BY <1>1, <2>1, <3>1 DEF AnswersTyped
  <2>6. /\ got' \in [Requests -> Seq((Requests \cup {NoClient}) \X Nat)]
        /\ cut' \in [Requests -> Cuts]
    <3>1. <<f.of, f.n>> \in (Requests \cup {NoClient}) \X Nat /\ f.whole \in BOOLEAN
      BY <2>2 DEF Frames
    <3>2. Append(got[r], <<f.of, f.n>>) \in Seq((Requests \cup {NoClient}) \X Nat)
      BY <1>1, <3>1 DEF AnswersTyped
    <3>3. Missing(f) \in Cuts
      BY DEF Missing, Cuts
    <3> QED
      BY <1>1, <2>1, <3>1, <3>2, <3>3 DEF AnswersTyped
  <2>7. AnswersTyped'
    BY <1>1, <1>2, <2>1, <2>3, <2>5, <2>6, <2>a DEF AnswersTyped
  <2>8. NotAsked'
    BY <1>1, <1>2, <2>1, <2>3 DEF NotAsked, AnswersTyped, PoolTyped
  <2> QED
    BY <2>4, <2>7, <2>8 DEF Asking
<1>10. CASE Drops(r)
  <2>1. /\ UNCHANGED <<frameQueue, stream, streamCounter, got, cut>>
        /\ pc[r] \in {"await", "woken"} /\ Close(c, pending) /\ Answer(r, "dropped")
    BY <1>10 DEF Drops, MayDequeue, readVars, askVars, c
  <2>2. pending \in Seq(Closures)
    BY <1>1 DEF AnswersTyped
  <2>3. /\ net' = [net EXCEPT ![c] = "closed"]
        /\ watched' \in [Clients -> {"no", "yes", "lost"}]
        /\ \A d \in Clients \ {c} : watched'[d] = watched[d]
        /\ pending' \in Seq(Closures)
        /\ \A d \in Clients \ {c} : OnlyConnects(pending, d) => OnlyConnects(pending', d)
    BY <1>1, <1>4, <2>1, <2>2, CloseFacts
  <2>4. Of(c)
    BY <1>1, <1>2, <1>4, <2>3 DEF Of, PoolTyped, Early
  <2>5. PICK o \in Outcomes : told' = [told EXCEPT ![r] = o] /\ pc' = [pc EXCEPT ![r] = "answered"]
    BY <2>1, Zenon DEF Answer, Outcomes
  <2>6. NotConnected'
    BY <1>1, <1>2, <1>4, <1>5, <2>4, <2>5, OwnStep
  <2>7. AnswersTyped'
    BY <1>1, <1>2, <2>1, <2>3, <2>5 DEF AnswersTyped
  <2>8. NotAsked'
    BY <1>1, <1>2, <2>1, <2>5 DEF NotAsked, AnswersTyped, PoolTyped
  <2> QED
    BY <2>6, <2>7, <2>8 DEF Asking
<1> QED
  BY <1>7, <1>a, <1>8, <1>9, <1>10 DEF RequestStep

(* A push takes or gives back a client.                                    *)
LEMMA PushAsks ==
  ASSUME PIInv, Asking, NEW r \in Requests, PushStep(r)
  PROVE  Asking'
<1>1. PoolTyped /\ AnswersTyped /\ NotAsked /\ NotConnected /\ NoneIsNew
  BY DEF PIInv, Asking
<1>2. /\ UNCHANGED <<watched, reader, pending, frameQueue, wire, stream, streamCounter,
                     told, got, reply, cut, use>>
      /\ use = "pool"
  BY DEF PushStep, GetPooledStream, GetNewStream, ReleaseStream, netVars, serverVars,
         readVars, askVars, answerVars
<1>3. AnswersTyped'
  BY <1>1, <1>2 DEF AnswersTyped
<1>4. CASE GetPooledStream(r)
  <2> DEFINE c == streams[Len(streams)]
  <2>1. /\ pc[r] = "idle" /\ pc' = [pc EXCEPT ![r] = "send"] /\ net' = net
        /\ client' = [client EXCEPT ![r] = c]
        /\ streams # <<>> /\ streams' = SubSeq(streams, 1, Len(streams) - 1)
    BY <1>4 DEF GetPooledStream, Last, Front, netVars
  <2>2. c \in Clients /\ net[c] \notin Early
    BY <1>1, <2>1 DEF PoolTyped, NotConnected, PooledOnes
  <2> HIDE DEF c
  <2>3. HeldOnes'
    BY <1>1, <1>2, <2>1, <2>2 DEF NotConnected, HeldOnes, PoolTyped
  <2>4. PooledOnes'
    BY <1>1, <2>1 DEF NotConnected, PooledOnes, PoolTyped
  <2>5. Untouched'
    BY <1>1, <1>2, <2>1 DEF NotConnected, Untouched
  <2>6. NotAsked'
    BY <1>1, <1>2, <2>1 DEF NotAsked, PoolTyped
  <2> QED
    BY <1>3, <2>3, <2>4, <2>5, <2>6 DEF Asking, NotConnected
<1>5. CASE GetNewStream(r)
  <2>1. PICK c \in Clients :
          /\ net[c] = "new" /\ net' = [net EXCEPT ![c] = "connecting"]
          /\ client' = [client EXCEPT ![r] = c]
    BY <1>5 DEF GetNewStream
  <2>2. pc[r] = "idle" /\ pc' = [pc EXCEPT ![r] = "connect"] /\ streams' = streams
    BY <1>5 DEF GetNewStream
  <2>3. HeldOnes'
    <3> SUFFICES ASSUME NEW q \in Requests
                 PROVE  /\ pc'[q] = "connect" => net'[client'[q]] = "connecting" /\ use = "pool"
                        /\ pc'[q] \notin {"idle", "connect"} => net'[client'[q]] \notin Early
      BY <1>2 DEF HeldOnes
    <3>1. CASE q = r
      BY <1>1, <1>2, <2>1, <2>2, <3>1 DEF PoolTyped
    <3>2. CASE q # r
      <4>1. pc'[q] = pc[q] /\ client'[q] = client[q]
        BY <1>1, <2>1, <2>2, <3>2 DEF PoolTyped
      <4>2. pc[q] # "idle" => client[q] \in Clients
        BY <1>1 DEF PoolTyped
      <4>3. /\ pc[q] = "connect" => net[client[q]] = "connecting" /\ use = "pool"
            /\ pc[q] \notin {"idle", "connect"} => net[client[q]] \notin Early
        BY <1>1 DEF NotConnected, HeldOnes
      <4> QED
        BY <1>1, <1>2, <2>1, <4>1, <4>2, <4>3 DEF PoolTyped, Early
    <3> QED
      BY <3>1, <3>2
  <2>4. PooledOnes'
    BY <1>1, <2>1, <2>2 DEF NotConnected, PooledOnes, PoolTyped, Early
  <2>5. Untouched'
    BY <1>1, <1>2, <2>1 DEF NotConnected, Untouched, PoolTyped, Early
  <2>6. NotAsked'
    BY <1>1, <1>2, <2>2 DEF NotAsked, PoolTyped
  <2> QED
    BY <1>3, <2>3, <2>4, <2>5, <2>6 DEF Asking, NotConnected
<1>6. CASE ReleaseStream(r)
  <2> DEFINE c == client[r]
  <2>1. /\ pc[r] = "answered" /\ pc' = [pc EXCEPT ![r] = "done"] /\ UNCHANGED <<net, client>>
        /\ streams' = IF net[c] = "open" THEN Append(streams, c) ELSE streams
    BY <1>6 DEF ReleaseStream, netVars, askVars
  <2>2. c \in Clients
    BY <1>1, <2>1 DEF PoolTyped
  <2> HIDE DEF c
  <2>3. HeldOnes'
    BY <1>1, <1>2, <2>1 DEF NotConnected, HeldOnes, PoolTyped
  <2>4. PooledOnes'
    <3>1. \A i \in DOMAIN streams' :
            \/ i \in DOMAIN streams /\ streams'[i] = streams[i]
            \/ streams'[i] = c /\ net[c] = "open"
      BY <1>1, <2>1, <2>2 DEF PoolTyped
    <3> QED
      BY <1>1, <2>1, <3>1 DEF NotConnected, PooledOnes, Early
  <2>5. Untouched'
    BY <1>1, <1>2, <2>1 DEF NotConnected, Untouched
  <2>6. NotAsked'
    BY <1>1, <1>2, <2>1 DEF NotAsked, PoolTyped
  <2> QED
    BY <1>3, <2>3, <2>4, <2>5, <2>6 DEF Asking, NotConnected
<1> QED
  BY <1>4, <1>5, <1>6 DEF PushStep

LEMMA InitAsking == Init => Asking
<1> SUFFICES ASSUME Init PROVE Asking
  OBVIOUS
<1>0. Shared \in Clients
  BY ClientsAssumption DEF Shared
<1>1. /\ use \in {"pool", "shared"}
      /\ pc = [r \in Requests |-> IF use = "shared" THEN "send" ELSE "idle"]
      /\ client = [r \in Requests |-> IF use = "shared" THEN Shared ELSE NoClient]
      /\ net = [d \in Clients |->
                  IF d # Shared /\ trouble # "server leaves" THEN "closed"
                  ELSE IF use = "shared" /\ d = Shared THEN "open" ELSE "new"]
      /\ reader = [d \in Clients |-> IF use = "shared" /\ d = Shared THEN "top" ELSE "none"]
      /\ streams = <<>> /\ pending = <<>>
      /\ watched = [c \in Clients |-> "no"]
  BY Zenon DEF Init, InitWith
<1>2. /\ stream = [r \in Requests |-> 0]
      /\ told = [r \in Requests |-> "nothing"]
      /\ reply = [r \in Requests |-> [frames |-> 0, ended |-> FALSE]]
      /\ got = [r \in Requests |-> <<>>]
      /\ cut = [r \in Requests |-> "no"]
      /\ wire = [c \in Clients |-> <<>>]
      /\ frameQueue = [c \in Clients |-> <<>>]
  BY Zenon DEF Init, InitWith
<1>3. PICK first \in FirstIds :
        streamCounter = [d \in Clients |-> IF use = "shared" /\ d = Shared THEN first ELSE 1]
  BY Zenon DEF Init, InitWith
<1>4. first \in Nat \ {0}
  BY FirstIdsAssumption
<1>5. streamCounter \in [Clients -> Nat \ {0}]
  BY <1>3, <1>4
<1>6. told \in [Requests -> Outcomes]
  BY <1>2, Zenon DEF Outcomes
<1>a. reader \in [Clients -> {"none", "top", "waiting", "test", "ended"}]
      /\ watched \in [Clients -> {"no", "yes", "lost"}]
  BY <1>1
<1>e. cut \in [Requests -> Cuts]
  BY <1>2 DEF Cuts
<1>f. /\ pending = <<>> /\ pending \in Seq(Closures)
      /\ \A i \in 1..Len(pending) : FALSE
      /\ \A i \in DOMAIN streams : FALSE
  <2>1. pending = <<>> /\ streams = <<>>
    BY <1>1, Zenon
  <2> QED
    BY <2>1
<1>b. /\ frameQueue \in [Clients -> Seq(Frames)] /\ wire \in [Clients -> Seq(Frames)]
      /\ stream \in [Requests -> Nat]
      /\ got \in [Requests -> Seq((Requests \cup {NoClient}) \X Nat)]
      /\ reply \in [Requests -> [frames : Nat, ended : BOOLEAN]]
  BY <1>2
<1>7. AnswersTyped
  BY <1>5, <1>6, <1>a, <1>b, <1>e, <1>f DEF AnswersTyped
<1>8. NotAsked
  BY <1>1, <1>2 DEF NotAsked
<1>c. net[Shared] = "open" \/ use = "pool"
  BY <1>0, <1>1
<1>d. \A d \in Clients : net[d] \in Early => reader[d] = "none"
  BY <1>0, <1>1 DEF Early
<1>9. Untouched /\ PooledOnes
  <2>1. \A c \in Clients : watched[c] = "no"
    BY <1>1
  <2> QED
    BY <1>d, <1>f, <2>1 DEF Untouched, PooledOnes, OnlyConnects
<1>10. HeldOnes
  BY <1>0, <1>1, <1>c DEF HeldOnes, Early
<1> QED
  BY <1>7, <1>8, <1>9, <1>10 DEF Asking, NotConnected

LEMMA NextAsking == PIInv /\ Asking /\ [Next]_vars => Asking'
<1> SUFFICES ASSUME PIInv, Asking, [Next]_vars PROVE Asking'
  OBVIOUS
<1>1. CASE UNCHANGED vars
  <2>1. UNCHANGED <<net, watched, pending, reader, pc, client, use, streams, wire, reply,
                    frameQueue, stream, streamCounter, told, got, cut>>
    BY <1>1 DEF vars, cvars, netVars, serverVars, readVars, askVars, answerVars, poolVars
  <2>2. wire' \in [Clients -> Seq(Frames)]
    BY <2>1 DEF Asking, AnswersTyped
  <2> QED
    BY <2>1, <2>2, ServerAsks
<1>2. ASSUME NEW r \in Requests, PushStep(r)
      PROVE  Asking'
  BY <1>2, PushAsks
<1>3. CASE Progress /\ UNCHANGED poolVars
  <2>1. ASSUME NEW c \in Clients,
               ReadFrame(c) \/ Readable(c) \/ Connects(c) \/ ReaderStarts(c) \/ ReaderStep(c)
        PROVE  Asking'
    BY <1>3, <2>1, ReadAsks, ReaderAsks, ConnectsAsks
  <2>2. ASSUME NEW r \in Requests,
               \/ CompleteConnect(r) \/ ConnectFails(r)
               \/ RequestStep(r) \/ TimesOut(r) \/ Replies(r)
        PROVE  Asking'
    BY <1>3, <2>2, CompleteAsks, FailsAsks, RequestAsks, WorldAsks
  <2> QED
    BY <1>3, <2>1, <2>2 DEF Progress
<1>4. CASE World /\ UNCHANGED poolVars
  BY <1>4, WorldAsks, ReaderAsks DEF World
<1> QED
  BY <1>1, <1>2, <1>3, <1>4 DEF Next, Moves

-----------------------------------------------------------------------------
(* Answering is kept, step by step.                                        *)

(* What has asked keeps its client and its stream.                         *)
Kept ==
  \A r \in Requests : stream[r] # 0 => client'[r] = client[r] /\ stream'[r] = stream[r]

LEMMA ApartBefore == Kept => (StreamsReadApart' => StreamsReadApart)
BY DEF Kept, StreamsReadApart

LEMMA SameAnswers ==
  ASSUME NEW q, NEW c, AnswersIn(q, c), Kept, UNCHANGED reply,
         \A r \in Requests : client[r] = c /\ cut'[r] = "no" => cut[r] = "no" /\ got'[r] = got[r]
  PROVE  AnswersIn(q, c)'
<1> SUFFICES ASSUME NEW r \in Requests, NEW j \in 1..Len(q), IsOf(q[j], r)
             PROVE  Fits(q[j], c, r, Before(q, j, r))'
  BY DEF AnswersIn
<1>1. Fits(q[j], c, r, Before(q, j, r))
  BY DEF AnswersIn
<1>2. client[r] = c /\ client'[r] = c /\ stream[r] # 0 /\ stream'[r] = stream[r]
  BY <1>1 DEF Fits, Kept
<1>3. cut'[r] = "no" => cut[r] = "no" /\ got'[r] = got[r]
  BY <1>2
<1>4. Before(q, j, r)' = Before(q, j, r)
  BY DEF Before
<1> QED
  BY <1>1, <1>2, <1>3, <1>4 DEF Fits

(* A step that touches no frame and no answer.                             *)
LEMMA RestKeeps ==
  ASSUME Asking, Answering, UNCHANGED <<frameQueue, wire, reply, got, cut>>, Kept,
         \A r \in Requests : told'[r] = "response" => told[r] = "response",
         \A r \in Requests, c \in Clients :
           client'[r] = c /\ net'[c] = "open" =>
             \/ client[r] = c /\ net[c] = "open"
             \/ reply[r].frames = 0
  PROVE  Answering'
<1>1. Sequel'
  <2>1. \A c \in Clients : AnswersIn(Sent(c), c)
    BY DEF Answering, Sequel
  <2>2. \A c \in Clients : \A q : AnswersIn(q, c) => AnswersIn(q, c)'
    BY SameAnswers
  <2>3. \A c \in Clients : Sent(c)' = Sent(c)
    BY DEF Sent
  <2> QED
    BY <2>1, <2>2, <2>3 DEF Sequel
<1>2. NoneLost'
  <2>1. \A r \in Requests : ~(0 > Len(got[r]))
    BY DEF Asking, AnswersTyped
  <2> QED
    BY <2>1 DEF Answering, NoneLost, LastIn, Sent
<1>3. GotSoFar'
  BY DEF Answering, GotSoFar
<1> QED
  BY <1>1, <1>2, <1>3 DEF Answering

(* A step that changes what is sent over one client, and no answer.        *)
LEMMA OneSent ==
  ASSUME Answering, NEW c \in Clients,
         UNCHANGED <<client, stream, reply, got, cut, told>>,
         \A d \in Clients \ {c} : frameQueue'[d] = frameQueue[d] /\ wire'[d] = wire[d],
         AnswersIn(Sent(c)', c),
         \A d \in Clients : net'[d] = "open" => net[d] = "open",
         \A r \in Requests : net'[c] = "open" /\ LastIn(Sent(c), r) => LastIn(Sent(c)', r)
  PROVE  Answering'
<1>1. \A d \in Clients : d # c => Sent(d)' = Sent(d)
  BY DEF Sent
<1>2. Sequel'
  <2>1. \A d \in Clients : d # c => AnswersIn(Sent(d)', d)
    BY <1>1 DEF Answering, Sequel
  <2>2. \A d \in Clients : \A q : AnswersIn(q, d) => AnswersIn(q, d)'
    BY SameAnswers DEF Kept
  <2> QED
    BY <2>1, <2>2 DEF Sequel
<1>3. NoneLost'
  <2>1. ASSUME NEW r \in Requests, NEW d \in Clients,
               client[r] = d, net'[d] = "open", cut[r] = "no", reply[r].frames > Len(got[r])
        PROVE  LastIn(Sent(d)', r)
    <3>1. LastIn(Sent(d), r)
      BY <2>1 DEF Answering, NoneLost
    <3> QED
      BY <1>1, <2>1, <3>1
  <2>2. \A q, r : LastIn(q, r) => LastIn(q, r)'
    BY DEF LastIn
  <2> QED
    BY <2>1, <2>2 DEF NoneLost
<1>4. GotSoFar'
  BY DEF Answering, GotSoFar
<1> QED
  BY <1>2, <1>3, <1>4 DEF Answering

LEMMA LastWithout ==
  ASSUME NEW p, NEW q, NEW k, Without(p, q, k), NEW r, LastIn(q, r),
         ~IsOf(q[k], r) \/ q[k].n # reply[r].frames
  PROVE  LastIn(p, r)
<1>1. PICK j \in 1..Len(q) : IsOf(q[j], r) /\ q[j].n = reply[r].frames
  BY DEF LastIn
<1>2. j # k
  BY <1>1
<1>3. PICK i \in 1..Len(p) : p[i] = q[j]
  <2>1. CASE j < k
    BY <1>1, <2>1 DEF Without
  <2>2. CASE j > k
    <3>1. j - 1 \in 1..Len(p) /\ ~(j - 1 < k) /\ (j - 1) + 1 = j
      BY <1>1, <2>2 DEF Without
    <3>2. PICK i \in 1..Len(p) : ~(i < k) /\ i + 1 = j
      BY <3>1
    <3>3. p[i] = q[j]
      BY <3>2 DEF Without
    <3> QED
      BY <3>3
  <2> QED
    BY <1>1, <1>2, <2>1, <2>2 DEF Without
<1> QED
  BY <1>1, <1>3 DEF LastIn

LEMMA Concat ==
  ASSUME NEW S, NEW a \in Seq(S), NEW b \in Seq(S)
  PROVE  /\ a \o b \in Seq(S) /\ Len(a \o b) = Len(a) + Len(b)
         /\ Len(a) \in Nat /\ Len(b) \in Nat /\ Len(a \o b) \in Nat
         /\ \A i \in 1..Len(a) : (a \o b)[i] = a[i]
         /\ \A i \in 1..Len(b) : (a \o b)[Len(a) + i] = b[i]
OBVIOUS

(* The first frame on the wire goes to the queue, or away.                 *)
LEMMA HeadMoves ==
  ASSUME NEW S, NEW q \in Seq(S), NEW w \in Seq(S), w # <<>>
  PROVE  /\ Append(q, Head(w)) \o Tail(w) = q \o w
         /\ Without(q \o Tail(w), q \o w, Len(q) + 1)
         /\ (q \o w)[Len(q) + 1] = Head(w)
<1>1. Len(q) \in Nat /\ Len(w) \in Nat \ {0} /\ Head(w) \in S /\ Head(w) = w[1]
  OBVIOUS
<1>2. /\ Tail(w) \in Seq(S) /\ Len(Tail(w)) = Len(w) - 1
      /\ \A i \in 1..(Len(w) - 1) : Tail(w)[i] = w[i + 1]
  OBVIOUS
<1> DEFINE a == Append(q, Head(w))
           t == Tail(w)
<1>3. a \in Seq(S) /\ Len(a) = Len(q) + 1 /\ \A i \in 1..Len(a) : a[i] = IF i <= Len(q) THEN q[i] ELSE w[1]
  BY <1>1
<1>4. t \in Seq(S) /\ Len(t) = Len(w) - 1 /\ \A i \in 1..(Len(w) - 1) : t[i] = w[i + 1]
  BY <1>2
<1> HIDE DEF a, t
<1>5. /\ Len(q \o w) = Len(q) + Len(w) /\ (q \o w) \in Seq(S)
      /\ \A i \in 1..(Len(q) + Len(w)) : (q \o w)[i] = IF i <= Len(q) THEN q[i] ELSE w[i - Len(q)]
  OBVIOUS
<1>6. /\ a \o t \in Seq(S) /\ Len(a \o t) = Len(a) + Len(t)
      /\ \A i \in 1..(Len(a) + Len(t)) : (a \o t)[i] = IF i <= Len(a) THEN a[i] ELSE t[i - Len(a)]
  <2>1. a \in Seq(S) /\ t \in Seq(S)
    BY <1>3, <1>4
  <2> QED
    BY <2>1
<1>7. /\ q \o t \in Seq(S) /\ Len(q \o t) = Len(q) + Len(t)
      /\ \A i \in 1..(Len(q) + Len(t)) : (q \o t)[i] = IF i <= Len(q) THEN q[i] ELSE t[i - Len(q)]
  <2>1. q \in Seq(S) /\ t \in Seq(S)
    BY <1>4
  <2> QED
    BY <2>1
<1>a. Len(q) \in Nat /\ Len(w) \in Nat \ {0} /\ Len(a) = Len(q) + 1 /\ Len(t) = Len(w) - 1
  BY <1>1, <1>3, <1>4
<1>8. a \o t = q \o w
  <2>1. Len(a) + Len(t) = Len(q) + Len(w)
    BY <1>1, <1>3, <1>4
  <2>2. ASSUME NEW i \in 1..(Len(q) + Len(w))
        PROVE  (a \o t)[i] = (q \o w)[i]
    <3>1. CASE i <= Len(a)
      BY <1>1, <1>3, <1>5, <1>6, <2>1, <3>1
    <3>2. CASE i > Len(a)
      <4>1. i - Len(a) \in 1..(Len(w) - 1) /\ (i - Len(a)) + 1 = i - Len(q)
        BY <1>a, <3>2
      <4>2. t[i - Len(a)] = w[(i - Len(a)) + 1]
        BY <1>4, <4>1
      <4>3. ~(i <= Len(a)) /\ ~(i <= Len(q))
        BY <1>1, <1>3, <3>2
      <4>4. (a \o t)[i] = t[i - Len(a)] /\ (q \o w)[i] = w[i - Len(q)]
        BY <1>5, <1>6, <2>1, <4>3
      <4> QED
        BY <4>1, <4>2, <4>4
    <3>3. i <= Len(a) \/ i > Len(a)
      BY <1>a
    <3> QED
      BY <3>1, <3>2, <3>3, Zenon
  <2> DEFINE u == a \o t
             v == q \o w
  <2>3. /\ u \in Seq(S) /\ v \in Seq(S) /\ Len(u) = Len(v)
        /\ \A i \in 1..Len(v) : u[i] = v[i]
    BY <1>5, <1>6, <2>1, <2>2
  <2> HIDE DEF u, v
  <2>4. u = v
    BY <2>3
  <2> QED
    BY <2>4 DEF u, v
<1>9. Without(q \o t, q \o w, Len(q) + 1)
  <2>1. ASSUME NEW i \in 1..Len(q \o t)
        PROVE  (q \o t)[i] = IF i < Len(q) + 1 THEN (q \o w)[i] ELSE (q \o w)[i + 1]
    <3>1. CASE i <= Len(q)
      BY <1>1, <1>5, <1>7, <3>1
    <3>2. CASE i > Len(q)
      <4>1. i - Len(q) \in 1..(Len(w) - 1) /\ (i - Len(q)) + 1 = (i + 1) - Len(q)
               /\ i + 1 \in 1..(Len(q) + Len(w)) /\ ~(i + 1 <= Len(q)) /\ ~(i < Len(q) + 1)
        <5>1. Len(q \o t) = Len(q) + Len(t)
          BY <1>7
        <5> QED
          BY <1>a, <3>2, <5>1
      <4>2. t[i - Len(q)] = w[(i - Len(q)) + 1]
        BY <1>4, <4>1
      <4>3. (q \o w)[i + 1] = w[(i + 1) - Len(q)]
        BY <1>5, <4>1
      <4>4. (q \o t)[i] = t[i - Len(q)]
        BY <1>a, <1>7, <3>2
      <4> QED
        BY <4>1, <4>2, <4>3, <4>4
    <3>3. i \in Nat
      BY <1>a, <1>7
    <3> QED
      BY <1>a, <3>1, <3>2, <3>3
  <2>2. Len(q \o w) = Len(q) + Len(w) /\ Len(q \o t) = Len(q) + Len(t)
    BY <1>5, <1>7
  <2>3. Len(q \o w) \in Nat /\ Len(q) + 1 \in 1..Len(q \o w) /\ Len(q \o t) = Len(q \o w) - 1
    BY <1>a, <2>2
  <2> QED
    BY <2>1, <2>3 DEF Without
<1>10. (q \o w)[Len(q) + 1] = Head(w)
  BY <1>1, <1>5
<1> QED
  BY <1>8, <1>9, <1>10 DEF a, t

LEMMA SentTyped ==
  ASSUME AnswersTyped, NEW c \in Clients
  PROVE  /\ frameQueue[c] \in Seq(Frames) /\ wire[c] \in Seq(Frames)
         /\ Sent(c) \in Seq(Frames) /\ Len(Sent(c)) \in Nat
<1>1. frameQueue[c] \in Seq(Frames) /\ wire[c] \in Seq(Frames)
  BY DEF AnswersTyped
<1>2. Sent(c) \in Seq(Frames)
  BY <1>1 DEF Sent
<1> QED
  BY <1>1, <1>2

LEMMA ReadAnswers ==
  ASSUME PIInv, Asking, Answering, NEW c \in Clients, ReadFrame(c)
  PROVE  Answering'
<1> DEFINE q == frameQueue[c]
           w == wire[c]
           h == [Head(w) EXCEPT !.whole = FALSE]
<1>1. UNCHANGED <<client, stream, reply, got, cut, told>>
  BY DEF ReadFrame, askVars, answerVars
<1>2. /\ PoolTyped /\ AnswersTyped
      /\ q \in Seq(Frames) /\ w \in Seq(Frames) /\ Sent(c) = q \o w /\ Len(q \o w) \in Nat
      /\ AnswersIn(q \o w, c)
  <2>1. PoolTyped /\ AnswersTyped
    BY DEF PIInv, Asking
  <2> QED
    BY <2>1, SentTyped DEF Sent, Answering, Sequel
<1> DEFINE Becomes(a, b) ==
             /\ frameQueue' = [frameQueue EXCEPT ![c] = a]
             /\ wire' = [wire EXCEPT ![c] = b]
<1>3. /\ \A d \in Clients : net'[d] = "open" => net[d] = "open"
      /\ \/ net[c] = "open" /\ w # <<>> /\ Head(w).type \in {"SETTINGS", "ACK"} /\ Becomes(q, Tail(w))
         \/ net[c] = "open" /\ w # <<>> /\ Becomes(Append(q, Head(w)), Tail(w))
         \/ Becomes(q, w)
         \/ net'[c] # "open" /\ w # <<>> /\ Becomes(q, <<>>)
         \/ net'[c] # "open" /\ w # <<>> /\ Becomes(Append(q, h), <<>>)
  <2>1. frameQueue = [frameQueue EXCEPT ![c] = q] /\ wire = [wire EXCEPT ![c] = w]
    BY <1>2 DEF AnswersTyped
  <2>2. PICK kind \in {"read", "readable"} :
        \/ /\ net[c] = "open" /\ w # <<>>
           /\ GotFrame(c, Head(w), Tail(pending))
           /\ wire' = [wire EXCEPT ![c] = Tail(w)]
        \/ UNCHANGED <<net, frameQueue, wire>>
        \/ GotNothing(c, Tail(pending)) /\ UNCHANGED wire
        \/ /\ net[c] = "closed" /\ w # <<>>
           /\ GotFrame(c, h, Tail(pending))
           /\ wire' = [wire EXCEPT ![c] = <<>>]
    BY DEF ReadFrame, readVars
  <2>3. \A f : GotFrame(c, f, Tail(pending)) =>
           /\ net' = net
           /\ \/ f.type \in {"SETTINGS", "ACK"} /\ frameQueue' = frameQueue
              \/ frameQueue' = [frameQueue EXCEPT ![c] = Append(q, f)]
    BY DEF GotFrame, readVars
  <2>4. GotNothing(c, Tail(pending)) =>
          frameQueue' = frameQueue /\ net' = [net EXCEPT ![c] = "closed"]
    BY DEF GotNothing, Close
  <2>5. \A d \in Clients : net'[d] = "open" => net[d] = "open"
    BY <1>2, <2>2, <2>3, <2>4 DEF PoolTyped
  <2> HIDE DEF q, w, h
  <2> QED
    BY <2>1, <2>2, <2>3, <2>4, <2>5
<1>4. ASSUME NEW a, NEW b, Becomes(a, b)
      PROVE  /\ Sent(c)' = a \o b
             /\ \A d \in Clients \ {c} : frameQueue'[d] = frameQueue[d] /\ wire'[d] = wire[d]
  BY <1>2, <1>4 DEF Sent, AnswersTyped
<1> HIDE DEF q, w, Becomes, h
<1>5. ASSUME NEW a, NEW b, Becomes(a, b), AnswersIn(a \o b, c),
             \A r \in Requests : net'[c] = "open" /\ LastIn(q \o w, r) => LastIn(a \o b, r)
      PROVE  Answering'
  <2> DEFINE p == a \o b
             s == q \o w
  <2>1. Sent(c)' = p /\ Sent(c) = s /\ AnswersIn(p, c)
    BY <1>2, <1>4, <1>5
  <2>2. \A r \in Requests : net'[c] = "open" /\ LastIn(s, r) => LastIn(p, r)
    BY <1>5
  <2>3. \A d \in Clients \ {c} : frameQueue'[d] = frameQueue[d] /\ wire'[d] = wire[d]
    BY <1>4, <1>5
  <2> HIDE DEF p, s
  <2> QED
    BY <1>1, <1>3, <2>1, <2>2, <2>3, OneSent
<1>6. CASE w # <<>> /\ Head(w).type \in {"SETTINGS", "ACK"} /\ Becomes(q, Tail(w))
  <2>1. /\ Without(q \o Tail(w), q \o w, Len(q) + 1)
        /\ \A r \in Requests : ~IsOf((q \o w)[Len(q) + 1], r)
    <3>1. /\ Without(q \o Tail(w), q \o w, Len(q) + 1)
          /\ (q \o w)[Len(q) + 1] = Head(w)
      BY <1>2, <1>6, HeadMoves
    <3> QED
      BY <1>6, <3>1 DEF IsOf
  <2>2. AnswersIn(q \o Tail(w), c)
    BY <1>2, <2>1, OtherTakenKeeps
  <2>3. \A r \in Requests : LastIn(q \o w, r) => LastIn(q \o Tail(w), r)
    BY <2>1, LastWithout
  <2> QED
    BY <1>5, <1>6, <2>2, <2>3
<1>7. CASE w # <<>> /\ Becomes(Append(q, Head(w)), Tail(w))
  <2>1. Append(q, Head(w)) \o Tail(w) = q \o w
    BY <1>2, <1>7, HeadMoves
  <2> QED
    BY <1>2, <1>5, <1>7, <2>1
<1>8. CASE Becomes(q, w)
  BY <1>2, <1>5, <1>8
<1>9. CASE net'[c] # "open" /\ Becomes(q, <<>>)
  <2>1. q \o <<>> = q
    BY <1>2
  <2>2. /\ Len(q) \in 0..Len(q \o w)
        /\ \A i \in 1..Len(q) : Same(q[i], (q \o w)[i])
    BY <1>2 DEF Same
  <2>3. AnswersIn(q, c)
    BY <1>2, <2>2, PartKeeps
  <2>4. AnswersIn(q \o <<>>, c)
    BY <2>1, <2>3
  <2> QED
    BY <1>5, <1>9, <2>4
<1>10. CASE net'[c] # "open" /\ w # <<>> /\ Becomes(Append(q, h), <<>>)
  <2> DEFINE p == Append(q, h)
  <2>1. Head(w) \in Frames /\ h \in Frames /\ Same(h, Head(w))
    <3>1. Head(w) \in Frames
      BY <1>2, <1>10
    <3>2. h \in Frames
      BY <1>2, <3>1, FrameTyped DEF h
    <3> QED
      BY <3>1, <3>2 DEF Same, h, Frames
  <2>2. p \in Seq(Frames) /\ p \o <<>> = p
    <3>1. p \in Seq(Frames)
      BY <1>2, <2>1
    <3> HIDE DEF p
    <3> QED
      BY <3>1
  <2>3. (q \o w)[Len(q) + 1] = Head(w)
    BY <1>2, <1>10, HeadMoves
  <2>4. Len(p) \in 0..Len(q \o w) /\ Len(p) = Len(q) + 1
    BY <1>2, <1>10
  <2>5. ASSUME NEW i \in 1..Len(p)
        PROVE  Same(p[i], (q \o w)[i])
    <3>1. CASE i \in 1..Len(q)
      <4>1. p[i] = q[i] /\ (q \o w)[i] = q[i]
        BY <1>2, <2>1, <3>1
      <4> QED
        BY <4>1 DEF Same
    <3>2. CASE i = Len(q) + 1
      <4>1. p[i] = h
        BY <1>2, <3>2
      <4> QED
        BY <2>1, <2>3, <3>2, <4>1
    <3>3. i \in 1..Len(q) \/ i = Len(q) + 1
      BY <1>2, <2>4
    <3> QED
      BY <3>1, <3>2, <3>3, Zenon
  <2> HIDE DEF p
  <2>6. AnswersIn(p, c)
    BY <1>2, <2>4, <2>5, PartKeeps
  <2>7. Becomes(p, <<>>) /\ AnswersIn(p \o <<>>, c)
    BY <1>10, <2>2, <2>6 DEF p
  <2> QED
    BY <1>5, <1>10, <2>7
<1> QED
  BY <1>3, <1>6, <1>7, <1>8, <1>9, <1>10

(* The server's frames, and the end of the server.                         *)
LEMMA OneMore ==
  ASSUME NEW S, NEW q \in Seq(S), NEW w \in Seq(S), NEW f \in S
  PROVE  /\ q \o Append(w, f) = Append(q \o w, f)
         /\ q \o w \in Seq(S) /\ Len(q \o w) \in Nat
         /\ Append(q \o w, f) \in Seq(S) /\ Len(Append(q \o w, f)) = Len(q \o w) + 1
         /\ Append(q \o w, f)[Len(q \o w) + 1] = f
         /\ \A i \in 1..Len(q \o w) : Append(q \o w, f)[i] = (q \o w)[i]
<1> DEFINE b == Append(w, f)
           s == q \o w
<1>1. b \in Seq(S) /\ Len(b) = Len(w) + 1 /\ s \in Seq(S) /\ Len(s) = Len(q) + Len(w)
  OBVIOUS
<1>2. q \o b = Append(s, f)
  <2> DEFINE x == q \o b
             y == Append(s, f)
  <2>1. x \in Seq(S) /\ Len(x) = Len(q) + Len(w) + 1
    BY <1>1
  <2>2. y \in Seq(S) /\ Len(y) = Len(q) + Len(w) + 1
    BY <1>1
  <2>3. ASSUME NEW i \in 1..(Len(q) + Len(w) + 1)
        PROVE  x[i] = y[i]
    <3>1. CASE i <= Len(q)
      BY <3>1
    <3>2. CASE i > Len(q) /\ i <= Len(q) + Len(w)
      BY <3>2
    <3>3. CASE i = Len(q) + Len(w) + 1
      BY <3>3
    <3> HIDE DEF x, y
    <3>4. i \in Nat /\ Len(q) \in Nat /\ Len(w) \in Nat
      OBVIOUS
    <3> QED
      BY <3>1, <3>2, <3>3, <3>4
  <2> HIDE DEF x, y
  <2> QED
    BY <2>1, <2>2, <2>3
<1>3. Len(s) \in Nat
  BY <1>1
<1> HIDE DEF b, s
<1>4. /\ Append(s, f) \in Seq(S) /\ Len(Append(s, f)) = Len(s) + 1
      /\ Append(s, f)[Len(s) + 1] = f /\ \A i \in 1..Len(s) : Append(s, f)[i] = s[i]
  <2>1. s \in Seq(S)
    BY <1>1
  <2> QED
    BY <2>1
<1> QED
  BY <1>1, <1>2, <1>3, <1>4 DEF b, s

LEMMA OtherAnswers ==
  ASSUME Asking, Answering, NEW c \in Clients, ServerSendsOther(c)
  PROVE  Answering'
<1> DEFINE q == frameQueue[c]
           w == wire[c]
<1>1. AnswersTyped
  BY DEF Asking
<1>2. PICK f \in {OtherFrame("SETTINGS", 0), OtherFrame("ACK", 0)} \cup Strays(c) :
        wire' = [wire EXCEPT ![c] = Append(@, f)]
  BY Zenon DEF ServerSendsOther
<1>3. f \in Frames /\ \A r \in Requests : ~IsOf(f, r)
  <2>1. f \in Frames
    BY <1>1, FrameTyped DEF Strays, OfClient
  <2>2. f.type \in {"SETTINGS", "ACK", "OTHER"}
    BY DEF Strays, OtherFrame
  <2> QED
    BY <2>1, <2>2 DEF IsOf
<1>4. UNCHANGED <<client, stream, reply, got, cut, told, net, frameQueue>>
  BY Zenon DEF ServerSendsOther, netVars, readVars, askVars, answerVars
<1>5. q \in Seq(Frames) /\ w \in Seq(Frames) /\ Sent(c) = q \o w /\ AnswersIn(q \o w, c)
  BY <1>1, SentTyped DEF Sent, Answering, Sequel
<1>6. Sent(c)' = q \o Append(w, f)
  BY <1>1, <1>2, <1>4 DEF Sent, AnswersTyped
<1> HIDE DEF q, w
<1> DEFINE s == q \o w
<1>7. /\ Sent(c)' = Append(s, f) /\ s \in Seq(Frames) /\ Len(s) \in Nat
      /\ Len(Append(s, f)) = Len(s) + 1 /\ \A i \in 1..Len(s) : Append(s, f)[i] = s[i]
  BY <1>3, <1>5, <1>6, OneMore
<1>8. Sent(c) = s /\ AnswersIn(s, c)
  BY <1>5
<1> HIDE DEF s
<1>9. AnswersIn(Append(s, f), c)
  BY <1>3, <1>7, <1>8, AppendKeeps
<1>10. \A r \in Requests : LastIn(s, r) => LastIn(Append(s, f), r)
  BY <1>7 DEF LastIn
<1>11. \A d \in Clients \ {c} : frameQueue'[d] = frameQueue[d] /\ wire'[d] = wire[d]
  BY <1>1, <1>2, <1>4 DEF AnswersTyped
<1> QED
  BY <1>4, <1>7, <1>8, <1>9, <1>10, <1>11, OneSent

LEMMA LeavesAnswers ==
  ASSUME Asking, Answering, NEW c \in Clients, ServerLeaves(c)
  PROVE  Answering'
<1> DEFINE q == frameQueue[c]
           w == wire[c]
           n == Len(w)
           g == [w[n] EXCEPT !.whole = FALSE]
           v == [w EXCEPT ![n] = g]
<1>1. AnswersTyped
  BY DEF Asking
<1>2. /\ UNCHANGED <<client, stream, reply, got, cut, told, net, frameQueue>>
      /\ \/ wire' = wire
         \/ w # <<>> /\ wire' = [wire EXCEPT ![c] = v]
  BY Zenon DEF ServerLeaves, netVars, readVars, askVars, answerVars
<1>3. q \in Seq(Frames) /\ w \in Seq(Frames) /\ Sent(c) = q \o w /\ AnswersIn(q \o w, c)
  BY <1>1, SentTyped DEF Sent, Answering, Sequel
<1>4. ASSUME NEW u \in Seq(Frames), wire' = [wire EXCEPT ![c] = u], Len(u) = Len(w),
             \A i \in 1..Len(w) : Same(u[i], w[i])
      PROVE  Answering'
  <2>1. Sent(c)' = q \o u /\ \A d \in Clients \ {c} : frameQueue'[d] = frameQueue[d] /\ wire'[d] = wire[d]
    BY <1>1, <1>2, <1>4 DEF Sent, AnswersTyped
  <2> HIDE DEF q, w
  <2>2. /\ Len(q \o u) = Len(q \o w) /\ Len(q \o w) \in Nat
        /\ Len(q) \in Nat /\ Len(w) \in Nat /\ Len(q \o w) = Len(q) + Len(w)
    <3>1. q \in Seq(Frames) /\ w \in Seq(Frames) /\ u \in Seq(Frames) /\ Len(u) = Len(w)
      BY <1>3, <1>4
    <3> QED
      BY <3>1, Concat
  <2>3. ASSUME NEW i \in 1..Len(q \o u)
        PROVE  Same((q \o u)[i], (q \o w)[i])
    <3>1. CASE i \in 1..Len(q)
      <4>1. (q \o u)[i] = (q \o w)[i]
        BY <1>3, <1>4, <3>1
      <4> QED
        BY <4>1 DEF Same
    <3>2. CASE i - Len(q) \in 1..Len(w)
      <4>1. (q \o u)[i] = u[i - Len(q)] /\ (q \o w)[i] = w[i - Len(q)]
        BY <1>3, <1>4, <3>2
      <4> QED
        BY <1>4, <3>2, <4>1
    <3>3. i \in 1..Len(q) \/ i - Len(q) \in 1..Len(w)
      BY <2>2
    <3> QED
      BY <3>1, <3>2, <3>3, Zenon
  <2> DEFINE s == q \o w
             p == q \o u
  <2>4. /\ Len(p) = Len(s) /\ Len(s) \in Nat /\ \A i \in 1..Len(p) : Same(p[i], s[i])
        /\ Sent(c) = s /\ Sent(c)' = p /\ AnswersIn(s, c)
    BY <1>3, <2>1, <2>2, <2>3
  <2> HIDE DEF s, p
  <2>5. AnswersIn(p, c)
    BY <2>4, PartKeeps
  <2>6. \A r \in Requests : LastIn(s, r) => LastIn(p, r)
    BY <2>4 DEF LastIn, Same, IsOf
  <2> QED
    BY <1>2, <2>1, <2>4, <2>5, <2>6, OneSent
<1>5. CASE wire' = wire
  <2>1. wire' = [wire EXCEPT ![c] = w]
    BY <1>1, <1>5 DEF AnswersTyped
  <2>2. \A i \in 1..Len(w) : Same(w[i], w[i])
    BY DEF Same
  <2> HIDE DEF w
  <2> QED
    BY <1>3, <1>4, <2>1, <2>2
<1>6. CASE w # <<>> /\ wire' = [wire EXCEPT ![c] = v]
  <2>1. n \in 1..Len(w) /\ w[n] \in Frames
    BY <1>3, <1>6
  <2>2. g \in Frames /\ Same(g, w[n])
    <3>1. g \in Frames
      BY <1>1, <2>1, FrameTyped
    <3> QED
      BY <2>1, <3>1 DEF Same, Frames
  <2> HIDE DEF g
  <2>3. v \in Seq(Frames) /\ Len(v) = Len(w)
    BY <1>3, <2>2, Replaced
  <2>4. \A i \in 1..Len(w) : Same(v[i], w[i])
    BY <1>3, <2>2 DEF Same
  <2> HIDE DEF v
  <2> QED
    BY <1>4, <1>6, <2>3, <2>4
<1> QED
  BY <1>2, <1>5, <1>6

LEMMA ReplyAnswers ==
  ASSUME PIInv, Asking, Answering, NEW r \in Requests, NEW e \in BOOLEAN, NEW alone \in BOOLEAN,
         ServerReplies(r, e, alone)
  PROVE  Answering'
<1>0. PICK c, n, f, s :
        /\ c = client[r] /\ n = reply[r].frames + 1
        /\ f = ResponseFrame(r, n, e, alone) /\ s = Sent(c)
  OBVIOUS
<1> DEFINE q == frameQueue[c]
           w == wire[c]
<1>1. PoolTyped /\ AnswersTyped /\ NotAsked
  BY DEF PIInv, Asking
<1>2. /\ UNCHANGED <<client, stream, got, cut, told, net, frameQueue>>
      /\ stream[r] # 0 /\ pc[r] # "send" /\ ~reply[r].ended /\ net[c] = "open"
      /\ reply' = [reply EXCEPT ![r] = [frames |-> n, ended |-> e]]
      /\ wire' = [wire EXCEPT ![c] = Append(w, f)]
  BY <1>0 DEF ServerReplies, Asked, CanSend, Reachable, netVars, readVars, askVars, answerVars
<1>3. c \in Clients /\ n \in Nat /\ n - 1 = reply[r].frames /\ reply[r].frames \in Nat
  <2>1. c \in Clients
    BY <1>0, <1>1, <1>2 DEF NotAsked, PoolTyped
  <2>2. reply[r] \in [frames : Nat, ended : BOOLEAN]
    BY <1>1 DEF AnswersTyped
  <2> QED
    BY <1>0, <2>1, <2>2
<1>4. /\ f \in Frames /\ IsOf(f, r) /\ \A t \in Requests : t # r => ~IsOf(f, t)
      /\ f.n = n /\ f.end = e /\ f.id = IdRead(stream[r])
  <2>1. f \in Frames
    BY <1>0, <1>1, <1>3, FrameTyped
  <2> QED
    BY <1>0, <2>1 DEF IsOf, ResponseFrame
<1>5. /\ Sent(c)' = Append(s, f) /\ s \in Seq(Frames) /\ Len(s) \in Nat
      /\ Len(Append(s, f)) = Len(s) + 1 /\ Append(s, f)[Len(s) + 1] = f
      /\ \A i \in 1..Len(s) : Append(s, f)[i] = s[i]
  <2>1. q \in Seq(Frames) /\ w \in Seq(Frames)
    BY <1>1, <1>3, SentTyped
  <2>2. Sent(c)' = q \o Append(w, f)
    BY <1>1, <1>2, <1>3 DEF Sent, AnswersTyped
  <2> HIDE DEF q, w
  <2>3. s = q \o w
    BY <1>0 DEF Sent, q, w
  <2> DEFINE u == q \o w
  <2>4. /\ q \o Append(w, f) = Append(u, f) /\ u \in Seq(Frames) /\ Len(u) \in Nat
        /\ Len(Append(u, f)) = Len(u) + 1 /\ Append(u, f)[Len(u) + 1] = f
        /\ \A i \in 1..Len(u) : Append(u, f)[i] = u[i]
    BY <1>4, <2>1, OneMore
  <2>5. s = u
    BY <2>3
  <2> HIDE DEF u, q, w
  <2> QED
    BY <2>2, <2>4, <2>5
<1>6. /\ reply'[r].frames = n /\ reply'[r].ended = e
      /\ \A t \in Requests : t # r => reply'[t] = reply[t]
  <2> DEFINE x == [frames |-> n, ended |-> e]
  <2>1. reply' = [reply EXCEPT ![r] = x] /\ x.frames = n /\ x.ended = e
    BY <1>2
  <2>2. reply \in [Requests -> [frames : Nat, ended : BOOLEAN]]
    BY <1>1 DEF AnswersTyped
  <2> HIDE DEF x
  <2> QED
    BY <2>1, <2>2
<1>7. \A d \in Clients : d # c => Sent(d)' = Sent(d)
  BY <1>1, <1>2 DEF Sent, AnswersTyped
<1>8. Len(got[r]) \in Nat /\ cut[r] \in Cuts
  BY <1>1 DEF AnswersTyped
<1> HIDE DEF q, w
<1>9. AnswersIn(s, c)
  BY <1>0, <1>3 DEF Answering, Sequel
<1>10. ASSUME NEW p, NEW d, AnswersIn(p, d)
       PROVE  AnswersIn(p, d)'
  <2> SUFFICES ASSUME NEW t \in Requests, NEW j \in 1..Len(p), IsOf(p[j], t)
               PROVE  Fits(p[j], d, t, Before(p, j, t))'
    BY DEF AnswersIn
  <2>1. Fits(p[j], d, t, Before(p, j, t))
    BY <1>10 DEF AnswersIn
  <2>2. Before(p, j, t)' = Before(p, j, t)
    BY DEF Before
  <2>3. CASE t # r
    BY <1>2, <1>6, <2>1, <2>2, <2>3 DEF Fits
  <2>4. CASE t = r
    <3>1. p[j].n \in 1..(n - 1) /\ ~p[j].end
      BY <1>2, <1>3, <2>1, <2>4 DEF Fits
    <3>2. p[j].n \in 1..n /\ ~(p[j].n = n)
      BY <1>3, <3>1
    <3> QED
      BY <1>2, <1>6, <2>1, <2>2, <2>4, <3>1, <3>2 DEF Fits
  <2> QED
    BY <2>3, <2>4
<1>11. Fits(f, c, r, Before(s, Len(s) + 1, r))'
  <2> DEFINE B == Before(s, Len(s) + 1, r)
  <2>1. \A m \in B : m < n
    <3>1. ASSUME NEW j \in 1..Len(s), IsOf(s[j], r)
          PROVE  s[j].n < n
      <4>1. s[j].n \in 1..reply[r].frames
        BY <1>9, <3>1 DEF AnswersIn, Fits
      <4> QED
        BY <1>3, <4>1
    <3>2. (Len(s) + 1) - 1 = Len(s)
      BY <1>5
    <3> QED
      BY <3>1, <3>2 DEF Before
  <2>2. ASSUME cut[r] = "no"
        PROVE  n > Len(got[r]) /\ (n > Len(got[r]) + 1 => n - 1 \in B)
    <3>1. Len(got[r]) <= reply[r].frames
      BY <2>2 DEF Answering, GotSoFar
    <3>2. ASSUME n > Len(got[r]) + 1
          PROVE  n - 1 \in B
      <4>1. reply[r].frames > Len(got[r])
        BY <1>3, <1>8, <3>2
      <4>2. net[c] = "open" /\ client[r] = c
        BY <1>0, <1>2
      <4>3. LastIn(s, r)
        BY <1>0, <1>3, <2>2, <4>1, <4>2 DEF Answering, NoneLost
      <4>4. PICK j \in 1..Len(s) : IsOf(s[j], r) /\ s[j].n = reply[r].frames
        BY <4>3 DEF LastIn
      <4>5. j \in 1..((Len(s) + 1) - 1)
        BY <1>5
      <4>6. s[j].n \in B
        BY <4>4, <4>5, InBefore
      <4> QED
        BY <1>3, <4>4, <4>6
    <3> QED
      BY <1>3, <1>8, <3>1, <3>2
  <2>3. f.n = n /\ f.n \in 1..n /\ f.end = e /\ client'[r] = c /\ Before(s, Len(s) + 1, r)' = B
    BY <1>0, <1>2, <1>3, <1>4 DEF Before
  <2> HIDE DEF B
  <2> QED
    BY <1>2, <1>4, <1>6, <2>1, <2>2, <2>3 DEF Fits
<1>12. AnswersIn(Append(s, f), c)'
  <2> DEFINE p == Append(s, f)
  <2> SUFFICES ASSUME NEW t \in Requests, NEW j \in 1..Len(p), IsOf(p[j], t)
               PROVE  Fits(p[j], c, t, Before(p, j, t))'
    BY DEF AnswersIn
  <2>1. Before(p, j, t)' = Before(s, j, t)'
    <3>1. \A i \in 1..(j - 1) : p[i] = s[i]
      BY <1>5
    <3> QED
      BY <3>1 DEF Before
  <2>2. CASE j \in 1..Len(s)
    <3>1. p[j] = s[j] /\ AnswersIn(s, c)'
      BY <1>5, <1>9, <1>10, <2>2
    <3> QED
      BY <2>1, <2>2, <3>1 DEF AnswersIn
  <2>3. CASE j = Len(s) + 1
    BY <1>4, <1>5, <1>11, <2>1, <2>3
  <2> QED
    BY <1>5, <2>2, <2>3
<1>13. Sequel'
  <2>1. \A d \in Clients : d # c => AnswersIn(Sent(d), d)
    BY DEF Answering, Sequel
  <2>2. \A d \in Clients : \A p : AnswersIn(p, d) => AnswersIn(p, d)'
    BY <1>10
  <2> QED
    BY <1>5, <1>7, <1>12, <2>1, <2>2 DEF Sequel
<1>14. NoneLost'
  <2> SUFFICES ASSUME NEW t \in Requests, NEW d \in Clients,
                      client[t] = d, net[d] = "open", cut[t] = "no", reply'[t].frames > Len(got[t])
               PROVE  LastIn(Sent(d), t)'
    BY <1>2 DEF NoneLost
  <2>1. CASE t = r
    <3>1. d = c
      BY <1>0, <2>1
    <3>2. Len(s) + 1 \in 1..Len(Append(s, f))
      BY <1>5
    <3> QED
      BY <1>4, <1>5, <1>6, <2>1, <3>1, <3>2 DEF LastIn
  <2>2. CASE t # r
    <3>1. LastIn(Sent(d), t)
      BY <1>6, <2>2 DEF Answering, NoneLost
    <3>2. CASE d = c
      <4>1. LastIn(s, t)
        BY <1>0, <3>1, <3>2
      <4>2. PICK i \in 1..Len(s) : IsOf(s[i], t) /\ s[i].n = reply[t].frames
        BY <4>1 DEF LastIn
      <4>3. i \in 1..Len(Append(s, f)) /\ Append(s, f)[i] = s[i]
        BY <1>5
      <4> QED
        BY <1>5, <1>6, <2>2, <3>2, <4>2, <4>3 DEF LastIn
    <3>3. CASE d # c
      BY <1>6, <1>7, <2>2, <3>1, <3>3 DEF LastIn
    <3> QED
      BY <3>2, <3>3
  <2> QED
    BY <2>1, <2>2
<1>15. GotSoFar'
  <2> SUFFICES ASSUME NEW t \in Requests, cut[t] = "no"
               PROVE  /\ Len(got[t]) <= reply'[t].frames
                      /\ got[t] = [i \in 1..Len(got[t]) |-> <<t, i>>]
                      /\ told[t] = "response" => reply'[t].ended /\ Len(got[t]) = reply'[t].frames
    BY <1>2 DEF GotSoFar
  <2>1. /\ Len(got[t]) <= reply[t].frames
        /\ got[t] = [i \in 1..Len(got[t]) |-> <<t, i>>]
        /\ told[t] = "response" => reply[t].ended /\ Len(got[t]) = reply[t].frames
    BY DEF Answering, GotSoFar
  <2>2. CASE t = r
    BY <1>2, <1>3, <1>6, <1>8, <2>1, <2>2
  <2>3. CASE t # r
    BY <1>6, <2>1, <2>3
  <2> QED
    BY <2>2, <2>3
<1> QED
  BY <1>13, <1>14, <1>15 DEF Answering

LEMMA NextNumber ==
  ASSUME NEW r, NEW S, NEW g \in Seq(S), NEW h,
         g = [k \in 1..Len(g) |-> <<r, k>>], h = Append(g, <<r, Len(g) + 1>>)
  PROVE  h = [k \in 1..Len(h) |-> <<r, k>>]
<1> DEFINE n == Len(g)
<1>1. n \in Nat /\ Len(h) = n + 1 /\ DOMAIN h = 1..(n + 1)
      /\ h[n + 1] = <<r, n + 1>> /\ (\A k \in 1..n : h[k] = g[k])
      /\ h = [k \in 1..(n + 1) |-> h[k]]
  OBVIOUS
<1>2. \A k \in 1..n : g[k] = <<r, k>>
  OBVIOUS
<1> HIDE DEF n
<1>3. \A k \in 1..(n + 1) : h[k] = <<r, k>>
  BY <1>1, <1>2
<1> QED
  BY <1>1, <1>3

(* The frame that a request takes is the next one of its response.         *)
LEMMA TakesAnswers ==
  ASSUME PIInv, Asking, Answering, StreamsReadApart, NEW r \in Requests, TakesFrame(r)
  PROVE  Answering'
<1> DEFINE first == CHOOSE k \in Mine(r) : \A j \in Mine(r) : k <= j
           frame == frameQueue[client[r]][first]
<1>a. /\ UNCHANGED <<client, stream, reply, wire>>
      /\ Close(client[r], pending) \/ net' = net
      /\ pc[r] \in {"await", "woken"} /\ Mine(r) # {}
      /\ frameQueue' = [frameQueue EXCEPT ![client[r]] = RemoveAt(@, first)]
      /\ cut' = [cut EXCEPT ![r] = IF @ # "no" THEN @ ELSE Missing(frame)]
      /\ got' = [got EXCEPT ![r] = IF frame.whole /\ frame.type \in {"HEADERS", "DATA"}
                                   THEN Append(@, <<frame.of, frame.n>>) ELSE @]
      /\ \/ frame.type \notin {"HEADERS", "DATA"} /\ told' = [told EXCEPT ![r] = "unexpected"]
         \/ frame.type \in {"HEADERS", "DATA"} /\ frame.end /\ told' = [told EXCEPT ![r] = "response"]
         \/ frame.type \in {"HEADERS", "DATA"} /\ ~frame.end /\ told' = told
  BY DEF TakesFrame, MayDequeue, Answer, netVars, serverVars, askVars
<1> HIDE DEF first, frame
<1>0. PICK c, i, f, q, w :
        /\ c = client[r] /\ q = frameQueue[c] /\ w = wire[c]
        /\ i = first /\ f = frame
  OBVIOUS
<1> DEFINE s == q \o w
           p == RemoveAt(q, i) \o w
<1>1. PoolTyped /\ AnswersTyped /\ NotAsked
  BY DEF PIInv, Asking
<1>2. /\ UNCHANGED <<client, stream, reply, wire>>
      /\ pc[r] \in {"await", "woken"} /\ Mine(r) # {}
      /\ frameQueue' = [frameQueue EXCEPT ![c] = RemoveAt(q, i)]
      /\ cut' = [cut EXCEPT ![r] = IF @ # "no" THEN @ ELSE Missing(f)]
      /\ got' = [got EXCEPT ![r] = IF f.whole /\ f.type \in {"HEADERS", "DATA"}
                                   THEN Append(@, <<f.of, f.n>>) ELSE @]
      /\ \/ f.type \notin {"HEADERS", "DATA"} /\ told' = [told EXCEPT ![r] = "unexpected"]
         \/ f.type \in {"HEADERS", "DATA"} /\ f.end /\ told' = [told EXCEPT ![r] = "response"]
         \/ f.type \in {"HEADERS", "DATA"} /\ ~f.end /\ told' = told
  BY <1>a, <1>0
<1>b. \A d \in Clients : net'[d] = "open" => net[d] = "open"
  BY <1>a, <1>1 DEF Close, PoolTyped
<1>3. c \in Clients /\ stream[r] # 0 /\ told[r] = "nothing"
  BY <1>0, <1>1, <1>2 DEF PoolTyped, NotAsked
<1>4. /\ q \in Seq(Frames) /\ w \in Seq(Frames)
      /\ i \in Mine(r) /\ (\A j \in Mine(r) : i <= j) /\ i \in 1..Len(q) /\ f \in Frames
  <2>1. /\ i \in Mine(r) /\ (\A j \in Mine(r) : i <= j)
        /\ i \in 1..Len(frameQueue[client[r]]) /\ frameQueue[client[r]][i] \in Frames
    BY <1>0, <1>1, <1>2, <1>3, FirstOfMine DEF first
  <2>2. q \in Seq(Frames) /\ w \in Seq(Frames)
    BY <1>0, <1>1, <1>3, SentTyped
  <2> QED
    BY <1>0, <2>1, <2>2 DEF frame
<1>5. /\ Sent(c) = s /\ Sent(c)' = p /\ AnswersIn(s, c)
      /\ \A d \in Clients : d # c => Sent(d)' = Sent(d)
  <2>1. Sent(c) = s
    BY <1>0 DEF Sent
  <2>2. AnswersIn(Sent(c), c)
    BY <1>3 DEF Answering, Sequel
  <2>3. Sent(c)' = p /\ \A d \in Clients : d # c => Sent(d)' = Sent(d)
    BY <1>0, <1>1, <1>2, <1>3 DEF Sent, AnswersTyped
  <2> HIDE DEF s, p
  <2> QED
    BY <2>1, <2>2, <2>3
<1>6. /\ Without(p, s, i) /\ Len(q) \in Nat
      /\ \A j \in 1..Len(q) : j \in 1..Len(s) /\ s[j] = q[j]
  <2>1. Without(p, s, i)
    BY <1>4, Removal
  <2>2. Len(q) \in Nat /\ \A j \in 1..Len(q) : j \in 1..Len(s) /\ s[j] = q[j]
    BY <1>4, Concat
  <2> QED
    BY <2>1, <2>2
<1> HIDE DEF s, p
<1>7. i \in 1..Len(s) /\ s[i] = f /\ f.id = stream[r]
  <2>1. f = q[i] /\ f.id = stream[r]
    BY <1>0, <1>4 DEF Mine, frame
  <2> QED
    BY <1>4, <1>6, <2>1
<1>8. Len(got[r]) \in Nat /\ cut \in [Requests -> Cuts]
  BY <1>1 DEF AnswersTyped
<1>9. \A t \in Requests : t # r => got'[t] = got[t] /\ cut'[t] = cut[t] /\ told'[t] = told[t]
  BY <1>1, <1>2 DEF AnswersTyped
<1>10. /\ cut'[r] = IF cut[r] # "no" THEN cut[r] ELSE Missing(f)
       /\ got'[r] = IF f.whole /\ f.type \in {"HEADERS", "DATA"}
                    THEN Append(got[r], <<f.of, f.n>>) ELSE got[r]
  BY <1>1, <1>2 DEF AnswersTyped
(* The other clients.                                                      *)
<1>11. \A d \in Clients : d # c => AnswersIn(Sent(d), d)'
  <2>1. ASSUME NEW d \in Clients, d # c
        PROVE  \A x : AnswersIn(x, d) => AnswersIn(x, d)'
    <3>1. \A t \in Requests : client[t] = d => t # r
      BY <1>0, <2>1
    <3> QED
      BY <1>2, <1>9, <3>1, SameAnswers DEF Kept
  <2>2. \A d \in Clients : AnswersIn(Sent(d), d)
    BY DEF Answering, Sequel
  <2> QED
    BY <1>5, <2>1, <2>2
<1>12. CASE f.type \notin {"HEADERS", "DATA"}
  <2>1. \A t \in Requests : ~IsOf(s[i], t)
    BY <1>7, <1>12 DEF IsOf
  <2>2. AnswersIn(p, c)
    BY <1>5, <1>6, <2>1, OtherTakenKeeps
  <2>3. got' = got /\ \A t \in Requests : cut'[t] = "no" => cut[t] = "no"
    <3>1. cut'[r] = "no" => cut[r] = "no"
      BY <1>10
    <3> QED
      BY <1>1, <1>2, <1>9, <1>12, <3>1 DEF AnswersTyped
  <2>4. AnswersIn(p, c)'
    BY <1>2, <2>2, <2>3, SameAnswers DEF Kept
  <2>5. Sequel'
    BY <1>5, <1>11, <2>4 DEF Sequel
  <2>6. NoneLost'
    <3> SUFFICES ASSUME NEW t \in Requests, NEW d \in Clients,
                        client[t] = d, net[d] = "open", cut[t] = "no", reply[t].frames > Len(got[t])
                 PROVE  LastIn(Sent(d), t)'
      BY <1>2, <1>b, <2>3 DEF NoneLost
    <3>1. LastIn(Sent(d), t)
      BY DEF Answering, NoneLost
    <3>2. \A x : LastIn(x, t) => LastIn(x, t)'
      BY <1>2 DEF LastIn
    <3>3. CASE d = c
      <4>1. LastIn(p, t)
        BY <1>5, <1>6, <2>1, <3>1, <3>3, LastWithout
      <4> QED
        BY <1>5, <3>2, <3>3, <4>1 DEF LastIn
    <3>4. CASE d # c
      BY <1>2, <1>5, <3>1, <3>4 DEF LastIn
    <3> QED
      BY <3>3, <3>4
  <2>7. GotSoFar'
    <3>1. \A t \in Requests : told'[t] = "response" => told[t] = "response"
      BY <1>1, <1>2, <1>12 DEF AnswersTyped
    <3> QED
      BY <1>2, <2>3, <3>1 DEF Answering, GotSoFar
  <2> QED
    BY <2>5, <2>6, <2>7 DEF Answering
<1>13. CASE f.type \in {"HEADERS", "DATA"}
  <2>1. f.of = r
    <3>1. f.of \in Requests /\ IsOf(s[i], f.of)
      BY <1>4, <1>7, <1>13 DEF Frames, IsOf
    <3>2. /\ client[f.of] = c /\ stream[f.of] # 0 /\ f.id = IdRead(stream[f.of])
      BY <1>5, <1>7, <3>1 DEF AnswersIn, Fits
    <3> QED
      BY <1>0, <1>3, <1>7, <3>1, <3>2 DEF StreamsReadApart
  <2>2. IsOf(s[i], r)
    BY <1>7, <1>13, <2>1 DEF IsOf
  <2>3. Fits(f, c, r, Before(s, i, r)) /\ f.id = IdRead(stream[r])
    BY <1>5, <1>7, <2>2 DEF AnswersIn, Fits
  <2>4. \A j \in 1..(i - 1) : ~IsOf(s[j], r)
    <3> SUFFICES ASSUME NEW j \in 1..(i - 1), IsOf(s[j], r)
                 PROVE  FALSE
      OBVIOUS
    <3>1. j \in 1..Len(q) /\ j \in 1..Len(s) /\ s[j] = q[j] /\ ~(i <= j)
      BY <1>4, <1>6
    <3>2. s[j].id = IdRead(stream[r])
      BY <1>5, <3>1 DEF AnswersIn, Fits
    <3>3. j \in Mine(r)
      BY <1>0, <1>7, <2>3, <3>1, <3>2 DEF Mine
    <3> QED
      BY <1>4, <3>1, <3>3
  <2>5. cut'[r] # "no" \/ (cut[r] = "no" /\ f.whole /\ got'[r] = Append(got[r], <<r, f.n>>)
                    /\ Len(got'[r]) = Len(got[r]) + 1)
    <3>0. cut'[r] = "no" => cut[r] = "no" /\ f.whole
      BY <1>10 DEF Missing
    <3>1. got[r] \in Seq((Requests \cup {NoClient}) \X Nat) /\ f.whole \in BOOLEAN
      BY <1>1, <1>4 DEF AnswersTyped, Frames
    <3>2. CASE f.whole /\ cut[r] = "no"
      <4>1. got'[r] = Append(got[r], <<r, f.n>>)
        BY <1>10, <1>13, <2>1, <3>2
      <4>2. Len(Append(got[r], <<r, f.n>>)) = Len(got[r]) + 1
        BY <3>1
      <4> QED
        BY <3>2, <4>1, <4>2
    <3> QED
      BY <3>0, <3>2
  <2>6. /\ AnswersIn(p, c)'
        /\ cut'[r] = "no" => f.n = Len(got[r]) + 1
    BY <1>2, <1>5, <1>6, <1>7, <1>8, <1>9, <2>2, <2>4, <2>5, OwnTakenKeeps
  <2>7. Sequel'
    BY <1>5, <1>11, <2>6 DEF Sequel
  <2>8. NoneLost'
    <3> SUFFICES ASSUME NEW t \in Requests, NEW d \in Clients,
                        client[t] = d, net[d] = "open", cut'[t] = "no", reply[t].frames > Len(got'[t])
                 PROVE  LastIn(Sent(d), t)'
      BY <1>2, <1>b DEF NoneLost
    <3>1. cut[t] = "no" /\ reply[t].frames > Len(got[t])
             /\ (t = r => f.n # reply[t].frames)
      <4>1. CASE t = r
        <5>1. cut[r] = "no" /\ Len(got'[r]) = Len(got[r]) + 1 /\ f.n = Len(got[r]) + 1
          BY <2>5, <2>6, <4>1
        <5>2. reply[r].frames \in Nat
          BY <1>1 DEF AnswersTyped
        <5> QED
          BY <1>8, <4>1, <5>1, <5>2
      <4>2. CASE t # r
        BY <1>9, <4>2
      <4> QED
        BY <4>1, <4>2
    <3>2. LastIn(Sent(d), t)
      BY <3>1 DEF Answering, NoneLost
    <3>3. \A x : LastIn(x, t) => LastIn(x, t)'
      BY <1>2 DEF LastIn
    <3>4. CASE d = c
      <4>1. ~IsOf(s[i], t) \/ s[i].n # reply[t].frames
        BY <1>7, <2>1, <3>1 DEF IsOf
      <4>2. LastIn(p, t)
        BY <1>5, <1>6, <3>2, <3>4, <4>1, LastWithout
      <4> QED
        BY <1>5, <3>3, <3>4, <4>2 DEF LastIn
    <3>5. CASE d # c
      BY <1>2, <1>5, <3>2, <3>5 DEF LastIn
    <3> QED
      BY <3>4, <3>5
  <2>9. GotSoFar'
    <3> SUFFICES ASSUME NEW t \in Requests, cut'[t] = "no"
                 PROVE  /\ Len(got'[t]) <= reply[t].frames
                        /\ got'[t] = [k \in 1..Len(got'[t]) |-> <<t, k>>]
                        /\ told'[t] = "response" =>
                             reply[t].ended /\ Len(got'[t]) = reply[t].frames
      BY <1>2 DEF GotSoFar
    <3>1. CASE t # r
      BY <1>9, <3>1 DEF Answering, GotSoFar
    <3>2. CASE t = r
      <4>0. got[r] \in Seq((Requests \cup {NoClient}) \X Nat)
        BY <1>1 DEF AnswersTyped
      <4>1. /\ cut[r] = "no" /\ got'[r] = Append(got[r], <<r, f.n>>)
            /\ Len(got'[r]) = Len(got[r]) + 1 /\ f.n = Len(got[r]) + 1
        BY <2>5, <2>6, <3>2
      <4>2. f.n \in 1..reply[r].frames /\ (f.end <=> f.n = reply[r].frames /\ reply[r].ended)
        BY <2>3 DEF Fits
      <4>3. Len(got'[r]) <= reply[r].frames
        BY <4>1, <4>2
      <4>4. got[r] = [k \in 1..Len(got[r]) |-> <<r, k>>]
        BY <4>1 DEF Answering, GotSoFar
      <4>5. got'[r] = [k \in 1..Len(got'[r]) |-> <<r, k>>]
        <5>1. got'[r] = Append(got[r], <<r, Len(got[r]) + 1>>)
          BY <4>1
        <5>2. PICK g, h, S : g = got[r] /\ h = got'[r] /\ S = (Requests \cup {NoClient}) \X Nat
          OBVIOUS
        <5>3. g \in Seq(S) /\ h = Append(g, <<r, Len(g) + 1>>) /\ g = [k \in 1..Len(g) |-> <<r, k>>]
          BY <4>0, <4>4, <5>1, <5>2
        <5>4. h = [k \in 1..Len(h) |-> <<r, k>>]
          BY <5>3, NextNumber
        <5> QED
          BY <5>2, <5>4
      <4>6. told'[r] = "response" => f.end
        BY <1>1, <1>2, <1>3 DEF AnswersTyped
      <4> QED
        BY <3>2, <4>1, <4>2, <4>3, <4>5, <4>6
    <3> QED
      BY <3>1, <3>2
  <2> QED
    BY <2>7, <2>8, <2>9 DEF Answering
<1> QED
  BY <1>12, <1>13

-----------------------------------------------------------------------------
(* The other steps leave frames and answers alone.                         *)

LEMMA QuietAnswers ==
  ASSUME PIInv, Asking, Answering,
         \/ \E r \in Requests :
              \/ PushStep(r) \/ ConnectFails(r) \/ CompleteConnect(r)
              \/ SendRequest(r) \/ SendPayload(r) \/ Waits(r) \/ TimesOut(r) \/ Drops(r)
         \/ \E c \in Clients :
              Readable(c) \/ Connects(c) \/ ReaderStarts(c) \/ ReaderStep(c) \/ WakesAlone(c)
         \/ UNCHANGED vars
  PROVE  Answering'
<1>1. PoolTyped /\ AnswersTyped /\ NotAsked /\ NotConnected
  BY DEF PIInv, Asking
<1>2. ASSUME UNCHANGED <<frameQueue, wire, reply, got, cut, client, stream>>,
             \A r \in Requests : told'[r] = "response" => told[r] = "response",
             \A c \in Clients : net'[c] = "open" => net[c] = "open"
      PROVE  Answering'
  <2>1. Kept
    BY <1>2 DEF Kept
  <2> QED
    BY <1>2, <2>1, RestKeeps
<1>3. ASSUME NEW r \in Requests, PushStep(r)
      PROVE  Answering'
  <2>1. UNCHANGED <<frameQueue, wire, reply, got, cut, stream, told>>
    BY <1>3 DEF PushStep, GetPooledStream, GetNewStream, ReleaseStream, serverVars,
                readVars, askVars, answerVars
  <2>2. \A q \in Requests : client'[q] = client[q] \/ pc[q] = "idle"
    <3>1. (pc[r] = "idle" /\ \E x : client' = [client EXCEPT ![r] = x]) \/ client' = client
      BY <1>3 DEF PushStep, GetPooledStream, GetNewStream, ReleaseStream, askVars
    <3> QED
      BY <1>1, <3>1 DEF PoolTyped
  <2>3. \A q \in Requests : pc[q] = "idle" => stream[q] = 0 /\ reply[q].frames = 0
    BY <1>1 DEF NotAsked
  <2>4. Kept
    BY <2>1, <2>2, <2>3 DEF Kept
  <2>5. \A c \in Clients : net'[c] = "open" => net[c] = "open"
    BY <1>1, <1>3 DEF PushStep, GetPooledStream, GetNewStream, ReleaseStream, netVars, PoolTyped
  <2>6. \A q \in Requests, c \in Clients :
          client'[q] = c /\ net'[c] = "open" =>
            \/ client[q] = c /\ net[c] = "open"
            \/ reply[q].frames = 0
    BY <2>2, <2>3, <2>5
  <2> QED
    BY <2>1, <2>4, <2>6, RestKeeps
<1>4. ASSUME NEW r \in Requests, ConnectFails(r)
      PROVE  Answering'
  <2>1. UNCHANGED <<frameQueue, wire, reply, got, cut, client, stream>>
    BY <1>4, Zenon DEF ConnectFails, serverVars, readVars, askVars
  <2>2. PICK o \in Outcomes : o # "response" /\ told' = [told EXCEPT ![r] = o]
    BY <1>4, Zenon DEF ConnectFails, Outcomes
  <2>3. net' = [net EXCEPT ![client[r]] = "closed"]
    BY <1>4, Zenon DEF ConnectFails
  <2> QED
    BY <1>1, <1>2, <2>1, <2>2, <2>3 DEF AnswersTyped, PoolTyped
<1>5. ASSUME NEW r \in Requests, CompleteConnect(r)
      PROVE  Answering'
  <2>1. /\ UNCHANGED <<frameQueue, wire, reply, got, cut, client, stream, told>>
        /\ pc[r] = "connect" /\ net' = [net EXCEPT ![client[r]] = "open"]
    BY <1>5 DEF CompleteConnect, serverVars, readVars, answerVars
  <2>2. net[client[r]] \in Early
    BY <1>1, <2>1 DEF NotConnected, HeldOnes, Early
  <2>3. \A q \in Requests : client[q] = client[r] => reply[q].frames = 0
    <3>1. \A q \in Requests : client[q] = client[r] => pc[q] \in {"idle", "connect"}
      BY <1>1, <2>2 DEF NotConnected, HeldOnes
    <3>2. \A q \in Requests : pc[q] \in {"idle", "connect"} => reply[q].frames = 0
      BY <1>1 DEF NotAsked
    <3> QED
      BY <3>1, <3>2
  <2>4. \A c \in Clients : c # client[r] => net'[c] = net[c]
    BY <1>1, <2>1 DEF PoolTyped
  <2>5. Kept
    BY <2>1 DEF Kept
  <2>6. \A q \in Requests, c \in Clients :
          client'[q] = c /\ net'[c] = "open" =>
            \/ client[q] = c /\ net[c] = "open"
            \/ reply[q].frames = 0
    BY <2>1, <2>3, <2>4
  <2> QED
    BY <2>1, <2>5, <2>6, RestKeeps
<1>6. ASSUME NEW r \in Requests, SendRequest(r)
      PROVE  Answering'
  <2>1. /\ UNCHANGED <<frameQueue, wire, reply, got, cut, client, net>>
        /\ pc[r] = "send" /\ stream' = [stream EXCEPT ![r] = streamCounter[client[r]]]
        /\ told' = told \/ told' = [told EXCEPT ![r] = "unable"]
    BY <1>6 DEF SendRequest, Answer, netVars, serverVars, readVars
  <2>2. stream[r] = 0
    BY <1>1, <2>1 DEF NotAsked
  <2>3. Kept
    BY <1>1, <2>1, <2>2 DEF Kept, AnswersTyped
  <2>4. \A q \in Requests : told'[q] = "response" => told[q] = "response"
    BY <1>1, <2>1 DEF AnswersTyped
  <2> QED
    BY <2>1, <2>3, <2>4, RestKeeps
<1>a. ASSUME NEW r \in Requests, SendPayload(r)
      PROVE  Answering'
  <2>1. /\ UNCHANGED <<frameQueue, wire, reply, got, cut, client, stream, net>>
        /\ told' = told \/ told' = [told EXCEPT ![r] = "unable"]
    BY <1>a DEF SendPayload, Answer, netVars, serverVars, readVars, askVars
  <2> QED
    BY <1>1, <1>2, <2>1 DEF AnswersTyped
<1>7. ASSUME NEW r \in Requests, Waits(r) \/ TimesOut(r)
      PROVE  Answering'
  <2>1. UNCHANGED <<frameQueue, wire, reply, got, cut, client, stream, told, net>>
    BY <1>7, Zenon DEF Waits, TimesOut, netVars, serverVars, readVars, askVars, answerVars
  <2> QED
    BY <1>2, <2>1
<1>8. ASSUME NEW r \in Requests, Drops(r)
      PROVE  Answering'
  <2>1. /\ UNCHANGED <<frameQueue, wire, reply, got, cut, client, stream>>
        /\ told' = [told EXCEPT ![r] = "dropped"] /\ net' = [net EXCEPT ![client[r]] = "closed"]
    BY <1>8 DEF Drops, Answer, Close, serverVars, readVars, askVars
  <2> QED
    BY <1>1, <1>2, <2>1 DEF AnswersTyped, PoolTyped
<1>9. ASSUME NEW c \in Clients,
             Readable(c) \/ Connects(c) \/ ReaderStarts(c) \/ ReaderStep(c) \/ WakesAlone(c)
      PROVE  Answering'
  <2>1. /\ UNCHANGED <<frameQueue, wire, reply, got, cut, client, stream, told>>
        /\ net' = net \/ net' = [net EXCEPT ![c] = "closed"]
    BY <1>9 DEF Readable, Connects, ReaderStarts, ReaderStep, ReaderReads, ReaderEnds,
                ReaderGivesUp, WakesAlone, Close, netVars, serverVars, readVars, askVars, answerVars
  <2> QED
    BY <1>1, <1>2, <2>1 DEF PoolTyped
<1>10. CASE UNCHANGED vars
  <2>1. UNCHANGED <<frameQueue, wire, reply, got, cut, client, stream, told, net>>
    BY <1>10 DEF vars, cvars, netVars, serverVars, readVars, askVars, answerVars
  <2> QED
    BY <1>2, <2>1
<1> QED
  BY <1>3, <1>4, <1>5, <1>6, <1>a, <1>7, <1>8, <1>9, <1>10

(* No step makes streams readable apart that were not.                     *)
LEMMA StepsKeep == PIInv /\ Asking /\ [Next]_vars => Kept
<1> SUFFICES ASSUME PIInv, Asking, [Next]_vars PROVE Kept
  OBVIOUS
<1>1. PoolTyped /\ AnswersTyped /\ NotAsked
  BY DEF PIInv, Asking
<1>2. ASSUME UNCHANGED <<client, stream>>
      PROVE  Kept
  BY <1>2 DEF Kept
<1>3. CASE UNCHANGED vars
  BY <1>2, <1>3 DEF vars, cvars, askVars
<1>4. ASSUME NEW r \in Requests, PushStep(r)
      PROVE  Kept
  <2>1. /\ stream' = stream
        /\ \/ pc[r] = "idle" /\ \E x : client' = [client EXCEPT ![r] = x]
           \/ client' = client
    BY <1>4 DEF PushStep, GetPooledStream, GetNewStream, ReleaseStream, askVars
  <2>2. pc[r] = "idle" => stream[r] = 0
    BY <1>1 DEF NotAsked
  <2> QED
    BY <1>1, <2>1, <2>2 DEF Kept, PoolTyped
<1>5. ASSUME NEW r \in Requests, SendRequest(r)
      PROVE  Kept
  <2>1. client' = client /\ pc[r] = "send" /\ stream' = [stream EXCEPT ![r] = streamCounter[client[r]]]
    BY <1>5 DEF SendRequest
  <2>2. stream[r] = 0
    BY <1>1, <2>1 DEF NotAsked
  <2> QED
    BY <1>1, <2>1, <2>2 DEF Kept, AnswersTyped
<1>6. ASSUME NEW r \in Requests,
             \/ SendPayload(r) \/ Waits(r) \/ TakesFrame(r) \/ Drops(r) \/ TimesOut(r)
             \/ CompleteConnect(r) \/ ConnectFails(r) \/ Replies(r)
      PROVE  Kept
  BY <1>2, <1>6, Zenon DEF SendPayload, Waits, TakesFrame, Drops, TimesOut,
                           CompleteConnect, ConnectFails, Replies, ServerReplies, askVars
<1>7. ASSUME NEW c \in Clients,
             \/ ReadFrame(c) \/ Readable(c) \/ Connects(c) \/ ReaderStarts(c) \/ ReaderStep(c)
             \/ ServerSendsOther(c) \/ ServerLeaves(c) \/ ReaderSpurious(c)
      PROVE  Kept
  BY <1>2, <1>7, Zenon DEF ReadFrame, Readable, Connects, ReaderStarts, ReaderStep, ReaderReads,
                           ReaderEnds, ReaderGivesUp, ServerSendsOther, ServerLeaves,
                           ReaderSpurious, askVars
<1> QED
  BY <1>3, <1>4, <1>5, <1>6, <1>7 DEF Next, Moves, Progress, World, RequestStep

LEMMA NextAnswering ==
  ASSUME PIInv, Asking, Answering, StreamsReadApart, [Next]_vars
  PROVE  Answering'
<1>1. \A c \in Clients : ReaderSpurious(c) => WakesAlone(c)
  BY Zenon DEF ReaderSpurious, WakesAlone
<1>2. CASE UNCHANGED vars \/ \E r \in Requests : PushStep(r)
  BY <1>2, QuietAnswers
<1>3. CASE Progress
  <2>1. ASSUME NEW c \in Clients,
               ReadFrame(c) \/ Readable(c) \/ Connects(c) \/ ReaderStarts(c) \/ ReaderStep(c)
        PROVE  Answering'
    BY <2>1, ReadAnswers, QuietAnswers
  <2>2. ASSUME NEW r \in Requests,
               \/ CompleteConnect(r) \/ ConnectFails(r)
               \/ RequestStep(r) \/ TimesOut(r) \/ Replies(r)
        PROVE  Answering'
    BY <2>2, QuietAnswers, TakesAnswers, ReplyAnswers DEF RequestStep, Replies
  <2> QED
    BY <1>3, <2>1, <2>2 DEF Progress
<1>4. CASE World
  BY <1>1, <1>4, OtherAnswers, LeavesAnswers, QuietAnswers, ReplyAnswers DEF World, Replies
<1> QED
  BY <1>2, <1>3, <1>4 DEF Next, Moves

LEMMA InitAnswering == Init => Answering
<1> SUFFICES ASSUME Init PROVE Answering
  OBVIOUS
<1>1. /\ told = [r \in Requests |-> "nothing"]
      /\ reply = [r \in Requests |-> [frames |-> 0, ended |-> FALSE]]
      /\ got = [r \in Requests |-> <<>>]
      /\ wire = [c \in Clients |-> <<>>]
      /\ frameQueue = [c \in Clients |-> <<>>]
  BY Zenon DEF Init
<1>2. \A c \in Clients : Len(Sent(c)) = 0
  BY <1>1 DEF Sent
<1>3. Sequel
  BY <1>2 DEF Sequel, AnswersIn
<1>4. NoneLost
  BY <1>1 DEF NoneLost
<1>5. GotSoFar
  BY <1>1 DEF GotSoFar
<1> QED
  BY <1>3, <1>4, <1>5 DEF Answering

LEMMA InitWIInv == Init => WIInv
BY InitPIInv, InitAsking, InitAnswering DEF WIInv

LEMMA NextWIInv == WIInv /\ [Next]_vars => WIInv'
<1> SUFFICES ASSUME WIInv, [Next]_vars PROVE WIInv'
  OBVIOUS
<1>1. PIInv /\ Asking /\ (StreamsReadApart => Answering)
  BY DEF WIInv
<1>2. PIInv' /\ Asking'
  BY <1>1, NextPIInv, NextAsking
<1>3. StreamsReadApart' => StreamsReadApart
  BY <1>1, StepsKeep, ApartBefore
<1>4. StreamsReadApart' => Answering'
  BY <1>1, <1>3, NextAnswering
<1> QED
  BY <1>2, <1>4 DEF WIInv

(* However the requests of a client, its read thread and its server        *)
(* interleave, time out or break off, a response that sendRequest reports  *)
(* is the whole response to that request, frame by frame, as long as the   *)
(* client reads no number of one stream as that of another one.            *)
THEOREM ResponsesAreWhole == SafeSpec => [](StreamsReadApart => ResponseIsWhole)
<1>1. WIInv => (StreamsReadApart => ResponseIsWhole)
  <2> SUFFICES ASSUME WIInv, StreamsReadApart PROVE ResponseIsWhole
    OBVIOUS
  <2>1. GotSoFar
    BY DEF WIInv, Answering
  <2> QED
    BY <2>1 DEF GotSoFar, ResponseIsWhole
<1> QED
  BY <1>1, InitWIInv, NextWIInv, PTL DEF SafeSpec

-----------------------------------------------------------------------------
(* A client gives no number twice, and a number of one byte is read as it  *)
(* is, so that the requests of a client are told apart until then.         *)
Numbered ==
  \A r \in Requests : stream[r] # 0 =>
    /\ client[r] \in Clients /\ stream[r] < streamCounter[client[r]]
    /\ \A s \in Requests : client[s] = client[r] /\ stream[s] = stream[r] => s = r

OneByte == \A r \in Requests : stream[r] < IdBase

LEMMA OneByteRead == ASSUME NEW n \in Nat, n < IdBase PROVE IdRead(n) = n
<1> DEFINE b == IdBase
<1>1. b \in Nat \ {0} /\ n < b
  BY BoundsAssumption
<1> HIDE DEF b
<1>2. b <= b * b /\ b * b <= b * b * b /\ b * b \in Nat \ {0} /\ b * b * b \in Nat \ {0}
  BY <1>1
<1>3. \A k \in Nat \ {0} : n < k => n \div k = 0
  OBVIOUS
<1>4. n % b = n /\ 0 % b = 0
  BY <1>1
<1>5. n \div b = 0 /\ n \div (b * b) = 0 /\ n \div (b * b * b) = 0
  <2>1. n < b * b /\ n < b * b * b
    BY <1>1, <1>2
  <2> QED
    BY <1>1, <1>2, <1>3, <2>1
<1>6. IdRead(n) = (n % b) + ((n \div b) % b) + ((n \div (b * b)) % b)
                       + ((n \div (b * b * b)) % b)
  BY DEF IdRead, b
<1> QED
  BY <1>4, <1>5, <1>6

LEMMA OneByteApart == AnswersTyped /\ Numbered /\ OneByte => StreamsReadApart
<1> SUFFICES ASSUME AnswersTyped, Numbered, OneByte,
                    NEW r \in Requests, NEW s \in Requests,
                    client[r] = client[s], stream[r] # 0, IdRead(stream[s]) = stream[r]
             PROVE  r = s
  BY DEF StreamsReadApart
<1>1. stream[s] \in Nat /\ stream[s] < IdBase
  BY DEF AnswersTyped, OneByte
<1>2. stream[s] = stream[r]
  BY <1>1, OneByteRead
<1> QED
  BY <1>2 DEF Numbered

LEMMA NextNumbered ==
  ASSUME PIInv, Asking, Numbered, [Next]_vars
  PROVE  Numbered'
<1>1. PoolTyped /\ AnswersTyped /\ NotAsked
  BY DEF PIInv, Asking
<1>2. Kept
  BY StepsKeep
<1>3. ASSUME UNCHANGED <<stream, streamCounter>>
      PROVE  Numbered'
  <2>1. \A r \in Requests : stream[r] # 0 => client'[r] = client[r]
    BY <1>2 DEF Kept
  <2> QED
    BY <1>3, <2>1 DEF Numbered
<1>4. ASSUME NEW r \in Requests, SendRequest(r)
      PROVE  Numbered'
  <2> DEFINE c == client[r]
             n == streamCounter[c]
  <2>1. /\ client' = client /\ pc[r] = "send"
        /\ stream' = [stream EXCEPT ![r] = n]
        /\ streamCounter' = [streamCounter EXCEPT ![c] = @ + 2]
    BY <1>4 DEF SendRequest
  <2>2. c \in Clients /\ n \in Nat
    BY <1>1, <2>1 DEF PoolTyped, AnswersTyped
  <2>3. /\ stream'[r] = n /\ streamCounter'[c] = n + 2
        /\ \A s \in Requests : s # r => stream'[s] = stream[s] /\ stream[s] \in Nat
        /\ \A d \in Clients : d # c => streamCounter'[d] = streamCounter[d]
    BY <1>1, <2>1, <2>2 DEF AnswersTyped
  <2>4. \A s \in Requests : stream[s] # 0 /\ client[s] = c => stream[s] < n
    BY DEF Numbered
  <2> HIDE DEF c, n
  <2>5. ASSUME NEW s \in Requests, stream'[s] # 0
        PROVE  client[s] \in Clients /\ stream'[s] < streamCounter'[client[s]]
    <3>1. CASE s = r
      BY <2>2, <2>3, <3>1 DEF c
    <3>2. CASE s # r
      <4>1. stream[s] # 0 /\ client[s] \in Clients /\ stream[s] < streamCounter[client[s]]
        BY <2>3, <2>5, <3>2 DEF Numbered
      <4>2. CASE client[s] = c
        BY <2>2, <2>3, <2>4, <3>2, <4>1, <4>2
      <4>3. CASE client[s] # c
        BY <2>3, <3>2, <4>1, <4>3
      <4> QED
        BY <4>1, <4>2, <4>3
    <3> QED
      BY <3>1, <3>2
  <2>6. ASSUME NEW s \in Requests, NEW t \in Requests, stream'[s] # 0,
               client[s] = client[t], stream'[s] = stream'[t]
        PROVE  s = t
    <3>1. CASE s # r /\ t # r
      BY <2>3, <2>6, <3>1 DEF Numbered
    <3>2. CASE s = r /\ t # r
      <4>1. stream[t] # 0 /\ client[t] = c /\ stream[t] = n
        BY <2>3, <2>6, <3>2 DEF c
      <4> QED
        BY <2>2, <2>4, <4>1
    <3>3. CASE s # r /\ t = r
      <4>1. stream[s] # 0 /\ client[s] = c /\ stream[s] = n
        BY <2>3, <2>6, <3>3 DEF c
      <4> QED
        BY <2>2, <2>4, <4>1
    <3> QED
      BY <3>1, <3>2, <3>3
  <2> QED
    BY <2>1, <2>5, <2>6 DEF Numbered
<1>5. CASE UNCHANGED vars
  BY <1>3, <1>5 DEF vars, cvars, askVars
<1>6. ASSUME NEW r \in Requests, PushStep(r)
      PROVE  Numbered'
  BY <1>3, <1>6, Zenon DEF PushStep, GetPooledStream, GetNewStream, ReleaseStream, askVars
<1>7. ASSUME NEW r \in Requests,
             \/ SendPayload(r) \/ Waits(r) \/ TakesFrame(r) \/ Drops(r) \/ TimesOut(r)
             \/ CompleteConnect(r) \/ ConnectFails(r) \/ Replies(r)
      PROVE  Numbered'
  BY <1>3, <1>7, Zenon DEF SendPayload, Waits, TakesFrame, Drops, TimesOut,
                           CompleteConnect, ConnectFails, Replies, ServerReplies, askVars
<1>8. ASSUME NEW c \in Clients,
             \/ ReadFrame(c) \/ Readable(c) \/ Connects(c) \/ ReaderStarts(c) \/ ReaderStep(c)
             \/ ServerSendsOther(c) \/ ServerLeaves(c) \/ ReaderSpurious(c)
      PROVE  Numbered'
  BY <1>3, <1>8, Zenon DEF ReadFrame, Readable, Connects, ReaderStarts, ReaderStep, ReaderReads,
                           ReaderEnds, ReaderGivesUp, ServerSendsOther, ServerLeaves,
                           ReaderSpurious, askVars
<1> QED
  BY <1>4, <1>5, <1>6, <1>7, <1>8 DEF Next, Moves, Progress, World, RequestStep

(* Until a number of a stream takes a second byte, a response that         *)
(* sendRequest reports is the whole response to that request.              *)
THEOREM OneByteResponsesAreWhole == SafeSpec => [](OneByte => ResponseIsWhole)
<1>1. Init => Numbered
  <2>1. Init => stream = [r \in Requests |-> 0]
    BY Zenon DEF Init
  <2> QED
    BY <2>1 DEF Numbered
<1>2. WIInv /\ Numbered /\ [Next]_vars => Numbered'
  BY NextNumbered DEF WIInv
<1>3. WIInv /\ Numbered => (OneByte => StreamsReadApart)
  BY OneByteApart DEF WIInv, Asking
<1> QED
  BY <1>1, <1>2, <1>3, InitWIInv, NextWIInv, ResponsesAreWhole, PTL DEF SafeSpec
=============================================================================
