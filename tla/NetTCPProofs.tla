---------------------------- MODULE NetTCPProofs ----------------------------
(***************************************************************************)
(* Theorems about NetEvent, for any sets of descriptors and requests, any  *)
(* length of evlist, both platforms and callers of both kinds, and about   *)
(* NetTCP, a connection that uses the event loop as NetEvent says, so that *)
(* what is proved of the loop holds of it: for any count and length, bytes *)
(* are read and written exactly, and an operation that waits is the one    *)
(* the loop will call back.                                                *)
(***************************************************************************)
EXTENDS NetTCP, TLAPS

USE NoRequestAssumption, PlatformsAssumption DEF setup

-----------------------------------------------------------------------------
(* Typing.                                                                  *)

LEMMA InitTyped == Init => TypeOK
<1> SUFFICES ASSUME Init
             PROVE  TypeOK
  OBVIOUS
<1>1. calls \in [Requests -> Seq(Call)]
  BY DEF Init
<1> QED
  BY <1>1 DEF Init, TypeOK

LEMMA NextTyped == TypeOK /\ [Next]_vars => TypeOK'
<1> SUFFICES ASSUME TypeOK, [Next]_vars
             PROVE  TypeOK'
  OBVIOUS
<1> USE DEF TypeOK
<1>1. CASE UNCHANGED vars
  BY <1>1 DEF vars
<1>2. ASSUME NEW f \in Fds, NEW r \in Requests, NEW what \in Whats,
             NEW timed \in BOOLEAN, Add(f, r, what, timed)
      PROVE  TypeOK'
  <2>1. KernelAdd(f, what, timed) \subseteq Fds \X Kinds
    BY DEF KernelAdd, Kinds
  <2> QED
    BY <1>2, <2>1 DEF Add, QueuedSocket
<1>3. ASSUME NEW f \in Fds, Remove(f)
      PROVE  TypeOK'
  BY <1>3 DEF Remove
<1>4. ASSUME NEW f \in Fds, Close(f)
      PROVE  TypeOK'
  BY <1>4 DEF Close
<1>5. ASSUME NEW f \in Fds, Reopen(f)
      PROVE  TypeOK'
  BY <1>5 DEF Reopen
<1>6. ASSUME NEW events \in SUBSET Reportable, Fetch(events)
      PROVE  TypeOK'
  <2>1. events \subseteq Fds \X Filters
    BY DEF Reportable, Reports, Kinds, Filters, Whats
  <2>2. interest' \subseteq Fds \X Kinds
    BY <1>6, <2>1 DEF Fetch, Kinds
  <2> QED
    BY <1>6, <2>1, <2>2 DEF Fetch
<1>7. CASE LockForEvents
  BY <1>7 DEF LockForEvents
<1>8. ASSUME NEW e \in batch, Handle(e)
      PROVE  TypeOK'
  <2>1. e[1] \in Fds /\ e[2] \in Filters
    OBVIOUS
  <2>2. batch' \subseteq Fds \X Filters /\ locked' \in BOOLEAN /\ (locked' => batch' # {})
    BY <1>8 DEF Handle
  <2>3. CASE IsQueued(e[1])
    <3>1. queued[e[1]] \in QueuedSocket
      BY <2>1, <2>3 DEF IsQueued
    <3>2. [what |-> queued[e[1]].what, timed |-> queued[e[1]].timed, got |-> e[2]] \in Call
      BY <2>1, <3>1 DEF QueuedSocket, Call
    <3>3. queued[e[1]].req \in Requests
      BY <3>1 DEF QueuedSocket
    <3>4. Append(calls[queued[e[1]].req],
                 [what |-> queued[e[1]].what, timed |-> queued[e[1]].timed, got |-> e[2]])
            \in Seq(Call)
      BY <3>2, <3>3
    <3>5. calls' \in [Requests -> Seq(Call)]
      BY <1>8, <2>3, <3>3, <3>4 DEF Handle
    <3>6. queued' \in [Fds -> QueuedSocket \cup {NoRequest}]
      BY <1>8, <2>1, <2>3 DEF Handle
    <3>7. interest' \subseteq Fds \X Kinds
      BY <1>8, <2>3 DEF Handle
    <3> QED
      BY <1>8, <2>2, <3>5, <3>6, <3>7 DEF Handle
  <2>4. CASE ~IsQueued(e[1])
    BY <1>8, <2>2, <2>4 DEF Handle
  <2> QED
    BY <2>3, <2>4
<1> QED
  BY <1>1, <1>2, <1>3, <1>4, <1>5, <1>6, <1>7, <1>8 DEF Next

(* The variables keep their types.                                         *)
THEOREM Typing == SafeSpec => []TypeOK
<1>1. Init => TypeOK
  BY InitTyped
<1>2. TypeOK /\ [Next]_vars => TypeOK'
  BY NextTyped
<1> QED
  BY <1>1, <1>2, PTL DEF SafeSpec

-----------------------------------------------------------------------------
(* Callbacks.                                                               *)

(* CalledAtMostOnce, with the fact that makes it inductive: an identity    *)
(* that was never added has no callback yet.                               *)
CallInv ==
  /\ CalledAtMostOnce
  /\ \A r \in Requests \ issued : calls[r] = <<>>

LEMMA NextCallInv == TypeOK /\ CallInv /\ [Next]_vars => CallInv'
<1> SUFFICES ASSUME TypeOK, CallInv, [Next]_vars
             PROVE  CallInv'
  OBVIOUS
<1> USE DEF TypeOK
<1>1. ASSUME UNCHANGED <<queued, issued, calls>>
      PROVE  CallInv'
  BY <1>1 DEF CallInv, CalledAtMostOnce, IsQueued
<1>2. ASSUME NEW f \in Fds, NEW r \in Requests, NEW what \in Whats,
             NEW timed \in BOOLEAN, Add(f, r, what, timed)
      PROVE  CallInv'
  <2>1. queued' = [queued EXCEPT ![f] = [req |-> r, what |-> what, timed |-> timed]]
    BY <1>2 DEF Add
  <2>2. queued'[f].req = r /\ \A g \in Fds : g # f => queued'[g] = queued[g]
    BY <2>1
  <2>3. r \notin issued /\ issued' = issued \cup {r} /\ calls' = calls
    BY <1>2 DEF Add
  <2> QED
    BY <2>2, <2>3 DEF CallInv, CalledAtMostOnce, IsQueued
<1>3. ASSUME NEW f \in Fds, queued' = [queued EXCEPT ![f] = NoRequest],
             UNCHANGED <<issued, calls>>
      PROVE  CallInv'
  BY <1>3 DEF CallInv, CalledAtMostOnce, IsQueued
<1>4. ASSUME NEW e \in batch, Handle(e)
      PROVE  CallInv'
  <2> DEFINE f == e[1]
  <2>0. f \in Fds /\ issued' = issued
    BY <1>4 DEF Handle
  <2>1. CASE ~IsQueued(f)
    BY <1>1, <1>4, <2>1 DEF Handle
  <2>2. CASE IsQueued(f)
    <3> DEFINE r == queued[f].req
               c == [what |-> queued[f].what, timed |-> queued[f].timed, got |-> e[2]]
    <3>1. queued[f] \in QueuedSocket /\ r \in Requests
      BY <2>0, <2>2 DEF IsQueued, QueuedSocket
    <3>2. r \in issued /\ calls[r] = <<>>
      BY <2>0, <2>2 DEF CallInv, CalledAtMostOnce
    <3>3. calls' = [calls EXCEPT ![r] = Append(@, c)]
      BY <1>4, <2>2 DEF Handle
    <3>4. queued' = [queued EXCEPT ![f] = NoRequest]
      BY <1>4, <2>2 DEF Handle
    <3>5. Len(calls'[r]) = 1 /\ \A s \in Requests : s # r => calls'[s] = calls[s]
      <4>1. calls'[r] = Append(<<>>, c)
        BY <3>1, <3>2, <3>3
      <4>2. calls'[r] = <<c>>
        BY <4>1
      <4> QED
        BY <3>3, <4>2
    <3>6. \A g \in Fds : IsQueued(g)' => g # f /\ queued'[g] = queued[g] /\ IsQueued(g)
      BY <2>0, <3>4 DEF IsQueued
    <3>7. \A g \in Fds : IsQueued(g)' => queued'[g].req # r /\ queued[g].req \in Requests
      <4> SUFFICES ASSUME NEW g \in Fds, IsQueued(g)'
                   PROVE  queued'[g].req # r /\ queued[g].req \in Requests
        OBVIOUS
      <4>1. g # f /\ queued'[g] = queued[g] /\ IsQueued(g)
        BY <3>6
      <4>2. queued[g].req # r
        BY <2>0, <2>2, <4>1 DEF CallInv, CalledAtMostOnce
      <4>3. queued[g] \in QueuedSocket
        BY <4>1 DEF IsQueued
      <4> QED
        BY <4>1, <4>2, <4>3 DEF QueuedSocket
    <3>8. \A s \in Requests : Len(calls'[s]) <= 1
      <4>1. \A s \in Requests : Len(calls[s]) <= 1
        BY DEF CallInv, CalledAtMostOnce
      <4>2. ASSUME NEW s \in Requests
            PROVE  Len(calls'[s]) <= 1
        <5>1. CASE s = r
          <6>1. Len(calls'[s]) = 1
            BY <3>5, <5>1
          <6> QED
            BY <6>1
        <5>2. CASE s # r
          BY <3>5, <4>1, <5>2
        <5> QED
          BY <5>1, <5>2
      <4> QED
        BY <4>2
    <3>9. \A g \in Fds : IsQueued(g)' =>
            queued'[g].req \in issued' /\ calls'[queued'[g].req] = <<>>
      <4> SUFFICES ASSUME NEW g \in Fds, IsQueued(g)'
                   PROVE  queued'[g].req \in issued' /\ calls'[queued'[g].req] = <<>>
        OBVIOUS
      <4>1. queued'[g] = queued[g] /\ IsQueued(g)
        BY <3>6
      <4>2. queued[g].req \in issued /\ calls[queued[g].req] = <<>>
        BY <4>1 DEF CallInv, CalledAtMostOnce
      <4>3. queued[g].req # r /\ queued[g].req \in Requests
        BY <3>7, <4>1
      <4>4. calls'[queued[g].req] = calls[queued[g].req]
        BY <3>5, <4>3
      <4> QED
        BY <2>0, <4>1, <4>2, <4>4
    <3>10. \A g, h \in Fds :
             IsQueued(g)' /\ IsQueued(h)' /\ queued'[g].req = queued'[h].req => g = h
      BY <3>6 DEF CallInv, CalledAtMostOnce
    <3>11. \A s \in Requests \ issued' : calls'[s] = <<>>
      BY <2>0, <3>2, <3>5 DEF CallInv
    <3> QED
      BY <3>8, <3>9, <3>10, <3>11 DEF CallInv, CalledAtMostOnce
  <2> QED
    BY <2>1, <2>2
<1>5. ASSUME NEW f \in Fds, Remove(f)
      PROVE  CallInv'
  BY <1>3, <1>5 DEF Remove
<1>6. ASSUME NEW f \in Fds, Close(f) \/ Reopen(f)
      PROVE  CallInv'
  BY <1>1, <1>6 DEF Close, Reopen
<1>7. ASSUME NEW events \in SUBSET Reportable, Fetch(events)
      PROVE  CallInv'
  BY <1>1, <1>7 DEF Fetch
<1>8. CASE LockForEvents \/ UNCHANGED vars
  BY <1>1, <1>8 DEF LockForEvents, vars
<1> QED
  BY <1>2, <1>4, <1>5, <1>6, <1>7, <1>8 DEF Next

(* Each add is answered at most once, even if several threads add the same *)
(* socket, sockets are closed and their numbers reused in any order.       *)
THEOREM CallbacksAtMostOnce == SafeSpec => []CalledAtMostOnce
<1>1. Init => CallInv
  BY DEF Init, CallInv, CalledAtMostOnce, IsQueued
<1>2. TypeOK /\ CallInv /\ [Next]_vars => CallInv'
  BY NextCallInv
<1>3. CallInv => CalledAtMostOnce
  BY DEF CallInv
<1> QED
  BY <1>1, <1>2, <1>3, Typing, PTL DEF SafeSpec

-----------------------------------------------------------------------------
(* The build and the kind of callers do not change.                         *)
LEMMA SetupFixed == [Next]_vars => UNCHANGED setup
  BY DEF Next, vars, setup, Add, Remove, Close, Reopen, Fetch, LockForEvents, Handle

-----------------------------------------------------------------------------
(* Table and kernel, on Linux.                                              *)

Tidy == \A f \in Fds : Watched(f) # {} => IsQueued(f)

EpollInv == platform = "epoll" => Tidy /\ SpentIsBeingHandled

LEMMA NextEpoll ==
  ASSUME platform = "epoll", TypeOK, Tidy, SpentIsBeingHandled, [Next]_vars
  PROVE  Tidy' /\ SpentIsBeingHandled'
<1> USE DEF TypeOK, Tidy, SpentIsBeingHandled, Watched, IsQueued
<1>1. CASE UNCHANGED vars
  BY <1>1 DEF vars
<1>2. ASSUME NEW f \in Fds, NEW r \in Requests, NEW what \in Whats,
             NEW timed \in BOOLEAN, Add(f, r, what, timed)
      PROVE  Tidy' /\ SpentIsBeingHandled'
  <2>1. interest' \subseteq interest \cup {<<f, what>>} /\ what # "Spent" /\ what \in Kinds
    BY <1>2 DEF Add, KernelAdd, Whats, Kinds
  <2>2. queued'[f] # NoRequest /\ \A g \in Fds : g # f => queued'[g] = queued[g]
    BY <1>2 DEF Add, QueuedSocket
  <2>3. batch' = batch
    BY <1>2 DEF Add
  <2> QED
    BY <2>1, <2>2, <2>3
<1>3. ASSUME NEW f \in Fds, Remove(f)
      PROVE  Tidy' /\ SpentIsBeingHandled'
  <2>1. interest' = interest \ ({f} \X Kinds) /\ batch' = batch
    BY <1>3 DEF Remove
  <2>2. \A g \in Fds : g # f => queued'[g] = queued[g]
    BY <1>3 DEF Remove
  <2> QED
    BY <2>1, <2>2 DEF Kinds
<1>4. ASSUME NEW f \in Fds, Close(f) \/ Reopen(f)
      PROVE  Tidy' /\ SpentIsBeingHandled'
  <2>1. interest' \subseteq interest /\ UNCHANGED <<queued, batch>>
    BY <1>4 DEF Close, Reopen
  <2> QED
    BY <2>1
<1>5. ASSUME NEW events \in SUBSET Reportable, Fetch(events)
      PROVE  Tidy' /\ SpentIsBeingHandled'
  <2>1. \A e \in events : \E k \in Kinds : <<e[1], k>> \in interest /\ e[1] \in Fds
    <3> SUFFICES ASSUME NEW e \in events
                 PROVE  \E k \in Kinds : <<e[1], k>> \in interest /\ e[1] \in Fds
      OBVIOUS
    <3>1. PICK i \in interest : \E got \in Reports(i[2]) : e = <<i[1], got>>
      BY DEF Reportable
    <3>2. i = <<i[1], i[2]>> /\ i[1] \in Fds /\ i[2] \in Kinds /\ e[1] = i[1]
      BY <3>1
    <3> QED
      BY <3>2
  <2>2. interest' \subseteq interest \cup {<<e[1], "Spent">> : e \in events}
    BY <1>5 DEF Fetch
  <2>3. batch = {} /\ batch' = events /\ queued' = queued
    BY <1>5 DEF Fetch
  <2>4. \A f \in Fds : <<f, "Spent">> \notin interest
    BY <2>3
  <2>6. \A f \in Fds : <<f, "Spent">> \in interest' => \E e \in events : e[1] = f
    <3> SUFFICES ASSUME NEW f \in Fds, <<f, "Spent">> \in interest'
                 PROVE  \E e \in events : e[1] = f
      OBVIOUS
    <3>1. <<f, "Spent">> \in {<<e[1], "Spent">> : e \in events}
      BY <2>2, <2>4
    <3>2. PICK e \in events : <<f, "Spent">> = <<e[1], "Spent">>
      BY <3>1
    <3> QED
      BY <3>2
  <2>7. \A f \in Fds : Watched(f)' # {} => Watched(f) # {}
    <3> SUFFICES ASSUME NEW f \in Fds, NEW k \in Kinds, <<f, k>> \in interest'
                 PROVE  \E j \in Kinds : <<f, j>> \in interest
      OBVIOUS
    <3>1. CASE <<f, k>> \in interest
      BY <3>1
    <3>2. CASE \E e \in events : <<f, k>> = <<e[1], "Spent">>
      BY <2>1, <3>2
    <3> QED
      BY <2>2, <3>1, <3>2
  <2> QED
    BY <2>1, <2>3, <2>6, <2>7
<1>6. CASE LockForEvents
  BY <1>6 DEF LockForEvents
<1>7. ASSUME NEW e \in batch, Handle(e)
      PROVE  Tidy' /\ SpentIsBeingHandled'
  <2> DEFINE f == e[1]
  <2>1. f \in Fds /\ batch' = batch \ {e}
    BY <1>7 DEF Handle
  <2>2. \A k \in Kinds : <<f, k>> \notin interest'
    <3>1. CASE IsQueued(f)
      <4>1. interest' = interest \ ({f} \X Kinds)
        BY <1>7, <3>1 DEF Handle
      <4> QED
        BY <4>1
    <3>2. CASE ~IsQueued(f)
      <4>1. interest' = interest /\ Watched(f) = {}
        BY <1>7, <2>1, <3>2 DEF Handle
      <4> QED
        BY <4>1
    <3> QED
      BY <3>1, <3>2
  <2>3. interest' \subseteq interest /\ \A g \in Fds : g # f => queued'[g] = queued[g]
    BY <1>7, <2>1 DEF Handle
  <2> QED
    BY <2>1, <2>2, <2>3 DEF Kinds
<1> HIDE DEF TypeOK, Tidy, SpentIsBeingHandled, Watched, IsQueued
<1> QED
  BY <1>1, <1>2, <1>3, <1>4, <1>5, <1>6, <1>7 DEF Next

LEMMA EpollFollows == SafeSpec => []EpollInv
<1>1. Init => EpollInv
  BY DEF Init, EpollInv, Tidy, SpentIsBeingHandled, Watched
<1>2. TypeOK /\ EpollInv /\ [Next]_vars => EpollInv'
  BY SetupFixed, NextEpoll DEF EpollInv
<1> QED
  BY <1>1, <1>2, Typing, PTL DEF SafeSpec

-----------------------------------------------------------------------------
(* Timers and directions, on kqueue, for disciplined callers.               *)

(* What a request may be told, and what may be armed for it.                *)
Fits(item, got) == got = item.what \/ (got = "Timer" /\ item.timed)

(* Every knote and every fetched event belongs to the request that is      *)
(* queued now; only while the loop works through a batch may an event be   *)
(* left whose request was answered by an earlier event of the same batch.  *)
KqueueFit ==
  /\ \A f \in Fds : IsQueued(f) => open[f]
  /\ \A i \in interest : IsQueued(i[1]) /\ Fits(queued[i[1]], i[2])
  /\ \A e \in batch :
       /\ e \notin interest
       /\ IsQueued(e[1]) => Fits(queued[e[1]], e[2])
       /\ ~locked => IsQueued(e[1])

KqueueInv == platform = "kqueue" /\ disciplined => KqueueFit

LEMMA NextKqueue ==
  ASSUME platform = "kqueue", disciplined, TypeOK, KqueueFit, [Next]_vars
  PROVE  KqueueFit'
<1> USE DEF TypeOK, IsQueued
<1>1. CASE UNCHANGED vars
  BY <1>1 DEF vars, KqueueFit
<1>2. ASSUME NEW f \in Fds, NEW r \in Requests, NEW what \in Whats,
             NEW timed \in BOOLEAN, Add(f, r, what, timed)
      PROVE  KqueueFit'
  <2> DEFINE item == [req |-> r, what |-> what, timed |-> timed]
  <2>1. open[f] /\ queued[f] = NoRequest /\ ~locked
    BY <1>2 DEF Add, MayAdd, KqueueFit
  <2>2. interest' = interest \cup (IF timed THEN {<<f, "Timer">>} ELSE {}) \cup {<<f, what>>}
    BY <1>2, <2>1 DEF Add, KernelAdd
  <2>3. queued'[f] = item /\ item # NoRequest /\ \A g \in Fds : g # f => queued'[g] = queued[g]
    BY <1>2 DEF Add, QueuedSocket
  <2>4. UNCHANGED <<open, batch, locked, calls>>
    BY <1>2 DEF Add
  <2>5. \A e \in batch : e[1] # f /\ e[1] \in Fds
    BY <2>1 DEF KqueueFit
  <2>6. \A i \in interest : i[1] # f /\ i[1] \in Fds
    BY <2>1 DEF KqueueFit
  <2>7. \A i \in interest' : IsQueued(i[1])' /\ Fits(queued'[i[1]], i[2])
    <3>1. ASSUME NEW i \in interest
          PROVE  queued'[i[1]] # NoRequest /\ Fits(queued'[i[1]], i[2])
      BY <2>3, <2>6 DEF KqueueFit
    <3>2. Fits(item, what) /\ (timed => Fits(item, "Timer"))
      BY DEF Fits
    <3> HIDE DEF item
    <3>3. ASSUME NEW i \in {<<f, what>>}
          PROVE  queued'[i[1]] # NoRequest /\ Fits(queued'[i[1]], i[2])
      BY <2>3, <3>2
    <3>4. ASSUME timed, NEW i \in {<<f, "Timer">>}
          PROVE  queued'[i[1]] # NoRequest /\ Fits(queued'[i[1]], i[2])
      BY <2>3, <3>2, <3>4
    <3> QED
      BY <2>2, <3>1, <3>3, <3>4
  <2>8. \A e \in batch' :
          e \notin interest' /\ (IsQueued(e[1])' => Fits(queued'[e[1]], e[2]))
                             /\ (~locked' => IsQueued(e[1])')
    <3> SUFFICES ASSUME NEW e \in batch
                 PROVE  /\ e \notin interest'
                        /\ queued'[e[1]] # NoRequest /\ Fits(queued'[e[1]], e[2])
      BY <2>4
    <3>1. queued'[e[1]] = queued[e[1]]
      BY <2>3, <2>5
    <3>2. e \notin interest /\ queued[e[1]] # NoRequest /\ Fits(queued[e[1]], e[2])
      BY <2>1 DEF KqueueFit
    <3>3. e \notin interest'
      BY <2>2, <2>5, <3>2
    <3> QED
      BY <3>1, <3>2, <3>3
  <2>9. \A g \in Fds : IsQueued(g)' => open'[g]
    BY <2>1, <2>3, <2>4 DEF KqueueFit
  <2> QED
    BY <2>4, <2>7, <2>8, <2>9 DEF KqueueFit
<1>3. ASSUME NEW f \in Fds, Remove(f)
      PROVE  KqueueFit'
  BY <1>3 DEF Remove
<1>4. ASSUME NEW f \in Fds, Close(f)
      PROVE  KqueueFit'
  <2>1. queued[f] = NoRequest
    BY <1>4 DEF Close, MayClose
  <2>2. interest' \subseteq interest
    BY <1>4, <2>1 DEF Close
  <2>3. UNCHANGED <<queued, batch, locked, calls>> /\ \A g \in Fds : g # f => open'[g] = open[g]
    BY <1>4 DEF Close
  <2> QED
    BY <2>1, <2>2, <2>3 DEF KqueueFit
<1>5. ASSUME NEW f \in Fds, Reopen(f)
      PROVE  KqueueFit'
  <2>1. UNCHANGED <<queued, interest, batch, locked, calls>>
    BY <1>5 DEF Reopen
  <2>2. \A g \in Fds : open[g] => open'[g]
    BY <1>5 DEF Reopen
  <2> QED
    BY <2>1, <2>2 DEF KqueueFit
<1>6. ASSUME NEW events \in SUBSET Reportable, Fetch(events)
      PROVE  KqueueFit'
  <2>1. \A e \in events : e \in interest
    <3> SUFFICES ASSUME NEW e \in events
                 PROVE  e \in interest
      OBVIOUS
    <3>1. PICK i \in interest : \E got \in Reports(i[2]) : e = <<i[1], got>>
      BY DEF Reportable
    <3>2. i = <<i[1], i[2]>> /\ e = <<i[1], i[2]>>
      BY <3>1 DEF Reports
    <3> QED
      BY <3>2
  <2>2. interest' = interest \ UNION {UsedBy(e) : e \in events}
    BY <1>6 DEF Fetch
  <2>3. \A e \in events : e \notin interest'
    BY <2>2 DEF UsedBy
  <2>4. UNCHANGED <<open, queued, locked, calls>> /\ batch' = events
    BY <1>6 DEF Fetch
  <2> QED
    BY <2>1, <2>2, <2>3, <2>4 DEF KqueueFit
<1>7. CASE LockForEvents
  BY <1>7 DEF LockForEvents, KqueueFit
<1>8. ASSUME NEW e \in batch, Handle(e)
      PROVE  KqueueFit'
  <2> DEFINE f == e[1]
  <2>1. f \in Fds /\ e = <<f, e[2]>> /\ batch' = batch \ {e} /\ open' = open /\ locked
    BY <1>8 DEF Handle
  <2>2. ~locked' => batch' = {}
    BY <1>8 DEF Handle
  <2>3. CASE queued[f] = NoRequest
    <3>1. UNCHANGED <<queued, interest, calls>>
      BY <1>8, <2>3 DEF Handle
    <3> QED
      BY <2>1, <2>2, <3>1 DEF KqueueFit
  <2>4. CASE queued[f] # NoRequest
    <3> DEFINE item == queued[f]
    <3>1. item \in QueuedSocket /\ Fits(item, e[2]) /\ e \notin interest
      BY <2>1, <2>4 DEF KqueueFit
    <3>2. queued' = [queued EXCEPT ![f] = NoRequest]
      BY <1>8, <2>4 DEF Handle
    <3>3. interest' \subseteq interest
      BY <1>8, <2>4 DEF Handle
    <3>4. \A i \in interest' : i[1] # f
      <4> SUFFICES ASSUME NEW i \in interest', i[1] = f
                   PROVE  FALSE
        OBVIOUS
      <4>1. i \in interest /\ i = <<f, i[2]>> /\ Fits(item, i[2]) /\ i[2] # e[2]
        <5>1. i \in interest /\ i = <<i[1], i[2]>>
          BY <3>3
        <5>2. Fits(queued[i[1]], i[2])
          BY <5>1 DEF KqueueFit
        <5>3. i # e
          BY <3>1, <5>1
        <5> QED
          BY <2>1, <5>1, <5>2, <5>3
      <4>2. item.what # "Timer" /\ item.timed \in BOOLEAN
        BY <3>1 DEF QueuedSocket, Whats
      <4>3. item.timed
        BY <3>1, <4>1 DEF Fits
      <4>4. interest' = interest \ {<<f, IF e[2] = "Timer" THEN item.what ELSE "Timer">>}
        BY <1>8, <2>4, <4>3 DEF Handle
      <4> QED
        BY <3>1, <4>1, <4>2, <4>4 DEF Fits
    <3>5. \A i \in interest' : IsQueued(i[1])' /\ Fits(queued'[i[1]], i[2])
      BY <2>1, <3>2, <3>3, <3>4 DEF KqueueFit
    <3>6. \A d \in batch' :
            d \notin interest' /\ (IsQueued(d[1])' => Fits(queued'[d[1]], d[2]))
                               /\ (~locked' => IsQueued(d[1])')
      BY <2>1, <2>2, <3>2, <3>3 DEF KqueueFit
    <3>7. \A g \in Fds : IsQueued(g)' => open'[g]
      BY <2>1, <3>2 DEF KqueueFit
    <3> QED
      BY <3>2, <3>5, <3>6, <3>7 DEF KqueueFit
  <2> QED
    BY <2>3, <2>4
<1> HIDE DEF TypeOK, IsQueued
<1> QED
  BY <1>1, <1>2, <1>3, <1>4, <1>5, <1>6, <1>7, <1>8 DEF Next


LEMMA KqueueKeeps == SafeSpec => []KqueueInv
<1>1. Init => KqueueInv
  BY DEF Init, KqueueInv, KqueueFit, IsQueued
<1>2. TypeOK /\ KqueueInv /\ [Next]_vars => KqueueInv'
  BY SetupFixed, NextKqueue DEF KqueueInv
<1> QED
  BY <1>1, <1>2, Typing, PTL DEF SafeSpec

-----------------------------------------------------------------------------
(* Directions, on epoll, for disciplined callers.                           *)

(* The registration and the fetched event of a descriptor are those of its *)
(* request; a batch holds one event for a descriptor.                      *)
EpollFit ==
  /\ \A i \in interest : i[2] = "Spent" \/ i[2] = queued[i[1]].what
  /\ \A e \in batch :
       IsQueued(e[1]) /\ e[2] \in {queued[e[1]].what, "Error", "None"}
  /\ \A d, e \in batch : d[1] = e[1] => d = e

EpollFitInv == platform = "epoll" /\ disciplined => EpollFit

LEMMA TidyPair ==
  ASSUME TypeOK, Tidy, NEW i \in interest
  PROVE  i = <<i[1], i[2]>> /\ i[1] \in Fds /\ i[2] \in Kinds /\ IsQueued(i[1])
<1>1. i = <<i[1], i[2]>> /\ i[1] \in Fds /\ i[2] \in Kinds
  BY DEF TypeOK
<1>2. <<i[1], i[2]>> \in interest
  BY <1>1
<1>3. i[2] \in Watched(i[1])
  BY <1>1, <1>2 DEF Watched
<1> QED
  BY <1>1, <1>3 DEF Tidy

LEMMA NextEpollFit ==
  ASSUME platform = "epoll", disciplined, TypeOK, Tidy, EpollFit, [Next]_vars
  PROVE  EpollFit'
<1> USE DEF TypeOK, IsQueued
<1>1. CASE UNCHANGED vars
  BY <1>1 DEF vars, EpollFit
<1>2. ASSUME NEW f \in Fds, NEW r \in Requests, NEW what \in Whats,
             NEW timed \in BOOLEAN, Add(f, r, what, timed)
      PROVE  EpollFit'
  <2> DEFINE item == [req |-> r, what |-> what, timed |-> timed]
  <2>1. queued[f] = NoRequest
    BY <1>2 DEF Add, MayAdd
  <2>2. queued'[f] = item /\ item.what = what /\ \A g \in Fds : g # f => queued'[g] = queued[g]
    BY <1>2 DEF Add
  <2>3. interest' \subseteq interest \cup {<<f, what>>} /\ batch' = batch
    BY <1>2 DEF Add, KernelAdd
  <2>4. \A i \in interest : i[1] # f /\ i[1] \in Fds
    BY <2>1, TidyPair
  <2>5. \A e \in batch : e[1] # f /\ e[1] \in Fds
    BY <2>1 DEF EpollFit
  <2> HIDE DEF item
  <2>6. \A i \in interest' : i[2] = "Spent" \/ i[2] = queued'[i[1]].what
    <3> SUFFICES ASSUME NEW i \in interest'
                 PROVE  i[2] = "Spent" \/ i[2] = queued'[i[1]].what
      OBVIOUS
    <3>1. CASE i \in interest
      BY <2>2, <2>4, <3>1 DEF EpollFit
    <3>2. CASE i = <<f, what>>
      BY <2>2, <3>2
    <3> QED
      BY <2>3, <3>1, <3>2
  <2>7. \A e \in batch : queued'[e[1]] = queued[e[1]]
    BY <2>2, <2>5
  <2> QED
    BY <2>3, <2>6, <2>7 DEF EpollFit
<1>3. ASSUME NEW f \in Fds, Remove(f)
      PROVE  EpollFit'
  BY <1>3 DEF Remove
<1>4. ASSUME NEW f \in Fds, Close(f) \/ Reopen(f)
      PROVE  EpollFit'
  <2>1. interest' \subseteq interest /\ UNCHANGED <<queued, batch>>
    BY <1>4 DEF Close, Reopen
  <2> QED
    BY <2>1 DEF EpollFit
<1>5. ASSUME NEW events \in SUBSET Reportable, Fetch(events)
      PROVE  EpollFit'
  <2>1. queued' = queued /\ batch' = events
    BY <1>5 DEF Fetch
  <2>2. \A d, e \in events : d[1] = e[1] => d = e
    BY <1>5 DEF Fetch
  <2>3. ASSUME NEW e \in events
        PROVE  IsQueued(e[1]) /\ e[2] \in {queued[e[1]].what, "Error", "None"}
    <3>1. PICK i \in interest : i[2] # "Spent" /\ \E got \in Reports(i[2]) : e = <<i[1], got>>
      BY DEF Reportable
    <3>2. e[1] = i[1]
      BY <3>1
    <3>3. IsQueued(i[1])
      BY TidyPair
    <3>4. i[2] = queued[i[1]].what
      BY <3>1 DEF EpollFit
    <3>5. e[2] \in {i[2], "Error", "None"}
      BY <3>1 DEF Reports
    <3> QED
      BY <3>2, <3>3, <3>4, <3>5
  <2>4. \A i \in interest' : i \in interest \/ i[2] = "Spent"
    BY <1>5 DEF Fetch
  <2> QED
    BY <2>1, <2>2, <2>3, <2>4 DEF EpollFit
<1>6. CASE LockForEvents
  BY <1>6 DEF LockForEvents, EpollFit
<1>7. ASSUME NEW e \in batch, Handle(e)
      PROVE  EpollFit'
  <2> DEFINE f == e[1]
  <2>1. f \in Fds /\ batch' = batch \ {e} /\ queued[f] # NoRequest
    BY <1>7 DEF Handle, EpollFit
  <2>2. queued' = [queued EXCEPT ![f] = NoRequest] /\ interest' = interest \ ({f} \X Kinds)
    BY <1>7, <2>1 DEF Handle
  <2>3. \A i \in interest' : i \in interest /\ i[1] # f /\ i[1] \in Fds
    <3> SUFFICES ASSUME NEW i \in interest'
                 PROVE  i \in interest /\ i[1] # f /\ i[1] \in Fds
      OBVIOUS
    <3>1. i \in interest /\ i \notin {f} \X Kinds
      BY <2>2
    <3>2. i = <<i[1], i[2]>> /\ i[1] \in Fds /\ i[2] \in Kinds
      BY <3>1
    <3> QED
      BY <3>1, <3>2
  <2>4. \A d \in batch' : d \in batch /\ d[1] # f /\ d[1] \in Fds
    BY <2>1 DEF EpollFit
  <2> QED
    BY <2>2, <2>3, <2>4 DEF EpollFit
<1> HIDE DEF TypeOK, IsQueued
<1> QED
  BY <1>1, <1>2, <1>3, <1>4, <1>5, <1>6, <1>7 DEF Next

LEMMA EpollKeeps == SafeSpec => []EpollFitInv
<1>1. Init => EpollFitInv
  BY DEF Init, EpollFitInv, EpollFit
<1>2. TypeOK /\ EpollInv /\ EpollFitInv /\ [Next]_vars => EpollFitInv'
  BY SetupFixed, NextEpollFit DEF EpollInv, EpollFitInv
<1> QED
  BY <1>1, <1>2, Typing, EpollFollows, PTL DEF SafeSpec

-----------------------------------------------------------------------------
(* What requests are told, for disciplined callers.                         *)

MayBeTold(item, got) == Fits(item, got) \/ got \in {"None", "Error"}

AnswersFit ==
  \A r \in Requests : \A i \in 1..Len(calls[r]) : MayBeTold(calls[r][i], calls[r][i].got)

AnswersInv == disciplined => AnswersFit

LEMMA HandleAnswers ==
  ASSUME TypeOK, AnswersFit, NEW e \in batch, Handle(e),
         IsQueued(e[1]) => MayBeTold(queued[e[1]], e[2])
  PROVE  AnswersFit'
<1> DEFINE item == queued[e[1]]
           c == [what |-> item.what, timed |-> item.timed, got |-> e[2]]
<1>1. CASE ~IsQueued(e[1])
  BY <1>1 DEF Handle, AnswersFit
<1>2. CASE IsQueued(e[1])
  <2>1. item \in QueuedSocket
    BY <1>2 DEF TypeOK, IsQueued
  <2>2. item.req \in Requests /\ calls[item.req] \in Seq(Call)
    BY <2>1 DEF QueuedSocket, TypeOK
  <2>3. MayBeTold(c, c.got)
    BY <1>2 DEF MayBeTold, Fits
  <2>4. calls' = [calls EXCEPT ![item.req] = Append(@, c)] /\ calls \in [Requests -> Seq(Call)]
    BY <1>2 DEF Handle, TypeOK
  <2> HIDE DEF c, item
  <2> SUFFICES ASSUME NEW r \in Requests, NEW i \in 1..Len(calls'[r])
               PROVE  MayBeTold(calls'[r][i], calls'[r][i].got)
    BY DEF AnswersFit
  <2>5. CASE r # item.req
    <3>1. calls'[r] = calls[r]
      BY <2>4, <2>5
    <3> QED
      BY <3>1 DEF AnswersFit
  <2>6. CASE r = item.req
    <3>1. calls'[r] = Append(calls[r], c)
      BY <2>4, <2>6
    <3>2. CASE i = Len(calls[r]) + 1
      <4>1. calls'[r][i] = c
        BY <2>2, <2>6, <3>1, <3>2
      <4> QED
        BY <2>3, <4>1
    <3>3. CASE i # Len(calls[r]) + 1
      <4>1. i \in 1..Len(calls[r]) /\ calls'[r][i] = calls[r][i]
        BY <2>2, <2>6, <3>1, <3>3
      <4> QED
        BY <4>1 DEF AnswersFit
    <3> QED
      BY <3>2, <3>3
  <2> QED
    BY <2>5, <2>6
<1> QED
  BY <1>1, <1>2

LEMMA NextAnswers ==
  TypeOK /\ KqueueInv /\ EpollFitInv /\ AnswersInv /\ [Next]_vars => AnswersInv'
<1> SUFFICES ASSUME TypeOK, KqueueInv, EpollFitInv, disciplined, AnswersFit, [Next]_vars
             PROVE  AnswersFit'
  BY SetupFixed DEF AnswersInv
<1>1. CASE calls' = calls
  BY <1>1 DEF AnswersFit
<1>2. ASSUME NEW e \in batch, Handle(e)
      PROVE  AnswersFit'
  <2>1. CASE platform = "kqueue"
    BY <1>2, <2>1, HandleAnswers DEF KqueueInv, KqueueFit, MayBeTold
  <2>2. CASE platform = "epoll"
    BY <1>2, <2>2, HandleAnswers DEF EpollFitInv, EpollFit, MayBeTold, Fits
  <2> QED
    BY <2>1, <2>2 DEF TypeOK
<1> QED
  BY <1>1, <1>2 DEF Next, vars, Add, Remove, Close, Reopen, Fetch, LockForEvents

(* On both platforms, as long as a socket has one request at a time and is *)
(* not closed while it has it: no request without a timeout is told of     *)
(* one, and a reader is not told of writability nor a writer of input.     *)
THEOREM AnswersFitRequests == SafeSpec => [](TimerOnlyIfAsked /\ RightDirection)
<1> DEFINE P == TimerOnlyIfAsked /\ RightDirection
<1>1. Init => AnswersInv
  BY DEF Init, AnswersInv, AnswersFit
<1>2. TypeOK /\ KqueueInv /\ EpollFitInv /\ AnswersInv /\ [Next]_vars => AnswersInv'
  BY NextAnswers
<1>3. TypeOK /\ AnswersInv => P
  <2> SUFFICES ASSUME TypeOK, disciplined, AnswersFit,
                      NEW r \in Requests, NEW i \in 1..Len(calls[r])
               PROVE  /\ calls[r][i].got = "Timer" => calls[r][i].timed
                      /\ calls[r][i].got \in Whats => calls[r][i].got = calls[r][i].what
    BY DEF AnswersInv, TimerOnlyIfAsked, RightDirection
  <2>1. calls[r][i] \in Call
    BY DEF TypeOK
  <2>2. MayBeTold(calls[r][i], calls[r][i].got)
    BY DEF AnswersFit
  <2>3. calls[r][i].what # "Timer"
    BY <2>1 DEF Call, Whats
  <2> QED
    BY <2>2, <2>3 DEF MayBeTold, Fits, Whats
<1>4. SafeSpec => []P
  <2> HIDE DEF P
  <2> QED
    BY <1>1, <1>2, <1>3, Typing, KqueueKeeps, EpollKeeps, PTL DEF SafeSpec
<1> QED
  BY <1>4

(* Alone: a request that asked for no timeout is told of none.             *)
THEOREM TimersOnlyIfAsked == SafeSpec => []TimerOnlyIfAsked
BY AnswersFitRequests, PTL

-----------------------------------------------------------------------------
(* What the kernel keeps, and what it watches.                              *)

(* The kernel's registrations do not outlive the table's entries: on Linux *)
(* whatever the callers do, on the Mac if they keep to the rules.          *)
THEOREM KernelFollowsTable == SafeSpec => []NothingLeftBehind
<1>1. TypeOK /\ EpollInv /\ KqueueInv => NothingLeftBehind
  BY DEF TypeOK, EpollInv, Tidy, KqueueInv, KqueueFit, Watched, NothingLeftBehind
<1> QED
  BY <1>1, Typing, EpollFollows, KqueueKeeps, PTL

(* A registration that fired and is in the way of the next ADD is always   *)
(* about to be deleted by the loop.                                        *)
NoSpentOnMac == platform = "kqueue" => \A f \in Fds : <<f, "Spent">> \notin interest

THEOREM SpentOnlyWhileHandled == SafeSpec => []SpentIsBeingHandled
<1>1. Init => NoSpentOnMac
  BY DEF Init, NoSpentOnMac
<1>2. TypeOK /\ NoSpentOnMac /\ [Next]_vars => NoSpentOnMac'
  <2> SUFFICES ASSUME TypeOK, platform = "kqueue", NoSpentOnMac, [Next]_vars
               PROVE  \A f \in Fds : <<f, "Spent">> \notin interest'
    BY SetupFixed DEF NoSpentOnMac
  <2>1. ASSUME NEW f \in Fds, NEW r \in Requests, NEW what \in Whats,
               NEW timed \in BOOLEAN, Add(f, r, what, timed)
        PROVE  interest' \subseteq interest \cup {<<f, "Timer">>, <<f, what>>}
    BY <2>1 DEF Add, KernelAdd
  <2>2. CASE interest' \subseteq interest
    BY <2>2 DEF NoSpentOnMac
  <2>3. ASSUME NEW f \in Fds, NEW r \in Requests, NEW what \in Whats,
               NEW timed \in BOOLEAN, Add(f, r, what, timed)
        PROVE  \A g \in Fds : <<g, "Spent">> \notin interest'
    BY <2>1, <2>3 DEF NoSpentOnMac, Whats
  <2>4. ASSUME NEW f \in Fds, Remove(f) \/ Close(f) \/ Reopen(f)
        PROVE  interest' \subseteq interest
    BY <2>4 DEF Remove, Close, Reopen
  <2>5. ASSUME NEW events \in SUBSET Reportable, Fetch(events)
        PROVE  interest' \subseteq interest
    BY <2>5 DEF Fetch
  <2>6. ASSUME NEW e \in batch, Handle(e)
        PROVE  interest' \subseteq interest
    BY <2>6 DEF Handle
  <2> QED
    BY <2>2, <2>3, <2>4, <2>5, <2>6 DEF Next, LockForEvents, vars
<1>3. TypeOK /\ EpollInv /\ NoSpentOnMac => SpentIsBeingHandled
  BY DEF TypeOK, EpollInv, NoSpentOnMac, SpentIsBeingHandled
<1> QED
  BY <1>1, <1>2, <1>3, Typing, EpollFollows, PTL DEF SafeSpec

LEMMA NextWatched ==
  ASSUME disciplined, TypeOK, EpollInv, QueuedIsWatched, [Next]_vars
  PROVE  QueuedIsWatched'
<1> USE DEF TypeOK, IsQueued
<1> DEFINE Seen(f) == \/ <<f, queued[f].what>> \in interest
                      \/ \E e \in batch : e[1] = f
<1>0. disciplined' /\ \A f \in Fds : IsQueued(f) => Seen(f)
  BY SetupFixed DEF QueuedIsWatched
<1>1. CASE UNCHANGED vars
  BY <1>1 DEF vars, QueuedIsWatched
<1>2. ASSUME NEW f \in Fds, NEW r \in Requests, NEW what \in Whats,
             NEW timed \in BOOLEAN, Add(f, r, what, timed)
      PROVE  QueuedIsWatched'
  <2>1. open[f] /\ ~IsQueued(f) /\ batch' = batch
    BY <1>2 DEF Add, MayAdd
  <2>2. interest' = interest \cup KernelAdd(f, what, timed)
    BY <1>2 DEF Add
  <2>3. <<f, what>> \in KernelAdd(f, what, timed)
    BY <2>1 DEF KernelAdd, EpollInv, Tidy
  <2>4. queued'[f].what = what /\ \A g \in Fds : g # f => queued'[g] = queued[g]
    BY <1>2 DEF Add
  <2> QED
    BY <1>0, <2>1, <2>2, <2>3, <2>4 DEF QueuedIsWatched
<1>3. ASSUME NEW f \in Fds, Remove(f)
      PROVE  QueuedIsWatched'
  BY <1>3 DEF Remove
<1>4. ASSUME NEW f \in Fds, Close(f)
      PROVE  QueuedIsWatched'
  <2>1. ~IsQueued(f) /\ UNCHANGED <<queued, batch>>
    BY <1>4 DEF Close, MayClose
  <2>2. \A i \in interest : i[1] # f => i \in interest'
    BY <1>4 DEF Close
  <2>3. \A g \in Fds : g # f /\ <<g, queued[g].what>> \in interest =>
          <<g, queued[g].what>> \in interest'
    BY <2>2
  <2> QED
    BY <1>0, <2>1, <2>3 DEF QueuedIsWatched
<1>5. ASSUME NEW f \in Fds, Reopen(f)
      PROVE  QueuedIsWatched'
  BY <1>0, <1>5 DEF Reopen, QueuedIsWatched
<1>6. ASSUME NEW events \in SUBSET Reportable, Fetch(events)
      PROVE  QueuedIsWatched'
  <2>1. batch = {} /\ batch' = events /\ queued' = queued
    BY <1>6 DEF Fetch
  <2>2. \A i \in interest : i \in interest' \/ \E e \in events : i \in UsedBy(e)
    BY <1>6 DEF Fetch
  <2>3. ASSUME NEW e \in events, NEW i \in UsedBy(e)
        PROVE  i[1] = e[1]
    BY <2>3 DEF UsedBy
  <2> SUFFICES ASSUME NEW f \in Fds, IsQueued(f)
               PROVE  <<f, queued[f].what>> \in interest' \/ \E e \in events : e[1] = f
    BY <2>1 DEF QueuedIsWatched
  <2>4. <<f, queued[f].what>> \in interest
    BY <1>0, <2>1
  <2> QED
    BY <2>2, <2>3, <2>4
<1>7. CASE LockForEvents
  BY <1>0, <1>7 DEF LockForEvents, QueuedIsWatched
<1>8. ASSUME NEW e \in batch, Handle(e)
      PROVE  QueuedIsWatched'
  <2>1. e[1] \in Fds /\ batch' = batch \ {e}
    BY <1>8 DEF Handle
  <2>2. ~(queued'[e[1]] # NoRequest)
    BY <1>8, <2>1 DEF Handle
  <2>3. \A g \in Fds : g # e[1] => queued'[g] = queued[g]
    BY <1>8, <2>1 DEF Handle
  <2>4. \A i \in interest : i[1] # e[1] => i \in interest'
    BY <1>8 DEF Handle
  <2>5. \A g \in Fds : g # e[1] /\ <<g, queued[g].what>> \in interest =>
          <<g, queued[g].what>> \in interest'
    BY <2>4
  <2> QED
    BY <1>0, <2>1, <2>2, <2>3, <2>5 DEF QueuedIsWatched
<1> HIDE DEF TypeOK, IsQueued, Seen
<1> QED
  BY <1>1, <1>2, <1>3, <1>4, <1>5, <1>6, <1>7, <1>8 DEF Next

(* With callers that keep to the rules no request is forgotten: add does   *)
(* not meet a stale registration, and nobody deletes a live one.           *)
THEOREM QueuedStaysWatched == SafeSpec => []QueuedIsWatched
<1>1. Init => QueuedIsWatched
  BY DEF Init, QueuedIsWatched, IsQueued
<1>2. TypeOK /\ EpollInv /\ QueuedIsWatched /\ [Next]_vars => QueuedIsWatched'
  BY SetupFixed, NextWatched DEF QueuedIsWatched
<1> QED
  BY <1>1, <1>2, Typing, EpollFollows, PTL DEF SafeSpec

-----------------------------------------------------------------------------
(* A connection on the event loop: NetTCP.                                 *)

-----------------------------------------------------------------------------
(* The read has taken what it no longer misses.                            *)
Read == [pc : Steps, remaining : Nat, req : Requests \cup {NoRequest},
         result : {"none", "data", "nil"}, timed : BOOLEAN]
ReadCounts ==
  /\ rd \in Read
  /\ taken \in Nat /\ taken + rd.remaining = Count
  /\ rd.result = "data" => rd.remaining = 0

(* The write has sent what it no longer has.                               *)
Write == [pc : Steps, length : Nat, wrote : Nat, req : Requests \cup {NoRequest},
          reported : Int]
WriteCounts ==
  /\ wr \in Write
  /\ sent \in Nat /\ broken \in BOOLEAN
  /\ wr.wrote <= sent /\ sent <= Length
  /\ wr.pc # "done" =>
       sent = wr.wrote /\ wr.wrote + wr.length = Length /\ wr.reported = 0
  /\ wr.pc = "done" =>
       (wr.reported = sent /\ sent = Length) \/ (wr.reported = -1 /\ broken)

(* The loop has the request r, or has answered it.                         *)
Pending(r) ==
  \/ IsQueued(Socket) /\ queued[Socket].req = r
  \/ calls[r] # <<>>

Waits(op) == op.pc = "wait" => op.req \in Requests /\ (disciplined => Pending(op.req))

TIInv == TypeOK /\ ReadCounts /\ WriteCounts /\ Waits(rd) /\ Waits(wr)

-----------------------------------------------------------------------------
LEMMA Sizes == Count \in Nat \ {0} /\ Length \in Nat \ {0} /\ SendBuf \in Nat \ {0}
BY SizesAssumption

LEMMA TInitTIInv == TInit => TIInv
<1> SUFFICES ASSUME TInit PROVE TIInv
  OBVIOUS
<1>1. TypeOK
  BY InitTyped DEF TInit
<1>2. ReadCounts /\ Waits(rd)
  <2>1. PICK timed \in BOOLEAN :
          rd = [pc |-> "idle", remaining |-> Count, req |-> NoRequest,
                result |-> "none", timed |-> timed]
    BY DEF TInit
  <2>2. rd \in Read
    BY <2>1, Sizes DEF Read, Steps
  <2> QED
    BY <2>1, <2>2, Sizes DEF TInit, ReadCounts, Waits
<1>3. WriteCounts /\ Waits(wr)
  <2>1. wr = [pc |-> "idle", length |-> Length, wrote |-> 0, req |-> NoRequest, reported |-> 0]
    BY DEF TInit
  <2>2. wr \in Write
    BY <2>1, Sizes DEF Write, Steps
  <2>3. wr.pc = "idle" /\ wr.length = Length /\ wr.wrote = 0 /\ wr.reported = 0
    BY <2>1
  <2>4. sent = 0 /\ broken \in BOOLEAN
    BY DEF TInit
  <2> QED
    BY <2>2, <2>3, <2>4, Sizes DEF WriteCounts, Waits
<1> QED
  BY <1>1, <1>2, <1>3 DEF TIInv

(* A step of the connection is a step of the loop or does not concern it.  *)
LEMMA TNextIsNext == rd.timed \in BOOLEAN /\ [TNext]_tvars => [Next]_vars
<1> SUFFICES ASSUME rd.timed \in BOOLEAN, [TNext]_tvars PROVE [Next]_vars
  OBVIOUS
<1>1. CASE UNCHANGED tvars
  BY <1>1 DEF tvars
<1>2. CASE PeerSends \/ PeerReads \/ PeerCloses \/ Reset \/ StartRead \/ StartWrite
  BY <1>2 DEF PeerSends, PeerReads, PeerCloses, Reset, StartRead, StartWrite
<1>3. ASSUME NEW r \in Requests, NEW what \in Whats, NEW timed \in BOOLEAN,
             Add(Socket, r, what, timed)
      PROVE  Next
  BY <1>3, SocketAssumption DEF Next
<1>4. CASE Reader
  <2>1. ASSUME NEW r \in Requests, ReadBytesFullyIncomplete(r)
        PROVE  Next
    BY <1>3, <2>1 DEF ReadBytesFullyIncomplete, Whats
  <2> QED
    BY <1>4, <2>1 DEF Reader, RecvSome, RecvEnds, RecvAgain, ReadCallback
<1>5. CASE Writer
  <2>1. ASSUME NEW r \in Requests, WriteIncomplete(r)
        PROVE  Next
    BY <1>3, <2>1 DEF WriteIncomplete, Whats
  <2> QED
    BY <1>5, <2>1 DEF Writer, SendSome, SendAgain, SendFails, WriteCallback
<1>6. CASE FetchReady(Filters)
  BY <1>6 DEF FetchReady, Next
<1>7. CASE LoopStep
  BY <1>7 DEF LoopStep, Next
<1> QED
  BY <1>1, <1>2, <1>4, <1>5, <1>6, <1>7 DEF TNext

(* The loop does not lose a request of callers that keep to the rules.     *)
LEMMA NextPending ==
  ASSUME TypeOK, disciplined, [Next]_vars, NEW r \in Requests, Pending(r)
  PROVE  Pending(r)'
<1>1. Socket \in Fds /\ \A f \in Fds : f = Socket
  BY SocketAssumption
<1>2. CASE UNCHANGED <<queued, calls>>
  BY <1>2 DEF Pending, IsQueued
<1>3. ASSUME NEW f \in Fds, NEW s \in Requests, NEW what \in Whats,
             NEW timed \in BOOLEAN, Add(f, s, what, timed)
      PROVE  Pending(r)'
  <2>1. f = Socket /\ ~IsQueued(f) /\ calls' = calls
    BY <1>1, <1>3 DEF Add, MayAdd
  <2> QED
    BY <2>1 DEF Pending
<1>4. ASSUME NEW e \in batch, Handle(e)
      PROVE  Pending(r)'
  <2>1. e[1] = Socket
    BY <1>1 DEF TypeOK
  <2>2. CASE ~IsQueued(Socket)
    BY <1>2, <1>4, <2>1, <2>2 DEF Handle
  <2>3. CASE IsQueued(Socket)
    <3> DEFINE item == queued[Socket]
               c == [what |-> item.what, timed |-> item.timed, got |-> e[2]]
    <3>1. item.req \in Requests
      BY <1>1, <2>3 DEF TypeOK, IsQueued, QueuedSocket
    <3>2. calls' = [calls EXCEPT ![item.req] = Append(@, c)]
      BY <1>4, <2>1, <2>3 DEF Handle
    <3>3. calls \in [Requests -> Seq(Call)]
      BY DEF TypeOK
    <3> HIDE DEF item, c
    <3>4. CASE r = item.req
      <4>1. calls'[r] = Append(calls[r], c)
        BY <3>2, <3>3, <3>4
      <4>2. Len(calls'[r]) = Len(calls[r]) + 1 /\ Len(calls[r]) \in Nat
        BY <3>3, <4>1
      <4>3. calls'[r] # <<>>
        BY <4>2
      <4> QED
        BY <4>3 DEF Pending
    <3>5. CASE r # item.req
      <4>1. calls'[r] = calls[r]
        BY <3>2, <3>3, <3>5
      <4>2. calls[r] # <<>>
        BY <3>5 DEF Pending, item
      <4> QED
        BY <4>1, <4>2 DEF Pending
    <3> QED
      BY <3>4, <3>5
  <2> QED
    BY <2>2, <2>3
<1> QED
  BY <1>2, <1>3, <1>4
  DEF Next, vars, Remove, Close, Reopen, Fetch, LockForEvents

-----------------------------------------------------------------------------
LEMMA NextReadCounts == ReadCounts /\ [TNext]_tvars => ReadCounts'
<1> SUFFICES ASSUME ReadCounts, [TNext]_tvars PROVE ReadCounts'
  OBVIOUS
<1> USE Sizes DEF ReadCounts
<1>1. CASE UNCHANGED <<rd, taken>>
  BY <1>1
<1>2. CASE StartRead
  BY <1>2 DEF StartRead, network, Read, Steps
<1>3. ASSUME NEW n \in 1..Count, RecvSome(n)
      PROVE  ReadCounts'
  <2>1. n \in Nat /\ n <= rd.remaining /\ taken' = taken + n
    BY <1>3 DEF RecvSome
  <2>2. rd.remaining \in Nat /\ rd.remaining - n \in Nat
    BY <2>1 DEF Read
  <2>3. PICK pc \in Steps, result \in {"none", "data", "nil"} :
          /\ rd' = [rd EXCEPT !.remaining = rd.remaining - n, !.pc = pc, !.result = result]
          /\ result = "data" => rd.remaining = n \/ rd.result = "data"
    <3>1. CASE rd.remaining = n
      BY <1>3, <3>1 DEF RecvSome, Steps
    <3>2. CASE rd.remaining # n
      BY <1>3, <3>2 DEF RecvSome, Steps, Read
    <3> QED
      BY <3>1, <3>2
  <2>4. rd'.remaining = rd.remaining - n /\ rd' \in Read /\ rd'.result = result
    BY <2>2, <2>3 DEF Read
  <2>5. rd'.result = "data" => rd.remaining = n \/ rd.remaining = 0
    BY <2>4, <2>3
  <2> QED
    BY <2>1, <2>4, <2>5, <2>2
<1>4. CASE RecvEnds \/ RecvAgain \/ ReadCallback
  BY <1>4 DEF RecvEnds, RecvAgain, ReadCallback, ReadDone, network, Read, Steps
<1>5. ASSUME NEW r \in Requests, ReadBytesFullyIncomplete(r)
      PROVE  ReadCounts'
  BY <1>5 DEF ReadBytesFullyIncomplete, network, Read, Steps
<1>6. CASE Writer
  BY <1>1, <1>6 DEF Writer, SendSome, SendAgain, SendFails, WriteIncomplete,
                    WriteCallback, network
<1>7. CASE PeerSends \/ PeerReads \/ PeerCloses \/ Reset \/ StartWrite
  BY <1>1, <1>7 DEF PeerSends, PeerReads, PeerCloses, Reset, StartWrite, network
<1>8. CASE FetchReady(Filters) \/ LoopStep \/ UNCHANGED tvars
  BY <1>1, <1>8 DEF FetchReady, LoopStep, tvars, network
<1> QED
  BY <1>2, <1>3, <1>4, <1>5, <1>6, <1>7, <1>8 DEF TNext, Reader

LEMMA NextWriteCounts == WriteCounts /\ [TNext]_tvars => WriteCounts'
<1> SUFFICES ASSUME WriteCounts, [TNext]_tvars PROVE WriteCounts'
  OBVIOUS
<1> USE Sizes DEF WriteCounts
<1>1. CASE UNCHANGED <<wr, sent, broken>>
  BY <1>1
<1>2. CASE StartWrite \/ SendAgain \/ WriteCallback
  BY <1>2 DEF StartWrite, SendAgain, WriteCallback, network, Write, Steps, Answered
<1>3. ASSUME NEW n \in 1..Length, SendSome(n)
      PROVE  WriteCounts'
  <2>1. n \in Nat /\ n <= wr.length /\ sent' = sent + n /\ broken' = broken /\ wr.pc = "try"
    BY <1>3 DEF SendSome
  <2>2. wr.length \in Nat /\ wr.wrote \in Nat
    BY DEF Write
  <2>3. CASE n < wr.length
    <3>1. wr' = [wr EXCEPT !.pc = "add", !.wrote = @ + n, !.length = @ - n]
      BY <1>3, <2>3 DEF SendSome
    <3>2. wr.wrote + n \in Nat /\ wr.length - n \in Nat
      BY <2>1, <2>2
    <3>3. wr' \in Write /\ wr'.pc = "add" /\ wr'.wrote = wr.wrote + n /\ wr'.length = wr.length - n
         /\ wr'.reported = wr.reported
      BY <3>1, <3>2 DEF Write, Steps
    <3> QED
      BY <2>1, <2>2, <3>3
  <2>4. CASE ~(n < wr.length)
    <3>1. wr' = [wr EXCEPT !.pc = "done", !.reported = wr.wrote + n]
      BY <1>3, <2>4 DEF SendSome
    <3>2. wr.wrote + n \in Int
      BY <2>1, <2>2
    <3>3. wr' \in Write /\ wr'.pc = "done" /\ wr'.reported = wr.wrote + n /\ wr'.wrote = wr.wrote
      BY <3>1, <3>2 DEF Write, Steps
    <3> QED
      BY <2>1, <2>2, <2>4, <3>3
  <2> QED
    BY <2>3, <2>4
<1>4. CASE SendFails
  <2>1. wr' = [wr EXCEPT !.pc = "done", !.reported = -1] /\ -1 \in Int
    BY <1>4 DEF SendFails
  <2>2. wr' \in Write /\ wr'.pc = "done" /\ wr'.reported = -1 /\ wr'.wrote = wr.wrote
    BY <2>1 DEF Write, Steps
  <2> QED
    BY <1>4, <2>2 DEF SendFails, network
<1>5. ASSUME NEW r \in Requests, WriteIncomplete(r)
      PROVE  WriteCounts'
  BY <1>5 DEF WriteIncomplete, network, Write, Steps
<1>6. CASE Reader
  BY <1>1, <1>6 DEF Reader, RecvSome, RecvEnds, RecvAgain, ReadBytesFullyIncomplete,
                    ReadCallback, network
<1>7. CASE PeerSends \/ PeerReads \/ PeerCloses \/ StartRead
  BY <1>1, <1>7 DEF PeerSends, PeerReads, PeerCloses, StartRead, network
<1>8. CASE Reset
  BY <1>8 DEF Reset
<1>9. CASE FetchReady(Filters) \/ LoopStep \/ UNCHANGED tvars
  BY <1>1, <1>9 DEF FetchReady, LoopStep, tvars, network
<1> QED
  BY <1>2, <1>3, <1>4, <1>5, <1>6, <1>7, <1>8, <1>9 DEF TNext, Writer

-----------------------------------------------------------------------------
(* An entry that was just added is pending.                                *)
LEMMA AddPending ==
  ASSUME TypeOK, NEW r \in Requests, NEW what \in Whats, NEW timed \in BOOLEAN,
         Add(Socket, r, what, timed)
  PROVE  Pending(r)'
<1> DEFINE item == [req |-> r, what |-> what, timed |-> timed]
<1>1. queued'[Socket] = item
  BY SocketAssumption DEF Add, TypeOK
<1>2. item # NoRequest /\ item.req = r
  BY NoRequestAssumption DEF QueuedSocket
<1> QED
  BY <1>1, <1>2 DEF Pending, IsQueued

LEMMA NextWaitsRd ==
  TypeOK /\ rd \in Read /\ Waits(rd) /\ [TNext]_tvars => Waits(rd)'
<1> SUFFICES ASSUME TypeOK, rd \in Read, Waits(rd), [TNext]_tvars PROVE Waits(rd)'
  OBVIOUS
<1>1. rd.timed \in BOOLEAN /\ [Next]_vars
  BY TNextIsNext DEF Read
<1>2. disciplined' = disciplined
  BY <1>1, SetupFixed DEF setup
<1>3. CASE rd' = rd
  BY <1>1, <1>2, <1>3, NextPending DEF Waits
<1>4. CASE rd'.pc # "wait"
  BY <1>4 DEF Waits
<1>5. ASSUME NEW r \in Requests, ReadBytesFullyIncomplete(r)
      PROVE  Waits(rd)'
  <2>1. Pending(r)'
    BY <1>1, <1>5, AddPending DEF ReadBytesFullyIncomplete, Whats
  <2>2. rd'.req = r
    BY <1>5 DEF ReadBytesFullyIncomplete, Read
  <2> QED
    BY <2>1, <2>2 DEF Waits
<1>6. CASE RecvEnds \/ RecvAgain \/ ReadCallback \/ StartRead
  BY <1>4, <1>6 DEF RecvEnds, RecvAgain, ReadCallback, ReadDone, StartRead, Read
<1>7. ASSUME NEW n \in 1..Count, RecvSome(n)
      PROVE  Waits(rd)'
  BY <1>4, <1>7 DEF RecvSome, Read
<1>8. CASE Writer
  BY <1>3, <1>8 DEF Writer, SendSome, SendAgain, SendFails, WriteIncomplete, WriteCallback
<1> QED
  BY <1>3, <1>5, <1>6, <1>7, <1>8
  DEF TNext, Reader, PeerSends, PeerReads, PeerCloses, Reset, StartWrite,
      FetchReady, LoopStep, tvars

LEMMA NextWaitsWr ==
  TypeOK /\ rd \in Read /\ wr \in Write /\ Waits(wr) /\ [TNext]_tvars => Waits(wr)'
<1> SUFFICES ASSUME TypeOK, rd \in Read, wr \in Write, Waits(wr), [TNext]_tvars
             PROVE  Waits(wr)'
  OBVIOUS
<1>1. [Next]_vars
  BY TNextIsNext DEF Read
<1>2. disciplined' = disciplined
  BY <1>1, SetupFixed DEF setup
<1>3. CASE wr' = wr
  BY <1>1, <1>2, <1>3, NextPending DEF Waits
<1>4. CASE wr'.pc # "wait"
  BY <1>4 DEF Waits
<1>5. ASSUME NEW r \in Requests, WriteIncomplete(r)
      PROVE  Waits(wr)'
  <2>1. Pending(r)'
    BY <1>5, AddPending DEF WriteIncomplete, Whats
  <2>2. wr'.req = r
    BY <1>5 DEF WriteIncomplete, Write
  <2> QED
    BY <2>1, <2>2 DEF Waits
<1>6. CASE SendAgain \/ SendFails \/ WriteCallback \/ StartWrite
  BY <1>4, <1>6 DEF SendAgain, SendFails, WriteCallback, StartWrite, Write
<1>7. ASSUME NEW n \in 1..Length, SendSome(n)
      PROVE  Waits(wr)'
  BY <1>4, <1>7 DEF SendSome, Write
<1>8. CASE Reader
  BY <1>3, <1>8 DEF Reader, RecvSome, RecvEnds, RecvAgain, ReadBytesFullyIncomplete,
                    ReadCallback
<1> QED
  BY <1>3, <1>5, <1>6, <1>7, <1>8
  DEF TNext, Writer, PeerSends, PeerReads, PeerCloses, Reset, StartRead,
      FetchReady, LoopStep, tvars

LEMMA TNextTIInv == TIInv /\ [TNext]_tvars => TIInv'
<1> SUFFICES ASSUME TIInv, [TNext]_tvars PROVE TIInv'
  OBVIOUS
<1>1. TypeOK /\ ReadCounts /\ WriteCounts /\ Waits(rd) /\ Waits(wr)
  BY DEF TIInv
<1>2. rd \in Read /\ wr \in Write /\ rd.timed \in BOOLEAN
  BY <1>1 DEF ReadCounts, WriteCounts, Read
<1>3. TypeOK'
  BY <1>1, <1>2, TNextIsNext, NextTyped
<1>4. ReadCounts' /\ WriteCounts'
  BY <1>1, NextReadCounts, NextWriteCounts
<1>5. Waits(rd)' /\ Waits(wr)'
  BY <1>1, <1>2, NextWaitsRd, NextWaitsWr
<1> QED
  BY <1>3, <1>4, <1>5 DEF TIInv

LEMMA Connection == TSafeSpec => []TIInv
BY TInitTIInv, TNextTIInv, PTL DEF TSafeSpec

-----------------------------------------------------------------------------
(* A connection does nothing to the event loop that NetEvent does not      *)
(* allow, so that the theorems about NetEvent hold of it.                  *)
THEOREM ConnectionUsesEventLoop == TSafeSpec => SafeSpec
<1>1. TInit => Init
  BY DEF TInit
<1>2. TIInv /\ [TNext]_tvars => [Next]_vars
  BY TNextIsNext DEF TIInv, ReadCounts, Read
<1> QED
  BY <1>1, <1>2, Connection, PTL DEF TSafeSpec, SafeSpec

(* However the bytes come in pieces, and whether a piece is read at once   *)
(* or after an event, readBytesFully takes what was asked for and no more. *)
THEOREM ReadsExactly == TSafeSpec => []ReadIsExact
<1>1. TIInv => ReadIsExact
  BY Sizes DEF TIInv, ReadCounts, ReadIsExact, Read
<1> QED
  BY <1>1, Connection, PTL

(* write sends each byte once and reports what it sent.                    *)
THEOREM WritesExactly == TSafeSpec => []WriteIsExact
<1>1. TIInv => WriteIsExact
  BY Sizes DEF TIInv, WriteCounts, WriteIsExact
<1> QED
  BY <1>1, Connection, PTL

(* With one operation at a time on a socket, a read or write that waits is *)
(* the one the loop calls back.                                            *)
THEOREM WaitersRegistered == TSafeSpec => []WaiterIsRegistered
<1>1. TIInv => WaiterIsRegistered
  BY DEF TIInv, Waits, Pending, WaiterIsRegistered
<1> QED
  BY <1>1, Connection, PTL

=============================================================================
