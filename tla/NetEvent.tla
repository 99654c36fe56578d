------------------------------ MODULE NetEvent ------------------------------
(***************************************************************************)
(* The socket event loop of PerfectLib/NetEvent.swift.                     *)
(*                                                                         *)
(* Threads register a one-shot interest in a descriptor with add; the loop *)
(* thread asks the kernel for events without holding the lock, and then,   *)
(* under the lock, looks the descriptor of each event up in queuedSockets, *)
(* drops the entry and hands its callback to Threading.dispatch.  Table    *)
(* and kernel are keyed by the descriptor NUMBER, so what the kernel       *)
(* reports may belong to an earlier registration of that number, or to an  *)
(* earlier socket.                                                         *)
(*                                                                         *)
(* The kernel is modelled for both platforms the code supports:            *)
(*   epoll:  one registration per descriptor, ADD fails when there is one, *)
(*           a one-shot registration that fired stays, disabled, until DEL;*)
(*           no timers (the code sets none on Linux);                      *)
(*   kqueue: one knote per descriptor and filter, a one-shot knote goes    *)
(*           away when it is reported; EVFILT_TIMER knotes are keyed by a  *)
(*           number of the caller's choice, so close() does not touch them.*)
(* When a descriptor becomes ready is up to the network: the kernel may    *)
(* report any armed interest at any time.                                  *)
(***************************************************************************)
EXTENDS Naturals, Sequences, FiniteSets

CONSTANTS
  Fds,           \* descriptor numbers
  Requests,      \* identities of the calls of add
  NoRequest,
  MaxBatch,      \* numEvents, the length of evlist
  Platforms,     \* the builds to consider, of "epoll" and "kqueue"
  Disciplines    \* whether callers keep to the rules below, TRUE, FALSE or both

ASSUME BatchAssumption == MaxBatch \in Nat \ {0}
ASSUME PlatformsAssumption ==
  Platforms \subseteq {"epoll", "kqueue"} /\ Disciplines \subseteq BOOLEAN

VARIABLES
  platform,     \* the kernel the code was built for
  disciplined,  \* whether the callers keep to the rules
  open,      \* open[f]: the number f currently is a socket
  queued,    \* queuedSockets: the QueuedSocket of each number, or NoRequest
  interest,  \* what the kernel watches, pairs <<descriptor, kind>>
  batch,     \* evlist: fetched events that are not handled yet
  locked,    \* the loop thread holds the lock (between kevent calls)
  issued,    \* the requests that were ever added
  calls      \* calls[r]: the callbacks dispatched for r, oldest first

setup == <<platform, disciplined>>
vars == <<setup, open, queued, interest, batch, locked, issued, calls>>

Whats   == {"Read", "Write"}
Filters == {"None", "Error", "Read", "Write", "Timer"}
Kinds   == Whats \cup {"Timer", "Spent"}

(* QueuedSocket: the part of it the loop uses.                             *)
QueuedSocket == [req : Requests, what : Whats, timed : BOOLEAN]

ASSUME NoRequestAssumption == NoRequest \notin QueuedSocket

(* A dispatched callback, with the request it answers.                     *)
Call == [what : Whats, timed : BOOLEAN, got : Filters]

IsQueued(f) == queued[f] # NoRequest

Init ==
  /\ platform \in Platforms /\ disciplined \in Disciplines
  /\ open = [f \in Fds |-> TRUE]
  /\ queued = [f \in Fds |-> NoRequest]
  /\ interest = {}
  /\ batch = {}
  /\ locked = FALSE
  /\ issued = {}
  /\ calls = [r \in Requests |-> <<>>]

-----------------------------------------------------------------------------
(* The kernel's side.                                                      *)

Watched(f) == {k \in Kinds : <<f, k>> \in interest}

(* Mutation: the timer is never set.                                       *)
KernelAddNoTimer(f, what, timed) ==
  IF platform = "epoll"
  THEN IF open[f] /\ Watched(f) = {} THEN {<<f, what>>} ELSE {}
  ELSE IF open[f] THEN {<<f, what>>} ELSE {}

(* Mutation: a timed request gets its timer and no filter.                 *)
KernelAddEither(f, what, timed) ==
  IF platform = "epoll"
  THEN IF open[f] /\ Watched(f) = {} THEN {<<f, what>>} ELSE {}
  ELSE IF timed THEN {<<f, "Timer">>} ELSE IF open[f] THEN {<<f, what>>} ELSE {}

(* epoll_ctl(ADD) of a one-shot registration, or kevent(EV_ADD) of a timer *)
(* and a filter.  Errors are ignored by the code: EEXIST, and EBADF for a  *)
(* descriptor that is closed, which does not concern a timer.              *)
KernelAdd(f, what, timed) ==
  IF platform = "epoll"
  THEN IF open[f] /\ Watched(f) = {} THEN {<<f, what>>} ELSE {}
  ELSE   (IF timed THEN {<<f, "Timer">>} ELSE {})
    \cup (IF open[f] THEN {<<f, what>>} ELSE {})

(* Mutation: both directions are reported as .Read.                        *)
ReportsRead(what) ==
  IF platform = "epoll" THEN {"Read", "Error", "None"} ELSE {what}

(* What the kernel can report of an interest: epoll a mask, of which the   *)
(* loop makes one filter (EPOLLERR before EPOLLIN before EPOLLOUT, and     *)
(* None for a bare EPOLLHUP); kqueue the filter itself (an error or an EOF *)
(* comes as a flag, which the loop does not look at).                      *)
Reports(what) ==
  IF platform = "epoll" THEN {what, "Error", "None"} ELSE {what}

Reportable ==
  UNION {{<<i[1], got>> : got \in Reports(i[2])} :
           i \in {j \in interest : j[2] # "Spent"}}

(* The kinds an event uses up, being one-shot.                             *)
UsedBy(e) ==
  IF platform = "epoll"
  THEN {<<e[1], what>> : what \in Whats}
  ELSE {e}

-----------------------------------------------------------------------------
(* Callers are asked to keep one request per socket ("socket can only be   *)
(* queued with one callback at a time"): the next add comes after the      *)
(* callback of the last one, and a socket with a request is not closed.    *)
(* Nothing enforces it.  Callers that are not disciplined also replace a   *)
(* request by a second one, close a socket that has one, add a number that *)
(* another thread has closed, and call remove (nobody in PerfectLib does). *)
MayAdd(f) == disciplined => open[f] /\ ~IsQueued(f)

MayClose(f) == disciplined => ~IsQueued(f)

(* NetEvent.add.                                                           *)
Add(f, r, what, timed) ==
  /\ ~locked
  /\ r \notin issued
  /\ MayAdd(f)
  /\ issued' = issued \cup {r}
  /\ queued' = [queued EXCEPT ![f] = [req |-> r, what |-> what, timed |-> timed]]
  /\ interest' = interest \cup KernelAdd(f, what, timed)
  /\ UNCHANGED <<setup, open, batch, locked, calls>>

(* NetEvent.remove.                                                        *)
Remove(f) ==
  /\ ~locked
  /\ ~disciplined
  /\ IsQueued(f)
  /\ queued' = [queued EXCEPT ![f] = NoRequest]
  /\ interest' =
       IF platform = "epoll"
       THEN interest \ ({f} \X Kinds)
       ELSE interest \ ({<<f, queued[f].what>>} \cup
                        (IF queued[f].timed THEN {<<f, "Timer">>} ELSE {}))
  /\ UNCHANGED <<setup, open, batch, locked, issued, calls>>

(* The owner closes the socket (NetTCP.close does not tell the loop); the  *)
(* kernel forgets what it watches of it, except for a timer.               *)
Close(f) ==
  /\ open[f]
  /\ MayClose(f)
  /\ open' = [open EXCEPT ![f] = FALSE]
  /\ interest' = {i \in interest : i[1] # f \/ (platform = "kqueue" /\ i[2] = "Timer")}
  /\ UNCHANGED <<setup, queued, batch, locked, issued, calls>>

(* socket or accept returns the number again, for another connection.      *)
Reopen(f) ==
  /\ ~open[f]
  /\ open' = [open EXCEPT ![f] = TRUE]
  /\ UNCHANGED <<setup, queued, interest, batch, locked, issued, calls>>

-----------------------------------------------------------------------------
(* The loop thread.                                                        *)

(* epoll_wait or kevent returns with some of the ready events, at most     *)
(* numEvents of them; the lock is not held.                                *)
Fetch(events) ==
  /\ ~locked /\ batch = {}
  /\ events # {} /\ Cardinality(events) <= MaxBatch
  /\ events \subseteq Reportable
  /\ platform = "epoll" => \A d, e \in events : d[1] = e[1] => d = e
  /\ batch' = events
  /\ interest' =
       (interest \ UNION {UsedBy(e) : e \in events}) \cup
       (IF platform = "epoll" THEN {<<e[1], "Spent">> : e \in events} ELSE {})
  /\ UNCHANGED <<setup, open, queued, locked, issued, calls>>

(* Mutation: the lock is taken before there is an event.                   *)
LockAlways ==
  /\ ~locked
  /\ locked' = TRUE
  /\ UNCHANGED <<setup, open, queued, interest, batch, issued, calls>>

(* lock.doWithLock around the for loop over the events.                    *)
LockForEvents ==
  /\ ~locked /\ batch # {}
  /\ locked' = TRUE
  /\ UNCHANGED <<setup, open, queued, interest, batch, issued, calls>>

(* Mutation: the entry stays in the table.                                 *)
HandleAndKeep(e) ==
  LET f == e[1]  got == e[2]  item == queued[f] IN
  /\ locked /\ e \in batch
  /\ batch' = batch \ {e}
  /\ locked' = (batch' # {})
  /\ IF IsQueued(f)
     THEN calls' = [calls EXCEPT ![item.req] =
                Append(@, [what |-> item.what, timed |-> item.timed, got |-> got])]
     ELSE UNCHANGED calls
  /\ UNCHANGED <<setup, open, queued, interest, issued>>

(* Mutation: the timer of an answered request is left armed.               *)
HandleLeaveTimer(e) ==
  LET f == e[1]  got == e[2]  item == queued[f] IN
  /\ locked /\ e \in batch
  /\ batch' = batch \ {e}
  /\ locked' = (batch' # {})
  /\ IF IsQueued(f)
     THEN /\ queued' = [queued EXCEPT ![f] = NoRequest]
                  /\ calls' = [calls EXCEPT ![item.req] =
                Append(@, [what |-> item.what, timed |-> item.timed, got |-> got])]
     ELSE UNCHANGED <<queued, calls>>
  /\ UNCHANGED <<setup, open, interest, issued>>

(* Mutation: only the event that was asked for reaches the callback.       *)
HandleDropOthers(e) ==
  LET f == e[1]  got == e[2]  item == queued[f] IN
  /\ locked /\ e \in batch
  /\ batch' = batch \ {e}
  /\ locked' = (batch' # {})
  /\ IF IsQueued(f)
     THEN /\ queued' = [queued EXCEPT ![f] = NoRequest]
                  /\ interest' = {i \in interest : i[1] # f}
          /\ calls' = IF got # item.what THEN calls
                      ELSE [calls EXCEPT ![item.req] =
                Append(@, [what |-> item.what, timed |-> item.timed, got |-> got])]
     ELSE UNCHANGED <<queued, interest, calls>>
  /\ UNCHANGED <<setup, open, issued>>

(* One turn of the for loop.  A found entry is removed, the registration   *)
(* (epoll) or the other half of a timed one (kqueue) is deleted from the   *)
(* kernel, and the callback is dispatched; an event without an entry is    *)
(* ignored.  After the last event the lock is released.                    *)
Handle(e) ==
  LET f == e[1]  got == e[2]  item == queued[f] IN
  /\ locked /\ e \in batch
  /\ batch' = batch \ {e}
  /\ locked' = (batch' # {})
  /\ IF IsQueued(f)
     THEN /\ queued' = [queued EXCEPT ![f] = NoRequest]
                  /\ interest' =
               IF platform = "epoll"
               THEN interest \ ({f} \X Kinds)
               ELSE IF item.timed
                    THEN interest \ {<<f, IF got = "Timer" THEN item.what ELSE "Timer">>}
                    ELSE interest
          /\ calls' = [calls EXCEPT ![item.req] =
                Append(@, [what |-> item.what, timed |-> item.timed, got |-> got])]
     ELSE UNCHANGED <<queued, interest, calls>>
  /\ UNCHANGED <<setup, open, issued>>

Next ==
  \/ \E f \in Fds, r \in Requests, what \in Whats, timed \in BOOLEAN :
       Add(f, r, what, timed)
  \/ \E f \in Fds : Remove(f) \/ Close(f) \/ Reopen(f)
  \/ \E events \in SUBSET Reportable : Fetch(events)
  \/ LockForEvents
  \/ \E e \in batch : Handle(e)

(* A timer that expires is among the events of some later kevent call (the *)
(* loop comes back to it again and again, and the kernel does not pass one *)
(* descriptor over for ever); the loop thread gets the lock and finishes   *)
(* its batch.  Nothing says that a peer ever sends: no fairness for the    *)
(* other events.                                                           *)
FetchTimer(f) == \E events \in SUBSET Reportable : <<f, "Timer">> \in events /\ Fetch(events)

Fairness ==
  /\ \A f \in Fds : SF_vars(FetchTimer(f))
  /\ WF_vars(LockForEvents)
  /\ WF_vars(\E e \in batch : Handle(e))

SafeSpec == Init /\ [][Next]_vars
Spec == SafeSpec /\ Fairness

-----------------------------------------------------------------------------
(* The types of the variables.                                             *)
TypeOK ==
  /\ platform \in {"epoll", "kqueue"}
  /\ disciplined \in BOOLEAN
  /\ open \in [Fds -> BOOLEAN]
  /\ queued \in [Fds -> QueuedSocket \cup {NoRequest}]
  /\ interest \subseteq Fds \X Kinds
  /\ batch \subseteq Fds \X Filters
  /\ locked \in BOOLEAN
  /\ locked => batch # {}
  /\ issued \subseteq Requests
  /\ calls \in [Requests -> Seq(Call)]

(* A callback is dispatched at most once, whatever is reported twice,      *)
(* reported late or reported about another socket of the same number.      *)
CalledAtMostOnce ==
  /\ \A r \in Requests : Len(calls[r]) <= 1
  /\ \A f \in Fds : IsQueued(f) =>
       queued[f].req \in issued /\ calls[queued[f].req] = <<>>
  /\ \A f, g \in Fds : IsQueued(f) /\ IsQueued(g) /\ queued[f].req = queued[g].req => f = g

(* A request that asked for no timeout is never told that it timed out,    *)
(* although timers are keyed by a reusable number (with callers that keep  *)
(* to the rules, as in the next two).                                      *)
TimerOnlyIfAsked ==
  disciplined =>
    \A r \in Requests : \A i \in 1..Len(calls[r]) :
      calls[r][i].got = "Timer" => calls[r][i].timed

(* A request to read is not answered with writability nor the reverse.     *)
RightDirection ==
  disciplined =>
    \A r \in Requests : \A i \in 1..Len(calls[r]) :
      calls[r][i].got \in Whats => calls[r][i].got = calls[r][i].what

(* A queued request is not forgotten by the kernel: what it waits for is   *)
(* armed, or already fetched for the loop to handle.                       *)
QueuedIsWatched ==
  disciplined =>
    \A f \in Fds : IsQueued(f) =>
      \/ <<f, queued[f].what>> \in interest
      \/ \E e \in batch : e[1] = f

(* The kernel keeps nothing of a request that was answered: a descriptor   *)
(* without an entry in queuedSockets has no registration or knote left     *)
(* that would make the next add fail or answer it by mistake.  On epoll    *)
(* this needs no discipline: close drops the registration.                 *)
NothingLeftBehind ==
  disciplined \/ platform = "epoll" =>
    \A f \in Fds : Watched(f) # {} => IsQueued(f)

(* A one-shot registration that fired blocks the next ADD on its number    *)
(* (EEXIST) only while its event is still to be handled.                   *)
SpentIsBeingHandled ==
  \A f \in Fds : <<f, "Spent">> \in interest => IsQueued(f) /\ \E e \in batch : e[1] = f

TimedRequest(r) == \E f \in Fds : IsQueued(f) /\ queued[f].req = r /\ queued[f].timed

(* On kqueue a request with a timeout is answered, whether or not the peer *)
(* sends.  On epoll add sets no timer, and a silent peer is waited for.    *)
TimedIsCalled ==
  \A r \in Requests :
    disciplined /\ platform = "kqueue" /\ TimedRequest(r) ~> calls[r] # <<>>

=============================================================================
