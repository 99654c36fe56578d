# PerfectLib in TLA+

This directory is a verification project for PerfectLib (`src/Sources/PerfectLib`), the
server toolkit of Perfect: its thread queues, its socket event loop, the asynchronous socket
operations on top of them and the servers and clients built from those.  TLC checks the modules
on small instances; TLAPS proves the central invariants for every value of the constants.

    tlc -config MCNetEvent.cfg MCNetEvent     # module and .cfg of the same name, but for
    tlc -config MCNetTCPReport.cfg MCNetTCP   # four that check the module without the suffix
    tlapm NetTCPProofs.tla                    # any *Proofs module

File names below are in `src/Sources/PerfectLib/` unless a path is given.

## 1. The system

| Part | State it keeps | Operations | What makes it correct |
|---|---|---|---|
| Threading primitives (`Threading.swift`, `LinuxBridge.c`) | recursive mutex, condition variable, rwlock, once | lock, wait (timed), signal, broadcast | a wait ends after a signal or its timeout |
| Thread queues (`ThreadQueue.swift`) | array of closures, worker threads, registry of queues by name | dispatch, the worker loop, getQueue | no closure lost, run twice or left behind a sleeping worker; FIFO |
| NetEvent (`NetEvent.swift`) | table of one request per descriptor; the kernel's epoll or kqueue | add, remove, the loop thread | a request is answered once, by its own event |
| NetTCP (`NetTCP.swift`) | descriptor, `semaphore`, `networkFailure` | readBytesFully, readSomeBytes, write, writeFully, connect, accept, forEachAccept, close | exact byte counts; every callback is called; stop stops |
| NetTCPSSL (`NetTCPSSL.swift`) | SSL session | the same, over SSL_read, SSL_write, SSL_accept | as NetTCP |
| NetNamedPipe (`NetNamedPipe.swift`) | as NetTCP | connect, sendFd, receiveFd | the descriptor that was given is sent |
| HTTPServer (`HTTPServer.swift`) | listening socket, one HTTPWebConnection per request | start, stop; request line, header and body scanner; keep-alive | every request gets one response; stop ends start |
| WebRequest, WebResponse | headers, body, status | pushing headers and body, chunking, completion | headers before body, respond completes once |
| FastCGI (`FastCGI.swift`, `FastCGIServer.swift`) | record reader, request states | records, params, stdin, end request | records split and joined exactly |
| WebSockets (`WebSocketHandler.swift`) | frame buffer, continuation flag | readFrame, sendMessage, ping and pong, close | frames reassembled exactly |
| MimeReader | scanner state, partial boundary | addToBuffer | the result does not depend on how input is cut |
| HTTP2Client (`HTTP2.swift`) | frame queue, read thread, stream counter | connect, sendRequest, read thread, dequeue | each response reaches its request |
| NotificationPusher | pool of HTTP/2 streams | push, getStream, release | one response per device, in order |
| HPACK (`HPACK.swift`) | dynamic table as a ring | encode, decode, capacity changes | decoder follows encoder |
| cURL, SysProcess | multi handle; pid and pipes | perform; wait, kill, close | completion called once; child reaped once |
| Routing, Mustache, JSON, Bytes, Utilities, File, Dir, ... | none between calls | pure functions, single system calls | results |

**How they interact.**  A request to the kernel starts in any thread.  `NetTCP` tries its system call
first and, when it would block, calls `NetEvent.add` with a callback.  The NetEvent thread waits
in epoll or kqueue, removes the entry of each event from its table under its lock, and hands the
callback to `Threading.dispatch`, that is to the default `ConcurrentQueue`; one of its
`max(4, processorCount)` workers runs it.  Everything above is written in continuation style over
these callbacks, with three exceptions that block a thread on an `Event` until such a callback
signals it: `forEachAccept` (the thread in `HTTPServer.start`), `writeFully` (called from closures
of the same default queue) and `HTTP2Client`'s read thread and waiters.

**What is hard.**  The thread queues: single signals, spurious wakeups, workers that come back from a
closure and barge in.  NetEvent: one-shot registrations keyed by descriptor *numbers*, which the
process reuses; two different kernels; events fetched without the lock.  NetTCP: the world moves
between the failed attempt and the registration; partial reads and writes; blocking waits on workers of
the very queue that has to wake them; close from another thread, without a lock.  `PROJECT.json`
lists the hazards, each at its line.

## 2. Modules

| Module | Models | Extends |
|---|---|---|
| `TaskQueue` | abstract: a FIFO of tasks that a fixed number of slots serve, work conserving | |
| `ThreadQueue` | `ThreadQueue.swift` over `Threading.Event` | (instantiates TaskQueue) |
| `NetEvent` | `NetEvent.swift`, with the epoll and kqueue it is written for | |
| `NetTCP` | readBytesFully and write on a connected socket | NetEvent |
| `WriteFully` | writeFully called from closures of the default queue | ThreadQueue |
| `NetAccept` | forEachAccept and close, under HTTPServer.start and stop | |
| `HTTPConnection` | one client connection of HTTPServer with WebResponse and a file handler | |
| `Totals` | the sum of a sequence of numbers, and sequences put together, as recursive functions | |
| `HeaderTable` | abstract: a first-in first-out table with a limit on its size | Totals |
| `DynamicTable` | the decoder's table, a ring; `TableSpec` is the table in the hands of any caller | Totals (instantiates HeaderTable) |
| `Huffman` | the Huffman code of HPACK, both directions | |
| `HPACK` | encoder and decoder and the bytes between them | DynamicTable, Huffman |
| `HTTP2Client` | requests that share a connection, its read thread, the default queue they run on | |
| `NotificationPusher` | the pool of connections, or requests that share one | HTTP2Client |
| `MimeReader` | the scanner of multipart bodies | |
| `FastCGI` | a FastCGIRequest that reads its records; putStdinData, which the HTTP connection has too | MimeReader |
| `WebSocket` | frames read and sent by a WebSocket handler | Totals |
| `StreamReaders` | one connection whose body or frames are cut anywhere | FastCGI, WebSocket |
| `WriteFullyProofs` | theorems about ThreadQueue and WriteFully | WriteFully |
| `NetTCPProofs` | theorems about NetEvent and NetTCP | NetTCP |
| `NetAcceptProofs`, `NotificationPusherProofs`, `HTTPConnectionProofs`, `DynamicTableProofs`, `StreamReadersProofs` | theorems | the module they name |
| `DataLemmas` | lemmas about least numbers, sums, parts of sequences and sequences put together | Totals |
| `MC...` | model values and small sets for TLC | the module they name |

### ThreadQueue

| TLA+ | Code |
|---|---|
| `q` | `self.q`, the closures (lines 36, 78) |
| `pc[w]` | where worker `w` is in startLoop's `while` |
| `block[w]` | the local variable `block` |
| `ended` | history: the closures that returned |
| `Dispatch`, `Signal` | `dispatch`: lock, append, signal, unlock |
| `Take`, `Park` | the locked part of the loop, for a non-empty and an empty queue |
| `WaitReturns` | `wait()` has the lock back; `block` is nil, so the turn ends |
| `Finish` | `b()` returns |

`SerialQueue` and `ConcurrentQueue` have the same loop, so one module with the set `Workers` stands
for both.  The critical sections are one action each, which is sound because all shared state
is touched under the queue's lock; `wait()` splits the section where pthread does.

### NetEvent

`queued` is `queuedSockets`; `batch` is `evlist` between the kernel call and the end of the
`for` loop; `locked` is the loop thread's hold of the lock across several events.  `interest` is the
kernel's side: for epoll at most one registration of a number, which stays as `"Spent"` after it fired
(EPOLLONESHOT) until it is deleted; for kqueue a knote per filter, plus a timer knote whose identifier
is just a number, so `close` leaves it.  `open` says whether a number is a socket; `Close` and
`Reopen` model reuse of numbers.

`platform` and `disciplined` are chosen once, at the start.  A *disciplined* caller keeps the rule of the
comment at line 224, "socket can only be queued with one callback at a time", and does not close a
socket that waits.  Nothing in the code enforces it, so the other kind of caller is checked too: `CalledAtMostOnce`,
`SpentIsBeingHandled` and, on epoll, `NothingLeftBehind` need no discipline.

### NetTCP

`rd` and `wr` are one readBytesFully and one write, each at a step of its function (`try`: about to
call recv or send; `add`: it said EAGAIN; `wait`: registered).  `arrived`, `taken`, `sent`, `drained` count
bytes on the wire: payloads are data, only their number matters to the properties.  The fetches of
NetEvent are restricted to what the state of the connection justifies (`Justified`), which is where the race between
the failed attempt and the registration becomes visible.  kqueue reports a broken connection as its filter
with a flag, epoll as EPOLLERR.  Left out is the `[weak self]` of a read's continuation (277): when nobody else holds the connection by the time
its event comes, the rest of the read and its callback are dropped.

### WriteFully

A writer is a closure of the queue that is running (`block[w] = t`) and at a step of writeFully.  A
registration with NetEvent is abstracted to `reg[t]`, the round it belongs to; the answer is a closure
`<<t, round>>` that has to get through the same queue.  That writers occupy workers while they sleep, and
that a wakeup may run late, after the round it belonged to, follows from the composition.

### NetAccept

Steps of forEachAccept and of `close` are separate actions wherever another thread can come between: the code
holds no lock over `fd`, `semaphore` and `networkFailure`.  `stop` and `start` are the two threads that
can close.  A nil `semaphore` that is unwrapped sets `trapped`, after which nothing happens.

### HTTPConnection

| TLA+ | Code |
|---|---|
| `conn` | the HTTPWebConnection of the current request: workingBuffer, its offset, lastHeaderKey, the parameters |
| `pc` | where the chain of callbacks is: `readHeaders` and `readSome` try to read, `waitHeaders` and `waitBody` wait in readBytesFully(count: 1), `scan` is scanWorkingBuffer |
| `need` | the argument of readBody |
| `response` | the WebResponse: what it announced, how much of the body the handler still has |
| `pending`, `next`, `ok` | the writes of the current call, and the completion they end in |
| `response.inFile`, `readable` | how many of the bytes that sendFile announced the file still gives; whether a read behind these gives nothing or fails |
| `outs[k]` | history: what the k-th HTTPWebConnection wrote |
| `cut` | history: the requests whose file gives fewer bytes than were announced, and how many |

Bytes are tokens: CR, LF and a leading blank, which the scanner tests, and whole pieces of text, which it does not.  The network
cuts the stream between any two of them, so also between CR and LF.  Handlers come in three styles that cover the ways a response can be
built: the body appended whole, pushed in pieces with a Content-Length (StaticFileHandler), and chunked.  Only the first two occur in the
library; the third is what pushChunked offers to page handlers.

sendFile announces a length before it reads.  A range that goes beyond the end of the file is not compared with it, the file may be cut
meanwhile, and a read may fail (a directory, for instance), in the first piece or a later one; each of these is a file that gives fewer bytes than were announced
(`StartFile`).  sendFile stops when the read that asked for all that remained has been pushed, whatever it gave (`lastRead`), and completes when a read fails
(`SendFileFails`).  A reversed range asks for an array of negative size and stops the process; the answer to HEAD is one
without a body, whatever length it names.
`Meaning` in the property section is a request read as a whole; the scanner is compared with it.
The client does not pipeline.

### HPACK

`wire` are real bytes: `encodeInteger`, the string literals and the Huffman code are translated as they are, so an index
that does not fit its prefix, a string that is shorter in Huffman form, and a header cut anywhere by the network are what
they are in the code.  `dec.state` has the names of HPACKDecoder.State and each turn of decode's loop is one action;
a turn that only finds too few bytes is no step.  `enc` is the encoder's linked list, newest first; its hash buckets
only make the search faster and are left out.  The code table is data of 257 entries, the static table a constant
(61 fields in the code, 14 in the instance).  `StringPrefix` and `IndexPrefix` are 7 in the code; smaller values
make short texts take the long forms.  `Between` forgets what the decoder sets again before it reads it.

The encoder and the decoder share nothing but the bytes, so encoding the next header only after the last
was decoded loses no behaviour.  `use` says once how the application uses the two.  `"careful"` lets the encoder index, sends
only symbols with short codes and leaves room below maxHeaderSize; each of the other four does one thing more, which the
library allows and which breaks the correspondence of the two ends.  The table itself must be sound under all five
(`RingIsSound`, `TableIsFIFO`).

### HTTP2Client and NotificationPusher

| TLA+ | Code |
|---|---|
| `frameQueue`, `frameReadOK`, `streamCounter` | the fields of those names |
| `reader[c]` | where the read thread is: `top` of its loop, `waiting`, at its last `test` of frameReadOK, `ended` |
| `pc[r]`, `client[r]`, `stream[r]` | where sendRequest is (from `connect` to `answered`; `sending` between the two pieces of a frame), its HTTP2Client, its streamId |
| `onWorker[r]` | sendRequest runs in connect's callback, so it blocks a worker of the default queue |
| `pending` | closures of the default queue that no worker has yet |
| `net[c]`, `watched[c]` | the client's socket; whether a read of it waits in NetEvent |
| `wire[c]`, `peer[c]` | the frames on their way, and the server's end |
| `told[r]` | what the callback was given |
| `streams`, `activeStreams` | the pool of a NotificationConfiguration |
| `reply`, `got` | history: what the server sent for `r`, what went into its response |
| `cut[r]` | history: what `r`'s response misses of a frame that it was given: the `payload`, or the `block` of headers that could not be decoded |
| `misread` | history: the requests that the server does not read as they were meant |

`frameReadEvent`'s lock guards `frameQueue` and `frameReadOK`, so a locked section is one action, cut where it
waits.  `broadcast` moves the read thread and every waiting request at once.  The default queue is modelled as
what `TaskQueue` promises (`ThreadQueue` is shown to keep it): closures start in order while fewer than `NWorkers` are held.
NetEvent is modelled as what it promises a disciplined caller; `close` does not tell it, and whether its thread had already been
given the event decides between `"lost"` and one more callback.  A frame is a record without its text: type, stream number as
`bytesToHeader` reads it (`IdRead`), END_STREAM, whether its payload came, and whether its header block stands alone.

A frame is written in two pieces, its header and its payload, by two calls of `writeFully` with no lock over both (631-636).  `SendRequest` writes the
first piece, `SendPayload` the rest; in between, the thread that reads may acknowledge a SETTINGS (296), and the server then takes the
acknowledgement for the payload (`misread`).  Between the pieces of DATA the same can happen, so the two frames share the state `sending`.
The acknowledgement of our own SETTINGS is a frame that only has the next one read.  PING is treated like SETTINGS, but only the unkind server sends one: its
acknowledgement is itself in two pieces, and that second cut is left out.

Headers keep state on both sides.  `sendRequest` sends `:path` "not to be indexed", and the encoder indexes it in its own table all the same (`HPACK.swift:842`), so from the
second request of a connection on a block may refer to an entry that the server does not have; whatever follows on the connection is misread as well.  In the other direction `decodeHeaders`
makes a new decoder for each block (660): a block that refers to an entry of an earlier one is not decoded, and the client closes the connection but goes on with
the response (`cut` = `"block"`).  Which blocks this happens to is a matter of their texts; here it is a choice, in the trouble `"headers"`.

`use` is `"pool"` (pushes that take, open and give back connections) or `"shared"` (several threads ask one connected
client).  `trouble` is the one thing that goes wrong, at the client `troubled`: the server leaves, stray frames come, waits wake up
for nothing, the server is slow, the header tables differ, or the client is old, that is its stream numbers have grown past a byte.  A server that misread a request may
answer it or not, send strays, or leave.  `Kind` is a server without trouble, or with nothing but `"headers"`.

### MimeReader, FastCGI, WebSocket, StreamReaders

`MimeReader`'s `rest` is `byts[position..<end]` of the running call of `addToBuffer`, `buffer` what it kept, and each turn of its
loop is one action; the call has returned when `rest` is empty.  `FastCGI`'s `step` is what readRecord, readXStdin or readBody
reads next, `size` the argument of the last two, `params` the content type the request has learnt, `stdin` and `bodySpecs` what the
handler will see.  Line ends, dashes and the bytes of a boundary are single tokens; the text of a header line is one.  `WebSocket`'s
`readBuffer` holds the bytes of frames, where a byte is a token for what it says; `reading` is where readFrame is
(`look` in the buffer, `fill` it, `pong` being written).

`StreamReaders` sets the three side by side, since they share what makes them hard: each is given a stream in pieces it did not choose and
has to keep what it cannot decide.  A behaviour is one connection of one kind.  What the client sends is built from a form, a body
or a list of frames, so that the properties compare what comes out with what went in.

## 3. Runs

| Run | Instance | Shows |
|---|---|---|
| `MCNetEvent` | 2 numbers, 2 requests, batches of 2, both kernels, both kinds of caller | a request is answered at most once, by its own kind of event; nothing of it stays in the kernel; timed requests are answered on kqueue |
| `MCNetTCP` | 2 bytes read, 2 written, buffer of 1, both kernels | exact counts, every operation calls back |
| `MCNetTCPReport` | the same | **violation**: a write that breaks after a short send reports -1 and not what it sent |
| `MCWriteFully` | 3 workers; 6 closures: 2 writers and the wakeups of 2 rounds each | no closure waits behind a sleeping worker, none runs twice, all run; the queue implements TaskQueue with its liveness; a sleeping writer is watched; true means sent; both return |
| `MCWriteFullyFull` | 2 workers, 2 writers | **violation**: all workers sleep, the wakeups wait behind them |
| `MCNetAccept` | 2 connections, 2 callbacks at once, errors, stop | no unwatched sleep, every connection accepted |
| `MCNetAcceptStop` | the same without accept errors | **violation**: stop's signal is lost |
| `MCHTTPConnection` | 9 scripts of one or two requests, reads of 3, chunks of 2, bodies up to 4, files that give any part of what was announced | a request means to the handler what it means as a whole; responses are framed, and complete but for what a file does not give; well-formed requests are answered |
| `MCHPACK` | 8 fields, a table for two of them, sizes 0, 34, 70, 90 and 100, five uses | the ring implements HeaderTable; careful headers arrive as given; the encoder's table is a prefix of the decoder's |
| `MCHPACKCodes` | the same | **violation**: a symbol with a code of ten bits is not decoded |
| `MCNotificationPusher` | 2 clients, 2 requests, 5 workers, first stream 1 or 255, both platforms, pool and shared use, seven worlds | a response has its own frames only and all of them; a connection is in one hand; kind servers' answers arrive, but for what the code of frames and headers spoils; every request is told something where timed waits end; an ended connection gives its worker back |
| `MCStreamReaders` | 93 multipart forms, 2 plain bodies, over records or reads; 4 WebSocket conversations, 3 sends | parts and frames come out as they were sent; fragments can be put together; every reader ends |

**Bounds.**  The queue is checked with the clients that use it hardest, closures that block their workers and
closures that wake these.  Three workers and six closures contain every case the queue distinguishes: a worker parked,
one signalled, one barging in, and more closures than awake workers; two of each would lose the third
party that takes what was signalled for another.  Two descriptor numbers suffice because all tables are keyed by
one number and an event concerns one entry; two requests give replacement and reuse; a batch of two
lets one event be handled after another has changed the table.  Two bytes with a buffer of one force a short
write, a wait and a second one.  `MaxArrived` lets the peer send one byte more than was asked for, which must stay
unread.  `MaxRounds` = 2 lets a late callback of round one meet round two.  `ReadSize` = 3 is shorter than every request, so
headers span reads and a read takes part of the body with the headers; two requests on one connection show what the first leaves behind; a body
of three or four with chunks of two needs two pushes, the second of them short or full, and a file may end or fail inside of a piece, between two, or, having given nothing,
leave sendFile more than one piece to wait for.  In `MCHPACK` no operation is counted: all that two tables of two or three
entries, a ring of up to four slots and a block of ten bytes can reach is explored, which includes every wrap of
the ring.  The fields were chosen for their sizes and codes: fields that together just fit, a field of more than half the table
(which makes the encoder forget more than the decoder), one without a value, names found in the static table, in the dynamic table and nowhere.

In `MCNotificationPusher` every trouble meets both uses of a client, a timed wait that works and one that does not (an old client is always shared).  The second client is new where servers may leave; elsewhere both pushes meet on the first.
Two requests meet on one client or compete for the pool.  Five workers are what two pushes over new connections need: each
holds one for its read thread and one for its blocked callback, and one is left to read frames.  With four,
which is what `max(4, processorCount)` gives on small machines, both stall, and `ResponseComes` fails.  `IdBase` is 256 as in the code, and a
client whose counter starts at 255 has streams 255 and 257, on both sides of the byte.  `MaxFrames` = 2 gives a response in
one frame and one of HEADERS and DATA; `MaxOthers` = 1 a frame that answers nothing at any moment; `MaxWire` = 1 lets the server run
at most one frame ahead of the client, while `frameQueue` is not bounded otherwise.  In `MCStreamReaders` the boundary has three tokens,
and the data of a part is every sequence of up to three bytes of a delimiter and a few longer near misses; the network cuts
anywhere, so every prefix of a delimiter ends a piece in some behaviour.  `SmallPayload` = 3 and `Max16` = 4 (126 and 65535 in the
code) bring all three forms of a length into payloads of up to five bytes; three sends allow a message of two
fragments with another beside it.

**Fairness.**  Worker threads, the loop thread and the accepting thread are scheduled (weak fairness of their next
step).  Where a thread competes for a mutex, strong fairness says that it is not
passed over for ever: neither pthread promises that, but without it no program with a mutex is live.  The kernel
reports a socket that stays ready, and a timer that expired (the loop calls it again and again).
Clients, peers, spurious wakeups and stop are never relied on, except in `MCNetTCP`'s liveness,
where a peer that keeps sending and reading is assumed because a read without a timeout has no other end.
An HTTP client, once it has begun a request, sends the rest of it or goes away (that is the first fairness condition of
`HTTPConnection`); strong fairness of `CompleteChunks` says that a handler that may push another chunk or end does end.  Nothing of the kind is assumed of sendFile, which pushes nothing for ever
when the file has ended more than `chunkedBufferSize` before what was announced: `RequestAnswered` asks for what the file gives, and that has been sent by then.
`NotificationPusher` and `StreamReaders` each have one weak fairness condition, for all steps of the program together (`Moves`, `Reading`): their
requests, frames and bytes are finite and none of these steps repeats for ever, so that fairness of all is fairness of each.  What the world may do and need not
(strays, servers that leave, clients that leave, spurious wakeups) is outside it.  `Moves` includes the answers of a server of a
client without trouble to the requests it can read, and the end of a timed wait on the platform where it works; a wait may end in time unless a kind server owes the answer (`InTime`).
`Reading` covers the bytes and records of the peer and the end of its stream as well, so a peer that stops without closing, where no timeout works, is outside of `EverySessionEnds`, and so is
the spinning of `readXStdin` (section 5).
Deadlock checking is off where the system may really stop: after both operations of
`MCNetTCP` have ended, after stop in `NetAccept`, after a connection is closed in `HTTPConnection`, when all requests have been
answered in `NotificationPusher`, and when a connection of `StreamReaders` is at its end.

## 4. Proofs

| Theorem | Says |
|---|---|
| `WriteFullyProofs!Typing`, `NetTCPProofs!Typing` | the type invariants of the queue and of the event loop |
| `NoClosureWaitsBehindSleeper` | `NoClosureBehindSleeper`, for any finite set of workers |
| `ClosuresRunOnce` | `RunsOnce` |
| `ImplementsTaskQueue` | every step of the queue is a step of TaskQueue or a stutter |
| `CallbacksAtMostOnce` | `CalledAtMostOnce`, both kernels, any callers |
| `KernelFollowsTable` | `NothingLeftBehind` |
| `SpentOnlyWhileHandled` | `SpentIsBeingHandled` |
| `AnswersFitRequests`, `TimersOnlyIfAsked` | `RightDirection`, `TimerOnlyIfAsked` |
| `QueuedStaysWatched` | `QueuedIsWatched` |
| `ConnectionUsesEventLoop` | every behaviour of `NetTCP` is one of `NetEvent`, whose theorems then hold of it |
| `ReadsExactly`, `WritesExactly` | `ReadIsExact`, `WriteIsExact`, for any counts and any cutting of the streams |
| `WaitersRegistered` | `WaiterIsRegistered` |
| `WritersUseQueue` | every behaviour of `WriteFully` is one of `ThreadQueue` |
| `TrueIsSent` | `TrueMeansSent`, for any number of workers, writers and rounds |
| `SleepersAreWatched` | `SleepingWriterIsWatched` |
| `AcceptorSleepsWatched` | `SleeperIsWatched`, for any number of clients and callbacks |
| `PoolGivesOutOnce` | `PoolIsExclusive`, for any number of pushes, clients and workers |
| `ResponsesAreWhole` | `ResponseIsWhole` (which excepts frames without their payload and header blocks that are not decoded) as long as no stream's number has been read as that of another request of its connection |
| `OneByteResponsesAreWhole` | `ResponseIsWhole` as long as all stream numbers have been below 256 (`IdBase`), which is the case in practice |
| `ResponsesAreFramed`, `ResponsesAreEnded` | `ResponseIsFramed`, `NoShortResponse`, for any requests, sizes, handlers and files |
| `RequestsAsSent` | `RequestAsSent`, for any requests and however the network cuts them |
| `RingsAreSound` | `RingIsSound`, for any capacities, fields and callers |
| `TablesAreFIFO` | `TableIsFIFO`: every step of the ring is one of `HeaderTable` or a stutter |
| `MessagesSentAsAsked` | `MessagesAsAsked`, for any conversation and however it arrives |
| `FramesHeardAsSent` | `FramesAsSent`, for any conversation, any cutting, and wherever the client stops |
| `BodiesHeardAsSent` | `BodyAsSent`, for any plain body, any form with any boundary that is not inside of its parts, and any cutting |

**Assumptions.**  Named in the modules, and evaluated by TLC in their runs.  `ThreadQueue`: Workers is finite, NoTask is no closure.  `NetEvent`:
NoRequest is no entry, evlist is not empty, the platforms are the two there are.  `NetTCP`: the counts and the buffer are positive
(readBytesFully is not called for nothing), one socket.  `WriteFully`: there is something to write; writers and wakeups are different closures.
`NetAccept`: callbacks are not named like threads.  `HTTP2Client`: there is a client, clients and requests are finitely many, NoClient is none; there are
workers, and the bounds are positive.  `HTTPConnection`: the two sizes of reads and chunks are positive, a script is one or more requests made of tokens.
`WebSocket`: the three forms of a length are in order, and the first reaches to 3 at least.  `StreamReaders`: a conversation is a sequence of frames whose payloads are numbers, and bodies are sequences of tokens.
`MimeReader`: the boundary begins with two dashes, has something behind them, and has no line end inside.  `StreamReaders` adds that no part of a form has
a line end and the boundary inside of its data (`Delimits`).  This is the client's duty, since RFC 2046 asks it to choose the boundary so, and no
reader could tell such data from the end of the part.  Data may still come as close to a delimiter as they like, for instance end with CR, with CR LF, or with CR LF and two dashes.
`DynamicTable`: no field is `NoField`, and a field has some text, that is a size above the 32 bytes of overhead.
The last one is needed: a table whose capacity is a multiple of 32, filled with fields of no text at all, has as many entries as slots, and a ring with
`head = tail` reads as empty.  A name of length 0 is refused by the decoder (`HPACK.swift:1328`); only a literal whose Huffman form stands for no
symbol could bring a field without any text.

**Arguments.**  `NoClosureBehindSleeper` is inductive together with `TypeOK`: a dispatch adds one closure and, if
somebody sleeps, one awake worker; a worker that takes a closure leaves with it; a worker that parks has seen the
empty queue.  The counting over `Awake` is done with the cardinality facts of the library, one lemma per step.
`RunsOnce` is inductive as it stands.  The refinement maps `q`, `block`, `ended` to the abstract queue and needs only
the typing.

In NetEvent `CalledAtMostOnce` is strengthened to `CallInv` (a queued request has not been answered, and two
entries hold different requests).  The facts about the kernel differ by platform, so they are separate invariants under a
platform hypothesis, which no step changes: `EpollInv` says that a registration only exists under an entry and that
a spent one has its event in the batch; `EpollFitInv` adds, for disciplined callers, that registration and events agree with the entry
they belong to; `KqueueInv` says the same of knotes and timers.  `AnswersFitRequests` follows because a
callback is dispatched from an entry and an event that fit.  None of the checked invariants is inductive alone: an
event in the batch has to be known to fit the entry it will meet.

`WriteIsExact` leaves open what a write reports that broke; that is `ReportIsSent`, which the code violates (section 5).
`NetTCP` is proved from `TypeOK` and two counting invariants, `ReadCounts` and `WriteCounts`: what was taken and what is still to be read make up the count that
was asked for, and likewise for a write, at each step of the function.  `Waits` says of each of the two operations that, while it waits, the
loop holds its request or has called it back; it is claimed of `disciplined` callers, because the second `add` on a socket drops the first.

`WriteFully` extends the queue, so its invariant is `TypeOK` of the queue with `WTypeOK`, `SentInv` (a writer that has not returned has bytes
left; one that has returned says true exactly if none are), and `SleepingWriterIsWatched`.  The step that needs the rounds is the late callback: it may
signal, but it cannot be the one that a sleeper of a later round counts on.  `KeepsPlace` is the lemma for all steps of the queue
that concern another closure.

`SleeperIsWatched` is inductive with `TypeOK`; the theorem says that a sleep on an open socket is always preceded by a registration, a
pending callback or a signal that has not been used.  `PoolIsExclusive` needs two facts more, `PoolTyped` and `NoneIsNew`: a client that a push holds or
the pool has is not new, so a push that finds the pool empty makes one that nobody has.

`ResponsesAreWhole` strengthens that by `Asking` (types, a request that has not asked has no frames, a client that has not connected is not
read) and, while `StreamsReadApart`, by `Answering`: for each request, the frames the server sent and nobody took are the next ones of its
response, in order and without a gap (`Sequel`); on an open connection the last one sent is still there (`NoneLost`); and what was taken is a
beginning of the response (`GotSoFar`).  The difficult step is `dequeueFrame`, which takes a frame out of the middle of the queue: it must be the first of
its request, and leave the others in their order.  The hypothesis is about the whole behaviour so far, because `bytesToHeader` adds the four bytes of a number instead of
joining them: 513 reads as 3, and then two responses do mix.  `Numbered` shows that the hypothesis holds while the numbers fit a byte.

For the responses of an HTTP connection, `FInv` looks at `Plan`, what was written for the current request together with what is about to be.  The plan only
grows at its end, is a response at all times (`Planned`), and fits what the handler knows of it (`Handled`): the length that
was announced is what has been planned and what is left, or the plan is between two chunks.  For a file, what has been planned and what the file still gives make up all that it
gives, and while its writes succeed sendFile completes only when nothing of that is left.  When the writes are done, the plan is what was
written.  `RequestsAsSent` says where the request is at each moment (`Follows`): before the end of the head, buffer and unread tokens make up the request and the parameters are those of the
lines scanned so far (`InHead`); then the head is complete (`AtBody`); then the part of the body that was read and what is unread make up the body, and `need` is the
rest (`InBody`); then all is there (`InAnswer`).  It is claimed while every request so far is well-formed: a continuation line
stops the process and a body without a length stays in the stream.

The ring's invariant is that there is a sequence, the entries oldest first, which the slots from `tail` on hold with wrapping, and whose sizes
add up to `size` (`Holds`).  Since a field is larger than its overhead, n entries take at least 33n bytes, and a ring of c/32 slots
is never full; that is what makes `head = tail` mean empty.  For the refinement, the abstract table is the mirror image of this sequence, and
removing from the tail until the new entry fits is cutting the abstract table at the first place where it fits
(`Enough`, `Surplus`).  `TableSpec` lets a caller add, clear and change the capacity at will, so the theorems do not depend on HPACK's bytes.

`MessagesAsAsked` is inductive once it also says what `nextIsContinuation` has to be after the last frame (`Spoken`).

`FramesAsSent` speaks of the frames that have arrived as a whole; what is inductive is that some number h of frames has been handled
(`Hears`): the buffer holds the bytes that were read behind the h-th frame, the handler was given what is due for the first h, their pings
are answered, and while the reader waits or has ended the next frame is a Close, is unmasked, or is not all there (`Stuck`).  The step to h + 1 needs that the scanner
finds a frame exactly when all its bytes are there (`Found`, `NotFound`).  The case to see is a length of two or eight bytes that has not
arrived: fillFrame then goes on with the 126 or 127 of the header byte as length, and does not find that many bytes because the buffer
holds fewer; this is where `SmallPayload >= 3` is needed.

`BodyAsSent` looks at what the reader has made of the form; what is inductive is where in the form it stands (`Listens`).  Let s be the bytes of the
form: the reader is through with the first p of them and q have come.  What is kept for the next call, or is left to look at in this one, is exactly
what lies between p and q (`Window`), and what has not come is what lies behind q.  The state says what is at p: the boundary in front of a part
or at the end (`AtBoundary`), a line of a part's header, with what its lines said so far (`AtHeader`), or data of a part, of which exactly those
in front of p are in the part (`AtData`).  `FormLies` says where all of this is in s.  Each clause also says how much
may be left undecided when a call returns: fewer bytes than a boundary and two more, less than the line, or less than what ends in a whole delimiter.  That
is why nothing can be missing at the end: where the whole form is there, no such rest is possible, so the reader is in `StateDone` (`WholeFormHeard`).

The difficult step is the one through data (`DataTurnReads`).  `NoneInside` shows that no delimiter begins in front of the end of the data, nor over it:
it would either lie inside of the data, which the assumption excludes, or have the line end of the real delimiter where a boundary has none.  `StopsAtEnd` shows that
the scanner stops at that end however little of the delimiter has come.  A stop in front of it, a CR at the end of a piece or a line end and two dashes, is kept and looked at again with the
next piece; what was in front of it is data and is already in the part.

`DataLemmas` has the laws of sums and of sequences put together.  They need induction on the length of a sequence, and the induction rule of the library takes an operator that the
provers cannot instantiate; so each is proved by a least counterexample (`LeastOf`), which only needs that the order of the
numbers is well-founded.

**Only model-checked.**

- Liveness (`DispatchedRuns`, `TimedIsCalled`, `ReadAnswered`, `WriteAnswered`, `WritesReturn`, `EveryConnectionAccepted`, `RequestAnswered`,
  `ResponseComes`, `EveryRequestTold`, `WorkerGivenBack`, `EverySessionEnds`), and the liveness half of `Refinement`: fairness is outside what
  TLAPS can prove here.
- `HeardAsGiven` and `TablesAgree`: `HPACK` and `Huffman` use RECURSIVE operators, which keep them from the prover.
- `ResponseIsWhole` without a hypothesis: for large counters it is false (see above).

## 5. Disagreements found

Each has a run that violates what a comment says; `PROJECT.json` quotes it.

1. As many blocked `writeFully` calls as the default queue has workers never return (`NetTCP.swift:377`).
2. `close` between `tryAccept` and `lock` loses its signal; `start` does not return (`NetTCP.swift:541`).
3. A Huffman leaf counts the whole code although whole bytes of it are used up on the way (`HPACK.swift:737`): strings with `!` or any
   other symbol of more than eight bits are decoded wrongly or refused.
4. A write that fails after a short send reports -1 (`NetTCP.swift:404`) and not the number of bytes written, as the comments of `write` say (318, 325, 392).

Met while reading and modelling, without a run of their own.  Most are visible in the models; those that the models leave out are marked (o).

*Event loop and sockets*

- On Linux `add` ignores `timeoutSeconds` (`NetEvent.swift:238`), so a read never times out there, whatever the comment at `NetTCP.swift:291` says.
- A second `add` on a socket replaces the first (`NetEvent.swift:236`).  HTTP2Client reads and writes at once (`HTTP2.swift:357`, 631).
- (o) `connect` gives its callback `self` on any event but the timer, so a refused connection is reported as a success (`NetTCP.swift:458`), where its
  comment promises nil.
- `close` does not tell NetEvent: on kqueue a timer outlives its socket (174).
- Two closers can both pass `fd != invalidSocket` and close the number twice; `semaphore!` is unwrapped up to three
  times without a lock while forEachAccept resets it (168-182, `trapped` in NetAccept).
- Any error of accept but EAGAIN ends the server (548).

*HTTP server, responses, HPACK*

- A continuation line of a header stops the process: an ArraySlice is indexed from 0 (`HTTPServer.swift:549`), although the comments at 337 and 582 provide for it.
- Bytes of a pipelined request are taken for body or lost (`HTTPServer.swift:441`).
- A file that gives fewer bytes than were announced (a range beyond its end, a file that was cut, a directory, `StaticFileHandler.swift:99`) leaves the response short; the connection is closed, or, if the request asked for it,
  kept alive, and then client and server wait for each other.  Where more than `chunkedBufferSize` is missing, `thisRead == remaining` (108) never becomes true and sendFile pushes nothing for ever.
- A range whose end lies before its start (143-147) stops the process: `readSomeBytes` makes an array of a negative size.
- `replaceHeader` traps unless the header to replace is the last (`WebResponse.swift:211`); pushBody twice without a Content-Length announces only the first part (239).
- With `incrementalIndexing: false` the HPACK encoder still adds the field to its own table (`HPACK.swift:842`); `ensureCapacity` compares the new
  field's size with itself because its parameter hides the table's size (985), so a change of the table's size evicts nothing.
- The decoder takes the length of an earlier literal name for a name that came as an index (1402), and may drop a header that fits.
- `capacityChanged` reads behind the old array when the entries lie across its end (110).
- Each continuation of a read starts with the whole timeout again (281).

*HTTP/2 client and pusher*

- `dequeueFrame` waits only while no frame at all is queued (`HTTP2.swift:228`).  A frame that nobody asks for stays, and every later request
  fails at once with "Connection dropped"; GOAWAY arrives on stream 0, so the branch for it (433) is never taken.
- The shifts in `bytesToHeader` are not used (588): streams from 257 on are never answered.
- The timed wait on Linux adds the timeout to the wall clock of a condition that uses the monotonic one (`LinuxBridge.c:52`, `Threading.swift:106`): it does not end.
- The read thread and each request that blocks in connect's callback hold a worker of the default queue: two pushes on new connections
  stall where it has four.
- `close` under a read that waits in NetEvent can leave the read thread and its worker for ever (`HTTP2.swift:378`).
- A frame's header and payload are written apart (631, 636), so an acknowledgement that the read thread writes (296, 314) can fall between them.
- `:path` is sent not to be indexed (512) but is in the encoder's table from then on: a second request with the same path refers to an entry the server does not have.
- `decodeHeaders` makes a new decoder for each block (660): a block that refers to an earlier one is not decoded, the connection is closed (664), and the response goes on with what it has.
- A frame whose payload never comes is delivered without one (614): DATA traps (479), HEADERS with END_STREAM gives a response without headers.
- A spurious wakeup of the read thread closes the connection (362).  The result of writing DATA is not looked at (550).
- A failed connect leaves its client in `activeStreams` and its socket open; a client from the pool is used without a look at `isConnected`.
- (o) `newStreamId`, the encoder and the frame writer are not locked (198); `idCounter` and `activeStreams` are shared by configurations, each with its own lock.
- (o) A push to several devices reports a single -1, whatever the answers were, unless there is exactly one (`NotificationPusher.swift:312`), and the pusher's `responses` are shared by its pushes (162, 264).
- (o) The values of SETTINGS are skipped (246), and the payload of a PING is read as SETTINGS (310).

*FastCGI, multipart bodies, WebSockets*

- (o) `FastCGIRequest.write` never calls its completion (`FastCGI.swift:161`): only the header of a response is sent and the connection stays open.
  `makeStdoutBody` slices with a length where it needs an end (201), which would trap for responses of more than 65535 bytes.
- (o) A parameter that goes over the end of its record traps (127).  `readXStdin` calls itself without waiting while there is nothing to read (215).
- (o) `start(port:)` returns at once, since `self.net` is never set (60).
- (o) A `Content-Type:` without a value stops the process (`MimeReader.swift:263`); `pullValue("name")` also finds the end of `filename=` (185).
- After an error in writing a file the reader ignores the rest of the body (`StateNone`), and its buffer grows.
- A Pong or Close that is sent between two fragments of a message goes out as a continuation and resets `nextIsContinuation` (`WebSocketHandler.swift:230`):
  `MessagesAsAsked` holds only without such an answer (`AnsweredInside`).
- (o) After an unmasked frame `close` returns only when it has been written, and reading goes on two bytes too late if that has to wait (101).
  Frames written by two threads can mix.

*Routing* (o)

- Paths are made lower case before the lookup, so the values of variables lose their case (`Routing.swift:42`, 63).
- A second route with the same variables never replaces the first (286).  `*` matches one component, so the wildcard for the document root (140) does not reach subdirectories.

## 6. Not modelled

- **Parts of modelled components.**  `getQueue`'s registry is one dictionary under one lock.  `connect` and the one-shot `accept` are one attempt and one `add`, as a
  continuation of readBytesFully is; `readSomeBytes` is one recv, and its use is in `HTTPConnection` and `FastCGI`.  Of a file range it is modelled how many bytes it announces and how many
  the file gives of them, not which.  Pipelining clients are excluded, because the code loses their bytes (section 5).  The FastCGI response is left out: its first write never completes.
  Padding and priorities of HTTP/2 frames, the masks and the handshake of WebSockets are arithmetic and text.
- **Text.**  Views of a request (query, cookies, posted values), Routing, Mustache and JSON are sequential code on text that keeps no state between calls; their errors are in characters, which a model
  of their control would abstract away.
- **Libraries.**  TLS sockets and cURL are loops over OpenSSL and libcurl, which are not in the repository; what can go wrong there is in them.
- **Single system calls.**  Local sockets (sendFd and receiveFd repeat one call after an event), child processes, files and directories, bind, listen, RWLock and Once.
- **Nothing to find.**  Start-up (`PerfectServer`), logging, error values, MIME types, dlopen, byte and date conversion, vendored headers, build files.

What could still be added: overlapping calls of `sendRequest` before they wait, which the code does not lock, and the registry of queues together with the removal of a queue.
