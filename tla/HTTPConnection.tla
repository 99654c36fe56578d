--------------------------- MODULE HTTPConnection ---------------------------
(***************************************************************************)
(* One client connection of HTTPServer (PerfectLib/HTTPServer.swift): the  *)
(* request scanner, the body, the handlers' WebResponse                    *)
(* (PerfectLib/WebResponse.swift) and keep-alive.                          *)
(*                                                                         *)
(* Bytes are abstracted to tokens: CR, LF and a leading blank, which the   *)
(* scanner looks at, and whole pieces of text, which it does not.  The     *)
(* network cuts the stream anywhere between two tokens.  The client waits  *)
(* for the end of a response before it sends the next request, and may go  *)
(* away at any time.                                                       *)
(*                                                                         *)
(* For each request the server makes a new HTTPWebConnection, here conn;   *)
(* outs[k] is what the k-th of them wrote.  expired and cut only remember  *)
(* what happened, for the properties.                                      *)
(***************************************************************************)
EXTENDS Totals, SequencesExt

CONSTANTS
  Scripts,    \* the sequences of requests a client may have to send
  ReadSize,   \* httpReadSize
  ChunkSize,  \* chunkedBufferSize
  MaxBody     \* bound on the body of a response

ASSUME SizesAssumption == {ReadSize, ChunkSize} \subseteq Nat \ {0} /\ MaxBody \in Nat

(* REQ: a request line; HDR, KEEP, CL0, CL1, CL2: header lines, the last   *)
(* four being "Connection: keep-alive" and "Content-Length: n"; JUNK: text *)
(* without a colon; B: a byte of the body.                                 *)
HeaderTokens == {"HDR", "KEEP", "CL0", "CL1", "CL2"}
Tokens == {"CR", "LF", "BLANK", "REQ", "JUNK", "B"} \cup HeaderTokens

LengthOf == [CL0 |-> 0, CL1 |-> 1, CL2 |-> 2]

ASSUME ScriptsAssumption == \A s \in Scripts : s \in Seq(Seq(Tokens)) /\ s # <<>>

VARIABLES
  script,    \* what the client sends, one sequence of tokens per request
  asked,     \* the number of the request it is sending or has sent
  unsent,    \* the rest of that request
  gone,      \* "no", "closed" by the client, or "reset" after that
  inbox,     \* tokens in the kernel
  conn,      \* the HTTPWebConnection
  pc,        \* what the connection does next
  need,      \* size, the argument of readBody: what is missing of the body
  response,  \* the WebResponse and its handler
  pending,   \* writes that remain of the current call
  next,      \* the completion that follows them
  ok,        \* the argument it gets
  outs,      \* what was written, per HTTPWebConnection
  expired,   \* a read has timed out
  cut        \* <<k, n>>: the file of the k-th response gave only n bytes of it

client  == <<script, asked, unsent, gone>>
writing == <<pending, next, ok, outs>>
history == <<expired, cut>>
vars    == <<client, inbox, conn, pc, need, response, writing, history>>

-----------------------------------------------------------------------------
(* HTTPWebConnection(net:server:).  params has the request's line (that is *)
(* PATH_INFO), and the two headers the server itself looks at.             *)
NewConnection ==
  [buffer |-> <<>>, offset |-> 0, lastKey |-> "none",
   params |-> [line |-> FALSE, keep |-> FALSE, length |-> 0],
   stdin |-> <<>>, wroteHeader |-> FALSE]

Styles == {"none", "whole", "file", "chunks"}

NewResponse ==
  [style |-> "none", left |-> 0, bodyData |-> 0,
   wroteHeaders |-> FALSE, chunked |-> FALSE, length |-> 0,
   inFile |-> 0, readable |-> TRUE, lastRead |-> FALSE]

Init ==
  /\ script \in Scripts
  /\ asked = 1 /\ unsent = script[1]
  /\ gone = "no"
  /\ inbox = <<>>
  /\ conn = NewConnection
  /\ pc = "readHeaders"
  /\ need = 0
  /\ response = NewResponse
  /\ pending = <<>> /\ next = "none" /\ ok = TRUE
  /\ outs = << <<>> >>
  /\ expired = FALSE
  /\ cut = {}

-----------------------------------------------------------------------------
(* A response as it goes over the wire: pairs of a kind and a number.      *)

KindsIn(out) == {out[i][1] : i \in 1..Len(out)}

(* The number that goes with the first item of a kind.                     *)
NumberOf(out, kind) == out[CHOOSE i \in 1..Len(out) : out[i][1] = kind][2]

BytesIn(item) == IF item[1] \in {"body", "chunk"} THEN item[2] ELSE 0

BodyBytes(out) == Total([i \in 1..Len(out) |-> BytesIn(out[i])])

(* The client has the end of the response.                                 *)
Whole(out) ==
  IF "chunkedHeader" \in KindsIn(out)
  THEN "last" \in KindsIn(out)
  ELSE "header" \in KindsIn(out) /\ BodyBytes(out) >= NumberOf(out, "header")

-----------------------------------------------------------------------------
(* The client.                                                             *)

(* A segment of n tokens reaches the server's kernel.                      *)
ClientSends(n) ==
  /\ gone = "no"
  /\ n <= Len(unsent)
  /\ inbox' = inbox \o SubSeq(unsent, 1, n)
  /\ unsent' = SubSeq(unsent, n + 1, Len(unsent))
  /\ UNCHANGED <<script, asked, gone, conn, pc, need, response, writing, history>>

ClientAsksAgain ==
  /\ gone = "no"
  /\ unsent = <<>> /\ asked < Len(script)
  /\ asked <= Len(outs) /\ Whole(outs[asked])
  /\ asked' = asked + 1
  /\ unsent' = script[asked + 1]
  /\ UNCHANGED <<script, gone, inbox, conn, pc, need, response, writing, history>>

ClientCloses ==
  /\ gone = "no"
  /\ gone' = "closed"
  /\ UNCHANGED <<script, asked, unsent, inbox, conn, pc, need, response, writing, history>>

-----------------------------------------------------------------------------
(* Reading the headers.                                                    *)

Least(m, n) == IF m < n THEN m ELSE n

(* didReadHeaderData with the first n tokens of the kernel's, and the      *)
(* start of scanWorkingBuffer: an LF at the place where a line should      *)
(* start is skipped.                                                       *)
DidRead(n) ==
  LET buffer == conn.buffer \o SubSeq(inbox, 1, n)
      skip   == IF buffer[conn.offset + 1] = "LF" THEN 1 ELSE 0
  IN
  /\ conn' = [conn EXCEPT !.buffer = buffer, !.offset = @ + skip]
  /\ inbox' = SubSeq(inbox, n + 1, Len(inbox))
  /\ pc' = "scan"

Stay == UNCHANGED <<client, need, response, writing, history>>

ReadHeaders ==
  /\ pc = "readHeaders"
  /\ inbox # <<>> /\ gone # "reset"
  /\ DidRead(Least(ReadSize, Len(inbox)))
  /\ Stay

(* readSomeBytes has nothing: readBytesFully(1) with the timeout.          *)
NoHeadersYet ==
  /\ pc = "readHeaders"
  /\ inbox = <<>> /\ gone = "no"
  /\ pc' = "waitHeaders"
  /\ Stay /\ UNCHANGED <<inbox, conn>>

WaitHeaders ==
  /\ pc = "waitHeaders"
  /\ inbox # <<>>
  /\ DidRead(1)
  /\ Stay

(* The peer closed or reset: nil, and handleConnection closes.             *)
ReadEnds ==
  /\ pc \in {"readHeaders", "waitHeaders", "waitBody"}
  /\ (gone = "closed" /\ inbox = <<>>) \/ gone = "reset"
  /\ pc' = "closed"
  /\ Stay /\ UNCHANGED <<inbox, conn>>

TimesOut ==
  /\ pc \in {"waitHeaders", "waitBody"}
  /\ inbox = <<>>
  /\ pc' = "closed"
  /\ expired' = TRUE
  /\ UNCHANGED <<client, inbox, conn, need, response, writing, cut>>

(* The line that starts at offset ends with the first CR; 0 while none is  *)
(* there.                                                                  *)
FirstCR ==
  LET at == {i \in (conn.offset + 1)..Len(conn.buffer) : conn.buffer[i] = "CR"}
  IN  IF at = {} THEN 0 ELSE CHOOSE i \in at : \A j \in at : i <= j

Scanning == pc = "scan" /\ Stay /\ UNCHANGED inbox

(* No full line is left: "not done yet".  The line is scanned again from   *)
(* its start when more has come.                                           *)
ScanMore ==
  /\ Scanning
  /\ FirstCR \in {0, Len(conn.buffer)}
  /\ pc' = "readHeaders"
  /\ UNCHANGED conn

ScanMalformed ==
  /\ Scanning
  /\ FirstCR \notin {0, Len(conn.buffer)}
  /\ conn.buffer[FirstCR + 1] # "LF"
  /\ pc' = "closed"
  /\ UNCHANGED conn

(* A line is complete: the segment, without its CR LF.                     *)
LineIs(segment) ==
  /\ FirstCR \notin {0, Len(conn.buffer)}
  /\ conn.buffer[FirstCR + 1] = "LF"
  /\ segment = SubSeq(conn.buffer, conn.offset + 1, FirstCR - 1)

Line == SubSeq(conn.buffer, conn.offset + 1, FirstCR - 1)

NextLine == [conn EXCEPT !.offset = FirstCR + 1]

EndOfHeaders ==
  /\ Scanning /\ LineIs(<<>>)
  /\ conn' = NextLine
  /\ pc' = "readBody"

IsBlank(token) == token \in {"BLANK", "LF"}

(* processHeaderContinuation indexes an ArraySlice, which keeps the        *)
(* indices of the buffer, from 0.                                          *)
ScanContinuation ==
  /\ Scanning /\ LineIs(Line) /\ Line # <<>>
  /\ IsBlank(Line[1])
  /\ conn' = NextLine
  /\ pc' = IF conn.lastKey = "none" THEN "closed" ELSE "trapped"

(* processRequestLine takes any text.                                      *)
ScanRequestLine ==
  /\ Scanning /\ LineIs(Line) /\ Line # <<>>
  /\ ~IsBlank(Line[1])
  /\ conn.offset = 0
  /\ conn' = [NextLine EXCEPT !.params.line = TRUE]
  /\ pc' = "scan"

(* processHeaderLine: a later header of the same name replaces the first.  *)
ScanHeader ==
  /\ Scanning /\ LineIs(Line) /\ Line # <<>>
  /\ ~IsBlank(Line[1])
  /\ conn.offset # 0
  /\ \E key \in HeaderTokens \cap ToSet(Line) :
       /\ conn' = [NextLine EXCEPT
            !.lastKey = key,
            !.params.keep = @ \/ key = "KEEP",
            !.params.length = IF key \in DOMAIN LengthOf THEN LengthOf[key] ELSE @]
       /\ pc' = "scan"

ScanNoColon ==
  /\ Scanning /\ LineIs(Line) /\ Line # <<>>
  /\ ~IsBlank(Line[1])
  /\ conn.offset # 0
  /\ HeaderTokens \cap ToSet(Line) = {}
  /\ conn' = NextLine
  /\ pc' = "closed"

-----------------------------------------------------------------------------
(* readBody.                                                               *)

(* Mutation: what came with the headers is not counted.                    *)
ReadBodyAll ==
  /\ pc = "readBody"
  /\ LET rest == SubSeq(conn.buffer, conn.offset + 1, Len(conn.buffer)) IN
       IF conn.params.length = 0
       THEN pc' = "run" /\ UNCHANGED <<conn, need>>
       ELSE /\ conn' = [conn EXCEPT !.stdin = rest, !.buffer = <<>>, !.offset = 0]
            /\ need' = conn.params.length
            /\ pc' = "readSome"
  /\ UNCHANGED <<client, inbox, response, writing, history>>

(* Mutation: what came with the headers is counted and not kept.           *)
ReadBodyLosesRest ==
  /\ pc = "readBody"
  /\ LET rest == SubSeq(conn.buffer, conn.offset + 1, Len(conn.buffer)) IN
       IF conn.params.length = 0
       THEN pc' = "run" /\ UNCHANGED <<conn, need>>
       ELSE /\ conn' = [conn EXCEPT !.buffer = <<>>, !.offset = 0]
            /\ need' = IF Len(rest) < conn.params.length
                       THEN conn.params.length - Len(rest) ELSE 0
            /\ pc' = IF need' = 0 THEN "run" ELSE "readSome"
  /\ UNCHANGED <<client, inbox, response, writing, history>>

(* readBody with what is left of the working buffer first; size may be     *)
(* zero or less then, and the callback comes at once.                      *)
ReadBody ==
  /\ pc = "readBody"
  /\ LET rest == SubSeq(conn.buffer, conn.offset + 1, Len(conn.buffer)) IN
       IF conn.params.length = 0
       THEN pc' = "run" /\ UNCHANGED <<conn, need>>
       ELSE /\ conn' = [conn EXCEPT !.stdin = rest, !.buffer = <<>>, !.offset = 0]
            /\ need' = IF Len(rest) < conn.params.length
                       THEN conn.params.length - Len(rest) ELSE 0
            /\ pc' = IF need' = 0 THEN "run" ELSE "readSome"
  /\ UNCHANGED <<client, inbox, response, writing, history>>

(* putStdinData (a MimeReader takes the bytes in the same order).          *)
PutStdin(n) ==
  /\ inbox # <<>>
  /\ conn' = [conn EXCEPT !.stdin = @ \o SubSeq(inbox, 1, n)]
  /\ inbox' = SubSeq(inbox, n + 1, Len(inbox))
  /\ need' = need - n
  /\ pc' = IF need = n THEN "run" ELSE "readSome"
  /\ UNCHANGED <<client, response, writing, history>>

ReadSome == pc = "readSome" /\ PutStdin(Least(need, Len(inbox)))

NoBodyYet ==
  /\ pc = "readSome"
  /\ inbox = <<>>
  /\ pc' = "waitBody"
  /\ Stay /\ UNCHANGED <<inbox, conn>>

WaitBody == pc = "waitBody" /\ PutStdin(1)

-----------------------------------------------------------------------------
(* Writing.                                                                *)

(* writeHeaders: the header lines are queued once; they announce the       *)
(* chunked encoding, or the length the handler gave, or what bodyData      *)
(* holds now.                                                              *)
Announce(r, length) ==
  IF r.wroteHeaders THEN r
  ELSE [r EXCEPT !.wroteHeaders = TRUE, !.length = length]

HeaderOf(r) ==
  IF r.chunked THEN <<"chunkedHeader", 0>> ELSE <<"header", r.length>>

(* Mutation: the header is written with every body.                        *)
WithHeaderAgain(r, items) == << <<"status", 200>>, HeaderOf(r)>> \o items

(* HTTPWebConnection.writeBody: the status line and the queued header      *)
(* lines go out before the first body.                                     *)
WithHeader(r, items) ==
  IF conn.wroteHeader THEN items
  ELSE << <<"status", 200>>, HeaderOf(r)>> \o items

(* An asynchronous write with its completion.                              *)
Write(items, completion) ==
  /\ conn' = [conn EXCEPT !.wroteHeader = TRUE]
  /\ pending' = items /\ next' = completion /\ ok' = TRUE
  /\ pc' = "write"
  /\ UNCHANGED <<client, inbox, need, outs, history>>

Body(n) == IF n = 0 THEN <<>> ELSE << <<"body", n>> >>

(* NetTCP.write has written one of the pieces.                             *)
WriteWorks ==
  /\ pc = "write" /\ pending # <<>>
  /\ gone # "reset"
  /\ outs' = [outs EXCEPT ![Len(outs)] = Append(@, Head(pending))]
  /\ pending' = Tail(pending)
  /\ UNCHANGED <<client, inbox, conn, pc, need, response, next, ok, history>>

(* A body of no bytes is written too, after the pieces before it.          *)
WritesNothing ==
  pending = <<>> /\ ok /\ ~response.chunked /\ response.bodyData = 0 /\ next # "close"

(* It fails, as all later ones will, and the pieces after it are not       *)
(* tried.                                                                  *)
WriteFails ==
  /\ pc = "write" /\ (pending # <<>> \/ WritesNothing)
  /\ gone # "no"
  /\ gone' = "reset"
  /\ pending' = <<>>
  /\ ok' = FALSE
  /\ UNCHANGED <<script, asked, unsent, inbox, conn, pc, need, response, next,
                 outs, history>>

-----------------------------------------------------------------------------
(* runRequest.                                                             *)

NoPathInfo ==
  /\ pc = "run" /\ ~conn.params.line
  /\ Write(<< <<"status", 500>>, <<"header", 0>> >>, "close")
  /\ UNCHANGED response

(* A handler is found.  It answers with appendBody alone, or in chunks.    *)
(* StaticFileHandler's "not found" is an answer of the first kind, and so  *)
(* is its answer to HEAD: whatever length the header names, nothing        *)
(* follows it and the client expects nothing, size 0.                      *)
StartHandler(style, size) ==
  /\ pc = "run" /\ conn.params.line
  /\ style \in {"whole", "chunks"}
  /\ response' = [NewResponse EXCEPT
       !.style = style, !.left = size, !.length = size]
  /\ pc' = "handler"
  /\ UNCHANGED <<client, inbox, conn, need, writing, history>>

(* sendFile announces the size of the file, or of the range asked for,     *)
(* which is not compared with the file.  Of that the file gives inFile     *)
(* bytes: fewer when the range goes beyond its end, when it has been cut   *)
(* since, or when it is not readable from there on.                        *)
StartFile(size, inFile, readable) ==
  /\ pc = "run" /\ conn.params.line
  /\ inFile <= size
  /\ response' = [NewResponse EXCEPT
       !.style = "file", !.left = size, !.length = size,
       !.inFile = inFile, !.readable = readable]
  /\ cut' = IF inFile < size THEN cut \cup {<<Len(outs), inFile>>} ELSE cut
  /\ pc' = "handler"
  /\ UNCHANGED <<client, inbox, conn, need, writing, expired>>

(* A range whose end is before its start: readSomeBytes makes an array of  *)
(* a negative size.                                                        *)
StartReversedRange ==
  /\ pc = "run" /\ conn.params.line
  /\ pc' = "trapped"
  /\ Stay /\ UNCHANGED <<inbox, conn>>

InHandler(style) == pc = "handler" /\ response.style = style

(* The Content-Length: the handler's own, or what bodyData holds.          *)
Announced(r) == IF r.style = "file" THEN r.length ELSE r.bodyData

(* requestCompleted without chunks: writeHeaders, then the rest.           *)
Complete(r) ==
  /\ response' = Announce(r, Announced(r))
  /\ Write(WithHeader(response', Body(r.bodyData)), "completed")

AnswerWhole ==
  /\ InHandler("whole")
  /\ Complete([response EXCEPT !.bodyData = response.left, !.left = 0])

(* sendFile with the remaining bytes: thisRead of them are asked for, and  *)
(* what the file gives is appended and pushed.                             *)
SendFilePiece ==
  /\ InHandler("file")
  /\ response.inFile > 0 \/ response.readable
  /\ LET thisRead == Least(ChunkSize, response.left)
         bytes    == Least(thisRead, response.inFile)
         r        == Announce([response EXCEPT
                       !.bodyData = bytes, !.left = @ - bytes, !.inFile = @ - bytes,
                       !.lastRead = thisRead = response.left], Announced(response))
     IN /\ response' = r
        /\ Write(WithHeader(r, Body(bytes)), "pushed")

(* readSomeBytes throws: completion(false), which completes the request.   *)
SendFileFails ==
  /\ InHandler("file")
  /\ response.inFile = 0 /\ ~response.readable
  /\ Complete(response)

Chunk(n) == IF n = 0 THEN <<>> ELSE << <<"size", n>>, <<"chunk", n>> >>

(* pushChunked.  Without body data nothing is written, not even headers.   *)
PushChunked(r, completion) ==
  LET s == [Announce(r, 0) EXCEPT !.chunked = TRUE] IN
  /\ response' = s
  /\ IF r.bodyData = 0
     THEN /\ pending' = <<>> /\ next' = completion /\ ok' = TRUE /\ pc' = "write"
          /\ UNCHANGED <<client, inbox, conn, need, outs, history>>
     ELSE Write(WithHeader(s, Chunk(r.bodyData)), completion)

(* A handler that streams appends some bytes and pushes them.              *)
AppendAndPush(n) ==
  /\ InHandler("chunks")
  /\ n <= response.left
  /\ PushChunked([response EXCEPT !.bodyData = n, !.left = @ - n], "pushed")

(* It completes with the rest still in bodyData.                           *)
CompleteChunks ==
  /\ InHandler("chunks")
  /\ response.chunked
  /\ PushChunked([response EXCEPT !.bodyData = response.left, !.left = 0], "lastChunk")

-----------------------------------------------------------------------------
(* The completions.  What bodyData holds after a failed write is left out: *)
(* nothing of it is sent any more.                                         *)

Written(completion) == pc = "write" /\ pending = <<>> /\ next = completion

(* Mutation: sendFile stops after its first piece.                         *)
PushedOnce ==
  /\ Written("pushed")
  /\ IF response.style = "file"
     THEN Complete([response EXCEPT !.bodyData = 0])
     ELSE /\ response' = [response EXCEPT !.bodyData = 0]
          /\ pc' = "handler"
          /\ UNCHANGED <<client, inbox, conn, need, writing, history>>

(* pushBody and pushChunked empty bodyData and return to the handler.      *)
(* sendFile is done after the read that asked for all that remained,       *)
(* whatever it gave.                                                       *)
Pushed ==
  /\ Written("pushed")
  /\ IF response.style = "file" /\ (~ok \/ response.lastRead)
     THEN Complete([response EXCEPT !.bodyData = 0])
     ELSE /\ response' = [response EXCEPT !.bodyData = 0]
          /\ pc' = "handler"
          /\ UNCHANGED <<client, inbox, conn, need, writing, history>>

(* The final "0" chunk, by writeBody.                                      *)
LastChunk ==
  /\ Written("lastChunk") /\ ok
  /\ response' = [response EXCEPT !.bodyData = 0]
  /\ Write(WithHeader(response', << <<"last", 0>> >>), "completed")

(* keepAliveOrClose, after the response or after its failure; a request    *)
(* that wants to be kept alive gets a new HTTPWebConnection for the next.  *)
KeepAliveOrClose ==
  /\ Written("completed") \/ (Written("lastChunk") /\ ~ok)
  /\ IF conn.params.keep
     THEN /\ conn' = NewConnection
          /\ response' = NewResponse
          /\ outs' = Append(outs, <<>>)
          /\ pc' = "readHeaders"
     ELSE pc' = "closed" /\ UNCHANGED <<conn, response, outs>>
  /\ UNCHANGED <<client, inbox, need, pending, next, ok, history>>

CloseAfter500 ==
  /\ Written("close")
  /\ pc' = "closed"
  /\ Stay /\ UNCHANGED <<inbox, conn>>

-----------------------------------------------------------------------------
Reading ==
  \/ ReadHeaders \/ WaitHeaders \/ NoHeadersYet
  \/ ScanMore \/ ScanMalformed \/ EndOfHeaders
  \/ ScanContinuation \/ ScanRequestLine \/ ScanHeader \/ ScanNoColon
  \/ ReadBody \/ ReadSome \/ NoBodyYet \/ WaitBody
  \/ ReadEnds

Answering ==
  \/ NoPathInfo
  \/ \E style \in Styles, size \in 0..MaxBody : StartHandler(style, size)
  \/ \E size, inFile \in 0..MaxBody, readable \in BOOLEAN :
       StartFile(size, inFile, readable)
  \/ StartReversedRange
  \/ AnswerWhole \/ SendFilePiece \/ SendFileFails
  \/ \E n \in 0..MaxBody : AppendAndPush(n)
  \/ CompleteChunks
  \/ WriteWorks \/ WriteFails
  \/ Pushed \/ LastChunk \/ KeepAliveOrClose \/ CloseAfter500

Next ==
  \/ \E n \in 1..Len(unsent) : ClientSends(n)
  \/ ClientAsksAgain \/ ClientCloses
  \/ TimesOut
  \/ Reading \/ Answering

(* Reads and writes are answered (module NetTCP), the client sends what it *)
(* has to send, and a handler that streams does complete ("a PageHandler   *)
(* *MUST* call requestCompleted", Routing.swift).  Nothing of the kind is  *)
(* assumed of sendFile: of a file that gives nothing for more than         *)
(* chunkedBufferSize of what was announced it pushes nothing for ever.     *)
Fairness ==
  /\ WF_vars(\E n \in 1..Len(unsent) : ClientSends(n))
  /\ WF_vars(Reading) /\ WF_vars(Answering)
  /\ SF_vars(CompleteChunks)

SafeSpec == Init /\ [][Next]_vars
Spec == SafeSpec /\ Fairness

-----------------------------------------------------------------------------
(* What a request means, read as a whole.                                  *)

LineEnds(s) == {i \in 1..Len(s) - 1 : s[i] = "CR" /\ s[i + 1] = "LF"}

(* The position of the CR of the empty line, or 0.                         *)
EmptyLine(s) ==
  LET at == {i \in LineEnds(s) : i = 1 \/ i - 2 \in LineEnds(s)}
  IN  IF at = {} THEN 0 ELSE CHOOSE i \in at : \A j \in at : i <= j

HeadOf(s) == SubSeq(s, 1, EmptyLine(s) - 1)
BodyOf(s) == SubSeq(s, EmptyLine(s) + 2, Len(s))

(* Of several lengths the last one counts.                                 *)
LengthIn(head) ==
  LET at == {i \in 1..Len(head) : head[i] \in DOMAIN LengthOf}
  IN  IF at = {} THEN 0
      ELSE LengthOf[head[CHOOSE i \in at : \A j \in at : j <= i]]

Meaning(s) ==
  [line |-> "REQ" \in ToSet(HeadOf(s)),
   keep |-> "KEEP" \in ToSet(HeadOf(s)),
   length |-> LengthIn(HeadOf(s))]

(* A request line, and headers that each have a line of their own; then as *)
(* many bytes as the headers say.                                          *)
WellFormed(s) ==
  LET head == HeadOf(s) IN
  /\ EmptyLine(s) > 1
  /\ \A i \in 1..Len(head) : i % 3 = 1 => head[i] \in IF i = 1 THEN {"REQ"} ELSE HeaderTokens
  /\ \A i \in 1..Len(head) : i % 3 = 2 => i \in LineEnds(head)
  /\ Len(BodyOf(s)) = Meaning(s).length

-----------------------------------------------------------------------------
Running == pc \in {"run", "handler", "write"}

(* However the network cuts a well-formed request that follows well-formed *)
(* ones, what reaches the handler is what the request as a whole means:    *)
(* its headers, and its body byte for byte, nothing of it left in the      *)
(* buffer that the next HTTPWebConnection will not see.                    *)
RequestAsSent ==
  Running /\ (\A k \in 1..Len(outs) : WellFormed(script[k])) =>
    LET s == script[Len(outs)] IN
    /\ asked = Len(outs) \/ Whole(outs[Len(outs)])
    /\ conn.params = Meaning(s)
    /\ conn.stdin = BodyOf(s)
    /\ conn.offset = Len(conn.buffer)

(* One status line, one header, then a body of the announced length, or    *)
(* chunks that each follow their size up to exactly one last chunk.        *)
Framed(out) ==
  \A i \in 1..Len(out) :
    /\ out[i][1] = "status" <=> i = 1
    /\ out[i][1] \in {"header", "chunkedHeader"} <=> i = 2
    /\ "header" \in KindsIn(out) =>
         /\ KindsIn(out) \subseteq {"status", "header", "body"}
         /\ BodyBytes(out) <= NumberOf(out, "header")
    /\ "chunkedHeader" \in KindsIn(out) =>
         /\ out[i][1] = "chunk" <=> i > 1 /\ out[i - 1][1] = "size"
         /\ out[i][1] = "chunk" => out[i][2] = out[i - 1][2]
         /\ out[i][1] = "last" => i = Len(out)

(* Whatever the handler does and whenever the client goes away, what goes  *)
(* out for a request is a response, or the beginning of one.               *)
ResponseIsFramed == \A k \in 1..Len(outs) : Framed(outs[k])

(* All the client can get for its k-th request: a whole response, or, of   *)
(* a file that gives less than was announced, every byte that it gives.    *)
Delivered(k) ==
  outs[k] # <<>> /\ (Whole(outs[k]) \/ <<k, BodyBytes(outs[k])>> \in cut)

(* A response that was started is left short only by the client's going    *)
(* away or by its file, and then by no more than the file lacks: the next  *)
(* request begins, or the connection closes, after its end.                *)
NoShortResponse ==
  \A k \in 1..Len(outs) :
    gone = "no" /\ outs[k] # <<>> /\ (k < Len(outs) \/ pc = "closed") => Delivered(k)

(* A well-formed request is answered in full, or with all its file has,    *)
(* unless the client goes away, lets a read time out, or asks for a        *)
(* reversed range.                                                         *)
RequestAnswered ==
  \A k \in 1..2 :
    asked = k /\ WellFormed(script[k]) ~>
      gone # "no" \/ expired \/ pc = "trapped" \/ (k <= Len(outs) /\ Delivered(k))

=============================================================================
