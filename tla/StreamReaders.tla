---------------------------- MODULE StreamReaders ----------------------------
(***************************************************************************)
(* What is built on a connection's byte stream beside HTTP/1.1 itself: the *)
(* body of a request, plain or multipart, over FastCGI or HTTP, and the    *)
(* frames of a WebSocket.  A behaviour is one connection of one of these   *)
(* kinds; the network cuts its stream anywhere, and the peer may go away.  *)
(*                                                                         *)
(* The readers do not know of each other; they share what makes them hard, *)
(* that a call has to keep what it cannot decide yet.                      *)
(***************************************************************************)
EXTENDS FastCGI, WebSocket

CONSTANTS
  Forms,          \* multipart bodies: sequences of [file, data]
  PlainBodies,    \* other bodies
  Conversations   \* what WebSocket clients send, sequences of frames

(* The parts of a form.  A browser takes a boundary that does not delimit  *)
(* anything inside of them.                                                *)
FormPart == [file : BOOLEAN, data : Seq(STRING)]

Delimits(data) == \E i \in DOMAIN data : IsEol(data, i) /\ IsBoundaryStart(data, i + 2)

ASSUME FormsAssumption ==
  \A f \in Forms : f \in Seq(FormPart) /\ \A i \in DOMAIN f : ~Delimits(f[i].data)
ASSUME PlainBodiesAssumption == PlainBodies \subseteq Seq(STRING)
ASSUME ConversationsAssumption == \A c \in Conversations : c \in Seq(ClientFrame)

VARIABLES
  form            \* the parts that the body was made from; a plain body is one part

vars == <<mimeVars, bodyVars, form, socketVars>>

(* A form as a browser sends it.                                           *)
PartBytes(part) ==
  Boundary \o <<"CR", "LF">>
    \o <<IF part.file THEN "file disposition" ELSE "disposition", "CR", "LF">>
    \o (IF part.file THEN <<"type", "CR", "LF">> ELSE <<>>)
    \o <<"CR", "LF">> \o part.data \o <<"CR", "LF">>
FormBytes(parts) ==
  Joined([i \in DOMAIN parts |-> PartBytes(parts[i])])
    \o Boundary \o <<"-", "-", "CR", "LF">>

Init ==
  /\ MimeInit
  /\ from \in {"fastcgi", "http", "websocket"}
  /\ contentType \in (IF from = "websocket" THEN {"plain"} ELSE {"plain", "multipart"})
  /\ form \in (IF contentType = "multipart" THEN Forms
               ELSE IF from = "websocket" THEN {<<NewSpec>>}
               ELSE {<<[NewSpec EXCEPT !.data = b]>> : b \in PlainBodies})
  /\ unsent = (IF contentType = "multipart" THEN FormBytes(form) ELSE form[1].data)
  /\ params = (IF from = "http" THEN contentType ELSE "none")
  /\ lastRecord = "none"
  /\ step = (IF from = "fastcgi" THEN "record" ELSE IF from = "http" THEN "body" ELSE "closed")
  /\ size = (IF from = "http" THEN Len(unsent) ELSE 0)
  /\ stdin = <<>> /\ mimes = FALSE
  /\ frames \in (IF from = "websocket" THEN Conversations ELSE {<<>>})
  /\ inbound = BytesOf(frames)
  /\ taken = 0 /\ readBuffer = <<>> /\ nextIsContinuation = FALSE
  /\ socket = (IF from = "websocket" THEN "open" ELSE "closed")
  /\ reading = "none" /\ ended = (from # "websocket")
  /\ delivered = <<>> /\ sent = <<>> /\ asked = <<>> /\ sends = 0

-----------------------------------------------------------------------------
(* The client may stop at any byte of a WebSocket stream.                  *)
ClientLeaves ==
  /\ inbound # <<>> /\ ~ended
  /\ inbound' = <<>>
  /\ UNCHANGED <<frames, taken, readBuffer, nextIsContinuation, socket, reading,
                 delivered, ended, sent, asked, sends>>

BodyStep == RecordStep \/ ReadBody

Reading ==
  \/ MimeTurn /\ UNCHANGED <<bodyVars, form, socketVars>>
  \/ BodyStep /\ UNCHANGED <<form, socketVars>>
  \/ (ReadBytesMessage \/ ReadFrame) /\ UNCHANGED <<mimeVars, bodyVars, form>>

Troubles ==
  \/ ReadFails /\ UNCHANGED <<form, socketVars>>
  \/ (ClientLeaves \/ SendBinaryMessage) /\ UNCHANGED <<mimeVars, bodyVars, form>>

Next == Reading \/ Troubles

(* Callbacks come: data that the peer has sent arrives and is reported     *)
(* (NetTCP.ReadAnswered), and a turn of a loop is followed by the next.    *)
Spec == Init /\ [][Next]_vars /\ WF_vars(Reading)

-----------------------------------------------------------------------------
(* WebRequest sees the body that was sent, however the stream was cut into *)
(* records and reads: while it is read every part that is there is a part  *)
(* of the form, no data of a part is wrong, and when the request runs      *)
(* nothing is missing, unless a file could not be written.                 *)
PartsOf(parts, specs) ==
  /\ Len(specs) <= Len(parts)
  /\ \A i \in DOMAIN specs :
       IF i < Len(specs) THEN specs[i] = parts[i]
       ELSE IsPrefix(specs[i].data, parts[i].data)

BodyAsSent ==
  IF contentType = "multipart"
  THEN /\ PartsOf(form, bodySpecs) /\ stdin = <<>>
       /\ step = "ran" /\ rest = <<>> /\ state # "StateNone" =>
            state = "StateDone" /\ bodySpecs = form
  ELSE /\ IsPrefix(stdin, form[1].data) /\ bodySpecs = <<>>
       /\ step = "ran" => stdin = form[1].data

(* The handler of a WebSocket is given the frames that were sent to it, in *)
(* order and whole, every ping is answered with its payload, and the       *)
(* reader never waits for bytes while a whole frame is in its buffer.  A   *)
(* Close frame, or one that is not masked, ends this.                      *)
Arrived == CHOOSE n \in 0..Len(frames) :
  /\ Len(BytesOf(SubSeq(frames, 1, n))) <= taken
  /\ n < Len(frames) => Len(BytesOf(SubSeq(frames, 1, n + 1))) > taken

Ends(frame) == frame.op = "Close" \/ ~frame.masked

Heard ==
  SubSeq(frames, 1,
         CHOOSE n \in 0..Arrived :
           /\ \A i \in 1..n : ~Ends(frames[i])
           /\ n < Arrived => Ends(frames[n + 1]))

(* The frames for the handler, and the payloads of the pings, of some      *)
(* frames; the payloads of the answers.                                    *)
Due(fs) == Joined([i \in DOMAIN fs |->
  IF fs[i].op = "Ping" THEN <<>>
  ELSE <<[fin |-> fs[i].fin, op |-> fs[i].op, payload |-> fs[i].payload]>>])

Pings(fs) == Joined([i \in DOMAIN fs |-> IF fs[i].op = "Ping" THEN <<fs[i].payload>> ELSE <<>>])

Pongs(fs) == Joined([i \in DOMAIN fs |-> IF fs[i].op = "Pong" THEN <<fs[i].payload>> ELSE <<>>])

FramesAsSent ==
  /\ IsPrefix(delivered, Due(Heard)) /\ IsPrefix(Pongs(asked), Pings(Heard))
  /\ from = "websocket" /\ (reading = "fill" \/ ended) =>
       delivered = Due(Heard) /\ Pongs(asked) = Pings(Heard)

(* The client can put together what the handler sent: every control frame  *)
(* says that it is one, and a data frame says that it continues a message  *)
(* if and only if the data frame before it left one unfinished.  It does   *)
(* not hold when WebSocket answers a ping or a close between two fragments *)
(* of a message (AnsweredInside): nextIsContinuation does not tell control *)
(* frames from data frames.                                                *)
IsData(i) == asked[i].op = "Binary"

Unfinished(i) ==
  \E j \in 1..(i - 1) :
    /\ IsData(j) /\ ~asked[j].fin
    /\ \A k \in (j + 1)..(i - 1) : ~IsData(k)

AnsweredInside == \E i \in DOMAIN asked : ~IsData(i) /\ Unfinished(i)

MessagesAsAsked ==
  ~AnsweredInside => \A i \in DOMAIN sent :
    sent[i].op = IF IsData(i) /\ Unfinished(i) THEN "Continuation" ELSE asked[i].op

(* Every reader comes to an end: the request runs or its connection is     *)
(* closed, no loop over what was kept goes round for ever, and a WebSocket *)
(* handler is told when its client has left or closed.                     *)
EverySessionEnds == <>(step \in {"ran", "closed"} /\ rest = <<>> /\ ended)

=============================================================================
