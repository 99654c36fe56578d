------------------------------ MODULE WebSocket ------------------------------
(***************************************************************************)
(* WebSocket (PerfectLib/WebSocketHandler.swift) between a client and a    *)
(* session handler that reads one frame after the other and sends messages *)
(* in between.                                                             *)
(*                                                                         *)
(* readFrame looks for a whole frame in readBuffer; when there is none it  *)
(* waits for one more byte, takes what else has arrived and looks again.   *)
(* The client's frames are cut into bytes: two of a header, an extended    *)
(* length of 2 or 8, a mask of 4 and the payload; what one of these bytes  *)
(* says is a token.  readFrame answers a ping and a close itself.          *)
(*                                                                         *)
(* Left out: the opening handshake, the mask's arithmetic, lengths that    *)
(* mean no memory, sends from more than one thread, and writes that wait   *)
(* for room: while the Close frame that refuses an unmasked frame waits,   *)
(* fillFrame would go on two bytes later than it should.                   *)
(***************************************************************************)
EXTENDS Totals, Integers, SequencesExt

CONSTANTS
  SmallPayload,   \* smallPayloadSize, 126
  Max16,          \* 65535, UINT16_MAX
  MaxSends        \* bound on the messages that the handler sends

ASSUME PayloadAssumption == SmallPayload \in Nat /\ SmallPayload >= 3
ASSUME Max16Assumption == Max16 \in Nat /\ Max16 >= SmallPayload /\ MaxSends \in Nat

VARIABLES
  frames,         \* the frames that the client sends
  inbound,        \* their bytes that have not been read
  taken,          \* how many have been read
  readBuffer,     \* readBuffer.data
  nextIsContinuation,
  socket,         \* "open" or "closed"
  reading,        \* readFrame: "none", "look", "pong", "fill"
  delivered,      \* the frames that the handler was given
  ended,          \* the handler was given nil
  sent,           \* the frames that were written
  asked,          \* history: the opcodes and ends that sendMessage was given
  sends           \* how many messages the handler sent

inVars  == <<frames, inbound, taken, readBuffer>>
outVars == <<nextIsContinuation, sent, asked>>
socketVars == <<inVars, outVars, socket, reading, delivered, ended, sends>>

-----------------------------------------------------------------------------
(* Frames as the client writes them.  "Invalid" stands for an opcode that   *)
(* OpcodeType has no name for.                                             *)
OpcodeType == {"Continuation", "Text", "Binary", "Close", "Ping", "Pong", "Invalid"}

ClientFrame == [fin : BOOLEAN, op : OpcodeType, masked : BOOLEAN, payload : Seq(Nat)]

Bytes(frame) ==
  LET n == Len(frame.payload)
      field == IF n < SmallPayload THEN n
               ELSE IF n <= Max16 THEN SmallPayload ELSE SmallPayload + 1
      extended == IF n < SmallPayload THEN <<>>
                  ELSE [i \in 1..(IF n <= Max16 THEN 2 ELSE 8) |-> [length |-> n]]
      key == IF frame.masked THEN [i \in 1..4 |-> [key |-> i]] ELSE <<>> IN
    <<[fin |-> frame.fin, op |-> frame.op], [masked |-> frame.masked, field |-> field]>>
      \o extended \o key \o [i \in 1..n |-> [byte |-> frame.payload[i]]]

BytesOf(fs) == Joined([i \in DOMAIN fs |-> Bytes(fs[i])])

-----------------------------------------------------------------------------
(* fillFrame.                                                              *)

Available(at) == Len(readBuffer) - at

(* The length is read if all of its bytes are there.  If they are not, the *)
(* value that stands for "extended" is taken for the length; then the mask *)
(* or the payload is missing, because SmallPayload is large enough.        *)
LengthBytes ==
  IF readBuffer[2].field = SmallPayload /\ Available(2) >= 2 THEN 2
  ELSE IF readBuffer[2].field > SmallPayload /\ Available(2) >= 8 THEN 8 ELSE 0

Length == IF LengthBytes > 0 THEN readBuffer[3].length ELSE readBuffer[2].field

PayloadAt == 2 + LengthBytes + 4   \* behind the mask

(* A whole frame is there; Length is not negative, so its mask is, too.    *)
FrameThere == Available(0) >= 2 /\ Available(PayloadAt) >= Length

Frame ==
  [fin |-> readBuffer[1].fin, op |-> readBuffer[1].op,
   payload |-> [i \in 1..Length |-> readBuffer[PayloadAt + i].byte]]

Unmasked == Available(0) >= 2 /\ ~readBuffer[2].masked

(* Mutation: what came behind the frame is dropped with it.                *)
ClearAll == readBuffer' = <<>>

(* clearFrame.                                                             *)
ClearFrame ==
  readBuffer' = SubSeq(readBuffer, PayloadAt + Length + 1, Len(readBuffer))

-----------------------------------------------------------------------------
(* Mutation: a frame in the middle does not say that it is one.            *)
SendMessageAlwaysOp(op, payload, final) ==
  /\ sent' = Append(sent, [op |-> op, fin |-> final, payload |-> payload])
  /\ asked' = Append(asked, [op |-> op, fin |-> final, payload |-> payload])
  /\ nextIsContinuation' = ~final

(* sendMessage.                                                            *)
SendMessage(op, payload, final) ==
  /\ sent' = Append(sent, [op |-> IF nextIsContinuation THEN "Continuation" ELSE op,
                           fin |-> final, payload |-> payload])
  /\ asked' = Append(asked, [op |-> op, fin |-> final, payload |-> payload])
  /\ nextIsContinuation' = ~final

(* close: a Close frame, and the socket's close when it has been written.  *)
Close ==
  /\ SendMessage("Close", <<>>, TRUE)
  /\ socket' = "closed"

-----------------------------------------------------------------------------
(* The session handler.                                                    *)

(* readBytesMessage; the handler reads until it is given nil.              *)
ReadBytesMessage ==
  /\ reading = "none" /\ ~ended
  /\ reading' = "look"
  /\ UNCHANGED <<inVars, outVars, socket, delivered, ended, sends>>

(* sendBinaryMessage, in one frame or two, between two reads.              *)
SendBinaryMessage ==
  /\ reading = "none" /\ ~ended /\ socket = "open" /\ sends < MaxSends
  /\ \E final \in BOOLEAN : SendMessage("Binary", <<>>, final)
  /\ sends' = sends + 1
  /\ UNCHANGED <<inVars, socket, reading, delivered, ended>>

-----------------------------------------------------------------------------
(* readFrame.                                                              *)

(* A frame that is not for WebSocket itself.                               *)
Delivers ==
  /\ reading = "look" /\ ~Unmasked /\ FrameThere
  /\ Frame.op \notin {"Ping", "Close"}
  /\ ClearFrame
  /\ delivered' = Append(delivered, Frame)
  /\ reading' = "none"
  /\ UNCHANGED <<frames, inbound, taken, outVars, socket, ended, sends>>

(* The next frame is read when the Pong was written.                       *)
AnswersPing ==
  /\ reading = "look" /\ ~Unmasked /\ FrameThere /\ Frame.op = "Ping"
  /\ ClearFrame
  /\ SendMessage("Pong", Frame.payload, TRUE)
  /\ reading' = "pong"
  /\ UNCHANGED <<frames, inbound, taken, socket, delivered, ended, sends>>

PongDone ==
  /\ reading = "pong"
  /\ reading' = "look"
  /\ UNCHANGED <<inVars, outVars, socket, delivered, ended, sends>>

AnswersClose ==
  /\ reading = "look" /\ ~Unmasked /\ FrameThere /\ Frame.op = "Close"
  /\ ClearFrame
  /\ Close
  /\ reading' = "none" /\ ended' = TRUE
  /\ UNCHANGED <<frames, inbound, taken, delivered, sends>>

(* close, and then readFrame goes on as if the frame was not all there.    *)
RefusesUnmasked ==
  /\ reading = "look" /\ Unmasked
  /\ Close
  /\ reading' = "fill"
  /\ UNCHANGED <<inVars, delivered, ended, sends>>

NeedsMore ==
  /\ reading = "look" /\ ~Unmasked /\ ~FrameThere
  /\ reading' = "fill"
  /\ UNCHANGED <<inVars, outVars, socket, delivered, ended, sends>>

(* fillBuffer(demand: 1) and fillBufferSome: at least one byte.            *)
Fills ==
  /\ reading = "fill" /\ socket = "open"
  /\ \E k \in 1..Len(inbound) :
       /\ readBuffer' = readBuffer \o SubSeq(inbound, 1, k)
       /\ inbound' = SubSeq(inbound, k + 1, Len(inbound))
       /\ taken' = taken + k
  /\ reading' = "look"
  /\ UNCHANGED <<frames, outVars, socket, delivered, ended, sends>>

(* The client is gone, all it sent was read, or the socket was closed.     *)
FillFails ==
  /\ reading = "fill" /\ (inbound = <<>> \/ socket = "closed")
  /\ reading' = "none" /\ ended' = TRUE
  /\ UNCHANGED <<inVars, outVars, socket, delivered, sends>>

ReadFrame ==
  \/ Delivers \/ AnswersPing \/ PongDone \/ AnswersClose
  \/ RefusesUnmasked \/ NeedsMore \/ Fills \/ FillFails

=============================================================================
