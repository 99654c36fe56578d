------------------------- MODULE StreamReadersProofs -------------------------
(***************************************************************************)
(* Theorems about StreamReaders, for any conversation, any form and any    *)
(* way in which the network cuts them.                                     *)
(***************************************************************************)
EXTENDS StreamReaders, DataLemmas, SequenceTheorems

-----------------------------------------------------------------------------
(* What a WebSocket's handler sends.                                       *)

(* s is a sequence of something: what a payload is made of does not matter *)
(* here.                                                                   *)
ASeq(s) == \E S : s \in Seq(S)

(* A sequence after an Append.                                             *)
LEMMA Appended ==
  ASSUME NEW s, ASeq(s), NEW x
  PROVE  /\ ASeq(Append(s, x))
         /\ Len(s) \in Nat /\ DOMAIN s = 1..Len(s)
         /\ Len(Append(s, x)) = Len(s) + 1
         /\ DOMAIN Append(s, x) = 1..(Len(s) + 1)
         /\ \A i \in 1..Len(s) : Append(s, x)[i] = s[i]
         /\ Append(s, x)[Len(s) + 1] = x
<1>1. PICK S : s \in Seq(S)
  BY DEF ASeq
<1> DEFINE T == S \cup {x}
<1>2. s \in Seq(T) /\ x \in T
  BY <1>1
<1> HIDE DEF T
<1>3. Append(s, x) \in Seq(T)
  BY <1>2
<1>4. QED
  BY <1>2, <1>3 DEF ASeq

Opened(i) == i > 1 /\ ~asked[i - 1].fin

(* nextIsContinuation is what the last frame left, every frame was written *)
(* with what the frame before it left, and only data frames leave one      *)
(* unfinished.                                                             *)
Spoken ==
  /\ ASeq(sent) /\ ASeq(asked) /\ Len(sent) = Len(asked)
  /\ nextIsContinuation = (Len(asked) > 0 /\ ~asked[Len(asked)].fin)
  /\ \A i \in 1..Len(asked) :
       /\ sent[i].op = IF Opened(i) THEN "Continuation" ELSE asked[i].op
       /\ ~asked[i].fin => IsData(i)

(* Without an answer inside of a message, a frame is written as a          *)
(* continuation exactly if it continues one: the frame before an answer    *)
(* is not left open, so the last data frame is the last frame.             *)
LEMMA SpokenIsAsAsked == Spoken => MessagesAsAsked
<1> SUFFICES ASSUME Spoken, ~AnsweredInside,
                    NEW i \in DOMAIN sent
             PROVE  sent[i].op = IF IsData(i) /\ Unfinished(i)
                                 THEN "Continuation" ELSE asked[i].op
  BY DEF MessagesAsAsked
<1>1. /\ Len(asked) \in Nat /\ DOMAIN asked = 1..Len(asked)
      /\ DOMAIN sent = 1..Len(asked)
  BY Appended DEF Spoken
<1>2. ASSUME Opened(i)
      PROVE  IsData(i) /\ Unfinished(i)
  <2>1. i - 1 \in 1..Len(asked) /\ ~asked[i - 1].fin
    BY <1>1, <1>2 DEF Opened
  <2>2. IsData(i - 1)
    BY <2>1 DEF Spoken
  <2>3. Unfinished(i)
    <3>1. i - 1 \in 1..(i - 1) /\ ((i - 1) + 1)..(i - 1) = {}
      BY <2>1, <1>1
    <3>2. QED
      BY <3>1, <2>1, <2>2 DEF Unfinished
  <2>4. QED
    BY <2>3, <1>1 DEF AnsweredInside
<1>3. ASSUME Unfinished(i)
      PROVE  Opened(i)
  <2>1. PICK j \in 1..(i - 1) :
          /\ IsData(j) /\ ~asked[j].fin
          /\ \A k \in (j + 1)..(i - 1) : ~IsData(k)
    BY <1>3 DEF Unfinished
  <2>2. CASE j = i - 1
    BY <2>1, <2>2, <1>1 DEF Opened
  <2>3. CASE j # i - 1
    <3>1. /\ j + 1 \in (j + 1)..(i - 1) /\ j + 1 \in DOMAIN asked
          /\ j \in 1..((j + 1) - 1) /\ (j + 1)..((j + 1) - 1) = {}
      BY <2>1, <2>3, <1>1
    <3>2. ~IsData(j + 1)
      BY <3>1, <2>1
    <3>3. Unfinished(j + 1)
      BY <3>1, <2>1 DEF Unfinished
    <3>4. QED
      BY <3>1, <3>2, <3>3 DEF AnsweredInside
  <2>4. QED
    BY <2>2, <2>3
<1>4. sent[i].op = IF Opened(i) THEN "Continuation" ELSE asked[i].op
  BY <1>1 DEF Spoken
<1>5. QED
  BY <1>2, <1>3, <1>4

(* One more frame.  Only data frames are sent unfinished.                  *)
LEMMA OneMoreSpoken ==
  ASSUME Spoken, NEW op, NEW payload, NEW final \in BOOLEAN,
         final \/ op = "Binary", SendMessage(op, payload, final)
  PROVE  Spoken'
<1> DEFINE x == [op |-> op, fin |-> final, payload |-> payload]
           y == [op |-> IF nextIsContinuation THEN "Continuation" ELSE op,
                 fin |-> final, payload |-> payload]
           n == Len(asked)
<1>1. /\ asked' = Append(asked, x) /\ sent' = Append(sent, y)
      /\ nextIsContinuation' = ~final
  BY DEF SendMessage
<1>2. /\ ASeq(asked) /\ ASeq(sent) /\ Len(sent) = n
      /\ nextIsContinuation = (n > 0 /\ ~asked[n].fin)
      /\ \A i \in 1..n : /\ sent[i].op = IF Opened(i) THEN "Continuation" ELSE asked[i].op
                         /\ ~asked[i].fin => IsData(i)
  BY DEF Spoken
<1>3. /\ ASeq(asked') /\ Len(asked') = n + 1 /\ n \in Nat
      /\ \A i \in 1..n : asked'[i] = asked[i]
      /\ asked'[n + 1] = x
  BY <1>1, <1>2, Appended
<1>4. /\ ASeq(sent') /\ Len(sent') = n + 1
      /\ \A i \in 1..n : sent'[i] = sent[i]
      /\ sent'[n + 1] = y
  BY <1>1, <1>2, Appended
<1>5. /\ x.op = op /\ x.fin = final
      /\ y.op = IF nextIsContinuation THEN "Continuation" ELSE op
  OBVIOUS
<1> HIDE DEF x, y, n
<1>6. nextIsContinuation' = (Len(asked') > 0 /\ ~asked'[Len(asked')].fin)
  BY <1>1, <1>3, <1>5
<1>7. ASSUME NEW i \in 1..(n + 1)
      PROVE  /\ (sent[i].op)' = IF Opened(i)' THEN "Continuation" ELSE (asked[i].op)'
             /\ ~(asked[i].fin)' => IsData(i)'
  <2>1. CASE i \in 1..n
    <3>1. asked'[i] = asked[i] /\ sent'[i] = sent[i]
      BY <2>1, <1>3, <1>4
    <3>2. i > 1 => asked'[i - 1] = asked[i - 1]
      BY <2>1, <1>3
    <3>3. Opened(i)' = Opened(i)
      BY <3>2, <2>1, <1>3 DEF Opened
    <3>4. QED
      BY <3>1, <3>3, <2>1, <1>2 DEF IsData
  <2>2. CASE i = n + 1
    <3>1. i - 1 = n /\ (i > 1) = (n > 0)
      BY <2>2, <1>3
    <3>2. n > 0 => asked'[n] = asked[n]
      BY <1>3
    <3>3. Opened(i)' = nextIsContinuation
      BY <3>1, <3>2, <1>2 DEF Opened
    <3>4. QED
      BY <3>3, <2>2, <1>3, <1>4, <1>5 DEF IsData
  <2>3. QED
    BY <2>1, <2>2, <1>3
<1>8. QED
  BY <1>3, <1>4, <1>6, <1>7 DEF Spoken

LEMMA SpokenInit == Init => Spoken
<1> SUFFICES ASSUME Init PROVE Spoken
  OBVIOUS
<1>1. asked = <<>> /\ sent = <<>> /\ nextIsContinuation = FALSE
  BY DEF Init
<1>2. Len(<<>>) = 0 /\ <<>> \in Seq({}) /\ 1..0 = {}
  OBVIOUS
<1>3. ASeq(asked) /\ ASeq(sent)
  BY <1>1, <1>2 DEF ASeq
<1>4. Len(asked) = 0 /\ Len(sent) = 0 /\ ~(Len(asked) > 0)
  BY <1>1, <1>2
<1>5. ASSUME NEW i \in 1..Len(asked) PROVE FALSE
  BY <1>4, <1>2
<1>6. nextIsContinuation = (Len(asked) > 0 /\ ~asked[Len(asked)].fin)
  BY <1>1, <1>4
<1>7. QED
  BY <1>3, <1>4, <1>5, <1>6 DEF Spoken

LEMMA SpokenStep == Spoken /\ [Next]_vars => Spoken'
<1> SUFFICES ASSUME Spoken, [Next]_vars PROVE Spoken'
  OBVIOUS
<1>1. CASE UNCHANGED outVars
  BY <1>1 DEF outVars, Spoken, Opened, IsData
<1>2. CASE SendBinaryMessage
  BY <1>2, OneMoreSpoken DEF SendBinaryMessage
<1>3. CASE AnswersPing
  BY <1>3, OneMoreSpoken DEF AnswersPing
<1>4. CASE AnswersClose
  BY <1>4, OneMoreSpoken DEF AnswersClose, Close
<1>5. CASE RefusesUnmasked
  BY <1>5, OneMoreSpoken DEF RefusesUnmasked, Close
<1>6. \/ UNCHANGED outVars
      \/ SendBinaryMessage \/ AnswersPing \/ AnswersClose \/ RefusesUnmasked
  <2>1. CASE UNCHANGED vars \/ UNCHANGED socketVars
    BY <2>1 DEF vars, socketVars
  <2>2. CASE ReadBytesMessage
    BY <2>2 DEF ReadBytesMessage
  <2>3. CASE ReadFrame
    BY <2>3 DEF ReadFrame, Delivers, PongDone, NeedsMore, Fills, FillFails
  <2>4. CASE ClientLeaves
    BY <2>4 DEF ClientLeaves, outVars
  <2>5. QED
    BY <2>1, <2>2, <2>3, <2>4 DEF Next, Reading, Troubles
<1>7. QED
  BY <1>1, <1>2, <1>3, <1>4, <1>5, <1>6

(* For any conversation and however it arrives: as long as no ping and no  *)
(* close is answered inside of a message, every frame that a WebSocket     *)
(* writes says what it is.                                                 *)
THEOREM MessagesSentAsAsked == Spec => []MessagesAsAsked
<1>1. Spec => []Spoken
  BY SpokenInit, SpokenStep, PTL DEF Spec
<1>2. QED
  BY <1>1, SpokenIsAsAsked, PTL


-----------------------------------------------------------------------------
(* The bytes of a frame.                                                   *)

WireBytes ==
  [fin : BOOLEAN, op : OpcodeType] \cup [masked : BOOLEAN, field : Nat]
    \cup [length : Nat] \cup [key : Nat] \cup [byte : Nat]

(* How many bytes the length and the mask take.                            *)
ExtendedBytes(f) ==
  IF Len(f.payload) < SmallPayload THEN 0 ELSE IF Len(f.payload) <= Max16 THEN 2 ELSE 8
KeyBytes(f) == IF f.masked THEN 4 ELSE 0

Field(f) ==
  IF Len(f.payload) < SmallPayload THEN Len(f.payload)
  ELSE IF Len(f.payload) <= Max16 THEN SmallPayload ELSE SmallPayload + 1

LEMMA Sizes == /\ SmallPayload \in Nat /\ SmallPayload >= 3
               /\ Max16 \in Nat /\ Max16 >= SmallPayload
BY PayloadAssumption, Max16Assumption

(* Four sequences behind each other.                                       *)
LEMMA FourParts ==
  ASSUME NEW S, NEW h \in Seq(S), NEW e \in Seq(S), NEW k \in Seq(S), NEW p \in Seq(S),
         NEW b, b = h \o e \o k \o p
  PROVE  /\ b \in Seq(S) /\ Len(b) = Len(h) + Len(e) + Len(k) + Len(p)
         /\ \A i \in 1..Len(h) : b[i] = h[i]
         /\ \A i \in 1..Len(e) : b[Len(h) + i] = e[i]
         /\ \A i \in 1..Len(p) : b[Len(h) + Len(e) + Len(k) + i] = p[i]
<1>1. Len(h) \in Nat /\ Len(e) \in Nat /\ Len(k) \in Nat /\ Len(p) \in Nat
  OBVIOUS
<1>2. PICK c : c = h \o e
  OBVIOUS
<1>3. /\ c \in Seq(S) /\ Len(c) = Len(h) + Len(e)
      /\ \A i \in 1..Len(h) : c[i] = h[i]
      /\ \A i \in 1..Len(e) : c[Len(h) + i] = e[i]
  BY <1>2, ConcatIs
<1>4. PICK d : d = c \o k
  OBVIOUS
<1>5. /\ d \in Seq(S) /\ Len(d) = Len(c) + Len(k)
      /\ \A i \in 1..Len(c) : d[i] = c[i]
  <2>1. c \in Seq(S)
    BY <1>3
  <2>2. /\ c \o k \in Seq(S) /\ Len(c \o k) = Len(c) + Len(k)
        /\ \A i \in 1..Len(c) : (c \o k)[i] = c[i]
    BY <2>1, ConcatIs
  <2>3. QED
    BY <1>4, <2>2, Zenon
<1>6. b = d \o p
  BY <1>2, <1>4
<1>7. /\ b \in Seq(S) /\ Len(b) = Len(d) + Len(p)
      /\ \A i \in 1..Len(d) : b[i] = d[i]
      /\ \A i \in 1..Len(p) : b[Len(d) + i] = p[i]
  <2>1. d \in Seq(S)
    BY <1>5
  <2>2. /\ d \o p \in Seq(S) /\ Len(d \o p) = Len(d) + Len(p)
        /\ \A i \in 1..Len(d) : (d \o p)[i] = d[i]
        /\ \A i \in 1..Len(p) : (d \o p)[Len(d) + i] = p[i]
    BY <2>1, ConcatIs
  <2>3. QED
    BY <1>6, <2>2, Zenon
<1>8. Len(b) = Len(h) + Len(e) + Len(k) + Len(p)
  BY <1>1, <1>3, <1>5, <1>7
<1>9. \A i \in 1..Len(h) : b[i] = h[i]
  <2> SUFFICES ASSUME NEW i \in 1..Len(h) PROVE b[i] = h[i]
    OBVIOUS
  <2>1. i \in 1..Len(c) /\ i \in 1..Len(d)
    BY <1>1, <1>3, <1>5
  <2>2. QED
    BY <1>3, <1>5, <1>7, <2>1
<1>10. \A i \in 1..Len(e) : b[Len(h) + i] = e[i]
  <2> SUFFICES ASSUME NEW i \in 1..Len(e) PROVE b[Len(h) + i] = e[i]
    OBVIOUS
  <2>1. Len(h) + i \in 1..Len(c) /\ Len(h) + i \in 1..Len(d)
    BY <1>1, <1>3, <1>5
  <2>2. QED
    BY <1>3, <1>5, <1>7, <2>1
<1>11. \A i \in 1..Len(p) : b[Len(h) + Len(e) + Len(k) + i] = p[i]
  BY <1>3, <1>5, <1>7
<1>12. QED
  BY <1>7, <1>8, <1>9, <1>10, <1>11

LEMMA BytesIs ==
  ASSUME NEW f \in ClientFrame
  PROVE  LET b == Bytes(f)
             n == Len(f.payload)
             at == 2 + ExtendedBytes(f) + KeyBytes(f) IN
         /\ b \in Seq(WireBytes) /\ n \in Nat /\ Len(b) = at + n
         /\ b[1] = [fin |-> f.fin, op |-> f.op]
         /\ b[2] = [masked |-> f.masked, field |-> Field(f)]
         /\ ExtendedBytes(f) > 0 => b[3] = [length |-> n]
         /\ \A i \in 1..n : b[at + i] = [byte |-> f.payload[i]]
<1> DEFINE n == Len(f.payload)
           h == <<[fin |-> f.fin, op |-> f.op], [masked |-> f.masked, field |-> Field(f)]>>
           e == IF n < SmallPayload THEN <<>>
                ELSE [i \in 1..(IF n <= Max16 THEN 2 ELSE 8) |-> [length |-> n]]
           k == IF f.masked THEN [i \in 1..4 |-> [key |-> i]] ELSE <<>>
           p == [i \in 1..n |-> [byte |-> f.payload[i]]]
<1>1. f.payload \in Seq(Nat) /\ n \in Nat /\ f.fin \in BOOLEAN /\ f.op \in OpcodeType
      /\ f.masked \in BOOLEAN
  BY DEF ClientFrame
<1>2. Field(f) \in Nat
  BY <1>1, Sizes DEF Field
<1>3. /\ h \in Seq(WireBytes) /\ Len(h) = 2
      /\ h[1] = [fin |-> f.fin, op |-> f.op]
      /\ h[2] = [masked |-> f.masked, field |-> Field(f)]
  <2>1. [fin |-> f.fin, op |-> f.op] \in WireBytes
    BY <1>1 DEF WireBytes
  <2>2. [masked |-> f.masked, field |-> Field(f)] \in WireBytes
    BY <1>1, <1>2 DEF WireBytes
  <2> HIDE DEF WireBytes
  <2>3. QED
    BY <2>1, <2>2
<1>4. /\ e \in Seq(WireBytes) /\ Len(e) = ExtendedBytes(f)
      /\ \A i \in 1..Len(e) : e[i] = [length |-> n]
  <2>1. [length |-> n] \in WireBytes
    BY <1>1 DEF WireBytes
  <2> DEFINE m == IF n <= Max16 THEN 2 ELSE 8
             x == [length |-> n]
             g == [i \in 1..m |-> x]
  <2>2. m \in Nat
    BY <1>1, Sizes
  <2>3. g \in Seq(WireBytes) /\ Len(g) = m /\ \A i \in 1..m : g[i] = x
    <3> HIDE DEF WireBytes, x, m
    <3>1. x \in WireBytes
      BY <2>1 DEF x
    <3>2. \A i \in 1..m : x \in WireBytes
      BY <3>1
    <3>3. g \in Seq(WireBytes)
      BY <2>2, <3>2
    <3>4. Len(g) = m /\ \A i \in 1..m : g[i] = x
      BY <2>2
    <3>5. QED
      BY <3>3, <3>4
  <2>4. CASE n < SmallPayload
    <3>1. e = <<>> /\ ExtendedBytes(f) = 0
      BY <2>4 DEF ExtendedBytes
    <3>2. QED
      BY <3>1
  <2>5. CASE ~(n < SmallPayload)
    <3>1. e = g /\ ExtendedBytes(f) = m
      BY <2>5 DEF ExtendedBytes
    <3> HIDE DEF g, m, e, x
    <3>2. Len(e) = ExtendedBytes(f) /\ e \in Seq(WireBytes) /\ \A i \in 1..Len(e) : e[i] = x
      BY <2>3, <3>1
    <3>3. QED
      BY <3>2 DEF x
  <2>6. QED
    BY <2>4, <2>5
<1>5. k \in Seq(WireBytes) /\ Len(k) = KeyBytes(f)
  <2> DEFINE g == [i \in 1..4 |-> [key |-> i]]
  <2>1. \A i \in 1..4 : [key |-> i] \in WireBytes
    BY DEF WireBytes
  <2> HIDE DEF WireBytes
  <2>2. g \in Seq(WireBytes) /\ Len(g) = 4
    BY <2>1
  <2>3. <<>> \in Seq(WireBytes) /\ Len(<<>>) = 0
    OBVIOUS
  <2> HIDE DEF g
  <2>4. k = IF f.masked THEN g ELSE <<>>
    BY DEF g
  <2> HIDE DEF k
  <2>5. CASE f.masked
    <3>1. k = g /\ KeyBytes(f) = 4
      BY <2>4, <2>5 DEF KeyBytes
    <3>2. QED
      BY <2>2, <3>1
  <2>6. CASE ~f.masked
    <3>1. k = <<>> /\ KeyBytes(f) = 0
      BY <2>4, <2>6 DEF KeyBytes
    <3>2. QED
      BY <2>3, <3>1
  <2>7. QED
    BY <2>5, <2>6
<1>6. p \in Seq(WireBytes) /\ Len(p) = n /\ \A i \in 1..n : p[i] = [byte |-> f.payload[i]]
  <2> DEFINE y == f.payload
  <2>1. y \in Seq(Nat) /\ n = Len(y)
    BY <1>1
  <2> HIDE DEF y
  <2>2. \A i \in 1..n : y[i] \in Nat
    BY <2>1
  <2>3. \A i \in 1..n : [byte |-> y[i]] \in WireBytes
    BY <2>2 DEF WireBytes
  <2> HIDE DEF WireBytes
  <2> DEFINE g == [i \in 1..n |-> [byte |-> y[i]]]
  <2>4. g \in Seq(WireBytes)
    <3> HIDE DEF n
    <3>1. QED
      BY <1>1, <2>3
  <2>5. Len(g) = n /\ \A i \in 1..n : g[i] = [byte |-> y[i]]
    <3> HIDE DEF n
    <3>1. QED
      BY <1>1
  <2>6. QED
    BY <2>4, <2>5 DEF y
<1>7. Bytes(f) = h \o e \o k \o p
  BY DEF Bytes, Field
<1> HIDE DEF h, e, k, p, n
<1>8. /\ Bytes(f) \in Seq(WireBytes)
      /\ Len(Bytes(f)) = Len(h) + Len(e) + Len(k) + Len(p)
      /\ \A i \in 1..Len(h) : Bytes(f)[i] = h[i]
      /\ \A i \in 1..Len(e) : Bytes(f)[Len(h) + i] = e[i]
      /\ \A i \in 1..Len(p) : Bytes(f)[Len(h) + Len(e) + Len(k) + i] = p[i]
  <2>1. h \in Seq(WireBytes) /\ e \in Seq(WireBytes) /\ k \in Seq(WireBytes) /\ p \in Seq(WireBytes)
    BY <1>3, <1>4, <1>5, <1>6
  <2>2. QED
    BY <1>7, <2>1, FourParts
<1> DEFINE b == Bytes(f)
           at == 2 + ExtendedBytes(f) + KeyBytes(f)
<1> HIDE DEF b, at
<1>9. b \in Seq(WireBytes) /\ Len(b) = at + n
  BY <1>3, <1>4, <1>5, <1>6, <1>8 DEF b, at
<1>10. b[1] = h[1] /\ b[2] = h[2]
  BY <1>3, <1>8 DEF b
<1>11. ASSUME ExtendedBytes(f) > 0 PROVE b[3] = [length |-> n]
  <2>1. ExtendedBytes(f) \in Nat
    BY DEF ExtendedBytes
  <2>2. 1 \in 1..Len(e) /\ Len(h) + 1 = 3
    BY <1>3, <1>4, <1>11, <2>1
  <2>3. b[3] = e[1] /\ e[1] = [length |-> n]
    BY <1>4, <1>8, <2>2 DEF b
  <2>4. QED
    BY <2>3
<1>12. \A i \in 1..n : b[at + i] = [byte |-> f.payload[i]]
  <2> SUFFICES ASSUME NEW i \in 1..n PROVE b[at + i] = p[i]
    BY <1>6
  <2>1. i \in 1..Len(p) /\ at = Len(h) + Len(e) + Len(k)
    BY <1>3, <1>4, <1>5, <1>6 DEF at
  <2>2. QED
    BY <1>8, <2>1 DEF b
<1>13. QED
  BY <1>1, <1>3, <1>9, <1>10, <1>11, <1>12 DEF b, at, n

-----------------------------------------------------------------------------
(* What readFrame makes of the bytes in its buffer, where those of f       *)
(* begin.                                                                  *)

Shown(f) == [fin |-> f.fin, op |-> f.op, payload |-> f.payload]

InBuffer(f) ==
  /\ readBuffer \in Seq(WireBytes)
  /\ \A i \in 1..Len(Bytes(f)) : i <= Len(readBuffer) => readBuffer[i] = Bytes(f)[i]

LEMMA TooShort ==
  ASSUME readBuffer \in Seq(WireBytes), Len(readBuffer) < 2
  PROVE  ~Unmasked /\ ~FrameThere
<1>1. Len(readBuffer) \in Nat
  OBVIOUS
<1>2. ~(Available(0) >= 2)
  BY <1>1 DEF Available
<1>3. QED
  BY <1>2 DEF Unmasked, FrameThere

LEMMA HeaderInBuffer ==
  ASSUME NEW f \in ClientFrame, InBuffer(f), Len(readBuffer) >= 2
  PROVE  /\ readBuffer[1] = [fin |-> f.fin, op |-> f.op]
         /\ readBuffer[2] = [masked |-> f.masked, field |-> Field(f)]
         /\ Unmasked <=> ~f.masked
<1> DEFINE b == Bytes(f)
           m == Len(readBuffer)
<1>1. m \in Nat /\ m >= 2
  BY DEF InBuffer
<1>2. /\ Len(b) = 2 + ExtendedBytes(f) + KeyBytes(f) + Len(f.payload) /\ Len(f.payload) \in Nat
      /\ b[1] = [fin |-> f.fin, op |-> f.op]
      /\ b[2] = [masked |-> f.masked, field |-> Field(f)]
  BY BytesIs
<1>3. ExtendedBytes(f) \in Nat /\ KeyBytes(f) \in Nat
  BY DEF ExtendedBytes, KeyBytes
<1>4. \A i \in 1..Len(b) : i <= m => readBuffer[i] = b[i]
  BY DEF InBuffer
<1> HIDE DEF b, m
<1>5. 1 \in 1..Len(b) /\ 2 \in 1..Len(b) /\ 1 <= m /\ 2 <= m
  BY <1>1, <1>2, <1>3
<1>6. readBuffer[1] = b[1] /\ readBuffer[2] = b[2]
  BY <1>4, <1>5
<1>7. readBuffer[2].masked = f.masked
  BY <1>2, <1>6
<1>8. Available(0) >= 2
  BY <1>1 DEF Available, m
<1>9. QED
  BY <1>2, <1>6, <1>7, <1>8 DEF Unmasked

(* The length that is read is the frame's as soon as its bytes are there.  *)
LEMMA LengthInBuffer ==
  ASSUME NEW f \in ClientFrame, InBuffer(f), Len(readBuffer) >= 2
  PROVE  /\ Len(readBuffer) - 2 >= ExtendedBytes(f) =>
              LengthBytes = ExtendedBytes(f) /\ Length = Len(f.payload)
         /\ ~(Len(readBuffer) - 2 >= ExtendedBytes(f)) =>
              LengthBytes = 0 /\ Length = Field(f) /\ Field(f) >= SmallPayload
<1> DEFINE b == Bytes(f)
           m == Len(readBuffer)
           n == Len(f.payload)
           x == ExtendedBytes(f)
<1>1. m \in Nat /\ m >= 2
  BY DEF InBuffer
<1>2. /\ Len(b) = 2 + x + KeyBytes(f) + n /\ n \in Nat
      /\ x > 0 => b[3] = [length |-> n]
  BY BytesIs
<1>3. x \in {0, 2, 8} /\ KeyBytes(f) \in Nat
  BY DEF ExtendedBytes, KeyBytes
<1>4. \A i \in 1..Len(b) : i <= m => readBuffer[i] = b[i]
  BY DEF InBuffer
<1>5. readBuffer[2].field = Field(f)
  <2>1. readBuffer[2] = [masked |-> f.masked, field |-> Field(f)]
    BY HeaderInBuffer
  <2>2. QED
    BY <2>1
<1>6. /\ x = 0 => Field(f) = n /\ n < SmallPayload
      /\ x = 2 => Field(f) = SmallPayload
      /\ x = 8 => Field(f) = SmallPayload + 1
  BY <1>2, Sizes DEF ExtendedBytes, Field
<1>7. Available(2) = m - 2
  BY DEF Available
<1> HIDE DEF b, m, n, x
<1>8. m - 2 >= x => LengthBytes = x
  BY <1>1, <1>2, <1>3, <1>5, <1>6, <1>7, Sizes DEF LengthBytes
<1>9. ~(m - 2 >= x) => LengthBytes = 0 /\ Field(f) >= SmallPayload
  BY <1>1, <1>2, <1>3, <1>5, <1>6, <1>7, Sizes DEF LengthBytes
<1>10. ASSUME m - 2 >= x PROVE Length = n
  <2>1. CASE x = 0
    <3>1. ~(LengthBytes > 0)
      BY <1>8, <1>10, <2>1
    <3>2. QED
      BY <1>5, <1>6, <2>1, <3>1 DEF Length
  <2>2. CASE x # 0
    <3>1. x > 0 /\ LengthBytes > 0
      BY <1>3, <1>8, <1>10, <2>2
    <3>2. 3 \in 1..Len(b) /\ 3 <= m
      BY <1>1, <1>2, <1>3, <1>10, <2>2
    <3>3. readBuffer[3] = b[3] /\ b[3] = [length |-> n]
      BY <1>2, <1>4, <3>1, <3>2
    <3>4. readBuffer[3].length = n
      BY <3>3
    <3>5. QED
      BY <3>1, <3>4 DEF Length
  <2>3. QED
    BY <2>1, <2>2
<1>11. ASSUME ~(m - 2 >= x) PROVE Length = Field(f)
  <2>1. ~(LengthBytes > 0)
    BY <1>9, <1>11
  <2>2. QED
    BY <1>5, <2>1 DEF Length
<1>12. QED
  BY <1>8, <1>9, <1>10, <1>11 DEF m, n, x

(* A masked frame is found exactly if all of it is there, and is shown as  *)
(* it was sent.                                                            *)
LEMMA FrameInBuffer ==
  ASSUME NEW f \in ClientFrame, InBuffer(f), f.masked
  PROVE  /\ FrameThere <=> Len(readBuffer) >= Len(Bytes(f))
         /\ FrameThere => Frame = Shown(f) /\ PayloadAt + Length = Len(Bytes(f))
<1> DEFINE b == Bytes(f)
           m == Len(readBuffer)
           n == Len(f.payload)
           x == ExtendedBytes(f)
<1>1. m \in Nat
  BY DEF InBuffer
<1>2. x \in {0, 2, 8} /\ KeyBytes(f) = 4
  BY DEF ExtendedBytes, KeyBytes
<1>3. n \in Nat /\ Len(b) = 6 + x + n /\ \A i \in 1..n : b[6 + x + i] = [byte |-> f.payload[i]]
  <2>1. n \in Nat /\ Len(b) = 2 + x + KeyBytes(f) + n
        /\ \A i \in 1..n : b[2 + x + KeyBytes(f) + i] = [byte |-> f.payload[i]]
    BY BytesIs
  <2>2. 2 + x + KeyBytes(f) = 6 + x
    BY <1>2
  <2> HIDE DEF b, n, x
  <2>3. QED
    BY <2>1, <2>2
<1>4. \A i \in 1..Len(b) : i <= m => readBuffer[i] = b[i]
  BY DEF InBuffer
<1>5. Available(0) = m /\ Available(PayloadAt) = m - PayloadAt
  BY <1>1 DEF Available
<1>6. FrameThere <=> m >= 2 /\ m - PayloadAt >= Length
  BY <1>5 DEF FrameThere
<1>7. f.payload \in Seq(Nat)
  BY DEF ClientFrame
<1>8. m >= 2 => /\ m - 2 >= x => LengthBytes = x /\ Length = n
                /\ ~(m - 2 >= x) => LengthBytes = 0 /\ Length = Field(f) /\ Field(f) >= SmallPayload
  BY LengthInBuffer
<1>9. Field(f) \in Nat
  BY <1>3, Sizes DEF Field
<1> HIDE DEF b, m, n, x
<1>10. PayloadAt = 6 + LengthBytes
  <2>1. m >= 2 => LengthBytes \in Nat
    BY <1>2, <1>8
  <2>2. LengthBytes \in {0, 2, 8}
    BY DEF LengthBytes
  <2>3. QED
    BY <2>2 DEF PayloadAt
<1>11. FrameThere <=> m >= Len(b)
  <2>1. CASE m >= 2 /\ m - 2 >= x
    BY <1>1, <1>2, <1>3, <1>6, <1>8, <1>10, <2>1
  <2>2. CASE m >= 2 /\ ~(m - 2 >= x)
    <3>1. ~(m >= Len(b))
      BY <1>1, <1>2, <1>3, <2>2
    <3>2. PayloadAt = 6 /\ Length >= 3 /\ Length \in Nat /\ m < 10
      BY <1>1, <1>2, <1>8, <1>9, <1>10, <2>2, Sizes
    <3>3. m - PayloadAt < Length
      <4>1. m - 6 < 4 /\ m \in Nat
        BY <1>1, <3>2
      <4>2. x = 8 => Length >= 4
        BY <1>3, <1>8, <2>2, Sizes DEF Field, x, ExtendedBytes, n
      <4>3. x # 8 => m < 4
        BY <1>1, <1>2, <2>2
      <4>4. QED
        BY <3>2, <4>1, <4>2, <4>3
    <3>4. QED
      BY <1>1, <1>6, <3>1, <3>2, <3>3
  <2>3. CASE ~(m >= 2)
    BY <1>1, <1>2, <1>3, <1>6, <2>3
  <2>4. QED
    BY <2>1, <2>2, <2>3
<1>12. ASSUME FrameThere
       PROVE  Frame = Shown(f) /\ PayloadAt + Length = Len(b)
  <2>1. m >= 2 /\ m - 2 >= x /\ m >= Len(b)
    BY <1>1, <1>2, <1>3, <1>11, <1>12
  <2>2. LengthBytes = x /\ Length = n /\ PayloadAt = 6 + x
    BY <1>8, <1>10, <2>1
  <2>3. readBuffer[1].fin = f.fin /\ readBuffer[1].op = f.op
    <3>1. readBuffer[1] = [fin |-> f.fin, op |-> f.op]
      BY <2>1, HeaderInBuffer DEF m
    <3>2. QED
      BY <3>1
  <2>4. ASSUME NEW i \in 1..n
        PROVE  readBuffer[PayloadAt + i].byte = f.payload[i]
    <3>1. PayloadAt + i = 6 + x + i /\ 6 + x + i \in 1..Len(b) /\ 6 + x + i <= m
      <4>1. x \in Nat /\ n \in Nat /\ Len(b) = 6 + x + n
        BY <1>2, <1>3
      <4>2. 6 + x + i \in 1..(6 + x + n) /\ 6 + x + i <= 6 + x + n
        BY <4>1
      <4>3. PayloadAt + i = 6 + x + i
        BY <2>2
      <4>4. 6 + x + n <= m
        BY <2>1, <4>1
      <4>5. 6 + x + i <= m
        BY <1>1, <4>1, <4>2, <4>4
      <4>6. QED
        BY <4>1, <4>2, <4>3, <4>5
    <3>2. readBuffer[PayloadAt + i] = [byte |-> f.payload[i]]
      BY <1>3, <1>4, <3>1
    <3>3. QED
      BY <3>2
  <2>5. [i \in 1..n |-> readBuffer[PayloadAt + i].byte] = f.payload
    <3>1. [i \in 1..n |-> readBuffer[PayloadAt + i].byte] = [i \in 1..n |-> f.payload[i]]
      BY <2>4
    <3>2. [i \in 1..n |-> f.payload[i]] = f.payload
      BY <1>7 DEF n
    <3>3. QED
      BY <3>1, <3>2, Zenon
  <2>6. Frame = Shown(f)
    BY <2>2, <2>3, <2>5 DEF Frame, Shown
  <2>7. QED
    BY <1>2, <1>3, <2>2, <2>6
<1>13. QED
  BY <1>11, <1>12 DEF m, b

-----------------------------------------------------------------------------
(* What the frames of a client make together.                              *)

DueOf(f) == IF f.op = "Ping" THEN <<>>
            ELSE <<[fin |-> f.fin, op |-> f.op, payload |-> f.payload]>>
PingOf(f) == IF f.op = "Ping" THEN <<f.payload>> ELSE <<>>
PongOf(x) == IF x.op = "Pong" THEN <<x.payload>> ELSE <<>>

ShownFrames == [fin : BOOLEAN, op : OpcodeType, payload : Seq(Nat)]

BytesFun == [f \in ClientFrame |-> Bytes(f)]
DueFun == [f \in ClientFrame |-> DueOf(f)]
PingFun == [f \in ClientFrame |-> PingOf(f)]
PongFun == [x \in ShownFrames |-> PongOf(x)]

LEMMA ShownType == ASSUME NEW f \in ClientFrame PROVE Shown(f) \in ShownFrames
BY DEF Shown, ShownFrames, ClientFrame

LEMMA BytesGives == Gives(BytesFun, ClientFrame, Seq(WireBytes))
<1>1. \A f \in ClientFrame : Bytes(f) \in Seq(WireBytes)
  BY BytesIs
<1> HIDE DEF ClientFrame, WireBytes
<1>2. \A f \in ClientFrame : BytesFun[f] = Bytes(f)
  BY DEF BytesFun
<1>3. QED
  BY <1>1, <1>2, Zenon DEF Gives

LEMMA DueGives == Gives(DueFun, ClientFrame, Seq(ShownFrames))
<1>1. ASSUME NEW f \in ClientFrame PROVE DueOf(f) \in Seq(ShownFrames)
  <2>1. DueOf(f) = IF f.op = "Ping" THEN <<>> ELSE <<Shown(f)>>
    BY DEF DueOf, Shown
  <2>2. Shown(f) \in ShownFrames
    BY ShownType
  <2> HIDE DEF ShownFrames
  <2>3. <<>> \in Seq(ShownFrames) /\ <<Shown(f)>> \in Seq(ShownFrames)
    BY <2>2
  <2>4. QED
    BY <2>1, <2>3, Zenon
<1> HIDE DEF ClientFrame, ShownFrames
<1>2. \A f \in ClientFrame : DueFun[f] = DueOf(f)
  BY DEF DueFun
<1>3. QED
  BY <1>1, <1>2, Zenon DEF Gives

LEMMA PingGives == Gives(PingFun, ClientFrame, Seq(Seq(Nat)))
<1>1. ASSUME NEW f \in ClientFrame PROVE PingOf(f) \in Seq(Seq(Nat))
  <2>1. f.payload \in Seq(Nat)
    BY DEF ClientFrame
  <2>2. <<>> \in Seq(Seq(Nat)) /\ <<f.payload>> \in Seq(Seq(Nat))
    BY <2>1
  <2>3. QED
    BY <2>2, Zenon DEF PingOf
<1> HIDE DEF ClientFrame
<1>2. \A f \in ClientFrame : PingFun[f] = PingOf(f)
  BY DEF PingFun
<1>3. QED
  BY <1>1, <1>2, Zenon DEF Gives

LEMMA PongGives == Gives(PongFun, ShownFrames, Seq(Seq(Nat)))
<1>1. ASSUME NEW f \in ShownFrames PROVE PongOf(f) \in Seq(Seq(Nat))
  <2>1. f.payload \in Seq(Nat)
    BY DEF ShownFrames
  <2>2. <<>> \in Seq(Seq(Nat)) /\ <<f.payload>> \in Seq(Seq(Nat))
    BY <2>1
  <2>3. QED
    BY <2>2, Zenon DEF PongOf
<1> HIDE DEF ShownFrames
<1>2. \A f \in ShownFrames : PongFun[f] = PongOf(f)
  BY DEF PongFun
<1>3. QED
  BY <1>1, <1>2, Zenon DEF Gives

(* Each of the four is what its function makes.                            *)
LEMMA BytesMade ==
  ASSUME NEW fs \in Seq(ClientFrame)
  PROVE  BytesOf(fs) = Joined(Each(BytesFun, fs))
<1>1. \A i \in DOMAIN fs : fs[i] \in ClientFrame
  OBVIOUS
<1> HIDE DEF ClientFrame
<1>2. \A i \in DOMAIN fs : BytesFun[fs[i]] = Bytes(fs[i])
  BY <1>1 DEF BytesFun
<1>3. [i \in DOMAIN fs |-> Bytes(fs[i])] = Each(BytesFun, fs)
  BY <1>2 DEF Each
<1>4. QED
  BY <1>3 DEF BytesOf

LEMMA DueMade ==
  ASSUME NEW fs \in Seq(ClientFrame)
  PROVE  Due(fs) = Joined(Each(DueFun, fs))
<1>1. \A i \in DOMAIN fs : fs[i] \in ClientFrame
  OBVIOUS
<1> HIDE DEF ClientFrame
<1>2. \A i \in DOMAIN fs : DueFun[fs[i]] = DueOf(fs[i])
  BY <1>1 DEF DueFun
<1>3. [i \in DOMAIN fs |-> DueOf(fs[i])] = Each(DueFun, fs)
  BY <1>2 DEF Each
<1>4. QED
  BY <1>3 DEF Due, DueOf

LEMMA PingsMade ==
  ASSUME NEW fs \in Seq(ClientFrame)
  PROVE  Pings(fs) = Joined(Each(PingFun, fs))
<1>1. \A i \in DOMAIN fs : fs[i] \in ClientFrame
  OBVIOUS
<1> HIDE DEF ClientFrame
<1>2. \A i \in DOMAIN fs : PingFun[fs[i]] = PingOf(fs[i])
  BY <1>1 DEF PingFun
<1>3. [i \in DOMAIN fs |-> PingOf(fs[i])] = Each(PingFun, fs)
  BY <1>2 DEF Each
<1>4. QED
  BY <1>3 DEF Pings, PingOf

LEMMA PongsMade ==
  ASSUME NEW xs \in Seq(ShownFrames)
  PROVE  Pongs(xs) = Joined(Each(PongFun, xs))
<1>1. \A i \in DOMAIN xs : xs[i] \in ShownFrames
  OBVIOUS
<1> HIDE DEF ShownFrames
<1>2. \A i \in DOMAIN xs : PongFun[xs[i]] = PongOf(xs[i])
  BY <1>1 DEF PongFun
<1>3. [i \in DOMAIN xs |-> PongOf(xs[i])] = Each(PongFun, xs)
  BY <1>2 DEF Each
<1>4. QED
  BY <1>3 DEF Pongs, PongOf

(* One more answer.                                                        *)
LEMMA PongsMore ==
  ASSUME NEW xs \in Seq(ShownFrames), NEW x \in ShownFrames
  PROVE  Pongs(Append(xs, x)) = Pongs(xs) \o PongOf(x)
<1>1. Append(xs, x) \in Seq(ShownFrames)
  BY AppendProperties
<1>2. Joined(Each(PongFun, Append(xs, x))) = Joined(Each(PongFun, xs)) \o PongFun[x]
  BY PongGives, MadeMore
<1>3. PongFun[x] = PongOf(x)
  BY DEF PongFun
<1>4. QED
  BY <1>1, <1>2, <1>3, PongsMade

(* The first frames of a conversation.                                     *)
Start(fs, k) == Len(BytesOf(First(fs, k)))

LEMMA OfFirst ==
  ASSUME NEW fs \in Seq(ClientFrame), NEW k \in 0..Len(fs)
  PROVE  /\ BytesOf(First(fs, k)) = Made(BytesFun, fs, k)
         /\ Due(First(fs, k)) = Made(DueFun, fs, k)
         /\ Pings(First(fs, k)) = Made(PingFun, fs, k)
<1>1. First(fs, k) \in Seq(ClientFrame)
  BY FirstIs
<1> QED
  BY <1>1, BytesMade, DueMade, PingsMade DEF Made

LEMMA BytesOfFirst ==
  ASSUME NEW fs \in Seq(ClientFrame), NEW k \in 0..Len(fs)
  PROVE  /\ BytesOf(fs) \in Seq(WireBytes)
         /\ Start(fs, k) \in Nat /\ Start(fs, 0) = 0 /\ Start(fs, Len(fs)) = Len(BytesOf(fs))
         /\ \A j \in k..Len(fs) : Start(fs, k) <= Start(fs, j)
         /\ k < Len(fs) =>
              /\ Start(fs, k + 1) = Start(fs, k) + Len(Bytes(fs[k + 1]))
              /\ \A i \in 1..Len(Bytes(fs[k + 1])) :
                   BytesOf(fs)[Start(fs, k) + i] = Bytes(fs[k + 1])[i]
<1> DEFINE n == Len(fs)
           m(j) == Made(BytesFun, fs, j)
<1>1. n \in Nat /\ k \in 0..n /\ \A j \in 1..n : fs[j] \in ClientFrame
  OBVIOUS
<1>2. ASSUME NEW j \in 0..n
      PROVE  /\ m(j) \in Seq(WireBytes) /\ m(0) = <<>> /\ m(n) = Joined(Each(BytesFun, fs))
             /\ \A i \in j..n : Begins(m(j), m(i))
             /\ j < n => m(j + 1) = m(j) \o BytesFun[fs[j + 1]]
  BY BytesGives, MadeIs
<1>3. \A j \in 0..n : Start(fs, j) = Len(m(j))
  BY OfFirst DEF Start
<1>4. BytesOf(fs) = m(n)
  BY <1>1, <1>2, BytesMade
<1> HIDE DEF m, n, WireBytes
<1>5. BytesOf(fs) \in Seq(WireBytes)
  BY <1>1, <1>2, <1>4
<1>6. \A j \in 0..n : Start(fs, j) \in Nat
  BY <1>2, <1>3
<1>7. Start(fs, 0) = 0
  <2>1. 0 \in 0..n /\ Len(m(0)) = 0
    BY <1>1, <1>2
  <2>2. QED
    BY <1>3, <2>1
<1>8. Start(fs, n) = Len(BytesOf(fs))
  BY <1>1, <1>3, <1>4
<1>9. \A j \in k..n : Start(fs, k) <= Start(fs, j)
  BY <1>1, <1>2, <1>3 DEF Begins
<1>10. ASSUME k < n
       PROVE  /\ Start(fs, k + 1) = Start(fs, k) + Len(Bytes(fs[k + 1]))
              /\ \A i \in 1..Len(Bytes(fs[k + 1])) :
                   BytesOf(fs)[Start(fs, k) + i] = Bytes(fs[k + 1])[i]
  <2> DEFINE f == fs[k + 1]
             b == Bytes(f)
             c == m(k)
             d == m(k + 1)
  <2>1. k + 1 \in 0..n /\ k + 1 \in 1..n /\ n \in (k + 1)..n
    BY <1>1, <1>10
  <2>2. f \in ClientFrame
    BY <1>1, <2>1
  <2>3. b \in Seq(WireBytes)
    BY <2>2, BytesIs
  <2>4. BytesFun[f] = b
    BY <2>2 DEF BytesFun
  <2>5. c \in Seq(WireBytes) /\ d = c \o b
    BY <1>1, <1>2, <1>10, <2>4
  <2>6. Begins(d, BytesOf(fs))
    BY <1>2, <1>4, <2>1
  <2>7. Start(fs, k) = Len(c) /\ Start(fs, k + 1) = Len(d)
    BY <1>1, <1>3, <2>1
  <2> HIDE DEF b, c, d, f
  <2>8. /\ Len(d) = Len(c) + Len(b)
        /\ \A i \in 1..Len(b) : d[Len(c) + i] = b[i]
    BY <2>3, <2>5, ConcatIs
  <2>9. ASSUME NEW i \in 1..Len(b) PROVE BytesOf(fs)[Len(c) + i] = b[i]
    <3>1. Len(c) \in Nat /\ Len(b) \in Nat
      BY <2>3, <2>5
    <3>2. Len(c) + i \in 1..Len(d)
      BY <2>8, <3>1
    <3>3. QED
      BY <2>6, <2>8, <3>2 DEF Begins
  <2>10. QED
    BY <2>7, <2>8, <2>9 DEF b, f
<1>11. QED
  BY <1>1, <1>5, <1>6, <1>7, <1>8, <1>9, <1>10 DEF n

(* IsPrefix, which Begins is for sequences.                                *)
LEMMA BeginsIsPrefix ==
  ASSUME NEW S, NEW a \in Seq(S), NEW b \in Seq(S), Begins(a, b)
  PROVE  IsPrefix(a, b)
<1>1. Len(a) \in Nat /\ Len(b) \in Nat /\ Len(a) <= Len(b)
  BY DEF Begins
<1>2. Len(a) \in 0..Len(a) /\ Len(a) \in 0..Len(b)
  BY <1>1
<1>3. First(a, Len(a)) = a
  BY <1>2, FirstIs
<1> DEFINE c == First(b, Len(a))
<1>4. c \in Seq(S) /\ Len(c) = Len(a) /\ \A i \in 1..Len(a) : c[i] = b[i]
  BY <1>2, FirstIs
<1> HIDE DEF c
<1>5. \A i \in 1..Len(a) : a[i] = c[i]
  BY <1>4 DEF Begins
<1>6. a = c
  BY <1>4, <1>5, SeqEqual
<1>7. QED
  BY <1>1, <1>3, <1>6 DEF IsPrefix, First, c

LEMMA SaidOfFirst ==
  ASSUME NEW fs \in Seq(ClientFrame), NEW k \in 0..Len(fs)
  PROVE  /\ Due(First(fs, k)) \in Seq(ShownFrames) /\ Due(First(fs, 0)) = <<>>
         /\ Pings(First(fs, k)) \in Seq(Seq(Nat)) /\ Pings(First(fs, 0)) = <<>>
         /\ \A j \in k..Len(fs) : /\ IsPrefix(Due(First(fs, k)), Due(First(fs, j)))
                                  /\ IsPrefix(Pings(First(fs, k)), Pings(First(fs, j)))
         /\ k < Len(fs) =>
              /\ Due(First(fs, k + 1)) = Due(First(fs, k)) \o DueOf(fs[k + 1])
              /\ Pings(First(fs, k + 1)) = Pings(First(fs, k)) \o PingOf(fs[k + 1])
<1> DEFINE n == Len(fs)
           d(j) == Made(DueFun, fs, j)
           p(j) == Made(PingFun, fs, j)
<1>1. n \in Nat /\ k \in 0..n /\ \A j \in 1..n : fs[j] \in ClientFrame
  OBVIOUS
<1>2. ASSUME NEW j \in 0..n
      PROVE  /\ d(j) \in Seq(ShownFrames) /\ d(0) = <<>>
             /\ \A i \in j..n : Begins(d(j), d(i))
             /\ j < n => d(j + 1) = d(j) \o DueFun[fs[j + 1]]
  BY DueGives, MadeIs
<1>3. ASSUME NEW j \in 0..n
      PROVE  /\ p(j) \in Seq(Seq(Nat)) /\ p(0) = <<>>
             /\ \A i \in j..n : Begins(p(j), p(i))
             /\ j < n => p(j + 1) = p(j) \o PingFun[fs[j + 1]]
  BY PingGives, MadeIs
<1>4. \A j \in 0..n : Due(First(fs, j)) = d(j) /\ Pings(First(fs, j)) = p(j)
  BY OfFirst
<1> HIDE DEF d, p, n, ShownFrames
<1>5. ASSUME NEW j \in k..n PROVE IsPrefix(d(k), d(j)) /\ IsPrefix(p(k), p(j))
  <2>1. j \in 0..n
    BY <1>1
  <2>2. d(k) \in Seq(ShownFrames) /\ d(j) \in Seq(ShownFrames) /\ Begins(d(k), d(j))
    BY <1>1, <1>2, <2>1
  <2>3. p(k) \in Seq(Seq(Nat)) /\ p(j) \in Seq(Seq(Nat)) /\ Begins(p(k), p(j))
    BY <1>1, <1>3, <2>1
  <2>4. QED
    BY <2>2, <2>3, BeginsIsPrefix
<1>6. ASSUME k < n
      PROVE  d(k + 1) = d(k) \o DueOf(fs[k + 1]) /\ p(k + 1) = p(k) \o PingOf(fs[k + 1])
  <2>1. k + 1 \in 1..n
    BY <1>1, <1>6
  <2>2. fs[k + 1] \in ClientFrame
    BY <1>1, <2>1
  <2>3. DueFun[fs[k + 1]] = DueOf(fs[k + 1]) /\ PingFun[fs[k + 1]] = PingOf(fs[k + 1])
    BY <2>2 DEF DueFun, PingFun
  <2>4. QED
    BY <1>1, <1>2, <1>3, <1>6, <2>3
<1>7. 0 \in 0..n /\ \A j \in k..n : j \in 0..n
  BY <1>1
<1>8. k < n => k + 1 \in 0..n
  BY <1>1
<1>9. \A j \in k..n : /\ IsPrefix(Due(First(fs, k)), Due(First(fs, j)))
                      /\ IsPrefix(Pings(First(fs, k)), Pings(First(fs, j)))
  BY <1>1, <1>4, <1>5, <1>7
<1>10. k < n => /\ Due(First(fs, k + 1)) = Due(First(fs, k)) \o DueOf(fs[k + 1])
                /\ Pings(First(fs, k + 1)) = Pings(First(fs, k)) \o PingOf(fs[k + 1])
  BY <1>1, <1>4, <1>6, <1>8
<1>11. /\ Due(First(fs, k)) \in Seq(ShownFrames) /\ Due(First(fs, 0)) = <<>>
       /\ Pings(First(fs, k)) \in Seq(Seq(Nat)) /\ Pings(First(fs, 0)) = <<>>
  BY <1>1, <1>2, <1>3, <1>4, <1>7
<1>12. QED
  BY <1>9, <1>10, <1>11 DEF n

-----------------------------------------------------------------------------
(* The first h frames fs have been handled, and what was read behind them  *)
(* is in the buffer.  The reader waits or has ended only if the next frame *)
(* is not all there, or ends the conversation.                             *)
Stuck(fs, h) == h < Len(fs) => Start(fs, h + 1) > taken \/ Ends(fs[h + 1])

Hears(fs, h) ==
  /\ frames = fs /\ h \in 0..Len(fs) /\ \A i \in 1..h : ~Ends(fs[i])
  /\ taken \in Nat /\ Start(fs, h) <= taken /\ taken <= Len(BytesOf(fs))
  /\ ~ended => readBuffer = SubSeq(BytesOf(fs), Start(fs, h) + 1, taken)
  /\ inbound \in {<<>>, SubSeq(BytesOf(fs), taken + 1, Len(BytesOf(fs)))}
  /\ delivered = Due(First(fs, h)) /\ Pongs(asked) = Pings(First(fs, h))
  /\ asked \in Seq(ShownFrames)
  /\ reading = "fill" \/ ended => Stuck(fs, h)
  /\ ended => reading = "none"

Hearing == \E fs \in Seq(ClientFrame), h \in Nat : Hears(fs, h)

(* Some frame is the last of those that have arrived.                      *)
LEMMA ArrivedIs ==
  ASSUME NEW fs \in Seq(ClientFrame), frames = fs, taken \in Nat, taken <= Len(BytesOf(fs))
  PROVE  /\ Arrived \in 0..Len(fs) /\ Start(fs, Arrived) <= taken
         /\ Arrived < Len(fs) => Start(fs, Arrived + 1) > taken
<1> DEFINE n == Len(fs)
           P(k) == Start(fs, k) <= taken /\ (k < n => Start(fs, k + 1) > taken)
           U == {k \in 0..n : k < n => Start(fs, k + 1) > taken}
<1>1. n \in Nat /\ Start(fs, 0) = 0 /\ \A k \in 0..n : Start(fs, k) \in Nat
  BY BytesOfFirst
<1> HIDE DEF n
<1>2. U \in SUBSET Nat /\ n \in U
  BY <1>1
<1>3. PICK k \in U : \A y \in U : k <= y
  <2> HIDE DEF U
  <2> QED
    BY <1>2, LeastOf
<1>4. k \in 0..n /\ (k < n => Start(fs, k + 1) > taken)
  BY <1>3
<1>5. Start(fs, k) <= taken
  <2>1. CASE k = 0
    BY <1>1, <2>1
  <2>2. CASE k # 0
    <3>1. k - 1 \in 0..n /\ k - 1 < k /\ k - 1 < n /\ (k - 1) + 1 = k
      BY <1>1, <1>4, <2>2
    <3>2. k - 1 \notin U
      <4> HIDE DEF U
      <4> QED
        BY <1>1, <1>3, <1>4, <3>1
    <3>3. ~(Start(fs, (k - 1) + 1) > taken)
      BY <3>1, <3>2
    <3>4. QED
      BY <1>1, <1>4, <3>1, <3>3
  <2> QED
    BY <2>1, <2>2
<1>6. P(k)
  BY <1>4, <1>5
<1>7. Arrived = CHOOSE j \in 0..n : P(j)
  BY DEF Arrived, Start, First, n
<1> HIDE DEF P
<1>8. Arrived \in 0..n /\ P(Arrived)
  BY <1>4, <1>6, <1>7
<1> QED
  BY <1>8 DEF P, n

LEMMA HeardIs ==
  ASSUME NEW fs \in Seq(ClientFrame), NEW h, Hears(fs, h)
  PROVE  \E n \in h..Len(fs) : Heard = First(fs, n) /\ (Stuck(fs, h) => n = h)
<1> DEFINE a == Arrived
           P(k) == (\A i \in 1..k : ~Ends(fs[i])) /\ (k < a => Ends(fs[k + 1]))
           U == {k \in 0..a : k < a => Ends(fs[k + 1])}
<1>1. /\ frames = fs /\ h \in 0..Len(fs) /\ taken \in Nat
      /\ Start(fs, h) <= taken /\ taken <= Len(BytesOf(fs))
      /\ \A i \in 1..h : ~Ends(fs[i])
  BY DEF Hears
<1>2. a \in 0..Len(fs) /\ Start(fs, a) <= taken /\ (a < Len(fs) => Start(fs, a + 1) > taken)
  BY <1>1, ArrivedIs
<1>3. /\ Len(fs) \in Nat /\ \A k \in 0..Len(fs) : Start(fs, k) \in Nat
      /\ \A k \in 0..Len(fs) : \A j \in k..Len(fs) : Start(fs, k) <= Start(fs, j)
  BY BytesOfFirst
<1>4. Heard = First(fs, CHOOSE n \in 0..a : P(n))
  BY <1>1 DEF Heard, First
<1> HIDE DEF a
<1>5. h <= a
  <2> SUFFICES ASSUME ~(h <= a) PROVE FALSE
    OBVIOUS
  <2>1. a + 1 \in 0..Len(fs) /\ h \in (a + 1)..Len(fs) /\ a < Len(fs)
    BY <1>1, <1>2, <1>3
  <2>2. Start(fs, a + 1) <= Start(fs, h)
    BY <1>3, <2>1
  <2>3. Start(fs, a + 1) \in Nat /\ Start(fs, h) \in Nat
    BY <1>1, <1>3, <2>1
  <2> QED
    BY <1>1, <1>2, <2>1, <2>2, <2>3
<1>6. U \in SUBSET Nat /\ a \in U
  BY <1>2, <1>3
<1>7. PICK k \in U : \A y \in U : k <= y
  <2> HIDE DEF U
  <2> QED
    BY <1>6, LeastOf
<1>8. k \in 0..a /\ (k < a => Ends(fs[k + 1]))
  BY <1>7
<1>9. P(k)
  <2> SUFFICES ASSUME NEW i \in 1..k PROVE ~Ends(fs[i])
    BY <1>8
  <2>1. i - 1 \in 0..a /\ i - 1 < a /\ i - 1 < k /\ (i - 1) + 1 = i /\ ~(k <= i - 1)
    BY <1>2, <1>3, <1>8
  <2>2. i - 1 \notin U
    <3> HIDE DEF U
    <3> QED
      BY <1>7, <2>1
  <2> QED
    BY <2>1, <2>2
<1> DEFINE n == CHOOSE j \in 0..a : P(j)
<1>10. n \in 0..a /\ P(n)
  <2> HIDE DEF P
  <2> QED
    BY <1>8, <1>9
<1> HIDE DEF n
<1>11. h <= n
  <2> SUFFICES ASSUME ~(h <= n) PROVE FALSE
    OBVIOUS
  <2>1. n < a /\ n + 1 \in 1..h
    BY <1>1, <1>2, <1>3, <1>5, <1>10
  <2> QED
    BY <1>1, <1>10, <2>1
<1>12. ASSUME Stuck(fs, h) PROVE n = h
  <2> SUFFICES ASSUME n # h PROVE FALSE
    OBVIOUS
  <2>1. h + 1 \in 1..n /\ h < Len(fs) /\ h + 1 \in 0..Len(fs) /\ a \in (h + 1)..Len(fs)
    BY <1>1, <1>2, <1>3, <1>10, <1>11
  <2>2. ~Ends(fs[h + 1])
    BY <1>10, <2>1
  <2>3. Start(fs, h + 1) > taken
    BY <1>12, <2>1, <2>2 DEF Stuck
  <2>4. Start(fs, h + 1) <= Start(fs, a)
    BY <1>3, <2>1
  <2>5. Start(fs, h + 1) \in Nat /\ Start(fs, a) \in Nat
    BY <1>2, <1>3, <2>1
  <2> QED
    BY <1>1, <1>2, <2>3, <2>4, <2>5
<1>13. n \in h..Len(fs)
  BY <1>1, <1>2, <1>3, <1>10, <1>11
<1> QED
  BY <1>4, <1>12, <1>13 DEF n

LEMMA HearingIsAsSent == Hearing => FramesAsSent
<1> SUFFICES ASSUME NEW fs \in Seq(ClientFrame), NEW h, Hears(fs, h)
             PROVE  FramesAsSent
  BY DEF Hearing
<1>1. PICK n \in h..Len(fs) : Heard = First(fs, n) /\ (Stuck(fs, h) => n = h)
  BY HeardIs
<1>2. /\ h \in 0..Len(fs) /\ delivered = Due(First(fs, h)) /\ Pongs(asked) = Pings(First(fs, h))
      /\ (reading = "fill" \/ ended) => Stuck(fs, h)
  BY DEF Hears
<1>3. IsPrefix(Due(First(fs, h)), Due(First(fs, n))) /\ IsPrefix(Pings(First(fs, h)), Pings(First(fs, n)))
  BY <1>2, SaidOfFirst
<1> QED
  BY <1>1, <1>2, <1>3 DEF FramesAsSent

-----------------------------------------------------------------------------
(* The elements of s behind the first a, up to the b-th.                   *)
Part(s, a, b) == SubSeq(s, a + 1, b)

LEMMA PartIs ==
  ASSUME NEW S, NEW s \in Seq(S), NEW a \in Nat, NEW b \in Nat, a <= b, b <= Len(s)
  PROVE  /\ Part(s, a, b) \in Seq(S) /\ Len(Part(s, a, b)) = b - a
         /\ \A i \in 1..(b - a) : Part(s, a, b)[i] = s[a + i]
<1> DEFINE n == Len(s)
           p == Part(s, a, b)
<1>1. n \in Nat /\ b <= n /\ \A i \in 1..n : s[i] \in S
  OBVIOUS
<1> HIDE DEF n
<1>2. a + 1 \in Int /\ b \in Int /\ \A i \in (a + 1)..b : s[i] \in S
  BY <1>1
<1>3. /\ p \in Seq(S)
      /\ Len(p) = IF a + 1 <= b THEN b - (a + 1) + 1 ELSE 0
      /\ \A i \in 1..(b - (a + 1) + 1) : p[i] = s[(a + 1) + i - 1]
  BY <1>2, SubSeqProperties DEF Part
<1> HIDE DEF p
<1>4. b - (a + 1) + 1 = b - a
  OBVIOUS
<1>5. Len(p) = b - a
  BY <1>3, <1>4
<1>6. ASSUME NEW i \in 1..(b - a) PROVE p[i] = s[a + i]
  <2>1. p[i] = s[(a + 1) + i - 1]
    BY <1>3, <1>4
  <2>2. (a + 1) + i - 1 = a + i
    OBVIOUS
  <2> QED
    BY <2>1, <2>2
<1> QED
  BY <1>3, <1>5, <1>6 DEF p

LEMMA PartOfPart ==
  ASSUME NEW S, NEW s \in Seq(S), NEW a \in Nat, NEW b \in Nat, a <= b, b <= Len(s),
         NEW c \in Nat, NEW d \in Nat, c <= d, d <= b - a
  PROVE  Part(Part(s, a, b), c, d) = Part(s, a + c, a + d)
<1> DEFINE p == Part(s, a, b)
           q == Part(p, c, d)
           r == Part(s, a + c, a + d)
<1>1. Len(s) \in Nat /\ a + c \in Nat /\ a + d \in Nat /\ a + c <= a + d /\ a + d <= Len(s)
      /\ (a + d) - (a + c) = d - c
  OBVIOUS
<1>2. p \in Seq(S) /\ Len(p) = b - a /\ \A i \in 1..(b - a) : p[i] = s[a + i]
  BY PartIs
<1>3. r \in Seq(S) /\ Len(r) = d - c /\ \A i \in 1..(d - c) : r[i] = s[(a + c) + i]
  <2>1. PICK u \in Nat, v \in Nat : u = a + c /\ v = a + d
    BY <1>1
  <2>2. u <= v /\ v <= Len(s) /\ v - u = d - c
    BY <1>1, <2>1
  <2>3. r = Part(s, u, v)
    BY <2>1
  <2> HIDE DEF r
  <2>4. /\ Part(s, u, v) \in Seq(S) /\ Len(Part(s, u, v)) = v - u
        /\ \A i \in 1..(v - u) : Part(s, u, v)[i] = s[u + i]
    BY <2>2, PartIs
  <2> QED
    BY <2>1, <2>2, <2>3, <2>4
<1> HIDE DEF p
<1>4. q \in Seq(S) /\ Len(q) = d - c /\ \A i \in 1..(d - c) : q[i] = p[c + i]
  <2>1. p \in Seq(S) /\ d <= Len(p)
    BY <1>2
  <2> QED
    BY <2>1, PartIs
<1> HIDE DEF q, r
<1>5. ASSUME NEW i \in 1..(d - c) PROVE q[i] = r[i]
  <2>1. c + i \in 1..(b - a) /\ a + (c + i) = (a + c) + i
    OBVIOUS
  <2> QED
    BY <1>2, <1>3, <1>4, <2>1
<1>6. q = r
  BY <1>3, <1>4, <1>5, SeqEqual
<1> QED
  BY <1>6 DEF p, q, r

LEMMA PartsTogether ==
  ASSUME NEW S, NEW s \in Seq(S), NEW a \in Nat, NEW b \in Nat, NEW c \in Nat,
         a <= b, b <= c, c <= Len(s)
  PROVE  Part(s, a, b) \o Part(s, b, c) = Part(s, a, c)
<1>1. a + 1 \in 1..(Len(s) + 1) /\ b \in ((a + 1) - 1)..Len(s) /\ c \in b..Len(s)
  OBVIOUS
<1> QED
  BY <1>1, ConcatAdjacentSubSeq DEF Part

(* What the buffer holds.                                                  *)
LEMMA BufferIs ==
  ASSUME NEW fs \in Seq(ClientFrame), NEW h, Hears(fs, h), ~ended
  PROVE  /\ readBuffer = Part(BytesOf(fs), Start(fs, h), taken)
         /\ readBuffer \in Seq(WireBytes) /\ Len(readBuffer) = taken - Start(fs, h)
         /\ h < Len(fs) => InBuffer(fs[h + 1])
<1> DEFINE B == BytesOf(fs)
           t == Start(fs, h)
<1>1. h \in 0..Len(fs) /\ t \in Nat /\ taken \in Nat /\ t <= taken /\ taken <= Len(B)
  BY BytesOfFirst DEF Hears
<1>2. B \in Seq(WireBytes)
  BY <1>1, BytesOfFirst
<1>3. readBuffer = Part(B, t, taken)
  BY DEF Hears, Part
<1> HIDE DEF B, t
<1>4. /\ readBuffer \in Seq(WireBytes) /\ Len(readBuffer) = taken - t
      /\ \A i \in 1..(taken - t) : readBuffer[i] = B[t + i]
  BY <1>1, <1>2, <1>3, PartIs
<1>5. ASSUME h < Len(fs) PROVE InBuffer(fs[h + 1])
  <2> DEFINE b == Bytes(fs[h + 1])
  <2>1. \A i \in 1..Len(b) : B[t + i] = b[i]
    BY <1>1, <1>5, BytesOfFirst DEF B, t
  <2>2. Len(b) \in Nat
    <3>1. h + 1 \in 1..Len(fs)
      BY <1>1, <1>5
    <3>2. fs[h + 1] \in ClientFrame
      BY <3>1
    <3>3. b \in Seq(WireBytes)
      BY <3>2, BytesIs
    <3> QED
      BY <3>3
  <2> HIDE DEF b
  <2>3. \A i \in 1..Len(b) : i <= Len(readBuffer) => readBuffer[i] = b[i]
    BY <1>1, <1>4, <2>1, <2>2
  <2> QED
    BY <1>4, <2>3 DEF InBuffer, b
<1> QED
  BY <1>3, <1>4, <1>5 DEF B, t

(* What has been found is the next frame, as it was sent.                  *)
LEMMA Found ==
  ASSUME NEW fs \in Seq(ClientFrame), NEW h, Hears(fs, h), ~ended, ~Unmasked, FrameThere
  PROVE  /\ h < Len(fs) /\ h + 1 \in 0..Len(fs)
         /\ fs[h + 1] \in ClientFrame /\ fs[h + 1].masked /\ Frame = Shown(fs[h + 1])
         /\ Start(fs, h + 1) <= taken
         /\ ClearFrame => readBuffer' = SubSeq(BytesOf(fs), Start(fs, h + 1) + 1, taken)
<1> DEFINE B == BytesOf(fs)
           t == Start(fs, h)
           f == fs[h + 1]
           L == Len(Bytes(f))
<1>1. /\ h \in 0..Len(fs) /\ t \in Nat /\ taken \in Nat /\ t <= taken /\ taken <= Len(B)
      /\ Len(fs) \in Nat /\ Start(fs, Len(fs)) = Len(B)
  BY BytesOfFirst DEF Hears
<1>2. /\ readBuffer = Part(B, t, taken)
      /\ readBuffer \in Seq(WireBytes) /\ Len(readBuffer) = taken - t
      /\ h < Len(fs) => InBuffer(f)
  BY BufferIs
<1>3. Len(readBuffer) >= 2
  BY <1>1, <1>2, TooShort
<1>4. h < Len(fs)
  BY <1>1, <1>2, <1>3
<1>5. h + 1 \in 1..Len(fs) /\ f \in ClientFrame
  <2>1. h + 1 \in 1..Len(fs)
    BY <1>1, <1>4
  <2> QED
    BY <2>1
<1>6. f.masked
  <2>1. Unmasked <=> ~f.masked
    BY <1>2, <1>3, <1>4, <1>5, HeaderInBuffer
  <2> QED
    BY <2>1
<1>7. Len(readBuffer) >= L /\ Frame = Shown(f) /\ PayloadAt + Length = L
  BY <1>2, <1>4, <1>5, <1>6, FrameInBuffer
<1>8. L \in Nat
  <2>1. Bytes(f) \in Seq(WireBytes)
    BY <1>5, BytesIs
  <2> QED
    BY <2>1
<1>9. Start(fs, h + 1) = t + L
  BY <1>1, <1>4, BytesOfFirst
<1>10. B \in Seq(WireBytes)
  BY <1>1, BytesOfFirst
<1> HIDE DEF B, t, f, L
<1>11. ASSUME ClearFrame PROVE readBuffer' = Part(B, t + L, taken)
  <2>1. readBuffer' = Part(readBuffer, L, taken - t)
    BY <1>2, <1>7, <1>11 DEF ClearFrame, Part
  <2>2. taken - t \in Nat /\ L <= taken - t /\ t + (taken - t) = taken
    BY <1>1, <1>2, <1>7, <1>8
  <2>3. Part(Part(B, t, taken), L, taken - t) = Part(B, t + L, t + (taken - t))
    BY <1>1, <1>8, <1>10, <2>2, PartOfPart
  <2> QED
    BY <1>2, <2>1, <2>2, <2>3
<1>12. t + L <= taken
  BY <1>1, <1>2, <1>7, <1>8
<1>13. h + 1 \in 0..Len(fs)
  BY <1>5
<1> QED
  BY <1>4, <1>5, <1>6, <1>7, <1>9, <1>11, <1>12, <1>13 DEF B, t, f, L, Part

(* If none is found, none is there, or the next one has no mask.           *)
LEMMA NotFound ==
  ASSUME NEW fs \in Seq(ClientFrame), NEW h, Hears(fs, h), ~ended, Unmasked \/ ~FrameThere
  PROVE  Stuck(fs, h)
<1> DEFINE t == Start(fs, h)
           f == fs[h + 1]
           L == Len(Bytes(f))
<1> SUFFICES ASSUME h < Len(fs), f.masked
             PROVE  Start(fs, h + 1) > taken
  BY DEF Stuck, Ends
<1>1. h \in 0..Len(fs) /\ t \in Nat /\ taken \in Nat /\ t <= taken
  BY BytesOfFirst DEF Hears
<1>2. readBuffer \in Seq(WireBytes) /\ Len(readBuffer) = taken - t /\ InBuffer(f)
  BY BufferIs
<1>3. f \in ClientFrame
  <2>1. h + 1 \in 1..Len(fs)
    BY <1>1
  <2> QED
    BY <2>1
<1>4. Start(fs, h + 1) = t + L
  BY <1>1, BytesOfFirst
<1>5. L \in Nat
  <2>1. Bytes(f) \in Seq(WireBytes)
    BY <1>3, BytesIs
  <2> QED
    BY <2>1
<1>6. ~Unmasked
  <2>1. CASE Len(readBuffer) >= 2
    <3>1. Unmasked <=> ~f.masked
      BY <1>2, <1>3, <2>1, HeaderInBuffer
    <3> QED
      BY <3>1
  <2>2. CASE ~(Len(readBuffer) >= 2)
    BY <1>1, <1>2, <2>2, TooShort
  <2> QED
    BY <2>1, <2>2
<1>7. ~(Len(readBuffer) >= L)
  BY <1>2, <1>3, <1>6, FrameInBuffer
<1> HIDE DEF t, L, f
<1> QED
  BY <1>1, <1>2, <1>4, <1>5, <1>7

-----------------------------------------------------------------------------
(* The steps.                                                              *)

LEMMA HearingInit == Init => Hearing
<1> SUFFICES ASSUME Init PROVE Hearing
  OBVIOUS
<1>1. /\ frames \in (IF from = "websocket" THEN Conversations ELSE {<<>>})
      /\ inbound = BytesOf(frames)
      /\ taken = 0 /\ readBuffer = <<>> /\ reading = "none"
      /\ ended = (from # "websocket")
      /\ delivered = <<>> /\ asked = <<>>
  BY DEF Init
<1>2. PICK fs : fs = frames
  OBVIOUS
<1>3. fs \in Seq(ClientFrame)
  <2>1. <<>> \in Seq(ClientFrame)
    OBVIOUS
  <2> QED
    BY <1>1, <1>2, <2>1, ConversationsAssumption
<1>4. Len(fs) \in Nat /\ 0 \in 0..Len(fs)
  BY <1>3
<1>5. /\ BytesOf(fs) \in Seq(WireBytes) /\ Start(fs, 0) = 0
  BY <1>3, <1>4, BytesOfFirst
<1>6. Len(BytesOf(fs)) \in Nat
  BY <1>5
<1>7. Due(First(fs, 0)) = <<>> /\ Pings(First(fs, 0)) = <<>>
  BY <1>3, <1>4, SaidOfFirst
<1>8. asked \in Seq(ShownFrames) /\ Pongs(asked) = <<>>
  <2> DEFINE q == Each(PongFun, asked)
             U == Seq(Seq(Nat))
  <2>1. asked \in Seq(ShownFrames) /\ Len(asked) = 0
    <3>1. <<>> \in Seq(ShownFrames) /\ Len(<<>>) = 0
      OBVIOUS
    <3> QED
      BY <1>1, <3>1
  <2>2. Gives(PongFun, ShownFrames, U)
    BY PongGives
  <2> HIDE DEF U
  <2>3. q \in Seq(U) /\ Len(q) = 0
    <3>1. PICK e \in Seq(ShownFrames) : e = asked
      BY <2>1
    <3>2. Len(Each(PongFun, e)) = Len(e) /\ Each(PongFun, e) \in Seq(U)
      BY <2>2, <3>1, EachIs
    <3> QED
      BY <2>1, <3>1, <3>2
  <2> HIDE DEF q
  <2>4. Joined(q) = <<>>
    BY <2>3, JoinedType DEF U
  <2> QED
    BY <2>1, <2>4, PongsMade DEF q
<1>9. SubSeq(BytesOf(fs), 0 + 1, 0) = <<>>
  BY SubSeqEmpty
<1>10. SubSeq(BytesOf(fs), 0 + 1, Len(BytesOf(fs))) = BytesOf(fs)
  BY <1>5, SubSeqFull
<1>11. ended => Stuck(fs, 0)
  <2> SUFFICES ASSUME ended PROVE ~(0 < Len(fs))
    BY DEF Stuck
  <2>1. fs = <<>>
    BY <1>1, <1>2
  <2> QED
    BY <2>1
<1>12. Hears(fs, 0)
  BY <1>1, <1>2, <1>4, <1>5, <1>6, <1>7, <1>8, <1>9, <1>10, <1>11 DEF Hears
<1> QED
  BY <1>3, <1>12 DEF Hearing

(* What the server sends on its own account.                               *)
LEMMA OwnOpcodes == {"Pong", "Close", "Binary"} \subseteq OpcodeType /\ TRUE \in BOOLEAN
BY DEF OpcodeType

(* One more answer or message.                                             *)
LEMMA AskedMore ==
  ASSUME asked \in Seq(ShownFrames), NEW op \in OpcodeType, NEW payload \in Seq(Nat),
         NEW final \in BOOLEAN, SendMessage(op, payload, final)
  PROVE  /\ asked' \in Seq(ShownFrames)
         /\ op # "Pong" => Pongs(asked') = Pongs(asked)
         /\ op = "Pong" => Pongs(asked') = Pongs(asked) \o <<payload>>
<1> DEFINE x == [op |-> op, fin |-> final, payload |-> payload]
<1>1. x \in ShownFrames /\ x.op = op /\ x.payload = payload
  BY DEF ShownFrames
<1>2. asked' = Append(asked, x)
  BY DEF SendMessage
<1> HIDE DEF x, ShownFrames
<1>3. asked' \in Seq(ShownFrames) /\ Pongs(asked') = Pongs(asked) \o PongOf(x)
  BY <1>1, <1>2, PongsMore, AppendProperties
<1>4. Pongs(asked) \in Seq(Seq(Nat))
  <2> DEFINE q == Each(PongFun, asked)
  <2>1. q \in Seq(Seq(Seq(Nat)))
    BY PongGives, EachIs
  <2> HIDE DEF q
  <2>2. Joined(q) \in Seq(Seq(Nat))
    BY <2>1, JoinedType
  <2> QED
    BY <2>2, PongsMade DEF q
<1>5. Pongs(asked) \o <<>> = Pongs(asked)
  BY <1>4, ConcatEmptySeq
<1>6. PongOf(x) = IF op = "Pong" THEN <<payload>> ELSE <<>>
  BY <1>1 DEF PongOf
<1> QED
  BY <1>3, <1>5, <1>6

(* A frame that is found is handled.                                       *)
LEMMA OneMoreHeard ==
  ASSUME NEW fs \in Seq(ClientFrame), NEW h, Hears(fs, h), ~ended, ~Unmasked, FrameThere,
         Frame.op # "Close", ClearFrame,
         UNCHANGED <<frames, inbound, taken, ended>>, reading' \in {"none", "pong"},
         delivered' = delivered \o DueOf(fs[h + 1]), asked' \in Seq(ShownFrames),
         Pongs(asked') = Pongs(asked) \o PingOf(fs[h + 1])
  PROVE  Hearing'
<1> DEFINE k == h + 1
           f == fs[h + 1]
<1>1. /\ h < Len(fs) /\ k \in 0..Len(fs) /\ f \in ClientFrame /\ f.masked /\ Frame = Shown(f)
      /\ Start(fs, k) <= taken
      /\ readBuffer' = SubSeq(BytesOf(fs), Start(fs, k) + 1, taken)
  BY Found
<1>2. /\ frames = fs /\ h \in 0..Len(fs) /\ \A i \in 1..h : ~Ends(fs[i])
      /\ taken \in Nat /\ taken <= Len(BytesOf(fs))
      /\ inbound \in {<<>>, SubSeq(BytesOf(fs), taken + 1, Len(BytesOf(fs)))}
      /\ delivered = Due(First(fs, h)) /\ Pongs(asked) = Pings(First(fs, h))
  BY DEF Hears
<1>3. ~Ends(f)
  <2>1. Frame.op = f.op
    BY <1>1 DEF Shown
  <2> QED
    BY <1>1, <2>1 DEF Ends
<1>4. \A i \in 1..k : ~Ends(fs[i])
  BY <1>2, <1>3
<1>5. delivered' = Due(First(fs, k)) /\ Pongs(asked') = Pings(First(fs, k))
  BY <1>1, <1>2, SaidOfFirst
<1>6. ~ended' /\ reading' # "fill"
  OBVIOUS
<1> HIDE DEF k, f
<1>7. Hears(fs, k)'
  BY <1>1, <1>2, <1>4, <1>5, <1>6 DEF Hears
<1>8. k \in Nat
  BY <1>1
<1> QED
  BY <1>7, <1>8 DEF Hearing

LEMMA DeliversHears == Hearing /\ Delivers => Hearing'
<1> SUFFICES ASSUME NEW fs \in Seq(ClientFrame), NEW h, Hears(fs, h), Delivers
             PROVE  Hearing'
  BY DEF Hearing
<1>1. /\ reading = "look" /\ ~Unmasked /\ FrameThere /\ Frame.op \notin {"Ping", "Close"}
      /\ ClearFrame /\ delivered' = Append(delivered, Frame) /\ reading' = "none"
      /\ UNCHANGED <<frames, inbound, taken, ended, asked>>
  BY DEF Delivers, outVars
<1>2. ~ended /\ delivered = Due(First(fs, h)) /\ asked \in Seq(ShownFrames) /\ h \in 0..Len(fs)
  BY <1>1 DEF Hears
<1> DEFINE f == fs[h + 1]
<1>3. f \in ClientFrame /\ Frame = Shown(f)
  BY <1>1, <1>2, Found
<1>4. DueOf(f) = <<Frame>> /\ PingOf(f) = <<>>
  <2>1. Frame.op = f.op
    BY <1>3 DEF Shown
  <2> QED
    BY <1>1, <1>3, <2>1 DEF DueOf, PingOf, Shown
<1>5. Frame \in ShownFrames
  BY <1>3, ShownType
<1>6. delivered \in Seq(ShownFrames)
  BY <1>2, SaidOfFirst
<1>7. delivered' = delivered \o DueOf(f)
  BY <1>1, <1>4, <1>5, <1>6, AppendIsConcat
<1>8. Pongs(asked') = Pongs(asked) \o PingOf(f)
  <2>1. Pongs(asked) \in Seq(Seq(Nat))
    BY SaidOfFirst DEF Hears
  <2> QED
    BY <1>1, <1>4, <2>1, ConcatEmptySeq
<1> QED
  BY <1>1, <1>2, <1>7, <1>8, OneMoreHeard

LEMMA AnswersPingHears == Hearing /\ AnswersPing => Hearing'
<1> SUFFICES ASSUME NEW fs \in Seq(ClientFrame), NEW h, Hears(fs, h), AnswersPing
             PROVE  Hearing'
  BY DEF Hearing
<1>1. /\ reading = "look" /\ ~Unmasked /\ FrameThere /\ Frame.op = "Ping"
      /\ ClearFrame /\ SendMessage("Pong", Frame.payload, TRUE) /\ reading' = "pong"
      /\ UNCHANGED <<frames, inbound, taken, ended, delivered>>
  BY DEF AnswersPing
<1>2. ~ended /\ delivered = Due(First(fs, h)) /\ asked \in Seq(ShownFrames) /\ h \in 0..Len(fs)
  BY <1>1 DEF Hears
<1> DEFINE f == fs[h + 1]
<1>3. f \in ClientFrame /\ Frame = Shown(f)
  BY <1>1, <1>2, Found
<1>4. /\ Frame.payload = f.payload /\ f.payload \in Seq(Nat)
      /\ DueOf(f) = <<>> /\ PingOf(f) = <<f.payload>>
  <2>1. Frame.op = f.op /\ Frame.payload = f.payload
    BY <1>3 DEF Shown
  <2>2. f.payload \in Seq(Nat)
    BY <1>3 DEF ClientFrame
  <2> QED
    BY <1>1, <2>1, <2>2 DEF DueOf, PingOf
<1>5. asked' \in Seq(ShownFrames) /\ Pongs(asked') = Pongs(asked) \o PingOf(f)
  <2>1. Frame.payload \in Seq(Nat)
    BY <1>4
  <2>2. asked' \in Seq(ShownFrames) /\ Pongs(asked') = Pongs(asked) \o <<Frame.payload>>
    <3>1. SendMessage("Pong", Frame.payload, TRUE)
      BY <1>1
    <3>2. asked \in Seq(ShownFrames)
      BY <1>2
    <3>3. "Pong" \in OpcodeType /\ TRUE \in BOOLEAN
      BY OwnOpcodes
    <3>4. /\ asked' \in Seq(ShownFrames)
          /\ "Pong" = "Pong" => Pongs(asked') = Pongs(asked) \o <<Frame.payload>>
      BY <2>1, <3>1, <3>2, <3>3, AskedMore, Zenon
    <3> QED
      BY <3>4
  <2> QED
    BY <1>4, <2>2
<1>6. delivered' = delivered \o DueOf(f)
  <2>1. delivered \in Seq(ShownFrames)
    BY <1>2, SaidOfFirst
  <2> QED
    BY <1>1, <1>4, <2>1, ConcatEmptySeq
<1> QED
  BY <1>1, <1>2, <1>5, <1>6, OneMoreHeard

(* A Close frame stays the next one, and ends the reader.                  *)
LEMMA AnswersCloseHears == Hearing /\ AnswersClose => Hearing'
<1> SUFFICES ASSUME NEW fs \in Seq(ClientFrame), NEW h \in Nat, Hears(fs, h), AnswersClose
             PROVE  Hearing'
  BY DEF Hearing
<1>1. /\ reading = "look" /\ ~Unmasked /\ FrameThere /\ Frame.op = "Close"
      /\ SendMessage("Close", <<>>, TRUE) /\ reading' = "none" /\ ended' = TRUE
      /\ UNCHANGED <<frames, inbound, taken, delivered>>
  BY DEF AnswersClose, Close
<1>2. ~ended /\ asked \in Seq(ShownFrames)
  BY <1>1 DEF Hears
<1>3. Stuck(fs, h)'
  <2>1. Frame = Shown(fs[h + 1])
    BY <1>1, <1>2, Found
  <2>2. fs[h + 1].op = "Close"
    BY <1>1, <2>1 DEF Shown
  <2> QED
    BY <2>2 DEF Stuck, Ends
<1>4. asked' \in Seq(ShownFrames) /\ Pongs(asked') = Pongs(asked)
  <2>1. <<>> \in Seq(Nat)
    OBVIOUS
  <2>2. SendMessage("Close", <<>>, TRUE)
    BY <1>1
  <2>3. asked \in Seq(ShownFrames)
    BY <1>2
  <2>4. "Close" \in OpcodeType /\ TRUE \in BOOLEAN
    BY OwnOpcodes
  <2>5. /\ asked' \in Seq(ShownFrames)
        /\ "Close" # "Pong" => Pongs(asked') = Pongs(asked)
    BY <2>1, <2>2, <2>3, <2>4, AskedMore, Zenon
  <2> QED
    BY <2>5
<1>5. Hears(fs, h)'
  BY <1>1, <1>3, <1>4 DEF Hears
<1> QED
  BY <1>5 DEF Hearing

LEMMA RefusesUnmaskedHears == Hearing /\ RefusesUnmasked => Hearing'
<1> SUFFICES ASSUME NEW fs \in Seq(ClientFrame), NEW h \in Nat, Hears(fs, h), RefusesUnmasked
             PROVE  Hearing'
  BY DEF Hearing
<1>1. /\ reading = "look" /\ Unmasked /\ SendMessage("Close", <<>>, TRUE) /\ reading' = "fill"
      /\ UNCHANGED <<frames, inbound, taken, readBuffer, delivered, ended>>
  BY DEF RefusesUnmasked, Close, inVars
<1>2. ~ended /\ asked \in Seq(ShownFrames)
  BY <1>1 DEF Hears
<1>3. Stuck(fs, h)'
  <2>1. Stuck(fs, h)
    BY <1>1, <1>2, NotFound
  <2> QED
    BY <1>1, <2>1 DEF Stuck
<1>4. asked' \in Seq(ShownFrames) /\ Pongs(asked') = Pongs(asked)
  <2>1. <<>> \in Seq(Nat)
    OBVIOUS
  <2>2. SendMessage("Close", <<>>, TRUE)
    BY <1>1
  <2>3. asked \in Seq(ShownFrames)
    BY <1>2
  <2>4. "Close" \in OpcodeType /\ TRUE \in BOOLEAN
    BY OwnOpcodes
  <2>5. /\ asked' \in Seq(ShownFrames)
        /\ "Close" # "Pong" => Pongs(asked') = Pongs(asked)
    BY <2>1, <2>2, <2>3, <2>4, AskedMore, Zenon
  <2> QED
    BY <2>5
<1>5. Hears(fs, h)'
  BY <1>1, <1>2, <1>3, <1>4 DEF Hears
<1> QED
  BY <1>5 DEF Hearing

LEMMA NeedsMoreHears == Hearing /\ NeedsMore => Hearing'
<1> SUFFICES ASSUME NEW fs \in Seq(ClientFrame), NEW h \in Nat, Hears(fs, h), NeedsMore
             PROVE  Hearing'
  BY DEF Hearing
<1>1. /\ reading = "look" /\ ~FrameThere /\ reading' = "fill"
      /\ UNCHANGED <<frames, inbound, taken, readBuffer, delivered, ended, asked>>
  BY DEF NeedsMore, inVars, outVars
<1>2. ~ended
  BY <1>1 DEF Hears
<1>3. Stuck(fs, h)'
  <2>1. Stuck(fs, h)
    BY <1>1, <1>2, NotFound
  <2> QED
    BY <1>1, <2>1 DEF Stuck
<1>4. Hears(fs, h)'
  BY <1>1, <1>2, <1>3 DEF Hears
<1> QED
  BY <1>4 DEF Hearing

LEMMA FillsHears == Hearing /\ Fills => Hearing'
<1> SUFFICES ASSUME NEW fs \in Seq(ClientFrame), NEW h \in Nat, Hears(fs, h), Fills
             PROVE  Hearing'
  BY DEF Hearing
<1>1. /\ reading = "fill" /\ reading' = "look"
      /\ UNCHANGED <<frames, asked, delivered, ended>>
  BY DEF Fills, outVars
<1>2. PICK k \in 1..Len(inbound) :
        /\ readBuffer' = readBuffer \o SubSeq(inbound, 1, k)
        /\ inbound' = SubSeq(inbound, k + 1, Len(inbound))
        /\ taken' = taken + k
  BY DEF Fills
<1> DEFINE B == BytesOf(fs)
           n == Len(B)
           t == Start(fs, h)
<1>3. /\ h \in 0..Len(fs) /\ taken \in Nat /\ t <= taken /\ taken <= n /\ ~ended /\ t \in Nat
      /\ inbound \in {<<>>, Part(B, taken, n)}
  BY <1>1, BytesOfFirst DEF Hears, Part
<1>4. B \in Seq(WireBytes) /\ n \in Nat
  <2>1. B \in Seq(WireBytes)
    BY <1>3, BytesOfFirst
  <2> QED
    BY <2>1
<1>5. readBuffer = Part(B, t, taken)
  BY <1>3, BufferIs
<1>6. inbound = Part(B, taken, n) /\ Len(inbound) = n - taken
  <2>1. inbound # <<>>
    <3> SUFFICES ASSUME inbound = <<>> PROVE FALSE
      OBVIOUS
    <3>1. Len(inbound) = 0
      OBVIOUS
    <3> QED
      BY <1>2, <3>1
  <2>2. inbound = Part(B, taken, n)
    BY <1>3, <2>1
  <2> HIDE DEF B, n
  <2>3. n = Len(B)
    BY DEF n
  <2>4. Len(Part(B, taken, n)) = n - taken
    <3>1. taken \in Nat /\ taken <= n /\ n \in Nat /\ n <= Len(B) /\ B \in Seq(WireBytes)
      BY <1>3, <1>4, <2>3
    <3> QED
      BY <3>1, PartIs
  <2> QED
    BY <2>2, <2>4
<1> HIDE DEF B, n, t
<1>7. k \in Nat /\ k >= 1 /\ k <= n - taken /\ n <= Len(B)
  BY <1>2, <1>3, <1>4, <1>6 DEF n
<1>8. Part(inbound, 0, k) = Part(B, taken, taken + k)
  <2>1. Part(Part(B, taken, n), 0, k) = Part(B, taken + 0, taken + k)
    BY <1>3, <1>4, <1>7, PartOfPart
  <2>2. taken + 0 = taken
    BY <1>3
  <2> QED
    BY <1>6, <2>1, <2>2
<1>9. Part(inbound, k, n - taken) = Part(B, taken + k, n)
  <2>1. n - taken \in Nat /\ taken + (n - taken) = n
    BY <1>3, <1>4
  <2>2. Part(Part(B, taken, n), k, n - taken) = Part(B, taken + k, taken + (n - taken))
    BY <1>3, <1>4, <1>7, <2>1, PartOfPart
  <2> QED
    BY <1>6, <2>1, <2>2
<1>10. readBuffer' = Part(B, t, taken')
  <2>1. readBuffer' = readBuffer \o Part(inbound, 0, k)
    <3>1. 0 + 1 = 1
      OBVIOUS
    <3> QED
      BY <1>2, <3>1 DEF Part
  <2>2. taken + k \in Nat /\ taken <= taken + k /\ taken + k <= Len(B)
    BY <1>3, <1>4, <1>7
  <2>3. Part(B, t, taken) \o Part(B, taken, taken + k) = Part(B, t, taken + k)
    BY <1>3, <1>4, <2>2, PartsTogether
  <2> QED
    BY <1>2, <1>5, <1>8, <2>1, <2>3
<1>11. inbound' = Part(B, taken', n)
  BY <1>2, <1>6, <1>9 DEF Part
<1>12. taken' \in Nat /\ t <= taken' /\ taken' <= n
  BY <1>2, <1>3, <1>4, <1>7
<1>13. /\ frames = fs /\ \A i \in 1..h : ~Ends(fs[i])
       /\ delivered = Due(First(fs, h)) /\ Pongs(asked) = Pings(First(fs, h))
       /\ asked \in Seq(ShownFrames)
  BY DEF Hears
<1>14. Hears(fs, h)'
  BY <1>1, <1>3, <1>10, <1>11, <1>12, <1>13 DEF Hears, Part, B, n, t
<1> QED
  BY <1>14 DEF Hearing

LEMMA HearingStep == Hearing /\ [Next]_vars => Hearing'
<1> SUFFICES ASSUME Hearing, [Next]_vars PROVE Hearing'
  OBVIOUS
<1>1. ASSUME UNCHANGED <<frames, taken, readBuffer, delivered, asked, ended>>,
             inbound' \in {<<>>, inbound},
             reading' \in {"none", "look", reading} \/ ended',
             ended' => reading' = "none"
      PROVE  Hearing'
  <2>1. PICK fs \in Seq(ClientFrame), h \in Nat : Hears(fs, h)
    BY DEF Hearing
  <2>2. Stuck(fs, h) => Stuck(fs, h)'
    BY <1>1 DEF Stuck
  <2>3. Hears(fs, h)'
    BY <1>1, <2>1, <2>2 DEF Hears
  <2> QED
    BY <2>3 DEF Hearing
<1>2. CASE UNCHANGED socketVars
  <2>1. UNCHANGED <<frames, taken, readBuffer, delivered, asked, ended, inbound, reading>>
    BY <1>2 DEF socketVars, inVars, outVars
  <2>2. ended => reading = "none"
    BY DEF Hearing, Hears
  <2> QED
    BY <1>1, <2>1, <2>2
<1>3. CASE ReadBytesMessage
  BY <1>1, <1>3 DEF ReadBytesMessage, inVars, outVars
<1>4. CASE PongDone
  <2>1. ~ended
    BY <1>4 DEF PongDone, Hearing, Hears
  <2> QED
    BY <1>1, <1>4, <2>1 DEF PongDone, inVars, outVars
<1>5. CASE ClientLeaves
  BY <1>1, <1>5 DEF ClientLeaves
<1>6. CASE FillFails
  <2>1. PICK fs \in Seq(ClientFrame), h \in Nat : Hears(fs, h)
    BY DEF Hearing
  <2>2. /\ reading = "fill" /\ reading' = "none" /\ ended' = TRUE
        /\ UNCHANGED <<frames, inbound, taken, readBuffer, delivered, asked>>
    BY <1>6 DEF FillFails, inVars, outVars
  <2>3. Stuck(fs, h) /\ (Stuck(fs, h) => Stuck(fs, h)')
    BY <2>1, <2>2 DEF Hears, Stuck
  <2>4. Hears(fs, h)'
    BY <2>1, <2>2, <2>3 DEF Hears
  <2> QED
    BY <2>4 DEF Hearing
<1>7. CASE SendBinaryMessage
  <2>1. PICK fs \in Seq(ClientFrame), h \in Nat : Hears(fs, h)
    BY DEF Hearing
  <2>2. PICK final \in BOOLEAN : SendMessage("Binary", <<>>, final)
    BY <1>7 DEF SendBinaryMessage
  <2>3. UNCHANGED <<frames, inbound, taken, readBuffer, reading, delivered, ended>>
    BY <1>7 DEF SendBinaryMessage, inVars
  <2>4. <<>> \in Seq(Nat) /\ asked \in Seq(ShownFrames)
    BY <2>1 DEF Hears
  <2>5. asked' \in Seq(ShownFrames) /\ Pongs(asked') = Pongs(asked)
    <3>1. "Binary" \in OpcodeType
      BY OwnOpcodes
    <3>2. /\ asked' \in Seq(ShownFrames)
          /\ "Binary" # "Pong" => Pongs(asked') = Pongs(asked)
      BY <2>2, <2>4, <3>1, AskedMore, Zenon
    <3> QED
      BY <3>2
  <2>6. Stuck(fs, h) => Stuck(fs, h)'
    BY <2>3 DEF Stuck
  <2>7. Hears(fs, h)'
    BY <2>1, <2>3, <2>5, <2>6 DEF Hears
  <2> QED
    BY <2>7 DEF Hearing
<1>8. CASE Delivers \/ AnswersPing \/ AnswersClose \/ RefusesUnmasked \/ NeedsMore \/ Fills
  BY <1>8, DeliversHears, AnswersPingHears, AnswersCloseHears, RefusesUnmaskedHears,
     NeedsMoreHears, FillsHears
<1>9. UNCHANGED vars => UNCHANGED socketVars
  BY DEF vars
<1>10. CASE ReadFrame
  BY <1>4, <1>6, <1>8, <1>10 DEF ReadFrame
<1> QED
  BY <1>2, <1>3, <1>5, <1>7, <1>9, <1>10 DEF Next, Reading, Troubles

(* For any conversation, however the network cuts it and wherever the      *)
(* client stops: the handler is given the frames that arrived, whole and   *)
(* in order, pings are answered with their payloads, and the reader never  *)
(* waits while a whole frame is in its buffer.                             *)
THEOREM FramesHeardAsSent == Spec => []FramesAsSent
<1>1. Spec => []Hearing
  BY HearingInit, HearingStep, PTL DEF Spec
<1> QED
  BY <1>1, HearingIsAsSent, PTL

-----------------------------------------------------------------------------
(* Windows: w is what lies behind the p-th and up to the q-th of s.        *)

(* What bodies are made of; the provers do not know the words of a header  *)
(* to be strings.                                                          *)
Token == STRING \cup {"CR", "LF", "-", "disposition", "file disposition", "type"}

Window(w, s, p, q) ==
  /\ p \in Nat /\ q \in Nat /\ p <= q /\ q <= Len(s)
  /\ w \in Seq(Token) /\ Len(w) = q - p
  /\ \A i \in 1..(q - p) : w[i] = s[p + i]

LEMMA WindowNone ==
  ASSUME NEW s \in Seq(Token), NEW p \in Nat, p <= Len(s)
  PROVE  Window(<<>>, s, p, p)
<1>1. <<>> \in Seq(Token) /\ Len(<<>>) = 0 /\ p - p = 0 /\ 1..0 = {}
  OBVIOUS
<1> QED
  BY <1>1 DEF Window

LEMMA WindowWhole ==
  ASSUME NEW s \in Seq(Token)
  PROVE  Window(s, s, 0, Len(s))
<1>1. Len(s) \in Nat /\ Len(s) - 0 = Len(s) /\ \A i \in 1..Len(s) : 0 + i = i
  OBVIOUS
<1> QED
  BY <1>1 DEF Window

(* A window opened further, and two windows side by side.                  *)
LEMMA WindowPart ==
  ASSUME NEW s \in Seq(Token), NEW p, NEW q, NEW w, Window(w, s, p, q),
         NEW a \in Nat, NEW b \in Nat, a <= b, b <= Len(w)
  PROVE  Window(SubSeq(w, a + 1, b), s, p + a, p + b)
<1>0. Len(s) \in Nat
  OBVIOUS
<1>1. /\ p \in Nat /\ q \in Nat /\ p <= q /\ q <= Len(s) /\ Len(s) \in Nat
      /\ w \in Seq(Token) /\ Len(w) = q - p
      /\ \A i \in 1..(q - p) : w[i] = s[p + i]
  BY <1>0, Zenon DEF Window
<1>2. Part(w, a, b) \in Seq(Token) /\ Len(Part(w, a, b)) = b - a
      /\ \A i \in 1..(b - a) : Part(w, a, b)[i] = w[a + i]
  <2>1. w \in Seq(Token)
    BY <1>1
  <2> QED
    BY <2>1, PartIs, Zenon
<1> DEFINE v == SubSeq(w, a + 1, b)
<1>3. v \in Seq(Token) /\ Len(v) = b - a /\ \A i \in 1..(b - a) : v[i] = w[a + i]
  BY <1>2 DEF Part
<1> HIDE DEF v
<1>4. /\ p + a \in Nat /\ p + b \in Nat /\ p + a <= p + b /\ p + b <= Len(s)
      /\ (p + b) - (p + a) = b - a
  BY <1>1
<1>5. ASSUME NEW i \in 1..(b - a) PROVE v[i] = s[(p + a) + i]
  <2>1. a + i \in 1..(q - p) /\ p + (a + i) = (p + a) + i
    BY <1>1
  <2>2. w[a + i] = s[p + (a + i)]
    BY <1>1, <2>1
  <2> QED
    BY <1>3, <2>1, <2>2
<1> QED
  BY <1>3, <1>4, <1>5 DEF Window, v

LEMMA WindowFrom ==
  ASSUME NEW s \in Seq(Token), NEW p, NEW q, NEW w, Window(w, s, p, q),
         NEW a \in Nat, a <= Len(w)
  PROVE  Window(From(w, a + 1), s, p + a, q)
<1>1. p \in Nat /\ q \in Nat /\ Len(w) = q - p /\ p <= q
  BY DEF Window
<1>2. Len(w) \in Nat /\ p + Len(w) = q
  BY <1>1
<1>3. Window(SubSeq(w, a + 1, Len(w)), s, p + a, p + Len(w))
  BY <1>2, WindowPart
<1> QED
  BY <1>2, <1>3 DEF From

LEMMA WindowTogether ==
  ASSUME NEW s \in Seq(Token), NEW p, NEW q, NEW r, NEW v, NEW w,
         Window(v, s, p, q), Window(w, s, q, r)
  PROVE  Window(v \o w, s, p, r)
<1>1. /\ p \in Nat /\ q \in Nat /\ r \in Nat /\ p <= q /\ q <= r /\ r <= Len(s)
      /\ Len(s) \in Nat
      /\ Len(v) = q - p /\ Len(w) = r - q
      /\ \A i \in 1..(q - p) : v[i] = s[p + i]
      /\ \A i \in 1..(r - q) : w[i] = s[q + i]
  BY DEF Window
<1>2. v \in Seq(Token) /\ w \in Seq(Token)
  BY DEF Window
<1>3. PICK c : c = v \o w
  OBVIOUS
<1>4. /\ c \in Seq(Token) /\ Len(c) = Len(v) + Len(w)
      /\ \A i \in 1..Len(v) : c[i] = v[i]
      /\ \A i \in 1..Len(w) : c[Len(v) + i] = w[i]
  BY <1>2, <1>3, ConcatIs
<1>5. Len(c) = r - p /\ p <= r
  BY <1>1, <1>4
<1>6. ASSUME NEW i \in 1..(r - p) PROVE c[i] = s[p + i]
  <2>1. CASE i <= q - p
    <3>1. i \in 1..(q - p)
      BY <1>1, <2>1
    <3> QED
      BY <1>1, <1>4, <3>1
  <2>2. CASE ~(i <= q - p)
    <3>1. PICK j \in Nat : j = i - (q - p)
      BY <1>1, <2>2
    <3>2. j \in 1..(r - q) /\ (q - p) + j = i /\ q + j = p + i
      BY <1>1, <2>2, <3>1
    <3>3. c[(q - p) + j] = w[j] /\ w[j] = s[q + j]
      BY <1>1, <1>4, <3>2
    <3> QED
      BY <3>2, <3>3
  <2> QED
    BY <2>1, <2>2
<1> QED
  BY <1>1, <1>3, <1>4, <1>5, <1>6 DEF Window

(* What was put together lies side by side.                                *)
LEMMA WindowApart ==
  ASSUME NEW s, NEW p, NEW r, NEW v \in Seq(Token), NEW w \in Seq(Token),
         Window(v \o w, s, p, r)
  PROVE  /\ Window(v, s, p, p + Len(v)) /\ Window(w, s, p + Len(v), r)
         /\ r = p + Len(v) + Len(w)
<1>1. PICK c : c = v \o w
  OBVIOUS
<1>2. /\ c \in Seq(Token) /\ Len(c) = Len(v) + Len(w)
      /\ \A i \in 1..Len(v) : c[i] = v[i]
      /\ \A i \in 1..Len(w) : c[Len(v) + i] = w[i]
  BY <1>1, ConcatIs
<1>3. /\ p \in Nat /\ r \in Nat /\ p <= r /\ r <= Len(s) /\ Len(c) = r - p
      /\ \A i \in 1..(r - p) : c[i] = s[p + i]
  BY <1>1 DEF Window
<1>4. PICK m \in Nat, n \in Nat : m = Len(v) /\ n = Len(w)
  OBVIOUS
<1>5. r = p + m + n /\ p + m \in Nat /\ p <= p + m /\ p + m <= r
      /\ (p + m) - p = m /\ r - (p + m) = n /\ r - p = m + n
  BY <1>2, <1>3, <1>4
<1>6. ASSUME NEW i \in 1..m PROVE v[i] = s[p + i]
  <2>1. i \in 1..(r - p)
    BY <1>4, <1>5
  <2> QED
    BY <1>2, <1>3, <1>4, <2>1
<1>7. ASSUME NEW i \in 1..n PROVE w[i] = s[(p + m) + i]
  <2>1. m + i \in 1..(r - p) /\ p + (m + i) = (p + m) + i
    BY <1>3, <1>4, <1>5
  <2>2. c[m + i] = s[p + (m + i)] /\ c[m + i] = w[i]
    BY <1>2, <1>3, <1>4, <2>1
  <2> QED
    BY <2>1, <2>2
<1>8. p + m <= Len(s)
  <2>1. Len(c) \in Nat
    BY <1>2
  <2> QED
    BY <1>3, <1>5
<1>9. Window(v, s, p, p + m)
  BY <1>3, <1>4, <1>5, <1>6, <1>8 DEF Window
<1>10. Window(w, s, p + m, r)
  BY <1>3, <1>4, <1>5, <1>7 DEF Window
<1> QED
  BY <1>4, <1>5, <1>9, <1>10

LEMMA WindowIs ==
  ASSUME NEW s \in Seq(Token), NEW p, NEW q, NEW w, Window(w, s, p, q)
  PROVE  /\ p \in Nat /\ q \in Nat /\ p <= q /\ q <= Len(s) /\ Len(s) \in Nat
         /\ w \in Seq(Token) /\ Len(w) \in Nat /\ Len(w) = q - p /\ DOMAIN w = 1..Len(w)
         /\ \A i \in 1..Len(w) : w[i] = s[p + i]
         /\ w = <<>> <=> p = q
<1>1. /\ p \in Nat /\ q \in Nat /\ p <= q /\ q <= Len(s)
      /\ w \in Seq(Token) /\ Len(w) = q - p
      /\ \A i \in 1..(q - p) : w[i] = s[p + i]
  BY Zenon DEF Window
<1>2. Len(s) \in Nat /\ Len(w) \in Nat /\ DOMAIN w = 1..Len(w)
  <2>1. w \in Seq(Token)
    BY <1>1, Zenon
  <2> QED
    BY <2>1
<1>3. w = <<>> <=> Len(w) = 0
  <2>1. w \in Seq(Token)
    BY <1>1, Zenon
  <2> QED
    BY <2>1, EmptySeq
<1>4. w = <<>> <=> p = q
  BY <1>1, <1>3
<1> QED
  BY <1>1, <1>2, <1>4, Zenon

(* The tokens of a window of two or three.                                 *)
LEMMA TwoTokens ==
  ASSUME NEW s, NEW p, NEW q, NEW x, NEW y, Window(<<x, y>>, s, p, q)
  PROVE  q = p + 2 /\ s[p + 1] = x /\ s[p + 2] = y
<1>1. /\ p \in Nat /\ q \in Nat /\ Len(<<x, y>>) = q - p
      /\ \A i \in 1..(q - p) : <<x, y>>[i] = s[p + i]
  BY Zenon DEF Window
<1>2. Len(<<x, y>>) = 2 /\ <<x, y>>[1] = x /\ <<x, y>>[2] = y
  OBVIOUS
<1>3. q = p + 2 /\ 1 \in 1..(q - p) /\ 2 \in 1..(q - p)
  BY <1>1, <1>2
<1> QED
  BY <1>1, <1>2, <1>3, Zenon

LEMMA ThreeTokens ==
  ASSUME NEW s, NEW p, NEW q, NEW x, NEW y, NEW z, Window(<<x, y, z>>, s, p, q)
  PROVE  q = p + 3 /\ s[p + 1] = x /\ s[p + 2] = y /\ s[p + 3] = z
<1>1. /\ p \in Nat /\ q \in Nat /\ Len(<<x, y, z>>) = q - p
      /\ \A i \in 1..(q - p) : <<x, y, z>>[i] = s[p + i]
  BY Zenon DEF Window
<1>2. /\ Len(<<x, y, z>>) = 3
      /\ <<x, y, z>>[1] = x /\ <<x, y, z>>[2] = y /\ <<x, y, z>>[3] = z
  OBVIOUS
<1>3. q = p + 3 /\ 1 \in 1..(q - p) /\ 2 \in 1..(q - p) /\ 3 \in 1..(q - p)
  BY <1>1, <1>2
<1> QED
  BY <1>1, <1>2, <1>3, Zenon

LEMMA WindowCut ==
  ASSUME NEW s, NEW p, NEW r, NEW v \in Seq(Token), NEW w \in Seq(Token),
         Window(v \o w, s, p, r)
  PROVE  \E q \in Nat : Window(v, s, p, q) /\ Window(w, s, q, r)
<1>1. Window(v, s, p, p + Len(v)) /\ Window(w, s, p + Len(v), r)
  BY WindowApart
<1>2. p + Len(v) \in Nat
  BY <1>1, Zenon DEF Window
<1> QED
  BY <1>1, <1>2, Zenon

-----------------------------------------------------------------------------
(* A form as it lies in what a browser sends.                              *)

LEMMA TextIsTokens == ASSUME NEW w \in Seq(STRING) PROVE w \in Seq(Token)
<1>1. ASSUME NEW S, NEW T, S \subseteq T, NEW v \in Seq(S) PROVE v \in Seq(T)
  <2>1. Len(v) \in Nat /\ \A i \in 1..Len(v) : v[i] \in S
    OBVIOUS
  <2>2. \A i \in 1..Len(v) : v[i] \in T
    BY <1>1, <2>1
  <2>3. v = [i \in 1..Len(v) |-> v[i]]
    OBVIOUS
  <2> QED
    BY <2>1, <2>2, <2>3
<1>2. STRING \subseteq Token
  BY Zenon DEF Token
<1> QED
  BY <1>1, <1>2, Zenon

LEMMA TokensOf ==
  /\ <<>> \in Seq(Token)
  /\ \A x, y \in Token : <<x, y>> \in Seq(Token)
  /\ \A x, y, z \in Token : <<x, y, z>> \in Seq(Token)
<1>1. ASSUME NEW T
      PROVE  /\ <<>> \in Seq(T)
             /\ \A x, y \in T : <<x, y>> \in Seq(T)
             /\ \A x, y, z \in T : <<x, y, z>> \in Seq(T)
  OBVIOUS
<1> QED
  BY <1>1, Zenon

(* How long the dashes and the boundary are.                               *)
B == Len(Boundary)

LEMMA BoundaryIs == B \in Nat /\ B > 2 /\ Boundary \in Seq(Token)
<1>1. Boundary \in Seq(STRING) /\ Len(Boundary) > 2
  BY BoundaryAssumption
<1> QED
  BY <1>1, TextIsTokens DEF B

LEMMA BoundaryDashes == Boundary[1] = "-" /\ Boundary[2] = "-"
<1>1. /\ Boundary \in Seq(STRING) /\ Len(Boundary) > 2
      /\ SubSeq(Boundary, 1, 2) = <<"-", "-">>
  BY BoundaryAssumption
<1>2. Part(Boundary, 0, 2) = SubSeq(Boundary, 1, 2)
  BY DEF Part
<1>3. \A i \in 1..2 : Part(Boundary, 0, 2)[i] = Boundary[i]
  <2>1. 0 \in Nat /\ 2 \in Nat /\ 0 <= 2 /\ 2 <= Len(Boundary) /\ 2 - 0 = 2
    BY <1>1
  <2>2. \A i \in 1..(2 - 0) : Part(Boundary, 0, 2)[i] = Boundary[0 + i]
    BY <1>1, <2>1, PartIs
  <2> QED
    BY <2>2
<1>4. Part(Boundary, 0, 2) = <<"-", "-">>
  BY <1>1, <1>2, Zenon
<1>5. Part(Boundary, 0, 2)[1] = "-" /\ Part(Boundary, 0, 2)[2] = "-"
  BY <1>4
<1>6. Part(Boundary, 0, 2)[1] = Boundary[1] /\ Part(Boundary, 0, 2)[2] = Boundary[2]
  BY <1>3
<1> QED
  BY <1>5, <1>6, Zenon

(* Where the data of a part begin.                                         *)
DataAt(f, p) == IF f.file THEN p + B + 10 ELSE p + B + 7

(* The part f lies behind the p-th token, and e is its last one.           *)
LiesAt(f, s, p, e) ==
  /\ e = DataAt(f, p) + Len(f.data) + 2
  /\ \A i \in 1..B : s[p + i] = Boundary[i]
  /\ s[p + B + 1] = "CR" /\ s[p + B + 2] = "LF"
  /\ s[p + B + 3] = IF f.file THEN "file disposition" ELSE "disposition"
  /\ s[p + B + 4] = "CR" /\ s[p + B + 5] = "LF"
  /\ f.file => s[p + B + 6] = "type" /\ s[p + B + 7] = "CR" /\ s[p + B + 8] = "LF"
  /\ s[DataAt(f, p) - 1] = "CR" /\ s[DataAt(f, p)] = "LF"
  /\ \A i \in 1..Len(f.data) : s[DataAt(f, p) + i] = f.data[i]
  /\ s[e - 1] = "CR" /\ s[e] = "LF"

LEMMA PartLies ==
  ASSUME NEW s \in Seq(Token), NEW p \in Nat, NEW e, NEW f \in FormPart,
         Window(PartBytes(f), s, p, e)
  PROVE  LiesAt(f, s, p, e)
<1> DEFINE eol == <<"CR", "LF">>
           word == IF f.file THEN "file disposition" ELSE "disposition"
           line == <<word, "CR", "LF">>
           type == IF f.file THEN <<"type", "CR", "LF">> ELSE <<>>
<1>1. /\ "CR" \in Token /\ "LF" \in Token /\ "disposition" \in Token
      /\ "file disposition" \in Token /\ "type" \in Token
  BY DEF Token
<1>2. f.file \in BOOLEAN /\ f.data \in Seq(STRING)
  BY DEF FormPart
<1> HIDE DEF Token, FormPart
<1>3. eol \in Seq(Token)
  BY <1>1, TokensOf
<1>4. line \in Seq(Token)
  <2>1. word \in Token
    BY <1>1
  <2> HIDE DEF word
  <2> QED
    BY <1>1, <2>1, TokensOf, Zenon
<1>5. type \in Seq(Token)
  BY <1>1, TokensOf
<1>6. f.data \in Seq(Token) /\ Len(f.data) \in Nat
  BY <1>2, TextIsTokens
<1>7. PartBytes(f) = Boundary \o eol \o line \o type \o eol \o f.data \o eol
  BY Zenon DEF PartBytes, word, line
<1> HIDE DEF eol, word, line, type
<1>8. B \in Nat /\ Len(Boundary) = B /\ Boundary \in Seq(Token)
  BY BoundaryIs DEF B
<1>9. PICK a1 \in Seq(Token) : a1 = Boundary \o eol
  BY <1>3, <1>8, ConcatIs, Zenon
<1>10. PICK a2 \in Seq(Token) : a2 = a1 \o line
  BY <1>4, ConcatIs, Zenon
<1>12. PICK a3 \in Seq(Token) : a3 = a2 \o type
  BY <1>5, ConcatIs, Zenon
<1>13. PICK a4 \in Seq(Token) : a4 = a3 \o eol
  BY <1>3, ConcatIs, Zenon
<1>15. PICK a5 \in Seq(Token) : a5 = a4 \o f.data
  BY <1>6, ConcatIs, Zenon
<1>16. Window(a5 \o eol, s, p, e)
  BY <1>7, <1>9, <1>10, <1>12, <1>13, <1>15, Zenon
<1>17. PICK g \in Nat : Window(a5, s, p, g) /\ Window(eol, s, g, e)
  BY <1>3, <1>16, WindowCut, Zenon
<1>18. PICK d \in Nat : Window(a4, s, p, d) /\ Window(f.data, s, d, g)
  BY <1>6, <1>15, <1>17, WindowCut, Zenon
<1>19. PICK c \in Nat : Window(a3, s, p, c) /\ Window(eol, s, c, d)
  BY <1>3, <1>13, <1>18, WindowCut, Zenon
<1>20. PICK b \in Nat : Window(a2, s, p, b) /\ Window(type, s, b, c)
  BY <1>5, <1>12, <1>19, WindowCut, Zenon
<1>21. PICK h \in Nat : Window(a1, s, p, h) /\ Window(line, s, h, b)
  BY <1>4, <1>10, <1>20, WindowCut, Zenon
<1>22. PICK a \in Nat : Window(Boundary, s, p, a) /\ Window(eol, s, a, h)
  BY <1>3, <1>8, <1>9, <1>21, WindowCut, Zenon
<1>23. PICK m \in Nat : m = Len(f.data)
  BY <1>6
<1>24. /\ a = p + B /\ h = a + 2 /\ b = h + 3 /\ d = c + 2 /\ g = d + m /\ e = g + 2
       /\ \A i \in 1..B : s[p + i] = Boundary[i]
       /\ \A i \in 1..m : s[d + i] = f.data[i]
       /\ s[a + 1] = "CR" /\ s[a + 2] = "LF" /\ s[c + 1] = "CR" /\ s[c + 2] = "LF"
       /\ s[g + 1] = "CR" /\ s[g + 2] = "LF"
       /\ s[h + 1] = word
       /\ s[h + 2] = "CR" /\ s[h + 3] = "LF"
  <2>1. h = a + 2 /\ s[a + 1] = "CR" /\ s[a + 2] = "LF"
    BY <1>22, TwoTokens, Zenon DEF eol
  <2>2. d = c + 2 /\ s[c + 1] = "CR" /\ s[c + 2] = "LF"
    BY <1>19, TwoTokens, Zenon DEF eol
  <2>3. e = g + 2 /\ s[g + 1] = "CR" /\ s[g + 2] = "LF"
    BY <1>17, TwoTokens, Zenon DEF eol
  <2>4. /\ b = h + 3 /\ s[h + 1] = word
        /\ s[h + 2] = "CR" /\ s[h + 3] = "LF"
    BY <1>21, ThreeTokens, Zenon DEF line
  <2>5. Len(Boundary) = a - p /\ \A i \in 1..Len(Boundary) : s[p + i] = Boundary[i]
    <3>1. Len(Boundary) = a - p /\ \A i \in 1..(a - p) : Boundary[i] = s[p + i]
      BY <1>22, Zenon DEF Window
    <3> QED
      BY <3>1, Zenon
  <2>6. Len(f.data) = g - d /\ \A i \in 1..Len(f.data) : s[d + i] = f.data[i]
    <3>1. Len(f.data) = g - d /\ \A i \in 1..(g - d) : f.data[i] = s[d + i]
      BY <1>18, Zenon DEF Window
    <3> QED
      BY <3>1, Zenon
  <2>7. B = a - p /\ m = g - d
    BY <1>8, <1>23, <2>5, <2>6, Zenon
  <2>8. a = p + B /\ g = d + m
    BY <1>8, <2>7
  <2> QED
    BY <1>8, <1>23, <2>1, <2>2, <2>3, <2>4, <2>5, <2>6, <2>8, Zenon
<1>25. /\ f.file => c = b + 3 /\ s[b + 1] = "type" /\ s[b + 2] = "CR" /\ s[b + 3] = "LF"
       /\ ~f.file => c = b
  <2>1. ASSUME f.file
        PROVE  c = b + 3 /\ s[b + 1] = "type" /\ s[b + 2] = "CR" /\ s[b + 3] = "LF"
    <3>1. Window(<<"type", "CR", "LF">>, s, b, c)
      BY <1>20, <2>1 DEF type
    <3> QED
      BY <3>1, ThreeTokens, Zenon
  <2>2. ASSUME ~f.file PROVE c = b
    <3>1. Window(<<>>, s, b, c)
      BY <1>20, <2>2 DEF type
    <3>2. Len(<<>>) = c - b /\ Len(<<>>) = 0
      BY <3>1 DEF Window
    <3> QED
      BY <3>2
  <2> QED
    BY <2>1, <2>2
<1>26. d = DataAt(f, p) /\ DataAt(f, p) \in Nat
  <2>1. f.file => d = p + B + 10
    BY <1>8, <1>24, <1>25
  <2>2. ~f.file => d = p + B + 7
    BY <1>8, <1>24, <1>25
  <2> QED
    BY <2>1, <2>2, Zenon DEF DataAt
<1>27. /\ f.file => b + 1 = p + B + 6 /\ b + 2 = p + B + 7 /\ b + 3 = p + B + 8
       /\ h + 1 = p + B + 3 /\ h + 2 = p + B + 4 /\ h + 3 = p + B + 5
       /\ a + 1 = p + B + 1 /\ a + 2 = p + B + 2
       /\ c + 1 = d - 1 /\ c + 2 = d /\ g + 1 = e - 1 /\ g + 2 = e /\ e = d + m + 2
  BY <1>8, <1>24
<1>28. e = DataAt(f, p) + Len(f.data) + 2
  BY <1>23, <1>26, <1>27, Zenon
<1>29. s[p + B + 1] = "CR" /\ s[p + B + 2] = "LF"
  BY <1>24, <1>27, Zenon
<1>30. /\ s[p + B + 3] = IF f.file THEN "file disposition" ELSE "disposition"
       /\ s[p + B + 4] = "CR" /\ s[p + B + 5] = "LF"
  BY <1>24, <1>27, Zenon DEF word
<1>31. f.file => s[p + B + 6] = "type" /\ s[p + B + 7] = "CR" /\ s[p + B + 8] = "LF"
  BY <1>25, <1>27, Zenon
<1>32. s[DataAt(f, p) - 1] = "CR" /\ s[DataAt(f, p)] = "LF" /\ s[e - 1] = "CR" /\ s[e] = "LF"
  <2>1. s[d - 1] = "CR" /\ s[d] = "LF" /\ s[e - 1] = "CR" /\ s[e] = "LF"
    BY <1>24, <1>27, Zenon
  <2> QED
    BY <1>26, <2>1, Zenon
<1>33. \A i \in 1..Len(f.data) : s[DataAt(f, p) + i] = f.data[i]
  BY <1>23, <1>24, <1>26, Zenon
<1> QED
  BY <1>24, <1>28, <1>29, <1>30, <1>31, <1>32, <1>33, Zenon DEF LiesAt

LEMMA WindowBegins ==
  ASSUME NEW s, NEW p, NEW q, NEW w \in Seq(Token), NEW v \in Seq(Token),
         Window(w, s, p, q), Begins(v, w)
  PROVE  Window(v, s, p, p + Len(v))
<1>1. /\ p \in Nat /\ q \in Nat /\ p <= q /\ q <= Len(s) /\ Len(w) = q - p
      /\ \A i \in 1..(q - p) : w[i] = s[p + i]
  BY Zenon DEF Window
<1>2. Len(v) <= Len(w) /\ \A i \in 1..Len(v) : w[i] = v[i]
  BY DEF Begins
<1>3. PICK m \in Nat : m = Len(v)
  OBVIOUS
<1>4. /\ p + m \in Nat /\ p <= p + m /\ p + m <= q /\ (p + m) - p = m
      /\ \A i \in 1..m : i \in 1..(q - p)
  BY <1>1, <1>2, <1>3
<1>5. p + m <= Len(s)
  <2>1. Len(w) \in Nat
    OBVIOUS
  <2>2. PICK l : l = Len(s)
    OBVIOUS
  <2> QED
    BY <1>1, <1>3, <1>4
<1>6. \A i \in 1..m : v[i] = s[p + i]
  BY <1>1, <1>2, <1>3, <1>4, Zenon
<1>7. Window(v, s, p, p + m)
  BY <1>1, <1>3, <1>4, <1>5, <1>6, Zenon DEF Window
<1> QED
  BY <1>3, <1>7, Zenon

PartFun == [f \in FormPart |-> PartBytes(f)]

LEMMA PartTokens == ASSUME NEW f \in FormPart PROVE PartBytes(f) \in Seq(Token)
<1>1. /\ "CR" \in Token /\ "LF" \in Token /\ "disposition" \in Token
      /\ "file disposition" \in Token /\ "type" \in Token
  BY DEF Token
<1>2. f.file \in BOOLEAN /\ f.data \in Seq(STRING)
  BY DEF FormPart
<1> DEFINE eol == <<"CR", "LF">>
           word == IF f.file THEN "file disposition" ELSE "disposition"
           line == <<word, "CR", "LF">>
           type == IF f.file THEN <<"type", "CR", "LF">> ELSE <<>>
<1> HIDE DEF Token, FormPart
<1>3. word \in Token
  BY <1>1
<1> HIDE DEF word
<1>4. eol \in Seq(Token) /\ line \in Seq(Token)
  BY <1>1, <1>3, TokensOf, Zenon
<1>5. type \in Seq(Token)
  BY <1>1, TokensOf
<1>6. f.data \in Seq(Token)
  BY <1>2, TextIsTokens
<1>7. PartBytes(f) = Boundary \o eol \o line \o type \o eol \o f.data \o eol
  BY Zenon DEF PartBytes, word
<1> HIDE DEF eol, line, type
<1>8. ASSUME NEW v \in Seq(Token), NEW w \in Seq(Token) PROVE v \o w \in Seq(Token)
  BY ConcatIs, Zenon
<1>9. Boundary \o eol \in Seq(Token)
  BY <1>4, <1>8, BoundaryIs, Zenon
<1>10. Boundary \o eol \o line \in Seq(Token)
  BY <1>4, <1>8, <1>9, Zenon
<1>11. Boundary \o eol \o line \o type \in Seq(Token)
  BY <1>5, <1>8, <1>10, Zenon
<1>12. Boundary \o eol \o line \o type \o eol \in Seq(Token)
  BY <1>4, <1>8, <1>11, Zenon
<1>13. Boundary \o eol \o line \o type \o eol \o f.data \in Seq(Token)
  BY <1>6, <1>8, <1>12, Zenon
<1> QED
  BY <1>4, <1>7, <1>8, <1>13, Zenon

LEMMA PartGives == Gives(PartFun, FormPart, Seq(Token))
<1> HIDE DEF FormPart
<1>1. \A f \in FormPart : PartFun[f] = PartBytes(f)
  BY DEF PartFun
<1> QED
  BY <1>1, PartTokens, Zenon DEF Gives

(* The parts of a form lie one behind the other; Spot(fs, k) is where the  *)
(* first k of them end.                                                    *)
Spot(fs, k) == Len(Made(PartFun, fs, k))

LEMMA FormMade ==
  ASSUME NEW fs \in Seq(FormPart)
  PROVE  FormBytes(fs) = Made(PartFun, fs, Len(fs)) \o Boundary \o <<"-", "-", "CR", "LF">>
<1>1. \A i \in DOMAIN fs : fs[i] \in FormPart
  OBVIOUS
<1> HIDE DEF FormPart
<1>2. \A i \in DOMAIN fs : PartFun[fs[i]] = PartBytes(fs[i])
  BY <1>1 DEF PartFun
<1>3. [i \in DOMAIN fs |-> PartBytes(fs[i])] = Each(PartFun, fs)
  BY <1>2 DEF Each
<1>4. Len(fs) \in 0..Len(fs)
  OBVIOUS
<1>5. Made(PartFun, fs, Len(fs)) = Joined(Each(PartFun, fs))
  BY <1>4, PartGives, MadeIs
<1> QED
  BY <1>3, <1>5, Zenon DEF FormBytes

LEMMA FormLies ==
  ASSUME NEW fs \in Seq(FormPart), NEW s, s = FormBytes(fs)
  PROVE  /\ s \in Seq(Token) /\ Len(s) \in Nat
         /\ Spot(fs, 0) = 0 /\ Len(s) = Spot(fs, Len(fs)) + B + 4
         /\ s[Spot(fs, Len(fs)) + B + 1] = "-" /\ s[Spot(fs, Len(fs)) + B + 2] = "-"
         /\ \A k \in 0..Len(fs) :
              /\ Spot(fs, k) \in Nat /\ Spot(fs, k) + B + 2 <= Len(s)
              /\ \A i \in 1..B : s[Spot(fs, k) + i] = Boundary[i]
         /\ \A k \in 1..Len(fs) : LiesAt(fs[k], s, Spot(fs, k - 1), Spot(fs, k))
<1> DEFINE m(j) == Made(PartFun, fs, j)
           tail == <<"-", "-", "CR", "LF">>
<1>0. PICK n \in Nat : n = Len(fs)
  OBVIOUS
<1>1. \A j \in 1..n : fs[j] \in FormPart
  BY <1>0
<1> HIDE DEF FormPart
<1>2. ASSUME NEW j \in 0..n
      PROVE  /\ m(j) \in Seq(Token) /\ m(0) = <<>>
             /\ \A i \in j..n : Begins(m(j), m(i))
             /\ j < n => m(j + 1) = m(j) \o PartFun[fs[j + 1]]
  <2>1. j \in 0..Len(fs)
    BY <1>0
  <2> HIDE DEF Token
  <2>2. /\ m(j) \in Seq(Token) /\ m(0) = <<>>
        /\ \A i \in j..Len(fs) : Begins(m(j), m(i))
        /\ j < Len(fs) => m(j + 1) = m(j) \o PartFun[fs[j + 1]]
    <3>1. Gives(PartFun, FormPart, Seq(Token)) /\ fs \in Seq(FormPart)
      BY PartGives
    <3> HIDE DEF Gives
    <3> QED
      BY <2>1, <3>1, MadeIs
  <2> QED
    BY <1>0, <2>2, Zenon
<1>3. s = m(n) \o Boundary \o tail
  BY <1>0, FormMade
<1>4. \A j \in 0..n : Spot(fs, j) = Len(m(j))
  BY DEF Spot
<1> HIDE DEF m
<1>5. tail \in Seq(Token)
  <2>1. "CR" \in Token /\ "LF" \in Token /\ "-" \in Token
    BY DEF Token
  <2> HIDE DEF Token
  <2> QED
    BY <2>1
<1>6. n \in 0..n /\ 0 \in 0..n /\ m(n) \in Seq(Token)
  BY <1>0, <1>2
<1>7. PICK c \in Seq(Token) : c = m(n) \o Boundary
  BY <1>6, BoundaryIs, ConcatIs, Zenon
<1>8. s = c \o tail /\ s \in Seq(Token)
  <2>1. s = c \o tail
    BY <1>3, <1>7, Zenon
  <2> QED
    BY <2>1, <1>5, ConcatIs, Zenon
<1>9. Window(c \o tail, s, 0, Len(s))
  BY <1>8, WindowWhole, Zenon
<1>10. PICK x \in Nat : Window(c, s, 0, x) /\ Window(tail, s, x, Len(s))
  BY <1>5, <1>9, WindowCut, Zenon
<1>11. PICK y \in Nat : Window(m(n), s, 0, y) /\ Window(Boundary, s, y, x)
  BY <1>6, <1>7, <1>10, BoundaryIs, WindowCut, Zenon
<1>12. y = Len(m(n)) /\ y = Spot(fs, n)
  <2>1. Len(m(n)) = y - 0
    BY <1>11, Zenon DEF Window
  <2>2. Len(m(n)) = y
    BY <2>1
  <2>3. Spot(fs, n) = Len(m(n))
    BY <1>4, <1>6, Zenon
  <2> QED
    BY <2>2, <2>3, Zenon
<1>13. x = y + B /\ \A i \in 1..B : s[y + i] = Boundary[i]
  <2>1. Len(Boundary) = x - y /\ \A i \in 1..(x - y) : Boundary[i] = s[y + i]
    BY <1>11, Zenon DEF Window
  <2> QED
    BY <2>1, BoundaryIs DEF B
<1>14. Len(s) = x + 4 /\ s[x + 1] = "-" /\ s[x + 2] = "-" /\ Len(s) \in Nat
  <2>0. Len(s) \in Nat
    BY <1>8
  <2>1. /\ Len(tail) = Len(s) - x
        /\ \A i \in 1..(Len(s) - x) : tail[i] = s[x + i]
    BY <1>10, Zenon DEF Window
  <2>2. Len(tail) = 4 /\ tail[1] = "-" /\ tail[2] = "-"
    OBVIOUS
  <2> HIDE DEF tail
  <2>3. Len(s) - x = 4
    BY <2>1, <2>2, Zenon
  <2>4. Len(s) = x + 4 /\ 1 \in 1..(Len(s) - x) /\ 2 \in 1..(Len(s) - x)
    BY <2>0, <2>3
  <2> QED
    BY <2>0, <2>1, <2>2, <2>4, Zenon
<1> HIDE DEF tail
<1>15. ASSUME NEW k \in 0..n
       PROVE  /\ Spot(fs, k) \in Nat /\ Spot(fs, k) <= y
              /\ Window(m(k), s, 0, Spot(fs, k))
  <2>1. n \in k..n /\ m(k) \in Seq(Token)
    BY <1>2
  <2>2. Begins(m(k), m(n))
    BY <1>2, <2>1
  <2>3. Window(m(k), s, 0, 0 + Len(m(k)))
    BY <1>6, <1>11, <2>1, <2>2, WindowBegins, Zenon
  <2>4. Len(m(k)) <= Len(m(n)) /\ Len(m(k)) \in Nat
    BY <2>1, <2>2 DEF Begins
  <2>5. Spot(fs, k) = Len(m(k)) /\ 0 + Len(m(k)) = Len(m(k))
    BY <1>4, <2>4
  <2> QED
    BY <1>12, <2>3, <2>4, <2>5, Zenon
<1>16. ASSUME NEW k \in 1..n
       PROVE  LiesAt(fs[k], s, Spot(fs, k - 1), Spot(fs, k))
  <2>1. PICK j \in 0..n : j = k - 1 /\ j < n /\ k = j + 1 /\ k \in 0..n
    BY <1>0
  <2>2. fs[k] \in FormPart
    BY <1>1
  <2>3. PartFun[fs[k]] = PartBytes(fs[k]) /\ PartBytes(fs[k]) \in Seq(Token)
    BY <2>2, PartTokens DEF PartFun
  <2>4. m(k) = m(j) \o PartBytes(fs[k]) /\ m(j) \in Seq(Token)
    BY <1>2, <2>1, <2>3
  <2>5. Window(m(j) \o PartBytes(fs[k]), s, 0, Spot(fs, k))
    BY <1>15, <2>1, <2>4, Zenon
  <2>6. Window(PartBytes(fs[k]), s, 0 + Len(m(j)), Spot(fs, k))
    BY <2>3, <2>4, <2>5, WindowApart, Zenon
  <2>7. Spot(fs, j) \in Nat /\ 0 + Len(m(j)) = Spot(fs, j)
    <3>1. Len(m(j)) \in Nat
      BY <2>4
    <3>2. Spot(fs, j) = Len(m(j))
      BY <1>4, Zenon
    <3> QED
      BY <3>1, <3>2
  <2>8. Window(PartBytes(fs[k]), s, Spot(fs, j), Spot(fs, k))
    BY <2>6, <2>7, Zenon
  <2>9. LiesAt(fs[k], s, Spot(fs, j), Spot(fs, k))
    BY <1>8, <2>2, <2>7, <2>8, PartLies, Zenon
  <2> QED
    BY <2>1, <2>9, Zenon
<1>17. ASSUME NEW k \in 0..n
       PROVE  /\ Spot(fs, k) \in Nat /\ Spot(fs, k) + B + 2 <= Len(s)
              /\ \A i \in 1..B : s[Spot(fs, k) + i] = Boundary[i]
  <2>1. Spot(fs, k) \in Nat /\ Spot(fs, k) <= y
    BY <1>15
  <2>2. Spot(fs, k) + B + 2 <= Len(s)
    BY <1>13, <1>14, <2>1, BoundaryIs
  <2>3. CASE k = n
    BY <1>12, <1>13, <2>1, <2>2, <2>3
  <2>4. CASE k # n
    <3>1. PICK j \in 1..n : j = k + 1 /\ j - 1 = k
      BY <1>0, <2>4
    <3>2. LiesAt(fs[j], s, Spot(fs, k), Spot(fs, j))
      BY <1>16, <3>1, Zenon
    <3> QED
      BY <2>1, <2>2, <3>2, Zenon DEF LiesAt
  <2> QED
    BY <2>3, <2>4
<1>18. Spot(fs, 0) = 0
  <2>1. m(0) = <<>> /\ Spot(fs, 0) = Len(m(0))
    BY <1>2, <1>4, <1>6
  <2> QED
    BY <2>1
<1>19. /\ Len(s) = Spot(fs, n) + B + 4
       /\ s[Spot(fs, n) + B + 1] = "-" /\ s[Spot(fs, n) + B + 2] = "-"
  BY <1>12, <1>13, <1>14, BoundaryIs
<1> QED
  BY <1>0, <1>8, <1>14, <1>16, <1>17, <1>18, <1>19, Zenon

-----------------------------------------------------------------------------
(* Where the reader stands in a form: p tokens are behind it, q have come. *)

(* The tokens that it has not gone through.                                *)
Kept == IF rest = <<>> THEN buffer ELSE rest

(* The first k - 1 parts are as they were sent, and the k-th is spec.      *)
Told(fs, k, spec) ==
  /\ k \in 1..Len(fs) /\ bodySpecs \in Seq(FormPart) /\ Len(bodySpecs) = k
  /\ \A i \in 1..(k - 1) : bodySpecs[i] = fs[i]
  /\ bodySpecs[k] = spec

AllTold(fs, k) ==
  /\ k \in 0..Len(fs) /\ bodySpecs \in Seq(FormPart) /\ Len(bodySpecs) = k
  /\ \A i \in 1..k : bodySpecs[i] = fs[i]

AtBoundary(fs, p, q) ==
  /\ state = "StateBoundary"
  /\ \E k \in 0..Len(fs) : p = Spot(fs, k) /\ AllTold(fs, k)
  /\ rest = <<>> => q < p + B + 2

(* Behind p there is a line of n tokens of a part's header, and spec is    *)
(* what the lines before it said.                                          *)
Header(f, t, p, n, spec) ==
  \/ p = t + B + 2 /\ n = 3 /\ spec = NewSpec
  \/ f.file /\ p = t + B + 5 /\ n = 3 /\ spec = [file |-> TRUE, data |-> <<>>]
  \/ p = DataAt(f, t) - 2 /\ n = 2 /\ spec = [file |-> f.file, data |-> <<>>]

AtHeader(fs, p, q) ==
  /\ state = "StateHeader"
  /\ \E k \in 1..Len(fs), n \in {2, 3} : \E spec \in FormPart :
       /\ Header(fs[k], Spot(fs, k - 1), p, n, spec) /\ Told(fs, k, spec)
       /\ rest = <<>> => q < p + n

(* All data up to p is in the part; what is kept has no whole delimiter.   *)
InData(f, d, p) == [file |-> f.file, data |-> First(f.data, p - d)]

AtData(fs, p, q) ==
  \E k \in 1..Len(fs), d \in Nat, m \in Nat :
    /\ d = DataAt(fs[k], Spot(fs, k - 1)) /\ m = Len(fs[k].data)
    /\ state = DataState(fs[k])
    /\ d <= p /\ p <= d + m /\ Told(fs, k, InData(fs[k], d, p))
    /\ rest = <<>> => q < d + m + 2 + B

LEMMA KeptIs ==
  /\ rest # <<>> => Kept = rest
  /\ rest = <<>> => Kept = buffer
  /\ \A r : GoesOnWith(r) => Kept' = r /\ (rest' = <<>> <=> r = <<>>)
  /\ \A r : Keeps(r) => Kept' = r /\ rest' = <<>>
<1>1. /\ rest # <<>> => Kept = rest
      /\ rest = <<>> => Kept = buffer
  BY DEF Kept
<1>2. ASSUME NEW r, GoesOnWith(r)
      PROVE  Kept' = r /\ (rest' = <<>> <=> r = <<>>)
  <2>1. rest' = r /\ (r = <<>> => buffer' = <<>>)
    BY <1>2 DEF GoesOnWith
  <2>2. Kept' = IF rest' = <<>> THEN buffer' ELSE rest'
    BY DEF Kept
  <2> QED
    BY <2>1, <2>2
<1>3. ASSUME NEW r, Keeps(r)
      PROVE  Kept' = r /\ rest' = <<>>
  <2>1. Kept' = IF rest' = <<>> THEN buffer' ELSE rest'
    BY DEF Kept
  <2> QED
    BY <1>3, <2>1 DEF Keeps
<1> QED
  BY <1>1, <1>2, <1>3

(* A part in its place.                                                    *)
LEMMA PartInPlace ==
  ASSUME NEW fs \in Seq(FormPart), NEW s, s = FormBytes(fs), NEW k \in 1..Len(fs)
  PROVE  /\ fs[k] \in FormPart /\ fs[k].file \in BOOLEAN
         /\ fs[k].data \in Seq(STRING) /\ Len(fs[k].data) \in Nat
         /\ Spot(fs, k - 1) \in Nat /\ Spot(fs, k) \in Nat
         /\ DataAt(fs[k], Spot(fs, k - 1)) \in Nat
         /\ Spot(fs, k) = DataAt(fs[k], Spot(fs, k - 1)) + Len(fs[k].data) + 2
         /\ Spot(fs, k) + B + 2 <= Len(s)
         /\ \A i \in 1..B : s[Spot(fs, k) + i] = Boundary[i]
         /\ LiesAt(fs[k], s, Spot(fs, k - 1), Spot(fs, k))
<1>1. fs[k] \in FormPart
  OBVIOUS
<1>2. fs[k].file \in BOOLEAN /\ fs[k].data \in Seq(STRING)
  BY <1>1 DEF FormPart
<1>3. Len(fs[k].data) \in Nat
  BY <1>2
<1>4. k \in 0..Len(fs) /\ k - 1 \in 0..Len(fs)
  OBVIOUS
<1> HIDE DEF FormPart
<1>5. /\ Spot(fs, k) \in Nat /\ Spot(fs, k) + B + 2 <= Len(s)
      /\ \A i \in 1..B : s[Spot(fs, k) + i] = Boundary[i]
      /\ Spot(fs, k - 1) \in Nat
      /\ LiesAt(fs[k], s, Spot(fs, k - 1), Spot(fs, k))
  BY <1>4, FormLies, Zenon
<1>6. Spot(fs, k) = DataAt(fs[k], Spot(fs, k - 1)) + Len(fs[k].data) + 2
  BY <1>5, Zenon DEF LiesAt
<1>7. DataAt(fs[k], Spot(fs, k - 1)) \in Nat
  <2>1. PICK t \in Nat : t = Spot(fs, k - 1)
    BY <1>5
  <2>2. DataAt(fs[k], t) \in Nat
    BY BoundaryIs DEF DataAt
  <2> QED
    BY <2>1, <2>2
<1> QED
  BY <1>1, <1>2, <1>3, <1>5, <1>6, <1>7, Zenon

LEMMA TwoDashes ==
  ASSUME NEW v \in Seq(Token), Len(v) = 2, v[1] = "-", v[2] = "-"
  PROVE  v = <<"-", "-">>
<1>1. "-" \in Token
  BY DEF Token
<1>2. <<"-", "-">> \in Seq(Token)
  BY <1>1, TokensOf, Zenon
<1>3. Len(<<"-", "-">>) = 2 /\ \A i \in 1..2 : v[i] = <<"-", "-">>[i]
  OBVIOUS
<1> HIDE DEF Token
<1> QED
  BY <1>2, <1>3, SeqEqual

(* Two dashes in what is kept, and behind a boundary.                      *)
LEMMA DashesThere ==
  ASSUME NEW s \in Seq(Token), NEW p, NEW q, NEW w, Window(w, s, p, q),
         NEW a \in Nat, a + 2 <= Len(w)
  PROVE  SubSeq(w, a + 1, a + 2) = <<"-", "-">> <=> (s[p + a + 1] = "-" /\ s[p + a + 2] = "-")
<1>1. p \in Nat /\ a + 2 \in Nat /\ a <= a + 2 /\ a + 2 <= Len(w)
  BY DEF Window
<1> DEFINE v == SubSeq(w, a + 1, a + 2)
<1>2. Window(v, s, p + a, p + (a + 2))
  BY <1>1, WindowPart, Zenon
<1> HIDE DEF v
<1>4. /\ v \in Seq(Token) /\ Len(v) = (p + (a + 2)) - (p + a)
      /\ \A i \in 1..((p + (a + 2)) - (p + a)) : v[i] = s[(p + a) + i]
  BY <1>2, Zenon DEF Window
<1>5. (p + (a + 2)) - (p + a) = 2 /\ (p + a) + 1 = p + a + 1 /\ (p + a) + 2 = p + a + 2
  BY <1>1
<1>6. Len(v) = 2 /\ v[1] = s[p + a + 1] /\ v[2] = s[p + a + 2]
  <2>1. 1 \in 1..2 /\ 2 \in 1..2
    OBVIOUS
  <2> QED
    BY <1>4, <1>5, <2>1, Zenon
<1>7. ASSUME v[1] = "-", v[2] = "-" PROVE v = <<"-", "-">>
  BY <1>4, <1>6, <1>7, TwoDashes, Zenon
<1>8. v = <<"-", "-">> => v[1] = "-" /\ v[2] = "-"
  OBVIOUS
<1>9. v = <<"-", "-">> <=> (s[p + a + 1] = "-" /\ s[p + a + 2] = "-")
  BY <1>6, <1>7, <1>8, Zenon
<1> QED
  BY <1>9 DEF v

LEMMA FollowsIs ==
  ASSUME NEW s \in Seq(Token), NEW p, NEW q, Window(rest, s, p, q), Len(rest) >= B + 2
  PROVE  Follows(2) = <<"-", "-">> <=> (s[p + B + 1] = "-" /\ s[p + B + 2] = "-")
<1>1. B \in Nat /\ B + 2 <= Len(rest)
  BY BoundaryIs, WindowIs
<1>2. SubSeq(rest, B + 1, B + 2) = <<"-", "-">> <=> (s[p + B + 1] = "-" /\ s[p + B + 2] = "-")
  BY <1>1, DashesThere
<1> QED
  BY <1>2 DEF Follows, B

LEMMA BoundaryUnfinishedReads ==
  ASSUME NEW fs \in Seq(FormPart), NEW s, s = FormBytes(fs), NEW p, NEW q,
         Window(Kept, s, p, q), AtBoundary(fs, p, q), BoundaryUnfinished
  PROVE  Window(Kept, s, p, q)' /\ AtBoundary(fs, p, q)'
<1>1. /\ rest # <<>> /\ Len(rest) < B + 2 /\ Keeps(rest) /\ UNCHANGED <<state, bodySpecs>>
  BY DEF BoundaryUnfinished, B
<1>2. Kept = rest /\ Kept' = rest /\ rest' = <<>>
  BY <1>1, KeptIs
<1>3. Window(rest, s, p, q)
  BY <1>2
<1>4. Window(Kept, s, p, q)'
  BY <1>2, <1>3 DEF Window
<1>5. q < p + B + 2
  <2>1. p \in Nat /\ q \in Nat /\ Len(rest) = q - p
    BY <1>3, Zenon DEF Window
  <2> QED
    BY <1>1, <2>1, BoundaryIs
<1>6. AtBoundary(fs, p, q)'
  BY <1>1, <1>5 DEF AtBoundary, AllTold
<1> QED
  BY <1>4, <1>6

LEMMA LastBoundaryReads ==
  ASSUME NEW fs \in Seq(FormPart), NEW s, s = FormBytes(fs), NEW p, NEW q,
         Window(Kept, s, p, q), AtBoundary(fs, p, q), LastBoundary
  PROVE  state' = "StateDone" /\ bodySpecs' = fs
<1>1. /\ Len(rest) >= B + 2 /\ Follows(2) = <<"-", "-">>
      /\ state' = "StateDone" /\ bodySpecs' = bodySpecs
  BY DEF LastBoundary, B
<1>2. rest # <<>>
  BY <1>1, BoundaryIs
<1>3. Window(rest, s, p, q) /\ s \in Seq(Token)
  BY <1>2, KeptIs, FormLies
<1>4. s[p + B + 1] = "-"
  BY <1>1, <1>3, FollowsIs, Zenon
<1>5. PICK k \in 0..Len(fs) : p = Spot(fs, k) /\ AllTold(fs, k)
  BY DEF AtBoundary
<1>6. ASSUME k # Len(fs) PROVE FALSE
  <2>1. PICK j \in 1..Len(fs) : j - 1 = k
    <3>1. k + 1 \in 1..Len(fs) /\ (k + 1) - 1 = k
      BY <1>6
    <3> QED
      BY <3>1
  <2>2. LiesAt(fs[j], s, p, Spot(fs, j))
    BY <1>5, <2>1, PartInPlace, Zenon
  <2>3. s[p + B + 1] = "CR"
    BY <2>2, Zenon DEF LiesAt
  <2> QED
    BY <1>4, <2>3
<1>7. bodySpecs \in Seq(FormPart) /\ Len(bodySpecs) = Len(fs)
      /\ \A i \in 1..Len(fs) : bodySpecs[i] = fs[i]
  BY <1>5, <1>6 DEF AllTold
<1> HIDE DEF FormPart
<1>8. bodySpecs = fs
  BY <1>7, SeqEqual
<1> QED
  BY <1>1, <1>8

LEMMA BoundaryOfPartReads ==
  ASSUME NEW fs \in Seq(FormPart), NEW s, s = FormBytes(fs), NEW p, NEW q,
         Window(Kept, s, p, q), AtBoundary(fs, p, q), BoundaryOfPart
  PROVE  \E r \in Nat : Window(Kept, s, r, q)' /\ AtHeader(fs, r, q)'
<1>1. /\ Len(rest) >= B + 2 /\ ~(Follows(2) = <<"-", "-">>)
      /\ state' = "StateHeader" /\ bodySpecs' = Append(bodySpecs, NewSpec)
      /\ GoesOnWith(From(rest, B + 3))
  BY DEF BoundaryOfPart, B
<1>2. rest # <<>>
  BY <1>1, BoundaryIs
<1>3. Window(rest, s, p, q) /\ s \in Seq(Token)
  BY <1>2, KeptIs, FormLies
<1>4. ~(s[p + B + 1] = "-" /\ s[p + B + 2] = "-")
  BY <1>1, <1>3, FollowsIs, Zenon
<1>5. PICK k \in 0..Len(fs) : p = Spot(fs, k) /\ AllTold(fs, k)
  BY DEF AtBoundary
<1>6. k # Len(fs)
  BY <1>4, <1>5, FormLies, Zenon
<1>7. PICK j \in 1..Len(fs) : j - 1 = k /\ j = k + 1
  <2>1. k + 1 \in 1..Len(fs) /\ (k + 1) - 1 = k
    BY <1>6
  <2> QED
    BY <2>1
<1>8. p \in Nat /\ q \in Nat
  BY <1>3 DEF Window
<1>9. PICK r \in Nat : r = p + (B + 2) /\ r = p + B + 2 /\ B + 2 \in Nat /\ (B + 2) + 1 = B + 3
  BY <1>8, BoundaryIs
<1> DEFINE w == From(rest, B + 3)
<1>10. Window(w, s, r, q)
  <2>1. B + 2 <= Len(rest)
    <3>1. Len(rest) \in Nat
      BY <1>3, WindowIs, Zenon
    <3> QED
      BY <1>1, <3>1, BoundaryIs
  <2>2. Window(From(rest, (B + 2) + 1), s, p + (B + 2), q)
    BY <1>3, <1>9, <2>1, WindowFrom, Zenon
  <2> QED
    BY <1>9, <2>2, Zenon
<1>11. Kept' = w /\ (rest' = <<>> <=> w = <<>>)
  BY <1>1, KeptIs, Zenon
<1> HIDE DEF w
<1>12. Window(Kept, s, r, q)'
  BY <1>10, <1>11 DEF Window
<1>13. NewSpec \in FormPart
  <2>1. <<>> \in Seq(STRING)
    OBVIOUS
  <2> QED
    BY <2>1 DEF NewSpec, FormPart
<1> HIDE DEF FormPart
<1>14. Told(fs, j, NewSpec)'
  <2>1. /\ bodySpecs \in Seq(FormPart) /\ Len(bodySpecs) = k
        /\ \A i \in 1..k : bodySpecs[i] = fs[i]
    BY <1>5 DEF AllTold
  <2>2. /\ bodySpecs' \in Seq(FormPart) /\ Len(bodySpecs') = Len(bodySpecs) + 1
        /\ \A i \in 1..Len(bodySpecs) : bodySpecs'[i] = bodySpecs[i]
        /\ bodySpecs'[Len(bodySpecs) + 1] = NewSpec
    BY <1>1, <1>13, <2>1, AppendProperties
  <2> QED
    BY <1>7, <2>1, <2>2 DEF Told
<1>15. (rest = <<>>)' => q < r + 3
  <2>1. w = <<>> => r = q
    BY <1>3, <1>10, WindowIs, Zenon
  <2> QED
    BY <1>11, <2>1
<1>16. Header(fs[j], Spot(fs, j - 1), r, 3, NewSpec)
  BY <1>5, <1>7, <1>9, Zenon DEF Header
<1>17. AtHeader(fs, r, q)'
  <2>1. Header(fs[j], Spot(fs, j - 1), r, 3, NewSpec)'
    BY <1>16 DEF Header, NewSpec
  <2> QED
    BY <1>1, <1>13, <1>14, <1>15, <2>1 DEF AtHeader
<1> QED
  BY <1>12, <1>17

(* Line ends in what is kept.                                              *)
LEMMA EolIs ==
  ASSUME NEW s \in Seq(Token), NEW p, NEW q, Window(rest, s, p, q)
  PROVE  /\ \A i \in Nat \ {0} :
              IsEol(rest, i) <=> i < Len(rest) /\ s[p + i] = "CR" /\ s[p + i + 1] = "LF"
         /\ \A i \in Nat \ {0} : IsEol(rest, i) <=> i \in Eols
         /\ Eols \subseteq 1..Len(rest)
         /\ p \in Nat /\ q \in Nat /\ Len(rest) \in Nat /\ Len(rest) = q - p
<1>1. /\ p \in Nat /\ q \in Nat /\ Len(rest) \in Nat /\ Len(rest) = q - p
      /\ DOMAIN rest = 1..Len(rest)
      /\ \A i \in 1..Len(rest) : rest[i] = s[p + i]
  BY WindowIs
<1>2. ASSUME NEW i \in Nat \ {0}
      PROVE  /\ IsEol(rest, i) <=> i < Len(rest) /\ s[p + i] = "CR" /\ s[p + i + 1] = "LF"
             /\ IsEol(rest, i) <=> i \in Eols
  <2>1. ASSUME i < Len(rest)
        PROVE  rest[i] = s[p + i] /\ rest[i + 1] = s[p + i + 1] /\ i \in 1..Len(rest)
    <3>1. i \in 1..Len(rest) /\ i + 1 \in 1..Len(rest) /\ p + (i + 1) = p + i + 1
      BY <1>1, <2>1
    <3>2. rest[i] = s[p + i] /\ rest[i + 1] = s[p + (i + 1)]
      BY <1>1, <3>1, Zenon
    <3> QED
      BY <3>1, <3>2
  <2> QED
    BY <1>1, <2>1, Zenon DEF IsEol, Eols
<1> QED
  BY <1>1, <1>2, Zenon DEF Eols

(* A new last part.                                                        *)
LEMMA ToldSet ==
  ASSUME NEW fs, NEW k, NEW old, Told(fs, k, old), NEW spec \in FormPart, SetSpec(spec)
  PROVE  Told(fs, k, spec)'
<1>1. /\ k \in 1..Len(fs) /\ bodySpecs \in Seq(FormPart) /\ Len(bodySpecs) = k
      /\ \A i \in 1..(k - 1) : bodySpecs[i] = fs[i]
  BY DEF Told
<1>2. bodySpecs' = [bodySpecs EXCEPT ![k] = spec]
  BY <1>1 DEF SetSpec
<1> HIDE DEF FormPart
<1>3. Len(bodySpecs) \in Nat /\ k \in 1..Len(bodySpecs)
  <2>1. Len(bodySpecs) \in Nat
    BY <1>1
  <2>2. k \in 1..k
    <3>1. k \in Nat /\ k >= 1
      BY <1>1, <2>1
    <3> QED
      BY <3>1
  <2> QED
    BY <1>1, <2>1, <2>2
<1>4. /\ bodySpecs' \in Seq(FormPart) /\ Len(bodySpecs') = k
      /\ bodySpecs'[k] = spec
      /\ \A i \in 1..(k - 1) : bodySpecs'[i] = bodySpecs[i]
  BY <1>1, <1>2, <1>3
<1> QED
  BY <1>1, <1>4 DEF Told

LEMMA Spec0Is ==
  ASSUME NEW fs, NEW k, NEW spec, Told(fs, k, spec)
  PROVE  Spec0 = spec
BY DEF Told, Spec0

(* What keeps the part as it is.                                           *)
LEMMA ToldStays ==
  ASSUME NEW fs, NEW k, NEW spec, Told(fs, k, spec), bodySpecs' = bodySpecs
  PROVE  Told(fs, k, spec)'
BY DEF Told

LEMMA Parts ==
  /\ NewSpec \in FormPart
  /\ \A v \in BOOLEAN : [file |-> v, data |-> <<>>] \in FormPart
<1>1. <<>> \in Seq(STRING)
  OBVIOUS
<1> QED
  BY <1>1 DEF NewSpec, FormPart

(* The tokens of a header's line, before the data that begin at d.         *)
LineIs(f, s, t, d, p, n, spec) ==
  \/ /\ n = 3 /\ spec = NewSpec /\ s[p + 2] = "CR" /\ s[p + 3] = "LF"
     /\ s[p + 1] = IF f.file THEN "file disposition" ELSE "disposition"
     /\ IF f.file THEN s[p + 4] = "type" /\ p + 3 = t + B + 5
        ELSE p + 3 = d - 2 /\ p + 5 = d
  \/ /\ n = 3 /\ spec = [file |-> TRUE, data |-> <<>>] /\ f.file
     /\ s[p + 1] = "type" /\ s[p + 2] = "CR" /\ s[p + 3] = "LF"
     /\ p + 3 = d - 2 /\ p + 5 = d
  \/ /\ n = 2 /\ spec = [file |-> f.file, data |-> <<>>]
     /\ s[p + 1] = "CR" /\ s[p + 2] = "LF" /\ p + 2 = d


LEMMA HeaderTokens ==
  ASSUME NEW f, f.file \in BOOLEAN, NEW s, NEW t \in Nat, NEW e, LiesAt(f, s, t, e),
         NEW p \in Nat, NEW n, NEW spec, Header(f, t, p, n, spec)
  PROVE  LineIs(f, s, t, DataAt(f, t), p, n, spec)
<1>1. B \in Nat
  BY BoundaryIs
<1>2. /\ s[t + B + 3] = IF f.file THEN "file disposition" ELSE "disposition"
      /\ s[t + B + 4] = "CR" /\ s[t + B + 5] = "LF"
      /\ f.file => s[t + B + 6] = "type" /\ s[t + B + 7] = "CR" /\ s[t + B + 8] = "LF"
      /\ s[DataAt(f, t) - 1] = "CR" /\ s[DataAt(f, t)] = "LF"
  BY Zenon DEF LiesAt
<1>3. DataAt(f, t) = IF f.file THEN t + B + 10 ELSE t + B + 7
  BY DEF DataAt
<1>4. CASE p = t + B + 2 /\ n = 3 /\ spec = NewSpec
  <2>1. /\ p + 1 = t + B + 3 /\ p + 2 = t + B + 4 /\ p + 3 = t + B + 5 /\ p + 4 = t + B + 6
    BY <1>1, <1>4
  <2>2. ~f.file => p + 3 = DataAt(f, t) - 2 /\ p + 5 = DataAt(f, t)
    BY <1>1, <1>3, <1>4
  <2> QED
    BY <1>2, <1>4, <2>1, <2>2, Zenon DEF LineIs
<1>5. CASE f.file /\ p = t + B + 5 /\ n = 3 /\ spec = [file |-> TRUE, data |-> <<>>]
  <2>1. p + 1 = t + B + 6 /\ p + 2 = t + B + 7 /\ p + 3 = t + B + 8
    BY <1>1, <1>5
  <2>2. p + 3 = DataAt(f, t) - 2 /\ p + 5 = DataAt(f, t)
    BY <1>1, <1>3, <1>5
  <2> QED
    BY <1>2, <1>5, <2>1, <2>2, Zenon DEF LineIs
<1>6. CASE p = DataAt(f, t) - 2 /\ n = 2 /\ spec = [file |-> f.file, data |-> <<>>]
  <2>1. p + 1 = DataAt(f, t) - 1 /\ p + 2 = DataAt(f, t)
    BY <1>1, <1>3, <1>6
  <2> QED
    BY <1>2, <1>6, <2>1, Zenon DEF LineIs
<1> QED
  BY <1>4, <1>5, <1>6 DEF Header

LEMMA LineTokens ==
  ASSUME NEW fs \in Seq(FormPart), NEW s, s = FormBytes(fs), NEW k \in 1..Len(fs),
         NEW d, d = DataAt(fs[k], Spot(fs, k - 1)),
         NEW p \in Nat, NEW n, NEW spec, Header(fs[k], Spot(fs, k - 1), p, n, spec)
  PROVE  LineIs(fs[k], s, Spot(fs, k - 1), d, p, n, spec)
<1>1. /\ fs[k].file \in BOOLEAN /\ Spot(fs, k - 1) \in Nat
      /\ LiesAt(fs[k], s, Spot(fs, k - 1), Spot(fs, k))
  BY PartInPlace, Zenon
<1>2. LineIs(fs[k], s, Spot(fs, k - 1), DataAt(fs[k], Spot(fs, k - 1)), p, n, spec)
  <2>1. PICK t \in Nat : t = Spot(fs, k - 1)
    BY <1>1
  <2>2. LiesAt(fs[k], s, t, Spot(fs, k)) /\ Header(fs[k], t, p, n, spec)
    BY <1>1, <2>1
  <2>3. LineIs(fs[k], s, t, DataAt(fs[k], t), p, n, spec)
    BY <1>1, <2>2, HeaderTokens
  <2> QED
    BY <2>1, <2>3
<1> QED
  BY <1>2

LEMMA HeaderUnfinishedReads ==
  ASSUME NEW fs \in Seq(FormPart), NEW s, s = FormBytes(fs), NEW p, NEW q,
         Window(Kept, s, p, q), AtHeader(fs, p, q), HeaderUnfinished
  PROVE  Window(Kept, s, p, q)' /\ AtHeader(fs, p, q)'
<1>1. /\ rest # <<>> /\ Eols = {} /\ Keeps(rest) /\ UNCHANGED <<state, bodySpecs>>
  BY DEF HeaderUnfinished
<1>2. Kept = rest /\ Kept' = rest /\ rest' = <<>>
  BY <1>1, KeptIs
<1>3. Window(rest, s, p, q) /\ s \in Seq(Token)
  BY <1>2, FormLies
<1>4. Window(Kept, s, p, q)'
  BY <1>2, <1>3 DEF Window
<1>5. PICK k \in 1..Len(fs), n \in {2, 3} : \E spec \in FormPart :
        Header(fs[k], Spot(fs, k - 1), p, n, spec) /\ Told(fs, k, spec)
  BY Zenon DEF AtHeader
<1>6. PICK spec \in FormPart : Header(fs[k], Spot(fs, k - 1), p, n, spec) /\ Told(fs, k, spec)
  BY <1>5
<1>7. /\ p \in Nat /\ q \in Nat /\ Len(rest) = q - p
      /\ \A i \in Nat \ {0} : ~(i < Len(rest) /\ s[p + i] = "CR" /\ s[p + i + 1] = "LF")
  BY <1>1, <1>3, EolIs
<1>8. /\ fs[k].file \in BOOLEAN /\ Spot(fs, k - 1) \in Nat
      /\ LiesAt(fs[k], s, Spot(fs, k - 1), Spot(fs, k))
  BY PartInPlace, Zenon
<1>9. q < p + n
  <2>1. \/ n = 3 /\ s[p + 2] = "CR" /\ s[p + 3] = "LF"
        \/ n = 2 /\ s[p + 1] = "CR" /\ s[p + 2] = "LF"
    <3>1. LineIs(fs[k], s, Spot(fs, k - 1), DataAt(fs[k], Spot(fs, k - 1)), p, n, spec)
      BY <1>6, <1>7, LineTokens, Zenon
    <3> QED
      BY <3>1, Zenon DEF LineIs
  <2>2. p + 1 + 1 = p + 2 /\ p + 2 + 1 = p + 3
    BY <1>7
  <2>3. n = 3 /\ s[p + 2] = "CR" /\ s[p + 3] = "LF" => ~(2 < Len(rest))
    BY <1>7, <2>2
  <2>4. n = 2 /\ s[p + 1] = "CR" /\ s[p + 2] = "LF" => ~(1 < Len(rest))
    BY <1>7, <2>2
  <2>5. CASE n = 3 /\ ~(2 < Len(rest))
    BY <1>7, <2>5
  <2>6. CASE n = 2 /\ ~(1 < Len(rest))
    BY <1>7, <2>6
  <2> QED
    BY <2>1, <2>3, <2>4, <2>5, <2>6, Zenon
<1>10. Told(fs, k, spec)' /\ state' = "StateHeader"
  BY <1>1, <1>6, ToldStays DEF AtHeader
<1>11. Header(fs[k], Spot(fs, k - 1), p, n, spec)'
  BY <1>6 DEF Header, NewSpec
<1> HIDE DEF FormPart
<1>12. AtHeader(fs, p, q)'
  BY <1>9, <1>10, <1>11 DEF AtHeader
<1> QED
  BY <1>4, <1>12

(* The first data of a part.                                               *)
LEMMA DataBegins ==
  ASSUME NEW fs \in Seq(FormPart), NEW s, s = FormBytes(fs), NEW q, NEW k \in 1..Len(fs),
         NEW d \in Nat, d = DataAt(fs[k], Spot(fs, k - 1)),
         Told(fs, k, [file |-> fs[k].file, data |-> <<>>])', state' = DataState(fs[k]),
         NEW w, Window(w, s, d, q), (rest = <<>>)' => w = <<>>
  PROVE  AtData(fs, d, q)'
<1>1. fs[k].data \in Seq(STRING) /\ Len(fs[k].data) \in Nat
  BY PartInPlace
<1>2. PICK m \in Nat : m = Len(fs[k].data)
  BY <1>1
<1>3. (rest = <<>>)' => q = d
  <2>1. w = <<>> => q = d
    <3>1. s \in Seq(Token)
      BY FormLies
    <3>2. Window(w, s, d, q)
      OBVIOUS
    <3>3. w = <<>> <=> d = q
      BY <3>1, <3>2, WindowIs
    <3> QED
      BY <3>3
  <2> QED
    BY <2>1
<1>4. (rest = <<>>)' => q < d + m + 2 + B
  BY <1>2, <1>3, BoundaryIs
<1>5. InData(fs[k], d, d) = [file |-> fs[k].file, data |-> <<>>]
  <2>1. d - d = 0 /\ 0 \in 0..Len(fs[k].data)
    BY <1>1
  <2>2. First(fs[k].data, 0) = <<>>
    BY <1>1, <2>1, FirstIs
  <2> QED
    BY <2>1, <2>2 DEF InData
<1>6. Told(fs, k, InData(fs[k], d, d))'
  <2>1. Told(fs, k, InData(fs[k], d, d))' <=> Told(fs, k, [file |-> fs[k].file, data |-> <<>>])'
    BY <1>5 DEF Told, InData
  <2> QED
    BY <2>1
<1>7. d <= d /\ d <= d + m
  OBVIOUS
<1> QED
  BY <1>2, <1>4, <1>6, <1>7, Zenon DEF AtData

LEMMA BlankLineReads ==
  ASSUME NEW fs \in Seq(FormPart), NEW s, s = FormBytes(fs), NEW p, NEW q,
         Window(Kept, s, p, q), AtHeader(fs, p, q), BlankLine
  PROVE  \E r \in Nat : Window(Kept, s, r, q)' /\ AtData(fs, r, q)'
<1>1. /\ IsEol(rest, 1) /\ state' = DataState(Spec0) /\ GoesOnWith(From(rest, 3))
      /\ bodySpecs' = bodySpecs
  BY DEF BlankLine
<1>2. rest # <<>>
  BY <1>1 DEF IsEol
<1>3. Window(rest, s, p, q) /\ s \in Seq(Token)
  BY <1>2, KeptIs, FormLies
<1>4. PICK k \in 1..Len(fs), n \in {2, 3} : \E spec \in FormPart :
        Header(fs[k], Spot(fs, k - 1), p, n, spec) /\ Told(fs, k, spec)
  BY Zenon DEF AtHeader
<1>5. PICK spec \in FormPart : Header(fs[k], Spot(fs, k - 1), p, n, spec) /\ Told(fs, k, spec)
  BY <1>4
<1>6. /\ p \in Nat /\ q \in Nat /\ Len(rest) \in Nat
      /\ 1 < Len(rest) /\ s[p + 1] = "CR" /\ s[p + 1 + 1] = "LF"
  BY <1>1, <1>3, EolIs
<1>7. /\ fs[k].file \in BOOLEAN /\ Spot(fs, k - 1) \in Nat
      /\ LiesAt(fs[k], s, Spot(fs, k - 1), Spot(fs, k))
  BY PartInPlace, Zenon
<1>8. PICK d \in Nat : d = DataAt(fs[k], Spot(fs, k - 1))
  BY PartInPlace, Zenon
<1>9. spec = [file |-> fs[k].file, data |-> <<>>] /\ p + 2 = d
  <2>1. "CR" # "type" /\ "CR" # "disposition" /\ "CR" # "file disposition"
    OBVIOUS
  <2>2. \/ s[p + 1] = "type" \/ s[p + 1] = "disposition" \/ s[p + 1] = "file disposition"
        \/ spec = [file |-> fs[k].file, data |-> <<>>] /\ p + 2 = d
    <3>1. LineIs(fs[k], s, Spot(fs, k - 1), d, p, n, spec)
      BY <1>5, <1>6, <1>8, LineTokens, Zenon
    <3> QED
      BY <3>1, Zenon DEF LineIs
  <2> QED
    BY <1>6, <2>1, <2>2, Zenon
<1> DEFINE w == From(rest, 3)
<1>10. Window(w, s, d, q)
  <2>1. 2 \in Nat /\ 2 <= Len(rest) /\ 2 + 1 = 3
    BY <1>6
  <2>2. Window(From(rest, 2 + 1), s, p + 2, q)
    BY <1>3, <2>1, WindowFrom, Zenon
  <2> QED
    BY <1>9, <2>1, <2>2, Zenon
<1>11. Kept' = w /\ (rest' = <<>> <=> w = <<>>)
  BY <1>1, KeptIs, Zenon
<1> HIDE DEF w
<1>12. Window(Kept, s, d, q)'
  BY <1>10, <1>11 DEF Window
<1>13. Told(fs, k, [file |-> fs[k].file, data |-> <<>>])'
  BY <1>1, <1>5, <1>9, ToldStays, Zenon
<1>14. state' = DataState(fs[k])
  <2>1. Spec0 = [file |-> fs[k].file, data |-> <<>>]
    BY <1>5, <1>9, Spec0Is, Zenon
  <2> QED
    BY <1>1, <2>1 DEF DataState
<1>15. AtData(fs, d, q)'
  BY <1>8, <1>10, <1>11, <1>13, <1>14, DataBegins
<1> QED
  BY <1>12, <1>15

(* The first line end behind a line of one token.                          *)
LEMMA FirstEol ==
  ASSUME NEW s \in Seq(Token), NEW p, NEW q, Window(rest, s, p, q),
         Eols # {}, 1 \notin Eols, s[p + 2] = "CR", s[p + 3] = "LF"
  PROVE  (CHOOSE i \in Eols : \A j \in Eols : i <= j) = 2 /\ 3 <= Len(rest)
<1>1. /\ p \in Nat /\ q \in Nat /\ Len(rest) \in Nat /\ Eols \subseteq 1..Len(rest)
      /\ \A i \in Nat \ {0} :
           IsEol(rest, i) <=> i < Len(rest) /\ s[p + i] = "CR" /\ s[p + i + 1] = "LF"
      /\ \A i \in Nat \ {0} : IsEol(rest, i) <=> i \in Eols
  BY EolIs, Zenon
<1>2. PICK i : i \in Eols
  OBVIOUS
<1>3. i \in Nat \ {0} /\ i # 1 /\ i < Len(rest)
  BY <1>1, <1>2
<1>4. 2 < Len(rest) /\ 3 <= Len(rest) /\ 2 \in Nat \ {0} /\ p + 2 + 1 = p + 3
  BY <1>1, <1>3
<1>5. 2 \in Eols
  <2>1. s[p + 2 + 1] = "LF"
    BY <1>4
  <2> QED
    BY <1>1, <1>4, <2>1, Zenon
<1>6. \A j \in Eols : 2 <= j
  BY <1>1
<1>7. \A j \in Eols : (\A l \in Eols : j <= l) => j = 2
  <2> SUFFICES ASSUME NEW j \in Eols, \A l \in Eols : j <= l PROVE j = 2
    OBVIOUS
  <2>1. j <= 2 /\ 2 <= j /\ j \in Nat
    BY <1>1, <1>5, <1>6
  <2> QED
    BY <2>1
<1> QED
  BY <1>4, <1>5, <1>6, <1>7

LEMMA HeaderLineReads ==
  ASSUME NEW fs \in Seq(FormPart), NEW s, s = FormBytes(fs), NEW p, NEW q,
         Window(Kept, s, p, q), AtHeader(fs, p, q), HeaderLine
  PROVE  \E r \in Nat : Window(Kept, s, r, q)' /\ (AtHeader(fs, r, q)' \/ AtData(fs, r, q)')
<1>1. /\ Eols # {} /\ 1 \notin Eols
  BY DEF HeaderLine
<1>2. rest # <<>>
  BY <1>1 DEF Eols
<1>3. Window(rest, s, p, q) /\ s \in Seq(Token)
  BY <1>2, KeptIs, FormLies
<1>4. PICK k \in 1..Len(fs), n \in {2, 3} : \E spec \in FormPart :
        Header(fs[k], Spot(fs, k - 1), p, n, spec) /\ Told(fs, k, spec)
  BY Zenon DEF AtHeader
<1>5. PICK old \in FormPart : Header(fs[k], Spot(fs, k - 1), p, n, old) /\ Told(fs, k, old)
  BY <1>4
<1>6. /\ p \in Nat /\ q \in Nat /\ Len(rest) \in Nat /\ rest[1] = s[p + 1]
      /\ \A i \in Nat \ {0} :
           IsEol(rest, i) <=> i < Len(rest) /\ s[p + i] = "CR" /\ s[p + i + 1] = "LF"
  <2>1. Eols \subseteq 1..Len(rest)
    BY <1>3, EolIs, Zenon
  <2>2. p \in Nat /\ Len(rest) \in Nat /\ \A i \in 1..Len(rest) : rest[i] = s[p + i]
    BY <1>3, WindowIs
  <2>3. 1 \in 1..Len(rest)
    <3>1. PICK i : i \in Eols
      BY <1>1
    <3> QED
      BY <2>1, <2>2, <3>1
  <2> QED
    BY <1>3, <2>2, <2>3, EolIs, Zenon
<1>7. fs[k].file \in BOOLEAN /\ Spot(fs, k - 1) \in Nat
  BY PartInPlace, Zenon
<1>8. PICK d \in Nat : d = DataAt(fs[k], Spot(fs, k - 1))
  BY PartInPlace, Zenon
<1>9. LineIs(fs[k], s, Spot(fs, k - 1), d, p, n, old)
  BY <1>5, <1>6, <1>8, LineTokens, Zenon
<1>10. ~(n = 2 /\ s[p + 1] = "CR" /\ s[p + 2] = "LF")
  <2> SUFFICES ASSUME s[p + 1] = "CR", s[p + 2] = "LF" PROVE FALSE
    OBVIOUS
  <2>1. Eols \subseteq 1..Len(rest) /\ \A i \in Nat \ {0} : IsEol(rest, i) <=> i \in Eols
    BY <1>3, EolIs, Zenon
  <2>2. PICK i : i \in Eols
    BY <1>1
  <2>3. i \in Nat \ {0} /\ IsEol(rest, i)
    BY <1>6, <2>1, <2>2
  <2>4. i < Len(rest)
    BY <1>6, <2>3, Zenon
  <2>5. 1 < Len(rest) /\ 1 \in Nat \ {0} /\ p + 1 + 1 = p + 2
    BY <1>6, <2>3, <2>4
  <2>6. s[p + 1 + 1] = "LF"
    BY <2>5
  <2>7. IsEol(rest, 1)
    BY <1>6, <2>5, <2>6, Zenon
  <2> QED
    BY <1>1, <2>1, <2>5, <2>7, Zenon
<1>11. n = 3 /\ s[p + 2] = "CR" /\ s[p + 3] = "LF"
  BY <1>9, <1>10, Zenon DEF LineIs
<1>12. (CHOOSE i \in Eols : \A j \in Eols : i <= j) = 2 /\ 3 <= Len(rest)
  BY <1>1, <1>3, <1>11, FirstEol, Zenon
<1>13. PICK new : new = Described(Spec0, rest[1])
  OBVIOUS
<1>14. SetSpec(new)
  BY <1>13 DEF HeaderLine
<1>15. \/ IsEol(rest, 4) /\ state' = DataState(new) /\ GoesOnWith(From(rest, 6))
       \/ ~IsEol(rest, 4) /\ state' = state /\ GoesOnWith(From(rest, 4))
  <2>1. PICK eol : eol = CHOOSE i \in Eols : \A j \in Eols : i <= j
    OBVIOUS
  <2>2. \/ /\ IsEol(rest, eol + 2) /\ state' = DataState(new)
           /\ GoesOnWith(From(rest, eol + 4))
        \/ ~IsEol(rest, eol + 2) /\ state' = state /\ GoesOnWith(From(rest, eol + 2))
    <3>1. /\ SetSpec(Described(Spec0, rest[1]))
          /\ \/ /\ IsEol(rest, eol + 2) /\ state' = DataState(Described(Spec0, rest[1]))
                /\ GoesOnWith(From(rest, eol + 4))
             \/ /\ ~IsEol(rest, eol + 2) /\ GoesOnWith(From(rest, eol + 2))
                /\ UNCHANGED state
      BY <2>1 DEF HeaderLine
    <3> QED
      BY <1>13, <3>1
  <2>3. eol + 2 = 4 /\ eol + 4 = 6
    <3>1. eol = 2
      BY <1>12, <2>1, Zenon
    <3> QED
      BY <3>1
  <2> QED
    BY <2>2, <2>3
<1>16. Spec0 = old
  BY <1>5, Spec0Is, Zenon
<1>17. new = [file |-> fs[k].file, data |-> <<>>] /\ new \in FormPart
  <2>1. CASE /\ old = NewSpec
             /\ s[p + 1] = IF fs[k].file THEN "file disposition" ELSE "disposition"
    BY <1>6, <1>7, <1>13, <1>16, <2>1, Parts DEF Described, NewSpec
  <2>2. CASE old = [file |-> TRUE, data |-> <<>>] /\ fs[k].file /\ s[p + 1] = "type"
    BY <1>6, <1>7, <1>13, <1>16, <2>2, Parts DEF Described
  <2> QED
    BY <1>9, <1>11, <2>1, <2>2 DEF LineIs
<1>18. Told(fs, k, new)'
  BY <1>5, <1>14, <1>17, ToldSet, Zenon
<1>19. CASE IsEol(rest, 4) /\ state' = DataState(new) /\ GoesOnWith(From(rest, 6))
  <2>1. 4 < Len(rest) /\ s[p + 4] = "CR"
    <3>1. 4 \in Nat \ {0}
      OBVIOUS
    <3> QED
      BY <1>6, <1>19, <3>1, Zenon
  <2>2. p + 5 = d
    <3>1. "CR" # "type"
      OBVIOUS
    <3> QED
      BY <1>9, <1>11, <2>1, <3>1, Zenon DEF LineIs
  <2> DEFINE w == From(rest, 6)
  <2>3. Window(w, s, d, q)
    <3>1. 5 \in Nat /\ 5 <= Len(rest) /\ 5 + 1 = 6
      BY <1>6, <2>1
    <3>2. Window(From(rest, 5 + 1), s, p + 5, q)
      BY <1>3, <3>1, WindowFrom, Zenon
    <3> QED
      BY <2>2, <3>1, <3>2, Zenon
  <2>4. Kept' = w /\ (rest' = <<>> <=> w = <<>>)
    BY <1>19, KeptIs, Zenon
  <2> HIDE DEF w
  <2>5. Window(Kept, s, d, q)'
    BY <2>3, <2>4 DEF Window
  <2>6. Told(fs, k, [file |-> fs[k].file, data |-> <<>>])'
    BY <1>17, <1>18 DEF Told
  <2>7. state' = DataState(fs[k])
    BY <1>17, <1>19 DEF DataState
  <2>8. AtData(fs, d, q)'
    BY <1>8, <2>3, <2>4, <2>6, <2>7, DataBegins
  <2> QED
    BY <2>5, <2>8
<1>20. CASE ~IsEol(rest, 4) /\ state' = state /\ GoesOnWith(From(rest, 4))
  <2>1. PICK r \in Nat : r = p + 3
    BY <1>6
  <2> DEFINE w == From(rest, 4)
  <2>2. Window(w, s, r, q)
    <3>1. 3 \in Nat /\ 3 <= Len(rest) /\ 3 + 1 = 4
      BY <1>12
    <3>2. Window(From(rest, 3 + 1), s, p + 3, q)
      BY <1>3, <3>1, WindowFrom, Zenon
    <3> QED
      BY <2>1, <3>1, <3>2, Zenon
  <2>3. Kept' = w /\ (rest' = <<>> <=> w = <<>>)
    BY <1>20, KeptIs, Zenon
  <2> HIDE DEF w
  <2>4. Window(Kept, s, r, q)'
    BY <2>2, <2>3 DEF Window
  <2>5. rest' = <<>> => q = r
    <3>1. w = <<>> <=> r = q
      BY <1>3, <2>2, WindowIs
    <3> QED
      BY <2>3, <3>1
  <2>6. PICK l \in {2, 3} : Header(fs[k], Spot(fs, k - 1), r, l, new)
    <3>1. CASE fs[k].file /\ p + 3 = Spot(fs, k - 1) + B + 5
      <4>1. Header(fs[k], Spot(fs, k - 1), r, 3, new)
        BY <1>17, <2>1, <3>1 DEF Header
      <4> QED
        BY <4>1
    <3>2. CASE p + 3 = d - 2
      <4>1. Header(fs[k], Spot(fs, k - 1), r, 2, new)
        BY <1>8, <1>17, <2>1, <3>2 DEF Header
      <4> QED
        BY <4>1
    <3> QED
      BY <1>9, <1>11, <3>1, <3>2 DEF LineIs
  <2>7. Header(fs[k], Spot(fs, k - 1), r, l, new)'
    BY <2>6 DEF Header, NewSpec
  <2>8. rest' = <<>> => q < r + l
    BY <2>1, <2>5
  <2>9. state' = "StateHeader"
    BY <1>20 DEF AtHeader
  <2> HIDE DEF FormPart
  <2>10. AtHeader(fs, r, q)'
    BY <1>17, <1>18, <2>7, <2>8, <2>9 DEF AtHeader
  <2> QED
    BY <2>4, <2>10
<1> QED
  BY <1>15, <1>19, <1>20

-----------------------------------------------------------------------------
(* The data of a part.                                                     *)

LEMMA BoundaryStartIs ==
  ASSUME NEW w \in Seq(Token), NEW i \in Nat
  PROVE  IsBoundaryStart(w, i + 1) <=>
           i + B <= Len(w) /\ \A j \in 1..B : w[i + j] = Boundary[j]
<1>1. B \in Nat /\ Boundary \in Seq(Token) /\ Len(Boundary) = B /\ Len(w) \in Nat
  BY BoundaryIs DEF B
<1>2. PICK n \in Nat : n = i + B
  BY <1>1
<1>3. i + 1 + B - 1 = n /\ i <= n /\ n - i = B
  BY <1>1, <1>2
<1> DEFINE v == SubSeq(w, i + 1, n)
<1>4. IsBoundaryStart(w, i + 1) <=> n <= Len(w) /\ v = Boundary
  BY <1>3, Zenon DEF IsBoundaryStart, B
<1>5. ASSUME n <= Len(w)
      PROVE  v = Boundary <=> \A j \in 1..B : w[i + j] = Boundary[j]
  <2>1. /\ Part(w, i, n) \in Seq(Token) /\ Len(Part(w, i, n)) = n - i
        /\ \A j \in 1..(n - i) : Part(w, i, n)[j] = w[i + j]
    BY <1>3, <1>5, PartIs
  <2>2. v \in Seq(Token) /\ Len(v) = B /\ \A j \in 1..B : v[j] = w[i + j]
    BY <1>3, <2>1, Zenon DEF Part
  <2> HIDE DEF v
  <2>3. ASSUME \A j \in 1..B : w[i + j] = Boundary[j] PROVE v = Boundary
    <3>1. \A j \in 1..B : v[j] = Boundary[j]
      BY <2>2, <2>3, Zenon
    <3> QED
      BY <1>1, <2>2, <3>1, SeqEqual
  <2>4. ASSUME v = Boundary PROVE \A j \in 1..B : w[i + j] = Boundary[j]
    BY <2>2, <2>4
  <2> QED
    BY <2>3, <2>4
<1> QED
  BY <1>2, <1>4, <1>5

(* A delimiter in what is kept.                                            *)
LEMMA DelimiterIs ==
  ASSUME NEW s \in Seq(Token), NEW p, NEW q, Window(rest, s, p, q), NEW i \in Nat \ {0}
  PROVE  AtDelimiter(i) <=>
           /\ i + B + 1 <= Len(rest) /\ s[p + i] = "CR" /\ s[p + i + 1] = "LF"
           /\ \A j \in 1..B : s[p + i + 1 + j] = Boundary[j]
<1>1. /\ p \in Nat /\ q \in Nat /\ rest \in Seq(Token) /\ Len(rest) \in Nat
      /\ \A j \in 1..Len(rest) : rest[j] = s[p + j]
  BY WindowIs
<1>2. IsEol(rest, i) <=> i < Len(rest) /\ s[p + i] = "CR" /\ s[p + i + 1] = "LF"
  BY EolIs
<1>3. i + 1 \in Nat /\ i + 1 + 1 = i + 2 /\ B \in Nat /\ i + 1 + B = i + B + 1
  BY BoundaryIs
<1>4. IsBoundaryStart(rest, i + 2) <=>
        i + B + 1 <= Len(rest) /\ \A j \in 1..B : rest[(i + 1) + j] = Boundary[j]
  <2>1. IsBoundaryStart(rest, (i + 1) + 1) <=>
          (i + 1) + B <= Len(rest) /\ \A j \in 1..B : rest[(i + 1) + j] = Boundary[j]
    BY <1>1, <1>3, BoundaryStartIs, Zenon
  <2> QED
    BY <1>3, <2>1, Zenon
<1>5. ASSUME i + B + 1 <= Len(rest)
      PROVE  i < Len(rest) /\ \A j \in 1..B : rest[(i + 1) + j] = s[p + i + 1 + j]
  <2>1. i < Len(rest)
    BY <1>1, <1>3, <1>5
  <2>2. ASSUME NEW j \in 1..B PROVE rest[(i + 1) + j] = s[p + i + 1 + j]
    <3>1. (i + 1) + j \in 1..Len(rest) /\ p + ((i + 1) + j) = p + i + 1 + j
      BY <1>1, <1>3, <1>5
    <3>2. rest[(i + 1) + j] = s[p + ((i + 1) + j)]
      BY <1>1, <3>1, Zenon
    <3> QED
      BY <3>1, <3>2
  <2> QED
    BY <2>1, <2>2
<1>6. ASSUME i + B + 1 <= Len(rest)
      PROVE  (\A j \in 1..B : rest[(i + 1) + j] = Boundary[j]) <=>
               (\A j \in 1..B : s[p + i + 1 + j] = Boundary[j])
  BY <1>5, <1>6, Zenon
<1> QED
  BY <1>2, <1>4, <1>5, <1>6, Zenon DEF AtDelimiter

(* Where the reader is in the data of the part f, which begin behind d.    *)
InPart(f, s, d, m, p) ==
  /\ d \in Nat /\ m \in Nat /\ p \in Nat /\ d <= p /\ p <= d + m
  /\ f.data \in Seq(STRING) /\ m = Len(f.data) /\ ~Delimits(f.data)
  /\ \A i \in 1..m : s[d + i] = f.data[i]
  /\ s[d + m + 1] = "CR" /\ s[d + m + 2] = "LF"
  /\ \A j \in 1..B : s[d + m + 2 + j] = Boundary[j]

(* There is no delimiter inside of the data, nor one that goes over their  *)
(* end.                                                                    *)
LEMMA NoneInside ==
  ASSUME NEW f, NEW s \in Seq(Token), NEW d, NEW m, NEW p, NEW q,
         InPart(f, s, d, m, p), Window(rest, s, p, q), NEW i \in Nat \ {0}, p + i <= d + m
  PROVE  ~AtDelimiter(i)
<1> SUFFICES ASSUME AtDelimiter(i) PROVE FALSE
  OBVIOUS
<1>1. /\ s[p + i] = "CR" /\ s[p + i + 1] = "LF"
      /\ \A j \in 1..B : s[p + i + 1 + j] = Boundary[j]
  BY DelimiterIs
<1>2. /\ d \in Nat /\ m \in Nat /\ p \in Nat /\ d <= p /\ p <= d + m /\ B \in Nat
  BY BoundaryIs DEF InPart
<1>3. PICK x \in Nat : x = (p - d) + i /\ x \in 1..m /\ d + x = p + i
  <2>1. (p - d) + i \in Nat /\ (p - d) + i \in 1..m /\ d + ((p - d) + i) = p + i
    BY <1>2
  <2> QED
    BY <2>1
<1>4. /\ f.data \in Seq(STRING) /\ m = Len(f.data) /\ ~Delimits(f.data)
      /\ \A j \in 1..m : s[d + j] = f.data[j]
      /\ s[d + m + 1] = "CR"
  BY Zenon DEF InPart
<1>5. f.data[x] = "CR"
  BY <1>1, <1>3, <1>4, Zenon
<1>6. x # m
  <2>1. x = m => p + i + 1 = d + m + 1
    BY <1>2, <1>3
  <2>2. "CR" # "LF"
    OBVIOUS
  <2> QED
    BY <1>1, <1>4, <2>1, <2>2, Zenon
<1>7. f.data[x + 1] = "LF"
  <2>1. x + 1 \in 1..m /\ d + (x + 1) = p + i + 1
    BY <1>2, <1>3, <1>6
  <2> QED
    BY <1>1, <1>4, <2>1, Zenon
<1>8. CASE x + 1 + B <= m
  <2>1. f.data \in Seq(Token)
    BY <1>4, TextIsTokens
  <2>2. \A j \in 1..B : f.data[(x + 1) + j] = Boundary[j]
    <3> SUFFICES ASSUME NEW j \in 1..B PROVE f.data[(x + 1) + j] = Boundary[j]
      OBVIOUS
    <3>1. (x + 1) + j \in 1..m /\ d + ((x + 1) + j) = p + i + 1 + j
      BY <1>2, <1>3, <1>8
    <3>2. s[d + ((x + 1) + j)] = f.data[(x + 1) + j] /\ s[p + i + 1 + j] = Boundary[j]
      BY <1>1, <1>4, <3>1, Zenon
    <3> QED
      BY <3>1, <3>2
  <2>3. IsBoundaryStart(f.data, (x + 1) + 1)
    <3>1. x + 1 \in Nat /\ (x + 1) + B <= Len(f.data)
      BY <1>3, <1>4, <1>8
    <3> QED
      BY <2>1, <2>2, <3>1, BoundaryStartIs, Zenon
  <2>4. (x + 1) + 1 = x + 2 /\ x < m /\ x < Len(f.data) /\ x \in DOMAIN f.data
    <3>1. m = Len(f.data) /\ f.data \in Seq(STRING)
      BY <1>4, Zenon
    <3>2. DOMAIN f.data = 1..m
      BY <3>1
    <3>3. (x + 1) + 1 = x + 2 /\ x < m
      BY <1>2, <1>3, <1>6
    <3> QED
      BY <1>3, <3>1, <3>2, <3>3, Zenon
  <2>5. IsBoundaryStart(f.data, x + 2)
    BY <2>3, <2>4
  <2>6. IsEol(f.data, x)
    BY <1>4, <1>5, <1>7, <2>4, Zenon DEF IsEol
  <2> QED
    BY <1>4, <2>4, <2>5, <2>6, Zenon DEF Delimits
<1>9. CASE ~(x + 1 + B <= m)
  <2>1. PICK j \in 1..B : p + i + 1 + j = d + m + 1
    <3>1. m - x \in 1..B /\ p + i + 1 + (m - x) = d + m + 1
      BY <1>2, <1>3, <1>6, <1>9
    <3> QED
      BY <3>1
  <2>2. Boundary[j] = "CR"
    BY <1>1, <1>4, <2>1, Zenon
  <2>3. j \in DOMAIN Boundary
    BY BoundaryIs DEF B
  <2> QED
    BY <2>2, <2>3, BoundaryAssumption
<1> QED
  BY <1>8, <1>9

(* The turn stops at the end of the data if it has got there.              *)
LEMMA StopsAtEnd ==
  ASSUME NEW f, NEW s \in Seq(Token), NEW d, NEW m, NEW p, NEW q,
         InPart(f, s, d, m, p), Window(rest, s, p, q),
         NEW e \in Nat \ {0}, p + e = d + m + 1
  PROVE  /\ AtDelimiter(e) <=> e + B + 1 <= Len(rest)
         /\ e <= Len(rest) => e \in Stops
<1>0. p \in Nat /\ q \in Nat /\ Len(rest) \in Nat
  BY WindowIs
<1>1. /\ rest \in Seq(Token)
      /\ DOMAIN rest = 1..Len(rest)
      /\ \A j \in 1..Len(rest) : rest[j] = s[p + j]
  BY WindowIs
<1>2. /\ d \in Nat /\ m \in Nat /\ B \in Nat /\ B > 2
  BY BoundaryIs DEF InPart
<1>3. /\ s[d + m + 1] = "CR" /\ s[d + m + 2] = "LF"
      /\ \A j \in 1..B : s[d + m + 2 + j] = Boundary[j]
  BY Zenon DEF InPart
<1>4. p + e + 1 = d + m + 2
  BY <1>0, <1>2
<1>5. /\ s[p + e] = "CR" /\ s[p + e + 1] = "LF"
      /\ \A j \in 1..B : s[p + e + 1 + j] = Boundary[j]
  BY <1>3, <1>4, Zenon
<1>6. AtDelimiter(e) <=> e + B + 1 <= Len(rest)
  <2>1. AtDelimiter(e) <=>
          /\ e + B + 1 <= Len(rest) /\ s[p + e] = "CR" /\ s[p + e + 1] = "LF"
          /\ \A j \in 1..B : s[p + e + 1 + j] = Boundary[j]
    BY DelimiterIs
  <2> QED
    BY <1>5, <2>1, Zenon
<1>7. ASSUME e <= Len(rest), ~(e + B + 1 <= Len(rest))
      PROVE  MayBeDelimiter(e)
  <2>1. CASE e = Len(rest)
    <3>1. e \in 1..Len(rest)
      BY <1>0, <1>7
    <3>2. rest[e] = "CR"
      BY <1>1, <1>5, <3>1, Zenon
    <3> QED
      BY <2>1, <3>2, Zenon DEF MayBeDelimiter
  <2>2. CASE e # Len(rest)
    <3>1. e < Len(rest)
      BY <1>0, <1>7, <2>2
    <3>2. IsEol(rest, e)
      <4>1. IsEol(rest, e) <=> e < Len(rest) /\ s[p + e] = "CR" /\ s[p + e + 1] = "LF"
        BY EolIs
      <4> QED
        BY <1>5, <3>1, <4>1, Zenon
    <3>3. ~IsBoundaryStart(rest, e + 2)
      BY <1>6, <1>7, <3>2, Zenon DEF AtDelimiter
    <3>4. Len(rest) - e - 1 < B
      BY <1>0, <1>2, <1>7
    <3>5. ASSUME ~(Len(rest) - e + 1 < 4)
          PROVE  SubSeq(rest, e + 2, e + 3) = <<"-", "-">>
      <4>1. /\ e + 1 \in Nat /\ (e + 1) + 2 <= Len(rest)
            /\ (e + 1) + 1 = e + 2 /\ (e + 1) + 2 = e + 3
            /\ p + (e + 1) + 1 = p + e + 1 + 1 /\ p + (e + 1) + 2 = p + e + 1 + 2
        BY <1>0, <3>5
      <4>2. 1 \in 1..B /\ 2 \in 1..B
        BY <1>2
      <4>3. s[p + e + 1 + 1] = "-" /\ s[p + e + 1 + 2] = "-"
        BY <1>5, <4>2, BoundaryDashes, Zenon
      <4>4. SubSeq(rest, (e + 1) + 1, (e + 1) + 2) = <<"-", "-">>
        <5>1. s[p + (e + 1) + 1] = "-" /\ s[p + (e + 1) + 2] = "-"
          BY <4>1, <4>3
        <5> QED
          BY <4>1, <5>1, DashesThere
      <4> QED
        BY <4>1, <4>4
    <3> QED
      BY <3>2, <3>3, <3>4, <3>5, Zenon DEF MayBeDelimiter, B
  <2> QED
    BY <2>1, <2>2
<1>8. ASSUME e <= Len(rest) PROVE e \in Stops
  <2>1. e \in DOMAIN rest
    <3>1. e \in 1..Len(rest)
      BY <1>0, <1>8
    <3> QED
      BY <1>1, <3>1, Zenon
  <2>2. AtDelimiter(e) \/ MayBeDelimiter(e)
    BY <1>6, <1>7, <1>8, Zenon
  <2> QED
    BY <2>1, <2>2, Zenon DEF Stops
<1> QED
  BY <1>6, <1>8

(* The least stop.                                                         *)
LEMMA FirstStopIs ==
  ASSUME DOMAIN rest = 1..Len(rest), Len(rest) \in Nat
  PROVE  /\ Stops = {} => FirstStop = Len(rest) + 1
         /\ Stops # {} => FirstStop \in Stops /\ \A j \in Stops : FirstStop <= j
         /\ Stops \subseteq 1..Len(rest)
         /\ FirstStop \in 1..(Len(rest) + 1)
<1>1. Stops \subseteq 1..Len(rest)
  BY Zenon DEF Stops
<1>2. Stops = {} => FirstStop = Len(rest) + 1
  BY Zenon DEF FirstStop
<1>3. ASSUME Stops # {} PROVE FirstStop \in Stops /\ \A j \in Stops : FirstStop <= j
  <2>1. PICK i \in Stops : \A j \in Stops : i <= j
    <3>1. Stops \in SUBSET Nat
      BY <1>1
    <3> QED
      BY <1>3, <3>1, LeastOf, Zenon
  <2>2. FirstStop = CHOOSE l \in Stops : \A j \in Stops : l <= j
    BY <1>3, Zenon DEF FirstStop
  <2> QED
    BY <2>1, <2>2, Zenon
<1>4. FirstStop \in 1..(Len(rest) + 1)
  <2>1. CASE Stops = {}
    BY <1>2, <2>1
  <2>2. CASE Stops # {}
    <3>1. PICK i \in 1..Len(rest) : i = FirstStop
      BY <1>1, <1>3, <2>2
    <3> QED
      BY <3>1
  <2> QED
    BY <2>1, <2>2
<1> QED
  BY <1>1, <1>2, <1>3, <1>4, Zenon

(* A part of a form, and where its data are.                               *)
LEMMA PartIsIn ==
  ASSUME NEW fs \in Seq(FormPart), \A i \in DOMAIN fs : ~Delimits(fs[i].data),
         NEW s, s = FormBytes(fs), NEW k \in 1..Len(fs), NEW d \in Nat, NEW m \in Nat,
         d = DataAt(fs[k], Spot(fs, k - 1)), m = Len(fs[k].data),
         NEW p \in Nat, d <= p, p <= d + m
  PROVE  InPart(fs[k], s, d, m, p) /\ Spot(fs, k) = d + m + 2
<1>1. /\ fs[k].data \in Seq(STRING)
      /\ Spot(fs, k) = d + m + 2
      /\ \A i \in 1..B : s[Spot(fs, k) + i] = Boundary[i]
      /\ LiesAt(fs[k], s, Spot(fs, k - 1), Spot(fs, k))
  BY PartInPlace
<1>2. ~Delimits(fs[k].data)
  OBVIOUS
<1>3. /\ \A i \in 1..m : s[d + i] = fs[k].data[i]
      /\ s[Spot(fs, k) - 1] = "CR" /\ s[Spot(fs, k)] = "LF"
  BY <1>1, Zenon DEF LiesAt
<1>4. Spot(fs, k) - 1 = d + m + 1
  BY <1>1
<1> QED
  BY <1>1, <1>2, <1>3, <1>4, Zenon DEF InPart

(* The part after a turn that takes c tokens.                              *)
Grown(spec, w) == [spec EXCEPT !.data = @ \o w]

LEMMA MoreData ==
  ASSUME NEW f \in FormPart, NEW s \in Seq(Token), NEW d, NEW m, NEW p, NEW q,
         InPart(f, s, d, m, p), Window(rest, s, p, q),
         NEW c \in Nat, c <= Len(rest), p + c <= d + m
  PROVE  /\ InData(f, d, p + c) = Grown(InData(f, d, p), SubSeq(rest, 1, c))
         /\ InData(f, d, p + c) \in FormPart
         /\ p + c = d + m => InData(f, d, p + c) = f
<1>1. /\ d \in Nat /\ m \in Nat /\ p \in Nat /\ d <= p /\ p <= d + m
      /\ f.data \in Seq(STRING) /\ m = Len(f.data)
  BY Zenon DEF InPart
<1>2. \A i \in 1..m : s[d + i] = f.data[i]
  BY Zenon DEF InPart
<1>3. PICK a \in Nat, b \in Nat : a = p - d /\ b = (p + c) - d /\ b = a + c /\ a <= m /\ b <= m
  <2>1. p - d \in Nat /\ (p + c) - d \in Nat /\ (p + c) - d = (p - d) + c
        /\ p - d <= m /\ (p + c) - d <= m
    BY <1>1
  <2> QED
    BY <2>1
<1>4. f.data \in Seq(Token) /\ a \in 0..Len(f.data) /\ b \in 0..Len(f.data)
  <2>1. f.data \in Seq(Token)
    BY <1>1, TextIsTokens
  <2> QED
    BY <1>1, <1>3, <2>1
<1>5. First(f.data, b) \in Seq(STRING)
  BY <1>1, <1>4, FirstIs
<1>6. /\ First(f.data, a) \in Seq(Token) /\ Len(First(f.data, a)) = a
      /\ \A i \in 1..a : First(f.data, a)[i] = f.data[i]
  BY <1>4, FirstIs
<1>7. /\ First(f.data, b) \in Seq(Token) /\ Len(First(f.data, b)) = b
      /\ \A i \in 1..b : First(f.data, b)[i] = f.data[i]
  BY <1>4, FirstIs
<1>8. First(f.data, Len(f.data)) = f.data
  BY <1>4, FirstIs
<1> DEFINE v == SubSeq(rest, 1, c)
<1>9. v \in Seq(Token) /\ Len(v) = c /\ \A i \in 1..c : v[i] = s[p + i]
  <2>1. 0 \in Nat /\ 0 <= c /\ 0 + 1 = 1 /\ p + 0 = p /\ (p + c) - p = c
    BY <1>1
  <2>2. Window(SubSeq(rest, 0 + 1, c), s, p + 0, p + c)
    BY <2>1, WindowPart
  <2>3. Window(v, s, p, p + c)
    BY <2>1, <2>2
  <2> HIDE DEF v
  <2>4. v \in Seq(Token) /\ Len(v) = (p + c) - p /\ \A i \in 1..((p + c) - p) : v[i] = s[p + i]
    BY <2>3, Zenon DEF Window
  <2> QED
    BY <2>1, <2>4, Zenon
<1> HIDE DEF v
<1>10. First(f.data, a) \o v = First(f.data, b)
  <2>1. PICK g : g = First(f.data, a) /\ g \in Seq(Token) /\ Len(g) = a
                 /\ \A i \in 1..a : g[i] = f.data[i]
    BY <1>6
  <2>2. PICK h : h = First(f.data, b) /\ h \in Seq(Token) /\ Len(h) = b
                 /\ \A i \in 1..b : h[i] = f.data[i]
    BY <1>7
  <2>3. PICK w : w = g \o v
    OBVIOUS
  <2>4. /\ w \in Seq(Token) /\ Len(w) = Len(g) + Len(v)
        /\ \A i \in 1..Len(g) : w[i] = g[i]
        /\ \A i \in 1..Len(v) : w[Len(g) + i] = v[i]
    BY <1>9, <2>1, <2>3, ConcatIs
  <2>5. Len(w) = b
    <3>1. Len(w) = a + c
      BY <1>9, <2>1, <2>4, Zenon
    <3> QED
      BY <1>3, <3>1
  <2>6. ASSUME NEW i \in 1..b PROVE w[i] = h[i]
    <3>1. h[i] = f.data[i]
      BY <2>2
    <3>2. CASE i <= a
      <4>1. i \in 1..a
        BY <1>3, <3>2
      <4>2. w[i] = g[i] /\ g[i] = f.data[i]
        BY <2>1, <2>4, <4>1, Zenon
      <4> QED
        BY <3>1, <4>2
    <3>3. CASE ~(i <= a)
      <4>1. PICK j \in 1..c : a + j = i
        <5>1. i - a \in 1..c /\ a + (i - a) = i
          BY <1>3, <3>3
        <5> QED
          BY <5>1
      <4>2. w[a + j] = v[j] /\ v[j] = s[p + j]
        BY <1>9, <2>1, <2>4, Zenon
      <4>3. i \in 1..m /\ p + j = d + i
        BY <1>1, <1>3, <4>1
      <4>4. s[d + i] = f.data[i]
        BY <1>2, <4>3, Zenon
      <4> QED
        BY <3>1, <4>1, <4>2, <4>3, <4>4
    <3> QED
      BY <3>2, <3>3
  <2>7. w = h
    BY <2>2, <2>4, <2>5, <2>6, SeqEqual
  <2> QED
    BY <2>1, <2>2, <2>3, <2>7
<1>11. InData(f, d, p + c) = [file |-> f.file, data |-> First(f.data, b)]
  BY <1>3 DEF InData
<1>12. InData(f, d, p) = [file |-> f.file, data |-> First(f.data, a)]
  BY <1>3 DEF InData
<1>13. InData(f, d, p + c) \in FormPart
  BY <1>5, <1>11 DEF FormPart
<1>14. InData(f, d, p + c) = [InData(f, d, p) EXCEPT !.data = @ \o v]
  <2>1. PICK x, y, z : x = First(f.data, a) /\ y = First(f.data, b) /\ z = f.file
    OBVIOUS
  <2>2. x \o v = y
    BY <1>10, <2>1
  <2>3. PICK r : r = [file |-> z, data |-> x]
    OBVIOUS
  <2>4. [r EXCEPT !.data = y] = [file |-> z, data |-> y]
    BY <2>3
  <2>5. InData(f, d, p) = r
    BY <1>12, <2>1, <2>3
  <2>6. InData(f, d, p + c) = [file |-> z, data |-> y]
    BY <1>11, <2>1
  <2>7. [r EXCEPT !.data = @ \o v] = [file |-> z, data |-> y]
    <3>1. r.data = x
      BY <2>3
    <3>2. r.data \o v = y
      BY <2>2, <3>1, Zenon
    <3> QED
      BY <2>4, <3>2, Zenon
  <2> QED
    BY <2>5, <2>6, <2>7, Zenon
<1>15. ASSUME p + c = d + m PROVE InData(f, d, p + c) = f
  <2>1. b = Len(f.data)
    BY <1>1, <1>3, <1>15
  <2>2. InData(f, d, p + c) = [file |-> f.file, data |-> f.data]
    BY <1>8, <1>11, <2>1
  <2> QED
    BY <2>2 DEF FormPart
<1> QED
  BY <1>13, <1>14, <1>15, Zenon DEF v, Grown

LEMMA DataTurnReads ==
  ASSUME NEW fs \in Seq(FormPart), \A i \in DOMAIN fs : ~Delimits(fs[i].data),
         NEW s, s = FormBytes(fs), NEW p, NEW q,
         Window(Kept, s, p, q), AtData(fs, p, q), DataTurn
  PROVE  \E r \in Nat : Window(Kept, s, r, q)' /\ (AtBoundary(fs, r, q)' \/ AtData(fs, r, q)')
<1>1. rest # <<>>
  BY DEF DataTurn
<1>2. Window(rest, s, p, q) /\ s \in Seq(Token)
  BY <1>1, KeptIs, FormLies
<1>3. PICK k \in 1..Len(fs), d \in Nat, m \in Nat :
        /\ d = DataAt(fs[k], Spot(fs, k - 1)) /\ m = Len(fs[k].data)
        /\ state = DataState(fs[k])
        /\ d <= p /\ p <= d + m /\ Told(fs, k, InData(fs[k], d, p))
  BY Zenon DEF AtData
<1>4. PICK f \in FormPart : f = fs[k]
  BY PartInPlace
<1>5. p \in Nat /\ q \in Nat /\ Len(rest) \in Nat /\ Len(rest) = q - p /\ B \in Nat
  BY <1>2, WindowIs, BoundaryIs
<1>6. DOMAIN rest = 1..Len(rest)
  BY <1>2, WindowIs
<1>7. InPart(f, s, d, m, p) /\ Spot(fs, k) = d + m + 2
  BY <1>3, <1>4, <1>5, PartIsIn
<1>8. PICK e \in Nat \ {0} : e = d + m + 1 - p /\ p + e = d + m + 1
  <2>1. d + m + 1 - p \in Nat \ {0} /\ p + (d + m + 1 - p) = d + m + 1
    BY <1>3, <1>5
  <2> QED
    BY <2>1
<1>9. /\ AtDelimiter(e) <=> e + B + 1 <= Len(rest)
      /\ e <= Len(rest) => e \in Stops
  BY <1>2, <1>7, <1>8, StopsAtEnd
<1>10. ASSUME NEW i \in Nat \ {0}, i < e PROVE ~AtDelimiter(i)
  <2>1. p + i <= d + m
    BY <1>5, <1>8, <1>10
  <2> QED
    BY <1>2, <1>7, <2>1, NoneInside
<1>11. /\ Stops = {} => FirstStop = Len(rest) + 1
       /\ Stops # {} => FirstStop \in Stops /\ \A j \in Stops : FirstStop <= j
       /\ Stops \subseteq 1..Len(rest)
       /\ FirstStop \in 1..(Len(rest) + 1)
  BY <1>5, <1>6, FirstStopIs
<1>12. PICK h \in Nat \ {0} : h = FirstStop /\ h <= Len(rest) + 1 /\ h <= e
  <2>1. FirstStop \in Nat \ {0} /\ FirstStop <= Len(rest) + 1
    BY <1>5, <1>11
  <2>2. FirstStop <= e
    <3>1. CASE e \in Stops
      BY <1>11, <3>1
    <3>2. CASE e \notin Stops
      <4>1. ~(e <= Len(rest))
        BY <1>9, <3>2, Zenon
      <4>2. Len(rest) + 1 <= e
        BY <1>5, <4>1
      <4> QED
        BY <1>5, <2>1, <4>2
    <3> QED
      BY <3>1, <3>2
  <2> QED
    BY <2>1, <2>2
<1>13. PICK c \in Nat : c = h - 1 /\ c + 1 = h /\ c <= Len(rest) /\ p + c <= d + m
  <2>1. h - 1 \in Nat /\ (h - 1) + 1 = h /\ h - 1 <= Len(rest) /\ p + (h - 1) <= d + m
    BY <1>5, <1>8, <1>12
  <2> QED
    BY <2>1
<1>14. PICK r \in Nat : r = p + c
  BY <1>5
<1>15. /\ InData(f, d, r) = Grown(InData(f, d, p), SubSeq(rest, 1, c))
       /\ InData(f, d, r) \in FormPart
       /\ r = d + m => InData(f, d, r) = f
  <2>1. /\ InData(f, d, p + c) = Grown(InData(f, d, p), SubSeq(rest, 1, c))
        /\ InData(f, d, p + c) \in FormPart
        /\ p + c = d + m => InData(f, d, p + c) = f
    <3>1. s \in Seq(Token) /\ InPart(f, s, d, m, p) /\ Window(rest, s, p, q)
      BY <1>2, <1>7
    <3>2. c \in Nat /\ c <= Len(rest) /\ p + c <= d + m
      BY <1>13
    <3> QED
      BY <3>1, <3>2, MoreData
  <2>2. r = d + m => p + c = d + m
    BY <1>14
  <2>3. InData(f, d, r) = InData(f, d, p + c)
    BY <1>14, Zenon
  <2> QED
    BY <2>1, <2>2, <2>3, Zenon
<1>16. Told(fs, k, InData(f, d, r))'
  <2>1. Spec0 = InData(f, d, p)
    BY <1>3, <1>4, Spec0Is
  <2>2. SetSpec(Grown(Spec0, SubSeq(rest, 1, FirstStop - 1)))
    BY Zenon DEF DataTurn, Grown
  <2>3. SetSpec(InData(f, d, r))
    BY <1>12, <1>13, <1>15, <2>1, <2>2, Zenon
  <2> QED
    BY <1>3, <1>4, <1>15, <2>3, ToldSet, Zenon
<1>17. d <= r /\ r <= d + m
  BY <1>3, <1>5, <1>13, <1>14
<1>18. CASE Stops = {} /\ GoesOnWith(<<>>) /\ state' = state
  <2>1. h = Len(rest) + 1
    BY <1>11, <1>12, <1>18
  <2>2. r = q
    BY <1>5, <1>13, <1>14, <2>1
  <2>3. Kept' = <<>>
    BY <1>18, KeptIs, Zenon
  <2>4. Window(<<>>, s, r, q)
    <3>1. q <= Len(s)
      BY <1>2, Zenon DEF Window
    <3> QED
      BY <1>2, <1>5, <2>2, <3>1, WindowNone
  <2>5. Window(Kept, s, r, q)'
    BY <2>3, <2>4 DEF Window
  <2>6. AtData(fs, r, q)'
    <3>1. q < d + m + 2 + B
      BY <1>5, <1>17, <2>2
    <3>2. state' = DataState(fs[k])
      BY <1>3, <1>18
    <3>3. Told(fs, k, InData(fs[k], d, r))'
      BY <1>4, <1>16
    <3> QED
      BY <1>3, <1>17, <3>1, <3>2, <3>3, Zenon DEF AtData
  <2> QED
    BY <2>5, <2>6
<1>19. CASE Stops # {} /\ AtDelimiter(FirstStop) /\ state' = "StateBoundary"
            /\ GoesOnWith(From(rest, FirstStop + 2))
  <2>1. h = e
    <3>1. AtDelimiter(h)
      BY <1>12, <1>19
    <3>2. ~(h < e)
      BY <1>10, <3>1
    <3> QED
      BY <1>12, <3>2
  <2>2. h + B + 1 <= Len(rest)
    BY <1>9, <1>12, <1>19, <2>1
  <2>3. r = d + m
    BY <1>5, <1>8, <1>13, <1>14, <2>1
  <2> DEFINE w == From(rest, h + 2)
  <2>4. PICK a \in Nat : a = h + 1 /\ a + 1 = h + 2 /\ a <= Len(rest) /\ p + a = d + m + 2
    <3>1. h + 1 <= Len(rest) /\ (h + 1) + 1 = h + 2 /\ p + (h + 1) = d + m + 2
      BY <1>5, <1>8, <2>1, <2>2
    <3> QED
      BY <3>1
  <2>5. PICK t \in Nat : t = d + m + 2
    OBVIOUS
  <2>6. Window(w, s, t, q)
    <3>1. Window(From(rest, a + 1), s, p + a, q)
      BY <1>2, <2>4, WindowFrom
    <3> QED
      BY <2>4, <2>5, <3>1
  <2>7. Kept' = w /\ (rest' = <<>> <=> w = <<>>)
    <3>1. GoesOnWith(w)
      BY <1>12, <1>19
    <3> QED
      BY <3>1, KeptIs
  <2> HIDE DEF w
  <2>8. Window(Kept, s, t, q)'
    BY <2>6, <2>7 DEF Window
  <2>9. rest' = <<>> => q < t + B + 2
    <3>1. w = <<>> <=> t = q
      BY <1>2, <2>6, WindowIs
    <3> QED
      BY <1>5, <2>7, <3>1
  <2>10. AllTold(fs, k)'
    <3>1. Told(fs, k, fs[k])'
      BY <1>4, <1>15, <1>16, <2>3 DEF Told
    <3>2. /\ k \in 1..Len(fs) /\ bodySpecs' \in Seq(FormPart) /\ Len(bodySpecs') = k
          /\ \A i \in 1..(k - 1) : bodySpecs'[i] = fs[i]
          /\ bodySpecs'[k] = fs[k]
      BY <3>1, Zenon DEF Told
    <3>3. k \in 0..Len(fs) /\ \A i \in 1..k : i \in 1..(k - 1) \/ i = k
      OBVIOUS
    <3>4. \A i \in 1..k : bodySpecs'[i] = fs[i]
      BY <3>2, <3>3, Zenon
    <3> QED
      BY <3>2, <3>3, <3>4, Zenon DEF AllTold
  <2>11. t = Spot(fs, k) /\ k \in 0..Len(fs)
    BY <1>7, <2>5
  <2>12. AtBoundary(fs, t, q)'
    BY <1>19, <2>9, <2>10, <2>11, Zenon DEF AtBoundary
  <2> QED
    BY <2>8, <2>12
<1>20. CASE Stops # {} /\ ~AtDelimiter(FirstStop) /\ state' = state
            /\ Keeps(From(rest, FirstStop))
  <2>1. h \in Stops /\ ~AtDelimiter(h)
    BY <1>11, <1>12, <1>20
  <2>2. MayBeDelimiter(h) /\ h <= Len(rest)
    <3>1. h \in 1..Len(rest)
      BY <1>11, <2>1
    <3> QED
      BY <2>1, <3>1 DEF Stops
  <2>3. h = Len(rest) \/ Len(rest) - h - 1 < B
    BY <2>2, Zenon DEF MayBeDelimiter, B
  <2>4. q < d + m + 2 + B
    <3>1. ASSUME ~(q < d + m + 2 + B) PROVE FALSE
      <4>1. e + B + 1 <= Len(rest)
        BY <1>5, <1>8, <3>1
      <4>2. h # e
        BY <1>9, <2>1, <4>1
      <4> QED
        BY <1>5, <1>12, <2>3, <4>1, <4>2
    <3> QED
      BY <3>1
  <2> DEFINE w == From(rest, h)
  <2>5. Window(w, s, r, q)
    <3>1. Window(From(rest, c + 1), s, p + c, q)
      BY <1>2, <1>13, WindowFrom
    <3> QED
      BY <1>13, <1>14, <3>1
  <2>6. Kept' = w
    <3>1. Keeps(w)
      BY <1>12, <1>20
    <3> QED
      BY <3>1, KeptIs
  <2> HIDE DEF w
  <2>7. Window(Kept, s, r, q)'
    BY <2>5, <2>6 DEF Window
  <2>8. AtData(fs, r, q)'
    <3>1. state' = DataState(fs[k])
      BY <1>3, <1>20
    <3>2. Told(fs, k, InData(fs[k], d, r))'
      BY <1>4, <1>16
    <3> QED
      BY <1>3, <1>17, <2>4, <3>1, <3>2, Zenon DEF AtData
  <2> QED
    BY <2>7, <2>8
<1> QED
  BY <1>18, <1>19, <1>20, Zenon DEF DataTurn

-----------------------------------------------------------------------------
(* The parts that a reader has when it stands anywhere in a form.          *)

LEMMA ToldIsPart ==
  ASSUME NEW fs \in Seq(FormPart), NEW k, NEW spec, Told(fs, k, spec),
         spec.data \in Seq(STRING), fs[k].data \in Seq(STRING), Begins(spec.data, fs[k].data)
  PROVE  PartsOf(fs, bodySpecs)
<1>1. /\ k \in 1..Len(fs) /\ bodySpecs \in Seq(FormPart) /\ Len(bodySpecs) = k
      /\ \A i \in 1..(k - 1) : bodySpecs[i] = fs[i]
      /\ bodySpecs[k] = spec
  BY Zenon DEF Told
<1>2. Len(bodySpecs) <= Len(fs) /\ DOMAIN bodySpecs = 1..k
  BY <1>1
<1>3. ASSUME NEW i \in 1..k
      PROVE  IF i < Len(bodySpecs) THEN bodySpecs[i] = fs[i]
             ELSE IsPrefix(bodySpecs[i].data, fs[i].data)
  <2>1. CASE i < k
    <3>1. i \in 1..(k - 1)
      BY <1>1, <2>1
    <3> QED
      BY <1>1, <2>1, <3>1, Zenon
  <2>2. CASE ~(i < k)
    <3>1. i = k
      BY <1>1, <2>2
    <3>2. IsPrefix(spec.data, fs[k].data)
      BY BeginsIsPrefix, Zenon
    <3> QED
      BY <1>1, <2>2, <3>1, <3>2, Zenon
  <2> QED
    BY <2>1, <2>2
<1> QED
  BY <1>2, <1>3, Zenon DEF PartsOf

LEMMA AllToldIsPart ==
  ASSUME NEW fs \in Seq(FormPart), NEW k, AllTold(fs, k)
  PROVE  PartsOf(fs, bodySpecs)
<1>1. /\ k \in 0..Len(fs) /\ bodySpecs \in Seq(FormPart) /\ Len(bodySpecs) = k
      /\ \A i \in 1..k : bodySpecs[i] = fs[i]
  BY Zenon DEF AllTold
<1>2. CASE k = 0
  <2>1. DOMAIN bodySpecs = {} /\ Len(bodySpecs) <= Len(fs)
    BY <1>1, <1>2
  <2> QED
    BY <2>1, Zenon DEF PartsOf
<1>3. CASE k # 0
  <2>1. k \in 1..Len(fs) /\ k \in 1..k
    BY <1>1, <1>3
  <2>2. \A i \in 1..(k - 1) : i \in 1..k
    BY <1>1
  <2>3. fs[k] \in FormPart
    BY <2>1
  <2>4. fs[k].data \in Seq(STRING)
    BY <2>3 DEF FormPart
  <2>5. Begins(fs[k].data, fs[k].data)
    BY <2>4 DEF Begins
  <2>6. Told(fs, k, fs[k])
    BY <1>1, <2>1, <2>2, Zenon DEF Told
  <2> QED
    BY <2>4, <2>5, <2>6, ToldIsPart, Zenon
<1> QED
  BY <1>2, <1>3

LEMMA HeaderIsPart ==
  ASSUME NEW fs \in Seq(FormPart), NEW p, NEW q, AtHeader(fs, p, q)
  PROVE  PartsOf(fs, bodySpecs)
<1>1. PICK k \in 1..Len(fs), n \in {2, 3}, spec \in FormPart :
        Header(fs[k], Spot(fs, k - 1), p, n, spec) /\ Told(fs, k, spec)
  BY Zenon DEF AtHeader
<1>2. fs[k] \in FormPart
  OBVIOUS
<1>3. fs[k].data \in Seq(STRING)
  BY <1>2 DEF FormPart
<1>4. spec.data = <<>>
  BY <1>1 DEF Header, NewSpec
<1>5. spec.data \in Seq(STRING) /\ Begins(spec.data, fs[k].data)
  BY <1>3, <1>4 DEF Begins
<1> QED
  BY <1>1, <1>3, <1>5, ToldIsPart, Zenon

LEMMA DataIsPart ==
  ASSUME NEW fs \in Seq(FormPart), NEW p \in Nat, NEW q, AtData(fs, p, q)
  PROVE  PartsOf(fs, bodySpecs)
<1>1. PICK k \in 1..Len(fs), d \in Nat, m \in Nat :
        m = Len(fs[k].data) /\ d <= p /\ p <= d + m /\ Told(fs, k, InData(fs[k], d, p))
  BY Zenon DEF AtData
<1>2. fs[k] \in FormPart
  OBVIOUS
<1>3. fs[k].data \in Seq(STRING)
  BY <1>2 DEF FormPart
<1>4. PICK a : a = p - d
  OBVIOUS
<1>5. a \in 0..Len(fs[k].data)
  BY <1>1, <1>4
<1>6. InData(fs[k], d, p).data = First(fs[k].data, a)
  BY <1>4 DEF InData
<1>7. PICK v : v = First(fs[k].data, a)
  OBVIOUS
<1>8. v \in Seq(STRING) /\ Len(v) = a /\ \A i \in 1..a : v[i] = fs[k].data[i]
  BY <1>3, <1>5, <1>7, FirstIs
<1>9. Begins(v, fs[k].data)
  BY <1>5, <1>8 DEF Begins
<1> QED
  BY <1>1, <1>3, <1>6, <1>7, <1>8, <1>9, ToldIsPart, Zenon

-----------------------------------------------------------------------------
(* The reader of the form fs when q of its tokens have come.               *)

Stands(fs, p, q) == AtBoundary(fs, p, q) \/ AtHeader(fs, p, q) \/ AtData(fs, p, q)

Listens(fs, q) ==
  \/ \E p \in Nat : Window(Kept, FormBytes(fs), p, q) /\ Stands(fs, p, q)
  \/ state = "StateDone" /\ bodySpecs = fs
  \/ state = "StateNone" /\ PartsOf(fs, bodySpecs)

LEMMA StateIs ==
  ASSUME NEW fs, NEW p, NEW q
  PROVE  /\ AtBoundary(fs, p, q) => state = "StateBoundary"
         /\ AtHeader(fs, p, q) => state = "StateHeader"
         /\ AtData(fs, p, q) => state \in {"StateFile", "StateFieldValue"}
         /\ Stands(fs, p, q) => state \notin {"StateDone", "StateNone"}
<1>1. AtBoundary(fs, p, q) => state = "StateBoundary"
  BY Zenon DEF AtBoundary
<1>2. AtHeader(fs, p, q) => state = "StateHeader"
  BY Zenon DEF AtHeader
<1>3. ASSUME AtData(fs, p, q) PROVE state \in {"StateFile", "StateFieldValue"}
  <2>1. PICK k \in 1..Len(fs) : state = DataState(fs[k])
    BY <1>3, Zenon DEF AtData
  <2> QED
    BY <2>1 DEF DataState
<1>4. ASSUME Stands(fs, p, q) PROVE state \notin {"StateDone", "StateNone"}
  <2>1. state \in {"StateBoundary", "StateHeader", "StateFile", "StateFieldValue"}
    BY <1>1, <1>2, <1>3, <1>4 DEF Stands
  <2> QED
    BY <2>1
<1> QED
  BY <1>1, <1>2, <1>3, <1>4

LEMMA ListensHasParts ==
  ASSUME NEW fs \in Seq(FormPart), NEW q, Listens(fs, q)
  PROVE  PartsOf(fs, bodySpecs)
<1>1. ASSUME NEW p \in Nat, Stands(fs, p, q) PROVE PartsOf(fs, bodySpecs)
  <2>1. CASE AtBoundary(fs, p, q)
    <3>1. PICK k \in 0..Len(fs) : AllTold(fs, k)
      BY <2>1, Zenon DEF AtBoundary
    <3> QED
      BY <3>1, AllToldIsPart
  <2>2. CASE AtHeader(fs, p, q)
    BY <2>2, HeaderIsPart
  <2>3. CASE AtData(fs, p, q)
    BY <2>3, DataIsPart
  <2> QED
    BY <1>1, <2>1, <2>2, <2>3 DEF Stands
<1>2. ASSUME bodySpecs = fs PROVE PartsOf(fs, bodySpecs)
  <2>1. Len(fs) \in Nat /\ DOMAIN fs = 1..Len(fs)
    OBVIOUS
  <2>2. Len(fs) \in 0..Len(fs)
    BY <2>1
  <2>3. AllTold(fs, Len(fs))
    BY <1>2, <2>2 DEF AllTold
  <2> QED
    BY <2>3, AllToldIsPart
<1> QED
  BY <1>1, <1>2, Zenon DEF Listens

(* When the whole form has come and nothing is left to look at, the reader *)
(* is through.                                                             *)
LEMMA WholeFormHeard ==
  ASSUME NEW fs \in Seq(FormPart), NEW s, s = FormBytes(fs), Listens(fs, Len(s)), rest = <<>>
  PROVE  state = "StateNone" \/ (state = "StateDone" /\ bodySpecs = fs)
<1> SUFFICES ASSUME NEW p \in Nat, Stands(fs, p, Len(s)) PROVE FALSE
  BY Zenon DEF Listens
<1> DEFINE q == Len(s)
<1>1. B \in Nat /\ q \in Nat /\ \A k \in 0..Len(fs) : Spot(fs, k) \in Nat /\ Spot(fs, k) + B + 2 <= q
  BY FormLies, BoundaryIs
<1>2. \A k \in 1..Len(fs) :
        /\ fs[k].file \in BOOLEAN
        /\ Len(fs[k].data) \in Nat /\ Spot(fs, k - 1) \in Nat
        /\ DataAt(fs[k], Spot(fs, k - 1)) \in Nat
        /\ Spot(fs, k) \in Nat
        /\ Spot(fs, k) = DataAt(fs[k], Spot(fs, k - 1)) + Len(fs[k].data) + 2
        /\ Spot(fs, k) + B + 2 <= q
  BY PartInPlace
<1> HIDE DEF q
<1>3. ASSUME AtBoundary(fs, p, q) PROVE FALSE
  <2>1. PICK k \in 0..Len(fs) : p = Spot(fs, k)
    BY <1>3, Zenon DEF AtBoundary
  <2>2. q < p + B + 2
    BY <1>3, Zenon DEF AtBoundary
  <2>3. Spot(fs, k) \in Nat /\ Spot(fs, k) + B + 2 <= q
    BY <1>1
  <2> QED
    BY <1>1, <2>1, <2>2, <2>3
<1>4. ASSUME AtHeader(fs, p, q) PROVE FALSE
  <2>1. PICK k \in 1..Len(fs), n \in {2, 3}, spec \in FormPart :
          Header(fs[k], Spot(fs, k - 1), p, n, spec) /\ q < p + n
    BY <1>4, Zenon DEF AtHeader
  <2>2. PICK t \in Nat, d \in Nat, m \in Nat :
          /\ t = Spot(fs, k - 1) /\ d = DataAt(fs[k], t) /\ m = Len(fs[k].data)
          /\ Spot(fs, k) = d + m + 2 /\ Spot(fs, k) + B + 2 <= q
    BY <1>2
  <2>3. PICK b \in Nat : b = B
    BY <1>1
  <2>4. PICK f : f = fs[k]
    OBVIOUS
  <2>5. d = IF f.file THEN t + b + 10 ELSE t + b + 7
    BY <2>2, <2>3, <2>4, Zenon DEF DataAt
  <2>6. Header(f, t, p, n, spec)
    BY <2>1, <2>2, <2>4, Zenon
  <2>7. \/ p = t + b + 2 /\ n = 3
        \/ f.file /\ p = t + b + 5 /\ n = 3
        \/ p = d - 2 /\ n = 2
    <3>1. d = DataAt(f, t)
      BY <2>2, <2>4, Zenon
    <3> QED
      BY <2>3, <2>6, <3>1, Zenon DEF Header
  <2>8. p + n <= d
    BY <2>5, <2>7
  <2>9. d + m + 2 + b + 2 <= q /\ q \in Nat
    <3>1. PICK z \in Nat : z = Spot(fs, k) /\ z = d + m + 2 /\ z + B + 2 <= q
      BY <2>2
    <3> QED
      BY <1>1, <2>3, <3>1
  <2> QED
    BY <2>1, <2>8, <2>9
<1>5. ASSUME AtData(fs, p, q) PROVE FALSE
  <2>1. PICK k \in 1..Len(fs), d \in Nat, m \in Nat :
          /\ d = DataAt(fs[k], Spot(fs, k - 1)) /\ m = Len(fs[k].data)
          /\ q < d + m + 2 + B
    BY <1>5, Zenon DEF AtData
  <2>2. Spot(fs, k) = d + m + 2 /\ Spot(fs, k) + B + 2 <= q
    BY <1>2, <2>1
  <2> QED
    BY <1>1, <2>1, <2>2
<1> QED
  BY <1>3, <1>4, <1>5 DEF Stands, q

(* A turn of the loop.                                                     *)
LEMMA TurnListens ==
  ASSUME NEW fs \in Seq(FormPart), \A i \in DOMAIN fs : ~Delimits(fs[i].data),
         NEW q, Listens(fs, q), MimeTurn
  PROVE  Listens(fs, q)'
<1>1. PICK s : s = FormBytes(fs)
  OBVIOUS
<1>2. PartsOf(fs, bodySpecs)
  BY ListensHasParts
<1>3. ASSUME NEW p \in Nat, Window(Kept, s, p, q)', Stands(fs, p, q)' PROVE Listens(fs, q)'
  <2>1. Window(Kept, FormBytes(fs), p, q)'
    BY <1>1, <1>3 DEF Window
  <2> QED
    BY <1>3, <2>1 DEF Listens
<1>4. CASE Ignored
  <2>1. state \in {"StateDone", "StateNone"} /\ state' = state /\ bodySpecs' = bodySpecs
    BY <1>4 DEF Ignored
  <2>2. (state = "StateDone" /\ bodySpecs = fs) \/ state = "StateNone"
    BY <2>1, StateIs, Zenon DEF Listens
  <2>3. PartsOf(fs, bodySpecs')
    BY <1>2, <2>1
  <2> QED
    BY <2>1, <2>2, <2>3 DEF Listens, PartsOf
<1>5. CASE FileWriteFails
  <2>1. state' = "StateNone" /\ bodySpecs' = bodySpecs
    BY <1>5 DEF FileWriteFails
  <2>2. PartsOf(fs, bodySpecs')
    BY <1>2, <2>1
  <2> QED
    BY <2>1, <2>2 DEF Listens, PartsOf
<1>6. ASSUME state \notin {"StateDone", "StateNone"}
      PROVE  \E p \in Nat : Window(Kept, s, p, q) /\ Stands(fs, p, q)
  BY <1>1, <1>6 DEF Listens
<1>7. CASE state = "StateBoundary" /\ (BoundaryUnfinished \/ LastBoundary \/ BoundaryOfPart)
  <2>1. PICK p \in Nat : Window(Kept, s, p, q) /\ AtBoundary(fs, p, q)
    <3>1. PICK p \in Nat : Window(Kept, s, p, q) /\ Stands(fs, p, q)
      BY <1>6, <1>7
    <3>2. AtBoundary(fs, p, q)
      BY <1>7, <3>1, StateIs DEF Stands
    <3> QED
      BY <3>1, <3>2
  <2>2. CASE BoundaryUnfinished
    <3>1. Window(Kept, s, p, q)' /\ AtBoundary(fs, p, q)'
      BY <1>1, <2>1, <2>2, BoundaryUnfinishedReads
    <3>2. Stands(fs, p, q)'
      BY <3>1 DEF Stands
    <3> QED
      BY <1>3, <3>1, <3>2
  <2>3. CASE LastBoundary
    <3>1. state' = "StateDone" /\ bodySpecs' = fs
      BY <1>1, <2>1, <2>3, LastBoundaryReads
    <3> QED
      BY <3>1 DEF Listens
  <2>4. CASE BoundaryOfPart
    <3>1. PICK r \in Nat : Window(Kept, s, r, q)' /\ AtHeader(fs, r, q)'
      BY <1>1, <2>1, <2>4, BoundaryOfPartReads
    <3>2. Stands(fs, r, q)'
      BY <3>1 DEF Stands
    <3> QED
      BY <1>3, <3>1, <3>2
  <2> QED
    BY <1>7, <2>2, <2>3, <2>4
<1>8. CASE state = "StateHeader" /\ (HeaderUnfinished \/ BlankLine \/ HeaderLine)
  <2>1. PICK p \in Nat : Window(Kept, s, p, q) /\ AtHeader(fs, p, q)
    <3>1. PICK p \in Nat : Window(Kept, s, p, q) /\ Stands(fs, p, q)
      BY <1>6, <1>8
    <3>2. AtHeader(fs, p, q)
      BY <1>8, <3>1, StateIs DEF Stands
    <3> QED
      BY <3>1, <3>2
  <2>2. CASE HeaderUnfinished
    <3>1. Window(Kept, s, p, q)' /\ AtHeader(fs, p, q)'
      BY <1>1, <2>1, <2>2, HeaderUnfinishedReads
    <3>2. Stands(fs, p, q)'
      BY <3>1 DEF Stands
    <3> QED
      BY <1>3, <3>1, <3>2
  <2>3. CASE BlankLine
    <3>1. PICK r \in Nat : Window(Kept, s, r, q)' /\ AtData(fs, r, q)'
      BY <1>1, <2>1, <2>3, BlankLineReads
    <3>2. Stands(fs, r, q)'
      BY <3>1 DEF Stands
    <3> QED
      BY <1>3, <3>1, <3>2
  <2>4. CASE HeaderLine
    <3>1. PICK r \in Nat : Window(Kept, s, r, q)' /\ (AtHeader(fs, r, q)' \/ AtData(fs, r, q)')
      BY <1>1, <2>1, <2>4, HeaderLineReads
    <3>2. Stands(fs, r, q)'
      BY <3>1 DEF Stands
    <3> QED
      BY <1>3, <3>1, <3>2
  <2> QED
    BY <1>8, <2>2, <2>3, <2>4
<1>9. CASE DataTurn
  <2>1. state \in {"StateFieldValue", "StateFile"}
    BY <1>9 DEF DataTurn
  <2>2. PICK p \in Nat : Window(Kept, s, p, q) /\ AtData(fs, p, q)
    <3>1. PICK p \in Nat : Window(Kept, s, p, q) /\ Stands(fs, p, q)
      BY <1>6, <2>1
    <3>2. AtData(fs, p, q)
      BY <2>1, <3>1, StateIs DEF Stands
    <3> QED
      BY <3>1, <3>2
  <2>3. PICK r \in Nat : Window(Kept, s, r, q)' /\ (AtBoundary(fs, r, q)' \/ AtData(fs, r, q)')
    BY <1>1, <1>9, <2>2, DataTurnReads
  <2>4. Stands(fs, r, q)'
    BY <2>3 DEF Stands
  <2> QED
    BY <1>3, <2>3, <2>4
<1>10. /\ (BoundaryUnfinished \/ LastBoundary \/ BoundaryOfPart) => state = "StateBoundary"
       /\ (HeaderUnfinished \/ BlankLine \/ HeaderLine) => state = "StateHeader"
  BY Zenon DEF BoundaryUnfinished, LastBoundary, BoundaryOfPart,
               HeaderUnfinished, BlankLine, HeaderLine
<1> QED
  BY <1>4, <1>5, <1>7, <1>8, <1>9, <1>10, Zenon DEF MimeTurn

(* The next piece, up to the r-th token.                                   *)
LEMMA PieceListens ==
  ASSUME NEW fs \in Seq(FormPart), NEW q, NEW r, Listens(fs, q), rest = <<>>,
         NEW b, Window(b, FormBytes(fs), q, r), b # <<>>, AddToBuffer(b)
  PROVE  Listens(fs, r)'
<1>1. /\ rest' = buffer \o b /\ state' = state /\ bodySpecs' = bodySpecs
      /\ Kept = buffer
  BY DEF AddToBuffer, Kept
<1>2. ASSUME NEW p \in Nat, Window(Kept, FormBytes(fs), p, q), Stands(fs, p, q)
      PROVE  Listens(fs, r)'
  <2>1. PICK s : s = FormBytes(fs)
    OBVIOUS
  <2>2. s \in Seq(Token)
    BY <2>1, FormLies
  <2>3. Window(buffer, s, p, q) /\ Window(b, s, q, r)
    BY <1>1, <1>2, <2>1
  <2>4. Window(buffer \o b, s, p, r)
    BY <2>2, <2>3, WindowTogether
  <2>5. rest' # <<>>
    <3>1. q \in Nat /\ r \in Nat /\ p <= q /\ q < r
      <4>1. /\ q \in Nat /\ r \in Nat /\ q <= r /\ (b = <<>> <=> q = r)
        BY <2>2, <2>3, WindowIs
      <4>2. p <= q
        BY <2>2, <2>3, WindowIs
      <4> QED
        BY <4>1, <4>2
    <3>2. buffer \o b = <<>> <=> p = r
      BY <2>2, <2>4, WindowIs
    <3> QED
      BY <1>1, <3>1, <3>2
  <2>6. Kept' = buffer \o b
    BY <1>1, <2>5 DEF Kept
  <2>7. Window(Kept, FormBytes(fs), p, r)'
    BY <2>1, <2>4, <2>6 DEF Window
  <2>8. Stands(fs, p, r)'
    <3>1. CASE AtBoundary(fs, p, q)
      <4>1. AtBoundary(fs, p, r)'
        BY <1>1, <2>5, <3>1 DEF AtBoundary, AllTold
      <4> QED
        BY <4>1 DEF Stands
    <3>2. CASE AtHeader(fs, p, q)
      <4>1. PICK k \in 1..Len(fs), n \in {2, 3}, spec \in FormPart :
              Header(fs[k], Spot(fs, k - 1), p, n, spec) /\ Told(fs, k, spec)
        BY <3>2, Zenon DEF AtHeader
      <4>2. Told(fs, k, spec)'
        BY <1>1, <4>1, ToldStays
      <4>3. state' = "StateHeader"
        BY <1>1, <3>2 DEF AtHeader
      <4>4. AtHeader(fs, p, r)'
        BY <2>5, <4>1, <4>2, <4>3, Zenon DEF AtHeader
      <4> QED
        BY <4>4 DEF Stands
    <3>3. CASE AtData(fs, p, q)
      <4>1. PICK k \in 1..Len(fs), d \in Nat, m \in Nat :
              /\ d = DataAt(fs[k], Spot(fs, k - 1)) /\ m = Len(fs[k].data)
              /\ state = DataState(fs[k])
              /\ d <= p /\ p <= d + m /\ Told(fs, k, InData(fs[k], d, p))
        BY <3>3, Zenon DEF AtData
      <4>2. Told(fs, k, InData(fs[k], d, p))'
        BY <1>1, <4>1, ToldStays
      <4>3. state' = DataState(fs[k])
        BY <1>1, <4>1
      <4>4. AtData(fs, p, r)'
        BY <2>5, <4>1, <4>2, <4>3, Zenon DEF AtData
      <4> QED
        BY <4>4 DEF Stands
    <3> QED
      BY <1>2, <3>1, <3>2, <3>3 DEF Stands
  <2> QED
    BY <2>7, <2>8 DEF Listens
<1>3. ASSUME state = "StateDone" /\ bodySpecs = fs PROVE Listens(fs, r)'
  BY <1>1, <1>3 DEF Listens
<1>4. ASSUME state = "StateNone" /\ PartsOf(fs, bodySpecs) PROVE Listens(fs, r)'
  <2>1. PartsOf(fs, bodySpecs')
    BY <1>1, <1>4
  <2> QED
    BY <1>1, <1>4, <2>1 DEF Listens, PartsOf
<1> QED
  BY <1>2, <1>3, <1>4, Zenon DEF Listens

(* Before the first piece.                                                 *)
LEMMA FirstListens ==
  ASSUME NEW fs \in Seq(FormPart), MimeInit
  PROVE  Listens(fs, 0) /\ Window(FormBytes(fs), FormBytes(fs), 0, Len(FormBytes(fs)))
<1>1. PICK s : s = FormBytes(fs)
  OBVIOUS
<1>2. s \in Seq(Token) /\ Len(s) \in Nat /\ Spot(fs, 0) = 0
  BY <1>1, FormLies
<1>3. Window(s, s, 0, Len(s)) /\ Window(<<>>, s, 0, 0)
  BY <1>2, WindowWhole, WindowNone
<1>4. state = "StateBoundary" /\ Kept = <<>> /\ rest = <<>> /\ bodySpecs = <<>>
  BY DEF MimeInit, Kept
<1>5. AllTold(fs, 0)
  BY <1>4 DEF AllTold
<1>6. B \in Nat /\ 0 < 0 + B + 2 /\ 0 \in 0..Len(fs)
  BY BoundaryIs
<1>7. AtBoundary(fs, 0, 0)
  BY <1>2, <1>4, <1>5, <1>6, Zenon DEF AtBoundary
<1>8. Window(Kept, FormBytes(fs), 0, 0)
  BY <1>1, <1>3, <1>4
<1>9. Listens(fs, 0)
  BY <1>7, <1>8 DEF Stands, Listens
<1> QED
  BY <1>1, <1>3, <1>9

LEMMA ListensStays ==
  ASSUME NEW fs, NEW q, Listens(fs, q), UNCHANGED mimeVars
  PROVE  Listens(fs, q)'
<1>1. /\ state' = state /\ buffer' = buffer /\ rest' = rest /\ bodySpecs' = bodySpecs
  BY DEF mimeVars
<1>2. Kept' = Kept
  BY <1>1, Zenon DEF Kept
<1>3. ASSUME NEW p \in Nat, Window(Kept, FormBytes(fs), p, q), Stands(fs, p, q)
      PROVE  Listens(fs, q)'
  <2>1. Window(Kept, FormBytes(fs), p, q)'
    BY <1>2, <1>3 DEF Window
  <2>2. AtBoundary(fs, p, q) => AtBoundary(fs, p, q)'
    BY <1>1 DEF AtBoundary, AllTold
  <2>3. AtHeader(fs, p, q) => AtHeader(fs, p, q)'
    BY <1>1, ToldStays, Zenon DEF AtHeader
  <2>4. AtData(fs, p, q) => AtData(fs, p, q)'
    BY <1>1, ToldStays, Zenon DEF AtData
  <2>5. Stands(fs, p, q)'
    BY <1>3, <2>2, <2>3, <2>4 DEF Stands
  <2> QED
    BY <2>1, <2>5 DEF Listens
<1>4. ASSUME state = "StateDone" /\ bodySpecs = fs PROVE Listens(fs, q)'
  BY <1>1, <1>4 DEF Listens
<1>5. ASSUME state = "StateNone" /\ PartsOf(fs, bodySpecs) PROVE Listens(fs, q)'
  BY <1>1, <1>5 DEF Listens, PartsOf
<1> QED
  BY <1>3, <1>4, <1>5, Zenon DEF Listens

LEMMA NoTurn == rest = <<>> => ~MimeTurn
<1> SUFFICES ASSUME rest = <<>>, MimeTurn PROVE FALSE
  OBVIOUS
<1>1. Len(rest) = 0 /\ Eols = {}
  BY DEF Eols
<1>2. ~LastBoundary /\ ~BoundaryOfPart
  BY <1>1, BoundaryIs DEF LastBoundary, BoundaryOfPart, B
<1>3. ~BlankLine
  BY <1>1 DEF BlankLine, IsEol
<1> QED
  BY <1>1, <1>2, <1>3, Zenon
     DEF MimeTurn, Ignored, BoundaryUnfinished, HeaderUnfinished, HeaderLine, DataTurn, FileWriteFails

-----------------------------------------------------------------------------
(* How the body comes.                                                     *)

Fed ==
  /\ contentType \in {"plain", "multipart"} /\ params \in {"none", contentType}
  /\ from = "http" => params = contentType
  /\ step = "body" => from = "http" /\ size = Len(unsent)
  /\ step = "xstdin" => ParamsRead /\ size \in Nat
  /\ ParamsRead => params = contentType
  /\ step = "ran" => unsent = <<>>

Rests == UNCHANGED <<unsent, stdin, mimeVars>>
Takes(j) == PutStdinData(SubSeq(unsent, 1, j)) /\ unsent' = From(unsent, j + 1)

LEMMA PieceOf ==
  ASSUME NEW s \in Seq(Token), NEW p, NEW q, NEW w, Window(w, s, p, q), NEW j \in 1..Len(w)
  PROVE  /\ Window(SubSeq(w, 1, j), s, p, p + j) /\ Window(From(w, j + 1), s, p + j, q)
         /\ SubSeq(w, 1, j) # <<>> /\ Len(SubSeq(w, 1, j)) = j
         /\ From(w, j + 1) \in Seq(Token) /\ Len(From(w, j + 1)) = Len(w) - j
<1>1. p \in Nat /\ q \in Nat /\ Len(w) \in Nat /\ Len(w) = q - p
  BY WindowIs
<1>2. j \in Nat /\ j <= Len(w) /\ 0 \in Nat /\ 0 <= j /\ 0 + 1 = 1 /\ p + 0 = p
  BY <1>1
<1>3. Window(SubSeq(w, 0 + 1, j), s, p + 0, p + j)
  BY <1>2, WindowPart
<1>4. PICK v : v = SubSeq(w, 1, j)
  OBVIOUS
<1>5. PICK u : u = From(w, j + 1)
  OBVIOUS
<1>6. Window(v, s, p, p + j)
  BY <1>2, <1>3, <1>4
<1>7. Window(u, s, p + j, q)
  BY <1>2, <1>5, WindowFrom
<1>8. Len(v) = (p + j) - p /\ Len(u) = q - (p + j) /\ u \in Seq(Token)
  BY <1>6, <1>7, Zenon DEF Window
<1>9. Len(v) = j /\ Len(u) = Len(w) - j
  BY <1>1, <1>2, <1>8
<1>10. v # <<>>
  BY <1>9
<1> QED
  BY <1>4, <1>5, <1>6, <1>7, <1>8, <1>9, <1>10

LEMMA PiecesTaken ==
  ASSUME unsent \in Seq(Token), NEW n \in Nat, NEW b \in Pieces(n), PutStdinData(b), Reads(b)
  PROVE  \E j \in 1..Len(unsent) :
           /\ Takes(j) /\ j <= n /\ Len(b) = j
           /\ unsent' \in Seq(Token) /\ Len(unsent') = Len(unsent) - j
<1>1. Len(unsent) \in Nat
  OBVIOUS
<1>2. PICK j \in 1..(IF n < Len(unsent) THEN n ELSE Len(unsent)) : b = SubSeq(unsent, 1, j)
  BY Zenon DEF Pieces
<1>3. j \in 1..Len(unsent) /\ j <= n
  BY <1>1, <1>2
<1>4. Window(unsent, unsent, 0, Len(unsent))
  BY WindowWhole
<1>5. Len(b) = j /\ From(unsent, j + 1) \in Seq(Token) /\ Len(From(unsent, j + 1)) = Len(unsent) - j
  BY <1>2, <1>3, <1>4, PieceOf
<1>6. unsent' = From(unsent, j + 1)
  BY <1>5 DEF Reads
<1> QED
  BY <1>2, <1>3, <1>5, <1>6 DEF Takes

LEMMA Feeds ==
  ASSUME Fed, unsent \in Seq(Token), BodyStep \/ ReadFails
  PROVE  /\ Fed' /\ contentType' = contentType
         /\ Rests \/ (params = contentType /\ \E j \in 1..Len(unsent) : Takes(j))
<1>1. Len(unsent) \in Nat
  OBVIOUS
<1>2. CASE BeginRecord
  BY <1>2 DEF BeginRecord, AtRecord, Fed, ParamsRead, Rests
<1>3. CASE ParamsRecord
  BY <1>3 DEF ParamsRecord, AtRecord, Fed, ParamsRead, Rests
<1>4. CASE OtherRecord
  BY <1>4 DEF OtherRecord, AtRecord, Fed, ParamsRead, Rests
<1>5. CASE StdinRecord
  <2>1. PICK b \in Pieces(Len(unsent)) : PutStdinData(b) /\ Reads(b)
    BY <1>5 DEF StdinRecord
  <2>2. \E j \in 1..Len(unsent) : Takes(j)
    BY <1>1, <2>1, PiecesTaken
  <2> QED
    BY <1>5, <2>2 DEF StdinRecord, AtRecord, Fed, ParamsRead
<1>6. CASE EndOfStdin
  BY <1>6 DEF EndOfStdin, AtRecord, Fed, ParamsRead, requestVars, Rests
<1>7. CASE XStdinRecord
  <2>1. size' \in Nat
    BY <1>1, <1>7 DEF XStdinRecord
  <2> QED
    BY <1>7, <2>1 DEF XStdinRecord, AtRecord, Fed, ParamsRead, requestVars, Rests
<1>8. CASE ReadXStdin
  <2>1. step = "xstdin" /\ ParamsRead /\ size \in Nat /\ params = contentType
    BY <1>8 DEF ReadXStdin, Fed
  <2>2. PICK b \in Pieces(size) :
          /\ PutStdinData(b) /\ Reads(b) /\ size' = size - Len(b)
          /\ IF Len(b) = size
             THEN lastRecord' = "stdin" /\ step' = "record"
             ELSE UNCHANGED <<step, lastRecord>>
    BY <1>8, Zenon DEF ReadXStdin
  <2>3. PICK j \in 1..Len(unsent) : Takes(j) /\ j <= size /\ Len(b) = j
    BY <2>1, <2>2, PiecesTaken
  <2>4. size' \in Nat
    BY <2>1, <2>2, <2>3
  <2>5. UNCHANGED <<from, contentType, params>>
    BY <1>8 DEF ReadXStdin
  <2>6. (step' = "record" /\ lastRecord' = "stdin") \/ (step' = step /\ lastRecord' = lastRecord)
    BY <2>2
  <2>7. Fed'
    BY <2>1, <2>4, <2>5, <2>6 DEF Fed, ParamsRead
  <2> QED
    BY <2>1, <2>3, <2>5, <2>7
<1>9. CASE ReadBody
  <2>1. from = "http" /\ step = "body" /\ size = Len(unsent) /\ params = contentType
    BY <1>9 DEF ReadBody, Fed
  <2>2. UNCHANGED <<from, contentType, params, lastRecord>>
    BY <1>9 DEF ReadBody, requestVars
  <2>3. CASE size = 0 /\ step' = "ran" /\ UNCHANGED <<unsent, size, stdin, mimes, mimeVars>>
    <3>1. unsent = <<>>
      <4>1. Len(unsent) = 0
        BY <2>1, <2>3
      <4> QED
        BY <4>1, EmptySeq
    <3> QED
      BY <2>1, <2>2, <2>3, <3>1 DEF Fed, ParamsRead, Rests
  <2>4. CASE /\ \E b \in Pieces(size) : PutStdinData(b) /\ Reads(b) /\ size' = size - Len(b)
             /\ UNCHANGED step
    <3>1. PICK b \in Pieces(size) : PutStdinData(b) /\ Reads(b) /\ size' = size - Len(b)
      BY <2>4
    <3>2. PICK j \in 1..Len(unsent) :
            Takes(j) /\ Len(b) = j /\ Len(unsent') = Len(unsent) - j
      <4>1. size \in Nat
        BY <1>1, <2>1
      <4> QED
        BY <3>1, <4>1, PiecesTaken
    <3>3. size' = Len(unsent')
      <4>1. size' = size - Len(b)
        BY <3>1
      <4> QED
        BY <2>1, <3>2, <4>1
    <3>4. Fed'
      BY <2>1, <2>2, <2>4, <3>3 DEF Fed, ParamsRead
    <3> QED
      BY <2>1, <2>2, <3>2, <3>4
  <2> QED
    BY <1>9, <2>3, <2>4 DEF ReadBody
<1>10. CASE ReadFails
  BY <1>10 DEF ReadFails, Fed, ParamsRead, requestVars, Rests
<1> QED
  BY <1>2, <1>3, <1>4, <1>5, <1>6, <1>7, <1>8, <1>9, <1>10 DEF BodyStep, RecordStep

-----------------------------------------------------------------------------
(* A body on its way: q tokens of what was sent have been given on.        *)

FormOnItsWay(fs, q) ==
  /\ form = fs /\ \A i \in DOMAIN fs : ~Delimits(fs[i].data)
  /\ stdin = <<>> /\ Listens(fs, q)
  /\ Window(unsent, FormBytes(fs), q, Len(FormBytes(fs)))

PlainOnItsWay(s, q) ==
  /\ form[1].data = s /\ rest = <<>> /\ bodySpecs = <<>>
  /\ Window(stdin, s, 0, q) /\ Window(unsent, s, q, Len(s))

OnItsWay ==
  /\ Fed
  /\ contentType = "multipart" => \E fs \in Seq(FormPart), q \in Nat : FormOnItsWay(fs, q)
  /\ contentType # "multipart" => \E s \in Seq(Token), q \in Nat : PlainOnItsWay(s, q)

LEMMA OnItsWayIsAsSent == OnItsWay => BodyAsSent
<1> SUFFICES ASSUME OnItsWay PROVE BodyAsSent
  OBVIOUS
<1>1. step = "ran" => unsent = <<>>
  BY DEF OnItsWay, Fed
<1>2. CASE contentType = "multipart"
  <2>1. PICK fs \in Seq(FormPart), q \in Nat : FormOnItsWay(fs, q)
    BY <1>2 DEF OnItsWay
  <2>2. PICK s : s = FormBytes(fs)
    OBVIOUS
  <2>3. form = fs /\ stdin = <<>> /\ Listens(fs, q) /\ Window(unsent, s, q, Len(s))
    BY <2>1, <2>2 DEF FormOnItsWay
  <2>4. PartsOf(fs, bodySpecs)
    BY <2>3, ListensHasParts
  <2>5. ASSUME step = "ran", rest = <<>>, state # "StateNone"
        PROVE  state = "StateDone" /\ bodySpecs = fs
    <3>1. s \in Seq(Token)
      BY <2>2, FormLies
    <3>2. unsent = <<>> <=> q = Len(s)
      BY <2>3, <3>1, WindowIs
    <3>3. Listens(fs, Len(s))
      BY <1>1, <2>3, <2>5, <3>2, Zenon
    <3>4. state = "StateNone" \/ (state = "StateDone" /\ bodySpecs = fs)
      BY <2>2, <2>5, <3>3, WholeFormHeard
    <3> QED
      BY <2>5, <3>4
  <2> QED
    BY <1>2, <2>3, <2>4, <2>5 DEF BodyAsSent
<1>3. CASE contentType # "multipart"
  <2>1. PICK s \in Seq(Token), q \in Nat : PlainOnItsWay(s, q)
    BY <1>3 DEF OnItsWay
  <2>2. /\ form[1].data = s /\ bodySpecs = <<>>
        /\ Window(stdin, s, 0, q) /\ Window(unsent, s, q, Len(s))
    BY <2>1 DEF PlainOnItsWay
  <2>3. /\ q <= Len(s) /\ stdin \in Seq(Token) /\ Len(stdin) = q - 0 /\ DOMAIN stdin = 1..Len(stdin)
        /\ \A i \in 1..Len(stdin) : stdin[i] = s[0 + i]
    BY <2>2, WindowIs
  <2>4. Len(stdin) = q /\ \A i \in 1..Len(stdin) : stdin[i] = s[i]
    <3>1. q - 0 = q /\ \A i \in 1..Len(stdin) : 0 + i = i
      BY <2>3
    <3> QED
      BY <2>3, <3>1
  <2>5. IsPrefix(stdin, s)
    <3>1. Begins(stdin, s)
      BY <2>3, <2>4, Zenon DEF Begins
    <3> QED
      BY <2>3, <3>1, BeginsIsPrefix, Zenon
  <2>6. ASSUME step = "ran" PROVE stdin = s
    <3>1. unsent = <<>> <=> q = Len(s)
      BY <2>2, WindowIs
    <3>2. Len(stdin) = Len(s)
      BY <1>1, <2>4, <2>6, <3>1
    <3> QED
      BY <2>3, <2>4, <3>2, SeqEqual
  <2> QED
    BY <1>3, <2>2, <2>5, <2>6 DEF BodyAsSent
<1> QED
  BY <1>2, <1>3

LEMMA OnItsWayInit == Init => OnItsWay
<1> SUFFICES ASSUME Init PROVE OnItsWay
  OBVIOUS
<1>1. /\ MimeInit /\ from \in {"fastcgi", "http", "websocket"}
      /\ contentType \in (IF from = "websocket" THEN {"plain"} ELSE {"plain", "multipart"})
      /\ form \in (IF contentType = "multipart" THEN Forms
                   ELSE IF from = "websocket" THEN {<<NewSpec>>}
                   ELSE {<<[NewSpec EXCEPT !.data = b]>> : b \in PlainBodies})
      /\ unsent = (IF contentType = "multipart" THEN FormBytes(form) ELSE form[1].data)
      /\ params = (IF from = "http" THEN contentType ELSE "none")
      /\ lastRecord = "none"
      /\ step = (IF from = "fastcgi" THEN "record" ELSE IF from = "http" THEN "body" ELSE "closed")
      /\ size = (IF from = "http" THEN Len(unsent) ELSE 0)
      /\ stdin = <<>>
  BY Zenon DEF Init
<1>2. contentType \in {"plain", "multipart"}
  BY <1>1
<1>3. Fed
  BY <1>1, <1>2 DEF Fed, ParamsRead
<1>4. ASSUME contentType = "multipart"
      PROVE  \E fs \in Seq(FormPart), q \in Nat : FormOnItsWay(fs, q)
  <2>1. form \in Forms /\ unsent = FormBytes(form)
    BY <1>1, <1>4
  <2>2. PICK fs \in Seq(FormPart) : form = fs /\ \A i \in DOMAIN fs : ~Delimits(fs[i].data)
    BY <2>1, FormsAssumption
  <2>3. Listens(fs, 0) /\ Window(FormBytes(fs), FormBytes(fs), 0, Len(FormBytes(fs)))
    BY <1>1, FirstListens
  <2>4. unsent = FormBytes(fs)
    BY <2>1, <2>2
  <2>5. FormOnItsWay(fs, 0)
    BY <1>1, <2>2, <2>3, <2>4, Zenon DEF FormOnItsWay
  <2> QED
    BY <2>5
<1>5. ASSUME contentType # "multipart"
      PROVE  \E s \in Seq(Token), q \in Nat : PlainOnItsWay(s, q)
  <2>1. form[1].data \in Seq(STRING)
    <3>1. CASE from = "websocket"
      <4>1. form = <<NewSpec>>
        BY <1>1, <1>5, <3>1
      <4>2. form[1].data = <<>>
        BY <4>1 DEF NewSpec
      <4>3. <<>> \in Seq(STRING)
        OBVIOUS
      <4> QED
        BY <4>2, <4>3
    <3>2. CASE from # "websocket"
      <4>1. PICK b \in PlainBodies : form = <<[NewSpec EXCEPT !.data = b]>>
        BY <1>1, <1>5, <3>2
      <4>2. form[1].data = b
        BY <4>1 DEF NewSpec
      <4> QED
        BY <4>2, PlainBodiesAssumption
    <3> QED
      BY <3>1, <3>2
  <2>2. PICK s \in Seq(Token) : s = form[1].data
    BY <2>1, TextIsTokens
  <2>3. unsent = s /\ stdin = <<>> /\ rest = <<>> /\ bodySpecs = <<>>
    BY <1>1, <1>5, <2>2 DEF MimeInit
  <2>4. Window(<<>>, s, 0, 0) /\ Window(s, s, 0, Len(s))
    BY WindowNone, WindowWhole
  <2>5. PlainOnItsWay(s, 0)
    BY <2>2, <2>3, <2>4 DEF PlainOnItsWay
  <2> QED
    BY <2>5
<1> QED
  BY <1>3, <1>4, <1>5 DEF OnItsWay

LEMMA OnItsWayStays ==
  ASSUME OnItsWay, UNCHANGED <<mimeVars, bodyVars, form>>
  PROVE  OnItsWay'
<1>1. /\ UNCHANGED <<from, contentType, params, lastRecord, unsent, step, size, stdin, mimes, form>>
      /\ UNCHANGED mimeVars /\ rest' = rest /\ bodySpecs' = bodySpecs
  BY DEF bodyVars, requestVars, mimeVars
<1>2. Fed'
  BY <1>1 DEF OnItsWay, Fed, ParamsRead
<1>3. ASSUME NEW fs \in Seq(FormPart), NEW q \in Nat, FormOnItsWay(fs, q)
      PROVE  FormOnItsWay(fs, q)'
  <2>1. Listens(fs, q)'
    BY <1>1, <1>3, ListensStays DEF FormOnItsWay
  <2> QED
    BY <1>1, <1>3, <2>1 DEF FormOnItsWay, Window
<1>4. ASSUME NEW s \in Seq(Token), NEW q \in Nat, PlainOnItsWay(s, q)
      PROVE  PlainOnItsWay(s, q)'
  BY <1>1, <1>4 DEF PlainOnItsWay, Window
<1> QED
  BY <1>1, <1>2, <1>3, <1>4 DEF OnItsWay

LEMMA TurnOnItsWay ==
  ASSUME OnItsWay, MimeTurn, UNCHANGED <<bodyVars, form>>
  PROVE  OnItsWay'
<1>1. UNCHANGED <<from, contentType, params, lastRecord, unsent, step, size, stdin, mimes, form>>
  BY DEF bodyVars, requestVars
<1>2. Fed'
  BY <1>1 DEF OnItsWay, Fed, ParamsRead
<1>3. contentType = "multipart"
  <2> SUFFICES ASSUME contentType # "multipart" PROVE FALSE
    OBVIOUS
  <2>1. rest = <<>>
    BY DEF OnItsWay, PlainOnItsWay
  <2> QED
    BY <2>1, NoTurn
<1>4. PICK fs \in Seq(FormPart), q \in Nat : FormOnItsWay(fs, q)
  BY <1>3 DEF OnItsWay
<1>5. Listens(fs, q)'
  BY <1>4, TurnListens DEF FormOnItsWay
<1>6. FormOnItsWay(fs, q)'
  BY <1>1, <1>4, <1>5 DEF FormOnItsWay, Window
<1> QED
  BY <1>1, <1>2, <1>3, <1>6 DEF OnItsWay

LEMMA PieceOnItsWay ==
  ASSUME OnItsWay, BodyStep \/ ReadFails, UNCHANGED form
  PROVE  OnItsWay'
<1>1. unsent \in Seq(Token)
  BY DEF OnItsWay, FormOnItsWay, PlainOnItsWay, Window
<1>2. /\ Fed' /\ contentType' = contentType
      /\ Rests \/ (params = contentType /\ \E j \in 1..Len(unsent) : Takes(j))
  BY <1>1, Feeds DEF OnItsWay
<1>3. CASE contentType = "multipart"
  <2>1. PICK fs \in Seq(FormPart), q \in Nat : FormOnItsWay(fs, q)
    BY <1>3 DEF OnItsWay
  <2>2. \E r \in Nat : FormOnItsWay(fs, r)'
    <3>1. CASE Rests
      <4>1. Listens(fs, q)'
        BY <2>1, <3>1, ListensStays DEF FormOnItsWay, Rests
      <4>2. FormOnItsWay(fs, q)'
        BY <2>1, <3>1, <4>1 DEF FormOnItsWay, Window, Rests
      <4> QED
        BY <4>2
    <3>2. ASSUME params = contentType, NEW j \in 1..Len(unsent), Takes(j)
          PROVE  \E r \in Nat : FormOnItsWay(fs, r)'
      <4>1. PICK s : s = FormBytes(fs)
        OBVIOUS
      <4>2. s \in Seq(Token) /\ Window(unsent, s, q, Len(s)) /\ Listens(fs, q)
        BY <2>1, <4>1, FormLies DEF FormOnItsWay
      <4>3. PICK b, u : b = SubSeq(unsent, 1, j) /\ u = From(unsent, j + 1)
        OBVIOUS
      <4>4. PICK r \in Nat : r = q + j
        BY <1>1
      <4>5. Window(b, s, q, r) /\ Window(u, s, r, Len(s)) /\ b # <<>>
        <5>1. /\ Window(SubSeq(unsent, 1, j), s, q, q + j)
              /\ Window(From(unsent, j + 1), s, q + j, Len(s))
          BY <4>2, PieceOf
        <5>2. Len(SubSeq(unsent, 1, j)) = j
          BY <4>2, PieceOf
        <5>3. b # <<>>
          BY <4>3, <5>2
        <5> QED
          BY <4>3, <4>4, <5>1, <5>3
      <4>6. rest = <<>> /\ AddToBuffer(b) /\ stdin' = stdin /\ unsent' = u
        BY <1>3, <3>2, <4>3 DEF Takes, PutStdinData
      <4>7. Listens(fs, r)'
        BY <4>1, <4>2, <4>5, <4>6, PieceListens
      <4>8. Window(unsent, s, r, Len(s))'
        BY <4>5, <4>6 DEF Window
      <4>9. FormOnItsWay(fs, r)'
        BY <2>1, <4>1, <4>6, <4>7, <4>8 DEF FormOnItsWay
      <4> QED
        BY <4>9
    <3> QED
      BY <1>2, <3>1, <3>2
  <2> QED
    BY <1>2, <1>3, <2>2 DEF OnItsWay
<1>4. CASE contentType # "multipart"
  <2>1. PICK s \in Seq(Token), q \in Nat : PlainOnItsWay(s, q)
    BY <1>4 DEF OnItsWay
  <2>2. \E r \in Nat : PlainOnItsWay(s, r)'
    <3>1. CASE Rests
      <4>1. PlainOnItsWay(s, q)'
        BY <2>1, <3>1 DEF PlainOnItsWay, Window, Rests, mimeVars
      <4> QED
        BY <4>1
    <3>2. ASSUME params = contentType, NEW j \in 1..Len(unsent), Takes(j)
          PROVE  \E r \in Nat : PlainOnItsWay(s, r)'
      <4>1. Window(stdin, s, 0, q) /\ Window(unsent, s, q, Len(s))
        BY <2>1 DEF PlainOnItsWay
      <4>2. PICK b, u : b = SubSeq(unsent, 1, j) /\ u = From(unsent, j + 1)
        OBVIOUS
      <4>3. PICK r \in Nat : r = q + j
        BY <1>1
      <4>4. Window(b, s, q, r) /\ Window(u, s, r, Len(s))
        <5>1. /\ Window(SubSeq(unsent, 1, j), s, q, q + j)
              /\ Window(From(unsent, j + 1), s, q + j, Len(s))
          BY <4>1, PieceOf
        <5> QED
          BY <4>2, <4>3, <5>1
      <4>5. stdin' = stdin \o b /\ UNCHANGED mimeVars /\ unsent' = u
        BY <1>4, <3>2, <4>2 DEF Takes, PutStdinData
      <4>6. Window(stdin \o b, s, 0, r)
        BY <4>1, <4>4, WindowTogether
      <4>7. Window(stdin, s, 0, r)' /\ Window(unsent, s, r, Len(s))'
        BY <4>4, <4>5, <4>6 DEF Window
      <4>8. PlainOnItsWay(s, r)'
        BY <2>1, <4>5, <4>7 DEF PlainOnItsWay, mimeVars
      <4> QED
        BY <4>8
    <3> QED
      BY <1>2, <3>1, <3>2
  <2> QED
    BY <1>2, <1>4, <2>2 DEF OnItsWay
<1> QED
  BY <1>3, <1>4

LEMMA OnItsWayStep == OnItsWay /\ [Next]_vars => OnItsWay'
<1> SUFFICES ASSUME OnItsWay, [Next]_vars PROVE OnItsWay'
  OBVIOUS
<1>1. CASE MimeTurn /\ UNCHANGED <<bodyVars, form, socketVars>>
  <2>1. UNCHANGED <<bodyVars, form>>
    BY <1>1
  <2> QED
    BY <1>1, <2>1, TurnOnItsWay
<1>2. CASE (BodyStep \/ ReadFails) /\ UNCHANGED <<form, socketVars>>
  <2>1. UNCHANGED form
    BY <1>2
  <2> QED
    BY <1>2, <2>1, PieceOnItsWay
<1>3. CASE UNCHANGED <<mimeVars, bodyVars, form>>
  BY <1>3, OnItsWayStays
<1>4. UNCHANGED vars => UNCHANGED <<mimeVars, bodyVars, form>>
  BY DEF vars
<1> QED
  BY <1>1, <1>2, <1>3, <1>4 DEF Next, Reading, Troubles

(* For any bodies and any forms with a boundary that does not delimit      *)
(* anything inside of their parts, and however the network and the records *)
(* cut them: what WebRequest sees is the body that was sent.               *)
THEOREM BodiesHeardAsSent == Spec => []BodyAsSent
<1>1. Spec => []OnItsWay
  BY OnItsWayInit, OnItsWayStep, PTL DEF Spec
<1> QED
  BY <1>1, OnItsWayIsAsSent, PTL

=============================================================================
