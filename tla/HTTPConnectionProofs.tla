------------------------ MODULE HTTPConnectionProofs ------------------------
(***************************************************************************)
(* Theorems about HTTPConnection, for any scripts of the client and any    *)
(* sizes: what goes out is framed and not left short, and what reaches a   *)
(* handler is what the client sent.                                        *)
(***************************************************************************)
EXTENDS HTTPConnection, DataLemmas, SequenceTheorems

Kinds == {"status", "header", "chunkedHeader", "body", "size", "chunk", "last"}
Items == Kinds \X Nat

-----------------------------------------------------------------------------
(* Lemmas about what was written.                                          *)

LEMMA NothingWritten == BodyBytes(<<>>) = 0
<1> DEFINE q == [i \in 1..Len(<<>>) |-> BytesIn(<<>>[i])]
<1>1. q \in Seq(Nat) /\ Len(q) = 0
  OBVIOUS
<1>2. Total(q) = 0
  <2> HIDE DEF q
  <2> QED
    BY <1>1, TotalEmpty
<1> QED
  BY <1>2 DEF BodyBytes

LEMMA BytesInItems ==
  ASSUME NEW out \in Seq(Items)
  PROVE  /\ [i \in 1..Len(out) |-> BytesIn(out[i])] \in Seq(Nat)
         /\ Len([i \in 1..Len(out) |-> BytesIn(out[i])]) = Len(out)
<1>1. \A i \in 1..Len(out) : BytesIn(out[i]) \in Nat
  BY DEF BytesIn, Items
<1>2. Len(out) \in Nat
  OBVIOUS
<1> QED
  BY <1>1, <1>2

LEMMA BytesTyped ==
  ASSUME NEW out \in Seq(Items)
  PROVE  BodyBytes(out) \in Nat
BY BytesInItems, TotalType DEF BodyBytes

(* The beginning of what was written has no more bytes of the body, and    *)
(* one item more adds its own.                                             *)
LEMMA BytesOfPart ==
  ASSUME NEW p \in Seq(Items), NEW out \in Seq(Items), Begins(p, out)
  PROVE  /\ BodyBytes(p) <= BodyBytes(out)
         /\ Len(out) = Len(p) + 1 =>
              BodyBytes(out) = BodyBytes(p) + BytesIn(out[Len(out)])
<1> DEFINE P == [i \in 1..Len(p) |-> BytesIn(p[i])]
           Q == [i \in 1..Len(out) |-> BytesIn(out[i])]
<1>1. Len(p) \in Nat /\ Len(out) \in Nat /\ Len(p) <= Len(out)
  BY DEF Begins
<1>2. P \in Seq(Nat) /\ Q \in Seq(Nat) /\ Len(P) = Len(p) /\ Len(Q) = Len(out)
  BY BytesInItems
<1>3. \A i \in 1..Len(p) : P[i] = Q[i]
  BY <1>1 DEF Begins
<1>4. Begins(P, Q)
  <2> HIDE DEF P, Q
  <2> QED
    BY <1>1, <1>2, <1>3 DEF Begins
<1>5. Len(out) = Len(p) + 1 => Q[Len(out)] = BytesIn(out[Len(out)])
  BY <1>1
<1>6. BodyBytes(p) = Total(P) /\ BodyBytes(out) = Total(Q)
  BY DEF BodyBytes
<1> HIDE DEF P, Q
<1> QED
  BY <1>2, <1>4, <1>5, <1>6, TotalOfPart

LEMMA OneMoreItem ==
  ASSUME NEW out \in Seq(Items), NEW x \in Items
  PROVE  /\ Append(out, x) \in Seq(Items)
         /\ Len(Append(out, x)) = Len(out) + 1
         /\ \A i \in 1..Len(out) : Append(out, x)[i] = out[i]
         /\ Append(out, x)[Len(out) + 1] = x
         /\ Begins(out, Append(out, x))
         /\ BodyBytes(Append(out, x)) = BodyBytes(out) + BytesIn(x)
<1> DEFINE q == Append(out, x)
<1>1. q \in Seq(Items) /\ Len(q) = Len(out) + 1 /\ Len(out) \in Nat
  OBVIOUS
<1>2. (\A i \in 1..Len(out) : q[i] = out[i]) /\ q[Len(out) + 1] = x
  OBVIOUS
<1> HIDE DEF q
<1>3. Begins(out, q)
  BY <1>1, <1>2 DEF Begins
<1>4. BodyBytes(q) = BodyBytes(out) + BytesIn(x)
  BY <1>1, <1>2, <1>3, BytesOfPart
<1> QED
  BY <1>1, <1>2, <1>3, <1>4 DEF q

(* Framed, told by the place of the header, which is the second.           *)
HeaderKinds == {"header", "chunkedHeader"}

InPlace(out) ==
  \A i \in 1..Len(out) :
    /\ out[i][1] = "status" <=> i = 1
    /\ out[i][1] \in HeaderKinds <=> i = 2

PlainFrame(out) ==
  Len(out) >= 2 /\ out[2][1] = "header" =>
    /\ \A i \in 1..Len(out) : out[i][1] \in {"status", "header", "body"}
    /\ BodyBytes(out) <= out[2][2]

ChunkedFrame(out) ==
  Len(out) >= 2 /\ out[2][1] = "chunkedHeader" =>
    \A i \in 1..Len(out) :
      /\ out[i][1] = "chunk" <=> i > 1 /\ out[i - 1][1] = "size"
      /\ out[i][1] = "chunk" => out[i][2] = out[i - 1][2]
      /\ out[i][1] = "last" => i = Len(out)

Response(out) == InPlace(out) /\ PlainFrame(out) /\ ChunkedFrame(out)

Ended(out) ==
  /\ Len(out) >= 2
  /\ \/ out[2][1] = "chunkedHeader" /\ \E i \in 1..Len(out) : out[i][1] = "last"
     \/ out[2][1] = "header" /\ BodyBytes(out) >= out[2][2]

LEMMA HeaderIsSecond ==
  ASSUME NEW out \in Seq(Items), InPlace(out), NEW kind \in HeaderKinds
  PROVE  /\ kind \in KindsIn(out) <=> Len(out) >= 2 /\ out[2][1] = kind
         /\ kind \in KindsIn(out) => NumberOf(out, kind) = out[2][2]
<1>1. Len(out) \in Nat
  OBVIOUS
<1>2. \A i \in 1..Len(out) : out[i][1] = kind => i = 2
  BY DEF InPlace
<1>3. kind \in KindsIn(out) <=> \E i \in 1..Len(out) : out[i][1] = kind
  BY DEF KindsIn
<1>4. kind \in KindsIn(out) <=> Len(out) >= 2 /\ out[2][1] = kind
  BY <1>1, <1>2, <1>3
<1>5. ASSUME kind \in KindsIn(out)
      PROVE  NumberOf(out, kind) = out[2][2]
  <2>1. (CHOOSE i \in 1..Len(out) : out[i][1] = kind) = 2
    BY <1>1, <1>2, <1>4, <1>5
  <2> QED
    BY <2>1 DEF NumberOf
<1> QED
  BY <1>4, <1>5

LEMMA ResponseFramed ==
  ASSUME NEW out \in Seq(Items), Response(out)
  PROVE  Framed(out)
<1>1. InPlace(out) /\ PlainFrame(out) /\ ChunkedFrame(out)
  BY DEF Response
<1>2. KindsIn(out) = {out[i][1] : i \in 1..Len(out)}
  BY DEF KindsIn
<1>3. ASSUME "header" \in KindsIn(out)
      PROVE  /\ KindsIn(out) \subseteq {"status", "header", "body"}
             /\ BodyBytes(out) <= NumberOf(out, "header")
  <2>1. "header" \in HeaderKinds
    BY DEF HeaderKinds
  <2>2. Len(out) >= 2 /\ out[2][1] = "header" /\ NumberOf(out, "header") = out[2][2]
    BY <1>1, <1>3, <2>1, HeaderIsSecond
  <2> QED
    BY <1>1, <1>2, <2>2 DEF PlainFrame
<1>4. ASSUME "chunkedHeader" \in KindsIn(out), NEW i \in 1..Len(out)
      PROVE  /\ out[i][1] = "chunk" <=> i > 1 /\ out[i - 1][1] = "size"
             /\ out[i][1] = "chunk" => out[i][2] = out[i - 1][2]
             /\ out[i][1] = "last" => i = Len(out)
  <2>1. "chunkedHeader" \in HeaderKinds
    BY DEF HeaderKinds
  <2>2. Len(out) >= 2 /\ out[2][1] = "chunkedHeader"
    BY <1>1, <1>4, <2>1, HeaderIsSecond
  <2> QED
    BY <1>1, <2>2 DEF ChunkedFrame
<1> QED
  BY <1>1, <1>3, <1>4 DEF Framed, InPlace, HeaderKinds

LEMMA EndedIsWhole ==
  ASSUME NEW out \in Seq(Items), Response(out)
  PROVE  Ended(out) <=> Whole(out)
<1>1. InPlace(out) /\ {"header", "chunkedHeader"} = HeaderKinds
  BY DEF Response, HeaderKinds
<1>2. "last" \in KindsIn(out) <=> \E i \in 1..Len(out) : out[i][1] = "last"
  BY DEF KindsIn
<1>3. "chunkedHeader" \in KindsIn(out) <=> Len(out) >= 2 /\ out[2][1] = "chunkedHeader"
  BY <1>1, HeaderIsSecond
<1>4. /\ "header" \in KindsIn(out) <=> Len(out) >= 2 /\ out[2][1] = "header"
      /\ "header" \in KindsIn(out) => NumberOf(out, "header") = out[2][2]
  BY <1>1, HeaderIsSecond
<1> QED
  BY <1>2, <1>3, <1>4 DEF Ended, Whole

(* The beginning of a response is the beginning of one.                    *)
LEMMA BeginningOfResponse ==
  ASSUME NEW p \in Seq(Items), NEW out \in Seq(Items), Begins(p, out), Response(out)
  PROVE  Response(p)
<1>1. /\ Len(p) \in Nat /\ Len(out) \in Nat /\ Len(p) <= Len(out)
      /\ \A i \in 1..Len(p) : p[i] = out[i]
  BY DEF Begins
<1>2. InPlace(out) /\ PlainFrame(out) /\ ChunkedFrame(out)
  BY DEF Response
<1>3. InPlace(p)
  BY <1>1, <1>2 DEF InPlace
<1>4. PlainFrame(p)
  <2> SUFFICES ASSUME Len(p) >= 2, p[2][1] = "header"
               PROVE  /\ \A i \in 1..Len(p) : p[i][1] \in {"status", "header", "body"}
                      /\ BodyBytes(p) <= p[2][2]
    BY DEF PlainFrame
  <2>1. Len(out) >= 2 /\ p[2] = out[2]
    BY <1>1
  <2>2. BodyBytes(p) <= BodyBytes(out) /\ BodyBytes(p) \in Nat /\ BodyBytes(out) \in Nat
    BY BytesOfPart, BytesTyped
  <2>3. /\ \A i \in 1..Len(out) : out[i][1] \in {"status", "header", "body"}
        /\ BodyBytes(out) <= out[2][2]
    BY <1>2, <2>1 DEF PlainFrame
  <2>4. out[2][2] \in Nat
    BY <1>1, <2>1 DEF Items
  <2>5. BodyBytes(p) <= p[2][2]
    BY <2>1, <2>2, <2>3, <2>4
  <2> QED
    BY <1>1, <2>3, <2>5
<1>5. ChunkedFrame(p)
  <2> SUFFICES ASSUME Len(p) >= 2, p[2][1] = "chunkedHeader", NEW i \in 1..Len(p)
               PROVE  /\ p[i][1] = "chunk" <=> i > 1 /\ p[i - 1][1] = "size"
                      /\ p[i][1] = "chunk" => p[i][2] = p[i - 1][2]
                      /\ p[i][1] = "last" => i = Len(p)
    BY DEF ChunkedFrame
  <2>1. Len(out) >= 2 /\ p[2] = out[2] /\ p[i] = out[i] /\ i \in 1..Len(out)
    BY <1>1
  <2>2. i > 1 => p[i - 1] = out[i - 1]
    BY <1>1
  <2>3. /\ out[i][1] = "chunk" <=> i > 1 /\ out[i - 1][1] = "size"
        /\ out[i][1] = "chunk" => out[i][2] = out[i - 1][2]
        /\ out[i][1] = "last" => i = Len(out)
    BY <1>2, <2>1 DEF ChunkedFrame
  <2> QED
    BY <1>1, <2>1, <2>2, <2>3
<1> QED
  BY <1>3, <1>4, <1>5 DEF Response

(* What is whole stays whole when more is written.                         *)
LEMMA StaysEnded ==
  ASSUME NEW p \in Seq(Items), NEW out \in Seq(Items), Begins(p, out), Ended(p)
  PROVE  Ended(out)
<1>1. /\ Len(p) \in Nat /\ Len(out) \in Nat /\ Len(p) <= Len(out)
      /\ \A i \in 1..Len(p) : p[i] = out[i]
  BY DEF Begins
<1>2. Len(p) >= 2 /\ Len(out) >= 2 /\ p[2] = out[2] /\ out[2][2] \in Nat
  BY <1>1 DEF Ended, Items
<1>3. BodyBytes(p) <= BodyBytes(out) /\ BodyBytes(p) \in Nat /\ BodyBytes(out) \in Nat
  BY BytesOfPart, BytesTyped
<1>4. CASE p[2][1] = "chunkedHeader"
  <2>1. PICK i \in 1..Len(p) : p[i][1] = "last"
    BY <1>4 DEF Ended
  <2>2. i \in 1..Len(out) /\ out[i] = p[i]
    BY <1>1
  <2> QED
    BY <1>2, <1>4, <2>1, <2>2 DEF Ended
<1>5. CASE p[2][1] = "header"
  <2>1. BodyBytes(p) >= p[2][2]
    BY <1>5 DEF Ended
  <2>2. BodyBytes(out) >= out[2][2]
    BY <1>2, <1>3, <2>1
  <2> QED
    BY <1>2, <1>5, <2>2 DEF Ended
<1> QED
  BY <1>4, <1>5 DEF Ended

-----------------------------------------------------------------------------
(* Lemmas about what a write adds.                                         *)

Fits(out, x) ==
  /\ x[1] \notin HeaderKinds \cup {"status"}
  /\ out[2][1] = "header" => x[1] = "body" /\ BodyBytes(out) + x[2] <= out[2][2]
  /\ out[2][1] = "chunkedHeader" =>
       /\ \A i \in 1..Len(out) : out[i][1] # "last"
       /\ x[1] = "chunk" <=> out[Len(out)][1] = "size"
       /\ x[1] = "chunk" => x[2] = out[Len(out)][2]

LEMMA ItemFits ==
  ASSUME NEW out \in Seq(Items), Response(out), Len(out) >= 2,
         NEW x \in Items, Fits(out, x)
  PROVE  Response(Append(out, x))
<1> DEFINE q == Append(out, x)
<1>1. /\ q \in Seq(Items) /\ Len(q) = Len(out) + 1 /\ q[Len(out) + 1] = x
      /\ \A i \in 1..Len(out) : q[i] = out[i]
      /\ BodyBytes(q) = BodyBytes(out) + BytesIn(x)
  BY OneMoreItem
<1>2. Len(out) \in Nat /\ q[2] = out[2]
  BY <1>1
<1> HIDE DEF q
<1>3. InPlace(out) /\ PlainFrame(out) /\ ChunkedFrame(out)
  BY DEF Response
<1>4. InPlace(q)
  BY <1>1, <1>2, <1>3 DEF InPlace, Fits
<1>5. PlainFrame(q)
  <2> SUFFICES ASSUME out[2][1] = "header"
               PROVE  /\ \A i \in 1..Len(q) : q[i][1] \in {"status", "header", "body"}
                      /\ BodyBytes(q) <= out[2][2]
    BY <1>2 DEF PlainFrame
  <2>1. x[1] = "body" /\ BodyBytes(out) + x[2] <= out[2][2] /\ BytesIn(x) = x[2]
    BY DEF Fits, BytesIn
  <2>2. \A i \in 1..Len(out) : out[i][1] \in {"status", "header", "body"}
    BY <1>3 DEF PlainFrame
  <2> QED
    BY <1>1, <1>2, <2>1, <2>2
<1>6. ChunkedFrame(q)
  <2> SUFFICES ASSUME out[2][1] = "chunkedHeader", NEW i \in 1..Len(q)
               PROVE  /\ q[i][1] = "chunk" <=> i > 1 /\ q[i - 1][1] = "size"
                      /\ q[i][1] = "chunk" => q[i][2] = q[i - 1][2]
                      /\ q[i][1] = "last" => i = Len(q)
    BY <1>2 DEF ChunkedFrame
  <2>1. CASE i = Len(q)
    <3>1. q[i] = x /\ q[i - 1] = out[Len(out)] /\ i > 1
      BY <1>1, <1>2, <2>1
    <3> QED
      BY <2>1, <3>1 DEF Fits
  <2>2. CASE i # Len(q)
    <3>1. i \in 1..Len(out) /\ q[i] = out[i] /\ (i > 1 => q[i - 1] = out[i - 1])
      BY <1>1, <1>2, <2>2
    <3>2. out[i][1] # "last"
      BY <3>1 DEF Fits
    <3>3. /\ out[i][1] = "chunk" <=> i > 1 /\ out[i - 1][1] = "size"
          /\ out[i][1] = "chunk" => out[i][2] = out[i - 1][2]
      BY <1>3, <3>1 DEF ChunkedFrame
    <3> QED
      BY <3>1, <3>2, <3>3
  <2> QED
    BY <2>1, <2>2
<1> QED
  BY <1>4, <1>5, <1>6 DEF Response, q

(* A response that has its header and may go on with a chunk.              *)
BetweenChunks(out) ==
  /\ Len(out) >= 2 /\ out[2][1] = "chunkedHeader"
  /\ \A i \in 1..Len(out) : out[i][1] # "last"
  /\ out[Len(out)][1] # "size"

LEMMA Begun ==
  ASSUME NEW code \in Nat, NEW hd \in Items, hd[1] \in HeaderKinds
  PROVE  LET out == << <<"status", code>>, hd>> IN
         /\ out \in Seq(Items) /\ Len(out) = 2 /\ out[2] = hd
         /\ Response(out) /\ BodyBytes(out) = 0
         /\ hd[1] = "chunkedHeader" => BetweenChunks(out)
<1> DEFINE st == <<"status", code>>
           out == <<st, hd>>
<1>1. st \in Items /\ st[1] = "status" /\ BytesIn(st) = 0 /\ BytesIn(hd) = 0
  BY DEF Items, Kinds, BytesIn, HeaderKinds
<1> HIDE DEF st
<1>2. out \in Seq(Items) /\ Len(out) = 2 /\ out[1] = st /\ out[2] = hd
  BY <1>1
<1>3. out = Append(Append(<<>>, st), hd)
  OBVIOUS
<1>4. <<>> \in Seq(Items) /\ Append(<<>>, st) \in Seq(Items)
  BY <1>1
<1>5. BodyBytes(out) = 0
  <2> DEFINE a == <<>>
             p == Append(a, st)
  <2>1. a \in Seq(Items) /\ p \in Seq(Items) /\ BodyBytes(a) = 0
    BY <1>4, NothingWritten
  <2> HIDE DEF a
  <2>2. BodyBytes(p) = BodyBytes(a) + BytesIn(st)
    BY <1>1, <2>1, OneMoreItem
  <2> HIDE DEF p
  <2>3. BodyBytes(Append(p, hd)) = BodyBytes(p) + BytesIn(hd)
    BY <2>1, OneMoreItem
  <2>4. BodyBytes(Append(p, hd)) = 0
    BY <1>1, <2>1, <2>2, <2>3
  <2>5. out = Append(p, hd)
    BY <1>3, Zenon DEF a, p
  <2> QED
    BY <2>4, <2>5, Zenon
<1> HIDE DEF out
<1>6. InPlace(out)
  BY <1>1, <1>2 DEF InPlace, HeaderKinds
<1>7. PlainFrame(out)
  BY <1>1, <1>2, <1>5 DEF PlainFrame, Items
<1>8. ChunkedFrame(out)
  BY <1>1, <1>2 DEF ChunkedFrame
<1>9. hd[1] = "chunkedHeader" => BetweenChunks(out)
  BY <1>1, <1>2 DEF BetweenChunks
<1> QED
  BY <1>2, <1>5, <1>6, <1>7, <1>8, <1>9 DEF Response, out, st

LEMMA BodyAdded ==
  ASSUME NEW out \in Seq(Items), Response(out), Len(out) >= 2, NEW n \in Nat,
         out[2][1] = "header", BodyBytes(out) + n <= out[2][2]
  PROVE  LET q == out \o << <<"body", n>> >> IN
         /\ q \in Seq(Items) /\ Len(q) >= 2 /\ q[2] = out[2] /\ Begins(out, q)
         /\ Response(q) /\ BodyBytes(q) = BodyBytes(out) + n
<1> DEFINE x == <<"body", n>>
           q == Append(out, x)
<1>1. x \in Items /\ x[1] = "body" /\ x[2] = n /\ BytesIn(x) = n
  BY DEF Items, Kinds, BytesIn
<1>2. out \o <<x>> = q
  BY <1>1, AppendIsConcat
<1> HIDE DEF x
<1>3. Fits(out, x)
  BY <1>1 DEF Fits, HeaderKinds
<1>4. Response(q)
  BY <1>1, <1>3, ItemFits
<1>5. /\ q \in Seq(Items) /\ Len(q) = Len(out) + 1 /\ Begins(out, q)
      /\ \A i \in 1..Len(out) : q[i] = out[i]
      /\ BodyBytes(q) = BodyBytes(out) + n
  BY <1>1, OneMoreItem
<1>6. Len(q) >= 2 /\ q[2] = out[2]
  BY <1>5
<1> HIDE DEF q
<1> QED
  BY <1>2, <1>4, <1>5, <1>6 DEF x

LEMMA BodyPartAdded ==
  ASSUME NEW out \in Seq(Items), Response(out), Len(out) >= 2, NEW n \in Nat,
         out[2][1] = "header", BodyBytes(out) + n <= out[2][2]
  PROVE  LET q == out \o Body(n) IN
         /\ q \in Seq(Items) /\ Len(q) >= 2 /\ q[2] = out[2]
         /\ Response(q) /\ BodyBytes(q) = BodyBytes(out) + n
<1>1. CASE n = 0
  <2>1. out \o Body(n) = out
    BY <1>1, ConcatEmptySeq DEF Body
  <2>2. BodyBytes(out) + n = BodyBytes(out)
    BY <1>1, BytesTyped
  <2> DEFINE q == out \o Body(n)
  <2>3. q = out
    BY <2>1
  <2> HIDE DEF q
  <2>4. q \in Seq(Items) /\ Len(q) >= 2 /\ q[2] = out[2] /\ Response(q)
    BY <2>3
  <2>5. BodyBytes(q) = BodyBytes(out) + n
    BY <2>2, <2>3
  <2> QED
    BY <2>4, <2>5 DEF q
<1>2. CASE n # 0
  <2>1. Body(n) = << <<"body", n>> >>
    BY <1>2 DEF Body
  <2> QED
    BY <2>1, BodyAdded
<1> QED
  BY <1>1, <1>2

LEMMA ChunkAdded ==
  ASSUME NEW out \in Seq(Items), Response(out), BetweenChunks(out), NEW n \in Nat
  PROVE  LET q == out \o << <<"size", n>>, <<"chunk", n>> >> IN
         q \in Seq(Items) /\ Begins(out, q) /\ Response(q) /\ BetweenChunks(q)
<1> DEFINE x == <<"size", n>>
           y == <<"chunk", n>>
           p == Append(out, x)
           q == Append(p, y)
<1>1. /\ x \in Items /\ x[1] = "size" /\ x[2] = n
      /\ y \in Items /\ y[1] = "chunk" /\ y[2] = n
  BY DEF Items, Kinds
<1>2. out \o <<x, y>> = q
  BY <1>1
<1> HIDE DEF x, y
<1>3. /\ p \in Seq(Items) /\ Len(p) = Len(out) + 1 /\ p[Len(out) + 1] = x
      /\ \A i \in 1..Len(out) : p[i] = out[i]
  BY <1>1, OneMoreItem
<1>4. Len(out) \in Nat /\ Len(out) >= 2 /\ Len(p) >= 2 /\ p[2] = out[2]
  BY <1>3 DEF BetweenChunks
<1> HIDE DEF p
<1>5. /\ q \in Seq(Items) /\ Len(q) = Len(p) + 1 /\ q[Len(p) + 1] = y
      /\ \A i \in 1..Len(p) : q[i] = p[i]
  BY <1>1, <1>3, OneMoreItem
<1>6. Len(q) >= 2 /\ q[2] = out[2]
  BY <1>3, <1>4, <1>5
<1> HIDE DEF q
<1>7. Response(p)
  <2>1. Fits(out, x)
    BY <1>1 DEF Fits, HeaderKinds, BetweenChunks
  <2> QED
    BY <1>1, <1>4, <2>1, ItemFits DEF p
<1>8. Response(q)
  <2>1. \A i \in 1..Len(p) : p[i][1] # "last"
    BY <1>1, <1>3, <1>4 DEF BetweenChunks
  <2>2. p[Len(p)] = x
    BY <1>3
  <2>3. Fits(p, y)
    BY <1>1, <1>4, <2>1, <2>2 DEF Fits, HeaderKinds, BetweenChunks
  <2> QED
    BY <1>1, <1>3, <1>4, <1>7, <2>3, ItemFits DEF q
<1>9. BetweenChunks(q)
  BY <1>1, <1>3, <1>4, <1>5, <1>6 DEF BetweenChunks
<1>10. Begins(out, q)
  BY <1>3, <1>4, <1>5 DEF Begins
<1> QED
  BY <1>2, <1>5, <1>8, <1>9, <1>10 DEF x, y

LEMMA LastAdded ==
  ASSUME NEW out \in Seq(Items), Response(out), BetweenChunks(out)
  PROVE  LET q == out \o << <<"last", 0>> >> IN
         q \in Seq(Items) /\ Begins(out, q) /\ Response(q) /\ Ended(q)
<1> DEFINE x == <<"last", 0>>
           q == Append(out, x)
<1>1. x \in Items /\ x[1] = "last"
  BY DEF Items, Kinds
<1>2. out \o <<x>> = q
  BY <1>1, AppendIsConcat
<1> HIDE DEF x
<1>3. Fits(out, x)
  BY <1>1 DEF Fits, HeaderKinds, BetweenChunks
<1>4. Response(q)
  BY <1>1, <1>3, ItemFits DEF BetweenChunks
<1>5. /\ q \in Seq(Items) /\ Len(q) = Len(out) + 1 /\ Begins(out, q)
      /\ \A i \in 1..Len(out) : q[i] = out[i]
      /\ q[Len(out) + 1] = x
  BY <1>1, OneMoreItem
<1> HIDE DEF q
<1>6. Ended(q)
  <2>1. Len(q) >= 2 /\ q[2] = out[2] /\ out[2][1] = "chunkedHeader"
    BY <1>5 DEF BetweenChunks
  <2>2. Len(q) \in 1..Len(q) /\ q[Len(q)][1] = "last"
    BY <1>1, <1>5, <2>1
  <2> QED
    BY <2>1, <2>2 DEF Ended
<1> QED
  BY <1>2, <1>4, <1>5, <1>6 DEF x

-----------------------------------------------------------------------------
(* The types of the variables.                                             *)

Connections ==
  [buffer : Seq(Tokens), offset : Nat, lastKey : HeaderTokens \cup {"none"},
   params : [line : BOOLEAN, keep : BOOLEAN, length : Nat],
   stdin : Seq(Tokens), wroteHeader : BOOLEAN]

Responses ==
  [style : Styles, left : Nat, bodyData : Nat,
   wroteHeaders : BOOLEAN, chunked : BOOLEAN, length : Nat,
   inFile : Nat, readable : BOOLEAN, lastRead : BOOLEAN]

ReadPCs == {"readHeaders", "waitHeaders", "scan", "readBody", "readSome", "waitBody"}

Typed ==
  /\ script \in Scripts /\ asked \in 1..Len(script)
  /\ unsent \in Seq(Tokens) /\ inbox \in Seq(Tokens)
  /\ gone \in {"no", "closed", "reset"}
  /\ conn \in Connections /\ response \in Responses
  /\ pc \in ReadPCs \cup {"run", "handler", "write", "closed", "trapped"}
  /\ need \in Nat /\ (pc \in {"readSome", "waitBody"} => need > 0)
  /\ pending \in Seq(Items) /\ ok \in BOOLEAN
  /\ next \in {"none", "pushed", "lastChunk", "completed", "close"}
  /\ outs \in Seq(Seq(Items)) /\ outs # <<>>

LEMMA ScriptTyped ==
  ASSUME Typed
  PROVE  \A k \in 1..Len(script) : script[k] \in Seq(Tokens)
BY ScriptsAssumption DEF Typed

LEMMA InitTyped == Init => Typed
<1> SUFFICES ASSUME Init PROVE Typed
  OBVIOUS
<1>1. /\ script \in Scripts /\ script \in Seq(Seq(Tokens)) /\ script # <<>>
      /\ asked = 1 /\ unsent = script[1]
  BY ScriptsAssumption DEF Init
<1>2. asked \in 1..Len(script) /\ unsent \in Seq(Tokens)
  BY <1>1
<1>3. conn \in Connections /\ response \in Responses
  BY DEF Init, Connections, Responses, NewConnection, NewResponse, Styles
<1>4. outs \in Seq(Seq(Items)) /\ outs # <<>>
  BY DEF Init
<1> QED
  BY <1>1, <1>2, <1>3, <1>4 DEF Init, Typed, ReadPCs

LEMMA FirstCRTyped ==
  ASSUME conn \in Connections
  PROVE  /\ FirstCR \in 0..Len(conn.buffer)
         /\ FirstCR # 0 => FirstCR > conn.offset /\ conn.buffer[FirstCR] = "CR"
<1> DEFINE at == {i \in (conn.offset + 1)..Len(conn.buffer) : conn.buffer[i] = "CR"}
<1>1. conn.offset \in Nat /\ Len(conn.buffer) \in Nat
  BY DEF Connections
<1>2. FirstCR = IF at = {} THEN 0 ELSE CHOOSE i \in at : \A j \in at : i <= j
  BY DEF FirstCR
<1>3. at \in SUBSET Nat
  BY <1>1
<1>4. ASSUME at # {}
      PROVE  FirstCR \in at
  <2> HIDE DEF at
  <2>1. \E i \in at : \A j \in at : i <= j
    BY <1>3, <1>4, LeastOf
  <2> QED
    BY <1>2, <1>4, <2>1
<1>5. CASE at = {}
  <2>1. FirstCR = 0
    BY <1>2, <1>5
  <2> QED
    BY <1>1, <2>1
<1>6. CASE at # {}
  <2>1. FirstCR \in at
    BY <1>4, <1>6
  <2> QED
    BY <1>1, <2>1
<1> QED
  BY <1>5, <1>6

LEMMA LineTyped ==
  ASSUME conn \in Connections
  PROVE  NextLine \in Connections
<1>1. FirstCR + 1 \in Nat
  BY FirstCRTyped DEF Connections
<1> QED
  BY <1>1 DEF NextLine, Connections

(* Pieces of a sequence.                                                   *)
LEMMA Cut ==
  ASSUME NEW S, NEW q \in Seq(S), NEW n \in 0..Len(q)
  PROVE  /\ SubSeq(q, 1, n) \in Seq(S) /\ SubSeq(q, n + 1, Len(q)) \in Seq(S)
         /\ Len(SubSeq(q, 1, n)) = n /\ Len(SubSeq(q, n + 1, Len(q))) = Len(q) - n
         /\ SubSeq(q, 1, n) \o SubSeq(q, n + 1, Len(q)) = q
<1>1. Len(q) \in Nat /\ n \in Nat /\ n <= Len(q)
  OBVIOUS
<1>2. SubSeq(q, 1, n) \in Seq(S) /\ Len(SubSeq(q, 1, n)) = n
  BY <1>1, SubSeqProperties
<1>3. SubSeq(q, n + 1, Len(q)) \in Seq(S) /\ Len(SubSeq(q, n + 1, Len(q))) = Len(q) - n
  BY <1>1, SubSeqProperties
<1>4. SubSeq(q, 1, n) \o SubSeq(q, n + 1, Len(q)) = q
  <2>1. 1 \in 1..Len(q) + 1 /\ n \in (1 - 1)..Len(q) /\ Len(q) \in n..Len(q)
    BY <1>1
  <2>2. SubSeq(q, 1, n) \o SubSeq(q, n + 1, Len(q)) = SubSeq(q, 1, Len(q))
    BY <2>1, ConcatAdjacentSubSeq
  <2> QED
    BY <2>2, SubSeqFull
<1> QED
  BY <1>2, <1>3, <1>4

LEMMA LeastTyped ==
  ASSUME NEW m \in Nat, NEW n \in Nat
  PROVE  /\ Least(m, n) \in Nat /\ Least(m, n) <= m /\ Least(m, n) <= n
         /\ m > 0 /\ n > 0 => Least(m, n) > 0
BY DEF Least

(* The steps keep the types: the client and the reads.                     *)
LEMMA ClientTyped ==
  ASSUME Typed,
         \/ \E n \in 1..Len(unsent) : ClientSends(n)
         \/ ClientAsksAgain \/ ClientCloses \/ TimesOut
  PROVE  Typed'
<1>1. ASSUME NEW n \in 1..Len(unsent), ClientSends(n)
      PROVE  Typed'
  <2>1. unsent \in Seq(Tokens) /\ inbox \in Seq(Tokens) /\ n \in 0..Len(unsent)
    BY DEF Typed
  <2>2. inbox' \in Seq(Tokens) /\ unsent' \in Seq(Tokens)
    <3>1. SubSeq(unsent, 1, n) \in Seq(Tokens) /\ SubSeq(unsent, n + 1, Len(unsent)) \in Seq(Tokens)
      BY <2>1, Cut
    <3>2. inbox \o SubSeq(unsent, 1, n) \in Seq(Tokens)
      BY <2>1, <3>1
    <3> QED
      BY <1>1, <3>1, <3>2 DEF ClientSends
  <2> QED
    BY <1>1, <2>2 DEF Typed, ClientSends, writing
<1>2. ASSUME ClientAsksAgain
      PROVE  Typed'
  <2>1. asked' \in 1..Len(script) /\ unsent' \in Seq(Tokens)
    <3>1. script \in Seq(Seq(Tokens))
      BY ScriptsAssumption DEF Typed
    <3>2. asked + 1 \in 1..Len(script)
      BY <1>2, <3>1 DEF Typed, ClientAsksAgain
    <3> QED
      BY <1>2, <3>2, ScriptTyped DEF ClientAsksAgain
  <2> QED
    BY <1>2, <2>1 DEF Typed, ClientAsksAgain, writing
<1>3. CASE ClientCloses
  BY <1>3 DEF Typed, ClientCloses, writing
<1>4. CASE TimesOut
  BY <1>4 DEF Typed, TimesOut, client, writing, ReadPCs
<1> QED
  BY <1>1, <1>2, <1>3, <1>4

LEMMA DidReadTyped ==
  ASSUME Typed, NEW n \in 1..Len(inbox), DidRead(n)
  PROVE  conn' \in Connections /\ inbox' \in Seq(Tokens) /\ pc' = "scan"
<1> DEFINE buffer == conn.buffer \o SubSeq(inbox, 1, n)
           skip == IF buffer[conn.offset + 1] = "LF" THEN 1 ELSE 0
<1>1. inbox \in Seq(Tokens) /\ n \in 0..Len(inbox)
  BY DEF Typed
<1>2. SubSeq(inbox, 1, n) \in Seq(Tokens) /\ SubSeq(inbox, n + 1, Len(inbox)) \in Seq(Tokens)
  BY <1>1, Cut
<1>3. conn \in Connections
  BY DEF Typed
<1>4. buffer \in Seq(Tokens) /\ skip \in Nat /\ conn.offset + skip \in Nat
  BY <1>2, <1>3 DEF Connections
<1>5. /\ conn' = [conn EXCEPT !.buffer = buffer, !.offset = @ + skip]
      /\ inbox' = SubSeq(inbox, n + 1, Len(inbox)) /\ pc' = "scan"
  BY DEF DidRead
<1> HIDE DEF buffer, skip
<1>6. conn' \in Connections
  BY <1>3, <1>4, <1>5 DEF Connections
<1> QED
  BY <1>2, <1>5, <1>6

LEMMA ReadTyped ==
  ASSUME Typed, ReadHeaders \/ NoHeadersYet \/ WaitHeaders \/ ReadEnds
  PROVE  Typed'
<1>1. CASE ReadHeaders
  <2>1. Least(ReadSize, Len(inbox)) \in 1..Len(inbox)
    <3>1. Len(inbox) \in Nat /\ Len(inbox) > 0 /\ ReadSize \in Nat /\ ReadSize > 0
      BY <1>1, SizesAssumption DEF ReadHeaders, Typed
    <3> QED
      BY <3>1 DEF Least
  <2>2. conn' \in Connections /\ inbox' \in Seq(Tokens) /\ pc' = "scan"
    BY <1>1, <2>1, DidReadTyped DEF ReadHeaders
  <2> QED
    BY <1>1, <2>2 DEF Typed, ReadHeaders, Stay, client, writing, ReadPCs
<1>2. CASE WaitHeaders
  <2>1. 1 \in 1..Len(inbox)
    BY <1>2 DEF WaitHeaders, Typed
  <2>2. conn' \in Connections /\ inbox' \in Seq(Tokens) /\ pc' = "scan"
    BY <1>2, <2>1, DidReadTyped DEF WaitHeaders
  <2> QED
    BY <1>2, <2>2 DEF Typed, WaitHeaders, Stay, client, writing, ReadPCs
<1>3. CASE NoHeadersYet
  BY <1>3 DEF Typed, NoHeadersYet, Stay, client, writing, ReadPCs
<1>4. CASE ReadEnds
  BY <1>4 DEF Typed, ReadEnds, Stay, client, writing, ReadPCs
<1> QED
  BY <1>1, <1>2, <1>3, <1>4

LEMMA ScanTyped ==
  ASSUME Typed,
         \/ ScanMore \/ ScanMalformed \/ EndOfHeaders \/ ScanContinuation
         \/ ScanRequestLine \/ ScanHeader \/ ScanNoColon
  PROVE  Typed'
<1>1. Scanning /\ conn \in Connections /\ NextLine \in Connections
  BY LineTyped DEF Typed, ScanMore, ScanMalformed, EndOfHeaders, ScanContinuation,
                   ScanRequestLine, ScanHeader, ScanNoColon
<1>2. conn' \in Connections
  <2>1. CASE ScanMore \/ ScanMalformed
    BY <1>1, <2>1 DEF ScanMore, ScanMalformed
  <2>2. CASE EndOfHeaders \/ ScanContinuation \/ ScanNoColon
    BY <1>1, <2>2 DEF EndOfHeaders, ScanContinuation, ScanNoColon
  <2>3. CASE ScanRequestLine
    BY <1>1, <2>3 DEF ScanRequestLine, Connections
  <2>4. CASE ScanHeader
    <3>1. PICK key \in HeaderTokens :
            conn' = [NextLine EXCEPT
              !.lastKey = key,
              !.params.keep = @ \/ key = "KEEP",
              !.params.length = IF key \in DOMAIN LengthOf THEN LengthOf[key] ELSE @]
      BY <2>4 DEF ScanHeader
    <3>2. key \in DOMAIN LengthOf => LengthOf[key] \in Nat
      BY DEF LengthOf
    <3> DEFINE length == IF key \in DOMAIN LengthOf THEN LengthOf[key]
                         ELSE NextLine.params.length
               keep == NextLine.params.keep \/ key = "KEEP"
    <3>3. length \in Nat
      BY <1>1, <3>2 DEF Connections
    <3>4. keep \in BOOLEAN
      OBVIOUS
    <3>5. conn' = [NextLine EXCEPT !.lastKey = key, !.params.keep = keep,
                                   !.params.length = length]
      BY <1>1, <3>1 DEF Connections
    <3> HIDE DEF length, keep
    <3> QED
      BY <1>1, <3>3, <3>4, <3>5 DEF Connections
  <2> QED
    BY <2>1, <2>2, <2>3, <2>4
<1>3. pc' \in {"readHeaders", "closed", "readBody", "trapped", "scan"}
  BY DEF ScanMore, ScanMalformed, EndOfHeaders, ScanContinuation,
         ScanRequestLine, ScanHeader, ScanNoColon
<1> QED
  BY <1>1, <1>2, <1>3 DEF Typed, Scanning, Stay, client, writing, ReadPCs

LEMMA BodyTyped ==
  ASSUME Typed, ReadBody \/ ReadSome \/ NoBodyYet \/ WaitBody
  PROVE  Typed'
<1>0. conn \in Connections /\ inbox \in Seq(Tokens) /\ need \in Nat
  BY DEF Typed
<1>1. CASE ReadBody
  <2> DEFINE rest == SubSeq(conn.buffer, conn.offset + 1, Len(conn.buffer))
  <2>1. rest \in Seq(Tokens)
    <3>1. /\ conn.buffer \in Seq(Tokens) /\ Len(conn.buffer) \in Int
          /\ conn.offset \in Nat /\ conn.offset + 1 \in Int
      BY <1>0 DEF Connections
    <3>2. \A i \in (conn.offset + 1)..Len(conn.buffer) : conn.buffer[i] \in Tokens
      BY <3>1
    <3> QED
      BY <3>1, <3>2, SubSeqProperties
  <2>2. CASE conn.params.length = 0
    BY <1>1, <2>2 DEF ReadBody, Typed, client, writing, ReadPCs
  <2>3. CASE conn.params.length # 0
    <3> DEFINE missing == IF Len(rest) < conn.params.length
                          THEN conn.params.length - Len(rest) ELSE 0
    <3>1. /\ conn' = [conn EXCEPT !.stdin = rest, !.buffer = <<>>, !.offset = 0]
          /\ need' = missing /\ pc' = IF need' = 0 THEN "run" ELSE "readSome"
          /\ UNCHANGED <<client, inbox, response, writing, history>>
      BY <1>1, <2>3 DEF ReadBody
    <3> HIDE DEF rest
    <3>2. conn.params.length \in Nat /\ Len(rest) \in Nat
      BY <1>0, <2>1 DEF Connections
    <3>3. missing \in Nat
      BY <3>2
    <3> HIDE DEF missing
    <3>4. conn' \in Connections
      <4>1. <<>> \in Seq(Tokens) /\ 0 \in Nat
        OBVIOUS
      <4>2. conn' = [conn EXCEPT !.stdin = rest, !.buffer = <<>>, !.offset = 0]
        BY <3>1
      <4> QED
        BY <1>0, <2>1, <4>1, <4>2 DEF Connections
    <3> QED
      BY <3>1, <3>3, <3>4 DEF Typed, client, writing, ReadPCs
  <2> QED
    BY <2>2, <2>3
<1>2. ASSUME NEW n \in 1..Len(inbox), n <= need, PutStdin(n)
      PROVE  Typed'
  <2>1. SubSeq(inbox, 1, n) \in Seq(Tokens) /\ SubSeq(inbox, n + 1, Len(inbox)) \in Seq(Tokens)
    BY <1>0, Cut
  <2>2. /\ conn' = [conn EXCEPT !.stdin = @ \o SubSeq(inbox, 1, n)]
        /\ inbox' = SubSeq(inbox, n + 1, Len(inbox))
        /\ need' = need - n /\ pc' = IF need = n THEN "run" ELSE "readSome"
        /\ UNCHANGED <<client, response, writing, history>>
    BY <1>2 DEF PutStdin
  <2>3. conn.stdin \o SubSeq(inbox, 1, n) \in Seq(Tokens)
    BY <1>0, <2>1 DEF Connections
  <2>4. conn' \in Connections
    BY <1>0, <2>2, <2>3 DEF Connections
  <2>5. need' \in Nat /\ (pc' = "run" \/ need' > 0)
    BY <1>0, <1>2, <2>2
  <2> QED
    BY <2>1, <2>2, <2>4, <2>5 DEF Typed, client, writing, ReadPCs
<1>3. CASE ReadSome
  <2>1. Least(need, Len(inbox)) \in 1..Len(inbox) /\ Least(need, Len(inbox)) <= need
    <3>1. Len(inbox) \in Nat /\ Len(inbox) > 0 /\ need > 0
      BY <1>0, <1>3 DEF ReadSome, PutStdin, Typed
    <3> QED
      BY <1>0, <3>1 DEF Least
  <2> QED
    BY <1>2, <1>3, <2>1 DEF ReadSome
<1>4. CASE WaitBody
  <2>1. 1 \in 1..Len(inbox) /\ 1 <= need
    BY <1>0, <1>4 DEF WaitBody, PutStdin, Typed
  <2> QED
    BY <1>2, <1>4, <2>1 DEF WaitBody
<1>5. CASE NoBodyYet
  BY <1>5 DEF NoBodyYet, Typed, Stay, client, writing, ReadPCs
<1> QED
  BY <1>1, <1>3, <1>4, <1>5

(* The steps keep the types: the handler and the writes.                   *)
LEMMA HeaderTyped ==
  ASSUME NEW r \in Responses
  PROVE  /\ <<"status", 200>> \in Items /\ HeaderOf(r) \in Items
         /\ HeaderOf(r)[1] = (IF r.chunked THEN "chunkedHeader" ELSE "header")
         /\ HeaderOf(r)[1] \in HeaderKinds
         /\ ~r.chunked => HeaderOf(r)[2] = r.length
<1>1. r.length \in Nat
  BY DEF Responses
<1>2. CASE r.chunked
  BY <1>2 DEF HeaderOf, Items, Kinds, HeaderKinds
<1>3. CASE ~r.chunked
  BY <1>1, <1>3 DEF HeaderOf, Items, Kinds, HeaderKinds
<1> QED
  BY <1>2, <1>3

LEMMA WithHeaderTyped ==
  ASSUME NEW r \in Responses, NEW items \in Seq(Items)
  PROVE  WithHeader(r, items) \in Seq(Items)
<1>1. << <<"status", 200>>, HeaderOf(r)>> \in Seq(Items)
  <2> DEFINE st == <<"status", 200>>
             hd == HeaderOf(r)
  <2>1. st \in Items /\ hd \in Items
    BY HeaderTyped
  <2> HIDE DEF st, hd
  <2>2. <<st, hd>> \in Seq(Items)
    BY <2>1
  <2> QED
    BY <2>2 DEF st, hd
<1>2. << <<"status", 200>>, HeaderOf(r)>> \o items \in Seq(Items)
  <2> DEFINE head == << <<"status", 200>>, HeaderOf(r)>>
  <2> HIDE DEF head
  <2>1. head \in Seq(Items)
    BY <1>1 DEF head
  <2>2. head \o items \in Seq(Items)
    BY <2>1
  <2> QED
    BY <2>2 DEF head
<1> QED
  BY <1>2 DEF WithHeader

LEMMA AnnounceTyped ==
  ASSUME NEW r \in Responses, NEW n \in Nat
  PROVE  /\ Announce(r, n) \in Responses
         /\ Announce(r, n) = [r EXCEPT !.wroteHeaders = TRUE,
                                !.length = IF r.wroteHeaders THEN @ ELSE n]
BY DEF Announce, Responses

LEMMA BodyItem ==
  ASSUME NEW n \in Nat
  PROVE  Body(n) \in Seq(Items) /\ Chunk(n) \in Seq(Items)
<1> DEFINE b == <<"body", n>>
           z == <<"size", n>>
           c == <<"chunk", n>>
<1>1. b \in Items /\ z \in Items /\ c \in Items
  BY DEF Items, Kinds
<1> HIDE DEF b, z, c
<1>2. <<b>> \in Seq(Items) /\ <<z, c>> \in Seq(Items) /\ <<>> \in Seq(Items)
  BY <1>1
<1>3. Chunk(n) = IF n = 0 THEN <<>> ELSE <<z, c>>
  BY DEF Chunk, z, c
<1>4. Body(n) = IF n = 0 THEN <<>> ELSE <<b>>
  BY DEF Body, b
<1> QED
  BY <1>2, <1>3, <1>4

LEMMA AnnouncedTyped ==
  ASSUME NEW r \in Responses
  PROVE  Announced(r) \in Nat
BY DEF Announced, Responses

LEMMA WriteTyped ==
  ASSUME Typed, NEW items \in Seq(Items),
         NEW completion \in {"pushed", "lastChunk", "completed", "close"},
         Write(items, completion), response' \in Responses
  PROVE  Typed'
<1>1. conn' \in Connections
  BY DEF Write, Typed, Connections
<1> QED
  BY <1>1 DEF Write, Typed, client

LEMMA CompleteTyped ==
  ASSUME Typed, NEW r \in Responses, Complete(r)
  PROVE  Typed'
<1>1. r.bodyData \in Nat
  BY DEF Responses
<1>2. response' \in Responses
  BY <1>1, AnnouncedTyped, AnnounceTyped DEF Complete
<1>3. PICK s : s = response'
  OBVIOUS
<1>4. /\ s \in Responses
      /\ Write(WithHeader(s, Body(r.bodyData)), "completed")
  BY <1>2, <1>3 DEF Complete
<1>5. WithHeader(s, Body(r.bodyData)) \in Seq(Items)
  BY <1>1, <1>4, BodyItem, WithHeaderTyped
<1> QED
  BY <1>2, <1>4, <1>5, WriteTyped

LEMMA PushTyped ==
  ASSUME Typed, NEW r \in Responses, NEW completion \in {"pushed", "lastChunk"},
         PushChunked(r, completion)
  PROVE  Typed'
<1> DEFINE s == [Announce(r, 0) EXCEPT !.chunked = TRUE]
<1>1. s \in Responses /\ r.bodyData \in Nat
  <2>1. Announce(r, 0) \in Responses
    BY AnnounceTyped
  <2> QED
    BY <2>1 DEF Responses
<1>2. response' = s
  BY DEF PushChunked
<1>3. CASE r.bodyData = 0
  <2>1. /\ pending' = <<>> /\ next' = completion /\ ok' = TRUE /\ pc' = "write"
        /\ UNCHANGED <<client, inbox, conn, need, outs, history>>
    BY <1>3 DEF PushChunked
  <2> HIDE DEF s
  <2>2. <<>> \in Seq(Items)
    OBVIOUS
  <2> QED
    BY <1>1, <1>2, <2>1, <2>2 DEF Typed, client
<1>4. CASE r.bodyData # 0
  <2>1. Write(WithHeader(s, Chunk(r.bodyData)), completion)
    BY <1>4 DEF PushChunked
  <2> HIDE DEF s
  <2>2. WithHeader(s, Chunk(r.bodyData)) \in Seq(Items)
    BY <1>1, BodyItem, WithHeaderTyped
  <2> QED
    BY <1>1, <1>2, <2>1, <2>2, WriteTyped
<1> QED
  BY <1>3, <1>4

(* What sendFile reads, of what remains and of what the file has.          *)
LEMMA PieceTyped ==
  ASSUME response \in Responses
  PROVE  LET thisRead == Least(ChunkSize, response.left)
             bytes    == Least(thisRead, response.inFile)
             q        == [response EXCEPT
                            !.bodyData = bytes, !.left = @ - bytes, !.inFile = @ - bytes,
                            !.lastRead = thisRead = response.left]
         IN  /\ bytes \in Nat /\ bytes <= response.left /\ bytes <= response.inFile
             /\ response.left \in Nat /\ response.inFile \in Nat
             /\ q \in Responses /\ q.bodyData = bytes /\ q.left = response.left - bytes
             /\ q.inFile = response.inFile - bytes
             /\ q.style = response.style /\ q.chunked = response.chunked
             /\ q.length = response.length /\ q.wroteHeaders = response.wroteHeaders
             /\ (q.lastRead /\ response.inFile <= response.left) => q.inFile = 0
<1> DEFINE thisRead == Least(ChunkSize, response.left)
           bytes    == Least(thisRead, response.inFile)
<1>1. response.left \in Nat /\ response.inFile \in Nat /\ ChunkSize \in Nat
  BY SizesAssumption DEF Responses
<1>2. /\ thisRead \in Nat /\ thisRead <= response.left
      /\ bytes \in Nat /\ bytes <= thisRead /\ bytes <= response.inFile
  BY <1>1, LeastTyped
<1>3. thisRead = response.left /\ response.inFile <= response.left => bytes = response.inFile
  BY <1>1, <1>2 DEF Least
<1> HIDE DEF thisRead, bytes
<1>4. response.left - bytes \in Nat /\ response.inFile - bytes \in Nat /\ bytes <= response.left
  BY <1>1, <1>2
<1>5. (thisRead = response.left) \in BOOLEAN
  OBVIOUS
<1> DEFINE last == thisRead = response.left
           q == [response EXCEPT
                   !.bodyData = bytes, !.left = @ - bytes, !.inFile = @ - bytes,
                   !.lastRead = last]
<1>6. (last /\ response.inFile <= response.left) => response.inFile - bytes = 0
  BY <1>1, <1>2, <1>3
<1>7. last \in BOOLEAN
  OBVIOUS
<1> HIDE DEF last
<1>8. /\ q \in Responses /\ q.bodyData = bytes /\ q.left = response.left - bytes
      /\ q.inFile = response.inFile - bytes
      /\ q.style = response.style /\ q.chunked = response.chunked
      /\ q.length = response.length /\ q.wroteHeaders = response.wroteHeaders
      /\ q.lastRead = last
  BY <1>2, <1>4, <1>7 DEF Responses
<1> HIDE DEF q
<1>9. (q.lastRead /\ response.inFile <= response.left) => q.inFile = 0
  BY <1>6, <1>8
<1> QED
  BY <1>1, <1>2, <1>4, <1>8, <1>9 DEF q, last, bytes, thisRead

LEMMA HandlerTyped ==
  ASSUME Typed,
         \/ NoPathInfo
         \/ \E style \in Styles, size \in 0..MaxBody : StartHandler(style, size)
         \/ \E size, inFile \in 0..MaxBody, readable \in BOOLEAN :
              StartFile(size, inFile, readable)
         \/ StartReversedRange
         \/ AnswerWhole \/ SendFilePiece \/ SendFileFails
         \/ \E n \in 0..MaxBody : AppendAndPush(n)
         \/ CompleteChunks
  PROVE  Typed'
<1>0. response \in Responses /\ conn \in Connections /\ MaxBody \in Nat
  BY SizesAssumption DEF Typed
<1>1. CASE NoPathInfo
  <2> DEFINE st == <<"status", 500>>
             hd == <<"header", 0>>
  <2>1. st \in Items /\ hd \in Items
    BY DEF Items, Kinds
  <2>2. Write(<<st, hd>>, "close") /\ response' = response
    BY <1>1 DEF NoPathInfo
  <2> HIDE DEF st, hd
  <2>3. <<st, hd>> \in Seq(Items)
    BY <2>1
  <2> QED
    BY <1>0, <2>2, <2>3, WriteTyped
<1>2. ASSUME NEW style \in Styles, NEW size \in 0..MaxBody, StartHandler(style, size)
      PROVE  Typed'
  <2>1. size \in Nat
    BY <1>0
  <2>2. response' \in Responses
    BY <1>2, <2>1 DEF StartHandler, NewResponse, Responses
  <2> QED
    BY <1>2, <2>2 DEF StartHandler, Typed, client, writing
<1>7. ASSUME NEW size \in 0..MaxBody, NEW inFile \in 0..MaxBody, NEW readable \in BOOLEAN,
             StartFile(size, inFile, readable)
      PROVE  Typed'
  <2>1. size \in Nat /\ inFile \in Nat
    BY <1>0
  <2>2. response' \in Responses
    BY <1>7, <2>1 DEF StartFile, NewResponse, Responses, Styles
  <2> QED
    BY <1>7, <2>2 DEF StartFile, Typed, client, writing
<1>8. CASE StartReversedRange
  BY <1>8 DEF StartReversedRange, Typed, Stay, client, writing
<1>9. CASE SendFileFails
  BY <1>0, <1>9, CompleteTyped DEF SendFileFails
<1>3. CASE AnswerWhole
  <2>1. [response EXCEPT !.bodyData = response.left, !.left = 0] \in Responses
    BY <1>0 DEF Responses
  <2> QED
    BY <1>3, <2>1, CompleteTyped DEF AnswerWhole
<1>4. CASE SendFilePiece
  <2> DEFINE thisRead == Least(ChunkSize, response.left)
             bytes == Least(thisRead, response.inFile)
             q == [response EXCEPT
                    !.bodyData = bytes, !.left = @ - bytes, !.inFile = @ - bytes,
                    !.lastRead = thisRead = response.left]
             r == Announce(q, Announced(response))
  <2>1. response' = r /\ Write(WithHeader(r, Body(bytes)), "pushed")
    BY <1>4 DEF SendFilePiece
  <2>2. q \in Responses /\ bytes \in Nat
    BY <1>0, PieceTyped
  <2>3. r \in Responses
    <3> HIDE DEF q
    <3> QED
      BY <1>0, <2>2, AnnouncedTyped, AnnounceTyped
  <2> HIDE DEF r, bytes
  <2>4. WithHeader(r, Body(bytes)) \in Seq(Items)
    BY <2>2, <2>3, BodyItem, WithHeaderTyped
  <2> QED
    BY <2>1, <2>3, <2>4, WriteTyped
<1>5. ASSUME NEW n \in 0..MaxBody, AppendAndPush(n)
      PROVE  Typed'
  <2>1. n \in Nat /\ response.left - n \in Nat
    <3>1. n <= response.left
      BY <1>5 DEF AppendAndPush
    <3>2. n \in Nat /\ response.left \in Nat
      BY <1>0 DEF Responses
    <3> QED
      BY <3>1, <3>2
  <2>2. [response EXCEPT !.bodyData = n, !.left = @ - n] \in Responses
    BY <1>0, <2>1 DEF Responses
  <2> QED
    BY <1>5, <2>2, PushTyped DEF AppendAndPush
<1>6. CASE CompleteChunks
  <2>1. [response EXCEPT !.bodyData = response.left, !.left = 0] \in Responses
    BY <1>0 DEF Responses
  <2> QED
    BY <1>6, <2>1, PushTyped DEF CompleteChunks
<1> QED
  BY <1>1, <1>2, <1>3, <1>4, <1>5, <1>6, <1>7, <1>8, <1>9

(* The responses so far, and one of them as it grows.                      *)
LEMMA OutsTyped ==
  ASSUME Typed
  PROVE  /\ Len(outs) \in Nat \ {0} /\ Len(outs) \in 1..Len(outs)
         /\ \A k \in 1..Len(outs) : outs[k] \in Seq(Items)
<1>1. outs \in Seq(Seq(Items)) /\ outs # <<>>
  BY DEF Typed
<1> QED
  BY <1>1

LEMMA HeadWritten ==
  ASSUME Typed, WriteWorks
  PROVE  LET k == Len(outs) IN
         /\ Head(pending) \in Items /\ pending' \in Seq(Items)
         /\ outs' \in Seq(Seq(Items)) /\ Len(outs') = k
         /\ outs'[k] = Append(outs[k], Head(pending))
         /\ \A j \in 1..k : j # k => outs'[j] = outs[j]
         /\ outs'[k] \o pending' = outs[k] \o pending
<1> DEFINE k == Len(outs)
           x == Head(pending)
           rest == Tail(pending)
           cur == outs[k]
<1>1. pending \in Seq(Items) /\ pending # <<>> /\ outs \in Seq(Seq(Items)) /\ outs # <<>>
  BY DEF Typed, WriteWorks
<1>2. /\ x \in Items /\ rest \in Seq(Items) /\ Len(rest) = Len(pending) - 1
      /\ \A i \in 1..Len(rest) : rest[i] = pending[i + 1]
      /\ x = pending[1]
  BY <1>1, HeadTailProperties
<1>3. k \in 1..Len(outs) /\ cur \in Seq(Items)
  BY OutsTyped
<1>4. pending' = rest /\ outs' = [outs EXCEPT ![k] = Append(cur, x)]
  BY DEF WriteWorks
<1>5. <<x>> \o rest = pending
  <2>1. SubSeq(pending, 1, Len(pending)) = << pending[1] >> \o SubSeq(pending, 2, Len(pending))
    <3>1. 1 \in 1..Len(pending) /\ Len(pending) \in 1..Len(pending)
      BY <1>1
    <3> QED
      BY <1>1, <3>1, SubSeqRecursiveFirst
  <2>2. SubSeq(pending, 1, Len(pending)) = pending /\ rest = SubSeq(pending, 2, Len(pending))
    BY <1>1, SubSeqFull, TailIsSubSeq
  <2> QED
    BY <1>2, <2>1, <2>2, Zenon
<1> HIDE DEF x, rest, k, cur
<1>6. Append(cur, x) = cur \o <<x>> /\ Append(cur, x) \in Seq(Items)
  BY <1>2, <1>3, AppendIsConcat
<1>7. (cur \o <<x>>) \o rest = cur \o (<<x>> \o rest)
  <2>1. <<x>> \in Seq(Items)
    BY <1>2
  <2> QED
    BY <1>2, <1>3, <2>1, ConcatAssociative
<1>8. Append(cur, x) \o rest = cur \o pending
  BY <1>5, <1>6, <1>7, Zenon
<1>9. /\ outs' \in Seq(Seq(Items)) /\ Len(outs') = Len(outs) /\ outs'[k] = Append(cur, x)
      /\ \A j \in 1..Len(outs) : j # k => outs'[j] = outs[j]
  BY <1>1, <1>3, <1>4, <1>6, ExceptSeq
<1> QED
  BY <1>2, <1>4, <1>8, <1>9 DEF x, rest, k, cur

LEMMA WritesTyped ==
  ASSUME Typed,
         \/ WriteWorks \/ WriteFails \/ Pushed \/ LastChunk
         \/ KeepAliveOrClose \/ CloseAfter500
  PROVE  Typed'
<1>0. response \in Responses /\ conn \in Connections
  BY DEF Typed
<1>1. CASE WriteWorks
  <2>1. pending' \in Seq(Items) /\ outs' \in Seq(Seq(Items)) /\ Len(outs') = Len(outs)
    BY <1>1, HeadWritten
  <2>2. outs' # <<>>
    BY <2>1, OutsTyped
  <2> QED
    BY <1>1, <2>1, <2>2 DEF WriteWorks, Typed, client
<1>2. CASE WriteFails
  <2>1. <<>> \in Seq(Items)
    OBVIOUS
  <2> QED
    BY <1>2, <2>1 DEF WriteFails, Typed
<1>3. CASE Pushed
  <2>1. [response EXCEPT !.bodyData = 0] \in Responses
    BY <1>0 DEF Responses
  <2>2. CASE response.style = "file" /\ (~ok \/ response.lastRead)
    BY <1>3, <2>1, <2>2, CompleteTyped DEF Pushed
  <2>3. CASE ~ (response.style = "file" /\ (~ok \/ response.lastRead))
    BY <1>3, <2>1, <2>3 DEF Pushed, Typed, client, writing
  <2> QED
    BY <2>2, <2>3
<1>4. CASE LastChunk
  <2> DEFINE s == [response EXCEPT !.bodyData = 0]
             x == <<"last", 0>>
  <2>1. s \in Responses /\ x \in Items
    BY <1>0 DEF Responses, Items, Kinds
  <2>2. response' = s /\ Write(WithHeader(s, <<x>>), "completed")
    BY <1>4 DEF LastChunk
  <2> HIDE DEF s, x
  <2>3. WithHeader(s, <<x>>) \in Seq(Items)
    <3>1. <<x>> \in Seq(Items)
      BY <2>1
    <3> QED
      BY <2>1, <3>1, WithHeaderTyped
  <2> QED
    BY <2>1, <2>2, <2>3, WriteTyped
<1>5. CASE KeepAliveOrClose
  <2>1. NewConnection \in Connections /\ NewResponse \in Responses
    BY DEF NewConnection, NewResponse, Connections, Responses, Styles
  <2>2. CASE conn.params.keep
    <3>1. /\ conn' = NewConnection /\ response' = NewResponse
          /\ outs' = Append(outs, <<>>) /\ pc' = "readHeaders"
      BY <1>5, <2>2 DEF KeepAliveOrClose
    <3>2. outs' \in Seq(Seq(Items)) /\ outs' # <<>>
      <4>1. <<>> \in Seq(Items) /\ outs \in Seq(Seq(Items))
        BY DEF Typed
      <4> QED
        BY <3>1, <4>1, AppendProperties
    <3> QED
      BY <1>5, <2>1, <3>1, <3>2 DEF KeepAliveOrClose, Typed, client, ReadPCs
  <2>3. CASE ~conn.params.keep
    BY <1>5, <2>3 DEF KeepAliveOrClose, Typed, client
  <2> QED
    BY <2>2, <2>3
<1>6. CASE CloseAfter500
  BY <1>6 DEF CloseAfter500, Typed, Stay, client, writing
<1> QED
  BY <1>1, <1>2, <1>3, <1>4, <1>5, <1>6

LEMMA NextTyped ==
  ASSUME Typed, [Next]_vars
  PROVE  Typed'
<1>1. CASE UNCHANGED vars
  BY <1>1 DEF vars, client, writing, Typed
<1>2. CASE Reading
  BY <1>2, ReadTyped, ScanTyped, BodyTyped DEF Reading
<1>3. CASE Answering
  BY <1>3, HandlerTyped, WritesTyped DEF Answering
<1> QED
  BY <1>1, <1>2, <1>3, ClientTyped DEF Next

-----------------------------------------------------------------------------
(* ResponseIsFramed and NoShortResponse.  Plan is what will have been      *)
(* written for the request when the writes that remain are done; it is a   *)
(* response from the first write on, and at the last a whole one, or all   *)
(* that its file gives.                                                    *)

Cur == outs[Len(outs)]
Plan == Cur \o pending

(* Nothing is written before there is an answer, or beside a write.        *)
Quiet ==
  /\ ~conn.wroteHeader => Cur = <<>> /\ pending = <<>>
  /\ pc \in ReadPCs \cup {"run", "trapped"} => ~conn.wroteHeader
  /\ pc = "handler" => pending = <<>>

Planned == gone # "reset" =>
  /\ ok
  /\ conn.wroteHeader => Len(Plan) >= 2 /\ Response(Plan)

(* What the handlers know of what they wrote, in "handler" and while a     *)
(* push is written.                                                        *)
WholePlanned ==
  pc = "handler" /\ ~conn.wroteHeader /\ ~response.wroteHeaders /\ ~response.chunked

FilePlanned ==
  /\ ~response.chunked /\ (response.wroteHeaders <=> conn.wroteHeader)
  /\ pc = "write" => conn.wroteHeader
  /\ conn.wroteHeader => Plan[2][1] = "header" /\ Plan[2][2] = response.length
  /\ BodyBytes(Plan) + response.left = response.length
  /\ response.inFile <= response.left
  /\ \/ response.inFile = response.left
     \/ <<Len(outs), BodyBytes(Plan) + response.inFile>> \in cut
  /\ response.lastRead => response.inFile = 0
  /\ pc = "handler" => response.bodyData = 0

(* What the client can get: a whole response, or all that its file gives.  *)
Enough(k, out) == Ended(out) \/ <<k, BodyBytes(out)>> \in cut

ChunksPlanned == conn.wroteHeader => response.chunked /\ BetweenChunks(Plan)

Handled == gone # "reset" =>
  /\ pc = "handler" \/ (pc = "write" /\ next = "pushed") =>
       /\ response.style # "none"
       /\ response.style = "whole" => WholePlanned
       /\ response.style = "file" => FilePlanned
       /\ response.style = "chunks" => ChunksPlanned
  /\ pc = "write" /\ next = "lastChunk" =>
       response.style = "chunks" /\ response.chunked /\ ChunksPlanned
  /\ pc = "write" /\ next \in {"completed", "close"} => Enough(Len(outs), Plan)

Answered ==
  /\ \A k \in 1..Len(outs) : Response(outs[k])
  /\ gone = "no" =>
       \A k \in 1..Len(outs) :
         k < Len(outs) \/ pc = "closed" => outs[k] = <<>> \/ Enough(k, outs[k])

FInv == Typed /\ Quiet /\ Planned /\ Handled /\ Answered

LEMMA InitFInv == Init => FInv
<1> SUFFICES ASSUME Init PROVE FInv
  OBVIOUS
<1>1. /\ conn.wroteHeader = FALSE /\ pc = "readHeaders" /\ gone = "no" /\ ok
      /\ pending = <<>> /\ outs = << <<>> >>
  BY DEF Init, NewConnection
<1>2. Cur = <<>> /\ Len(outs) = 1 /\ outs[1] = <<>>
  BY <1>1 DEF Cur
<1>3. Response(<<>>)
  BY DEF Response, InPlace, PlainFrame, ChunkedFrame
<1>4. Quiet /\ Planned /\ Handled
  BY <1>1, <1>2 DEF Quiet, Planned, Handled, ReadPCs
<1>5. Answered
  BY <1>1, <1>2, <1>3 DEF Answered
<1> QED
  BY <1>4, <1>5, InitTyped DEF FInv

(* Steps of the client, reads, and lines of the header write nothing.      *)
LEMMA SilentStep ==
  ASSUME FInv, Typed', conn'.wroteHeader = conn.wroteHeader,
         UNCHANGED <<response, pending, next, ok, outs, cut>>,
         gone' = gone \/ (gone = "no" /\ gone' = "closed"),
         \/ pc' = pc
         \/ /\ pc \in ReadPCs \cup {"run", "trapped"}
            /\ pc' \in ReadPCs \cup {"run", "trapped", "closed"}
  PROVE  FInv'
<1>1. Quiet /\ Planned /\ Handled /\ Answered
  BY DEF FInv
<1>2. Cur' = Cur /\ Plan' = Plan
  BY DEF Cur, Plan
<1>3. Quiet'
  BY <1>1, <1>2 DEF Quiet, ReadPCs
<1>4. Planned'
  BY <1>1, <1>2 DEF Planned
<1>5. Handled'
  BY <1>1, <1>2 DEF Handled, WholePlanned, FilePlanned, ChunksPlanned, Enough, ReadPCs
<1>6. Answered'
  <2>1. pc' = "closed" /\ pc # "closed" => Cur = <<>>
    BY <1>1 DEF Quiet
  <2>2. gone' = "no" => gone = "no"
    OBVIOUS
  <2>3. Len(outs) \in Nat /\ \A k \in 1..Len(outs) : k < Len(outs) \/ k = Len(outs)
    BY OutsTyped DEF FInv
  <2> QED
    BY <1>1, <2>1, <2>2, <2>3 DEF Answered, Enough, Cur
<1> QED
  BY <1>3, <1>4, <1>5, <1>6 DEF FInv

LEMMA ReadingFramed ==
  ASSUME FInv, Reading
  PROVE  FInv'
<1>1. Typed /\ Typed'
  BY NextTyped DEF FInv, Next
<1>2. UNCHANGED <<gone, response, pending, next, ok, outs, cut>>
  BY DEF Reading, ReadHeaders, WaitHeaders, NoHeadersYet, ScanMore, ScanMalformed,
         EndOfHeaders, ScanContinuation, ScanRequestLine, ScanHeader, ScanNoColon,
         ReadBody, ReadSome, NoBodyYet, WaitBody, ReadEnds, PutStdin, Scanning, Stay,
         client, writing, history
<1>3. pc \in ReadPCs /\ pc' \in ReadPCs \cup {"run", "trapped", "closed"}
  BY DEF Reading, ReadHeaders, WaitHeaders, NoHeadersYet, ScanMore, ScanMalformed,
         EndOfHeaders, ScanContinuation, ScanRequestLine, ScanHeader, ScanNoColon,
         ReadBody, ReadSome, NoBodyYet, WaitBody, ReadEnds, PutStdin, Scanning,
         DidRead, ReadPCs
<1>4. conn'.wroteHeader = conn.wroteHeader
  <2>1. conn \in Connections /\ NextLine \in Connections
    BY <1>1, LineTyped DEF Typed
  <2>2. NextLine.wroteHeader = conn.wroteHeader
    BY <2>1 DEF NextLine, Connections
  <2>3. CASE ReadHeaders \/ WaitHeaders
    BY <2>1, <2>3 DEF ReadHeaders, WaitHeaders, DidRead, Connections
  <2>4. CASE NoHeadersYet \/ ScanMore \/ ScanMalformed \/ NoBodyYet \/ ReadEnds
    BY <2>4 DEF NoHeadersYet, ScanMore, ScanMalformed, NoBodyYet, ReadEnds
  <2>5. CASE EndOfHeaders \/ ScanContinuation \/ ScanNoColon
    BY <2>2, <2>5 DEF EndOfHeaders, ScanContinuation, ScanNoColon
  <2>6. CASE ScanRequestLine \/ ScanHeader
    BY <2>1, <2>2, <2>6 DEF ScanRequestLine, ScanHeader, Connections
  <2>7. CASE ReadBody \/ ReadSome \/ WaitBody
    BY <2>1, <2>7 DEF ReadBody, ReadSome, WaitBody, PutStdin, Connections
  <2> QED
    BY <2>3, <2>4, <2>5, <2>6, <2>7 DEF Reading
<1> QED
  BY <1>1, <1>2, <1>3, <1>4, SilentStep

LEMMA ClientFramed ==
  ASSUME FInv,
         \/ \E n \in 1..Len(unsent) : ClientSends(n)
         \/ ClientAsksAgain \/ ClientCloses \/ TimesOut
  PROVE  FInv'
<1>1. Typed /\ Typed'
  BY ClientTyped DEF FInv
<1>2. /\ UNCHANGED <<conn, response, pending, next, ok, outs, cut>>
      /\ gone' = gone \/ (gone = "no" /\ gone' = "closed")
      /\ pc' = pc \/ (pc \in ReadPCs /\ pc' = "closed")
  BY DEF ClientSends, ClientAsksAgain, ClientCloses, TimesOut, client, writing, history,
         ReadPCs
<1> QED
  BY <1>1, <1>2, SilentStep

(* A write starts: what will have been written is a response so far, or    *)
(* the status line and the header, and then the items.                     *)
LEMMA PlanGrows ==
  ASSUME FInv, gone # "reset", pending = <<>>, NEW r \in Responses,
         NEW items \in Seq(Items), NEW completion, Write(WithHeader(r, items), completion)
  PROVE  \E base \in Seq(Items) :
           /\ Response(base) /\ Len(base) >= 2 /\ Plan' = base \o items
           /\ conn.wroteHeader => base = Plan
           /\ ~conn.wroteHeader =>
                base[2] = HeaderOf(r) /\ BodyBytes(base) = 0 /\ (r.chunked => BetweenChunks(base))
<1>1. Typed /\ Quiet /\ Planned
  BY DEF FInv
<1>2. Cur \in Seq(Items)
  BY <1>1, OutsTyped DEF Cur
<1>3. Plan' = Cur \o WithHeader(r, items)
  BY DEF Write, Plan, Cur
<1>4. CASE conn.wroteHeader
  <2>1. WithHeader(r, items) = items
    BY <1>4 DEF WithHeader
  <2>2. Plan = Cur
    <3>1. Cur \o <<>> = Cur
      BY <1>2, ConcatEmptySeq
    <3> QED
      BY <3>1 DEF Plan
  <2>3. Response(Plan) /\ Len(Plan) >= 2
    BY <1>1, <1>4 DEF Planned
  <2> QED
    BY <1>2, <1>3, <1>4, <2>1, <2>2, <2>3
<1>5. CASE ~conn.wroteHeader
  <2> DEFINE hd == HeaderOf(r)
             base == << <<"status", 200>>, hd>>
  <2>1. hd \in Items /\ hd[1] \in HeaderKinds /\ (r.chunked => hd[1] = "chunkedHeader")
    BY HeaderTyped
  <2>2. /\ base \in Seq(Items) /\ Len(base) = 2 /\ base[2] = hd
        /\ Response(base) /\ BodyBytes(base) = 0
        /\ hd[1] = "chunkedHeader" => BetweenChunks(base)
    <3> HIDE DEF hd
    <3> QED
      BY <2>1, Begun
  <2>3. Plan' = base \o items
    <3>1. Cur = <<>> /\ WithHeader(r, items) = base \o items
      BY <1>1, <1>5 DEF Quiet, WithHeader
    <3> HIDE DEF base
    <3>2. base \o items \in Seq(Items)
      BY <2>2
    <3>3. <<>> \o (base \o items) = base \o items
      BY <3>2, ConcatEmptySeq
    <3> QED
      BY <1>3, <3>1, <3>3
  <2> HIDE DEF base
  <2> QED
    BY <1>5, <2>1, <2>2, <2>3
<1> QED
  BY <1>4, <1>5

(* Every write keeps the invariant if it plans a response.                 *)
LEMMA WriteFramed ==
  ASSUME FInv, Typed', NEW items, NEW completion, Write(items, completion),
         pc # "closed",
         gone # "reset" => Len(Plan') >= 2 /\ Response(Plan') /\ Handled'
  PROVE  FInv'
<1>1. Quiet /\ Planned /\ Handled /\ Answered /\ Typed
  BY DEF FInv
<1>2. /\ conn'.wroteHeader = TRUE /\ ok' = TRUE /\ pc' = "write"
      /\ gone' = gone /\ outs' = outs /\ cut' = cut
  BY <1>1 DEF Write, Typed, Connections, client, history
<1>3. Quiet'
  BY <1>2 DEF Quiet, ReadPCs
<1>4. Planned'
  BY <1>2 DEF Planned
<1>5. Handled'
  BY <1>2 DEF Handled
<1>6. Answered'
  BY <1>1, <1>2 DEF Answered, Enough
<1> QED
  BY <1>3, <1>4, <1>5, <1>6 DEF FInv

(* The write of the rest plans a whole response, or all that the file      *)
(* gives.                                                                  *)
EndPlanned(r, length) ==
  /\ ~r.chunked
  /\ conn.wroteHeader =>
       /\ r.wroteHeaders /\ Plan[2][1] = "header" /\ Plan[2][2] = length
  /\ ~conn.wroteHeader => ~r.wroteHeaders /\ length = Announced(r)
  /\ BodyBytes(Plan) + r.bodyData <= length
  /\ \/ BodyBytes(Plan) + r.bodyData = length
     \/ <<Len(outs), BodyBytes(Plan) + r.bodyData>> \in cut

LEMMA CompleteFramed ==
  ASSUME FInv, Typed', NEW r \in Responses, Complete(r), pc # "closed", pending = <<>>,
         NEW length \in Nat, gone # "reset" => EndPlanned(r, length)
  PROVE  FInv'
<1>1. r.bodyData \in Nat /\ Announced(r) \in Nat
  BY AnnouncedTyped DEF Responses
<1> DEFINE n == r.bodyData
           b == Body(n)
           s == Announce(r, Announced(r))
<1>2. /\ s \in Responses /\ s.chunked = r.chunked
      /\ r.wroteHeaders => s.length = r.length
      /\ ~r.wroteHeaders => s.length = Announced(r)
  BY <1>1 DEF Announce, Responses
<1>3. response' = s /\ Write(WithHeader(s, b), "completed")
  <2>1. response' = s
    BY DEF Complete
  <2> HIDE DEF s
  <2> QED
    BY <2>1 DEF Complete
<1>4. b \in Seq(Items)
  BY <1>1, BodyItem
<1> HIDE DEF s, b
<1>5. ASSUME gone # "reset"
      PROVE  Len(Plan') >= 2 /\ Response(Plan') /\ Handled'
  <2>0. EndPlanned(r, length) /\ Quiet
    BY <1>5 DEF FInv
  <2>1. PICK base \in Seq(Items) :
          /\ Response(base) /\ Len(base) >= 2 /\ Plan' = base \o b
          /\ conn.wroteHeader => base = Plan
          /\ ~conn.wroteHeader => base[2] = HeaderOf(s) /\ BodyBytes(base) = 0
    BY <1>2, <1>3, <1>4, <1>5, PlanGrows
  <2>2. base[2][1] = "header" /\ base[2][2] = length /\ BodyBytes(base) = BodyBytes(Plan)
    <3>1. CASE conn.wroteHeader
      BY <2>0, <2>1, <3>1 DEF EndPlanned
    <3>2. CASE ~conn.wroteHeader
      <4>1. /\ base[2] = HeaderOf(s) /\ BodyBytes(base) = 0 /\ ~s.chunked
            /\ s.length = length
        BY <1>2, <2>0, <2>1, <3>2 DEF EndPlanned
      <4>2. Plan = <<>>
        BY <2>0, <3>2 DEF Quiet, Plan
      <4>3. BodyBytes(Plan) = 0
        BY <4>2, NothingWritten
      <4>4. base[2][1] = "header" /\ base[2][2] = length
        BY <4>1 DEF HeaderOf
      <4> QED
        BY <4>1, <4>3, <4>4
    <3> QED
      BY <3>1, <3>2
  <2> DEFINE q == base \o b
  <2>3. /\ BodyBytes(base) + n <= base[2][2]
        /\ BodyBytes(base) + n = base[2][2] \/ <<Len(outs), BodyBytes(base) + n>> \in cut
    BY <2>0, <2>2 DEF EndPlanned
  <2>4. /\ q \in Seq(Items) /\ Len(q) >= 2 /\ q[2] = base[2] /\ Response(q)
        /\ BodyBytes(q) = BodyBytes(base) + n
    BY <1>1, <2>1, <2>2, <2>3, BodyPartAdded DEF b
  <2>5. Plan' = q
    BY <2>1
  <2> HIDE DEF q, n
  <2>6. Ended(q) \/ <<Len(outs), BodyBytes(q)>> \in cut
    <3>1. q[2][1] = "header" /\ BodyBytes(q) \in Nat
      BY <2>2, <2>4, BytesTyped
    <3>2. CASE BodyBytes(base) + n = base[2][2]
      BY <2>4, <3>1, <3>2 DEF Ended
    <3>3. CASE <<Len(outs), BodyBytes(base) + n>> \in cut
      BY <2>4, <3>3
    <3> QED
      BY <2>3, <3>2, <3>3
  <2>7. /\ pc' = "write" /\ next' = "completed" /\ cut' = cut /\ outs' = outs
    BY <1>3 DEF Write, history
  <2>8. Enough(Len(outs), Plan)'
    BY <2>5, <2>6, <2>7 DEF Enough
  <2> QED
    BY <2>4, <2>5, <2>7, <2>8 DEF Handled
<1> QED
  BY <1>3, <1>5, WriteFramed

LEMMA PushFramed ==
  ASSUME FInv, Typed', NEW r \in Responses, NEW completion \in {"pushed", "lastChunk"},
         PushChunked(r, completion), pc \in {"handler", "write"}, pending = <<>>,
         r.style = "chunks",
         gone # "reset" => (conn.wroteHeader => BetweenChunks(Plan))
  PROVE  FInv'
<1>0. Typed /\ Quiet /\ Planned /\ Handled /\ Answered
  BY DEF FInv
<1> DEFINE s == [Announce(r, 0) EXCEPT !.chunked = TRUE]
           n == r.bodyData
<1>1. s \in Responses /\ s.chunked /\ s.style = "chunks" /\ n \in Nat
  BY DEF Announce, Responses
<1>2. response' = s
  BY DEF PushChunked
<1>3. CASE n = 0
  <2>1. /\ pending' = <<>> /\ next' = completion /\ ok' = TRUE /\ pc' = "write"
        /\ UNCHANGED <<client, inbox, conn, need, outs, history>>
    BY <1>3 DEF PushChunked
  <2> HIDE DEF s, n
  <2>2. Cur' = Cur /\ Plan' = Plan
    BY <2>1 DEF Cur, Plan
  <2>3. Quiet' /\ Planned' /\ Answered'
    BY <1>0, <2>1, <2>2 DEF Quiet, Planned, Answered, Enough, client, history, ReadPCs
  <2>4. Handled'
    BY <1>0, <1>1, <1>2, <2>1, <2>2 DEF Handled, ChunksPlanned, client
  <2> QED
    BY <2>3, <2>4 DEF FInv
<1>4. CASE n # 0
  <2> DEFINE items == << <<"size", n>>, <<"chunk", n>> >>
  <2>1. Chunk(n) = items /\ items \in Seq(Items)
    BY <1>1, <1>4, BodyItem DEF Chunk
  <2>2. Write(WithHeader(s, items), completion)
    BY <1>4, <2>1 DEF PushChunked
  <2> HIDE DEF s, items, n
  <2>3. ASSUME gone # "reset"
        PROVE  Len(Plan') >= 2 /\ Response(Plan') /\ Handled'
    <3>1. PICK base \in Seq(Items) :
            /\ Response(base) /\ Plan' = base \o items
            /\ conn.wroteHeader => base = Plan
            /\ ~conn.wroteHeader => BetweenChunks(base)
      BY <1>1, <2>1, <2>2, <2>3, PlanGrows
    <3>2. BetweenChunks(base)
      BY <2>3, <3>1
    <3> DEFINE q == base \o items
    <3>3. Response(q) /\ BetweenChunks(q)
      BY <1>1, <3>1, <3>2, ChunkAdded DEF items
    <3>4. Plan' = q
      BY <3>1
    <3> HIDE DEF q
    <3>5. Len(q) >= 2
      BY <3>3 DEF BetweenChunks
    <3>6. pc' = "write" /\ next' = completion
      BY <2>2 DEF Write
    <3>7. BetweenChunks(Plan')
      BY <3>3, <3>4
    <3>8. ChunksPlanned'
      BY <1>1, <1>2, <3>7 DEF ChunksPlanned
    <3>9. Handled'
      BY <1>1, <1>2, <3>6, <3>8 DEF Handled
    <3> QED
      BY <3>3, <3>4, <3>5, <3>9
  <2> QED
    BY <2>2, <2>3, WriteFramed
<1> QED
  BY <1>3, <1>4

LEMMA HandlerFramed ==
  ASSUME FInv,
         \/ NoPathInfo
         \/ \E style \in Styles, size \in 0..MaxBody : StartHandler(style, size)
         \/ \E size, inFile \in 0..MaxBody, readable \in BOOLEAN :
              StartFile(size, inFile, readable)
         \/ StartReversedRange
         \/ AnswerWhole \/ SendFilePiece \/ SendFileFails
         \/ \E n \in 0..MaxBody : AppendAndPush(n)
         \/ CompleteChunks
  PROVE  FInv'
<1>0. /\ Typed /\ Quiet /\ Planned /\ Handled /\ Answered /\ Typed'
      /\ response \in Responses /\ conn \in Connections /\ MaxBody \in Nat
  BY SizesAssumption, HandlerTyped DEF FInv, Typed
<1>1. CASE NoPathInfo
  <2> DEFINE hd == <<"header", 0>>
             q == << <<"status", 500>>, hd>>
  <2>1. Write(q, "close") /\ pc = "run" /\ response' = response
    BY <1>1 DEF NoPathInfo
  <2>2. hd \in Items /\ hd[1] \in HeaderKinds /\ hd[1] = "header" /\ hd[2] = 0
    BY DEF Items, Kinds, HeaderKinds
  <2>3. q \in Seq(Items) /\ Len(q) = 2 /\ q[2] = hd /\ Response(q) /\ BodyBytes(q) = 0
    <3> HIDE DEF hd
    <3> QED
      BY <2>2, Begun
  <2> HIDE DEF q
  <2>4. Plan' = q
    <3>1. Cur = <<>> /\ outs' = outs /\ pending' = q
      BY <1>0, <2>1 DEF Quiet, Write, ReadPCs
    <3>2. <<>> \o q = q
      BY <2>3, ConcatEmptySeq
    <3> QED
      BY <3>1, <3>2 DEF Plan, Cur
  <2>5. Ended(q)
    BY <2>2, <2>3 DEF Ended
  <2>6. Handled'
    <3>1. pc' = "write" /\ next' = "close"
      BY <2>1 DEF Write
    <3> QED
      BY <2>4, <2>5, <3>1 DEF Handled, Enough
  <2> QED
    BY <1>0, <2>1, <2>3, <2>4, <2>6, WriteFramed
<1>2. ASSUME NEW style \in Styles, NEW size \in 0..MaxBody, StartHandler(style, size)
      PROVE  FInv'
  <2>1. /\ pc = "run" /\ pc' = "handler" /\ style \in {"whole", "chunks"}
        /\ UNCHANGED <<gone, conn, pending, next, ok, outs, cut>>
        /\ response' = [NewResponse EXCEPT !.style = style, !.left = size, !.length = size]
    BY <1>2 DEF StartHandler, client, writing, history
  <2>2. response'.style = style /\ ~response'.chunked /\ ~response'.wroteHeaders
    BY <2>1 DEF NewResponse
  <2>3. ~conn.wroteHeader /\ Cur = <<>> /\ pending = <<>> /\ Cur' = Cur /\ Plan' = Plan
    BY <1>0, <2>1 DEF Quiet, Cur, Plan, ReadPCs
  <2>4. Quiet' /\ Planned' /\ Answered'
    BY <1>0, <2>1, <2>3 DEF Quiet, Planned, Answered, Enough, ReadPCs
  <2>5. WholePlanned' /\ ChunksPlanned'
    BY <2>1, <2>2, <2>3 DEF WholePlanned, ChunksPlanned
  <2>6. Handled'
    BY <2>1, <2>2, <2>5 DEF Handled
  <2> QED
    BY <1>0, <2>4, <2>6 DEF FInv
<1>7. ASSUME NEW size \in 0..MaxBody, NEW inFile \in 0..MaxBody, NEW readable \in BOOLEAN,
             StartFile(size, inFile, readable)
      PROVE  FInv'
  <2>1. /\ pc = "run" /\ pc' = "handler" /\ inFile <= size
        /\ UNCHANGED <<gone, conn, pending, next, ok, outs>>
        /\ response' = [NewResponse EXCEPT
              !.style = "file", !.left = size, !.length = size,
              !.inFile = inFile, !.readable = readable]
        /\ cut' = IF inFile < size THEN cut \cup {<<Len(outs), inFile>>} ELSE cut
    BY <1>7 DEF StartFile, client, writing
  <2>2. /\ response'.style = "file" /\ response'.left = size /\ response'.length = size
        /\ ~response'.chunked /\ ~response'.wroteHeaders
        /\ response'.inFile = inFile /\ ~response'.lastRead /\ response'.bodyData = 0
    BY <2>1 DEF NewResponse
  <2>3. ~conn.wroteHeader /\ Cur = <<>> /\ pending = <<>> /\ Cur' = Cur /\ Plan' = Plan
    BY <1>0, <2>1 DEF Quiet, Cur, Plan, ReadPCs
  <2>4. BodyBytes(Plan) = 0 /\ size \in Nat /\ inFile \in Nat
    <3>1. Plan = <<>>
      BY <2>3 DEF Plan
    <3> QED
      BY <1>0, <3>1, NothingWritten
  <2>5. cut \subseteq cut'
    BY <2>1
  <2>6. Quiet' /\ Planned' /\ Answered'
    BY <1>0, <2>1, <2>3, <2>5 DEF Quiet, Planned, Answered, Enough, ReadPCs
  <2>7. inFile = size \/ <<Len(outs), inFile>> \in cut'
    BY <2>1, <2>4
  <2>8. BodyBytes(Plan) + inFile = inFile /\ BodyBytes(Plan) + size = size
    BY <2>4
  <2>9. FilePlanned'
    BY <2>1, <2>2, <2>3, <2>7, <2>8 DEF FilePlanned
  <2>10. Handled'
    BY <2>1, <2>2, <2>9 DEF Handled
  <2> QED
    BY <1>0, <2>6, <2>10 DEF FInv
<1>8. CASE StartReversedRange
  <2>1. /\ pc = "run" /\ pc' = "trapped"
        /\ UNCHANGED <<gone, conn, response, pending, next, ok, outs, cut>>
    BY <1>8 DEF StartReversedRange, Stay, client, writing, history
  <2> QED
    BY <1>0, <2>1, SilentStep
<1>9. CASE SendFileFails
  <2>1. /\ Complete(response) /\ pc = "handler" /\ response.style = "file"
        /\ response.inFile = 0
    BY <1>9 DEF SendFileFails, InHandler
  <2>2. pending = <<>> /\ (gone # "reset" => FilePlanned)
    BY <1>0, <2>1 DEF Quiet, Handled
  <2>3. response.left \in Nat /\ response.length \in Nat /\ response.bodyData \in Nat
    BY <1>0 DEF Responses
  <2>4. ASSUME gone # "reset"
        PROVE  EndPlanned(response, response.length)
    <3>1. FilePlanned
      BY <2>2, <2>4
    <3>2. BodyBytes(Plan) \in Nat
      <4>1. Cur \in Seq(Items) /\ Plan = Cur \o <<>>
        BY <1>0, <2>2, OutsTyped DEF Cur, Plan
      <4>2. Plan \in Seq(Items)
        BY <4>1, ConcatEmptySeq
      <4> QED
        BY <4>2, BytesTyped
    <3>3. /\ BodyBytes(Plan) + response.left = response.length
          /\ response.left = 0 \/ <<Len(outs), BodyBytes(Plan) + 0>> \in cut
      BY <2>1, <3>1 DEF FilePlanned
    <3>4. BodyBytes(Plan) + 0 = BodyBytes(Plan) /\ BodyBytes(Plan) <= response.length
      BY <2>3, <3>2, <3>3
    <3>5. BodyBytes(Plan) = response.length \/ <<Len(outs), BodyBytes(Plan)>> \in cut
      BY <2>3, <3>2, <3>3, <3>4
    <3> QED
      BY <2>1, <3>1, <3>4, <3>5 DEF FilePlanned, EndPlanned, Announced
  <2> QED
    BY <1>0, <2>1, <2>2, <2>3, <2>4, CompleteFramed
<1>3. CASE AnswerWhole
  <2> DEFINE r == [response EXCEPT !.bodyData = response.left, !.left = 0]
  <2>1. /\ Complete(r) /\ pc = "handler" /\ response.style = "whole"
    BY <1>3 DEF AnswerWhole, InHandler
  <2>2. /\ r \in Responses /\ r.chunked = response.chunked /\ r.style = "whole"
        /\ r.wroteHeaders = response.wroteHeaders /\ r.bodyData \in Nat
    BY <1>0, <2>1 DEF Responses
  <2> HIDE DEF r
  <2>3. pending = <<>> /\ (gone # "reset" => WholePlanned)
    BY <1>0, <2>1 DEF Quiet, Handled
  <2>4. ASSUME gone # "reset"
        PROVE  EndPlanned(r, r.bodyData)
    <3>1. ~conn.wroteHeader /\ ~r.wroteHeaders /\ ~r.chunked
      BY <2>2, <2>3, <2>4 DEF WholePlanned
    <3>2. Plan = <<>>
      BY <1>0, <3>1 DEF Quiet, Plan
    <3>3. BodyBytes(Plan) = 0
      BY <3>2, NothingWritten
    <3> QED
      BY <2>2, <3>1, <3>3 DEF EndPlanned, Announced
  <2> QED
    BY <1>0, <2>1, <2>2, <2>3, <2>4, CompleteFramed
<1>4. CASE SendFilePiece
  <2> DEFINE thisRead == Least(ChunkSize, response.left)
             bytes == Least(thisRead, response.inFile)
             q == [response EXCEPT
                    !.bodyData = bytes, !.left = @ - bytes, !.inFile = @ - bytes,
                    !.lastRead = thisRead = response.left]
             r == Announce(q, Announced(response))
             b == Body(bytes)
  <2>1. response' = r /\ Write(WithHeader(r, b), "pushed")
    BY <1>4 DEF SendFilePiece
  <2>2. /\ bytes \in Nat /\ bytes <= response.left /\ bytes <= response.inFile
        /\ response.left \in Nat /\ response.inFile \in Nat
        /\ q \in Responses /\ q.left = response.left - bytes
        /\ q.inFile = response.inFile - bytes
        /\ q.style = response.style /\ q.chunked = response.chunked
        /\ q.length = response.length /\ q.wroteHeaders = response.wroteHeaders
        /\ (q.lastRead /\ response.inFile <= response.left) => q.inFile = 0
    BY <1>0, PieceTyped
  <2>3. pc = "handler" /\ response.style = "file" /\ Announced(response) = response.length
    BY <1>4 DEF SendFilePiece, InHandler, Announced
  <2> HIDE DEF bytes, q
  <2>4. /\ r \in Responses /\ r.chunked = response.chunked /\ r.style = "file"
        /\ r.left = response.left - bytes /\ r.length = response.length /\ r.wroteHeaders
        /\ r.inFile = response.inFile - bytes
        /\ (r.lastRead /\ response.inFile <= response.left) => r.inFile = 0
        /\ response.length \in Nat
    BY <1>0, <2>2, <2>3 DEF Announce, Responses
  <2>5. b \in Seq(Items)
    BY <2>2, BodyItem
  <2>6. pending = <<>> /\ (gone # "reset" => FilePlanned)
    BY <1>0, <2>3 DEF Quiet, Handled
  <2> HIDE DEF r, b
  <2>7. ASSUME gone # "reset"
        PROVE  Len(Plan') >= 2 /\ Response(Plan') /\ Handled'
    <3>0. FilePlanned
      BY <2>6, <2>7
    <3>1. PICK base \in Seq(Items) :
            /\ Response(base) /\ Len(base) >= 2 /\ Plan' = base \o b
            /\ conn.wroteHeader => base = Plan
            /\ ~conn.wroteHeader => base[2] = HeaderOf(r) /\ BodyBytes(base) = 0
      BY <2>1, <2>4, <2>5, <2>6, <2>7, PlanGrows
    <3>2. /\ base[2][1] = "header" /\ base[2][2] = response.length
          /\ BodyBytes(base) = BodyBytes(Plan)
      <4>1. CASE conn.wroteHeader
        BY <3>0, <3>1, <4>1 DEF FilePlanned
      <4>2. CASE ~conn.wroteHeader
        <5>1. base[2] = HeaderOf(r) /\ BodyBytes(base) = 0 /\ ~r.chunked
          BY <2>4, <3>0, <3>1, <4>2 DEF FilePlanned
        <5>2. Plan = <<>>
          BY <1>0, <4>2 DEF Quiet, Plan
        <5>3. BodyBytes(Plan) = 0
          BY <5>2, NothingWritten
        <5>4. base[2][1] = "header" /\ base[2][2] = response.length
          BY <2>4, <5>1 DEF HeaderOf
        <5> QED
          BY <5>1, <5>3, <5>4
      <4> QED
        BY <4>1, <4>2
    <3>3. BodyBytes(base) \in Nat
      BY BytesTyped
    <3>4. /\ BodyBytes(base) + response.left = response.length
          /\ response.inFile <= response.left
          /\ \/ response.inFile = response.left
             \/ <<Len(outs), BodyBytes(base) + response.inFile>> \in cut
      BY <3>0, <3>2 DEF FilePlanned
    <3>5. BodyBytes(base) + bytes <= base[2][2]
      BY <2>2, <2>4, <3>2, <3>3, <3>4
    <3> DEFINE w == base \o b
    <3>6. /\ w \in Seq(Items) /\ Len(w) >= 2 /\ w[2] = base[2] /\ Response(w)
          /\ BodyBytes(w) = BodyBytes(base) + bytes
      BY <2>2, <3>1, <3>2, <3>5, BodyPartAdded DEF b
    <3>7. Plan' = w
      BY <3>1
    <3> HIDE DEF w
    <3>8. /\ BodyBytes(w) + r.left = r.length
          /\ BodyBytes(w) + r.inFile = BodyBytes(base) + response.inFile
          /\ r.inFile <= r.left
          /\ response.inFile = response.left => r.inFile = r.left
      BY <2>2, <2>4, <3>3, <3>4, <3>6
    <3>9. r.inFile = r.left \/ <<Len(outs), BodyBytes(w) + r.inFile>> \in cut
      BY <3>4, <3>8
    <3>10. /\ pc' = "write" /\ next' = "pushed" /\ conn'.wroteHeader = TRUE
           /\ outs' = outs /\ cut' = cut
      BY <1>0, <2>1 DEF Write, Connections, history
    <3>11. ~r.chunked
      BY <2>4, <3>0 DEF FilePlanned
    <3>12. r.lastRead => r.inFile = 0
      BY <2>4, <3>4
    <3>13. FilePlanned'
      BY <2>1, <2>4, <3>2, <3>6, <3>7, <3>8, <3>9, <3>10, <3>11, <3>12 DEF FilePlanned
    <3>14. Handled'
      BY <2>1, <2>4, <3>10, <3>13 DEF Handled
    <3> QED
      BY <3>6, <3>7, <3>14
  <2> QED
    BY <1>0, <2>1, <2>3, <2>7, WriteFramed
<1>5. ASSUME NEW n \in 0..MaxBody, AppendAndPush(n)
      PROVE  FInv'
  <2> DEFINE r == [response EXCEPT !.bodyData = n, !.left = @ - n]
  <2>1. PushChunked(r, "pushed") /\ pc = "handler" /\ response.style = "chunks" /\ n <= response.left
    BY <1>5 DEF AppendAndPush, InHandler
  <2>2. n \in Nat /\ response.left - n \in Nat
    <3>1. n \in Nat /\ response.left \in Nat
      BY <1>0 DEF Responses
    <3> QED
      BY <2>1, <3>1
  <2>3. r \in Responses /\ r.style = "chunks"
    BY <1>0, <2>1, <2>2 DEF Responses
  <2> HIDE DEF r
  <2>4. pending = <<>> /\ (gone # "reset" => ChunksPlanned)
    BY <1>0, <2>1 DEF Quiet, Handled
  <2> QED
    BY <1>0, <2>1, <2>3, <2>4, PushFramed DEF ChunksPlanned
<1>6. CASE CompleteChunks
  <2> DEFINE r == [response EXCEPT !.bodyData = response.left, !.left = 0]
  <2>1. PushChunked(r, "lastChunk") /\ pc = "handler" /\ response.style = "chunks"
    BY <1>6 DEF CompleteChunks, InHandler
  <2>2. r \in Responses /\ r.style = "chunks"
    BY <1>0, <2>1 DEF Responses
  <2> HIDE DEF r
  <2>3. pending = <<>> /\ (gone # "reset" => ChunksPlanned)
    BY <1>0, <2>1 DEF Quiet, Handled
  <2> QED
    BY <1>0, <2>1, <2>2, <2>3, PushFramed DEF ChunksPlanned
<1> QED
  BY <1>1, <1>2, <1>3, <1>4, <1>5, <1>6, <1>7, <1>8, <1>9

LEMMA WritesFramed ==
  ASSUME FInv,
         \/ WriteWorks \/ WriteFails \/ Pushed \/ LastChunk
         \/ KeepAliveOrClose \/ CloseAfter500
  PROVE  FInv'
<1>0. /\ Typed /\ Quiet /\ Planned /\ Handled /\ Answered /\ Typed'
      /\ response \in Responses /\ conn \in Connections
  BY WritesTyped DEF FInv, Typed
<1>a. pending = <<>> => Plan = Cur
  <2>1. Cur \in Seq(Items)
    BY <1>0, OutsTyped DEF Cur
  <2>2. Cur \o <<>> = Cur
    BY <2>1, ConcatEmptySeq
  <2> QED
    BY <2>2 DEF Plan
<1>1. CASE WriteWorks
  <2> DEFINE k == Len(outs)
             x == Head(pending)
             new == Append(outs[k], x)
  <2>0. k \in Nat
    BY <1>0, OutsTyped
  <2>1. /\ pc = "write" /\ pending # <<>> /\ gone # "reset"
        /\ UNCHANGED <<gone, conn, pc, response, next, ok, cut>>
    BY <1>1 DEF WriteWorks, client, history
  <2>2. /\ x \in Items /\ pending' \in Seq(Items) /\ Len(outs') = k /\ outs'[k] = new
        /\ \A j \in 1..k : j # k => outs'[j] = outs[j]
        /\ outs'[k] \o pending' = outs[k] \o pending
    BY <1>0, <1>1, HeadWritten
  <2>3. Plan' = Plan /\ Cur' = new
    BY <2>2 DEF Plan, Cur
  <2>4. k \in 1..Len(outs) /\ outs[k] \in Seq(Items) /\ pending \in Seq(Items)
    BY <1>0, OutsTyped DEF Typed
  <2> HIDE DEF k, x
  <2>5. new \in Seq(Items)
    BY <2>2, <2>4
  <2> HIDE DEF new
  <2>6. conn.wroteHeader /\ Response(Plan) /\ Plan = new \o pending'
    BY <1>0, <2>1, <2>2, <2>3 DEF Quiet, Planned, Plan, Cur
  <2>7. PICK q \in Seq(Items) : q = pending'
    BY <2>2
  <2>8. /\ new \o q \in Seq(Items) /\ Len(new \o q) = Len(new) + Len(q)
        /\ \A i \in 1..Len(new) : (new \o q)[i] = new[i]
        /\ Len(new) \in Nat /\ Len(q) \in Nat
    BY <2>5, <2>7
  <2>9. Response(new)
    <3>1. Begins(new, new \o q)
      <4> DEFINE w == new \o q
      <4>1. Len(w) = Len(new) + Len(q) /\ \A i \in 1..Len(new) : w[i] = new[i]
        BY <2>8
      <4> HIDE DEF w
      <4>2. Begins(new, w)
        BY <2>8, <4>1 DEF Begins
      <4> QED
        BY <4>2 DEF w
    <3>2. Response(new \o q)
      BY <2>6, <2>7
    <3> QED
      BY <2>5, <2>8, <3>1, <3>2, BeginningOfResponse
  <2>10. Quiet'
    BY <2>1, <2>6 DEF Quiet, ReadPCs
  <2>11. Planned'
    BY <1>0, <2>1, <2>3 DEF Planned
  <2>12. Handled'
    BY <1>0, <2>1, <2>2, <2>3 DEF Handled, WholePlanned, FilePlanned, ChunksPlanned, Enough, k
  <2>13. Answered'
    <3>1. ASSUME NEW j \in 1..k
          PROVE  Response(outs'[j])
      <4>1. Response(outs[j])
        BY <1>0, <3>1 DEF Answered, k
      <4>2. CASE j = k
        <5>1. outs'[j] = new
          BY <2>2, <4>2
        <5> QED
          BY <2>9, <5>1
      <4>3. CASE j # k
        <5>1. outs'[j] = outs[j]
          BY <2>2, <3>1, <4>3
        <5> QED
          BY <4>1, <5>1
      <4> QED
        BY <4>2, <4>3
    <3>2. ASSUME gone = "no", NEW j \in 1..k, j < k
          PROVE  outs'[j] = <<>> \/ Enough(j, outs[j])'
      <4>0. j # k
        BY <2>0, <3>2
      <4>1. outs'[j] = outs[j]
        BY <2>2, <3>2, <4>0
      <4>2. outs[j] = <<>> \/ Enough(j, outs[j])
        BY <1>0, <3>2 DEF Answered, k
      <4> QED
        BY <2>1, <4>1, <4>2 DEF Enough
    <3> QED
      BY <2>1, <2>2, <3>1, <3>2 DEF Answered
  <2> QED
    BY <1>0, <2>10, <2>11, <2>12, <2>13 DEF FInv
<1>2. CASE WriteFails
  <2>1. /\ pc = "write" /\ gone' = "reset" /\ pending' = <<>>
        /\ UNCHANGED <<conn, pc, response, next, outs>>
    BY <1>2 DEF WriteFails
  <2>2. Quiet'
    BY <1>0, <2>1 DEF Quiet, ReadPCs, Cur
  <2>3. Planned' /\ Handled'
    BY <2>1 DEF Planned, Handled
  <2>4. Answered'
    BY <1>0, <2>1 DEF Answered
  <2> QED
    BY <1>0, <2>2, <2>3, <2>4 DEF FInv
<1>3. CASE Pushed
  <2> DEFINE r == [response EXCEPT !.bodyData = 0]
  <2>1. /\ r \in Responses /\ r.style = response.style /\ r.left = response.left
        /\ r.length = response.length /\ r.chunked = response.chunked
        /\ r.inFile = response.inFile /\ r.lastRead = response.lastRead
        /\ r.wroteHeaders = response.wroteHeaders /\ r.bodyData = 0
    BY <1>0 DEF Responses
  <2>2. pc = "write" /\ pending = <<>> /\ next = "pushed"
    BY <1>3 DEF Pushed, Written
  <2>3. CASE response.style = "file" /\ (~ok \/ response.lastRead)
    <3>1. Complete(r)
      BY <1>3, <2>3 DEF Pushed
    <3> HIDE DEF r
    <3>2. ASSUME gone # "reset"
          PROVE  EndPlanned(r, r.length)
      <4>1. FilePlanned /\ response.lastRead
        BY <1>0, <2>2, <2>3, <3>2 DEF Handled, Planned
      <4>2. /\ conn.wroteHeader /\ response.wroteHeaders /\ ~response.chunked
            /\ response.inFile = 0
        BY <2>2, <4>1 DEF FilePlanned
      <4>3. BodyBytes(Plan) \in Nat /\ response.left \in Nat /\ response.length \in Nat
        <5>1. Cur \in Seq(Items) /\ Plan = Cur
          BY <1>0, <1>a, <2>2, OutsTyped DEF Cur
        <5>2. Plan \in Seq(Items)
          BY <5>1
        <5> QED
          BY <1>0, <5>2, BytesTyped DEF Responses
      <4>4. /\ BodyBytes(Plan) + response.left = response.length
            /\ response.left = 0 \/ <<Len(outs), BodyBytes(Plan) + 0>> \in cut
        BY <4>1, <4>2 DEF FilePlanned
      <4>5. BodyBytes(Plan) + 0 = BodyBytes(Plan) /\ BodyBytes(Plan) <= r.length
        BY <2>1, <4>3, <4>4
      <4>6. BodyBytes(Plan) = r.length \/ <<Len(outs), BodyBytes(Plan)>> \in cut
        BY <2>1, <4>3, <4>4, <4>5
      <4>7. Plan[2][1] = "header" /\ Plan[2][2] = r.length
        BY <2>1, <4>1, <4>2 DEF FilePlanned
      <4>8. BodyBytes(Plan) + r.bodyData = BodyBytes(Plan)
        BY <2>1, <4>3
      <4> QED
        BY <2>1, <4>2, <4>5, <4>6, <4>7, <4>8 DEF EndPlanned
    <3>3. r.length \in Nat
      BY <2>1 DEF Responses
    <3> QED
      BY <1>0, <2>1, <2>2, <3>1, <3>2, <3>3, CompleteFramed
  <2>4. CASE ~ (response.style = "file" /\ (~ok \/ response.lastRead))
    <3>1. /\ response' = r /\ pc' = "handler"
          /\ UNCHANGED <<gone, conn, pending, next, ok, outs, cut>>
      BY <1>3, <2>4 DEF Pushed, client, writing, history
    <3> HIDE DEF r
    <3>2. Cur' = Cur /\ Plan' = Plan
      BY <3>1 DEF Cur, Plan
    <3>3. Quiet' /\ Planned' /\ Answered'
      BY <1>0, <2>2, <3>1, <3>2 DEF Quiet, Planned, Answered, Enough, ReadPCs
    <3>4. Handled'
      <4> SUFFICES ASSUME gone # "reset"
                   PROVE  Handled'
        BY <3>1 DEF Handled
      <4>1. /\ response.style # "none" /\ response.style # "whole"
            /\ response.style = "file" => FilePlanned
            /\ response.style = "chunks" => ChunksPlanned
        BY <1>0, <2>2 DEF Handled, WholePlanned
      <4>2. response.style = "file" => FilePlanned'
        BY <2>1, <3>1, <3>2, <4>1 DEF FilePlanned
      <4>3. response.style = "chunks" => ChunksPlanned'
        BY <2>1, <3>1, <3>2, <4>1 DEF ChunksPlanned
      <4> QED
        BY <2>1, <3>1, <4>1, <4>2, <4>3 DEF Handled
    <3> QED
      BY <1>0, <3>3, <3>4 DEF FInv
  <2> QED
    BY <2>3, <2>4
<1>4. CASE LastChunk
  <2> DEFINE r == [response EXCEPT !.bodyData = 0]
             items == << <<"last", 0>> >>
  <2>1. r \in Responses /\ r.chunked = response.chunked
    BY <1>0 DEF Responses
  <2>2. items \in Seq(Items)
    <3> DEFINE x == <<"last", 0>>
    <3>1. x \in Items
      BY DEF Items, Kinds
    <3> HIDE DEF x
    <3>2. <<x>> \in Seq(Items)
      BY <3>1
    <3> QED
      BY <3>2 DEF x
  <2>3. /\ response' = r /\ Write(WithHeader(r, items), "completed")
        /\ pc = "write" /\ pending = <<>> /\ next = "lastChunk"
    <3>1. response' = r
      BY <1>4 DEF LastChunk
    <3> HIDE DEF r
    <3> QED
      BY <1>4, <3>1 DEF LastChunk, Written
  <2> HIDE DEF r, items
  <2>4. ASSUME gone # "reset"
        PROVE  Len(Plan') >= 2 /\ Response(Plan') /\ Handled'
    <3>1. response.chunked /\ ChunksPlanned
      BY <1>0, <2>3, <2>4 DEF Handled
    <3>2. PICK base \in Seq(Items) :
            /\ Response(base) /\ Plan' = base \o items
            /\ conn.wroteHeader => base = Plan
            /\ ~conn.wroteHeader => (r.chunked => BetweenChunks(base))
      BY <2>1, <2>2, <2>3, <2>4, PlanGrows
    <3>3. BetweenChunks(base)
      BY <2>1, <3>1, <3>2 DEF ChunksPlanned
    <3> DEFINE q == base \o items
    <3>4. Response(q) /\ Ended(q)
      BY <3>2, <3>3, LastAdded DEF items
    <3>5. Plan' = q
      BY <3>2
    <3> HIDE DEF q
    <3>6. Len(q) >= 2
      BY <3>4 DEF Ended
    <3>7. pc' = "write" /\ next' = "completed"
      BY <2>3 DEF Write
    <3>8. Enough(Len(outs), Plan)'
      BY <3>4, <3>5 DEF Enough
    <3> QED
      BY <3>4, <3>5, <3>6, <3>7, <3>8 DEF Handled
  <2> QED
    BY <1>0, <2>3, <2>4, WriteFramed
<1>5. CASE KeepAliveOrClose
  <2>1. /\ pc = "write" /\ pending = <<>>
        /\ next = "completed" \/ (next = "lastChunk" /\ ~ok)
        /\ UNCHANGED <<gone, pending, next, ok, cut>>
    BY <1>5 DEF KeepAliveOrClose, Written, client, history
  <2>2. gone = "no" => Enough(Len(outs), Cur)
    BY <1>0, <1>a, <2>1 DEF Planned, Handled
  <2>3. CASE conn.params.keep
    <3>1. /\ conn' = NewConnection /\ outs' = Append(outs, <<>>) /\ pc' = "readHeaders"
      BY <1>5, <2>3 DEF KeepAliveOrClose
    <3>2. conn'.wroteHeader = FALSE
      BY <3>1 DEF NewConnection
    <3> DEFINE k == Len(outs)
    <3>3. /\ k \in Nat \ {0} /\ Len(outs') = k + 1 /\ outs'[k + 1] = <<>>
          /\ \A j \in 1..k : outs'[j] = outs[j]
      <4>1. outs \in Seq(Seq(Items)) /\ <<>> \in Seq(Items) /\ k \in Nat \ {0}
        BY <1>0, OutsTyped DEF Typed
      <4> QED
        BY <3>1, <4>1, AppendProperties
    <3>4. Cur' = <<>>
      BY <3>3 DEF Cur
    <3>5. Response(<<>>)
      BY DEF Response, InPlace, PlainFrame, ChunkedFrame
    <3>6. Quiet'
      BY <2>1, <3>1, <3>2, <3>4 DEF Quiet
    <3>7. Planned' /\ Handled'
      BY <1>0, <2>1, <3>1, <3>2 DEF Planned, Handled
    <3>8. Answered'
      <4> HIDE DEF k
      <4>1. ASSUME NEW j \in 1..(k + 1)
            PROVE  Response(outs'[j])
        <5>1. CASE j = k + 1
          BY <3>3, <3>5, <5>1
        <5>2. CASE j # k + 1
          <6>1. j \in 1..k
            BY <3>3, <5>2
          <6>2. Response(outs[j]) /\ outs'[j] = outs[j]
            BY <1>0, <3>3, <6>1 DEF Answered, k
          <6> QED
            BY <6>2
        <5> QED
          BY <5>1, <5>2
      <4>2. ASSUME gone = "no", NEW j \in 1..k
            PROVE  outs'[j] = <<>> \/ Enough(j, outs[j])'
        <5>1. outs'[j] = outs[j]
          BY <3>3
        <5>2. CASE j = k
          BY <2>1, <2>2, <4>2, <5>1, <5>2 DEF Cur, Enough, k
        <5>3. CASE j # k
          <6>1. j < k
            BY <3>3, <5>3
          <6>2. outs[j] = <<>> \/ Enough(j, outs[j])
            BY <1>0, <4>2, <6>1 DEF Answered, k
          <6> QED
            BY <2>1, <5>1, <6>2 DEF Enough
        <5> QED
          BY <5>2, <5>3
      <4>3. ASSUME gone = "no", NEW j \in 1..(k + 1), j < k + 1
            PROVE  outs'[j] = <<>> \/ Enough(j, outs[j])'
        <5>1. j \in 1..k
          BY <3>3, <4>3
        <5> QED
          BY <4>2, <4>3, <5>1
      <4> QED
        BY <2>1, <3>1, <3>3, <4>1, <4>3 DEF Answered
    <3> QED
      BY <1>0, <3>6, <3>7, <3>8 DEF FInv
  <2>4. CASE ~conn.params.keep
    <3>1. pc' = "closed" /\ UNCHANGED <<conn, response, outs>>
      BY <1>5, <2>4 DEF KeepAliveOrClose
    <3>2. Cur' = Cur /\ Plan' = Plan
      BY <2>1, <3>1 DEF Cur, Plan
    <3>3. Quiet' /\ Planned' /\ Handled'
      BY <1>0, <2>1, <3>1, <3>2 DEF Quiet, Planned, Handled, Enough, ReadPCs
    <3>4. Answered'
      <4>1. Len(outs) \in Nat
        BY <1>0, OutsTyped
      <4> QED
        BY <1>0, <2>1, <2>2, <3>1, <4>1 DEF Answered, Enough, Cur
    <3> QED
      BY <1>0, <3>3, <3>4 DEF FInv
  <2> QED
    BY <2>3, <2>4
<1>6. CASE CloseAfter500
  <2>1. /\ pc = "write" /\ pending = <<>> /\ next = "close" /\ pc' = "closed"
        /\ UNCHANGED <<gone, conn, response, pending, next, ok, outs, cut>>
    BY <1>6 DEF CloseAfter500, Written, Stay, client, writing, history
  <2>2. gone = "no" => Enough(Len(outs), Cur)
    BY <1>0, <1>a, <2>1 DEF Handled
  <2>3. Cur' = Cur /\ Plan' = Plan
    BY <2>1 DEF Cur, Plan
  <2>4. Quiet' /\ Planned' /\ Handled'
    BY <1>0, <2>1, <2>3 DEF Quiet, Planned, Handled, Enough, ReadPCs
  <2>5. Answered'
    <3>1. Len(outs) \in Nat
      BY <1>0, OutsTyped
    <3> QED
      BY <1>0, <2>1, <2>2, <3>1 DEF Answered, Enough, Cur
  <2> QED
    BY <1>0, <2>4, <2>5 DEF FInv
<1> QED
  BY <1>1, <1>2, <1>3, <1>4, <1>5, <1>6

LEMMA NextFInv ==
  ASSUME FInv, [Next]_vars
  PROVE  FInv'
<1>1. CASE UNCHANGED vars
  BY <1>1 DEF vars, client, writing, history, FInv, Typed, Quiet, Planned, Handled,
              Answered, Enough, WholePlanned, FilePlanned, ChunksPlanned, Plan, Cur
<1>2. CASE Answering
  BY <1>2, HandlerFramed, WritesFramed DEF Answering
<1> QED
  BY <1>1, <1>2, ReadingFramed, ClientFramed DEF Next

LEMMA AlwaysFInv == SafeSpec => []FInv
BY InitFInv, NextFInv, PTL DEF SafeSpec

(* Whatever the handler does and whenever the client goes away, what goes  *)
(* out for a request is a response, or the beginning of one: one status    *)
(* line, one header, and no more body than announced or well-formed        *)
(* chunks.                                                                 *)
THEOREM ResponsesAreFramed == SafeSpec => []ResponseIsFramed
<1>1. FInv => ResponseIsFramed
  <2> SUFFICES ASSUME FInv, NEW k \in 1..Len(outs)
               PROVE  Framed(outs[k])
    BY DEF ResponseIsFramed
  <2>1. outs[k] \in Seq(Items) /\ Response(outs[k])
    BY OutsTyped DEF FInv, Answered
  <2> QED
    BY <2>1, ResponseFramed
<1> QED
  BY <1>1, AlwaysFInv, PTL

(* As long as the client has not gone, the next request begins and the     *)
(* connection closes only after the end of the response: the whole of it,  *)
(* or every byte that its file gives when that is less than was announced. *)
THEOREM ResponsesAreEnded == SafeSpec => []NoShortResponse
<1>1. FInv => NoShortResponse
  <2> SUFFICES ASSUME FInv, NEW k \in 1..Len(outs), gone = "no", outs[k] # <<>>,
                      k < Len(outs) \/ pc = "closed"
               PROVE  Delivered(k)
    BY DEF NoShortResponse
  <2>1. outs[k] \in Seq(Items) /\ Response(outs[k]) /\ Enough(k, outs[k])
    BY OutsTyped DEF FInv, Answered
  <2>2. Ended(outs[k]) => Whole(outs[k])
    BY <2>1, EndedIsWhole
  <2> QED
    BY <2>1, <2>2 DEF Delivered, Enough
<1> QED
  BY <1>1, AlwaysFInv, PTL

-----------------------------------------------------------------------------
(* RequestAsSent.  A well-formed request is m lines of three tokens, an    *)
(* empty line, and the body.                                               *)

Shape(s, m) ==
  /\ m \in Nat \ {0} /\ Len(s) >= 3 * m + 2
  /\ s[3 * m + 1] = "CR" /\ s[3 * m + 2] = "LF"
  /\ \A j \in 0..(m - 1) :
       /\ s[3 * j + 1] \in (IF j = 0 THEN {"REQ"} ELSE HeaderTokens)
       /\ s[3 * j + 2] = "CR" /\ s[3 * j + 3] = "LF"

LEMMA WellFormedShape ==
  ASSUME NEW s \in Seq(Tokens), WellFormed(s)
  PROVE  \E m : Shape(s, m) /\ EmptyLine(s) = 3 * m + 1
<1> DEFINE at == {i \in LineEnds(s) : i = 1 \/ i - 2 \in LineEnds(s)}
           e == EmptyLine(s)
           head == HeadOf(s)
<1>1. Len(s) \in Nat /\ at \in SUBSET Nat
  BY DEF LineEnds
<1>2. e > 1
  BY DEF WellFormed
<1>3. e \in at
  <2>1. e = IF at = {} THEN 0 ELSE CHOOSE i \in at : \A j \in at : i <= j
    BY DEF EmptyLine
  <2>2. at # {}
    BY <1>2, <2>1
  <2>3. \E i \in at : \A j \in at : i <= j
    <3> HIDE DEF at
    <3> QED
      BY <1>1, <2>2, LeastOf
  <2> QED
    <3> HIDE DEF at, e
    <3> QED
      BY <2>1, <2>2, <2>3
<1>4. /\ e \in Nat /\ e + 1 <= Len(s) /\ s[e] = "CR" /\ s[e + 1] = "LF"
      /\ e > 2 /\ s[e - 2] = "CR" /\ s[e - 1] = "LF"
  <2>1. e \in LineEnds(s) /\ e - 2 \in LineEnds(s)
    BY <1>2, <1>3
  <2> HIDE DEF e
  <2> QED
    BY <1>1, <2>1 DEF LineEnds
<1> HIDE DEF at, e
<1>5. head = SubSeq(s, 1, e - 1)
  BY DEF HeadOf, e
<1>6. head \in Seq(Tokens) /\ Len(head) = e - 1 /\ \A i \in 1..(e - 1) : head[i] = s[i]
  BY <1>1, <1>4, <1>5
<1>7. /\ \A i \in 1..Len(head) : i % 3 = 1 => head[i] \in IF i = 1 THEN {"REQ"} ELSE HeaderTokens
      /\ \A i \in 1..Len(head) : i % 3 = 2 => i \in LineEnds(head)
  BY DEF WellFormed
<1> HIDE DEF head
<1>8. ASSUME NEW i \in 1..(e - 1)
      PROVE  /\ i % 3 = 1 => s[i] \in IF i = 1 THEN {"REQ"} ELSE HeaderTokens
             /\ i % 3 = 2 => i <= e - 2 /\ s[i] = "CR" /\ s[i + 1] = "LF"
  <2>1. i \in 1..Len(head) /\ head[i] = s[i] /\ e - 1 \in Nat
    BY <1>4, <1>6
  <2>2. ASSUME i % 3 = 2
        PROVE  i <= e - 2 /\ s[i] = "CR" /\ s[i + 1] = "LF"
    <3>1. i \in 1..(e - 2) /\ head[i] = "CR" /\ head[i + 1] = "LF"
      BY <1>4, <1>6, <1>7, <2>1, <2>2 DEF LineEnds
    <3>2. i + 1 \in 1..(e - 1)
      BY <1>4, <3>1
    <3> QED
      BY <1>6, <2>1, <3>1, <3>2
  <2> QED
    BY <1>7, <2>1, <2>2
<1>9. (e - 1) % 3 = 0
  <2>1. e - 1 \in 1..(e - 1)
    BY <1>4
  <2>2. (e - 1) % 3 # 1
    BY <1>4, <1>8, <2>1 DEF HeaderTokens
  <2>3. (e - 1) % 3 # 2
    <3> SUFFICES ASSUME (e - 1) % 3 = 2 PROVE FALSE
      OBVIOUS
    <3>1. e - 1 <= e - 2
      BY <1>8, <2>1
    <3> QED
      BY <1>4, <3>1
  <2> QED
    BY <1>4, <2>2, <2>3
<1>10. PICK m \in Nat : e = 3 * m + 1
  <2> DEFINE d == e - 1
  <2>1. d \in Nat /\ d % 3 = 0
    BY <1>4, <1>9
  <2> HIDE DEF d
  <2>2. d \div 3 \in Nat /\ d = 3 * (d \div 3) + (d % 3)
    BY <2>1
  <2>3. d = 3 * (d \div 3)
    BY <2>1, <2>2
  <2>4. e = 3 * (d \div 3) + 1
    BY <1>4, <2>3 DEF d
  <2> QED
    BY <2>2, <2>4
<1>11. m # 0
  BY <1>4, <1>10
<1>12. ASSUME NEW j \in 0..(m - 1)
       PROVE  /\ s[3 * j + 1] \in (IF j = 0 THEN {"REQ"} ELSE HeaderTokens)
              /\ s[3 * j + 2] = "CR" /\ s[3 * j + 3] = "LF"
  <2>1. /\ 3 * j + 1 \in 1..(e - 1) /\ (3 * j + 1) % 3 = 1
        /\ 3 * j + 2 \in 1..(e - 1) /\ (3 * j + 2) % 3 = 2
        /\ (3 * j + 1 = 1 <=> j = 0) /\ (3 * j + 2) + 1 = 3 * j + 3
    BY <1>10, <1>11
  <2>2. s[3 * j + 1] \in (IF j = 0 THEN {"REQ"} ELSE HeaderTokens)
    BY <1>8, <2>1
  <2>3. s[3 * j + 2] = "CR" /\ s[(3 * j + 2) + 1] = "LF"
    BY <1>8, <2>1
  <2> QED
    BY <2>1, <2>2, <2>3
<1>13. Shape(s, m)
  <2>1. /\ m \in Nat \ {0} /\ Len(s) >= 3 * m + 2
        /\ s[3 * m + 1] = "CR" /\ s[3 * m + 2] = "LF"
    BY <1>1, <1>4, <1>10, <1>11
  <2> QED
    BY <1>12, <2>1 DEF Shape
<1> QED
  BY <1>10, <1>13 DEF e

(* What the first n tokens say.                                            *)
Said(s, n, p) ==
  /\ p.line <=> n > 0
  /\ p.keep <=> \E i \in 1..n : s[i] = "KEEP"
  /\ \/ p.length = 0 /\ \A i \in 1..n : s[i] \notin DOMAIN LengthOf
     \/ \E i \in 1..n : /\ s[i] \in DOMAIN LengthOf /\ p.length = LengthOf[s[i]]
                        /\ \A j \in (i + 1)..n : s[j] \notin DOMAIN LengthOf

LEMMA SaidMore ==
  ASSUME NEW s, NEW n \in Nat, NEW p, NEW q, Said(s, n, p),
         s[n + 1] \in Tokens, s[n + 2] = "CR", s[n + 3] = "LF",
         q.line, q.keep <=> p.keep \/ s[n + 1] = "KEEP",
         q.length = IF s[n + 1] \in DOMAIN LengthOf THEN LengthOf[s[n + 1]] ELSE p.length
  PROVE  Said(s, n + 3, q)
<1>1. "CR" \notin DOMAIN LengthOf /\ "LF" \notin DOMAIN LengthOf
  BY DEF LengthOf
<1>2. \A i \in 1..(n + 3) : i \in 1..n \/ i = n + 1 \/ i = n + 2 \/ i = n + 3
  OBVIOUS
<1>3. q.keep <=> \E i \in 1..(n + 3) : s[i] = "KEEP"
  <2>1. p.keep <=> \E i \in 1..n : s[i] = "KEEP"
    BY DEF Said
  <2> QED
    BY <1>2, <2>1
<1>4. CASE s[n + 1] \in DOMAIN LengthOf
  <2>1. n + 1 \in 1..(n + 3)
    OBVIOUS
  <2>2. \A j \in ((n + 1) + 1)..(n + 3) : s[j] \notin DOMAIN LengthOf
    BY <1>1
  <2> QED
    BY <1>3, <1>4, <2>1, <2>2 DEF Said
<1>5. CASE s[n + 1] \notin DOMAIN LengthOf
  <2>0. q.length = p.length
    BY <1>5
  <2>1. CASE p.length = 0 /\ \A i \in 1..n : s[i] \notin DOMAIN LengthOf
    <3>1. \A i \in 1..(n + 3) : s[i] \notin DOMAIN LengthOf
      BY <1>1, <1>2, <1>5, <2>1
    <3> QED
      BY <1>3, <2>0, <2>1, <3>1 DEF Said
  <2>2. CASE \E i \in 1..n : /\ s[i] \in DOMAIN LengthOf /\ p.length = LengthOf[s[i]]
                             /\ \A j \in (i + 1)..n : s[j] \notin DOMAIN LengthOf
    <3>1. PICK i \in 1..n : /\ s[i] \in DOMAIN LengthOf /\ p.length = LengthOf[s[i]]
                            /\ \A j \in (i + 1)..n : s[j] \notin DOMAIN LengthOf
      BY <2>2
    <3>2. \A j \in (i + 1)..(n + 3) : s[j] \notin DOMAIN LengthOf
      <4>1. \A j \in (i + 1)..(n + 3) : j \in (i + 1)..n \/ j = n + 1 \/ j = n + 2 \/ j = n + 3
        OBVIOUS
      <4> QED
        BY <1>1, <1>5, <3>1, <4>1
    <3>3. i \in 1..(n + 3)
      OBVIOUS
    <3> QED
      BY <1>3, <2>0, <3>1, <3>2, <3>3 DEF Said
  <2> QED
    BY <2>1, <2>2 DEF Said
<1> QED
  BY <1>4, <1>5

LEMMA SaidAll ==
  ASSUME NEW s \in Seq(Tokens), NEW m, Shape(s, m), EmptyLine(s) = 3 * m + 1,
         NEW p \in [line : BOOLEAN, keep : BOOLEAN, length : Nat], Said(s, 3 * m, p)
  PROVE  p = Meaning(s)
<1> DEFINE head == HeadOf(s)
           at == {i \in 1..Len(head) : head[i] \in DOMAIN LengthOf}
           n == 3 * m
<1>1. m \in Nat /\ m > 0 /\ n \in Nat /\ n > 0 /\ n <= Len(s) /\ s[1] = "REQ"
  <2>1. m \in Nat /\ m > 0 /\ Len(s) \in Nat /\ Len(s) >= 3 * m + 2
    BY DEF Shape
  <2>2. 0 \in 0..(m - 1) /\ 3 * 0 + 1 = 1
    BY <2>1
  <2>3. s[3 * 0 + 1] \in {"REQ"}
    BY <2>2 DEF Shape
  <2> QED
    BY <2>1, <2>2, <2>3
<1>2. head = SubSeq(s, 1, n)
  BY <1>1 DEF HeadOf
<1>3. head \in Seq(Tokens) /\ Len(head) = n /\ \A i \in 1..n : head[i] = s[i]
  BY <1>1, <1>2
<1> HIDE DEF head
<1>4. ToSet(head) = {head[i] : i \in 1..n}
  BY <1>3 DEF ToSet
<1> HIDE DEF n
<1>5. p.line = ("REQ" \in ToSet(head))
  <2>1. 1 \in 1..n /\ head[1] = "REQ"
    BY <1>1, <1>3
  <2>2. "REQ" \in ToSet(head)
    BY <1>4, <2>1
  <2>3. p.line
    BY <1>1 DEF Said, n
  <2> QED
    BY <2>2, <2>3
<1>6. p.keep = ("KEEP" \in ToSet(head))
  <2>1. p.keep <=> \E i \in 1..n : s[i] = "KEEP"
    BY DEF Said, n
  <2>2. "KEEP" \in ToSet(head) <=> \E i \in 1..n : s[i] = "KEEP"
    BY <1>3, <1>4
  <2> QED
    BY <2>1, <2>2
<1>7. p.length = LengthIn(head)
  <2>1. LengthIn(head) = IF at = {} THEN 0
                         ELSE LengthOf[head[CHOOSE i \in at : \A j \in at : j <= i]]
    BY DEF LengthIn
  <2>2. at = {i \in 1..n : s[i] \in DOMAIN LengthOf}
    BY <1>3
  <2>3. CASE p.length = 0 /\ \A i \in 1..n : s[i] \notin DOMAIN LengthOf
    <3>1. at = {}
      BY <2>2, <2>3
    <3> QED
      BY <2>1, <2>3, <3>1
  <2>4. CASE \E i \in 1..n : /\ s[i] \in DOMAIN LengthOf /\ p.length = LengthOf[s[i]]
                             /\ \A j \in (i + 1)..n : s[j] \notin DOMAIN LengthOf
    <3>1. PICK i \in 1..n : /\ s[i] \in DOMAIN LengthOf /\ p.length = LengthOf[s[i]]
                            /\ \A j \in (i + 1)..n : s[j] \notin DOMAIN LengthOf
      BY <2>4
    <3>2. i \in at /\ \A j \in at : j <= i
      <4>1. n \in Nat /\ i \in 1..n
        BY <1>1
      <4>2. i \in at
        BY <2>2, <3>1
      <4>3. ASSUME NEW j \in at PROVE j <= i
        <5>1. j \in 1..n /\ s[j] \in DOMAIN LengthOf
          BY <2>2
        <5>2. j \notin (i + 1)..n
          BY <3>1, <5>1
        <5> QED
          BY <4>1, <5>1, <5>2
      <4> QED
        BY <4>2, <4>3
    <3>3. at \subseteq Nat
      BY <1>1, <2>2
    <3>4. (CHOOSE x \in at : \A j \in at : j <= x) = i
      <4> HIDE DEF at
      <4> DEFINE x == CHOOSE y \in at : \A j \in at : j <= y
      <4>1. x \in at /\ \A j \in at : j <= x
        BY <3>2
      <4> HIDE DEF x
      <4>2. x <= i /\ i <= x /\ x \in Nat /\ i \in Nat
        BY <3>2, <3>3, <4>1
      <4> QED
        BY <4>2 DEF x
    <3> QED
      BY <1>3, <2>1, <3>1, <3>2, <3>4
  <2> QED
    BY <2>3, <2>4 DEF Said, n
<1> QED
  BY <1>5, <1>6, <1>7 DEF Meaning, head

-----------------------------------------------------------------------------
(* What has come of the request that is read or answered.                  *)

(* The lines of the head, without the empty one.                           *)
HeadLines(s) == (EmptyLine(s) - 1) \div 3

(* What the client sent and nobody has read.                               *)
Unread == inbox \o unsent

(* The next request has not been sent.                                     *)
Waits ==
  /\ pc \in {"readHeaders", "waitHeaders"}
  /\ asked = Len(outs) - 1
  /\ conn = NewConnection
  /\ inbox = <<>> /\ unsent = <<>>

InHead(s) ==
  /\ asked = Len(outs)
  /\ conn.buffer \o Unread = s /\ conn.stdin = <<>>
  /\ conn.offset <= Len(conn.buffer)
  /\ \E j \in 0..HeadLines(s) : conn.offset = 3 * j /\ Said(s, 3 * j, conn.params)

AtBody(s) ==
  /\ asked = Len(outs)
  /\ conn.buffer \o Unread = s /\ conn.stdin = <<>>
  /\ conn.offset <= Len(conn.buffer)
  /\ conn.offset = 3 * HeadLines(s) + 2
  /\ conn.params = Meaning(s)

InBody(s) ==
  /\ asked = Len(outs)
  /\ conn.stdin \o Unread = BodyOf(s) /\ need = Len(Unread)
  /\ conn.buffer = <<>> /\ conn.offset = 0
  /\ conn.params = Meaning(s)

InAnswer(s) ==
  /\ conn.params = Meaning(s) /\ conn.stdin = BodyOf(s)
  /\ conn.offset = Len(conn.buffer)
  /\ \/ asked = Len(outs) /\ inbox = <<>> /\ unsent = <<>>
     \/ asked = Len(outs) + 1 /\ Ended(Cur) /\ Unread = script[asked]

Received(s) ==
  \/ pc \in {"readHeaders", "waitHeaders", "scan"} /\ InHead(s)
  \/ pc = "readBody" /\ AtBody(s)
  \/ pc \in {"readSome", "waitBody"} /\ InBody(s)
  \/ Running /\ InAnswer(s)

Sound == \A k \in 1..Len(outs) : WellFormed(script[k])

Follows ==
  pc \notin {"closed", "trapped"} /\ Sound => Waits \/ Received(script[Len(outs)])

-----------------------------------------------------------------------------
(* Lemmas about the pieces of a request.                                   *)

(* Tokens that move from one place to the next.                            *)
Moves(a, t, r, c) == (a \o t) \o (r \o c) = a \o ((t \o r) \o c)

LEMMA Moved ==
  ASSUME NEW S, NEW a \in Seq(S), NEW t \in Seq(S), NEW r \in Seq(S), NEW c \in Seq(S)
  PROVE  Moves(a, t, r, c)
<1> DEFINE x == r \o c
<1>1. (t \o r) \o c = t \o x
  BY ConcatAssociative
<1>2. x \in Seq(S)
  BY ConcatProperties
<1> HIDE DEF x
<1>3. (a \o t) \o x = a \o (t \o x)
  BY <1>2, ConcatAssociative
<1> QED
  BY <1>1, <1>3 DEF x, Moves

Joins(a, t, r) == (a \o t) \o r = a \o (t \o r)

LEMMA Regrouped ==
  ASSUME NEW S, NEW a \in Seq(S), NEW t \in Seq(S), NEW r \in Seq(S)
  PROVE  Joins(a, t, r)
BY ConcatAssociative DEF Joins

LEMMA Parts ==
  ASSUME NEW S, NEW a \in Seq(S), NEW b \in Seq(S)
  PROVE  /\ a \o b \in Seq(S) /\ Len(a \o b) = Len(a) + Len(b)
         /\ Len(a) \in Nat /\ Len(b) \in Nat
         /\ \A i \in 1..Len(a) : (a \o b)[i] = a[i]
BY ConcatProperties

LEMMA RestOfConcat ==
  ASSUME NEW S, NEW a \in Seq(S), NEW b \in Seq(S), NEW n \in 0..Len(a)
  PROVE  SubSeq(a, n + 1, Len(a)) \o b = SubSeq(a \o b, n + 1, Len(a \o b))
<1> DEFINE q == a \o b
           r == SubSeq(a, n + 1, Len(a))
           t == SubSeq(q, n + 1, Len(q))
<1>1. /\ q \in Seq(S) /\ Len(q) = Len(a) + Len(b) /\ Len(a) \in Nat /\ Len(b) \in Nat
      /\ \A i \in 1..Len(a) + Len(b) : q[i] = IF i <= Len(a) THEN a[i] ELSE b[i - Len(a)]
  BY ConcatProperties
<1> HIDE DEF q
<1>2. /\ r \in Seq(S) /\ Len(r) = Len(a) - n
      /\ \A i \in 1..(Len(a) - n) : r[i] = a[n + i]
  BY Cut
<1>3. /\ t \in Seq(S) /\ Len(t) = Len(q) - n
      /\ \A i \in 1..(Len(q) - n) : t[i] = q[n + i]
  <2>1. n \in 0..Len(q)
    BY <1>1
  <2> QED
    BY <1>1, <2>1, Cut
<1> HIDE DEF r, t
<1>4. /\ r \o b \in Seq(S) /\ Len(r \o b) = Len(r) + Len(b)
      /\ \A i \in 1..Len(r) + Len(b) :
           (r \o b)[i] = IF i <= Len(r) THEN r[i] ELSE b[i - Len(r)]
  BY <1>2, ConcatProperties
<1>5. Len(r \o b) = Len(t)
  BY <1>1, <1>2, <1>3, <1>4
<1> DEFINE u == r \o b
<1>6. ASSUME NEW i \in 1..Len(u)
      PROVE  u[i] = t[i]
  <2>0. u \in Seq(S) /\ Len(u) = Len(q) - n /\ Len(r) \in Nat /\ n \in Nat /\ n <= Len(a)
    BY <1>1, <1>2, <1>4
  <2>1. i \in Nat /\ i > 0 /\ i <= Len(q) - n
    BY <2>0
  <2>2. t[i] = q[n + i]
    BY <1>3, <2>0, <2>1
  <2>3. q[n + i] = IF n + i <= Len(a) THEN a[n + i] ELSE b[(n + i) - Len(a)]
    BY <1>1, <2>0, <2>1
  <2>4. u[i] = IF i <= Len(r) THEN r[i] ELSE b[i - Len(r)]
    BY <1>1, <1>2, <1>4, <2>0, <2>1
  <2>5. (n + i) - Len(a) = i - Len(r)
    BY <1>1, <1>2, <2>0, <2>1
  <2>6. i <= Len(r) <=> n + i <= Len(a)
    BY <1>1, <1>2, <2>0, <2>1
  <2>7. i <= Len(r) => r[i] = a[n + i]
    BY <1>1, <1>2, <2>0, <2>1
  <2> QED
    BY <2>2, <2>3, <2>4, <2>5, <2>6, <2>7
<1>7. r \o b = t
  BY <1>3, <1>4, <1>5, <1>6, SeqEqual
<1> QED
  BY <1>7 DEF r, t, q

(* A well-formed request: its lines, the empty one, and the body.          *)
LEMMA ShapeOf ==
  ASSUME NEW s \in Seq(Tokens), WellFormed(s)
  PROVE  /\ HeadLines(s) \in Nat /\ HeadLines(s) > 0
         /\ Shape(s, HeadLines(s)) /\ EmptyLine(s) = 3 * HeadLines(s) + 1
         /\ BodyOf(s) = SubSeq(s, 3 * HeadLines(s) + 3, Len(s)) /\ BodyOf(s) \in Seq(Tokens)
         /\ Len(BodyOf(s)) = Meaning(s).length /\ Meaning(s).length \in Nat
         /\ Len(s) = 3 * HeadLines(s) + 2 + Meaning(s).length
<1>1. PICK m : Shape(s, m) /\ EmptyLine(s) = 3 * m + 1
  BY WellFormedShape
<1>2. m \in Nat /\ m > 0 /\ Len(s) \in Nat /\ Len(s) >= 3 * m + 2
  BY <1>1 DEF Shape
<1>3. HeadLines(s) = m
  <2>1. 3 * m \in Nat /\ (3 * m + 1) - 1 = 3 * m /\ (3 * m) \div 3 = m
    BY <1>2
  <2> QED
    BY <1>1, <2>1 DEF HeadLines
<1>4. BodyOf(s) = SubSeq(s, 3 * m + 3, Len(s))
  BY <1>1, <1>2 DEF BodyOf
<1>5. BodyOf(s) \in Seq(Tokens) /\ Len(BodyOf(s)) = Len(s) - (3 * m + 2)
  <2>1. 3 * m + 2 \in 0..Len(s) /\ (3 * m + 2) + 1 = 3 * m + 3
    BY <1>2
  <2> QED
    BY <1>4, <2>1, Cut
<1>6. Len(BodyOf(s)) = Meaning(s).length
  BY DEF WellFormed
<1>7. /\ Meaning(s).length \in Nat
      /\ Len(s) = 3 * m + 2 + Meaning(s).length
  BY <1>2, <1>5, <1>6
<1> QED
  BY <1>1, <1>2, <1>3, <1>4, <1>5, <1>6, <1>7

LEMMA FirstCRIsFirst ==
  ASSUME conn \in Connections,
         NEW i \in (conn.offset + 1)..Len(conn.buffer), conn.buffer[i] = "CR"
  PROVE  FirstCR # 0 /\ FirstCR <= i
<1> DEFINE at == {x \in (conn.offset + 1)..Len(conn.buffer) : conn.buffer[x] = "CR"}
<1>1. conn.offset \in Nat /\ Len(conn.buffer) \in Nat
  BY DEF Connections
<1>2. FirstCR = IF at = {} THEN 0 ELSE CHOOSE x \in at : \A j \in at : x <= j
  BY DEF FirstCR
<1>3. at \in SUBSET Nat /\ i \in at /\ 0 \notin at
  BY <1>1
<1> HIDE DEF at
<1>4. \E x \in at : \A j \in at : x <= j
  BY <1>3, LeastOf
<1>5. FirstCR \in at /\ \A j \in at : FirstCR <= j
  BY <1>2, <1>3, <1>4
<1> QED
  BY <1>3, <1>5

-----------------------------------------------------------------------------
(* The scanner on a well-formed request.                                   *)

(* What the buffer holds is the beginning of the request.                  *)
LEMMA BufferBegins ==
  ASSUME Typed, NEW s \in Seq(Tokens), conn.buffer \o Unread = s
  PROVE  /\ Len(conn.buffer) \in Nat /\ Len(s) \in Nat /\ Len(conn.buffer) <= Len(s)
         /\ \A i \in 1..Len(conn.buffer) : conn.buffer[i] = s[i]
         /\ Unread \in Seq(Tokens) /\ Len(s) = Len(conn.buffer) + Len(Unread)
<1>1. conn.buffer \in Seq(Tokens)
  BY DEF Typed, Connections
<1>2. Unread \in Seq(Tokens)
  BY ConcatProperties DEF Typed, Unread
<1> QED
  BY <1>1, <1>2, Parts

(* At a line: its CR is the first, and it is one token long.               *)
LEMMA AtLine ==
  ASSUME Typed, NEW s \in Seq(Tokens), WellFormed(s),
         conn.buffer \o Unread = s, conn.offset <= Len(conn.buffer),
         NEW j \in Nat, j < HeadLines(s), conn.offset = 3 * j,
         FirstCR \notin {0, Len(conn.buffer)}
  PROVE  /\ FirstCR = 3 * j + 2 /\ 3 * j + 3 <= Len(conn.buffer)
         /\ conn.buffer[FirstCR + 1] = "LF"
         /\ Line = <<s[3 * j + 1]>>
         /\ s[3 * j + 1] \in (IF j = 0 THEN {"REQ"} ELSE HeaderTokens)
         /\ s[3 * j + 2] = "CR" /\ s[3 * j + 3] = "LF"
<1>1. conn \in Connections /\ conn.buffer \in Seq(Tokens)
  BY DEF Typed, Connections
<1>2. /\ Len(conn.buffer) \in Nat /\ Len(s) \in Nat /\ Len(conn.buffer) <= Len(s)
      /\ \A i \in 1..Len(conn.buffer) : conn.buffer[i] = s[i]
  BY BufferBegins
<1>3. /\ s[3 * j + 1] \in (IF j = 0 THEN {"REQ"} ELSE HeaderTokens)
      /\ s[3 * j + 2] = "CR" /\ s[3 * j + 3] = "LF"
  <2>1. Shape(s, HeadLines(s)) /\ HeadLines(s) \in Nat
    BY ShapeOf
  <2>2. j \in 0..(HeadLines(s) - 1)
    BY <2>1
  <2> QED
    BY <2>1, <2>2 DEF Shape
<1>4. s[3 * j + 1] # "CR"
  BY <1>3 DEF HeaderTokens
<1> DEFINE f == FirstCR
<1>5. f \in Nat /\ f # 0 /\ f < Len(conn.buffer) /\ f > 3 * j /\ conn.buffer[f] = "CR"
  BY <1>1, <1>2, FirstCRTyped
<1>6. f >= 3 * j + 2
  <2>1. f # 3 * j + 1
    <3>1. conn.buffer[f] = s[f]
      BY <1>2, <1>5
    <3> QED
      BY <1>4, <1>5, <3>1
  <2> QED
    BY <1>5, <2>1
<1>7. f <= 3 * j + 2
  <2>1. 3 * j + 2 \in (conn.offset + 1)..Len(conn.buffer)
    BY <1>2, <1>5, <1>6
  <2>2. conn.buffer[3 * j + 2] = "CR"
    BY <1>2, <1>3, <2>1
  <2> QED
    BY <1>1, <2>1, <2>2, FirstCRIsFirst
<1>8. f = 3 * j + 2 /\ 3 * j + 3 <= Len(conn.buffer)
  BY <1>2, <1>5, <1>6, <1>7
<1>9. conn.buffer[f + 1] = "LF"
  BY <1>2, <1>3, <1>8
<1>10. Line = <<s[3 * j + 1]>>
  <2>1. Line = SubSeq(conn.buffer, 3 * j + 1, 3 * j + 1)
    BY <1>8 DEF Line
  <2>2. 3 * j + 1 \in 1..Len(conn.buffer) /\ conn.buffer[3 * j + 1] = s[3 * j + 1]
    BY <1>2, <1>8
  <2> DEFINE i == 3 * j + 1
             b == conn.buffer
  <2>3. b \in Seq(Tokens) /\ i \in 1..Len(b) /\ b[i] = s[i]
    BY <1>1, <2>2
  <2> HIDE DEF i, b
  <2>4. SubSeq(b, i, i) = <<b[i]>>
    <3>1. i \in Int /\ i - i + 1 = 1 /\ \A x \in i..i : b[x] \in Tokens
      BY <2>3
    <3>2. /\ SubSeq(b, i, i) \in Seq(Tokens) /\ Len(SubSeq(b, i, i)) = 1
          /\ SubSeq(b, i, i)[1] = b[i]
      BY <3>1, SubSeqProperties
    <3> DEFINE q == SubSeq(b, i, i)
    <3>3. q \in Seq(Tokens) /\ Len(q) = 1 /\ q[1] = b[i]
      BY <3>2
    <3> HIDE DEF q
    <3>4. q = <<b[i]>>
      BY <3>3
    <3> QED
      BY <3>4 DEF q
  <2> QED
    BY <2>1, <2>3, <2>4 DEF i, b
<1> QED
  BY <1>3, <1>8, <1>9, <1>10

(* At the empty line.                                                      *)
LEMMA AtEmptyLine ==
  ASSUME Typed, NEW s \in Seq(Tokens), WellFormed(s),
         conn.buffer \o Unread = s, conn.offset <= Len(conn.buffer),
         conn.offset = 3 * HeadLines(s),
         FirstCR \notin {0, Len(conn.buffer)}
  PROVE  /\ FirstCR = 3 * HeadLines(s) + 1 /\ FirstCR + 1 <= Len(conn.buffer)
         /\ conn.buffer[FirstCR + 1] = "LF"
         /\ Line = <<>>
<1> DEFINE m == HeadLines(s)
           f == FirstCR
<1>1. conn \in Connections /\ conn.buffer \in Seq(Tokens)
  BY DEF Typed, Connections
<1>2. /\ Len(conn.buffer) \in Nat /\ Len(s) \in Nat /\ Len(conn.buffer) <= Len(s)
      /\ \A i \in 1..Len(conn.buffer) : conn.buffer[i] = s[i]
  BY BufferBegins
<1>3. m \in Nat /\ s[3 * m + 1] = "CR" /\ s[3 * m + 2] = "LF"
  BY ShapeOf DEF Shape
<1>5. f \in Nat /\ f # 0 /\ f < Len(conn.buffer) /\ f > 3 * m
  BY <1>1, <1>2, FirstCRTyped
<1>6. f = 3 * m + 1
  <2>1. 3 * m + 1 \in (conn.offset + 1)..Len(conn.buffer)
    BY <1>2, <1>3, <1>5
  <2>2. conn.buffer[3 * m + 1] = "CR"
    BY <1>2, <1>3, <2>1
  <2>3. f <= 3 * m + 1
    BY <1>1, <2>1, <2>2, FirstCRIsFirst
  <2> QED
    BY <1>3, <1>5, <2>3
<1>7. conn.buffer[f + 1] = "LF" /\ f + 1 <= Len(conn.buffer)
  <2>1. f + 1 = 3 * m + 2 /\ f + 1 \in 1..Len(conn.buffer)
    BY <1>2, <1>3, <1>5, <1>6
  <2> QED
    BY <1>2, <1>3, <2>1
<1>8. Line = <<>>
  <2>0. conn.offset + 1 = 3 * m + 1 /\ f - 1 = 3 * m
    BY <1>3, <1>6
  <2>1. Line = SubSeq(conn.buffer, 3 * m + 1, 3 * m)
    BY <2>0 DEF Line
  <2>2. 3 * m < 3 * m + 1 /\ 3 * m \in Int /\ 3 * m + 1 \in Int
    BY <1>3
  <2> QED
    BY <2>1, <2>2, SubSeqEmpty
<1> QED
  BY <1>6, <1>7, <1>8

(* Reading more of the head.                                               *)
LEMMA HeadRead ==
  ASSUME Typed, NEW s \in Seq(Tokens), WellFormed(s), InHead(s),
         NEW n \in 1..Len(inbox), DidRead(n), UNCHANGED <<asked, unsent, outs>>
  PROVE  InHead(s)'
<1> DEFINE take == SubSeq(inbox, 1, n)
           rest == SubSeq(inbox, n + 1, Len(inbox))
           buffer == conn.buffer \o take
           skip == IF buffer[conn.offset + 1] = "LF" THEN 1 ELSE 0
<1>1. /\ conn' = [conn EXCEPT !.buffer = buffer, !.offset = @ + skip]
      /\ inbox' = rest
  BY DEF DidRead
<1>2. /\ inbox \in Seq(Tokens) /\ unsent \in Seq(Tokens) /\ conn \in Connections
      /\ conn.buffer \in Seq(Tokens) /\ n \in 0..Len(inbox) /\ n \in Nat /\ n > 0 /\ conn.offset \in Nat
  BY DEF Typed, Connections
<1>3. take \in Seq(Tokens) /\ rest \in Seq(Tokens) /\ Len(take) = n
  BY <1>2, Cut
<1>4. buffer \o (rest \o unsent) = s
  <2> DEFINE b == conn.buffer
  <2>0. b \in Seq(Tokens)
    BY <1>2
  <2>2. take \o rest = inbox
    BY <1>2, Cut
  <2> HIDE DEF b, take, rest
  <2>3. (b \o take) \o (rest \o unsent) = b \o ((take \o rest) \o unsent)
    <3>1. take \in Seq(Tokens) /\ rest \in Seq(Tokens) /\ unsent \in Seq(Tokens)
      BY <1>2, <1>3
    <3>2. Moves(b, take, rest, unsent)
      BY <2>0, <3>1, Moved
    <3> QED
      BY <3>2 DEF Moves
  <2>1. (b \o take) \o (rest \o unsent) = b \o (inbox \o unsent)
    BY <2>2, <2>3
  <2> QED
    BY <2>1 DEF InHead, Unread, b
<1>5. buffer \in Seq(Tokens) /\ Len(buffer) = Len(conn.buffer) + n
  BY <1>2, <1>3, ConcatProperties
<1>6. rest \o unsent \in Seq(Tokens)
  BY <1>2, <1>3, ConcatProperties
<1>7. PICK j \in 0..HeadLines(s) : conn.offset = 3 * j /\ Said(s, 3 * j, conn.params)
  BY DEF InHead
<1>8. conn.offset <= Len(conn.buffer) /\ Len(conn.buffer) \in Nat
  BY <1>2 DEF InHead
<1> HIDE DEF take, rest
<1>9. skip = 0
  <2>1. conn.offset + 1 \in 1..Len(buffer)
    <3> DEFINE o == conn.offset
               l == Len(conn.buffer)
    <3>1. o \in Nat /\ l \in Nat /\ o <= l /\ Len(buffer) = l + n /\ n \in Nat /\ n > 0
      BY <1>2, <1>5, <1>8
    <3> HIDE DEF o, l, buffer
    <3>2. o + 1 \in 1..Len(buffer)
      BY <3>1
    <3> QED
      BY <3>2 DEF o
  <2>2. buffer[conn.offset + 1] = s[conn.offset + 1]
    <3> DEFINE r == rest \o unsent
    <3>1. r \in Seq(Tokens) /\ buffer \o r = s
      BY <1>4, <1>6
    <3> HIDE DEF r, buffer
    <3> QED
      BY <1>5, <2>1, <3>1, Parts
  <2>3. s[3 * j + 1] # "LF"
    <3>1. Shape(s, HeadLines(s)) /\ HeadLines(s) \in Nat
      BY ShapeOf
    <3>2. CASE j = HeadLines(s)
      BY <3>1, <3>2 DEF Shape
    <3>3. CASE j # HeadLines(s)
      <4>1. j \in 0..(HeadLines(s) - 1)
        BY <3>1, <3>3
      <4>2. s[3 * j + 1] \in (IF j = 0 THEN {"REQ"} ELSE HeaderTokens)
        BY <3>1, <4>1 DEF Shape
      <4> QED
        BY <4>2 DEF HeaderTokens
    <3> QED
      BY <3>2, <3>3
  <2> QED
    BY <1>7, <2>2, <2>3
<1> HIDE DEF buffer, skip
<1>10. /\ conn'.buffer = buffer /\ conn'.offset = conn.offset
       /\ conn'.params = conn.params /\ conn'.stdin = conn.stdin
  BY <1>1, <1>2, <1>9 DEF Connections
<1>11. conn'.offset <= Len(conn'.buffer)
  BY <1>2, <1>5, <1>8, <1>10
<1>12. conn'.buffer \o Unread' = s
  BY <1>1, <1>4, <1>10 DEF Unread
<1> QED
  BY <1>7, <1>10, <1>11, <1>12 DEF InHead

(* What a header does to the connection.                                   *)
HeaderTaken(key) ==
  /\ conn' \in Connections
  /\ conn'.buffer = conn.buffer /\ conn'.offset = FirstCR + 1 /\ conn'.stdin = conn.stdin
  /\ conn'.params.line = conn.params.line
  /\ conn'.params.keep <=> conn.params.keep \/ key = "KEEP"
  /\ conn'.params.length = IF key \in DOMAIN LengthOf THEN LengthOf[key] ELSE conn.params.length

LEMMA HeaderScanned ==
  ASSUME ScanHeader, conn \in Connections
  PROVE  /\ pc' = "scan" /\ conn.offset # 0
         /\ \E key \in HeaderTokens \cap ToSet(Line) : HeaderTaken(key)
<1>1. PICK key \in HeaderTokens \cap ToSet(Line) :
        /\ conn' = [NextLine EXCEPT
              !.lastKey = key,
              !.params.keep = @ \/ key = "KEEP",
              !.params.length = IF key \in DOMAIN LengthOf THEN LengthOf[key] ELSE @]
        /\ pc' = "scan"
  BY Zenon DEF ScanHeader
<1>2. key \in DOMAIN LengthOf => LengthOf[key] \in Nat
  BY DEF LengthOf
<1>3. /\ NextLine \in Connections
      /\ NextLine.buffer = conn.buffer /\ NextLine.offset = FirstCR + 1
      /\ NextLine.params = conn.params /\ NextLine.stdin = conn.stdin
  BY LineTyped DEF NextLine, Connections
<1> DEFINE length == IF key \in DOMAIN LengthOf THEN LengthOf[key] ELSE NextLine.params.length
           keep == NextLine.params.keep \/ key = "KEEP"
<1>4. length \in Nat /\ keep \in BOOLEAN
  BY <1>2, <1>3 DEF Connections
<1>5. conn' = [NextLine EXCEPT !.lastKey = key, !.params.keep = keep, !.params.length = length]
  BY <1>1, <1>3 DEF Connections
<1>6. keep <=> conn.params.keep \/ key = "KEEP"
  BY <1>3
<1>7. length = IF key \in DOMAIN LengthOf THEN LengthOf[key] ELSE conn.params.length
  BY <1>3
<1> HIDE DEF length, keep
<1>8. /\ conn' \in Connections
      /\ conn'.buffer = NextLine.buffer /\ conn'.offset = NextLine.offset
      /\ conn'.stdin = NextLine.stdin /\ conn'.params.line = NextLine.params.line
      /\ conn'.params.keep = keep /\ conn'.params.length = length
  <2> DEFINE c == NextLine
  <2>1. c \in Connections /\ key \in HeaderTokens
    BY <1>1, <1>3
  <2>2. conn' = [c EXCEPT !.lastKey = key, !.params.keep = keep, !.params.length = length]
    BY <1>5
  <2> HIDE DEF c
  <2>3. conn' \in Connections
    BY <1>4, <2>1, <2>2 DEF Connections
  <2>4. conn'.buffer = c.buffer /\ conn'.offset = c.offset /\ conn'.stdin = c.stdin
    BY <2>1, <2>2 DEF Connections
  <2>5. conn'.params.line = c.params.line /\ conn'.params.length = length
    BY <2>1, <2>2 DEF Connections
  <2>6. conn'.params.keep = keep
    BY <2>1, <2>2 DEF Connections
  <2> QED
    BY <2>3, <2>4, <2>5, <2>6 DEF c
<1>9. HeaderTaken(key)
  BY <1>3, <1>6, <1>7, <1>8 DEF HeaderTaken
<1>10. conn.offset # 0
  BY Zenon DEF ScanHeader
<1> QED
  BY <1>1, <1>9, <1>10

LEMMA LineFound ==
  ASSUME \/ ScanMalformed \/ EndOfHeaders \/ ScanContinuation
         \/ ScanRequestLine \/ ScanHeader \/ ScanNoColon
  PROVE  FirstCR \notin {0, Len(conn.buffer)} /\ Scanning
<1>1. CASE ScanMalformed
  BY <1>1 DEF ScanMalformed
<1>2. ASSUME NEW line, LineIs(line)
      PROVE  FirstCR \notin {0, Len(conn.buffer)}
  BY <1>2, Zenon DEF LineIs
<1>3. CASE EndOfHeaders
  BY <1>2, <1>3, Zenon DEF EndOfHeaders
<1>4. CASE ScanContinuation
  BY <1>2, <1>4, Zenon DEF ScanContinuation
<1>5. CASE ScanRequestLine
  BY <1>2, <1>5, Zenon DEF ScanRequestLine
<1>6. CASE ScanHeader
  BY <1>2, <1>6, Zenon DEF ScanHeader
<1>7. CASE ScanNoColon
  BY <1>2, <1>7, Zenon DEF ScanNoColon
<1> QED
  BY <1>1, <1>3, <1>4, <1>5, <1>6, <1>7

(* Scanning the head: line by line, to the empty one.                      *)
LEMMA LineScanned ==
  ASSUME Typed, NEW s \in Seq(Tokens), WellFormed(s), InHead(s),
         NEW j \in Nat, j < HeadLines(s), conn.offset = 3 * j, Said(s, 3 * j, conn.params),
         \/ ScanMalformed \/ EndOfHeaders \/ ScanContinuation
         \/ ScanRequestLine \/ ScanHeader \/ ScanNoColon
  PROVE  InHead(s)' /\ pc' = "scan"
<1> DEFINE tok == s[3 * j + 1]
<1>1. conn.buffer \o Unread = s /\ conn.offset <= Len(conn.buffer) /\ conn \in Connections
  BY DEF InHead, Typed
<1>2. FirstCR \notin {0, Len(conn.buffer)} /\ Scanning
  BY LineFound
<1>3. /\ FirstCR = 3 * j + 2 /\ 3 * j + 3 <= Len(conn.buffer)
      /\ conn.buffer[FirstCR + 1] = "LF"
      /\ Line = <<tok>>
      /\ tok \in (IF j = 0 THEN {"REQ"} ELSE HeaderTokens)
      /\ s[3 * j + 2] = "CR" /\ s[3 * j + 3] = "LF"
  BY <1>1, <1>2, AtLine
<1>4. UNCHANGED <<asked, inbox, unsent, outs>>
  BY <1>2 DEF Scanning, Stay, client, writing
<1>5. /\ Line # <<>> /\ Line[1] = tok /\ ToSet(Line) = {tok} /\ ~IsBlank(tok)
      /\ tok \in Tokens
  <2>1. Len(Line) = 1 /\ Line[1] = tok
    BY <1>3
  <2>2. ToSet(Line) = {tok}
    BY <1>3 DEF ToSet
  <2>3. tok \in Tokens /\ ~IsBlank(tok)
    BY <1>3 DEF HeaderTokens, Tokens, IsBlank
  <2>4. Line # <<>>
    <3>1. <<tok>> # <<>>
      OBVIOUS
    <3> QED
      BY <1>3, <3>1, Zenon
  <2> QED
    BY <2>1, <2>2, <2>3, <2>4
<1>6. ~ScanMalformed
  BY <1>3 DEF ScanMalformed
<1>7. ~EndOfHeaders
  BY <1>5 DEF EndOfHeaders, LineIs, Line
<1>8. ~ScanContinuation
  BY <1>5 DEF ScanContinuation
<1>9. ~ScanNoColon
  <2> SUFFICES ASSUME ScanNoColon PROVE FALSE
    OBVIOUS
  <2>1. j # 0 /\ tok \notin HeaderTokens
    BY <1>5 DEF ScanNoColon
  <2> QED
    BY <1>3, <2>1
<1>10. /\ NextLine.buffer = conn.buffer /\ NextLine.offset = 3 * (j + 1)
       /\ NextLine.params = conn.params /\ NextLine.stdin = conn.stdin
       /\ NextLine \in Connections
  <2>1. FirstCR + 1 = 3 * (j + 1)
    BY <1>3
  <2> QED
    BY <1>1, <2>1, LineTyped DEF NextLine, Connections
<1>11. ASSUME NEW p, Said(s, 3 * (j + 1), p), conn' \in Connections,
              conn'.buffer = conn.buffer, conn'.offset = 3 * (j + 1),
              conn'.stdin = conn.stdin, conn'.params = p
       PROVE  InHead(s)'
  <2>1. j + 1 \in 0..HeadLines(s)
    BY ShapeOf
  <2>2. conn'.offset <= Len(conn'.buffer)
    BY <1>3, <1>11
  <2>3. conn'.buffer \o Unread' = s
    BY <1>1, <1>4, <1>11 DEF Unread
  <2> QED
    BY <1>4, <1>11, <2>1, <2>2, <2>3 DEF InHead
<1> HIDE DEF tok
<1>12. /\ 3 * j \in Nat /\ 3 * (j + 1) = 3 * j + 3
       /\ s[3 * j + 1] = tok
  BY DEF tok
<1>13. ASSUME ScanRequestLine
       PROVE  InHead(s)' /\ pc' = "scan"
  <2>1. j = 0 /\ conn' = [NextLine EXCEPT !.params.line = TRUE] /\ pc' = "scan"
    BY <1>13 DEF ScanRequestLine
  <2>2. tok = "REQ"
    BY <1>3, <2>1
  <2>3. /\ conn' \in Connections /\ conn'.buffer = conn.buffer
        /\ conn'.offset = 3 * (j + 1) /\ conn'.stdin = conn.stdin
        /\ conn'.params.line = TRUE /\ conn'.params.keep = conn.params.keep
        /\ conn'.params.length = conn.params.length
    BY <1>10, <2>1 DEF Connections
  <2>4. tok # "KEEP" /\ tok \notin DOMAIN LengthOf
    BY <2>2 DEF LengthOf
  <2> DEFINE q == conn'.params
             p == conn.params
  <2>5. q.line /\ (q.keep <=> p.keep \/ tok = "KEEP") /\ q.length = p.length
    BY <2>3, <2>4
  <2> HIDE DEF q, p
  <2>6. Said(s, 3 * j, p)
    BY DEF p
  <2>7. Said(s, 3 * j + 3, q)
    BY <1>3, <1>5, <1>12, <2>4, <2>5, <2>6, SaidMore
  <2> QED
    BY <1>11, <1>12, <2>1, <2>3, <2>7 DEF q
<1>14. ASSUME ScanHeader
       PROVE  InHead(s)' /\ pc' = "scan"
  <2>1. PICK key \in HeaderTokens \cap ToSet(Line) : HeaderTaken(key)
    BY <1>1, <1>14, HeaderScanned
  <2>2. key = tok /\ j # 0 /\ pc' = "scan"
    <3>1. conn.offset # 0 /\ pc' = "scan"
      BY <1>1, <1>14, HeaderScanned
    <3> QED
      BY <1>5, <2>1, <3>1
  <2>7. /\ conn' \in Connections /\ conn'.buffer = conn.buffer
        /\ conn'.offset = 3 * (j + 1) /\ conn'.stdin = conn.stdin
    BY <1>3, <2>1 DEF HeaderTaken
  <2>8. conn.params.line
    BY <2>2 DEF Said
  <2> DEFINE q == conn'.params
             p == conn.params
  <2>9. /\ q.line /\ (q.keep <=> p.keep \/ tok = "KEEP")
        /\ q.length = IF tok \in DOMAIN LengthOf THEN LengthOf[tok] ELSE p.length
    BY <2>1, <2>2, <2>8 DEF HeaderTaken
  <2> HIDE DEF q, p
  <2>10. Said(s, 3 * j, p)
    BY DEF p
  <2>11. Said(s, 3 * j + 3, q)
    BY <1>3, <1>5, <1>12, <2>9, <2>10, SaidMore
  <2> QED
    BY <1>11, <1>12, <2>2, <2>7, <2>11 DEF q
<1> QED
  BY <1>6, <1>7, <1>8, <1>9, <1>13, <1>14

LEMMA HeadScanned ==
  ASSUME Typed, NEW s \in Seq(Tokens), WellFormed(s), InHead(s),
         \/ ScanMore \/ ScanMalformed \/ EndOfHeaders \/ ScanContinuation
         \/ ScanRequestLine \/ ScanHeader \/ ScanNoColon
  PROVE  Received(s)'
<1>1. /\ conn.buffer \o Unread = s /\ conn.offset <= Len(conn.buffer)
      /\ conn \in Connections /\ conn.stdin = <<>> /\ asked = Len(outs)
  BY DEF InHead, Typed
<1>2. PICK j \in 0..HeadLines(s) : conn.offset = 3 * j /\ Said(s, 3 * j, conn.params)
  BY DEF InHead
<1>3. UNCHANGED <<asked, inbox, unsent, outs>>
  <2>1. Scanning
    BY LineFound DEF ScanMore
  <2> QED
    BY <2>1 DEF Scanning, Stay, client, writing
<1>4. HeadLines(s) \in Nat
  BY ShapeOf
<1>5. CASE ScanMore
  <2>1. conn' = conn /\ pc' = "readHeaders" /\ Unread' = Unread
    BY <1>3, <1>5 DEF ScanMore, Unread
  <2>2. InHead(s)'
    BY <1>1, <1>2, <1>3, <2>1 DEF InHead
  <2> QED
    BY <2>1, <2>2 DEF Received
<1>6. CASE ~ScanMore /\ j < HeadLines(s)
  <2>1. InHead(s)' /\ pc' = "scan"
    BY <1>2, <1>4, <1>6, LineScanned
  <2> QED
    BY <2>1 DEF Received
<1>7. CASE ~ScanMore /\ j = HeadLines(s)
  <2>1. FirstCR \notin {0, Len(conn.buffer)}
    BY <1>7, LineFound
  <2>2. /\ FirstCR = 3 * HeadLines(s) + 1 /\ FirstCR + 1 <= Len(conn.buffer)
        /\ conn.buffer[FirstCR + 1] = "LF"
        /\ Line = <<>>
    BY <1>1, <1>2, <1>7, <2>1, AtEmptyLine
  <2>3. EndOfHeaders
    BY <1>7, <2>2 DEF ScanMalformed, ScanContinuation, ScanRequestLine, ScanHeader, ScanNoColon
  <2>4. conn' = NextLine /\ pc' = "readBody"
    BY <2>3 DEF EndOfHeaders
  <2>5. /\ conn'.buffer = conn.buffer /\ conn'.offset = FirstCR + 1
        /\ conn'.params = conn.params /\ conn'.stdin = conn.stdin
    BY <1>1, <2>4 DEF NextLine, Connections
  <2>6. conn.params = Meaning(s)
    <3>1. conn.params \in [line : BOOLEAN, keep : BOOLEAN, length : Nat]
      BY <1>1 DEF Connections
    <3>2. Shape(s, HeadLines(s)) /\ EmptyLine(s) = 3 * HeadLines(s) + 1
      BY ShapeOf
    <3> QED
      BY <1>2, <1>7, <3>1, <3>2, SaidAll
  <2>7. conn'.offset = 3 * HeadLines(s) + 2 /\ conn'.offset <= Len(conn'.buffer)
    BY <1>4, <2>2, <2>5
  <2>8. conn'.buffer \o Unread' = s
    BY <1>1, <1>3, <2>5 DEF Unread
  <2>9. AtBody(s)'
    BY <1>1, <1>3, <2>5, <2>6, <2>7, <2>8 DEF AtBody
  <2> QED
    BY <2>4, <2>9 DEF Received
<1> QED
  BY <1>2, <1>4, <1>5, <1>6, <1>7

(* Reading the body.                                                       *)
LEMMA BodyStarts ==
  ASSUME Typed, NEW s \in Seq(Tokens), WellFormed(s), AtBody(s), ReadBody
  PROVE  Received(s)'
<1> DEFINE m == HeadLines(s)
           l == Meaning(s).length
           rest == SubSeq(conn.buffer, conn.offset + 1, Len(conn.buffer))
<1>1. /\ conn \in Connections /\ conn.buffer \in Seq(Tokens)
      /\ conn.buffer \o Unread = s /\ conn.stdin = <<>> /\ conn.params = Meaning(s)
      /\ conn.offset = 3 * m + 2 /\ conn.offset <= Len(conn.buffer) /\ asked = Len(outs)
  BY DEF AtBody, Typed, Connections
<1>2. /\ Len(conn.buffer) \in Nat /\ Unread \in Seq(Tokens) /\ Len(Unread) \in Nat
      /\ Len(s) = Len(conn.buffer) + Len(Unread)
  <2>1. Unread \in Seq(Tokens) => Len(Unread) \in Nat
    OBVIOUS
  <2> QED
    BY <1>1, <2>1, BufferBegins
<1>3. /\ m \in Nat /\ l \in Nat /\ Len(s) = 3 * m + 2 + l
      /\ BodyOf(s) = SubSeq(s, 3 * m + 3, Len(s))
      /\ BodyOf(s) \in Seq(Tokens) /\ Len(BodyOf(s)) = l
  BY ShapeOf
<1> DEFINE o == conn.offset
<1>0. o \in Nat /\ o = 3 * m + 2 /\ o + 1 = 3 * m + 3 /\ o \in 0..Len(conn.buffer)
  <2>1. conn.offset \in Nat
    BY <1>1 DEF Connections
  <2>2. m \in Nat
    BY <1>3
  <2> HIDE DEF m
  <2> QED
    BY <1>1, <1>2, <2>1, <2>2
<1>4. UNCHANGED <<asked, inbox, unsent, outs>> /\ Unread' = Unread
  BY DEF ReadBody, client, writing, Unread
<1>5. Unread = <<>> => inbox = <<>> /\ unsent = <<>>
  BY ConcatEqualIffEmpty DEF Unread, Typed
<1>6. rest \o Unread = BodyOf(s)
  <2> DEFINE n == o
             b == conn.buffer
  <2>1. b \in Seq(Tokens) /\ n \in 0..Len(b) /\ b \o Unread = s /\ n + 1 = 3 * m + 3
    BY <1>0, <1>1
  <2>2. rest = SubSeq(b, n + 1, Len(b))
    BY <1>1
  <2> HIDE DEF n, b, rest
  <2>3. SubSeq(b, n + 1, Len(b)) \o Unread = SubSeq(b \o Unread, n + 1, Len(b \o Unread))
    BY <1>2, <2>1, RestOfConcat
  <2> QED
    BY <1>3, <2>1, <2>2, <2>3
<1>7. rest \in Seq(Tokens) /\ Len(rest) = Len(conn.buffer) - (3 * m + 2)
  <2>1. rest \in Seq(Tokens) /\ Len(rest) = Len(conn.buffer) - o
    BY <1>0, <1>1, Cut
  <2> QED
    BY <1>0, <2>1
<1>8. CASE l = 0
  <2>1. pc' = "run" /\ conn' = conn
    BY <1>1, <1>8 DEF ReadBody
  <2>2. Len(Unread) = 0 /\ Len(conn.buffer) = 3 * m + 2
    BY <1>1, <1>2, <1>3, <1>8
  <2>3. inbox = <<>> /\ unsent = <<>>
    BY <1>2, <1>5, <2>2
  <2>4. BodyOf(s) = <<>>
    BY <1>3, <1>8
  <2>5. InAnswer(s)'
    BY <1>1, <1>4, <2>1, <2>2, <2>3, <2>4 DEF InAnswer
  <2> QED
    BY <2>1, <2>5 DEF Received, Running
<1>9. CASE l # 0
  <2>1. /\ conn' = [conn EXCEPT !.stdin = rest, !.buffer = <<>>, !.offset = 0]
        /\ need' = IF Len(rest) < l THEN l - Len(rest) ELSE 0
        /\ pc' = IF need' = 0 THEN "run" ELSE "readSome"
    BY <1>1, <1>9 DEF ReadBody
  <2>2. /\ conn'.stdin = rest /\ conn'.buffer = <<>> /\ conn'.offset = 0
        /\ conn'.params = Meaning(s)
    BY <1>1, <2>1 DEF Connections
  <2>3. need' = Len(Unread)
    <3> DEFINE x == Len(rest)
               u == Len(Unread)
               b == Len(conn.buffer)
    <3>1. need' = IF x < l THEN l - x ELSE 0
      BY <2>1
    <3>2. b \in Nat /\ u \in Nat /\ o \in Nat /\ l \in Nat /\ x = b - o /\ o + l = b + u
      BY <1>0, <1>2, <1>3, <1>7
    <3> HIDE DEF x, u, b, o, l
    <3> QED
      BY <3>1, <3>2 DEF u
  <2>4. CASE need' = 0
    <3>1. Unread = <<>>
      <4>1. Len(Unread) = 0 /\ Unread \in Seq(Tokens)
        BY <1>2, <2>3, <2>4
      <4> QED
        BY <4>1
    <3>2. inbox = <<>> /\ unsent = <<>>
      BY <1>5, <3>1
    <3>3. rest = BodyOf(s)
      BY <1>6, <1>7, <3>1, ConcatEmptySeq
    <3>4. conn'.offset = Len(conn'.buffer)
      BY <2>2
    <3>5. InAnswer(s)'
      BY <1>1, <1>4, <2>2, <3>2, <3>3, <3>4 DEF InAnswer
    <3> QED
      BY <2>1, <2>4, <3>5 DEF Received, Running
  <2>5. CASE need' # 0
    <3>1. InBody(s)'
      BY <1>1, <1>4, <1>6, <2>2, <2>3 DEF InBody
    <3> QED
      BY <2>1, <2>5, <3>1 DEF Received
  <2> QED
    BY <2>4, <2>5
<1> QED
  BY <1>8, <1>9

LEMMA BodyRead ==
  ASSUME Typed, NEW s \in Seq(Tokens), WellFormed(s), InBody(s),
         NEW n \in 1..Len(inbox), n <= need, PutStdin(n)
  PROVE  Received(s)'
<1> DEFINE take == SubSeq(inbox, 1, n)
           rest == SubSeq(inbox, n + 1, Len(inbox))
           stdin == conn.stdin
<1>1. /\ conn' = [conn EXCEPT !.stdin = @ \o take] /\ inbox' = rest
      /\ need' = need - n /\ pc' = IF need = n THEN "run" ELSE "readSome"
      /\ UNCHANGED <<asked, unsent, outs>>
  BY DEF PutStdin, client, writing
<1>2. /\ inbox \in Seq(Tokens) /\ unsent \in Seq(Tokens) /\ conn \in Connections
      /\ stdin \in Seq(Tokens) /\ n \in 0..Len(inbox) /\ n \in Nat /\ need \in Nat
  BY DEF Typed, Connections
<1>3. /\ stdin \o (inbox \o unsent) = BodyOf(s) /\ need = Len(inbox \o unsent)
      /\ conn.buffer = <<>> /\ conn.offset = 0 /\ conn.params = Meaning(s) /\ asked = Len(outs)
  BY DEF InBody, Unread
<1>4. take \in Seq(Tokens) /\ rest \in Seq(Tokens) /\ Len(rest) = Len(inbox) - n
  BY <1>2, Cut
<1>5. take \o rest = inbox
  BY <1>2, Cut
<1>6. /\ conn'.stdin = stdin \o take /\ conn'.buffer = <<>> /\ conn'.offset = 0
      /\ conn'.params = Meaning(s)
  BY <1>1, <1>2, <1>3 DEF Connections
<1> HIDE DEF take, rest, stdin
<1>7. Moves(stdin, take, rest, unsent)
  BY <1>2, <1>4, Moved
<1>8. (stdin \o take) \o (rest \o unsent) = BodyOf(s)
  BY <1>3, <1>5, <1>7 DEF Moves
<1>9. rest \o unsent \in Seq(Tokens) /\ Len(rest \o unsent) = need - n
  <2>1. Len(rest \o unsent) = Len(rest) + Len(unsent) /\ rest \o unsent \in Seq(Tokens)
    BY <1>2, <1>4, ConcatProperties
  <2>2. Len(inbox \o unsent) = Len(inbox) + Len(unsent)
    BY <1>2, ConcatProperties
  <2>3. Len(inbox) \in Nat /\ Len(unsent) \in Nat
    BY <1>2
  <2>4. Len(rest) + Len(unsent) = need - n
    <3> DEFINE i == Len(inbox)
               u == Len(unsent)
               r == Len(rest)
    <3>1. i \in Nat /\ u \in Nat /\ n \in Nat /\ r = i - n /\ need = i + u
      BY <1>2, <1>3, <1>4, <2>2, <2>3
    <3> HIDE DEF i, u, r
    <3>2. r + u = need - n
      BY <3>1
    <3> QED
      BY <3>2 DEF r, u
  <2> QED
    BY <2>1, <2>4
<1>10. CASE need = n
  <2> DEFINE r == rest \o unsent
  <2>1. r \in Seq(Tokens) /\ Len(r) = 0 /\ (stdin \o take) \o r = BodyOf(s)
    BY <1>8, <1>9, <1>10
  <2>2. stdin \o take \in Seq(Tokens)
    BY <1>2, <1>4, ConcatProperties
  <2> HIDE DEF r
  <2>3. r = <<>>
    BY <2>1
  <2>4. stdin \o take = BodyOf(s)
    <3> DEFINE t == stdin \o take
    <3>1. t \in Seq(Tokens) /\ t \o <<>> = BodyOf(s)
      BY <2>1, <2>2, <2>3
    <3> HIDE DEF t
    <3>2. t = BodyOf(s)
      BY <3>1, ConcatEmptySeq
    <3> QED
      BY <3>2 DEF t
  <2>5. rest = <<>> /\ unsent = <<>>
    BY <1>2, <1>4, <2>3, ConcatEqualIffEmpty DEF r
  <2>6. conn'.offset = Len(conn'.buffer)
    BY <1>6
  <2>7. InAnswer(s)'
    BY <1>1, <1>3, <1>6, <2>4, <2>5, <2>6 DEF InAnswer
  <2> QED
    BY <1>1, <1>10, <2>7 DEF Received, Running
<1>11. CASE need # n
  <2>1. conn'.stdin \o Unread' = BodyOf(s) /\ need' = Len(Unread')
    BY <1>1, <1>6, <1>8, <1>9 DEF Unread
  <2>2. InBody(s)'
    BY <1>1, <1>3, <1>6, <2>1 DEF InBody
  <2> QED
    BY <1>1, <1>11, <2>2 DEF Received
<1> QED
  BY <1>10, <1>11

-----------------------------------------------------------------------------
(* The steps keep Follows.                                                 *)

(* A request that is read or answered is one the client has.               *)
LEMMA RequestTyped ==
  ASSUME Typed, Received(script[Len(outs)])
  PROVE  script[Len(outs)] \in Seq(Tokens) /\ Len(outs) \in 1..Len(script)
<1>1. Len(outs) \in Nat /\ Len(outs) > 0 /\ asked \in Nat /\ asked <= Len(script)
  <2>1. outs \in Seq(Seq(Items)) /\ outs # <<>> /\ asked \in 1..Len(script)
    BY DEF Typed
  <2>2. script \in Seq(Seq(Tokens))
    BY ScriptsAssumption DEF Typed
  <2> QED
    BY <2>1, <2>2
<1>2. asked = Len(outs) \/ asked = Len(outs) + 1
  BY DEF Received, InHead, AtBody, InBody, InAnswer
<1>3. Len(script) \in Nat
  BY ScriptsAssumption DEF Typed
<1>4. Len(outs) \in 1..Len(script)
  BY <1>1, <1>2, <1>3
<1> QED
  BY <1>4, ScriptTyped

(* A new connection is at the first line of the request that follows.      *)
LEMMA NewInHead ==
  ASSUME NEW s \in Seq(Tokens), WellFormed(s), NEW c, c = NewConnection
  PROVE  /\ c.buffer \o s = s /\ c.stdin = <<>> /\ c.offset <= Len(c.buffer)
         /\ \E j \in 0..HeadLines(s) : c.offset = 3 * j /\ Said(s, 3 * j, c.params)
<1>1. /\ c.buffer = <<>> /\ c.offset = 0 /\ c.stdin = <<>>
      /\ c.params = [line |-> FALSE, keep |-> FALSE, length |-> 0]
  BY DEF NewConnection
<1>2. c.buffer \o s = s
  BY <1>1, ConcatEmptySeq
<1>3. 0 \in 0..HeadLines(s) /\ c.offset = 3 * 0 /\ c.offset <= Len(c.buffer)
  BY <1>1, ShapeOf
<1>4. Said(s, 3 * 0, c.params)
  BY <1>1 DEF Said
<1> QED
  BY <1>1, <1>2, <1>3, <1>4

LEMMA InitFollows == Init => Follows
<1> SUFFICES ASSUME Init, Sound PROVE Received(script[Len(outs)])
  BY DEF Follows
<1>1. /\ script \in Seq(Seq(Tokens)) /\ script # <<>> /\ asked = 1 /\ unsent = script[1]
      /\ inbox = <<>> /\ conn = NewConnection /\ pc = "readHeaders" /\ outs = << <<>> >>
  BY ScriptsAssumption DEF Init
<1>2. Len(outs) = 1
  BY <1>1
<1>3. script[1] \in Seq(Tokens)
  BY <1>1
<1>4. WellFormed(script[1])
  BY <1>2 DEF Sound
<1>5. Unread = script[1]
  BY <1>1, <1>3, ConcatEmptySeq DEF Unread
<1>6. InHead(script[1])
  <2>1. /\ conn.buffer \o script[1] = script[1] /\ conn.stdin = <<>>
        /\ conn.offset <= Len(conn.buffer)
        /\ \E j \in 0..HeadLines(script[1]) :
             conn.offset = 3 * j /\ Said(script[1], 3 * j, conn.params)
    BY <1>1, <1>3, <1>4, NewInHead
  <2> QED
    BY <1>1, <1>2, <1>5, <2>1 DEF InHead
<1> QED
  BY <1>1, <1>2, <1>6 DEF Received

LEMMA ReadingFollows ==
  ASSUME FInv, Follows, Reading
  PROVE  Follows'
<1> SUFFICES ASSUME pc' \notin {"closed", "trapped"}, Sound'
             PROVE  Waits' \/ Received(script[Len(outs)])'
  BY DEF Follows
<1>1. Typed
  BY DEF FInv
<1>2. UNCHANGED <<script, asked, unsent, outs>> /\ pc \in ReadPCs
  BY Zenon DEF Reading, ReadHeaders, WaitHeaders, NoHeadersYet, ScanMore, ScanMalformed,
         EndOfHeaders, ScanContinuation, ScanRequestLine, ScanHeader, ScanNoColon,
         ReadBody, ReadSome, NoBodyYet, WaitBody, ReadEnds, PutStdin, Scanning, Stay,
         client, writing, ReadPCs
<1>3. Sound /\ pc \notin {"closed", "trapped"}
  BY <1>2 DEF Sound, ReadPCs
<1>4. CASE Waits
  <2>1. NoHeadersYet
    <3>1. pc \in {"readHeaders", "waitHeaders"} /\ inbox = <<>>
      BY <1>4 DEF Waits
    <3>2. ~ReadHeaders /\ ~WaitHeaders /\ ~ReadEnds
      BY <3>1 DEF ReadHeaders, WaitHeaders, ReadEnds
    <3>3. pc \notin {"scan", "readBody", "readSome", "waitBody"}
      BY <3>1
    <3>4. ~ScanMore
      BY <3>3 DEF ScanMore, Scanning
    <3>5. ~(ScanMalformed \/ EndOfHeaders \/ ScanContinuation
            \/ ScanRequestLine \/ ScanHeader \/ ScanNoColon)
      BY <3>3, LineFound DEF Scanning
    <3>6. ~ReadBody /\ ~ReadSome /\ ~NoBodyYet /\ ~WaitBody
      BY <3>3 DEF ReadBody, ReadSome, NoBodyYet, WaitBody
    <3> QED
      BY <3>2, <3>4, <3>5, <3>6 DEF Reading
  <2>2. pc' = "waitHeaders" /\ UNCHANGED <<conn, inbox>>
    BY <2>1 DEF NoHeadersYet
  <2>3. Waits'
    BY <1>2, <1>4, <2>2 DEF Waits
  <2> QED
    BY <2>3
<1>5. CASE ~Waits
  <2>1. Received(script[Len(outs)])
    BY <1>3, <1>5 DEF Follows
  <2>2. PICK s \in Seq(Tokens) : s = script[Len(outs)] /\ WellFormed(s) /\ Received(s)
    <3>1. script[Len(outs)] \in Seq(Tokens) /\ Len(outs) \in 1..Len(script)
      BY <1>1, <2>1, RequestTyped
    <3>2. Len(outs) \in 1..Len(outs)
      BY <3>1
    <3>3. WellFormed(script[Len(outs)])
      BY <1>3, <3>2 DEF Sound
    <3> QED
      BY <2>1, <3>1, <3>3
  <2> SUFFICES Received(s)'
    BY <1>2, <2>2
  <2>3. CASE pc \in {"readHeaders", "waitHeaders", "scan"}
    <3>1. InHead(s)
      BY <2>2, <2>3 DEF Received, Running
    <3>2. CASE ReadHeaders \/ WaitHeaders
      <4>1. PICK n \in 1..Len(inbox) : DidRead(n)
        <5>1. Len(inbox) \in Nat /\ (inbox # <<>> => Len(inbox) > 0)
          BY <1>1 DEF Typed
        <5>2. CASE ReadHeaders
          <6>1. ReadSize \in Nat /\ ReadSize > 0
            BY SizesAssumption
          <6>2. Least(ReadSize, Len(inbox)) \in 1..Len(inbox)
            BY <5>1, <5>2, <6>1, LeastTyped DEF ReadHeaders
          <6> QED
            BY <5>2, <6>2 DEF ReadHeaders
        <5>3. CASE WaitHeaders
          BY <5>1, <5>3 DEF WaitHeaders
        <5> QED
          BY <3>2, <5>2, <5>3
      <4>2. InHead(s)'
        BY <1>1, <1>2, <2>2, <3>1, <4>1, HeadRead
      <4> QED
        BY <4>1, <4>2 DEF Received, DidRead
    <3>3. CASE NoHeadersYet
      <4>1. pc' = "waitHeaders" /\ UNCHANGED <<conn, inbox>>
        BY <3>3 DEF NoHeadersYet
      <4>2. InHead(s)'
        BY <1>2, <3>1, <4>1 DEF InHead, Unread
      <4> QED
        BY <4>1, <4>2 DEF Received
    <3>4. CASE \/ ScanMore \/ ScanMalformed \/ EndOfHeaders \/ ScanContinuation
               \/ ScanRequestLine \/ ScanHeader \/ ScanNoColon
      BY <1>1, <2>2, <3>1, <3>4, HeadScanned
    <3>5. ~ReadBody /\ ~ReadSome /\ ~NoBodyYet /\ ~WaitBody /\ ~ReadEnds
      BY <2>3 DEF ReadBody, ReadSome, NoBodyYet, WaitBody, ReadEnds
    <3> QED
      BY <3>2, <3>3, <3>4, <3>5 DEF Reading
  <2>4. CASE pc = "readBody"
    <3>1. AtBody(s)
      BY <2>2, <2>4 DEF Received, Running
    <3>2. ReadBody
      <4>1. ~ReadHeaders /\ ~WaitHeaders /\ ~ReadEnds /\ ~NoHeadersYet
        BY <2>4 DEF ReadHeaders, WaitHeaders, ReadEnds, NoHeadersYet
      <4>2. ~ScanMore
        BY <2>4 DEF ScanMore, Scanning
      <4>3. ~(ScanMalformed \/ EndOfHeaders \/ ScanContinuation
              \/ ScanRequestLine \/ ScanHeader \/ ScanNoColon)
        BY <2>4, LineFound DEF Scanning
      <4>4. ~ReadSome /\ ~NoBodyYet /\ ~WaitBody
        BY <2>4 DEF ReadSome, NoBodyYet, WaitBody
      <4> QED
        BY <4>1, <4>2, <4>3, <4>4 DEF Reading
    <3> QED
      BY <1>1, <2>2, <3>1, <3>2, BodyStarts
  <2>5. CASE pc \in {"readSome", "waitBody"}
    <3>1. InBody(s) /\ need \in Nat /\ need > 0
      BY <1>1, <2>2, <2>5 DEF Received, Running, Typed
    <3>2. CASE ReadSome \/ WaitBody
      <4>1. PICK n \in 1..Len(inbox) : n <= need /\ PutStdin(n)
        <5>1. Len(inbox) \in Nat /\ (inbox # <<>> => Len(inbox) > 0)
          BY <1>1 DEF Typed
        <5>2. CASE ReadSome
          <6>1. inbox # <<>>
            BY <5>2 DEF ReadSome, PutStdin
          <6>2. /\ Least(need, Len(inbox)) \in 1..Len(inbox)
                /\ Least(need, Len(inbox)) <= need
            <7> DEFINE l == Len(inbox)
            <7>1. l \in Nat /\ l > 0 /\ need \in Nat /\ need > 0
              BY <3>1, <5>1, <6>1
            <7> HIDE DEF l
            <7>2. /\ Least(need, l) \in Nat /\ Least(need, l) <= need /\ Least(need, l) <= l
                  /\ Least(need, l) > 0
              BY <7>1 DEF Least
            <7>3. Least(need, l) \in 1..l
              BY <7>1, <7>2
            <7> QED
              BY <7>2, <7>3 DEF l
          <6> QED
            BY <5>2, <6>2 DEF ReadSome
        <5>3. CASE WaitBody
          <6>1. PutStdin(1) /\ inbox # <<>>
            BY <5>3 DEF WaitBody, PutStdin
          <6> QED
            BY <3>1, <5>1, <6>1
        <5> QED
          BY <3>2, <5>2, <5>3
      <4> QED
        BY <1>1, <2>2, <3>1, <4>1, BodyRead
    <3>3. CASE NoBodyYet
      <4>1. pc' = "waitBody" /\ UNCHANGED <<conn, inbox, need>>
        BY <3>3 DEF NoBodyYet, Stay
      <4>2. InBody(s)'
        BY <1>2, <3>1, <4>1 DEF InBody, Unread
      <4> QED
        BY <4>1, <4>2 DEF Received
    <3>4. ~ReadHeaders /\ ~WaitHeaders /\ ~NoHeadersYet /\ ~ReadBody /\ ~ScanMore
      BY <2>5 DEF ReadHeaders, WaitHeaders, NoHeadersYet, ReadBody, ScanMore, Scanning
    <3>5. ~(ScanMalformed \/ EndOfHeaders \/ ScanContinuation
            \/ ScanRequestLine \/ ScanHeader \/ ScanNoColon)
      BY <2>5, LineFound DEF Scanning
    <3>6. ~ReadEnds
      BY DEF ReadEnds
    <3> QED
      BY <3>2, <3>3, <3>4, <3>5, <3>6 DEF Reading
  <2> QED
    BY <1>2, <2>3, <2>4, <2>5 DEF ReadPCs
<1> QED
  BY <1>4, <1>5

LEMMA ClientFollows ==
  ASSUME FInv, Follows,
         \/ \E n \in 1..Len(unsent) : ClientSends(n)
         \/ ClientAsksAgain \/ ClientCloses \/ TimesOut
  PROVE  Follows'
<1> SUFFICES ASSUME pc' \notin {"closed", "trapped"}, Sound'
             PROVE  Waits' \/ Received(script[Len(outs)])'
  BY DEF Follows
<1>1. Typed /\ Quiet /\ Answered
  BY DEF FInv
<1>2. ~TimesOut
  BY DEF TimesOut
<1>3. UNCHANGED <<script, outs, conn, pc, need>>
  BY <1>2 DEF ClientSends, ClientAsksAgain, ClientCloses, writing
<1>4. Sound /\ (Waits \/ Received(script[Len(outs)]))
  BY <1>3 DEF Sound, Follows
<1>5. /\ inbox \in Seq(Tokens) /\ unsent \in Seq(Tokens) /\ Len(unsent) \in Nat
      /\ Len(outs) \in Nat /\ Len(outs) > 0 /\ asked \in Nat
      /\ script \in Seq(Seq(Tokens)) /\ asked <= Len(script)
  <2>1. outs \in Seq(Seq(Items)) /\ outs # <<>>
    BY <1>1 DEF Typed
  <2>2. script \in Seq(Seq(Tokens))
    BY <1>1, ScriptsAssumption DEF Typed
  <2>3. unsent \in Seq(Tokens)
    BY <1>1 DEF Typed
  <2> QED
    BY <1>1, <2>1, <2>2, <2>3 DEF Typed
<1>6. CASE ClientCloses
  <2>1. UNCHANGED <<asked, unsent, inbox>>
    BY <1>6 DEF ClientCloses
  <2>2. Waits => Waits'
    BY <1>3, <2>1 DEF Waits
  <2>3. Received(script[Len(outs)]) => Received(script[Len(outs)])'
    BY <1>3, <2>1 DEF Received, InHead, AtBody, InBody, InAnswer, Unread, Running, Cur
  <2> QED
    BY <1>4, <2>2, <2>3
<1>7. ASSUME NEW n \in 1..Len(unsent), ClientSends(n)
      PROVE  Received(script[Len(outs)])'
  <2> DEFINE take == SubSeq(unsent, 1, n)
             rest == SubSeq(unsent, n + 1, Len(unsent))
  <2>1. asked' = asked /\ inbox' = inbox \o take /\ unsent' = rest
    BY <1>7 DEF ClientSends
  <2>2. unsent # <<>> /\ n \in 0..Len(unsent)
    BY <1>5
  <2>3. ~Waits
    BY <2>2 DEF Waits
  <2>4. take \in Seq(Tokens) /\ rest \in Seq(Tokens)
    BY <1>5, <2>2, Cut
  <2>5. take \o rest = unsent
    BY <1>5, <2>2, Cut
  <2> HIDE DEF take, rest
  <2>6. (inbox \o take) \o rest = inbox \o (take \o rest)
    <3>1. inbox \in Seq(Tokens) /\ take \in Seq(Tokens) /\ rest \in Seq(Tokens)
      BY <1>5, <2>4
    <3>2. Joins(inbox, take, rest)
      BY <3>1, Regrouped
    <3> QED
      BY <3>2 DEF Joins
  <2>7. Unread' = Unread
    BY <2>1, <2>5, <2>6 DEF Unread
  <2>8. Received(script[Len(outs)])
    BY <1>4, <2>3
  <2> DEFINE s == script[Len(outs)]
  <2>9. s' = s
    BY <1>3
  <2> HIDE DEF s
  <2>10. InHead(s) => InHead(s)'
    BY <1>3, <2>1, <2>7, <2>9 DEF InHead
  <2>11. AtBody(s) => AtBody(s)'
    BY <1>3, <2>1, <2>7, <2>9 DEF AtBody
  <2>12. InBody(s) => InBody(s)'
    BY <1>3, <2>1, <2>7, <2>9 DEF InBody
  <2>13. InAnswer(s) => InAnswer(s)'
    BY <1>3, <2>1, <2>2, <2>7, <2>9 DEF InAnswer, Cur
  <2>14. Received(s)'
    BY <1>3, <2>8, <2>10, <2>11, <2>12, <2>13 DEF Received, Running, s
  <2> QED
    BY <2>14 DEF s
<1>8. CASE ClientAsksAgain
  <2>1. /\ unsent = <<>> /\ asked < Len(script) /\ asked <= Len(outs) /\ Whole(outs[asked])
        /\ asked' = asked + 1 /\ unsent' = script[asked + 1] /\ inbox' = inbox
    BY <1>8 DEF ClientAsksAgain
  <2>2. asked + 1 \in 1..Len(script) /\ script[asked + 1] \in Seq(Tokens)
    <3>1. Len(script) \in Nat
      BY <1>5
    <3>2. asked + 1 \in 1..Len(script)
      BY <1>5, <2>1, <3>1
    <3> QED
      BY <1>5, <3>2
  <2>3. inbox = <<>> => Unread' = script[asked + 1]
    BY <2>1, <2>2, ConcatEmptySeq DEF Unread
  <2>4. CASE Waits
    <3>1. /\ asked + 1 = Len(outs) /\ conn = NewConnection /\ inbox = <<>>
          /\ pc \in {"readHeaders", "waitHeaders"}
      BY <1>5, <2>4 DEF Waits
    <3>2. PICK s \in Seq(Tokens) : s = script[asked + 1] /\ WellFormed(s) /\ Unread' = s
      <4>1. asked + 1 \in 1..Len(outs)
        BY <1>5, <3>1
      <4> QED
        BY <1>4, <2>2, <2>3, <3>1, <4>1 DEF Sound
    <3>3. (script[Len(outs)])' = s
      BY <1>3, <3>1, <3>2
    <3>4. conn' = NewConnection /\ asked' = Len(outs')
      BY <1>3, <2>1, <3>1
    <3>5. /\ conn'.buffer \o s = s /\ conn'.stdin = <<>>
          /\ conn'.offset <= Len(conn'.buffer)
          /\ \E j \in 0..HeadLines(s) : conn'.offset = 3 * j /\ Said(s, 3 * j, conn'.params)
      BY <3>2, <3>4, NewInHead
    <3>6. InHead(s)'
      BY <3>2, <3>4, <3>5 DEF InHead
    <3>7. Received(s)'
      BY <1>3, <3>1, <3>6 DEF Received
    <3> QED
      BY <3>3, <3>7
  <2>5. CASE ~Waits
    <3> DEFINE s == script[Len(outs)]
    <3>1. Received(s)
      BY <1>4, <2>5
    <3>2. s' = s
      BY <1>3
    <3> HIDE DEF s
    <3>3. ASSUME pc \in ReadPCs
          PROVE  FALSE
      <4>1. asked = Len(outs) /\ Cur = <<>>
        BY <1>1, <3>1, <3>3 DEF Received, InHead, AtBody, InBody, Running, ReadPCs, Quiet
      <4>2. Whole(<<>>)
        BY <2>1, <4>1 DEF Cur
      <4>3. KindsIn(<<>>) = {}
        BY DEF KindsIn
      <4> QED
        BY <4>2, <4>3 DEF Whole
    <3>4. Running /\ InAnswer(s)
      BY <3>1, <3>3 DEF Received, ReadPCs
    <3>5. asked = Len(outs) /\ inbox = <<>>
      BY <1>5, <2>1, <3>4 DEF InAnswer
    <3>6. Ended(Cur)
      <4>1. Cur \in Seq(Items) /\ Response(Cur) /\ Whole(Cur)
        <5>1. Len(outs) \in 1..Len(outs)
          BY <1>5
        <5>2. outs[Len(outs)] \in Seq(Items)
          BY <1>1, <5>1, OutsTyped
        <5> QED
          BY <1>1, <2>1, <3>5, <5>1, <5>2 DEF Answered, Cur
      <4> QED
        BY <4>1, EndedIsWhole
    <3>7. InAnswer(s)'
      <4>1. Cur' = Cur /\ Len(outs') = Len(outs)
        BY <1>3 DEF Cur
      <4>2. asked' = Len(outs') + 1 /\ Unread' = script'[asked']
        BY <1>3, <2>1, <2>3, <3>5
      <4>3. Ended(Cur)'
        BY <3>6, <4>1
      <4>4. /\ conn'.params = Meaning(s) /\ conn'.stdin = BodyOf(s)
            /\ conn'.offset = Len(conn'.buffer)
        BY <1>3, <3>4 DEF InAnswer
      <4> QED
        BY <3>2, <4>2, <4>3, <4>4 DEF InAnswer
    <3>8. Received(s)'
      BY <1>3, <3>4, <3>7 DEF Received, Running
    <3> QED
      BY <3>8 DEF s
  <2> QED
    BY <2>4, <2>5
<1> QED
  BY <1>2, <1>6, <1>7, <1>8

(* The answer leaves the request alone.                                    *)
LEMMA AnswerKeeps ==
  ASSUME Typed, Follows, UNCHANGED <<script, asked, unsent, inbox>>,
         Len(outs') = Len(outs), Ended(Cur) => Ended(Cur'),
         Running, Running',
         conn' \in {conn, [conn EXCEPT !.wroteHeader = TRUE]}
  PROVE  Follows'
<1> SUFFICES ASSUME Sound' PROVE Received(script[Len(outs)])'
  BY DEF Follows
<1>1. Sound /\ ~Waits /\ pc \notin {"closed", "trapped"}
  BY DEF Sound, Waits, Running
<1> DEFINE s == script[Len(outs)]
<1>2. Received(s)
  BY <1>1 DEF Follows
<1>3. s' = s
  OBVIOUS
<1> HIDE DEF s
<1>4. InAnswer(s)
  BY <1>2 DEF Received, Running
<1>5. /\ conn'.params = conn.params /\ conn'.stdin = conn.stdin
      /\ conn'.offset = conn.offset /\ conn'.buffer = conn.buffer
  BY DEF Typed, Connections
<1>6. Unread' = Unread
  BY DEF Unread
<1>7. /\ conn'.params = Meaning(s) /\ conn'.stdin = BodyOf(s)
      /\ conn'.offset = Len(conn'.buffer)
  BY <1>4, <1>5 DEF InAnswer
<1>8. \/ asked' = Len(outs') /\ inbox' = <<>> /\ unsent' = <<>>
      \/ asked' = Len(outs') + 1 /\ Ended(Cur') /\ Unread' = script'[asked']
  BY <1>4, <1>6 DEF InAnswer
<1>9. InAnswer(s)'
  BY <1>3, <1>7, <1>8 DEF InAnswer
<1>10. Received(s)'
  BY <1>9 DEF Received
<1> QED
  BY <1>10 DEF s

LEMMA HandlerKeeps ==
  ASSUME FInv, Follows,
         \/ NoPathInfo
         \/ \E style \in Styles, size \in 0..MaxBody : StartHandler(style, size)
         \/ \E size, inFile \in 0..MaxBody, readable \in BOOLEAN :
              StartFile(size, inFile, readable)
         \/ AnswerWhole \/ SendFilePiece \/ SendFileFails
         \/ \E n \in 0..MaxBody : AppendAndPush(n)
         \/ CompleteChunks \/ Pushed \/ LastChunk
  PROVE  Follows'
<1>1. Running /\ UNCHANGED <<client, inbox, outs>> /\ Running'
      /\ conn' \in {conn, [conn EXCEPT !.wroteHeader = TRUE]}
  <2>1. ASSUME NEW items, NEW completion, Write(items, completion)
        PROVE  /\ UNCHANGED <<client, inbox, outs>> /\ pc' = "write"
               /\ conn' \in {conn, [conn EXCEPT !.wroteHeader = TRUE]}
    BY <2>1 DEF Write
  <2>2. ASSUME NEW r, Complete(r)
        PROVE  /\ UNCHANGED <<client, inbox, outs>> /\ pc' = "write"
               /\ conn' \in {conn, [conn EXCEPT !.wroteHeader = TRUE]}
    BY <2>1, <2>2, Zenon DEF Complete
  <2>3. ASSUME NEW r, NEW completion, PushChunked(r, completion)
        PROVE  /\ UNCHANGED <<client, inbox, outs>> /\ pc' = "write"
               /\ conn' \in {conn, [conn EXCEPT !.wroteHeader = TRUE]}
    <3>1. CASE r.bodyData = 0
      BY <2>3, <3>1 DEF PushChunked
    <3>2. CASE r.bodyData # 0
      BY <2>1, <2>3, <3>2, Zenon DEF PushChunked
    <3> QED
      BY <3>1, <3>2
  <2>4. CASE NoPathInfo
    BY <2>1, <2>4, Zenon DEF NoPathInfo, Running
  <2>5. CASE \E style \in Styles, size \in 0..MaxBody : StartHandler(style, size)
    <3>1. /\ pc = "run" /\ pc' = "handler"
          /\ UNCHANGED <<client, inbox, conn, writing>>
      BY <2>5, Zenon DEF StartHandler
    <3> QED
      BY <3>1 DEF writing, Running
  <2>12. CASE \E size, inFile \in 0..MaxBody, readable \in BOOLEAN :
                StartFile(size, inFile, readable)
    <3>1. /\ pc = "run" /\ pc' = "handler"
          /\ UNCHANGED <<client, inbox, conn, writing>>
      BY <2>12, Zenon DEF StartFile
    <3> QED
      BY <3>1 DEF writing, Running
  <2>13. CASE SendFileFails
    BY <2>2, <2>13, Zenon DEF SendFileFails, InHandler, Running
  <2>6. CASE AnswerWhole
    BY <2>2, <2>6, Zenon DEF AnswerWhole, InHandler, Running
  <2>7. CASE SendFilePiece
    BY <2>1, <2>7, Zenon DEF SendFilePiece, InHandler, Running
  <2>8. CASE \E n \in 0..MaxBody : AppendAndPush(n)
    BY <2>3, <2>8, Zenon DEF AppendAndPush, InHandler, Running
  <2>9. CASE CompleteChunks
    BY <2>3, <2>9, Zenon DEF CompleteChunks, InHandler, Running
  <2>10. CASE Pushed
    <3>1. pc = "write"
      BY <2>10 DEF Pushed, Written
    <3>2. CASE response.style = "file" /\ (~ok \/ response.lastRead)
      BY <2>2, <2>10, <3>1, <3>2, Zenon DEF Pushed, Running
    <3>3. CASE ~(response.style = "file" /\ (~ok \/ response.lastRead))
      BY <2>10, <3>1, <3>3 DEF Pushed, writing, Running
    <3> QED
      BY <3>2, <3>3
  <2>11. CASE LastChunk
    BY <2>1, <2>11, Zenon DEF LastChunk, Written, Running
  <2> QED
    BY <2>4, <2>5, <2>6, <2>7, <2>8, <2>9, <2>10, <2>11,
       <2>12, <2>13
<1>2. Len(outs') = Len(outs) /\ (Ended(Cur) => Ended(Cur'))
  BY <1>1 DEF Cur
<1>3. UNCHANGED <<script, asked, unsent, inbox>>
  BY <1>1 DEF client
<1> QED
  BY <1>1, <1>2, <1>3, AnswerKeeps DEF FInv

LEMMA WritesKeep ==
  ASSUME FInv, Follows, WriteWorks \/ WriteFails \/ CloseAfter500 \/ StartReversedRange
  PROVE  Follows'
<1>1. Typed /\ Len(outs) \in Nat /\ Len(outs) > 0
  <2>1. outs \in Seq(Seq(Items)) /\ outs # <<>>
    BY DEF FInv, Typed
  <2> QED
    BY <2>1 DEF FInv
<1>2. CASE WriteWorks
  <2>1. /\ pending # <<>> /\ outs' = [outs EXCEPT ![Len(outs)] = Append(@, Head(pending))]
        /\ UNCHANGED <<script, asked, unsent, inbox, conn, pc>>
    BY <1>2 DEF WriteWorks, client
  <2>2. Cur \in Seq(Items) /\ Head(pending) \in Items
    <3>1. Len(outs) \in 1..Len(outs)
      BY <1>1
    <3>2. pending \in Seq(Items)
      BY <1>1 DEF Typed
    <3> QED
      BY <1>1, <2>1, <3>1, <3>2, OutsTyped, HeadTailProperties DEF Cur
  <2>3. Len(outs') = Len(outs) /\ Cur' = Append(Cur, Head(pending))
    <3>1. outs \in Seq(Seq(Items))
      BY <1>1 DEF Typed
    <3> QED
      BY <1>1, <2>1, <3>1 DEF Cur
  <2>4. Ended(Cur) => Ended(Cur')
    <3> DEFINE x == Head(pending)
    <3>1. Append(Cur, x) \in Seq(Items) /\ Begins(Cur, Append(Cur, x))
      BY <2>2, OneMoreItem
    <3> QED
      BY <2>2, <2>3, <3>1, StaysEnded
  <2>5. Running /\ Running'
    BY <1>2, <2>1 DEF WriteWorks, Running
  <2> QED
    BY <1>1, <2>1, <2>3, <2>4, <2>5, AnswerKeeps
<1>3. CASE WriteFails
  <2>1. UNCHANGED <<script, asked, unsent, inbox, conn, pc, outs>> /\ Running
    BY <1>3 DEF WriteFails, Running
  <2>2. Cur' = Cur /\ Running'
    BY <2>1 DEF Cur, Running
  <2> QED
    BY <1>1, <2>1, <2>2, AnswerKeeps
<1>4. CASE CloseAfter500 \/ StartReversedRange
  BY <1>4 DEF CloseAfter500, StartReversedRange, Follows
<1> QED
  BY <1>2, <1>3, <1>4

(* The next connection starts where the request before it ended.           *)
LEMMA NextRequest ==
  ASSUME FInv, Follows, KeepAliveOrClose
  PROVE  Follows'
<1> SUFFICES ASSUME pc' \notin {"closed", "trapped"}, Sound'
             PROVE  Waits' \/ Received(script[Len(outs)])'
  BY DEF Follows
<1>1. /\ Len(outs) \in Nat /\ Len(outs) > 0 /\ outs \in Seq(Seq(Items))
      /\ inbox \in Seq(Tokens) /\ unsent \in Seq(Tokens)
      /\ script \in Seq(Seq(Tokens)) /\ asked <= Len(script) /\ asked \in Nat
  <2>1. outs \in Seq(Seq(Items)) /\ outs # <<>>
    BY DEF FInv, Typed
  <2>2. script \in Seq(Seq(Tokens))
    BY ScriptsAssumption DEF FInv, Typed
  <2> QED
    BY <2>1, <2>2 DEF FInv, Typed
<1>2. /\ conn' = NewConnection /\ outs' = Append(outs, <<>>) /\ pc' = "readHeaders"
      /\ UNCHANGED <<script, asked, unsent, inbox>> /\ pc = "write"
  BY DEF KeepAliveOrClose, Written, client
<1>3. Len(outs') = Len(outs) + 1
  BY <1>1, <1>2
<1>4. Sound
  BY <1>1, <1>2, <1>3 DEF Sound
<1>5. InAnswer(script[Len(outs)])
  BY <1>2, <1>4 DEF Follows, Waits, Received
<1>6. CASE asked = Len(outs) /\ inbox = <<>> /\ unsent = <<>>
  <2>1. asked' = Len(outs') - 1
    BY <1>1, <1>2, <1>3, <1>6
  <2>2. Waits'
    BY <1>2, <1>6, <2>1 DEF Waits
  <2> QED
    BY <2>2
<1>7. CASE asked = Len(outs) + 1 /\ Unread = script[asked]
  <2>1. PICK s \in Seq(Tokens) : s = script[asked] /\ WellFormed(s)
    <3>1. asked \in 1..Len(script) /\ asked \in 1..Len(outs')
      BY <1>1, <1>3, <1>7
    <3>2. script[asked] \in Seq(Tokens)
      BY <1>1, <3>1
    <3>3. WellFormed(script[asked])
      BY <1>2, <3>1 DEF Sound
    <3> QED
      BY <3>2, <3>3
  <2>2. (script[Len(outs)])' = s /\ Unread' = s /\ asked' = Len(outs')
    BY <1>2, <1>3, <1>7, <2>1 DEF Unread
  <2>3. /\ conn'.buffer \o s = s /\ conn'.stdin = <<>>
        /\ conn'.offset <= Len(conn'.buffer)
        /\ \E j \in 0..HeadLines(s) : conn'.offset = 3 * j /\ Said(s, 3 * j, conn'.params)
    BY <1>2, <2>1, NewInHead
  <2>4. InHead(s)'
    BY <2>2, <2>3 DEF InHead
  <2>5. Received(s)'
    BY <1>2, <2>4 DEF Received
  <2> QED
    BY <2>2, <2>5
<1> QED
  BY <1>5, <1>6, <1>7 DEF InAnswer

LEMMA NextFollows ==
  ASSUME FInv, Follows, [Next]_vars
  PROVE  Follows'
<1>1. CASE UNCHANGED vars
  BY <1>1 DEF vars, client, writing, Follows, Sound, Waits, Received, Running, InHead,
              AtBody, InBody, InAnswer, Unread, Cur
<1>2. CASE Answering
  BY <1>2, HandlerKeeps, WritesKeep, NextRequest, Zenon DEF Answering
<1> QED
  BY <1>1, <1>2, ReadingFollows, ClientFollows, Zenon DEF Next

(* However the network cuts the stream, what reaches the handler of a      *)
(* well-formed request that follows well-formed ones is what that request  *)
(* means, with its body byte for byte and nothing left in the buffer.      *)
THEOREM RequestsAsSent == SafeSpec => []RequestAsSent
<1>1. FInv /\ Follows => RequestAsSent
  <2> SUFFICES ASSUME FInv, Follows, Running, Sound
               PROVE  LET s == script[Len(outs)] IN
                      /\ asked = Len(outs) \/ Whole(outs[Len(outs)])
                      /\ conn.params = Meaning(s)
                      /\ conn.stdin = BodyOf(s)
                      /\ conn.offset = Len(conn.buffer)
    BY DEF RequestAsSent, Sound
  <2>1. InAnswer(script[Len(outs)])
    BY DEF Follows, Waits, Received, Running
  <2>2. Cur \in Seq(Items) /\ Response(Cur)
    <3>1. outs \in Seq(Seq(Items)) /\ outs # <<>>
      BY DEF FInv, Typed
    <3>2. Len(outs) \in 1..Len(outs)
      BY <3>1
    <3> QED
      BY <3>1, <3>2 DEF FInv, Answered, Cur
  <2>3. Ended(Cur) => Whole(Cur)
    BY <2>2, EndedIsWhole
  <2> QED
    BY <2>1, <2>3 DEF InAnswer, Cur
<1>2. Init => FInv /\ Follows
  BY InitFInv, InitFollows
<1>3. FInv /\ Follows /\ [Next]_vars => (FInv /\ Follows)'
  BY NextFInv, NextFollows
<1> QED
  BY <1>1, <1>2, <1>3, PTL DEF SafeSpec

=============================================================================
