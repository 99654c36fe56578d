-------------------------------- MODULE HPACK --------------------------------
(***************************************************************************)
(* HPACKEncoder and HPACKDecoder of PerfectLib/HPACK.swift, and the bytes  *)
(* between them.                                                           *)
(*                                                                         *)
(* The encoder and the decoder each keep a table of the header fields they *)
(* have seen.  A field in the table is sent as an index, so what the       *)
(* decoder hears depends on the two tables having taken the same steps.    *)
(* The bytes of a header block may arrive in pieces: decode returns when   *)
(* it lacks some and keeps its state for the next call.                    *)
(*                                                                         *)
(* The two share nothing but the bytes, so it makes no difference to       *)
(* either that the next header is encoded only after the decoder has seen  *)
(* the last one.                                                           *)
(***************************************************************************)
EXTENDS DynamicTable, Huffman

CONSTANTS
  StaticTable,     \* the sequence of well-known fields, equal names in a row
  Fields,          \* the fields the application sends
  Secrets,         \* those of them it sends as sensitive
  Plain,           \* those whose Huffman codes fit into bytes
  Capacity,        \* what both tables are created with
  Capacities,      \* the sizes either side may ask for later
  MaxHeaderSize,   \* HPACKDecoder.maxHeaderSize
  StringPrefix,    \* the bits of a length in its first byte (7 in the code)
  IndexPrefix,     \* the bits of an index in its first byte (7 in the code)
  Foreign          \* what a peer with another encoder may send

VARIABLES
  use,             \* how the application uses the two
  enc,             \* HPACKEncoder.headerFields, newest first
  encCapacity,     \* HPACKEncoder.capacity
  wire,            \* encoded bytes the decoder has not read
  arrived,         \* how many of them are there to read
  dec,             \* the decoder's state, all but its table
  given, heard,    \* a careful application's headers of this block, and what
                   \* came out of the decoder
  failed           \* decode has thrown

vars == <<ring, use, enc, encCapacity, wire, arrived, dec, given, heard, failed>>

(* A careful application keeps to Sendable; the others do one thing more.  *)
Uses == {"careful", "long codes", "without indexing", "resizing", "foreign peer"}
careful == use = "careful"

None == "None"
Never == "Never"
Incremental == "Incremental"

ASSUME PrefixAssumption == StringPrefix \in 1..7 /\ IndexPrefix \in 1..7
ASSUME StaticTableAssumption ==
  \A i, j \in 1..Len(StaticTable) :
    StaticTable[i].name = StaticTable[j].name
      => \A k \in i..j : StaticTable[k].name = StaticTable[i].name
ASSUME NamesAssumption ==
  /\ \A f \in Fields : f.name # <<>>
  /\ Secrets \subseteq Fields
  /\ Plain \subseteq Fields
  /\ \A f \in Plain : \A i \in DOMAIN (f.name \o f.value) :
       huffmanCodeLengths[(f.name \o f.value)[i] + 1] <= 8

Start == [state |-> "ReadHeaderRepresentation", index |-> 0, indexType |-> None,
          huffmanEncoded |-> FALSE, name |-> <<>>, nameLength |-> 0,
          valueLength |-> 0, skipLength |-> 0, headerSize |-> 0,
          encoderLimit |-> Capacity, changeRequired |-> FALSE]

(* Between two headers: what is set again before it is read is forgotten.  *)
Between(d) == [Start EXCEPT !.nameLength = d.nameLength, !.headerSize = d.headerSize,
                            !.encoderLimit = d.encoderLimit,
                            !.changeRequired = d.changeRequired]

Init ==
  /\ TableInit(Capacity)
  /\ use \in Uses
  /\ enc = <<>> /\ encCapacity = Capacity
  /\ wire = <<>> /\ arrived = 0
  /\ dec = Start
  /\ given = <<>> /\ heard = <<>>
  /\ failed = FALSE

-----------------------------------------------------------------------------
(* Numbers: the first byte has room for n bits, what is left follows in    *)
(* groups of seven bits, the lowest first.                                 *)
Groups(i) ==
  LET k == CHOOSE k \in 1..5 : i < 128^k /\ \A j \in 1..(k - 1) : i >= 128^j
  IN  [j \in 1..k |-> ((i \div 128^(j - 1)) % 128) + (IF j < k THEN 128 ELSE 0)]

encodeInteger(mask, n, i) ==
  IF i < 2^n - 1 THEN <<mask + i>>
  ELSE <<mask + 2^n - 1>> \o Groups(i - (2^n - 1))

encodeStringLiteral(string) ==
  IF EncodedLength(string) < Len(string)
  THEN encodeInteger(128, StringPrefix, EncodedLength(string)) \o HuffmanEncode(string)
  ELSE encodeInteger(0, StringPrefix, Len(string)) \o string

-----------------------------------------------------------------------------
(* The encoder's indices; 0 where there is none.                           *)
Least(S) == IF S = {} THEN 0 ELSE Min(S)

StaticName(name) == Least({i \in DOMAIN StaticTable : StaticTable[i].name = name})

StaticIndex(f) ==
  Least({i \in DOMAIN StaticTable : StaticTable[i].name = f.name /\ StaticTable[i].value = f.value})

(* The hash chains lead to the newest entry; a field without a value is    *)
(* never found.                                                            *)
DynamicName(name) == Least({i \in DOMAIN enc : enc[i].name = name})

DynamicIndex(f) ==
  Least({i \in DOMAIN enc : f.value # <<>> /\ enc[i].name = f.name /\ enc[i].value = f.value})

getNameIndex(name) ==
  IF StaticName(name) # 0 THEN StaticName(name)
  ELSE IF DynamicName(name) # 0 THEN DynamicName(name) + Len(StaticTable)
  ELSE 0

encodeLiteral(f, indexType, nameIndex) ==
  encodeInteger(IF indexType = Incremental THEN 64 ELSE IF indexType = Never THEN 16 ELSE 0,
                IF indexType = Incremental THEN 6 ELSE 4, nameIndex)
  \o (IF nameIndex = 0 THEN encodeStringLiteral(f.name) ELSE <<>>)
  \o encodeStringLiteral(f.value)

(* ensureCapacity: its loop asks for room for twice the new field, not for *)
(* the field and the table, so it empties the table or leaves it alone.    *)
Kept(f) == IF 2 * SizeOf(f) > encCapacity THEN <<>> ELSE enc

Send(bytes) ==
  /\ wire' = bytes
  /\ arrived' = 0

EncodeSensitive(f) ==
  /\ f \in Secrets
  /\ Send(encodeLiteral(f, Never, getNameIndex(f.name)))
  /\ UNCHANGED enc

EncodeWithoutTable(f) ==
  /\ f \notin Secrets /\ encCapacity = 0
  /\ Send(IF StaticIndex(f) = 0 THEN encodeLiteral(f, None, StaticName(f.name))
          ELSE encodeInteger(128, IndexPrefix, StaticIndex(f)))
  /\ UNCHANGED enc

EncodeTooBig(f) ==
  /\ f \notin Secrets /\ encCapacity > 0 /\ SizeOf(f) > encCapacity
  /\ Send(encodeLiteral(f, None, getNameIndex(f.name)))
  /\ UNCHANGED enc

EncodeIndexed(f) ==
  /\ f \notin Secrets /\ encCapacity > 0 /\ SizeOf(f) <= encCapacity
  /\ DynamicIndex(f) # 0 \/ StaticIndex(f) # 0
  /\ Send(encodeInteger(128, IndexPrefix,
                        IF DynamicIndex(f) # 0 THEN DynamicIndex(f) + Len(StaticTable)
                        ELSE StaticIndex(f)))
  /\ UNCHANGED enc

(* EncodeNew without the removal of the eldest.                            *)
EncodeNewOnTop(f, incrementalIndexing) ==
  /\ f \notin Secrets /\ encCapacity > 0 /\ SizeOf(f) <= encCapacity
  /\ DynamicIndex(f) = 0 /\ StaticIndex(f) = 0
  /\ Send(encodeLiteral(f, IF incrementalIndexing THEN Incremental ELSE None, getNameIndex(f.name)))
  /\ enc' = <<f>> \o Kept(f)

(* add: the new field goes to the front of what has room beside it.        *)
EncodeNew(f, incrementalIndexing) ==
  /\ f \notin Secrets /\ encCapacity > 0 /\ SizeOf(f) <= encCapacity
  /\ DynamicIndex(f) = 0 /\ StaticIndex(f) = 0
  /\ Send(encodeLiteral(f, IF incrementalIndexing THEN Incremental ELSE None, getNameIndex(f.name)))
  /\ enc' = <<f>> \o Table!Fit(Kept(f), encCapacity - SizeOf(f))

-----------------------------------------------------------------------------
Idle == wire = <<>> /\ ~failed /\ ~trapped

TextSize(f) == Len(f.name) + Len(f.value)

(* Only a use of its own sends fields whose codes have long words, or      *)
(* turns incrementalIndexing off.  A careful application also keeps its    *)
(* blocks so far below the limit that a name's length may be counted twice *)
(* (the decoder takes the length of an earlier name where the name comes   *)
(* as an index).                                                           *)
Sendable(f, incrementalIndexing) ==
  /\ f \in Plain \/ use = "long codes"
  /\ incrementalIndexing \/ use = "without indexing"
  /\ careful =>
       FoldSeq(LAMBDA g, n : n + TextSize(g.field), TextSize(f), given)
         + Max({Len(g.name) : g \in Plain}) <= MaxHeaderSize

EncodeHeader ==
  \E f \in Fields, incrementalIndexing \in BOOLEAN :
    /\ Idle
    /\ Sendable(f, incrementalIndexing)
    /\ \/ EncodeSensitive(f)
       \/ EncodeWithoutTable(f)
       \/ EncodeTooBig(f)
       \/ EncodeIndexed(f)
       \/ EncodeNew(f, incrementalIndexing)
    /\ given' = IF careful THEN Append(given, [field |-> f, sensitive |-> f \in Secrets])
                ELSE given
    /\ UNCHANGED <<ring, use, encCapacity, dec, heard, failed>>

(* HPACKEncoder.setMaxHeaderTableSize: it removes nothing, because its     *)
(* ensureCapacity(0) never sees a table that is too large.                 *)
SetMaxHeaderTableSize ==
  \E n \in Capacities :
    /\ Idle /\ use = "resizing"
    /\ n # encCapacity
    /\ encCapacity' = n
    /\ Send(encodeInteger(32, 5, n))
    /\ UNCHANGED <<ring, use, enc, dec, given, heard, failed>>

(* The application gets bytes from elsewhere.                              *)
Receive ==
  \E bytes \in Foreign :
    /\ Idle /\ use = "foreign peer"
    /\ Send(bytes)
    /\ UNCHANGED <<ring, use, enc, encCapacity, dec, given, heard, failed>>

(* HPACKDecoder.setMaxHeaderTableSize, which the peer is to acknowledge.   *)
LimitDecoder ==
  \E n \in Capacities :
    /\ Idle /\ use = "resizing"
    /\ dec' = [dec EXCEPT !.changeRequired = @ \/ n < dec.encoderLimit]
    /\ IF n < dec.encoderLimit THEN setCapacity(n) ELSE UNCHANGED ring
    /\ UNCHANGED <<use, enc, encCapacity, wire, arrived, given, heard, failed>>

(* endHeaderBlock: the next block starts to count from nothing.            *)
EndHeaderBlock ==
  /\ Idle /\ dec.headerSize > 0
  /\ dec' = [Between(dec) EXCEPT !.headerSize = 0]
  /\ given' = <<>> /\ heard' = <<>>
  /\ UNCHANGED <<ring, use, enc, encCapacity, wire, arrived, failed>>

(* More bytes arrive; decode is called again.                              *)
Arrive ==
  /\ ~failed /\ ~trapped
  /\ arrived' \in (arrived + 1)..Len(wire)
  /\ careful \/ arrived' = Len(wire)
  /\ UNCHANGED <<ring, use, enc, encCapacity, wire, dec, given, heard, failed>>

-----------------------------------------------------------------------------
(* The decoder: one step for each turn of decode's loop that gets on.  Its *)
(* states have the names of HPACKDecoder.State.                            *)

ReadHeaderRepresentation == "ReadHeaderRepresentation"
ReadMaxDynamicTableSize == "ReadMaxDynamicTableSize"
ReadIndexedHeader == "ReadIndexedHeader"
ReadIndexedHeaderName == "ReadIndexedHeaderName"
ReadLiteralHeaderNameLengthPrefix == "ReadLiteralHeaderNameLengthPrefix"
ReadLiteralHeaderNameLength == "ReadLiteralHeaderNameLength"
ReadLiteralHeaderName == "ReadLiteralHeaderName"
SkipLiteralHeaderName == "SkipLiteralHeaderName"
ReadLiteralHeaderValueLengthPrefix == "ReadLiteralHeaderValueLengthPrefix"
ReadLiteralHeaderValueLength == "ReadLiteralHeaderValueLength"
ReadLiteralHeaderValue == "ReadLiteralHeaderValue"
SkipLiteralHeaderValue == "SkipLiteralHeaderValue"

(* decode takes n bytes in state st.                                       *)
Take(st, n) ==
  /\ ~failed /\ ~trapped
  /\ dec.state = st
  /\ arrived > 0 /\ arrived >= n
  /\ wire' = SubSeq(wire, n + 1, Len(wire))
  /\ arrived' = arrived - n
  /\ UNCHANGED <<use, enc, encCapacity, given>>

Throw ==
  /\ failed' = TRUE
  /\ UNCHANGED <<ring, dec, heard>>

(* decodeULE128: how long the number at the front is, 0 if its end has not *)
(* arrived, and the number.                                                *)
NumberLength == Least({k \in 1..arrived : wire[k] < 128})

Number ==
  FoldSeq(LAMBDA x, n : x + n, 0,
          [k \in 1..NumberLength |-> (wire[k] % 128) * 128^(k - 1)])

addHeader(d, name, value, sensitive) ==
  LET newSize == d.headerSize + Len(name) + Len(value) IN
  IF newSize <= MaxHeaderSize
  THEN /\ dec' = [d EXCEPT !.headerSize = newSize]
       /\ heard' = IF careful
                   THEN Append(heard, [field |-> [name |-> name, value |-> value],
                                       sensitive |-> sensitive])
                   ELSE heard
  ELSE /\ dec' = [d EXCEPT !.headerSize = MaxHeaderSize + 1]
       /\ UNCHANGED heard

insertHeader(d, name, value) ==
  /\ addHeader(Between(d), name, value, d.indexType = Never)
  /\ IF d.indexType = Incremental THEN add([name |-> name, value |-> value])
     ELSE UNCHANGED ring
  /\ UNCHANGED failed

(* setDynamicTableSize takes any size.                                     *)
setDynamicTableSize(d, n) ==
  /\ dec' = [Between(d) EXCEPT !.encoderLimit = n, !.changeRequired = FALSE]
  /\ setCapacity(n)
  /\ UNCHANGED <<heard, failed>>

(* FieldAt that counts the dynamic entries from the oldest.                *)
FieldAtOldest(index) ==
  IF index <= Len(StaticTable) THEN StaticTable[index]
  ELSE getEntry(length + 1 - (index - Len(StaticTable)))

FieldAt(index) ==
  IF index <= Len(StaticTable) THEN StaticTable[index] ELSE getEntry(index - Len(StaticTable))

indexHeader(d, index) ==
  IF index - Len(StaticTable) > length THEN Throw
  ELSE /\ addHeader(Between(d), FieldAt(index).name, FieldAt(index).value, FALSE)
       /\ UNCHANGED <<ring, failed>>

(* readName leaves nameLength as it was.                                   *)
readName(d, index) ==
  IF index - Len(StaticTable) > length THEN Throw
  ELSE /\ dec' = [d EXCEPT !.state = ReadLiteralHeaderValueLengthPrefix,
                           !.name = FieldAt(index).name]
       /\ UNCHANGED <<ring, heard, failed>>

GoOn(d) ==
  /\ dec' = d
  /\ UNCHANGED <<ring, heard, failed>>

(* The first byte of a header: its highest one-bit tells what it is, the   *)
(* bits below it are an index, or all ones if the index goes on.           *)
ReadIndexed ==
  LET index == wire[1] % 2^IndexPrefix IN
  /\ Take(ReadHeaderRepresentation, 1)
  /\ ~dec.changeRequired
  /\ wire[1] >= 128
  /\ \/ index = 0 /\ Throw
     \/ index \in 1..(2^IndexPrefix - 2) /\ indexHeader([dec EXCEPT !.index = index], index)
     \/ index = 2^IndexPrefix - 1 /\ GoOn([dec EXCEPT !.index = index, !.state = ReadIndexedHeader])

ReadLiteral ==
  LET type   == IF wire[1] >= 64 THEN Incremental ELSE IF wire[1] >= 16 THEN Never ELSE None
      prefix == IF wire[1] >= 64 THEN 64 ELSE 16
      index  == wire[1] % prefix
      d      == [dec EXCEPT !.indexType = type, !.index = index]
  IN
  /\ Take(ReadHeaderRepresentation, 1)
  /\ ~dec.changeRequired
  /\ wire[1] \in (0..31) \cup (64..127)
  /\ \/ index = 0 /\ GoOn([d EXCEPT !.state = ReadLiteralHeaderNameLengthPrefix])
     \/ index \in 1..(prefix - 2) /\ readName(d, index)
     \/ index = prefix - 1 /\ GoOn([d EXCEPT !.state = ReadIndexedHeaderName])

ReadTableSize ==
  LET index == wire[1] % 32 IN
  /\ Take(ReadHeaderRepresentation, 1)
  /\ wire[1] \in 32..63
  /\ IF index < 31 THEN setDynamicTableSize([dec EXCEPT !.index = index], index)
     ELSE GoOn([dec EXCEPT !.index = index, !.state = ReadMaxDynamicTableSize])

(* A change of the table's size was due.                                   *)
ReadUnexpected ==
  /\ Take(ReadHeaderRepresentation, 1)
  /\ dec.changeRequired
  /\ wire[1] \notin 32..63
  /\ Throw

ReadTableSizeOn ==
  /\ NumberLength > 0
  /\ Take(ReadMaxDynamicTableSize, NumberLength)
  /\ setDynamicTableSize(dec, dec.index + Number)

ReadIndexedOn ==
  /\ NumberLength > 0
  /\ Take(ReadIndexedHeader, NumberLength)
  /\ indexHeader(dec, dec.index + Number)

ReadNameIndexOn ==
  /\ NumberLength > 0
  /\ Take(ReadIndexedHeaderName, NumberLength)
  /\ readName(dec, dec.index + Number)

(* A literal that goes over the limit is skipped if the tables agree       *)
(* without it; a literal too big for the table clears the table.           *)
Exceeds(n) == n + dec.headerSize > MaxHeaderSize

Skippable(n) ==
  Exceeds(n) /\ (dec.indexType = None \/ n + headerEntryOverhead > capacity)

ClearFor(n) == IF dec.indexType = None THEN UNCHANGED ring ELSE clear

(* exceedsMaxHeaderSize marks that the limit was reached.                  *)
Counted(d, n) == [d EXCEPT !.headerSize = IF Exceeds(n) THEN MaxHeaderSize + 1 ELSE @]

NameLengthIs(d, n) ==
  \/ /\ Skippable(n)
     /\ dec' = [Counted(d, n) EXCEPT !.nameLength = n, !.name = <<>>, !.skipLength = n,
                                     !.state = SkipLiteralHeaderName]
     /\ ClearFor(n)
     /\ UNCHANGED <<heard, failed>>
  \/ /\ ~Skippable(n)
     /\ GoOn([Counted(d, n) EXCEPT !.nameLength = n, !.state = ReadLiteralHeaderName])

ValueLengthIs(d, n) ==
  LET newHeaderSize == dec.nameLength + n
      counted == [Counted(d, newHeaderSize) EXCEPT !.valueLength = n]
  IN
  \/ /\ Skippable(newHeaderSize)
     /\ dec' = [counted EXCEPT !.state = SkipLiteralHeaderValue]
     /\ ClearFor(newHeaderSize)
     /\ UNCHANGED <<heard, failed>>
  \/ /\ ~Skippable(newHeaderSize) /\ n = 0
     /\ insertHeader(counted, dec.name, <<>>)
  \/ /\ ~Skippable(newHeaderSize) /\ n > 0
     /\ GoOn([counted EXCEPT !.state = ReadLiteralHeaderValue])

(* The first byte of a length: a flag, and the length or all ones.         *)
Prefixed(next) ==
  LET index == wire[1] % 2^StringPrefix IN
  [dec EXCEPT !.huffmanEncoded = wire[1] >= 128, !.index = index,
              !.state = IF index = 2^StringPrefix - 1 THEN next ELSE @]

ReadNameLengthPrefix ==
  LET d == Prefixed(ReadLiteralHeaderNameLength) IN
  /\ Take(ReadLiteralHeaderNameLengthPrefix, 1)
  /\ \/ d.state # dec.state /\ GoOn(d)
     \/ d.state = dec.state /\ d.index = 0 /\ Throw
     \/ d.state = dec.state /\ d.index > 0 /\ NameLengthIs(d, d.index)

ReadNameLength ==
  /\ NumberLength > 0
  /\ Take(ReadLiteralHeaderNameLength, NumberLength)
  /\ NameLengthIs(dec, dec.index + Number)

ReadValueLengthPrefix ==
  LET d == Prefixed(ReadLiteralHeaderValueLength) IN
  /\ Take(ReadLiteralHeaderValueLengthPrefix, 1)
  /\ \/ d.state # dec.state /\ GoOn(d)
     \/ d.state = dec.state /\ ValueLengthIs(d, d.index)

ReadValueLength ==
  /\ NumberLength > 0
  /\ Take(ReadLiteralHeaderValueLength, NumberLength)
  /\ ValueLengthIs(dec, dec.index + Number)

(* readStringLiteral.                                                      *)
Literal(n) ==
  LET bytes == SubSeq(wire, 1, n) IN
  IF dec.huffmanEncoded THEN HuffmanDecode(bytes) ELSE [text |-> bytes, failed |-> FALSE]

ReadName ==
  LET name == Literal(dec.nameLength) IN
  /\ Take(ReadLiteralHeaderName, dec.nameLength)
  /\ IF name.failed THEN Throw
     ELSE GoOn([dec EXCEPT !.name = name.text, !.state = ReadLiteralHeaderValueLengthPrefix])

ReadValue ==
  LET value == Literal(dec.valueLength) IN
  /\ Take(ReadLiteralHeaderValue, dec.valueLength)
  /\ IF value.failed THEN Throw
     ELSE insertHeader(dec, dec.name, value.text)

SkipName ==
  LET toSkip == Min({dec.skipLength, arrived}) IN
  /\ Take(SkipLiteralHeaderName, toSkip)
  /\ GoOn([dec EXCEPT !.skipLength = @ - toSkip,
                      !.state = IF dec.skipLength = toSkip
                                THEN ReadLiteralHeaderValueLengthPrefix ELSE @])

SkipValue ==
  LET toSkip == Min({dec.valueLength, arrived}) IN
  /\ Take(SkipLiteralHeaderValue, toSkip)
  /\ GoOn(IF dec.valueLength = toSkip THEN Between(dec)
          ELSE [dec EXCEPT !.valueLength = @ - toSkip])

Decode ==
  \/ ReadIndexed \/ ReadLiteral \/ ReadTableSize \/ ReadUnexpected
  \/ ReadTableSizeOn \/ ReadIndexedOn \/ ReadNameIndexOn
  \/ ReadNameLengthPrefix \/ ReadNameLength \/ ReadName \/ SkipName
  \/ ReadValueLengthPrefix \/ ReadValueLength \/ ReadValue \/ SkipValue

Stopped == (failed \/ trapped) /\ UNCHANGED vars

Next ==
  \/ EncodeHeader \/ SetMaxHeaderTableSize \/ Receive \/ LimitDecoder \/ EndHeaderBlock
  \/ Arrive \/ Decode \/ Stopped

Spec == Init /\ [][Next]_vars

-----------------------------------------------------------------------------
(* A careful application's headers come out of the decoder as they went    *)
(* into the encoder, in order, with their sensitivity, however the bytes   *)
(* are cut (encodeHeader, decode): nothing is refused, nothing is left     *)
(* when all bytes are read.                                                *)
HeardAsGiven ==
  careful =>
    /\ ~failed /\ ~trapped
    /\ IsPrefix(heard, given)
    /\ wire = <<>> => heard = given

(* When a careful application's bytes are read, all that the encoder       *)
(* remembers is in the decoder's table at the same index.  The encoder may *)
(* remember less: its ensureCapacity throws away more than the table's     *)
(* size asks for.                                                          *)
TablesAgree == careful /\ wire = <<>> => IsPrefix(enc, Entries)

(* The decoder refuses nothing this encoder sends it, whatever symbols the *)
(* strings are made of (decode, "Decodes headers which have been HPACK      *)
(* encoded.").                                                             *)
EncodedIsAccepted == use \in {"careful", "long codes"} => ~failed

=============================================================================
