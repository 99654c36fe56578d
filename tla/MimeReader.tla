----------------------------- MODULE MimeReader -----------------------------
(***************************************************************************)
(* MimeReader (PerfectLib/MimeReader.swift): a multipart body that comes   *)
(* in pieces, cut anywhere.                                                *)
(*                                                                         *)
(* addToBuffer puts what it kept from the last call before the new bytes   *)
(* and goes through them in turns of one loop; a turn that cannot tell     *)
(* what the next bytes are keeps them for the next call.  Here the call    *)
(* sets rest, byts[position..<end] of the code, and each turn is an        *)
(* action; the call has returned when rest is empty.                       *)
(*                                                                         *)
(* CR, LF, the dashes and the bytes of the boundary are single tokens,     *)
(* the text of a header line is one token: a cut inside it is like a cut   *)
(* in front of it, because a line without its end is kept whole.           *)
(***************************************************************************)
EXTENDS Integers, Sequences, SequencesExt

CONSTANTS Boundary   \* "--" and the boundary, as tokens

ASSUME BoundaryAssumption ==
  /\ Boundary \in Seq(STRING) /\ Len(Boundary) > 2 /\ SubSeq(Boundary, 1, 2) = <<"-", "-">>
  /\ \A i \in DOMAIN Boundary : Boundary[i] \notin {"CR", "LF"}

VARIABLES
  state,      \* MimeReadState
  buffer,     \* what was kept for the next call
  rest,       \* what the running call has still to look at
  bodySpecs   \* the parts: file, a name for it was given; data

mimeVars == <<state, buffer, rest, bodySpecs>>

MimeInit == state = "StateBoundary" /\ buffer = <<>> /\ rest = <<>> /\ bodySpecs = <<>>

NewSpec == [file |-> FALSE, data |-> <<>>]

From(s, i) == SubSeq(s, i, Len(s))

(* The current part.                                                       *)
Spec0 == bodySpecs[Len(bodySpecs)]
SetSpec(spec) == bodySpecs' = [bodySpecs EXCEPT ![Len(bodySpecs)] = spec]

-----------------------------------------------------------------------------
(* addToBuffer(bytes:), up to the first turn.                              *)
AddToBuffer(bytes) ==
  /\ rest' = buffer \o bytes
  /\ buffer' = IF buffer = <<>> THEN <<>> ELSE buffer \o bytes
  /\ UNCHANGED <<state, bodySpecs>>

(* A turn that leaves r to the next; nothing is kept if it was the last.   *)
GoesOnWith(r) ==
  /\ rest' = r
  /\ buffer' = IF r = <<>> THEN <<>> ELSE buffer

(* A turn that keeps r.                                                    *)
Keeps(r) == rest' = <<>> /\ buffer' = r

(* case .StateDone, .StateNone                                             *)
Ignored ==
  /\ rest # <<>> /\ state \in {"StateDone", "StateNone"}
  /\ rest' = <<>>
  /\ UNCHANGED <<state, buffer, bodySpecs>>

-----------------------------------------------------------------------------
(* case .StateBoundary: the boundary is not looked at again, only what     *)
(* follows it.                                                             *)

Follows(i) == SubSeq(rest, Len(Boundary) + 1, Len(Boundary) + i)

BoundaryUnfinished ==
  /\ rest # <<>> /\ state = "StateBoundary"
  /\ Len(rest) < Len(Boundary) + 2
  /\ Keeps(rest)
  /\ UNCHANGED <<state, bodySpecs>>

LastBoundary ==
  /\ state = "StateBoundary" /\ Len(rest) >= Len(Boundary) + 2
  /\ Follows(2) = <<"-", "-">>
  /\ state' = "StateDone"
  /\ GoesOnWith(<<>>)
  /\ UNCHANGED bodySpecs

BoundaryOfPart ==
  /\ state = "StateBoundary" /\ Len(rest) >= Len(Boundary) + 2
  /\ Follows(2) # <<"-", "-">>
  /\ state' = "StateHeader"
  /\ bodySpecs' = Append(bodySpecs, NewSpec)
  /\ GoesOnWith(From(rest, Len(Boundary) + 3))

-----------------------------------------------------------------------------
(* case .StateHeader                                                       *)

IsEol(s, i) == i < Len(s) /\ s[i] = "CR" /\ s[i + 1] = "LF"
Eols == {i \in DOMAIN rest : IsEol(rest, i)}

(* Mutation: the loop is not left.                                         *)
HeaderLooksAgain ==
  /\ rest # <<>> /\ state = "StateHeader"
  /\ Eols = {}
  /\ UNCHANGED mimeVars

HeaderUnfinished ==
  /\ rest # <<>> /\ state = "StateHeader"
  /\ Eols = {}
  /\ Keeps(rest)
  /\ UNCHANGED <<state, bodySpecs>>

DataState(spec) == IF spec.file THEN "StateFile" ELSE "StateFieldValue"

(* A blank line that a turn begins with.                                   *)
BlankLine ==
  /\ state = "StateHeader" /\ IsEol(rest, 1)
  /\ state' = DataState(Spec0)
  /\ GoesOnWith(From(rest, 3))
  /\ UNCHANGED bodySpecs

(* Content-Disposition with or without a file name; other lines do not     *)
(* matter to what follows.                                                 *)
Described(spec, line) ==
  [spec EXCEPT !.file = IF line = "disposition" THEN FALSE
                        ELSE IF line = "file disposition" THEN TRUE ELSE @]

(* A header line, and the blank line behind it if that is there.           *)
HeaderLine ==
  /\ state = "StateHeader" /\ Eols # {} /\ 1 \notin Eols
  /\ LET eol == CHOOSE i \in Eols : \A j \in Eols : i <= j
         spec == Described(Spec0, rest[1]) IN
       /\ SetSpec(spec)
       /\ \/ /\ IsEol(rest, eol + 2)
             /\ state' = DataState(spec)
             /\ GoesOnWith(From(rest, eol + 4))
          \/ /\ ~IsEol(rest, eol + 2)
             /\ GoesOnWith(From(rest, eol + 2))
             /\ UNCHANGED state

-----------------------------------------------------------------------------
(* case .StateFieldValue and case .StateFile                               *)

IsBoundaryStart(s, i) ==
  i + Len(Boundary) - 1 <= Len(s) /\ SubSeq(s, i, i + Len(Boundary) - 1) = Boundary

AtDelimiter(i) == IsEol(rest, i) /\ IsBoundaryStart(rest, i + 2)

(* Mutation: a CR at the end of the piece is taken for data.               *)
MayBeDelimiterCR(i) ==
  /\ IsEol(rest, i) /\ ~IsBoundaryStart(rest, i + 2)
  /\ Len(rest) - i - 1 < Len(Boundary)
  /\ Len(rest) - i + 1 < 4 \/ SubSeq(rest, i + 2, i + 3) = <<"-", "-">>

(* The bytes from i on may become a line end and a boundary.               *)
MayBeDelimiter(i) ==
  \/ rest[i] = "CR" /\ i = Len(rest)
  \/ /\ IsEol(rest, i) /\ ~IsBoundaryStart(rest, i + 2)
     /\ Len(rest) - i - 1 < Len(Boundary)
     /\ Len(rest) - i + 1 < 4 \/ SubSeq(rest, i + 2, i + 3) = <<"-", "-">>

Stops == {i \in DOMAIN rest : AtDelimiter(i) \/ MayBeDelimiter(i)}
FirstStop ==
  IF Stops = {} THEN Len(rest) + 1 ELSE CHOOSE i \in Stops : \A j \in Stops : i <= j

(* All that is surely data goes into the value or, in one write, into the  *)
(* file; a file is written at most once between two stops.                 *)
DataTurn ==
  /\ rest # <<>> /\ state \in {"StateFieldValue", "StateFile"}
  /\ SetSpec([Spec0 EXCEPT !.data = @ \o SubSeq(rest, 1, FirstStop - 1)])
  /\ \/ /\ Stops = {}
        /\ GoesOnWith(<<>>)
        /\ UNCHANGED state
     \/ /\ Stops # {} /\ AtDelimiter(FirstStop)
        /\ state' = "StateBoundary"
        /\ GoesOnWith(From(rest, FirstStop + 2))
     \/ /\ Stops # {} /\ ~AtDelimiter(FirstStop)
        /\ Keeps(From(rest, FirstStop))
        /\ UNCHANGED state

(* The file cannot be written: what follows is ignored.                    *)
FileWriteFails ==
  /\ state = "StateFile" /\ rest # <<>> /\ FirstStop > 1
  /\ state' = "StateNone"
  /\ UNCHANGED <<buffer, rest, bodySpecs>>

-----------------------------------------------------------------------------
MimeTurn ==
  \/ Ignored
  \/ BoundaryUnfinished \/ LastBoundary \/ BoundaryOfPart
  \/ HeaderUnfinished \/ BlankLine \/ HeaderLine
  \/ DataTurn \/ FileWriteFails

=============================================================================
