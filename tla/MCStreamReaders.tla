--------------------------- MODULE MCStreamReaders ---------------------------
(* A small instance of StreamReaders for TLC.                               *)
EXTENDS StreamReaders, TLC

MCBoundary == <<"-", "-", "b">>

Value(data) == [file |-> FALSE, data |-> data]
Upload(data) == [file |-> TRUE, data |-> data]

(* All data of up to three bytes, and longer ones that come close to a      *)
(* delimiter.                                                               *)
Data == BoundedSeq({"CR", "LF", "-"}, 3) \cup
  {<<"CR", "LF", "-", "-">>, <<"CR", "LF", "-", "-", "x">>, <<"CR", "LF", "-", "x">>,
   <<"CR", "CR", "LF", "-", "b">>, <<"-", "-", "b", "CR">>}

MCForms ==
  {<<Value(d)>> : d \in Data} \cup {<<Upload(d)>> : d \in Data}
    \cup {<<Value(<<"x", "CR">>), Upload(<<"CR", "LF">>)>>, <<Upload(<<>>), Value(<<>>)>>}
    \cup {<<>>}

MCPlainBodies == {<<>>, <<"x", "CR", "LF", "-">>}

F(op, fin, n) == [op |-> op, fin |-> fin, masked |-> TRUE, payload |-> [i \in 1..n |-> i]]
U == [op |-> "Text", fin |-> TRUE, masked |-> FALSE, payload |-> <<>>]

MCConversations ==
  {<<F("Text", TRUE, 2), F("Ping", TRUE, 1)>>,
   <<F("Text", FALSE, 0), F("Ping", TRUE, 0), F("Continuation", TRUE, 3)>>,
   <<F("Binary", TRUE, 5), F("Close", TRUE, 0), F("Text", TRUE, 0)>>,
   <<F("Ping", TRUE, 3), F("Text", TRUE, 1), U>>}

=============================================================================
