------------------------------- MODULE FastCGI -------------------------------
(***************************************************************************)
(* The body of a request on its way to WebRequest: a FastCGIRequest        *)
(* (PerfectLib/FastCGI.swift, FastCGIServer.swift) that reads records from *)
(* a web server, and putStdinData, which HTTPWebConnection has too         *)
(* (HTTPServer.swift) and which hands a multipart body to a MimeReader.    *)
(*                                                                         *)
(* The web server has the request of one script: its content type and its  *)
(* body as tokens, unsent.  A record is read whole or not at all, which is *)
(* what readBytesFully promises (NetTCP.ReadIsExact); only its type and    *)
(* its content are kept.  An HTTP body comes as readSomeBytes finds it.    *)
(* Parameters are sent in one record: a parameter that goes over the end   *)
(* of its record stops the process.  The response is left out: its writes  *)
(* never complete (FastCGI.swift:161), and its header is all that is sent. *)
(***************************************************************************)
EXTENDS MimeReader

VARIABLES
  from,         \* "fastcgi", "http", or "none" for a connection without a body
  contentType,  \* what the client sends: "plain" or "multipart"
  unsent,       \* the part of the body that has not been read
  step,         \* "record", "xstdin", "body", "ran" or "closed"
  params,       \* requestParams["CONTENT_TYPE"], or "none"
  lastRecord,   \* lastRecordType
  size,         \* the argument of readXStdin
  stdin,        \* stdin, <<>> also when it is nil
  mimes         \* a MimeReader was made

requestVars == <<from, contentType, params, lastRecord>>
bodyVars == <<requestVars, unsent, step, size, stdin, mimes>>

-----------------------------------------------------------------------------
(* putStdinData.  A MimeReader that is still at work is in this thread, so *)
(* the next piece waits for its last turn.                                 *)
PutStdinData(b) ==
  /\ rest = <<>>
  /\ IF params # "multipart"
     THEN stdin' = stdin \o b /\ UNCHANGED <<mimes, mimeVars>>
     ELSE mimes' = TRUE /\ AddToBuffer(b) /\ UNCHANGED stdin

(* A prefix of what the client has not sent yet, but not more than n.      *)
Pieces(n) == {SubSeq(unsent, 1, k) : k \in 1..(IF n < Len(unsent) THEN n ELSE Len(unsent))}
Reads(b) == unsent' = From(unsent, Len(b) + 1)

-----------------------------------------------------------------------------
(* readRecord and handleRecord.                                            *)

AtRecord == from = "fastcgi" /\ step = "record" /\ rest = <<>>

BeginRecord ==
  /\ AtRecord /\ lastRecord = "none"
  /\ lastRecord' = "begin"
  /\ UNCHANGED <<from, contentType, params, unsent, step, size, stdin, mimes, mimeVars>>

ParamsRecord ==
  /\ AtRecord /\ lastRecord = "begin"
  /\ params' = contentType
  /\ lastRecord' = "params"
  /\ UNCHANGED <<from, contentType, unsent, step, size, stdin, mimes, mimeVars>>

(* FCGI_PARAMS without content, FCGI_DATA and types it does not know.      *)
OtherRecord ==
  /\ AtRecord /\ lastRecord = "params"
  /\ lastRecord' = "other"
  /\ UNCHANGED <<from, contentType, params, unsent, step, size, stdin, mimes, mimeVars>>

ParamsRead == lastRecord \in {"params", "other", "stdin"}

StdinRecord ==
  /\ AtRecord /\ ParamsRead
  /\ \E b \in Pieces(Len(unsent)) : PutStdinData(b) /\ Reads(b)
  /\ lastRecord' = "stdin"
  /\ UNCHANGED <<from, contentType, params, step, size>>

(* FCGI_STDIN without content: runRequest.                                 *)
EndOfStdin ==
  /\ AtRecord /\ ParamsRead /\ unsent = <<>>
  /\ step' = "ran"
  /\ UNCHANGED <<requestVars, unsent, size, stdin, mimes, mimeVars>>

(* X_STDIN announces bytes that follow it outside of any record.           *)
XStdinRecord ==
  /\ AtRecord /\ ParamsRead
  /\ size' \in 1..Len(unsent)
  /\ step' = "xstdin"
  /\ UNCHANGED <<requestVars, unsent, stdin, mimes, mimeVars>>

(* readXStdin: readSomeBytes, until size bytes were read.  It calls itself *)
(* at once when there are none yet; such a step changes nothing.           *)
ReadXStdin ==
  /\ step = "xstdin"
  /\ \E b \in Pieces(size) :
       /\ PutStdinData(b)
       /\ Reads(b)
       /\ size' = size - Len(b)
       /\ IF Len(b) = size
          THEN lastRecord' = "stdin" /\ step' = "record"
          ELSE UNCHANGED <<step, lastRecord>>
  /\ UNCHANGED <<from, contentType, params>>

(* HTTPWebConnection.readBody(count:callback:): size is what is missing.   *)
ReadBody ==
  /\ from = "http" /\ step = "body" /\ rest = <<>>
  /\ \/ /\ size = 0 /\ step' = "ran"
        /\ UNCHANGED <<unsent, size, stdin, mimes, mimeVars>>
     \/ /\ size > 0
        /\ \E b \in Pieces(size) : PutStdinData(b) /\ Reads(b) /\ size' = size - Len(b)
        /\ UNCHANGED step
  /\ UNCHANGED requestVars

(* The client goes away, or is silent for longer than the timeout: no part *)
(* of a record that has begun is used, and the request never runs.         *)
ReadFails ==
  /\ step \in {"record", "xstdin", "body"} /\ rest = <<>>
  /\ step' = "closed"
  /\ UNCHANGED <<requestVars, unsent, size, stdin, mimes, mimeVars>>

RecordStep ==
  \/ BeginRecord \/ ParamsRecord \/ OtherRecord
  \/ StdinRecord \/ EndOfStdin \/ XStdinRecord \/ ReadXStdin

=============================================================================
