--------------------------- MODULE MessageWriter ---------------------------
(***************************************************************************)
(* The outgoing side of an HTTP message: OMessage and OMessageWriter       *)
(* (src/http/outgoing/Message.cc) with the start line and the status of    *)
(* OResponseWriter (src/http/outgoing/Response.cc).                        *)
(*                                                                         *)
(* A message is written through four calls: setting the status, writing a  *)
(* header, writing payload bytes, and Done().  What reaches the connection *)
(* is the sequence `wire` of tokens, one per line or block of bytes.       *)
(* streamState never becomes FINISHED: no code of the writer sets it, so   *)
(* the branches on FINISHED cannot be taken and are left out.              *)
(*                                                                         *)
(* contentSize and encoding are protected fields of OMessage.  They keep   *)
(* their initial values in every class of the repository; a subclass may   *)
(* set them, which is what the constant Framings is for.                   *)
(***************************************************************************)
EXTENDS Integers, Sequences

CONSTANTS
  Statuses,   \* the HttpStatus values a handler can set
  OK,         \* HttpStatus::OK, the initial status
  Headers,    \* the headers (name and value) a handler can write
  Bytes,      \* the bytes of a payload
  Payloads,   \* the blocks of bytes passed to one WritePayloadData call
  Framings,   \* the (contentSize, encoding) pairs of the OMessage subclasses
  MaxCalls    \* bound: calls a client makes on one message before Done

\* contentSize is a size_t whose initial value (size_t)-1 means "not known".
NoSize == -1

ASSUME WriterAssumption ==
  /\ OK \in Statuses
  /\ Payloads \subseteq Seq(Bytes)
  /\ Framings \subseteq [contentSize : Nat \cup {NoSize},
                         encoding : {"UNKNOWN", "chunked"}]
  /\ MaxCalls \in Nat

VARIABLES
  contentSize, encoding,   \* OMessage::contentSize, OMessage::encoding
  streamState, bodyType,   \* the two fields of MessageParserState
  buffer,                  \* OMessageWriter::buffer
  status,                  \* OResponseWriter::status
  wire,                    \* everything passed to WriteData so far
  raised,                  \* the exception the last call ended with
  calls,                   \* number of calls made by the client
  closed,                  \* the client has called Done()
  headers, payload         \* history: headers and payload bytes accepted

framing == <<contentSize, encoding>>
history == <<headers, payload>>
writerVars == <<contentSize, encoding, streamState, bodyType, buffer, status,
                wire, raised, calls, closed, headers, payload>>

----------------------------------------------------------------------------
(* Tokens of the wire. *)

StartLine(s) == [kind |-> "start", status |-> s]
HeaderLine(h) == [kind |-> "header", header |-> h]
ContentLength(n) == [kind |-> "length", value |-> n]
BlankLine == [kind |-> "blank"]
Data(b) == [kind |-> "data", bytes |-> b]
\* hex size, CRLF, the bytes, CRLF.  The terminator "0\r\n\r\n" is the empty one.
Chunk(b) == [kind |-> "chunk", bytes |-> b]
LastChunk == Chunk(<<>>)

Token ==      [kind : {"start"}, status : Statuses]
         \cup [kind : {"header"}, header : Headers]
         \cup [kind : {"length"}, value : Nat]
         \cup [kind : {"blank"}]
         \cup [kind : {"data", "chunk"}, bytes : Seq(Bytes)]

----------------------------------------------------------------------------
(* BodyType::From: a known size wins over a chunked encoding. *)
BodyTypeFrom(size, enc) ==
  CASE size # NoSize                       -> "KNOWN_SIZE"
    [] size = NoSize /\ enc = "chunked"    -> "CHUNKED"
    [] OTHER                               -> "NONE"

\* OMessage::WritePayloadData replaces NONE by BUFFERING.
OutgoingBodyType ==
  LET t == BodyTypeFrom(contentSize, encoding)
  IN  IF t = "NONE" THEN "BUFFERING" ELSE t

\* WriteStartLine is called exactly when the state is still START_LINE, and it
\* uses the status of that moment.
OpeningLine == IF streamState = "START_LINE" THEN <<StartLine(status)>> ELSE <<>>

InHead == streamState \in {"START_LINE", "HEADERS"}

Raise(e) == raised' = e
Returns == Raise("none")

WriterInit ==
  /\ \E f \in Framings : contentSize = f.contentSize /\ encoding = f.encoding
  /\ streamState = "START_LINE" /\ bodyType = "UNKNOWN"
  /\ buffer = <<>> /\ status = OK
  /\ wire = <<>> /\ raised = "none"
  /\ calls = 0 /\ closed = FALSE
  /\ headers = <<>> /\ payload = <<>>

\* OResponseWriter::operator<<(HttpStatus): only the pointer changes.
SetStatus(s) ==
  /\ status' = s
  /\ Returns
  /\ UNCHANGED <<framing, streamState, bodyType, buffer, wire, history>>

\* Mutant: the state is not tested.
WriteHeader_Mutant(h) ==
  /\ streamState' = IF InHead THEN "HEADERS" ELSE streamState
  /\ wire' = wire \o OpeningLine \o <<HeaderLine(h)>>
  /\ headers' = Append(headers, h)
  /\ Returns
  /\ UNCHANGED <<framing, bodyType, buffer, status, payload>>

\* OMessageWriter::WriteHeader, and operator<< of a header, cookie or type.
WriteHeader(h) ==
  \/ /\ InHead
     /\ streamState' = "HEADERS"
     /\ wire' = wire \o OpeningLine \o <<HeaderLine(h)>>
     /\ headers' = Append(headers, h)
     /\ Returns
     /\ UNCHANGED <<framing, bodyType, buffer, status, payload>>
  \/ /\ ~InHead
     /\ Raise("InvalidState")
     /\ UNCHANGED <<framing, streamState, bodyType, buffer, status, wire, history>>

\* Mutant: a second call of a buffered message replaces the buffer.
WritePayloadData_Mutant(p) ==
  /\ streamState' = "BODY"
  /\ bodyType' = "BUFFERING"
  /\ buffer' = p
  /\ wire' = wire \o OpeningLine
  /\ payload' = payload \o p
  /\ Returns
  /\ UNCHANGED <<framing, status, headers>>

\* OMessageWriter::WritePayloadData.  The first call fixes the body type and,
\* unless the body is buffered, ends the header section.
WritePayloadData(p) ==
  LET type  == IF InHead THEN OutgoingBodyType ELSE bodyType
      blank == IF InHead /\ type # "BUFFERING" THEN <<BlankLine>> ELSE <<>>
      body  == CASE type = "BUFFERING"  -> <<>>
                 [] type = "CHUNKED"    -> <<Chunk(p)>>
                 [] type = "KNOWN_SIZE" -> <<Data(p)>>
  IN  /\ streamState' = "BODY"
      /\ bodyType' = type
      /\ buffer' = IF type = "BUFFERING" THEN buffer \o p ELSE buffer
      /\ wire' = wire \o OpeningLine \o blank \o body
      /\ payload' = payload \o p
      /\ Returns
      /\ UNCHANGED <<framing, status, headers>>

----------------------------------------------------------------------------
(* OMessageWriter::Done, one action per way through its switch. *)

\* No payload, no declared size: an explicit Content-Length of 0.
DoneEmpty ==
  /\ InHead /\ contentSize = NoSize /\ encoding # "chunked"
  /\ streamState' = "HEADERS"
  /\ wire' = wire \o OpeningLine \o <<ContentLength(0), BlankLine>>
  /\ Returns

DoneEmptyChunked ==
  /\ InHead /\ encoding = "chunked"
  /\ streamState' = "HEADERS"
  /\ wire' = wire \o OpeningLine \o <<BlankLine, LastChunk>>
  /\ Returns

\* A declared size and nothing written.  A size of 0 falls through to the
\* switch on the body type, which is still UNKNOWN.
DoneAbandoned ==
  /\ InHead /\ contentSize # NoSize /\ encoding # "chunked"
  /\ streamState' = "HEADERS"
  /\ wire' = wire \o OpeningLine \o <<BlankLine>>
  /\ Raise(IF contentSize # 0 THEN "Abandoned" ELSE "InvalidState")

\* Mutant: the terminator is forgotten.
DoneChunked_Mutant ==
  /\ streamState = "BODY" /\ bodyType = "CHUNKED"
  /\ Returns
  /\ UNCHANGED <<streamState, wire>>

DoneChunked ==
  /\ streamState = "BODY" /\ bodyType = "CHUNKED"
  /\ wire' = Append(wire, LastChunk)
  /\ Returns
  /\ UNCHANGED streamState

\* Mutant: the message is marked as finished.
DoneBuffered_Mutant ==
  /\ streamState = "BODY" /\ bodyType = "BUFFERING"
  /\ streamState' = "FINISHED"
  /\ wire' = wire \o <<ContentLength(Len(buffer)), BlankLine, Data(buffer)>>
  /\ Returns

\* The state steps back to HEADERS so that WriteHeader accepts the length.
DoneBuffered ==
  /\ streamState = "BODY" /\ bodyType = "BUFFERING"
  /\ streamState' = "HEADERS"
  /\ wire' = wire \o <<ContentLength(Len(buffer)), BlankLine, Data(buffer)>>
  /\ Returns

DoneKnownSize ==
  /\ streamState = "BODY" /\ bodyType = "KNOWN_SIZE"
  /\ Raise("InvalidState")
  /\ UNCHANGED <<streamState, wire>>

Done ==
  /\ \/ DoneEmpty \/ DoneEmptyChunked \/ DoneAbandoned
     \/ DoneChunked \/ DoneBuffered \/ DoneKnownSize
  /\ UNCHANGED <<framing, bodyType, buffer, status, history>>

----------------------------------------------------------------------------
(* The protocol the writer relies on: calls come one at a time, Done is    *)
(* the last one.  Nothing in the writer enforces it; module                *)
(* RequestDispatch shows that the server keeps it.                         *)

Call == calls < MaxCalls /\ calls' = calls + 1 /\ UNCHANGED closed
Close == closed' = TRUE /\ UNCHANGED calls /\ Done

ClientSetStatus == ~closed /\ Call /\ \E s \in Statuses : SetStatus(s)
ClientWriteHeader == ~closed /\ Call /\ \E h \in Headers : WriteHeader(h)
ClientWritePayload == ~closed /\ Call /\ \E p \in Payloads : WritePayloadData(p)
ClientClose == ~closed /\ Close

WriterNext ==
  \/ ClientSetStatus
  \/ ClientWriteHeader
  \/ ClientWritePayload
  \/ ClientClose

WriterSpec == WriterInit /\ [][WriterNext]_writerVars

----------------------------------------------------------------------------
(* Properties. *)

\* Type correctness of the writer's state.
WriterTypeOK ==
  /\ contentSize \in Nat \cup {NoSize}
  /\ encoding \in {"UNKNOWN", "chunked"}
  /\ streamState \in {"START_LINE", "HEADERS", "BODY"}
  /\ bodyType \in {"UNKNOWN", "BUFFERING", "KNOWN_SIZE", "CHUNKED"}
  /\ buffer \in Seq(Bytes)
  /\ status \in Statuses
  /\ wire \in Seq(Token)
  /\ raised \in {"none", "InvalidState", "Abandoned"}
  /\ calls \in Nat
  /\ closed \in BOOLEAN
  /\ headers \in Seq(Headers)
  /\ payload \in Seq(Bytes)

IsHead(t) == t.kind \in {"start", "header", "length"}

\* Whatever order the client's calls come in, and although a buffered message
\* steps its state back to HEADERS in Done, the wire holds one start line, at
\* the front, and no line of the head follows the blank line.
HeadPrecedesBody ==
  /\ wire # <<>> => wire[1].kind = "start"
  /\ \A i \in 2..Len(wire) : wire[i].kind # "start"
  /\ \A i, j \in 1..Len(wire) : i < j /\ IsHead(wire[j]) => IsHead(wire[i])

\* Every Content-Length the writer puts on the wire is the number of payload
\* bytes the client wrote before Done, in whichever branch of Done it is made.
ContentLengthIsPayload ==
  \A i \in 1..Len(wire) :
     wire[i].kind = "length" => closed /\ wire[i].value = Len(payload)

============================================================================
