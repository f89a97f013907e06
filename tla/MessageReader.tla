--------------------------- MODULE MessageReader ---------------------------
(***************************************************************************)
(* The incoming side of an HTTP message: BufferedReader::OnData cuts the   *)
(* fragments that arrive from the socket into lines and blocks             *)
(* (src/http/Response.cc), IMessage::OnBufferedData turns them into a      *)
(* start line, headers and a body (src/http/incoming/Message.cc).          *)
(*                                                                         *)
(* The peer sends `wire`, a sequence of symbols: CR, LF, and symbols that  *)
(* stand for the text of a line, of a header's name or value, or for one   *)
(* byte of a body.  The fragments are arbitrary: Deliver is one call of    *)
(* OnData, and each further action one pass of its loop.                   *)
(*                                                                         *)
(* BufferMode LENGTH is left out: it is entered only when a chunk size is  *)
(* parsed, which needs expectedSize = -1 in state BODY, and the NEWLINE    *)
(* mode that leads there has just set expectedSize to the line's length.   *)
(* UpdateBufferState is never called.                                      *)
(***************************************************************************)
EXTENDS Integers, Sequences

CONSTANTS
  Symbols,      \* every symbol that can be sent, CR and LF included
  CR, LF,
  LengthName,   \* the text "Content-Length"
  CodingName,   \* the text "Transfer-Encoding"
  Chunked,      \* the text "chunked"
  SizeOf,       \* what >> makes of a text read into a size_t; "-1", and a number
                \* too large for it, become NoSize
  Wires,        \* the symbol sequences a peer may send
  Complete      \* those that are one whole message of known size

NoSize == -1
Newlines == {CR, LF}

ASSUME ReaderAssumption ==
  /\ {CR, LF, LengthName, CodingName, Chunked} \subseteq Symbols
  /\ CR # LF /\ Newlines \cap {LengthName, CodingName, Chunked} = {}
  /\ SizeOf \in [Symbols -> Nat \cup {NoSize}]
  /\ Wires \subseteq Seq(Symbols)
  /\ Complete \subseteq Wires

VARIABLES
  wire,                    \* what the peer sends
  at, end,                 \* OnData's data and end, as positions of the wire
  bufferMode, expectedSize, buffer,    \* BufferedReader
  streamState, bodyType,               \* IMessage::currentState
  startline, headers, body,            \* the message read so far
  outcome,                 \* what the last OnData returned, or how it failed
  taken,                   \* history: end of what was passed on or dropped
  split                    \* history: a fragment has ended between CR and LF

reader == <<bufferMode, expectedSize, buffer>>
state == <<streamState, bodyType>>
message == <<startline, headers, body>>
vars == <<wire, at, end, bufferMode, expectedSize, buffer, streamState,
          bodyType, startline, headers, body, outcome, taken, split>>

Init ==
  /\ wire \in Wires
  /\ at = 0 /\ end = 0
  /\ bufferMode = "NEWLINE" /\ expectedSize = NoSize /\ buffer = <<>>
  /\ streamState = "START_LINE" /\ bodyType = "UNKNOWN"
  /\ startline = <<>> /\ headers = <<>> /\ body = <<>>
  /\ outcome = "idle" /\ taken = 0 /\ split = FALSE

----------------------------------------------------------------------------
(* Headers, given as a sequence of names and values. *)

\* HeaderCollection::Add joins repeated headers with commas, after dropping
\* leading empty values (which a newline in the place of the value stands for).
HasHeader(hs, name) ==
  \E k \in 1..Len(hs) : hs[k].name = name /\ hs[k].value \notin Newlines

First(hs, name) ==
  CHOOSE k \in 1..Len(hs) :
    /\ hs[k].name = name /\ hs[k].value \notin Newlines
    /\ \A j \in 1..(k - 1) : hs[j].name = name => hs[j].value \in Newlines

\* Reading a number out of the joined text stops at the comma.
LengthIn(hs) ==
  IF HasHeader(hs, LengthName) THEN SizeOf[hs[First(hs, LengthName)].value] ELSE NoSize

\* Reading a coding takes the comma with it, which makes it an unknown one.
ChunkedIn(hs) ==
  /\ HasHeader(hs, CodingName)
  /\ hs[First(hs, CodingName)].value = Chunked
  /\ \A k \in (First(hs, CodingName) + 1)..Len(hs) : hs[k].name # CodingName

ContentLength == LengthIn(headers)
IsChunked == ChunkedIn(headers)

\* BodyType::From.
BodyTypeFrom(size, chunked) ==
  CASE size # NoSize               -> "KNOWN_SIZE"
    [] size = NoSize /\ chunked    -> "CHUNKED"
    [] OTHER                       -> "NONE"

\* readHeaderName and readHeaderValue: a header line is a name and a value, and
\* a newline in the place of the value stands for an empty one.
HeaderOf(line) == [name |-> line[1], value |-> line[2]]

\* One whole message of known size, with h headers:
\*    <<text, CR, LF>>, <<name, value, CR, LF>> h times, <<CR, LF>>, body
\* where the body has the length that the headers announce.
HeadersOf(w, h) == [k \in 1..h |-> [name |-> w[4 * k], value |-> w[4 * k + 1]]]

WholeMessage(w, h) ==
  /\ Len(w) >= 4 * h + 5
  /\ w[1] \notin Newlines /\ w[2] = CR /\ w[3] = LF
  /\ \A k \in 1..h :
       /\ w[4 * k] \notin Newlines /\ w[4 * k + 1] \notin Newlines
       /\ w[4 * k + 2] = CR /\ w[4 * k + 3] = LF
  /\ w[4 * h + 4] = CR /\ w[4 * h + 5] = LF
  /\ LengthIn(HeadersOf(w, h)) = Len(w) - (4 * h + 5)
  /\ ~ChunkedIn(HeadersOf(w, h))

ASSUME CompleteAssumption ==
  \A w \in Complete : \E h \in 0..Len(w) : WholeMessage(w, h)

----------------------------------------------------------------------------
(* IMessage::OnBufferedData(block), with expectedSize equal to size: one   *)
(* action per case.  Each leaves the position and OnData's result to the   *)
(* loop below, and does not touch the buffer.                              *)

OnStartLine(block, size) ==
  /\ streamState = "START_LINE"
  /\ startline' = block
  /\ streamState' = "HEADERS"
  /\ expectedSize' = size
  /\ UNCHANGED <<bodyType, headers, body, bufferMode>>

OnHeader(block, size) ==
  /\ streamState = "HEADERS" /\ block[1] \notin Newlines
  /\ headers' = Append(headers, HeaderOf(block))
  /\ expectedSize' = size
  /\ UNCHANGED <<state, startline, body, bufferMode>>

\* Mutant: a length of 0 is not looked at.
OnHeadersEnd_Mutant(block) ==
  /\ streamState = "HEADERS" /\ block[1] \in Newlines
  /\ bodyType' = BodyTypeFrom(ContentLength, IsChunked)
  /\ streamState' = "BODY"
  /\ bufferMode' = IF IsChunked THEN "NEWLINE" ELSE "NONE"
  /\ expectedSize' = ContentLength
  /\ UNCHANGED message

\* The blank line fixes the body type; a length of 0 ends the message.
OnHeadersEnd(block) ==
  /\ streamState = "HEADERS" /\ block[1] \in Newlines
  /\ bodyType' = BodyTypeFrom(ContentLength, IsChunked)
  /\ streamState' = IF ContentLength = 0 THEN "FINISHED" ELSE "BODY"
  /\ bufferMode' = IF IsChunked THEN "NEWLINE" ELSE "NONE"
  /\ expectedSize' = ContentLength
  /\ UNCHANGED message

\* Mutants: surplus data wraps the size around; a short block is not counted.
OnKnownSize_Wraps(block, size) ==
  /\ streamState = "BODY" /\ bodyType = "KNOWN_SIZE"
  /\ body' = body \o block
  /\ bufferMode' = "NONE"
  /\ expectedSize' = size - Len(block)
  /\ streamState' = IF expectedSize' = 0 THEN "FINISHED" ELSE "BODY"
  /\ UNCHANGED <<bodyType, startline, headers>>

OnKnownSize_NotCounted(block, size) ==
  /\ streamState = "BODY" /\ bodyType = "KNOWN_SIZE"
  /\ body' = body \o block
  /\ bufferMode' = "NONE"
  /\ expectedSize' = IF Len(block) < size THEN size ELSE 0
  /\ streamState' = IF expectedSize' = 0 THEN "FINISHED" ELSE "BODY"
  /\ UNCHANGED <<bodyType, startline, headers>>

\* All of the block goes to the body, also what exceeds the expected size.
OnKnownSize(block, size) ==
  /\ streamState = "BODY" /\ bodyType = "KNOWN_SIZE"
  /\ body' = body \o block
  /\ bufferMode' = "NONE"
  /\ expectedSize' = IF Len(block) <= size THEN size - Len(block) ELSE 0
  /\ streamState' = IF expectedSize' = 0 THEN "FINISHED" ELSE "BODY"
  /\ UNCHANGED <<bodyType, startline, headers>>

\* Every line is taken for the data of a chunk, its last two bytes cut off; a
\* line of two bytes ends the message.
OnChunk(block, size) ==
  /\ streamState = "BODY" /\ bodyType = "CHUNKED" /\ size >= 2
  /\ body' = body \o SubSeq(block, 1, size - 2)
  /\ streamState' = IF size = 2 THEN "FINISHED" ELSE "BODY"
  /\ bufferMode' = "NEWLINE"
  /\ expectedSize' = size
  /\ UNCHANGED <<bodyType, startline, headers>>

\* Neither a length nor a coding: the data is dropped.
OnNoBody(size) ==
  /\ streamState = "BODY" /\ bodyType = "NONE"
  /\ expectedSize' = size
  /\ UNCHANGED <<state, message, bufferMode>>

OnBufferedData(block, size) ==
  \/ OnStartLine(block, size)
  \/ OnHeader(block, size)
  \/ OnHeadersEnd(block)
  \/ OnKnownSize(block, size)
  \/ OnChunk(block, size)
  \/ OnNoBody(size)

\* The two ways OnBufferedData fails: data after the end of the message, and a
\* chunk line of one byte, whose size minus two wraps around.
Fails(size) ==
  \/ /\ streamState = "FINISHED"
     /\ outcome' = "unexpected input"
  \/ /\ streamState = "BODY" /\ bodyType = "CHUNKED" /\ size < 2
     /\ outcome' = "overrun"

----------------------------------------------------------------------------
(* BufferedReader::OnData. *)

Failed == outcome \in {"unexpected input", "overrun"}
Busy == outcome = "reading"
Rest == SubSeq(wire, at + 1, end)

SplitsLineEnd(k) == k < Len(wire) /\ wire[k] = CR /\ wire[k + 1] = LF

\* A fragment arrives: `while (data < end)` is entered.
Deliver ==
  /\ ~Busy /\ ~Failed
  /\ end' \in (end + 1)..Len(wire)
  /\ split' = (split \/ SplitsLineEnd(end'))
  /\ outcome' = "reading"
  /\ UNCHANGED <<wire, at, reader, state, message, taken>>

\* OnBufferedData's result ends the call when it is true or the data is used up.
Result(position) ==
  outcome' = CASE streamState' = "FINISHED" -> "done"
               [] streamState' # "FINISHED" /\ position = end -> "more"
               [] OTHER -> "reading"

\* Mode NONE: the whole fragment is passed on and the call returns.
PassThrough ==
  /\ Busy /\ bufferMode = "NONE"
  /\ at' = end /\ taken' = end
  /\ \/ OnBufferedData(Rest, expectedSize) /\ Result(end)
     \/ Fails(expectedSize) /\ UNCHANGED <<state, message, bufferMode, expectedSize>>
  /\ UNCHANGED <<wire, end, buffer, split>>

FirstNewline ==
  CHOOSE k \in 1..Len(Rest) : Rest[k] \in Newlines /\ \A j \in 1..(k - 1) : Rest[j] \notin Newlines
HasNewline == \E k \in 1..Len(Rest) : Rest[k] \in Newlines

\* The length of the line found: a second newline character belongs to it.
\* When the first is the fragment's last byte the code reads the byte behind
\* the fragment, which may hold anything.
LineLengths ==
  IF FirstNewline < Len(Rest)
  THEN {IF Rest[FirstNewline + 1] \in Newlines THEN FirstNewline + 1 ELSE FirstNewline}
  ELSE {FirstNewline, FirstNewline + 1}

\* Mode NEWLINE with a complete line in the fragment.
TakeLine ==
  /\ Busy /\ bufferMode = "NEWLINE" /\ HasNewline
  /\ \E n \in LineLengths :
        LET line == buffer \o SubSeq(Rest, 1, n)
        IN  /\ n <= Len(Rest)
            /\ \/ OnBufferedData(line, Len(line)) /\ Result(at + n)
               \/ Fails(Len(line)) /\ expectedSize' = Len(line)
                                   /\ UNCHANGED <<state, message, bufferMode>>
            /\ at' = IF outcome' = "reading" THEN at + n ELSE end
            /\ taken' = at'
  /\ buffer' = <<>>
  /\ UNCHANGED <<wire, end, split>>

\* Mutant: the rest replaces what the buffer holds.
KeepRest_Mutant ==
  /\ Busy /\ bufferMode = "NEWLINE" /\ ~HasNewline
  /\ buffer' = Rest
  /\ at' = end
  /\ outcome' = "more"
  /\ UNCHANGED <<wire, end, expectedSize, bufferMode, state, message, taken, split>>

\* No line end in reach: the rest waits in the buffer for the next fragment.
\* strpbrk may find a newline behind the fragment; expectedSize is computed
\* again before its next use in this mode.
KeepRest ==
  /\ Busy /\ bufferMode = "NEWLINE"
  /\ \/ ~HasNewline /\ expectedSize' \in {expectedSize, Len(buffer) + Len(Rest) + 1}
     \/ /\ HasNewline
        /\ \E n \in LineLengths : n > Len(Rest) /\ expectedSize' = Len(buffer) + n
  /\ buffer' = buffer \o Rest
  /\ at' = end
  /\ outcome' = "more"
  /\ UNCHANGED <<wire, end, bufferMode, state, message, taken, split>>

\* Everything has been sent, or a failure has ended the process.
Quiet ==
  /\ Failed \/ (~Busy /\ end = Len(wire))
  /\ UNCHANGED vars

Next == Deliver \/ PassThrough \/ TakeLine \/ KeepRest \/ Quiet

Spec == Init /\ [][Next]_vars /\ WF_vars(Next)

----------------------------------------------------------------------------
(* Properties. *)

\* Type correctness of the reader's state.
TypeOK ==
  /\ wire \in Seq(Symbols)
  /\ at \in Nat /\ end \in Nat /\ at <= end /\ end <= Len(wire)
  /\ bufferMode \in {"NEWLINE", "NONE"}
  /\ expectedSize \in Nat \cup {NoSize}
  /\ buffer \in Seq(Symbols)
  /\ streamState \in {"START_LINE", "HEADERS", "BODY", "FINISHED"}
  /\ bodyType \in {"UNKNOWN", "NONE", "KNOWN_SIZE", "CHUNKED"}
  /\ startline \in Seq(Symbols)
  /\ headers \in Seq([name : Symbols, value : Symbols])
  /\ body \in Seq(Symbols)
  /\ outcome \in {"idle", "reading", "more", "done", "unexpected input", "overrun"}
  /\ taken \in Nat /\ split \in BOOLEAN

\* However the wire is cut into fragments, the buffer holds exactly the bytes
\* between the last block passed on and the read position: none is lost, doubled
\* or moved when a line arrives in several calls of OnData.  (A call that reports
\* the end of the message drops the rest of its fragment.)
BufferIsTail ==
  /\ taken <= at
  /\ buffer = SubSeq(wire, taken + 1, at)

\* A body of known size, on any wire and any fragments: what OnData still expects
\* and what the body holds add up to the Content-Length, and the message is
\* finished exactly when nothing is expected any more.  (A message that also
\* names the chunked coding is read in lines, which overwrite expectedSize.)
KnownSizeCount ==
  bodyType = "KNOWN_SIZE" /\ ~IsChunked =>
    /\ expectedSize = IF Len(body) <= ContentLength THEN ContentLength - Len(body) ELSE 0
    /\ streamState = "FINISHED" <=> expectedSize = 0

(* The reference: the message that a whole wire contains, read off the     *)
(* wire at once.                                                           *)
HeadEnd ==
  CHOOSE k \in 4..Len(wire) :
    /\ SubSeq(wire, k - 3, k) = <<CR, LF, CR, LF>>
    /\ \A j \in 4..(k - 1) : SubSeq(wire, j - 3, j) # <<CR, LF, CR, LF>>
SentHeaders == HeadersOf(wire, (HeadEnd - 5) \div 4)
SentBody == SubSeq(wire, HeadEnd + 1, Len(wire))

\* The message read does not depend on how the wire was cut, as long as no cut
\* falls between CR and LF: OnData reports the end of the message with the
\* fragment that holds its last byte, not before and not later, and the headers
\* and the body are those that were sent.
FragmentationInvisible ==
  wire \in Complete /\ ~split /\ ~Busy =>
    /\ ~Failed
    /\ outcome = "done" <=> end = Len(wire)
    /\ outcome = "done" =>
         /\ startline = SubSeq(wire, 1, 3)
         /\ headers = SentHeaders
         /\ body = SentBody

\* "Make sure we can roundtrip out a payload" (include/rikitiki/examples/tests.h):
\* a message that OnData reports as read has the body that was sent.
PayloadRoundtrips == wire \in Complete /\ outcome = "done" => body = SentBody

\* Once the peer has sent a whole message the reader reports its end.
MessageCompletes == wire \in Complete ~> (split \/ outcome = "done")

\* The data of a chunked body, given as <<size, CR, LF, byte, CR, LF>> per chunk
\* of one byte and <<zero, CR, LF, CR, LF>> at the end.
SentChunks == [k \in 1..((Len(SentBody) - 5) \div 6) |-> SentBody[6 * k - 2]]

\* "To read in the next chunk size" (src/http/incoming/Message.cc): the sizes of
\* the chunks are read, not added to the body.
ChunkSizesRead == ~split /\ outcome = "done" => body = SentChunks

============================================================================
