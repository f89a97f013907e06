-------------------------- MODULE MessageRecipient --------------------------
(***************************************************************************)
(* What an HTTP recipient reads from a wire written by MessageWriter: the  *)
(* reference the writer is checked against.  It knows nothing of the       *)
(* writer's state; it splits the wire at the first blank line, takes the   *)
(* framing from the lines of the head, and collects the body.              *)
(*                                                                         *)
(* The writer puts a Content-Length into the head but never a              *)
(* Transfer-Encoding: a client that wants chunks must write that header    *)
(* itself, beside setting `encoding`.  CodingHeaders are the headers that  *)
(* say so; the other headers do not touch the framing.                     *)
(***************************************************************************)
EXTENDS MessageWriter, SequencesExt, FiniteSetsExt

CONSTANT CodingHeaders   \* the headers "Transfer-Encoding: chunked"

ASSUME RecipientAssumption == CodingHeaders \subseteq Headers

Blanks(w) == {i \in 1..Len(w) : w[i] = BlankLine}
HeadOf(w) == SubSeq(w, 1, Min(Blanks(w)) - 1)
BodyOf(w) == SubSeq(w, Min(Blanks(w)) + 1, Len(w))

BytesOf(tokens) == FlattenSeq([i \in 1..Len(tokens) |-> tokens[i].bytes])

\* The framing, from the head alone: a coding wins over a length, and a message
\* with neither ends where the connection does.
SaysChunked(head) ==
  \E i \in 1..Len(head) : head[i].kind = "header" /\ head[i].header \in CodingHeaders
SaysLength(head) == \E i \in 1..Len(head) : head[i].kind = "length"

FramingOf(w) ==
  IF SaysChunked(HeadOf(w)) THEN "chunked"
  ELSE IF SaysLength(HeadOf(w)) THEN "length"
  ELSE "close"

AllOf(tokens, kind) == \A i \in 1..Len(tokens) : tokens[i].kind = kind

PlainRead(w, bytes) == AllOf(BodyOf(w), "data") /\ BytesOf(BodyOf(w)) = bytes

\* Chunks, the last one empty.  The recipient stops at the first empty one, so
\* that it misses what the client wrote after an empty block, and only that.
ChunksRead(w, bytes) ==
  LET body == BodyOf(w)
      ends == {i \in 1..Len(body) : body[i] = LastChunk}
      read == BytesOf(SubSeq(body, 1, Min(ends)))
  IN  /\ AllOf(body, "chunk")
      /\ Len(body) \in ends
      /\ BytesOf(body) = bytes
      /\ IF ends = {Len(body)} THEN read = bytes ELSE IsPrefix(read, bytes)

BodyRead(w, bytes) ==
  IF FramingOf(w) = "chunked" THEN ChunksRead(w, bytes) ELSE PlainRead(w, bytes)

\* The head of a message: the start line, the headers, and at most a length.
HeadLines(s, hs, length) ==
  <<StartLine(s)>> \o [i \in 1..Len(hs) |-> HeaderLine(hs[i])] \o length

\* The recipient finds the headers, and a length, if there is one, that counts
\* the bytes: none is left over for the next message, and none is missing.
HeadRead(w, hs, bytes) ==
  \E s \in Statuses, length \in {<<>>, <<ContentLength(Len(bytes))>>} :
     HeadOf(w) = HeadLines(s, hs, length)

\* The client's part: the coding it announces is the one it has set, and it sets
\* no size beside it (Done looks at the coding first, BodyType::From at the size).
AnnouncedAsSet ==
  /\ encoding = "chunked" => contentSize = NoSize
  /\ encoding = "chunked" <=> \E i \in 1..Len(headers) : headers[i] \in CodingHeaders

\* Of a message whose coding is announced as it was set, the recipient reads what
\* was written, whatever the framing and however Done ended: one blank line, in
\* front of it the headers in the order they were written, behind it exactly the
\* payload bytes, split over however many calls (in chunks, those up to the first
\* empty block).  Unless Done raised an exception, the wire itself says where the
\* message ends, so that the connection need not be closed.
RecipientReadsPayload ==
  closed /\ AnnouncedAsSet =>
    /\ \E k \in 1..Len(wire) : Blanks(wire) = {k}
    /\ HeadRead(wire, headers, payload)
    /\ BodyRead(wire, payload)
    /\ raised = "none" => FramingOf(wire) # "close"

=============================================================================
