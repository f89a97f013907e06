------------------------ MODULE MessageWriter_proofs ------------------------
(***************************************************************************)
(* Proofs about MessageWriter: type correctness, the order of the lines on *)
(* the wire, and the truth of every Content-Length, for any framings,      *)
(* statuses, headers and payloads and any number of calls.                 *)
(***************************************************************************)
EXTENDS MessageWriter, SequenceTheorems, TLAPS

\* The order of the head and the body on a wire w (HeadPrecedesBody is this
\* statement of the variable wire).
HeadFirst(w) ==
  /\ w # <<>> => w[1].kind = "start"
  /\ \A i \in 2..Len(w) : w[i].kind # "start"
  /\ \A i, j \in 1..Len(w) : i < j /\ IsHead(w[j]) => IsHead(w[i])

OnlyHead(w) == \A i \in 1..Len(w) : IsHead(w[i])
NoLength(w) == \A i \in 1..Len(w) : w[i].kind # "length"

\* A body that is not buffered goes to the wire at once.
Buffering == bodyType = "BUFFERING"

\* The inductive invariant: until Done is called, the head is open exactly in
\* the states START_LINE and HEADERS or while the body is buffered, the buffer
\* holds the whole payload, and no Content-Length has been written.
WriterInv ==
  /\ WriterTypeOK
  /\ HeadFirst(wire)
  /\ ContentLengthIsPayload
  /\ streamState = "START_LINE" <=> wire = <<>>
  /\ ~closed =>
       /\ streamState # "BODY" =>
            bodyType = "UNKNOWN" /\ payload = <<>> /\ buffer = <<>> /\ OnlyHead(wire)
       /\ streamState = "BODY" => bodyType # "UNKNOWN"
       /\ streamState = "BODY" /\ Buffering => OnlyHead(wire) /\ buffer = payload

----------------------------------------------------------------------------
(* Lemmas on appending one token to a wire. *)

\* The tokens of each kind are tokens.
LEMMA TokenTypes ==
  /\ \A s \in Statuses : StartLine(s) \in Token
  /\ \A h \in Headers : HeaderLine(h) \in Token
  /\ \A n \in Nat : ContentLength(n) \in Token
  /\ BlankLine \in Token
  /\ \A b \in Seq(Bytes) : Data(b) \in Token /\ Chunk(b) \in Token
  /\ LastChunk \in Token
BY DEF Token, StartLine, HeaderLine, ContentLength, BlankLine, Data, Chunk, LastChunk

\* A start line opens a wire.
LEMMA OpenWire ==
  ASSUME NEW s \in Statuses
  PROVE  LET w == <<StartLine(s)>>
         IN  w \in Seq(Token) /\ HeadFirst(w) /\ OnlyHead(w) /\ NoLength(w) /\ w # <<>>
BY TokenTypes DEF HeadFirst, OnlyHead, NoLength, IsHead, StartLine

\* A header or a length may follow a wire that holds only a head.
LEMMA AppendHead ==
  ASSUME NEW w \in Seq(Token), HeadFirst(w), OnlyHead(w), w # <<>>,
         NEW t \in Token, t.kind \in {"header", "length"}
  PROVE  LET v == w \o <<t>>
         IN  /\ v \in Seq(Token) /\ HeadFirst(v) /\ OnlyHead(v) /\ v # <<>>
             /\ Len(v) = Len(w) + 1 /\ v[Len(v)] = t
             /\ \A i \in 1..Len(w) : v[i] = w[i]
BY DEF HeadFirst, OnlyHead, IsHead

\* A blank line or a piece of the body may follow any wire that was opened.
LEMMA AppendBody ==
  ASSUME NEW w \in Seq(Token), HeadFirst(w), w # <<>>,
         NEW t \in Token, t.kind \in {"blank", "data", "chunk"}
  PROVE  LET v == w \o <<t>>
         IN  /\ v \in Seq(Token) /\ HeadFirst(v) /\ v # <<>>
             /\ Len(v) = Len(w) + 1 /\ v[Len(v)] = t
             /\ \A i \in 1..Len(w) : v[i] = w[i]
BY DEF HeadFirst, IsHead

\* While the head is open, the start line goes out if it has not yet.
LEMMA OpenedHead ==
  ASSUME WriterInv, ~closed, InHead
  PROVE  LET w == wire \o OpeningLine
         IN  /\ w \in Seq(Token) /\ HeadFirst(w) /\ OnlyHead(w) /\ NoLength(w)
             /\ w # <<>>
<1>1. NoLength(wire) /\ OnlyHead(wire)
  BY DEF WriterInv, WriterTypeOK, ContentLengthIsPayload, NoLength, InHead
<1>2. CASE streamState = "START_LINE"
  <2>1. wire \o OpeningLine = <<StartLine(status)>>
    BY <1>2, TokenTypes DEF WriterInv, WriterTypeOK, OpeningLine
  <2> QED
    BY <2>1, OpenWire DEF WriterInv, WriterTypeOK
<1>3. CASE streamState # "START_LINE"
  <2>1. wire \o OpeningLine = wire
    BY <1>3 DEF WriterInv, WriterTypeOK, OpeningLine
  <2> QED
    BY <1>1, <1>3, <2>1 DEF WriterInv, WriterTypeOK
<1> QED
  BY <1>2, <1>3

\* Concatenations with explicit tuples, one token at a time.
LEMMA OneByOne ==
  ASSUME NEW w \in Seq(Token), NEW t \in Token, NEW u \in Token, NEW v \in Token
  PROVE  /\ w \o <<t, u>> = (w \o <<t>>) \o <<u>>
         /\ w \o <<t, u, v>> = ((w \o <<t>>) \o <<u>>) \o <<v>>
<1>1. <<t>> \in Seq(Token) /\ <<u>> \in Seq(Token) /\ <<v>> \in Seq(Token)
  OBVIOUS
<1>2. <<t, u>> = <<t>> \o <<u>> /\ <<t, u, v>> = (<<t>> \o <<u>>) \o <<v>>
  <2>1. /\ <<t, u>> \in Seq(Token) /\ <<t>> \o <<u>> \in Seq(Token)
        /\ Len(<<t, u>>) = 2 /\ Len(<<t>> \o <<u>>) = 2
        /\ \A k \in 1..2 : <<t, u>>[k] = (<<t>> \o <<u>>)[k]
    OBVIOUS
  <2>2. <<t, u>> = <<t>> \o <<u>>
    BY <2>1, SeqEqual
  <2>3. /\ <<t, u, v>> \in Seq(Token) /\ <<t, u>> \o <<v>> \in Seq(Token)
        /\ Len(<<t, u, v>>) = 3 /\ Len(<<t, u>> \o <<v>>) = 3
        /\ \A k \in 1..3 : <<t, u, v>>[k] = (<<t, u>> \o <<v>>)[k]
    OBVIOUS
  <2>4. <<t, u, v>> = <<t, u>> \o <<v>>
    BY <2>3, SeqEqual
  <2> QED
    BY <2>2, <2>4
<1>3. <<t>> \o <<u>> \in Seq(Token) /\ w \o <<t>> \in Seq(Token)
  BY <1>1
<1>4. w \o (<<t>> \o <<u>>) = (w \o <<t>>) \o <<u>>
  BY <1>1, ConcatAssociative
<1>5. w \o ((<<t>> \o <<u>>) \o <<v>>) = (w \o (<<t>> \o <<u>>)) \o <<v>>
  BY <1>1, <1>3, ConcatAssociative
<1> QED
  BY <1>2, <1>4, <1>5

----------------------------------------------------------------------------
(* The invariant is inductive. *)

\* A fresh writer satisfies the invariant.
LEMMA InitInv == WriterInit => WriterInv
<1> SUFFICES ASSUME WriterInit PROVE WriterInv
  OBVIOUS
<1>1. contentSize \in Nat \cup {NoSize} /\ encoding \in {"UNKNOWN", "chunked"}
  <2> PICK f \in Framings : contentSize = f.contentSize /\ encoding = f.encoding
    BY DEF WriterInit
  <2> QED
    BY WriterAssumption
<1>2. WriterTypeOK
  <2>1. <<>> \in Seq(Bytes) /\ <<>> \in Seq(Token) /\ <<>> \in Seq(Headers)
    BY EmptySeq
  <2> QED
    BY <1>1, <2>1, WriterAssumption DEF WriterInit, WriterTypeOK
<1> QED
  BY <1>2 DEF WriterInit, WriterInv, HeadFirst, ContentLengthIsPayload, OnlyHead

\* Setting the status writes nothing.
LEMMA SetStatusInv ==
  ASSUME WriterInv, ClientSetStatus PROVE WriterInv'
BY WriterAssumption DEF WriterInv, WriterTypeOK, ClientSetStatus, SetStatus, Call, Returns, Raise,
       HeadFirst, ContentLengthIsPayload, OnlyHead, Buffering, framing, history

\* A header only lengthens a wire that is still all head, or is refused.
LEMMA WriteHeaderInv ==
  ASSUME WriterInv, ClientWriteHeader PROVE WriterInv'
<1> PICK h \in Headers : WriteHeader(h)
  BY DEF ClientWriteHeader
<1> USE DEF ClientWriteHeader, Call
<1>1. CASE InHead
  <2> DEFINE w == wire \o OpeningLine
  <2>1. w \in Seq(Token) /\ HeadFirst(w) /\ OnlyHead(w) /\ NoLength(w) /\ w # <<>>
    BY <1>1, OpenedHead
  <2>2. /\ streamState' = "HEADERS" /\ wire' = w \o <<HeaderLine(h)>>
        /\ headers' = Append(headers, h) /\ raised' = "none"
        /\ UNCHANGED <<contentSize, encoding, bodyType, buffer, status, payload>>
    BY <1>1 DEF WriteHeader, Returns, Raise, framing
  <2>3. HeaderLine(h) \in Token /\ HeaderLine(h).kind = "header"
    BY TokenTypes DEF HeaderLine
  <2> HIDE DEF w
  <2>4. /\ wire' \in Seq(Token) /\ HeadFirst(wire') /\ OnlyHead(wire') /\ wire' # <<>>
        /\ Len(wire') = Len(w) + 1 /\ wire'[Len(wire')] = HeaderLine(h)
        /\ \A i \in 1..Len(w) : wire'[i] = w[i]
    BY <2>1, <2>2, <2>3, AppendHead
  <2>5. NoLength(wire')
    BY <2>1, <2>3, <2>4 DEF NoLength
  <2>6. WriterTypeOK'
    BY <2>2, <2>4 DEF WriterInv, WriterTypeOK
  <2> QED
    BY <1>1, <2>2, <2>4, <2>5, <2>6
    DEF WriterInv, ContentLengthIsPayload, NoLength, InHead, Buffering
<1>2. CASE ~InHead
  BY <1>2 DEF WriterInv, WriterTypeOK, WriteHeader, Raise, HeadFirst,
              ContentLengthIsPayload, OnlyHead, Buffering, framing, history
<1> QED
  BY <1>1, <1>2

\* The body type of a message on its first payload.
LEMMA OutgoingBodyTypes ==
  /\ OutgoingBodyType \in {"BUFFERING", "CHUNKED", "KNOWN_SIZE"}
BY DEF OutgoingBodyType, BodyTypeFrom

\* The first payload block ends the head unless the body is buffered; the buffer
\* is the payload while it is.
LEMMA WritePayloadInv ==
  ASSUME WriterInv, ClientWritePayload PROVE WriterInv'
<1> PICK p \in Payloads : WritePayloadData(p)
  BY DEF ClientWritePayload
<1> DEFINE type == IF InHead THEN OutgoingBodyType ELSE bodyType
           w == wire \o OpeningLine
<1>0. /\ ~closed /\ closed' = closed /\ calls' \in Nat
      /\ p \in Seq(Bytes) /\ Chunk(p) \in Token /\ Data(p) \in Token /\ BlankLine \in Token
      /\ Chunk(p).kind = "chunk" /\ Data(p).kind = "data" /\ BlankLine.kind = "blank"
  BY WriterAssumption, TokenTypes
  DEF ClientWritePayload, Call, Chunk, Data, BlankLine, WriterInv, WriterTypeOK
<1>1. type \in {"BUFFERING", "CHUNKED", "KNOWN_SIZE"}
  BY <1>0, OutgoingBodyTypes DEF WriterInv, WriterTypeOK, InHead
<1>2. /\ streamState' = "BODY" /\ bodyType' = type
      /\ buffer' = IF type = "BUFFERING" THEN buffer \o p ELSE buffer
      /\ payload' = payload \o p /\ raised' = "none"
      /\ UNCHANGED <<contentSize, encoding, status, headers>>
  BY DEF WritePayloadData, Returns, Raise, framing
<1>3. wire \in Seq(Token) /\ w \in Seq(Token) /\ HeadFirst(w) /\ w # <<>> /\ NoLength(w)
      /\ (InHead => OnlyHead(w)) /\ (~InHead => w = wire)
  <2>1. CASE InHead
    BY <1>0, <2>1, OpenedHead DEF WriterInv, WriterTypeOK
  <2>2. CASE ~InHead
    <3>1. w = wire
      BY <2>2 DEF WriterInv, WriterTypeOK, OpeningLine, InHead
    <3> QED
      BY <1>0, <2>2, <3>1 DEF WriterInv, WriterTypeOK, InHead, ContentLengthIsPayload, NoLength
  <2> QED
    BY <2>1, <2>2
<1>4. wire' = (w \o (IF InHead /\ type # "BUFFERING" THEN <<BlankLine>> ELSE <<>>))
              \o (IF type = "BUFFERING" THEN <<>>
                  ELSE IF type = "CHUNKED" THEN <<Chunk(p)>> ELSE <<Data(p)>>)
  BY <1>1 DEF WritePayloadData
<1> HIDE DEF w, type
<1>5. /\ wire' \in Seq(Token) /\ HeadFirst(wire') /\ wire' # <<>> /\ NoLength(wire')
      /\ type = "BUFFERING" => wire' = w
  <2>1. CASE type = "BUFFERING"
    <3>1. wire' = w
      BY <1>3, <1>4, <2>1
    <3> QED
      BY <1>3, <3>1
  <2>2. CASE type # "BUFFERING"
    <3> DEFINE v == IF InHead THEN w \o <<BlankLine>> ELSE w
               t == IF type = "CHUNKED" THEN Chunk(p) ELSE Data(p)
    <3>1. v \in Seq(Token) /\ HeadFirst(v) /\ v # <<>> /\ NoLength(v)
      BY <1>0, <1>3, AppendBody DEF NoLength
    <3>2. t \in Token /\ t.kind \in {"chunk", "data"}
      BY <1>0
    <3>3. wire' = v \o <<t>>
      BY <1>1, <1>3, <1>4, <2>2
    <3> HIDE DEF v, t
    <3>4. wire' \in Seq(Token) /\ HeadFirst(wire') /\ wire' # <<>> /\ NoLength(wire')
      BY <3>1, <3>2, <3>3, AppendBody DEF NoLength
    <3> QED
      BY <2>2, <3>4
  <2> QED
    BY <2>1, <2>2
<1>6. WriterTypeOK'
  BY <1>0, <1>1, <1>2, <1>5 DEF WriterInv, WriterTypeOK
<1>7. type = "BUFFERING" => OnlyHead(wire') /\ buffer' = payload'
  BY <1>0, <1>2, <1>3, <1>5 DEF WriterInv, WriterTypeOK, InHead, type, Buffering
<1> QED
  BY <1>0, <1>1, <1>2, <1>5, <1>6, <1>7
  DEF WriterInv, ContentLengthIsPayload, NoLength, Buffering

\* What Done leaves to show once the new wire is known.
LEMMA ClosedInv ==
  ASSUME WriterInv, ClientClose,
         wire' \in Seq(Token), HeadFirst(wire'), wire' # <<>>,
         streamState' \in {"HEADERS", "BODY"},
         raised' \in {"none", "InvalidState", "Abandoned"},
         \A k \in 1..Len(wire') :
            wire'[k].kind = "length" => wire'[k].value = Len(payload)
  PROVE  WriterInv'
<1>1. closed' = TRUE /\ UNCHANGED <<calls, contentSize, encoding, bodyType, buffer,
                                   status, headers, payload>>
  BY DEF ClientClose, Close, Done, framing, history
<1>2. WriterTypeOK'
  BY <1>1 DEF WriterInv, WriterTypeOK
<1> QED
  BY <1>1, <1>2 DEF WriterInv, ContentLengthIsPayload

\* Every branch of Done keeps the wire in order and announces the true length.
LEMMA CloseInv ==
  ASSUME WriterInv, ClientClose PROVE WriterInv'
<1> DEFINE w == wire \o OpeningLine
<1>0. /\ ~closed /\ wire \in Seq(Token) /\ HeadFirst(wire) /\ NoLength(wire)
      /\ BlankLine \in Token /\ LastChunk \in Token
      /\ BlankLine.kind = "blank" /\ LastChunk.kind = "chunk"
  BY TokenTypes DEF ClientClose, BlankLine, LastChunk, Chunk, WriterInv, WriterTypeOK,
                    ContentLengthIsPayload, NoLength
<1>1. InHead => w \in Seq(Token) /\ HeadFirst(w) /\ OnlyHead(w) /\ NoLength(w) /\ w # <<>>
  BY <1>0, OpenedHead
<1>2. streamState = "BODY" => wire # <<>>
  BY DEF WriterInv
<1>3. CASE DoneEmpty
  <2>0. w \in Seq(Token) /\ HeadFirst(w) /\ OnlyHead(w) /\ NoLength(w) /\ w # <<>>
    BY <1>1, <1>3 DEF DoneEmpty
  <2> DEFINE t == ContentLength(0)
             v == w \o <<t>>
  <2>1. t \in Token /\ t.kind = "length" /\ t.value = 0
    BY TokenTypes DEF ContentLength
  <2>2. Len(payload) = 0
    BY <1>0, <1>3 DEF DoneEmpty, InHead, WriterInv
  <2>3. wire' = v \o <<BlankLine>> /\ streamState' = "HEADERS" /\ raised' = "none"
    BY <1>0, <1>3, <2>0, <2>1, OneByOne DEF DoneEmpty, Returns, Raise
  <2> HIDE DEF t, w
  <2>4. /\ v \in Seq(Token) /\ HeadFirst(v) /\ v # <<>>
        /\ \A k \in 1..Len(v) : v[k].kind = "length" => v[k].value = 0
    BY <2>0, <2>1, AppendHead DEF NoLength
  <2> HIDE DEF v
  <2>5. /\ wire' \in Seq(Token) /\ HeadFirst(wire') /\ wire' # <<>>
        /\ \A k \in 1..Len(wire') : wire'[k].kind = "length" => wire'[k].value = 0
    BY <1>0, <2>3, <2>4, AppendBody
  <2> QED
    BY <2>2, <2>3, <2>5, ClosedInv
<1>4. CASE DoneEmptyChunked
  <2>0. w \in Seq(Token) /\ HeadFirst(w) /\ OnlyHead(w) /\ NoLength(w) /\ w # <<>>
    BY <1>1, <1>4 DEF DoneEmptyChunked
  <2> DEFINE v == w \o <<BlankLine>>
  <2>1. wire' = v \o <<LastChunk>> /\ streamState' = "HEADERS" /\ raised' = "none"
    BY <1>0, <1>4, <2>0, OneByOne DEF DoneEmptyChunked, Returns, Raise
  <2> HIDE DEF w
  <2>2. v \in Seq(Token) /\ HeadFirst(v) /\ v # <<>> /\ NoLength(v)
    BY <1>0, <2>0, AppendBody DEF NoLength
  <2> HIDE DEF v
  <2>3. wire' \in Seq(Token) /\ HeadFirst(wire') /\ wire' # <<>> /\ NoLength(wire')
    BY <1>0, <2>1, <2>2, AppendBody DEF NoLength
  <2> QED
    BY <2>1, <2>3, ClosedInv DEF NoLength
<1>5. CASE DoneAbandoned
  <2>0. w \in Seq(Token) /\ HeadFirst(w) /\ OnlyHead(w) /\ NoLength(w) /\ w # <<>>
    BY <1>1, <1>5 DEF DoneAbandoned
  <2>1. /\ wire' = w \o <<BlankLine>> /\ streamState' = "HEADERS"
        /\ raised' \in {"none", "InvalidState", "Abandoned"}
    BY <1>5 DEF DoneAbandoned, Raise
  <2> HIDE DEF w
  <2>2. wire' \in Seq(Token) /\ HeadFirst(wire') /\ wire' # <<>> /\ NoLength(wire')
    BY <1>0, <2>0, <2>1, AppendBody DEF NoLength
  <2> QED
    BY <2>1, <2>2, ClosedInv DEF NoLength
<1>6. CASE DoneChunked
  <2>1. wire' = wire \o <<LastChunk>> /\ streamState' = "BODY" /\ raised' = "none"
    BY <1>0, <1>6, AppendIsConcat DEF DoneChunked, Returns, Raise
  <2>2. wire' \in Seq(Token) /\ HeadFirst(wire') /\ wire' # <<>> /\ NoLength(wire')
    BY <1>0, <1>2, <1>6, <2>1, AppendBody DEF DoneChunked, NoLength
  <2> QED
    BY <2>1, <2>2, ClosedInv DEF NoLength
<1>7. CASE DoneBuffered
  <2> DEFINE n == Len(buffer)
             t == ContentLength(n)
             u == wire \o <<t>>
             v == u \o <<BlankLine>>
             d == Data(buffer)
  <2>1. /\ t \in Token /\ t.kind = "length" /\ t.value = n
        /\ d \in Token /\ d.kind = "data"
        /\ n = Len(payload) /\ OnlyHead(wire)
    BY <1>0, <1>7, TokenTypes
    DEF ContentLength, Data, DoneBuffered, WriterInv, WriterTypeOK, Buffering
  <2>8. /\ wire' = wire \o <<t, BlankLine, d>>
        /\ streamState' = "HEADERS" /\ raised' = "none"
    BY <1>7 DEF DoneBuffered, Returns, Raise
  <2> HIDE DEF t, n, d
  <2>2. wire' = v \o <<d>> /\ streamState' = "HEADERS" /\ raised' = "none"
    <3>1. wire \in Seq(Token) /\ t \in Token /\ BlankLine \in Token /\ d \in Token
      BY <1>0, <2>1
    <3>2. wire \o <<t, BlankLine, d>> = ((wire \o <<t>>) \o <<BlankLine>>) \o <<d>>
      BY <3>1, OneByOne, Zenon
    <3> QED
      BY <2>8, <3>2
  <2>3. /\ u \in Seq(Token) /\ HeadFirst(u) /\ u # <<>>
        /\ \A k \in 1..Len(u) : u[k].kind = "length" => u[k].value = n
    BY <1>0, <1>2, <1>7, <2>1, AppendHead DEF DoneBuffered, NoLength
  <2> HIDE DEF u
  <2>4. /\ v \in Seq(Token) /\ HeadFirst(v) /\ v # <<>>
        /\ \A k \in 1..Len(v) : v[k].kind = "length" => v[k].value = n
    BY <1>0, <2>3, AppendBody
  <2> HIDE DEF v
  <2>5. /\ wire' \in Seq(Token) /\ HeadFirst(wire') /\ wire' # <<>>
        /\ \A k \in 1..Len(wire') : wire'[k].kind = "length" => wire'[k].value = n
    BY <2>1, <2>2, <2>4, AppendBody
  <2> QED
    BY <2>1, <2>2, <2>5, ClosedInv
<1>8. CASE DoneKnownSize
  BY <1>0, <1>2, <1>8, ClosedInv DEF DoneKnownSize, Raise, NoLength
<1> QED
  BY <1>3, <1>4, <1>5, <1>6, <1>7, <1>8 DEF ClientClose, Close, Done

\* A step that leaves the writer alone keeps the invariant.
LEMMA StutterInv ==
  ASSUME WriterInv, UNCHANGED writerVars PROVE WriterInv'
BY DEF WriterInv, WriterTypeOK, writerVars, HeadFirst, ContentLengthIsPayload, OnlyHead,
       Buffering

----------------------------------------------------------------------------
(* Theorems. *)

\* The inductive invariant holds throughout.
THEOREM WriterInvariance == WriterSpec => []WriterInv
<1>1. WriterInv /\ [WriterNext]_writerVars => WriterInv'
  BY SetStatusInv, WriteHeaderInv, WritePayloadInv, CloseInv, StutterInv DEF WriterNext
<1> QED
  BY InitInv, <1>1, PTL DEF WriterSpec

\* Type correctness of the writer (OMessage and OMessageWriter).
THEOREM WriterTypeCorrect == WriterSpec => []WriterTypeOK
<1>1. WriterInv => WriterTypeOK
  BY DEF WriterInv
<1> QED
  BY WriterInvariance, <1>1, PTL

\* On every wire OMessageWriter produces, one start line comes first and no line
\* of the head follows the blank line, for any calls in any order and any framing.
THEOREM WriterHeadPrecedesBody == WriterSpec => []HeadPrecedesBody
<1>1. WriterInv => HeadPrecedesBody
  BY DEF WriterInv, HeadFirst, HeadPrecedesBody
<1> QED
  BY WriterInvariance, <1>1, PTL

\* Every Content-Length OMessageWriter::Done writes is the length of the payload.
THEOREM WriterContentLength == WriterSpec => []ContentLengthIsPayload
<1>1. WriterInv => ContentLengthIsPayload
  BY DEF WriterInv
<1> QED
  BY WriterInvariance, <1>1, PTL

=============================================================================
