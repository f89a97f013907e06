------------------------ MODULE MessageReader_proofs ------------------------
(***************************************************************************)
(* Proofs about MessageReader: its state keeps its types, the buffer holds *)
(* what has not been passed on, and a body of known size is counted right, *)
(* for any wires and any way to cut them into fragments; and a whole       *)
(* message is read as it was sent, unless a cut falls between CR and LF.   *)
(***************************************************************************)
EXTENDS MessageReader, SequenceTheorems, SetInduction

\* How the parser's state and the buffer mode go together: lines are read up to
\* the blank line and in a chunked body, and the buffer is used for lines only.
ModeInv ==
  /\ streamState \in {"START_LINE", "HEADERS"} =>
       bufferMode = "NEWLINE" /\ bodyType = "UNKNOWN" /\ body = <<>>
  /\ streamState \in {"BODY", "FINISHED"} => bodyType # "UNKNOWN"
  /\ bodyType = "CHUNKED" => bufferMode = "NEWLINE"
  /\ bodyType = "KNOWN_SIZE" =>
       /\ ContentLength # NoSize /\ expectedSize # NoSize
       /\ ~IsChunked => bufferMode = "NONE"
  /\ bufferMode = "NONE" => buffer = <<>>

ReaderInv == TypeOK /\ BufferIsTail /\ ModeInv /\ KnownSizeCount

----------------------------------------------------------------------------
(* Lemmas on the operators. *)

\* The part of a sequence behind position a, up to b.
LEMMA PartIs ==
  ASSUME NEW S, NEW w \in Seq(S), NEW a \in Nat, NEW b \in Nat, a <= b, b <= Len(w)
  PROVE  /\ SubSeq(w, a + 1, b) \in Seq(S) /\ Len(SubSeq(w, a + 1, b)) = b - a
         /\ \A k \in 1..(b - a) : SubSeq(w, a + 1, b)[k] = w[a + k]
<1>1. \A k \in (a + 1)..b : w[k] \in S
  OBVIOUS
<1>2. a + 1 \in Int /\ b \in Int
  OBVIOUS
<1>3. /\ SubSeq(w, a + 1, b) \in Seq(S)
      /\ Len(SubSeq(w, a + 1, b)) = IF a + 1 <= b THEN b - (a + 1) + 1 ELSE 0
      /\ \A k \in 1..(b - (a + 1) + 1) : SubSeq(w, a + 1, b)[k] = w[(a + 1) + k - 1]
  BY <1>1, <1>2, SubSeqProperties
<1> QED
  BY <1>3

\* Two such parts that adjoin make one.
LEMMA PartsJoin ==
  ASSUME NEW S, NEW w \in Seq(S), NEW a \in Nat, NEW b \in Nat, NEW c \in Nat,
         a <= b, b <= c, c <= Len(w)
  PROVE  SubSeq(w, a + 1, b) \o SubSeq(w, b + 1, c) = SubSeq(w, a + 1, c)
<1>1. a + 1 \in 1..(Len(w) + 1) /\ b \in (a + 1 - 1)..Len(w) /\ c \in b..Len(w)
  OBVIOUS
<1> QED
  BY <1>1, ConcatAdjacentSubSeq

\* And a part of a part is one.
LEMMA PartOfPart ==
  ASSUME NEW S, NEW w \in Seq(S), NEW a \in Nat, NEW b \in Nat, NEW n \in Nat,
         a <= b, b <= Len(w), n <= b - a
  PROVE  SubSeq(SubSeq(w, a + 1, b), 1, n) = SubSeq(w, a + 1, a + n)
<1> DEFINE whole == SubSeq(w, a + 1, b)
           left == SubSeq(whole, 1, n)
           right == SubSeq(w, a + 1, a + n)
<1>1. /\ whole \in Seq(S) /\ Len(whole) = b - a
      /\ \A k \in 1..(b - a) : whole[k] = w[a + k]
  BY PartIs
<1>2. right \in Seq(S) /\ Len(right) = n /\ \A k \in 1..n : right[k] = w[a + k]
  <2>1. a + n \in Nat /\ a <= a + n /\ a + n <= Len(w) /\ a + n - a = n
    OBVIOUS
  <2> QED
    BY <2>1, PartIs
<1>3. left \in Seq(S) /\ Len(left) = n /\ \A k \in 1..n : left[k] = whole[k]
  <2> HIDE DEF whole
  <2>1. n <= Len(whole) /\ n - 0 = n /\ 0 + 1 = 1 /\ 0 <= n /\ \A k \in 1..n : 0 + k = k
    BY <1>1
  <2>2. /\ SubSeq(whole, 0 + 1, n) \in Seq(S) /\ Len(SubSeq(whole, 0 + 1, n)) = n - 0
        /\ \A k \in 1..(n - 0) : SubSeq(whole, 0 + 1, n)[k] = whole[0 + k]
    BY <1>1, <2>1, PartIs
  <2> QED
    BY <2>1, <2>2
<1>4. ASSUME NEW k \in 1..n PROVE left[k] = right[k]
  <2> HIDE DEF whole, left, right
  <2>1. k \in 1..(b - a)
    OBVIOUS
  <2> QED
    BY <1>1, <1>2, <1>3, <2>1, Zenon
<1> HIDE DEF left, right
<1>5. left = right
  BY <1>2, <1>3, <1>4, SeqEqual
<1> QED
  BY <1>5 DEF left, right

\* The part of the type invariant that says where the data of a call lies.
PositionsOK ==
  wire \in Seq(Symbols) /\ at \in Nat /\ end \in Nat /\ at <= end /\ end <= Len(wire)

\* The bytes of the fragment that have not been looked at.
LEMMA RestIs ==
  ASSUME PositionsOK
  PROVE  /\ Rest \in Seq(Symbols) /\ Len(Rest) = end - at
         /\ \A k \in 1..(end - at) : Rest[k] = wire[at + k]
BY PartIs DEF Rest, PositionsOK

\* strpbrk finds the first newline there is.
LEMMA FirstNewlineIs ==
  ASSUME PositionsOK, HasNewline
  PROVE  /\ FirstNewline \in 1..Len(Rest) /\ Rest[FirstNewline] \in Newlines
         /\ \A j \in 1..(FirstNewline - 1) : Rest[j] \notin Newlines
<1> DEFINE T == {k \in 1..Len(Rest) : Rest[k] \in Newlines}
<1>1. T \subseteq Nat /\ T # {} /\ Len(Rest) \in Nat
  BY RestIs DEF HasNewline, PositionsOK
<1>2. PICK m \in T : \A k \in T : m <= k
  BY <1>1, LeastElement
<1>3. \A j \in 1..(m - 1) : Rest[j] \notin Newlines
  BY <1>1, <1>2
<1> QED
  BY <1>2, <1>3 DEF FirstNewline

\* The first header of a name that has a value.
LEMMA FirstIs ==
  ASSUME NEW hs \in Seq([name : Symbols, value : Symbols]), NEW n, HasHeader(hs, n)
  PROVE  First(hs, n) \in 1..Len(hs) /\ hs[First(hs, n)].value \in Symbols
<1> DEFINE T == {k \in 1..Len(hs) : hs[k].name = n /\ hs[k].value \notin Newlines}
<1>1. T \subseteq Nat /\ T # {} /\ Len(hs) \in Nat
  BY DEF HasHeader
<1>2. PICK m \in T : \A k \in T : m <= k
  BY <1>1, LeastElement
<1>3. \A j \in 1..(m - 1) : hs[j].name = n => hs[j].value \in Newlines
  BY <1>1, <1>2
<1>4. First(hs, n) \in 1..Len(hs)
  BY <1>2, <1>3 DEF First
<1>5. hs[First(hs, n)] \in [name : Symbols, value : Symbols]
  BY <1>4, ElementOfSeq
<1> QED
  BY <1>4, <1>5

\* A Content-Length is a natural number, or there is none.
LEMMA ContentLengthType ==
  ASSUME headers \in Seq([name : Symbols, value : Symbols])
  PROVE  ContentLength \in Nat \cup {NoSize}
<1>1. CASE HasHeader(headers, LengthName)
  <2>1. headers[First(headers, LengthName)].value \in Symbols
    BY <1>1, FirstIs
  <2> QED
    BY <1>1, <2>1, ReaderAssumption DEF ContentLength, LengthIn
<1>2. CASE ~HasHeader(headers, LengthName)
  BY <1>2 DEF ContentLength, LengthIn
<1> QED
  BY <1>1, <1>2

\* Length and coding are read off the headers.
LEMMA HeadersSame ==
  ASSUME headers' = headers
  PROVE  ContentLength' = ContentLength /\ (IsChunked' <=> IsChunked)
BY DEF ContentLength, IsChunked

\* BodyType::From.
LEMMA BodyTypes ==
  ASSUME NEW size \in Nat \cup {NoSize}, NEW chunked \in BOOLEAN
  PROVE  LET t == BodyTypeFrom(size, chunked)
         IN  /\ t \in {"NONE", "KNOWN_SIZE", "CHUNKED"}
             /\ t = "KNOWN_SIZE" <=> size # NoSize
             /\ t = "CHUNKED" => chunked
BY DEF BodyTypeFrom

----------------------------------------------------------------------------
(* One call of OnBufferedData. *)

\* The part of the type invariant about the message and how it is read.
ParserOK ==
  /\ bufferMode \in {"NEWLINE", "NONE"}
  /\ expectedSize \in Nat \cup {NoSize}
  /\ streamState \in {"START_LINE", "HEADERS", "BODY", "FINISHED"}
  /\ bodyType \in {"UNKNOWN", "NONE", "KNOWN_SIZE", "CHUNKED"}
  /\ startline \in Seq(Symbols)
  /\ headers \in Seq([name : Symbols, value : Symbols])
  /\ body \in Seq(Symbols)

\* What the loop of OnData passes on: a line with its length, which empties the
\* buffer, or a fragment with the size still expected, past the buffer.  A line
\* that does not begin with a newline has text before the one it ends with.
BlockGiven(block, size) ==
  /\ block \in Seq(Symbols) /\ size \in Nat \cup {NoSize}
  /\ bufferMode = "NEWLINE" => size = Len(block) /\ buffer' = <<>>
  /\ bufferMode = "NONE" => size = expectedSize /\ buffer' = buffer
  /\ bufferMode = "NEWLINE" /\ block[1] \notin Newlines => Len(block) >= 2

\* Every case of OnBufferedData keeps the types, the modes and the count.
LEMMA BlockStep ==
  ASSUME NEW block, NEW size,
         ParserOK, ModeInv, KnownSizeCount,
         BlockGiven(block, size), OnBufferedData(block, size)
  PROVE  ParserOK' /\ ModeInv' /\ KnownSizeCount'
<1>1. CASE OnStartLine(block, size)
  BY <1>1 DEF OnStartLine, BlockGiven, ParserOK, ModeInv, KnownSizeCount
<1>2. CASE OnHeader(block, size)
  <2>1. bufferMode = "NEWLINE" /\ bodyType = "UNKNOWN" /\ body = <<>>
    BY <1>2 DEF OnHeader, ModeInv
  <2>2. HeaderOf(block) \in [name : Symbols, value : Symbols]
    <3>1. 1 \in 1..Len(block) /\ 2 \in 1..Len(block)
      BY <1>2, <2>1 DEF OnHeader, BlockGiven
    <3>2. block[1] \in Symbols /\ block[2] \in Symbols
      BY <3>1, ElementOfSeq DEF BlockGiven
    <3> QED
      BY <3>2 DEF HeaderOf
  <2>3. headers' \in Seq([name : Symbols, value : Symbols])
    BY <1>2, <2>2, AppendProperties DEF OnHeader, ParserOK
  <2> QED
    BY <1>2, <2>1, <2>3
    DEF OnHeader, BlockGiven, ParserOK, ModeInv, KnownSizeCount, state
<1>3. CASE OnHeadersEnd(block)
  <2>1. bufferMode = "NEWLINE" /\ bodyType = "UNKNOWN" /\ body = <<>> /\ buffer' = <<>>
    BY <1>3 DEF OnHeadersEnd, ModeInv, BlockGiven
  <2>2. ContentLength \in Nat \cup {NoSize} /\ IsChunked \in BOOLEAN
    BY ContentLengthType DEF ParserOK, IsChunked, ChunkedIn
  <2>3. /\ bodyType' \in {"NONE", "KNOWN_SIZE", "CHUNKED"}
        /\ bodyType' = "KNOWN_SIZE" <=> ContentLength # NoSize
        /\ bodyType' = "CHUNKED" => IsChunked
    BY <1>3, <2>2, BodyTypes DEF OnHeadersEnd
  <2>4. startline' = startline /\ headers' = headers /\ body' = <<>>
    BY <1>3, <2>1 DEF OnHeadersEnd, message
  <2>5. ContentLength' = ContentLength /\ (IsChunked' <=> IsChunked)
    BY <2>4, HeadersSame
  <2>6. ParserOK'
    BY <1>3, <2>2, <2>3, <2>4 DEF OnHeadersEnd, ParserOK
  <2>7. ModeInv'
    BY <1>3, <2>1, <2>2, <2>3, <2>4, <2>5 DEF OnHeadersEnd, ModeInv
  <2>8. KnownSizeCount'
    BY <1>3, <2>2, <2>3, <2>4, <2>5 DEF OnHeadersEnd, KnownSizeCount, NoSize
  <2> QED
    BY <2>6, <2>7, <2>8
<1>4. CASE OnKnownSize(block, size)
  <2>1. ContentLength' = ContentLength /\ (IsChunked' <=> IsChunked)
    BY <1>4, HeadersSame DEF OnKnownSize
  <2>2. ContentLength \in Nat /\ size \in Nat
    BY <1>4, ContentLengthType DEF OnKnownSize, ParserOK, ModeInv, BlockGiven
  <2>3. body' \in Seq(Symbols) /\ Len(body') = Len(body) + Len(block)
    BY <1>4, ConcatProperties DEF OnKnownSize, ParserOK, BlockGiven
  <2>4. Len(body) \in Nat /\ Len(block) \in Nat
    BY DEF ParserOK, BlockGiven
  <2>5. expectedSize' \in Nat
    BY <1>4, <2>2, <2>4 DEF OnKnownSize
  <2>6. buffer' = <<>>
    BY DEF ModeInv, BlockGiven, ParserOK
  <2>7. ParserOK'
    BY <1>4, <2>3, <2>5 DEF OnKnownSize, ParserOK
  <2>8. ModeInv'
    BY <1>4, <2>1, <2>2, <2>5, <2>6 DEF OnKnownSize, ModeInv, NoSize
  <2>9. KnownSizeCount'
    <3>1. SUFFICES ASSUME ~IsChunked
                   PROVE  /\ expectedSize' = IF Len(body') <= ContentLength
                                             THEN ContentLength - Len(body') ELSE 0
                          /\ streamState' = "FINISHED" <=> expectedSize' = 0
      BY <2>1 DEF KnownSizeCount
    <3>2. size = IF Len(body) <= ContentLength THEN ContentLength - Len(body) ELSE 0
      BY <1>4, <3>1 DEF OnKnownSize, ModeInv, KnownSizeCount, BlockGiven
    <3>3. expectedSize' = IF Len(block) <= size THEN size - Len(block) ELSE 0
      BY <1>4 DEF OnKnownSize
    <3>4. streamState' = "FINISHED" <=> expectedSize' = 0
      BY <1>4 DEF OnKnownSize
    <3> QED
      BY <2>2, <2>3, <2>4, <3>2, <3>3, <3>4
  <2> QED
    BY <2>7, <2>8, <2>9
<1>5. CASE OnChunk(block, size)
  <2>1. bufferMode = "NEWLINE" /\ size = Len(block) /\ buffer' = <<>>
    BY <1>5 DEF OnChunk, ModeInv, BlockGiven
  <2>2. \A k \in 1..(size - 2) : block[k] \in Symbols
    BY <1>5, <2>1 DEF OnChunk, BlockGiven
  <2>3. 1 \in Int /\ size - 2 \in Int
    BY <1>5, <2>1 DEF OnChunk, BlockGiven
  <2>4. SubSeq(block, 1, size - 2) \in Seq(Symbols)
    BY <2>2, <2>3, SubSeqProperties
  <2>5. body' \in Seq(Symbols)
    BY <1>5, <2>4, ConcatProperties DEF OnChunk, ParserOK
  <2> QED
    BY <1>5, <2>1, <2>5 DEF OnChunk, BlockGiven, ParserOK, ModeInv, KnownSizeCount
<1>6. CASE OnNoBody(size)
  <2>1. buffer' = <<>> \/ bufferMode = "NEWLINE"
    BY DEF ModeInv, BlockGiven, ParserOK
  <2> QED
    BY <1>6, <2>1
    DEF OnNoBody, BlockGiven, ParserOK, ModeInv, KnownSizeCount, state, message
<1> QED
  BY <1>1, <1>2, <1>3, <1>4, <1>5, <1>6 DEF OnBufferedData

----------------------------------------------------------------------------
(* The steps of OnData. *)

\* The rest of the type invariant: the outcome, the history and the buffer.
OutcomeOK ==
  outcome \in {"idle", "reading", "more", "done", "unexpected input", "overrun"}
HistoryOK == taken \in Nat /\ buffer \in Seq(Symbols)
SplitOK == split \in BOOLEAN

LEMMA TypeParts ==
  TypeOK <=> PositionsOK /\ ParserOK /\ OutcomeOK /\ HistoryOK /\ SplitOK
BY Zenon DEF TypeOK, PositionsOK, ParserOK, OutcomeOK, HistoryOK, SplitOK

LEMMA TypePartsNext ==
  TypeOK' <=> PositionsOK' /\ ParserOK' /\ OutcomeOK' /\ HistoryOK' /\ SplitOK'
BY TypeParts, PTL

\* A block that OnBufferedData refuses changes at most expectedSize, and that in
\* mode NEWLINE only, where a body of known size is not counted.
LEMMA FailureStep ==
  ASSUME ParserOK, ModeInv, KnownSizeCount,
         UNCHANGED <<state, message, bufferMode>>,
         \/ expectedSize' = expectedSize
         \/ bufferMode = "NEWLINE" /\ expectedSize' \in Nat,
         bufferMode = "NONE" => buffer' = buffer
  PROVE  ParserOK' /\ ModeInv' /\ KnownSizeCount'
<1>1. /\ bufferMode' = bufferMode /\ streamState' = streamState /\ bodyType' = bodyType
      /\ startline' = startline /\ headers' = headers /\ body' = body
  BY DEF state, message
<1>2. ContentLength' = ContentLength /\ (IsChunked' <=> IsChunked)
  BY <1>1, HeadersSame
<1>3. ParserOK'
  BY <1>1 DEF ParserOK
<1>4. ModeInv'
  BY <1>1, <1>2 DEF ModeInv, NoSize
<1>5. KnownSizeCount'
  <2>1. CASE expectedSize' = expectedSize
    BY <1>1, <1>2, <2>1 DEF KnownSizeCount
  <2>2. CASE bufferMode = "NEWLINE"
    BY <1>1, <1>2, <2>2 DEF KnownSizeCount, ModeInv
  <2> QED
    BY <2>1, <2>2
<1> QED
  BY <1>3, <1>4, <1>5

\* Where everything up to the read position has been passed on, the buffer is empty.
LEMMA EmptyTail ==
  ASSUME NEW p \in Nat, at' = p, taken' = p, buffer' = <<>>
  PROVE  HistoryOK' /\ BufferIsTail'
<1>1. SubSeq(wire', p + 1, p) = <<>>
  <2>1. p + 1 \in Int /\ p \in Int /\ p < p + 1
    OBVIOUS
  <2> QED
    BY <2>1, SubSeqEmpty
<1>2. buffer' \in Seq(Symbols)
  BY EmptySeq
<1>3. p <= p
  OBVIOUS
<1> QED
  BY <1>1, <1>2, <1>3, Zenon DEF HistoryOK, BufferIsTail

\* The buffer and the rest of the fragment adjoin on the wire.
LEMMA TailJoinsRest ==
  ASSUME PositionsOK, taken \in Nat, taken <= at
  PROVE  SubSeq(wire, taken + 1, at) \o SubSeq(wire, at + 1, end)
           = SubSeq(wire, taken + 1, end)
BY PartsJoin DEF PositionsOK

LEMMA DeliverStep ==
  ASSUME ReaderInv, Deliver
  PROVE  ReaderInv'
<1> USE TypeParts DEF ReaderInv
<1>1. /\ wire' = wire /\ at' = at /\ taken' = taken /\ buffer' = buffer
      /\ expectedSize' = expectedSize /\ UNCHANGED <<state, message, bufferMode>>
  BY Zenon DEF Deliver, reader
<1>2. ParserOK' /\ ModeInv' /\ KnownSizeCount'
  BY <1>1, FailureStep
<1>3. PositionsOK'
  <2>1. end' \in (end + 1)..Len(wire)
    BY DEF Deliver
  <2> QED
    BY <1>1, <2>1 DEF PositionsOK
<1>4. HistoryOK' /\ BufferIsTail'
  BY <1>1 DEF HistoryOK, BufferIsTail
<1>5. OutcomeOK'
  BY DEF Deliver, OutcomeOK
<1>6. SplitOK'
  BY Zenon DEF Deliver, SplitOK
<1> QED
  BY <1>2, <1>3, <1>4, <1>5, <1>6, TypePartsNext

LEMMA ResultType ==
  ASSUME NEW position, Result(position)
  PROVE  OutcomeOK' /\ outcome' \in {"done", "more", "reading"}
BY DEF Result, OutcomeOK

LEMMA FailsType ==
  ASSUME NEW size, Fails(size)
  PROVE  OutcomeOK' /\ outcome' \in {"unexpected input", "overrun"}
BY DEF Fails, OutcomeOK

LEMMA PassThroughStep ==
  ASSUME ReaderInv, PassThrough
  PROVE  ReaderInv'
<1> USE TypeParts DEF ReaderInv
<1>1. /\ wire' = wire /\ end' = end /\ buffer' = buffer /\ split' = split
      /\ at' = end /\ taken' = end /\ bufferMode = "NONE"
  BY DEF PassThrough
<1>2. buffer' = <<>>
  BY <1>1 DEF ModeInv
<1>3. PositionsOK' /\ at' \in Nat
  BY <1>1 DEF PositionsOK
<1>4. HistoryOK' /\ BufferIsTail'
  BY <1>1, <1>2, <1>3, EmptyTail
<1>5. SplitOK'
  BY <1>1, Zenon DEF SplitOK
<1>6. ParserOK' /\ ModeInv' /\ KnownSizeCount' /\ OutcomeOK'
  <2>1. CASE OnBufferedData(Rest, expectedSize) /\ Result(end)
    <3>1. BlockGiven(Rest, expectedSize)
      BY <1>1, RestIs DEF BlockGiven, ParserOK
    <3> QED
      BY <2>1, <3>1, BlockStep, ResultType
  <2>2. CASE /\ Fails(expectedSize)
             /\ UNCHANGED <<state, message, bufferMode, expectedSize>>
    <3>1. UNCHANGED <<state, message, bufferMode>> /\ expectedSize' = expectedSize
      BY <2>2, Zenon
    <3> QED
      BY <1>1, <2>2, <3>1, FailureStep, FailsType
  <2> QED
    BY <2>1, <2>2 DEF PassThrough
<1> QED
  BY <1>3, <1>4, <1>5, <1>6, TypePartsNext

\* The lengths a line may be given are positive.
LEMMA LineLengthType ==
  ASSUME PositionsOK, HasNewline, NEW n \in LineLengths
  PROVE  n \in Nat /\ FirstNewline <= n /\ FirstNewline \in 1..Len(Rest)
<1>1. FirstNewline \in 1..Len(Rest) /\ Len(Rest) \in Nat
  BY FirstNewlineIs, RestIs DEF PositionsOK
<1> QED
  BY <1>1 DEF LineLengths

\* A line with its newline is a block for OnBufferedData.
LEMMA LineGiven ==
  ASSUME PositionsOK, HistoryOK, bufferMode = "NEWLINE", HasNewline, buffer' = <<>>,
         NEW n \in LineLengths, n <= Len(Rest)
  PROVE  LET line == buffer \o SubSeq(Rest, 1, n)
         IN  BlockGiven(line, Len(line)) /\ Len(line) \in Nat
<1> DEFINE piece == SubSeq(Rest, 1, n)
           line == buffer \o piece
<1>1. n \in Nat /\ FirstNewline <= n /\ FirstNewline \in 1..Len(Rest) /\ Len(Rest) \in Nat
  BY LineLengthType, RestIs DEF PositionsOK
<1>2. /\ piece \in Seq(Symbols) /\ Len(piece) = n
      /\ \A k \in 1..n : piece[k] = Rest[k]
  <2>1. \A k \in 1..n : Rest[k] \in Symbols
    BY <1>1, RestIs
  <2>2. 1 \in Int /\ n \in Int
    BY <1>1
  <2>3. /\ piece \in Seq(Symbols)
        /\ Len(piece) = IF 1 <= n THEN n - 1 + 1 ELSE 0
        /\ \A k \in 1..(n - 1 + 1) : piece[k] = Rest[1 + k - 1]
    BY <2>1, <2>2, SubSeqProperties
  <2> QED
    BY <1>1, <2>3
<1>3. /\ line \in Seq(Symbols) /\ Len(line) = Len(buffer) + n
      /\ \A k \in 1..(Len(buffer) + n) :
            line[k] = IF k <= Len(buffer) THEN buffer[k] ELSE piece[k - Len(buffer)]
  BY <1>2, ConcatProperties DEF HistoryOK
<1>4. Len(buffer) \in Nat
  BY DEF HistoryOK
<1>5. ASSUME Len(line) < 2 PROVE line[1] \in Newlines
  <2>1. Len(buffer) = 0 /\ n = 1 /\ FirstNewline = 1
    BY <1>1, <1>3, <1>4, <1>5
  <2>2. line[1] = Rest[1]
    BY <1>2, <1>3, <2>1
  <2> QED
    BY <2>1, <2>2, FirstNewlineIs
<1>6. Len(line) \in Nat
  BY <1>1, <1>3, <1>4
<1>7. BlockGiven(line, Len(line))
  <2> HIDE DEF line
  <2>1. line[1] \notin Newlines => Len(line) >= 2
    BY <1>5, <1>6
  <2> QED
    BY <1>3, <1>6, <2>1 DEF BlockGiven
<1> QED
  BY <1>6, <1>7

LEMMA TakeLineStep ==
  ASSUME ReaderInv, TakeLine
  PROVE  ReaderInv'
<1> USE TypeParts DEF ReaderInv
<1>1. /\ wire' = wire /\ end' = end /\ split' = split /\ buffer' = <<>>
      /\ bufferMode = "NEWLINE" /\ HasNewline
  BY DEF TakeLine
<1>2. PICK n \in LineLengths :
        LET line == buffer \o SubSeq(Rest, 1, n)
        IN  /\ n <= Len(Rest)
            /\ \/ OnBufferedData(line, Len(line)) /\ Result(at + n)
               \/ Fails(Len(line)) /\ expectedSize' = Len(line)
                                   /\ UNCHANGED <<state, message, bufferMode>>
            /\ at' = IF outcome' = "reading" THEN at + n ELSE end
            /\ taken' = at'
  BY Zenon DEF TakeLine
<1> DEFINE line == buffer \o SubSeq(Rest, 1, n)
<1>3. BlockGiven(line, Len(line)) /\ Len(line) \in Nat
  BY <1>1, <1>2, LineGiven
<1>4. ParserOK' /\ ModeInv' /\ KnownSizeCount' /\ OutcomeOK'
  <2> HIDE DEF line
  <2>1. CASE OnBufferedData(line, Len(line)) /\ Result(at + n)
    BY <1>3, <2>1, BlockStep, ResultType
  <2>2. CASE /\ Fails(Len(line)) /\ expectedSize' = Len(line)
             /\ UNCHANGED <<state, message, bufferMode>>
    BY <1>1, <1>3, <2>2, FailureStep, FailsType
  <2> QED
    BY <1>2, <2>1, <2>2 DEF line
<1>5. PositionsOK' /\ at' \in Nat
  <2>1. n \in Nat /\ Len(Rest) = end - at
    BY <1>1, LineLengthType, RestIs
  <2>2. at' = at + n \/ at' = end
    BY <1>2
  <2>3. n <= Len(Rest)
    BY <1>2
  <2> QED
    BY <1>1, <2>1, <2>2, <2>3 DEF PositionsOK
<1>6. HistoryOK' /\ BufferIsTail'
  BY <1>1, <1>2, <1>5, EmptyTail
<1>7. SplitOK'
  BY <1>1, Zenon DEF SplitOK
<1> QED
  BY <1>4, <1>5, <1>6, <1>7, TypePartsNext

LEMMA KeepRestStep ==
  ASSUME ReaderInv, KeepRest
  PROVE  ReaderInv'
<1> USE TypeParts DEF ReaderInv
<1>1. /\ wire' = wire /\ end' = end /\ split' = split /\ taken' = taken /\ at' = end
      /\ buffer' = buffer \o Rest /\ bufferMode = "NEWLINE" /\ outcome' = "more"
      /\ UNCHANGED <<state, message, bufferMode>>
  BY Zenon DEF KeepRest
<1>2. Len(buffer) \in Nat /\ Len(Rest) \in Nat /\ Rest \in Seq(Symbols)
  BY RestIs DEF HistoryOK, PositionsOK
<1>3. expectedSize' = expectedSize \/ expectedSize' \in Nat
  <2>1. CASE ~HasNewline
    BY <1>2, <2>1 DEF KeepRest
  <2>2. CASE HasNewline
    <3>1. PICK n \in LineLengths : expectedSize' = Len(buffer) + n
      BY <2>2 DEF KeepRest
    <3>2. n \in Nat
      BY <2>2, LineLengthType
    <3> QED
      BY <1>2, <3>1, <3>2
  <2> QED
    BY <2>1, <2>2
<1>4. ParserOK' /\ ModeInv' /\ KnownSizeCount'
  BY <1>1, <1>3, FailureStep
<1>5. PositionsOK'
  BY <1>1 DEF PositionsOK
<1>6. HistoryOK'
  BY <1>1, <1>2, ConcatProperties DEF HistoryOK
<1>7. BufferIsTail'
  <2>1. PositionsOK /\ taken \in Nat /\ taken <= at
    BY DEF HistoryOK, BufferIsTail
  <2>2. SubSeq(wire, taken + 1, at) \o SubSeq(wire, at + 1, end)
          = SubSeq(wire, taken + 1, end)
    BY <2>1, TailJoinsRest
  <2>3. taken <= end
    BY DEF PositionsOK, HistoryOK, BufferIsTail
  <2> QED
    BY <1>1, <2>2, <2>3 DEF BufferIsTail, Rest
<1>8. SplitOK' /\ OutcomeOK'
  BY <1>1, Zenon DEF SplitOK, OutcomeOK
<1> QED
  BY <1>4, <1>5, <1>6, <1>7, <1>8, TypePartsNext

----------------------------------------------------------------------------
(* The theorems. *)

LEMMA InitReader ==
  ASSUME Init
  PROVE  ReaderInv
<1> USE ReaderAssumption
<1>1. PositionsOK
  BY DEF Init, PositionsOK
<1>2. ParserOK
  BY EmptySeq DEF Init, ParserOK, NoSize
<1>3. HistoryOK
  BY EmptySeq DEF Init, HistoryOK
<1>4. OutcomeOK /\ SplitOK
  BY Zenon DEF Init, OutcomeOK, SplitOK
<1>5. BufferIsTail
  <2>1. SubSeq(wire, 1, 0) = <<>>
    BY SubSeqEmpty
  <2> QED
    BY <2>1 DEF Init, BufferIsTail
<1>6. ModeInv /\ KnownSizeCount
  BY DEF Init, ModeInv, KnownSizeCount
<1> QED
  BY <1>1, <1>2, <1>3, <1>4, <1>5, <1>6, TypeParts DEF ReaderInv

LEMMA StutterReader ==
  ASSUME ReaderInv, UNCHANGED vars
  PROVE  ReaderInv'
<1> USE TypeParts DEF ReaderInv
<1>1. /\ wire' = wire /\ at' = at /\ end' = end /\ taken' = taken /\ buffer' = buffer
      /\ expectedSize' = expectedSize /\ outcome' = outcome /\ split' = split
      /\ UNCHANGED <<state, message, bufferMode>>
  BY DEF vars, state, message
<1>2. ParserOK' /\ ModeInv' /\ KnownSizeCount'
  BY <1>1, FailureStep
<1>3. PositionsOK'
  BY <1>1 DEF PositionsOK
<1>4. HistoryOK' /\ BufferIsTail' /\ OutcomeOK'
  BY <1>1 DEF HistoryOK, BufferIsTail, OutcomeOK
<1>5. SplitOK'
  BY <1>1, Zenon DEF SplitOK
<1> QED
  BY <1>2, <1>3, <1>4, <1>5, TypePartsNext

\* The invariant that the results below rest on.
THEOREM ReaderInvariance == Spec => []ReaderInv
<1>1. Init => ReaderInv
  BY InitReader
<1>2. ReaderInv /\ [Next]_vars => ReaderInv'
  BY DeliverStep, PassThroughStep, TakeLineStep, KeepRestStep, StutterReader
  DEF Next, Quiet
<1> QED
  BY <1>1, <1>2, PTL DEF Spec

\* OnData and OnBufferedData keep the types of the reader's state: no position
\* leaves the wire and no header is read past the end of its line.
THEOREM ReaderTypeCorrect == Spec => []TypeOK
<1>1. ReaderInv => TypeOK
  BY DEF ReaderInv
<1> QED
  BY <1>1, ReaderInvariance, PTL

\* BufferedReader::OnData loses, doubles and moves no byte of a line, for any
\* wires and any fragments.
THEOREM NoByteLost == Spec => []BufferIsTail
<1>1. ReaderInv => BufferIsTail
  BY DEF ReaderInv
<1> QED
  BY <1>1, ReaderInvariance, PTL

\* IMessage::OnBufferedData counts a body of known size right, whatever arrives.
THEOREM KnownSizeCounted == Spec => []KnownSizeCount
<1>1. ReaderInv => KnownSizeCount
  BY DEF ReaderInv
<1> QED
  BY <1>1, ReaderInvariance, PTL

----------------------------------------------------------------------------
(* A whole message that is not cut between CR and LF. *)

\* Where the head of a message with h headers ends.
HeadLength(h) == 4 * h + 5

\* Up to the blank line the blocks passed on are the start line and k of the
\* headers, and what has been read of the next line holds no newline.
AtStart == taken = 0 /\ streamState = "START_LINE" /\ headers = <<>>

AtHeader(h) ==
  \E k \in 0..h :
    /\ taken = 4 * k + 3 /\ streamState = "HEADERS"
    /\ startline = SubSeq(wire, 1, 3) /\ headers = HeadersOf(wire, k)

InHead(h) ==
  /\ AtStart \/ AtHeader(h)
  /\ \A i \in (taken + 1)..at : wire[i] \notin Newlines

\* After it the body is what has been passed on, and it is finished with the
\* last byte of the wire.
InBody(h) ==
  /\ HeadLength(h) <= taken /\ taken = at
  /\ streamState \in {"BODY", "FINISHED"} /\ bodyType = "KNOWN_SIZE"
  /\ streamState = "FINISHED" <=> taken = Len(wire)
  /\ startline = SubSeq(wire, 1, 3) /\ headers = HeadersOf(wire, h)
  /\ body = SubSeq(wire, HeadLength(h) + 1, taken)

\* What a call of OnData reports agrees with the state of the parser, and a call
\* goes on as long as there is data.
Reported ==
  /\ ~Failed
  /\ Busy => at < end /\ streamState # "FINISHED"
  /\ ~Busy => at = end /\ (outcome = "done" <=> streamState = "FINISHED")

Progress(h) == (InHead(h) \/ InBody(h)) /\ Reported

Unsplit == end > 0 => ~SplitsLineEnd(end)

FragmentInv ==
  /\ ~split => Unsplit
  /\ wire \in Complete /\ ~split =>
       \E h \in 0..Len(wire) : WholeMessage(wire, h) /\ Progress(h)

\* The line that is being read ends with CR at c and LF behind it.
LineEndsAt(c) ==
  /\ c \in Nat /\ at < c /\ c + 1 <= Len(wire)
  /\ wire[c] = CR /\ wire[c + 1] = LF
  /\ \A i \in (taken + 1)..(c - 1) : wire[i] \notin Newlines

\* OnData takes the line when its CR is in the fragment: then its LF is too, and
\* the block is the line with both, from wherever its first bytes came.
LEMMA LineFound ==
  ASSUME PositionsOK, HistoryOK, BufferIsTail, Unsplit, NEW c, LineEndsAt(c)
  PROVE  /\ HasNewline <=> c <= end
         /\ HasNewline =>
              /\ c + 1 <= end /\ LineLengths = {c + 1 - at}
              /\ buffer \o SubSeq(Rest, 1, c + 1 - at) = SubSeq(wire, taken + 1, c + 1)
<1>1. /\ c \in Nat /\ at \in Nat /\ end \in Nat /\ taken \in Nat /\ Len(wire) \in Nat
      /\ taken <= at /\ at < c /\ c + 1 <= Len(wire) /\ at <= end /\ end <= Len(wire)
  BY DEF PositionsOK, HistoryOK, BufferIsTail, LineEndsAt
<1>2. /\ Rest \in Seq(Symbols) /\ Len(Rest) = end - at
      /\ \A k \in 1..(end - at) : Rest[k] = wire[at + k]
  BY RestIs
<1>3. ASSUME NEW k \in 1..(end - at), at + k < c
      PROVE  Rest[k] \notin Newlines
  <2>1. at + k \in (taken + 1)..(c - 1)
    BY <1>1, <1>3
  <2> QED
    BY <1>2, <2>1 DEF LineEndsAt
<1>4. ASSUME c <= end PROVE c - at \in 1..(end - at) /\ Rest[c - at] \in Newlines
  <2>1. c - at \in 1..(end - at) /\ at + (c - at) = c
    BY <1>1, <1>4
  <2>2. Rest[c - at] = wire[c]
    BY <1>2, <2>1
  <2> QED
    BY <2>1, <2>2 DEF LineEndsAt, Newlines
<1>5. HasNewline <=> c <= end
  <2>1. ASSUME HasNewline PROVE c <= end
    <3>1. PICK k \in 1..Len(Rest) : Rest[k] \in Newlines
      BY <2>1 DEF HasNewline
    <3>2. ~(at + k < c)
      BY <1>2, <1>3, <3>1
    <3> QED
      BY <1>1, <1>2, <3>1, <3>2
  <2>2. ASSUME c <= end PROVE HasNewline
    BY <1>2, <1>4, <2>2 DEF HasNewline
  <2> QED
    BY <2>1, <2>2
<1>6. ASSUME HasNewline
      PROVE  /\ c + 1 <= end /\ LineLengths = {c + 1 - at}
             /\ buffer \o SubSeq(Rest, 1, c + 1 - at) = SubSeq(wire, taken + 1, c + 1)
  <2>1. c <= end
    BY <1>5, <1>6
  <2>2. c # end
    <3>1. ASSUME c = end PROVE SplitsLineEnd(end) /\ end > 0
      BY <1>1, <3>1 DEF LineEndsAt, SplitsLineEnd
    <3> QED
      BY <3>1 DEF Unsplit
  <2>3. c + 1 <= end
    BY <1>1, <2>1, <2>2
  <2>4. FirstNewline = c - at
    <3>1. /\ FirstNewline \in 1..(end - at) /\ Rest[FirstNewline] \in Newlines
          /\ \A j \in 1..(FirstNewline - 1) : Rest[j] \notin Newlines
      BY <1>2, <1>6, FirstNewlineIs
    <3>2. ~(at + FirstNewline < c)
      BY <1>3, <3>1
    <3>3. ~(c - at \in 1..(FirstNewline - 1))
      BY <1>4, <2>1, <3>1
    <3> QED
      BY <1>1, <3>1, <3>2, <3>3
  <2>5. Rest[c - at + 1] = wire[c + 1]
    <3>1. c - at + 1 \in 1..(end - at) /\ at + (c - at + 1) = c + 1
      BY <1>1, <2>3
    <3> QED
      BY <1>2, <3>1
  <2>6. Rest[c - at + 1] \in Newlines
    BY <2>5 DEF LineEndsAt, Newlines
  <2>7. c - at < Len(Rest) /\ c - at + 1 = c + 1 - at
    BY <1>1, <1>2, <2>3
  <2>8. LineLengths = {c + 1 - at}
    BY <2>4, <2>6, <2>7 DEF LineLengths
  <2>9. SubSeq(Rest, 1, c + 1 - at) = SubSeq(wire, at + 1, c + 1)
    <3>1. c + 1 - at \in Nat /\ c + 1 - at <= end - at /\ at + (c + 1 - at) = c + 1
      BY <1>1, <2>3
    <3>2. SubSeq(SubSeq(wire, at + 1, end), 1, c + 1 - at)
            = SubSeq(wire, at + 1, at + (c + 1 - at))
      BY <3>1, PartOfPart DEF PositionsOK
    <3> QED
      BY <3>1, <3>2 DEF Rest
  <2>10. SubSeq(wire, taken + 1, at) \o SubSeq(wire, at + 1, c + 1)
           = SubSeq(wire, taken + 1, c + 1)
    <3>1. c + 1 \in Nat /\ at <= c + 1 /\ wire \in Seq(Symbols)
      BY <1>1 DEF PositionsOK
    <3> QED
      BY <1>1, <3>1, PartsJoin
  <2> QED
    BY <2>3, <2>8, <2>9, <2>10 DEF BufferIsTail
<1> QED
  BY <1>5, <1>6

\* Where the lines of a whole message end.
LEMMA StartLineEnd ==
  ASSUME NEW h \in Nat, WholeMessage(wire, h), PositionsOK, HistoryOK, BufferIsTail,
         taken = 0, \A i \in (taken + 1)..at : wire[i] \notin Newlines
  PROVE  LineEndsAt(2)
<1>1. Len(wire) >= 4 * h + 5 /\ wire[1] \notin Newlines /\ wire[2] = CR /\ wire[3] = LF
  BY DEF WholeMessage
<1>2. at \in Nat /\ Len(wire) \in Nat
  BY DEF PositionsOK
<1>3. at < 2
  <2>1. 2 \notin 1..at
    BY <1>1 DEF Newlines
  <2> QED
    BY <1>2, <2>1
<1>4. \A i \in 1..1 : wire[i] \notin Newlines
  BY <1>1
<1> QED
  BY <1>1, <1>2, <1>3, <1>4 DEF LineEndsAt

LEMMA HeaderLineEnd ==
  ASSUME NEW h \in Nat, WholeMessage(wire, h), PositionsOK, HistoryOK, BufferIsTail,
         NEW k \in 0..h, taken = 4 * k + 3,
         \A i \in (taken + 1)..at : wire[i] \notin Newlines
  PROVE  LineEndsAt(IF k = h THEN 4 * h + 4 ELSE 4 * k + 6)
<1>1. at \in Nat /\ Len(wire) \in Nat /\ k \in Nat /\ 4 * k + 3 <= at
  BY DEF PositionsOK, BufferIsTail
<1>2. CASE k = h
  <2>1. Len(wire) >= 4 * h + 5 /\ wire[4 * h + 4] = CR /\ wire[4 * h + 5] = LF
    BY DEF WholeMessage
  <2>2. at < 4 * h + 4
    <3>1. ~(4 * h + 4 \in (taken + 1)..at)
      BY <2>1 DEF Newlines
    <3> QED
      BY <1>1, <1>2, <3>1
  <2>3. 4 * h + 4 \in Nat /\ 4 * h + 4 + 1 = 4 * h + 5 /\ 4 * h + 5 <= Len(wire)
    BY <1>1, <2>1
  <2>4. \A i \in (taken + 1)..(4 * h + 4 - 1) : wire[i] \notin Newlines
    BY <1>1, <1>2
  <2> QED
    BY <1>2, <2>1, <2>2, <2>3, <2>4 DEF LineEndsAt
<1>3. CASE k < h
  <2>1. k + 1 \in 1..h /\ 4 * (k + 1) = 4 * k + 4
    BY <1>1, <1>3
  <2>2. /\ wire[4 * (k + 1)] \notin Newlines /\ wire[4 * (k + 1) + 1] \notin Newlines
        /\ wire[4 * (k + 1) + 2] = CR /\ wire[4 * (k + 1) + 3] = LF
    BY <2>1 DEF WholeMessage
  <2>3. /\ 4 * (k + 1) + 1 = 4 * k + 5 /\ 4 * (k + 1) + 2 = 4 * k + 6
        /\ 4 * (k + 1) + 3 = 4 * k + 7
    BY <2>1
  <2>4. /\ wire[4 * k + 4] \notin Newlines /\ wire[4 * k + 5] \notin Newlines
        /\ wire[4 * k + 6] = CR /\ wire[4 * k + 7] = LF
    BY <2>1, <2>2, <2>3
  <2>5. at < 4 * k + 6
    <3>1. ~(4 * k + 6 \in (taken + 1)..at)
      BY <2>4 DEF Newlines
    <3> QED
      BY <1>1, <3>1
  <2>6. /\ 4 * k + 6 \in Nat /\ 4 * k + 6 + 1 = 4 * k + 7 /\ 4 * k + 7 <= Len(wire)
        /\ k # h
    <3>1. Len(wire) >= 4 * h + 5
      BY DEF WholeMessage
    <3> QED
      BY <1>1, <1>3, <3>1
  <2>7. ASSUME NEW i \in (taken + 1)..(4 * k + 6 - 1) PROVE wire[i] \notin Newlines
    <3>1. i = 4 * k + 4 \/ i = 4 * k + 5
      BY <1>1
    <3> QED
      BY <2>4, <3>1
  <2> QED
    BY <2>4, <2>5, <2>6, <2>7 DEF LineEndsAt
<1> QED
  BY <1>1, <1>2, <1>3

\* In the head there is always such a line.
LEMMA HeadLineEnds ==
  ASSUME NEW h \in Nat, WholeMessage(wire, h), PositionsOK, HistoryOK, BufferIsTail,
         InHead(h)
  PROVE  \E c : LineEndsAt(c)
BY StartLineEnd, HeaderLineEnd DEF InHead, AtStart, AtHeader

\* The line OnData takes from the head of a whole message is the one sent.
LEMMA LinePassedOn ==
  ASSUME PositionsOK, HistoryOK, BufferIsTail, Unsplit, NEW c, LineEndsAt(c), TakeLine
  PROVE  LET line == SubSeq(wire, taken + 1, c + 1)
         IN  /\ \/ OnBufferedData(line, Len(line)) /\ Result(c + 1)
                \/ Fails(Len(line))
             /\ at' = IF outcome' = "reading" THEN c + 1 ELSE end
             /\ taken' = at' /\ c + 1 <= end /\ wire' = wire /\ end' = end
<1>1. PICK n \in LineLengths :
        LET line == buffer \o SubSeq(Rest, 1, n)
        IN  /\ n <= Len(Rest)
            /\ \/ OnBufferedData(line, Len(line)) /\ Result(at + n)
               \/ Fails(Len(line)) /\ expectedSize' = Len(line)
                                   /\ UNCHANGED <<state, message, bufferMode>>
            /\ at' = IF outcome' = "reading" THEN at + n ELSE end
            /\ taken' = at'
  BY Zenon DEF TakeLine
<1>2. HasNewline /\ wire' = wire /\ end' = end
  BY DEF TakeLine
<1>3. /\ c + 1 <= end /\ LineLengths = {c + 1 - at}
      /\ buffer \o SubSeq(Rest, 1, c + 1 - at) = SubSeq(wire, taken + 1, c + 1)
  BY <1>2, LineFound
<1>4. n = c + 1 - at
  BY <1>1, <1>3
<1>5. at + (c + 1 - at) = c + 1
  BY DEF PositionsOK, LineEndsAt
<1> QED
  BY <1>1, <1>2, <1>3, <1>4, <1>5, Zenon

\* Result keeps what a call reports in line with the parser's state.
LEMMA ResultReported ==
  ASSUME NEW p \in Nat, Result(p), at' = IF outcome' = "reading" THEN p ELSE end,
         end \in Nat, p <= end, end' = end, streamState' = "FINISHED" => p = end
  PROVE  Reported' /\ at' = p
<1>1. at' = p
  BY DEF Result
<1>2. outcome' \in {"done", "more", "reading"}
  BY DEF Result
<1>3. (outcome' = "done") <=> (streamState' = "FINISHED")
  BY DEF Result
<1>4. outcome' = "reading" => p # end
  BY DEF Result
<1>5. outcome' # "reading" => p = end
  BY DEF Result
<1>6. (~Failed)'
  BY <1>2 DEF Failed
<1>7. outcome' = "reading" => at' < end' /\ streamState' # "FINISHED"
  BY <1>1, <1>3, <1>4
<1>8. outcome' # "reading" => at' = end'
  BY <1>1, <1>5
<1> QED
  BY <1>1, <1>3, <1>6, <1>7, <1>8, Zenon DEF Reported, Busy

\* One more header line, one more header.
LEMMA HeaderAdded ==
  ASSUME NEW w, NEW k \in Nat
  PROVE  HeadersOf(w, k + 1)
           = Append(HeadersOf(w, k), [name |-> w[4 * k + 4], value |-> w[4 * k + 5]])
<1>1. 4 * (k + 1) = 4 * k + 4 /\ 4 * (k + 1) + 1 = 4 * k + 5
  OBVIOUS
<1> QED
  BY <1>1 DEF HeadersOf

----------------------------------------------------------------------------
(* The steps of OnData on a whole message. *)

LEMMA StartLineRead ==
  ASSUME NEW h \in Nat, WholeMessage(wire, h), ReaderInv, Unsplit, InHead(h), AtStart,
         TakeLine
  PROVE  Progress(h)'
<1> USE TypeParts DEF ReaderInv
<1>1. LineEndsAt(2) /\ taken = 0 /\ streamState = "START_LINE" /\ headers = <<>>
  BY StartLineEnd DEF InHead, AtStart
<1> DEFINE line == SubSeq(wire, 0 + 1, 2 + 1)
<1>2. /\ \/ OnBufferedData(line, Len(line)) /\ Result(2 + 1)
         \/ Fails(Len(line))
      /\ at' = IF outcome' = "reading" THEN 2 + 1 ELSE end
      /\ taken' = at' /\ 2 + 1 <= end /\ wire' = wire /\ end' = end
  BY <1>1, LinePassedOn
<1>3. OnStartLine(line, Len(line)) /\ Result(3)
  <2> HIDE DEF line
  <2> QED
    BY <1>1, <1>2 DEF Fails, OnBufferedData, OnHeader, OnHeadersEnd, OnKnownSize, OnChunk,
                      OnNoBody
<1>4. /\ startline' = SubSeq(wire, 1, 3) /\ headers' = <<>> /\ streamState' = "HEADERS"
  BY <1>1, <1>3 DEF OnStartLine
<1>5. end \in Nat
  BY DEF PositionsOK
<1>6. Reported' /\ at' = 3
  BY <1>2, <1>3, <1>4, <1>5, ResultReported
<1>7. HeadersOf(wire, 0) = <<>>
  BY DEF HeadersOf
<1>8. AtHeader(h)'
  <2>1. 0 \in 0..h /\ taken' = 4 * 0 + 3
    BY <1>2, <1>6
  <2> QED
    BY <1>2, <1>4, <1>7, <2>1 DEF AtHeader
<1>9. InHead(h)'
  BY <1>2, <1>6, <1>8 DEF InHead
<1> QED
  BY <1>6, <1>9 DEF Progress

LEMMA HeaderRead ==
  ASSUME NEW h \in Nat, WholeMessage(wire, h), ReaderInv, Unsplit, InHead(h),
         NEW k \in 0..h, k < h, taken = 4 * k + 3, streamState = "HEADERS",
         startline = SubSeq(wire, 1, 3), headers = HeadersOf(wire, k), TakeLine
  PROVE  Progress(h)'
<1> USE TypeParts DEF ReaderInv
<1> DEFINE line == SubSeq(wire, taken + 1, 4 * k + 6 + 1)
<1>1. LineEndsAt(4 * k + 6)
  <2>1. LineEndsAt(IF k = h THEN 4 * h + 4 ELSE 4 * k + 6)
    BY HeaderLineEnd DEF InHead
  <2> QED
    BY <2>1
<1>2. /\ \/ OnBufferedData(line, Len(line)) /\ Result(4 * k + 6 + 1)
         \/ Fails(Len(line))
      /\ at' = IF outcome' = "reading" THEN 4 * k + 6 + 1 ELSE end
      /\ taken' = at' /\ 4 * k + 6 + 1 <= end /\ wire' = wire /\ end' = end
  BY <1>1, LinePassedOn
<1>3. 4 * k + 6 + 1 = 4 * k + 7 /\ 4 * k + 7 \in Nat /\ taken + 1 = 4 * k + 4
  OBVIOUS
<1>4. line[1] = wire[4 * k + 4] /\ line[2] = wire[4 * k + 5]
  <2>1. /\ taken \in Nat /\ 4 * k + 7 \in Nat /\ taken <= 4 * k + 7
        /\ 4 * k + 7 <= Len(wire) /\ wire \in Seq(Symbols)
    BY <1>2, <1>3 DEF PositionsOK
  <2>2. \A i \in 1..(4 * k + 7 - taken) : SubSeq(wire, taken + 1, 4 * k + 7)[i] = wire[taken + i]
    BY <2>1, PartIs
  <2>3. /\ 1 \in 1..(4 * k + 7 - taken) /\ 2 \in 1..(4 * k + 7 - taken)
        /\ taken + 1 = 4 * k + 4 /\ taken + 2 = 4 * k + 5
    OBVIOUS
  <2> QED
    BY <1>3, <2>2, <2>3
<1>5. wire[4 * k + 4] \notin Newlines
  <2>1. k + 1 \in 1..h /\ 4 * (k + 1) = 4 * k + 4
    OBVIOUS
  <2>2. wire[4 * (k + 1)] \notin Newlines
    BY <2>1 DEF WholeMessage
  <2> QED
    BY <2>1, <2>2
<1>6. OnHeader(line, Len(line)) /\ Result(4 * k + 7)
  <2> HIDE DEF line
  <2> QED
    BY <1>2, <1>3, <1>4, <1>5
    DEF Fails, OnBufferedData, OnStartLine, OnHeadersEnd, OnKnownSize, OnChunk, OnNoBody
<1>7. /\ startline' = SubSeq(wire, 1, 3) /\ streamState' = "HEADERS"
      /\ headers' = HeadersOf(wire, k + 1)
  <2>1. headers' = Append(headers, [name |-> line[1], value |-> line[2]])
    BY <1>6 DEF OnHeader, HeaderOf
  <2>2. k \in Nat
    OBVIOUS
  <2>3. headers' = HeadersOf(wire, k + 1)
    BY <1>4, <2>1, <2>2, HeaderAdded
  <2> QED
    BY <1>6, <2>3 DEF OnHeader, state
<1>8. end \in Nat
  BY DEF PositionsOK
<1>9. Reported' /\ at' = 4 * k + 7
  BY <1>2, <1>3, <1>6, <1>7, <1>8, ResultReported
<1>10. AtHeader(h)'
  <2>1. taken' = 4 * k + 7
    BY <1>2, <1>9, Zenon
  <2>2. k + 1 \in 0..h /\ 4 * k + 7 = 4 * (k + 1) + 3
    OBVIOUS
  <2> QED
    BY <1>2, <1>7, <2>1, <2>2, Zenon DEF AtHeader
<1>11. InHead(h)'
  <2>1. taken' = 4 * k + 7 /\ at' = 4 * k + 7
    BY <1>2, <1>9
  <2>2. ~\E i \in (taken' + 1)..at' : TRUE
    BY <1>3, <2>1
  <2> QED
    BY <1>10, <2>2 DEF InHead
<1> QED
  BY <1>9, <1>11 DEF Progress

LEMMA HeadersEndRead ==
  ASSUME NEW h \in Nat, WholeMessage(wire, h), ReaderInv, ReaderInv', Unsplit, InHead(h),
         taken = 4 * h + 3, streamState = "HEADERS",
         startline = SubSeq(wire, 1, 3), headers = HeadersOf(wire, h), TakeLine
  PROVE  Progress(h)'
<1> USE TypeParts DEF ReaderInv
<1> DEFINE line == SubSeq(wire, taken + 1, 4 * h + 4 + 1)
<1>1. LineEndsAt(4 * h + 4)
  <2>1. h \in 0..h
    OBVIOUS
  <2>2. LineEndsAt(IF h = h THEN 4 * h + 4 ELSE 4 * h + 6)
    BY <2>1, HeaderLineEnd DEF InHead
  <2> QED
    BY <2>2
<1>2. /\ \/ OnBufferedData(line, Len(line)) /\ Result(4 * h + 4 + 1)
         \/ Fails(Len(line))
      /\ at' = IF outcome' = "reading" THEN 4 * h + 4 + 1 ELSE end
      /\ taken' = at' /\ 4 * h + 4 + 1 <= end /\ wire' = wire /\ end' = end
  BY <1>1, LinePassedOn
<1>3. 4 * h + 4 + 1 = 4 * h + 5 /\ 4 * h + 5 \in Nat /\ taken + 1 = 4 * h + 4
  OBVIOUS
<1>4. /\ end \in Nat /\ end <= Len(wire) /\ Len(wire) \in Nat /\ wire \in Seq(Symbols)
      /\ taken \in Nat
  BY DEF PositionsOK, HistoryOK
<1>5. line[1] = wire[4 * h + 4]
  <2>1. /\ taken <= 4 * h + 5 /\ 4 * h + 5 <= Len(wire) /\ 1 \in 1..(4 * h + 5 - taken)
    BY <1>2, <1>3, <1>4
  <2>2. \A i \in 1..(4 * h + 5 - taken) : SubSeq(wire, taken + 1, 4 * h + 5)[i] = wire[taken + i]
    BY <1>3, <1>4, <2>1, PartIs
  <2> QED
    BY <1>3, <2>1, <2>2
<1>6. OnHeadersEnd(line) /\ Result(4 * h + 5)
  <2>1. line[1] \in Newlines
    BY <1>5 DEF WholeMessage, Newlines
  <2> HIDE DEF line
  <2> QED
    BY <1>2, <1>3, <2>1
    DEF Fails, OnBufferedData, OnStartLine, OnHeader, OnKnownSize, OnChunk, OnNoBody
<1>7. ContentLength = Len(wire) - (4 * h + 5)
  BY DEF WholeMessage, ContentLength
<1>8. streamState' = IF ContentLength = 0 THEN "FINISHED" ELSE "BODY"
  BY <1>6 DEF OnHeadersEnd
<1>9. (streamState' = "FINISHED") <=> (Len(wire) = 4 * h + 5)
  BY <1>3, <1>4, <1>7, <1>8
<1>10. bodyType' = "KNOWN_SIZE"
  <2>1. ContentLength # NoSize
    BY <1>2, <1>3, <1>4, <1>7 DEF NoSize
  <2> QED
    BY <1>6, <2>1 DEF OnHeadersEnd, BodyTypeFrom
<1>11. startline' = SubSeq(wire, 1, 3) /\ headers' = HeadersOf(wire, h) /\ body' = <<>>
  BY <1>6 DEF OnHeadersEnd, message, ModeInv
<1>12. Reported' /\ at' = 4 * h + 5
  <2>1. streamState' = "FINISHED" => 4 * h + 5 = end
    BY <1>2, <1>3, <1>4, <1>9
  <2> QED
    BY <1>2, <1>3, <1>4, <1>6, <2>1, ResultReported
<1>13. SubSeq(wire, 4 * h + 5 + 1, 4 * h + 5) = <<>>
  <2>1. 4 * h + 5 + 1 \in Int /\ 4 * h + 5 \in Int /\ 4 * h + 5 < 4 * h + 5 + 1
    OBVIOUS
  <2> QED
    BY <2>1, SubSeqEmpty
<1>14. InBody(h)'
  <2>1. taken' = 4 * h + 5 /\ at' = 4 * h + 5 /\ wire' = wire
    BY <1>2, <1>12, Zenon
  <2>2. streamState' \in {"BODY", "FINISHED"}
    BY <1>8
  <2>3. 4 * h + 5 <= 4 * h + 5
    OBVIOUS
  <2> QED
    BY <1>9, <1>10, <1>11, <1>13, <2>1, <2>2, <2>3, Zenon DEF InBody, HeadLength
<1> QED
  BY <1>12, <1>14 DEF Progress

\* TakeLine happens in the head only.
LEMMA TakeLineProgress ==
  ASSUME NEW h \in Nat, WholeMessage(wire, h), ReaderInv, ReaderInv', Unsplit,
         Progress(h), TakeLine
  PROVE  Progress(h)'
<1>1. CASE InHead(h)
  <2>1. CASE AtStart
    BY <1>1, <2>1, StartLineRead
  <2>2. CASE AtHeader(h)
    <3>1. PICK k \in 0..h :
            /\ taken = 4 * k + 3 /\ streamState = "HEADERS"
            /\ startline = SubSeq(wire, 1, 3) /\ headers = HeadersOf(wire, k)
      BY <2>2 DEF AtHeader
    <3>2. CASE k < h
      BY <1>1, <3>1, <3>2, HeaderRead
    <3>3. CASE k = h
      BY <1>1, <3>1, <3>3, HeadersEndRead
    <3> QED
      BY <3>2, <3>3
  <2> QED
    BY <1>1, <2>1, <2>2 DEF InHead
<1>2. CASE InBody(h)
  BY <1>2 DEF InBody, TakeLine, ReaderInv, ModeInv, WholeMessage, IsChunked
<1> QED
  BY <1>1, <1>2 DEF Progress

\* KeepRest happens where the CR of the line has not arrived.
LEMMA KeepRestProgress ==
  ASSUME NEW h \in Nat, WholeMessage(wire, h), ReaderInv, Unsplit, Progress(h), KeepRest
  PROVE  Progress(h)'
<1> USE TypeParts DEF ReaderInv
<1>1. CASE InHead(h)
  <2>1. PICK c : LineEndsAt(c)
    BY <1>1, HeadLineEnds
  <2>2. /\ c \in Nat /\ at < c /\ at \in Nat /\ end \in Nat /\ taken \in Nat
        /\ Len(Rest) = end - at
    BY <2>1, RestIs DEF LineEndsAt, PositionsOK, HistoryOK
  <2>3. end < c
    <3>1. SUFFICES ASSUME HasNewline PROVE FALSE
      BY <2>1, <2>2, LineFound
    <3>2. PICK n \in LineLengths : n > Len(Rest)
      BY <3>1 DEF KeepRest
    <3>3. n = c + 1 - at /\ c + 1 <= end
      BY <2>1, <3>1, <3>2, LineFound
    <3> QED
      BY <2>2, <3>2, <3>3
  <2>4. /\ wire' = wire /\ end' = end /\ taken' = taken /\ at' = end /\ outcome' = "more"
        /\ streamState' = streamState /\ startline' = startline /\ headers' = headers
    BY DEF KeepRest, state, message
  <2>5. \A i \in (taken + 1)..end : wire[i] \notin Newlines
    <3>1. \A i \in (taken + 1)..end : i \in (taken + 1)..(c - 1)
      BY <2>2, <2>3
    <3> QED
      BY <2>1, <3>1, Zenon DEF LineEndsAt
  <2>6. (AtStart \/ AtHeader(h))'
    BY <1>1, <2>4, Zenon DEF InHead, AtStart, AtHeader
  <2>7. InHead(h)'
    BY <2>4, <2>5, <2>6, Zenon DEF InHead
  <2>8. streamState # "FINISHED"
    BY <1>1 DEF InHead, AtStart, AtHeader
  <2>9. Reported'
    BY <2>4, <2>8 DEF Reported, Failed, Busy
  <2> QED
    BY <2>7, <2>9 DEF Progress
<1>2. CASE InBody(h)
  BY <1>2 DEF InBody, KeepRest, ModeInv, WholeMessage, IsChunked
<1> QED
  BY <1>1, <1>2 DEF Progress

\* PassThrough happens in the body only.
LEMMA PassThroughProgress ==
  ASSUME NEW h \in Nat, WholeMessage(wire, h), ReaderInv, ReaderInv', Progress(h),
         PassThrough
  PROVE  Progress(h)'
<1> USE TypeParts DEF ReaderInv
<1>1. InBody(h)
  <2>1. ~InHead(h)
    BY DEF InHead, AtStart, AtHeader, PassThrough, ModeInv
  <2> QED
    BY <2>1 DEF Progress
<1>2. streamState = "BODY" /\ bodyType = "KNOWN_SIZE"
  BY <1>1 DEF InBody, Progress, Reported, PassThrough, Busy
<1>3. /\ wire' = wire /\ end' = end /\ at' = end /\ taken' = end /\ Result(end)
      /\ OnKnownSize(Rest, expectedSize)
  BY <1>2 DEF PassThrough, Fails, OnBufferedData, OnStartLine, OnHeader, OnHeadersEnd,
              OnChunk, OnNoBody
<1>4. /\ wire \in Seq(Symbols) /\ Len(wire) \in Nat /\ at \in Nat /\ end \in Nat
      /\ at <= end /\ end <= Len(wire) /\ HeadLength(h) \in Nat
      /\ HeadLength(h) <= at /\ HeadLength(h) <= end
  BY <1>1 DEF PositionsOK, InBody, HeadLength
<1>5. body' = SubSeq(wire, HeadLength(h) + 1, end)
  <2>1. SubSeq(wire, HeadLength(h) + 1, at) \o SubSeq(wire, at + 1, end)
          = SubSeq(wire, HeadLength(h) + 1, end)
    BY <1>4, PartsJoin
  <2>2. body' = body \o Rest /\ body = SubSeq(wire, HeadLength(h) + 1, at)
    BY <1>1, <1>3 DEF OnKnownSize, InBody
  <2> QED
    BY <2>1, <2>2, Zenon DEF Rest
<1>6. /\ startline' = SubSeq(wire, 1, 3) /\ headers' = HeadersOf(wire, h)
      /\ headers' = headers /\ bodyType' = "KNOWN_SIZE"
      /\ streamState' \in {"BODY", "FINISHED"}
  BY <1>1, <1>3 DEF OnKnownSize, InBody
<1>7. (streamState' = "FINISHED") <=> (end = Len(wire))
  <2>1. ContentLength' = Len(wire) - HeadLength(h) /\ ~IsChunked'
    BY <1>6 DEF ContentLength, IsChunked, WholeMessage, HeadLength
  <2>2. Len(body') = end - HeadLength(h)
    BY <1>4, <1>5, PartIs
  <2>3. /\ expectedSize' = IF Len(body') <= ContentLength'
                           THEN ContentLength' - Len(body') ELSE 0
        /\ (streamState' = "FINISHED") <=> (expectedSize' = 0)
    BY <1>6, <2>1 DEF KnownSizeCount
  <2> QED
    BY <1>4, <2>1, <2>2, <2>3
<1>8. Reported'
  <2>1. at' = IF outcome' = "reading" THEN end ELSE end
    BY <1>3
  <2>2. streamState' = "FINISHED" => end = end
    OBVIOUS
  <2>3. end <= end
    BY <1>4
  <2> QED
    BY <1>3, <1>4, <2>1, <2>2, <2>3, ResultReported
<1>9. InBody(h)'
  BY <1>3, <1>4, <1>5, <1>6, <1>7, Zenon DEF InBody
<1> QED
  BY <1>8, <1>9 DEF Progress

\* A fragment arrives only while the message is not finished.
LEMMA DeliverProgress ==
  ASSUME NEW h \in Nat, WholeMessage(wire, h), ReaderInv, Progress(h), Deliver
  PROVE  Progress(h)'
<1> USE TypeParts DEF ReaderInv
<1>1. /\ wire' = wire /\ at' = at /\ taken' = taken /\ outcome' = "reading"
      /\ streamState' = streamState /\ bodyType' = bodyType
      /\ startline' = startline /\ headers' = headers /\ body' = body
  BY DEF Deliver, state, message
<1>2. (InHead(h) \/ InBody(h))'
  BY <1>1, Zenon DEF Progress, InHead, AtStart, AtHeader, InBody
<1>3. at = end /\ end \in Nat /\ Len(wire) \in Nat /\ end' \in (end + 1)..Len(wire)
  BY DEF Deliver, Progress, Reported, PositionsOK
<1>4. streamState # "FINISHED"
  <2>1. CASE InHead(h)
    BY <2>1 DEF InHead, AtStart, AtHeader
  <2>2. CASE InBody(h)
    <3>1. at # Len(wire)
      BY <1>3
    <3> QED
      BY <2>2, <3>1, Zenon DEF InBody
  <2> QED
    BY <2>1, <2>2 DEF Progress
<1>5. at' < end'
  BY <1>1, <1>3
<1>6. Reported'
  BY <1>1, <1>4, <1>5 DEF Reported, Failed, Busy
<1> QED
  BY <1>2, <1>6 DEF Progress

----------------------------------------------------------------------------
(* The theorem about whole messages. *)

\* split only ever becomes true, and it does when a cut separates CR and LF.
LEMMA SplitStep ==
  ASSUME ReaderInv, FragmentInv, [Next]_vars, ~split'
  PROVE  ~split /\ Unsplit /\ Unsplit' /\ wire' = wire
<1>1. CASE Deliver
  BY <1>1, Zenon DEF Deliver, FragmentInv, Unsplit, SplitsLineEnd
<1>2. CASE PassThrough \/ TakeLine \/ KeepRest \/ Quiet \/ UNCHANGED vars
  <2>1. split' = split /\ wire' = wire /\ end' = end
    BY <1>2 DEF PassThrough, TakeLine, KeepRest, Quiet, vars
  <2> QED
    BY <2>1, Zenon DEF FragmentInv, Unsplit, SplitsLineEnd
<1> QED
  BY <1>1, <1>2 DEF Next

LEMMA FragmentStep ==
  ASSUME ReaderInv, ReaderInv', FragmentInv, [Next]_vars
  PROVE  FragmentInv'
<1>1. (~split => Unsplit)'
  BY SplitStep
<1>2. ASSUME wire' \in Complete, ~split'
      PROVE  \E h \in 0..Len(wire') : WholeMessage(wire', h) /\ Progress(h)'
  <2>1. ~split /\ Unsplit /\ wire' = wire
    BY <1>2, SplitStep
  <2>2. PICK h \in 0..Len(wire) : WholeMessage(wire, h) /\ Progress(h)
    BY <1>2, <2>1 DEF FragmentInv
  <2>3. h \in Nat
    BY TypeParts DEF ReaderInv, PositionsOK
  <2>4. Progress(h)'
    <3>1. CASE UNCHANGED vars
      <4>1. /\ wire' = wire /\ at' = at /\ end' = end /\ taken' = taken
            /\ outcome' = outcome /\ streamState' = streamState /\ bodyType' = bodyType
            /\ startline' = startline /\ headers' = headers /\ body' = body
        BY <3>1 DEF vars
      <4> QED
        BY <2>2, <4>1, Zenon
        DEF Progress, InHead, AtStart, AtHeader, InBody, Reported, Failed, Busy
    <3> QED
      BY <2>1, <2>2, <2>3, <3>1, DeliverProgress, PassThroughProgress, TakeLineProgress,
         KeepRestProgress DEF Next, Quiet
  <2> QED
    BY <2>1, <2>2, <2>4, Zenon
<1> QED
  BY <1>1, <1>2, Zenon DEF FragmentInv

LEMMA FragmentInit ==
  ASSUME Init, ReaderInv
  PROVE  FragmentInv
<1>1. end = 0 /\ at = 0 /\ taken = 0 /\ outcome = "idle" /\ streamState = "START_LINE"
      /\ headers = <<>>
  BY DEF Init
<1>2. Unsplit
  <2>1. ~(0 > 0)
    OBVIOUS
  <2> QED
    BY <1>1, <2>1, Zenon DEF Unsplit
<1>3. ASSUME wire \in Complete
      PROVE  \E h \in 0..Len(wire) : WholeMessage(wire, h) /\ Progress(h)
  <2>1. PICK h \in 0..Len(wire) : WholeMessage(wire, h)
    BY <1>3, CompleteAssumption
  <2>2. \A i \in (0 + 1)..0 : wire[i] \notin Newlines
    OBVIOUS
  <2>3. Progress(h)
    BY <1>1, <2>2 DEF Progress, InHead, AtStart, Reported, Failed, Busy
  <2> QED
    BY <2>1, <2>3
<1> QED
  BY <1>2, <1>3, Zenon DEF FragmentInv

\* The head of a whole message ends with its first two line ends in a row.
LEMMA HeadEndIs ==
  ASSUME NEW h \in Nat, WholeMessage(wire, h), wire \in Seq(Symbols)
  PROVE  HeadEnd = HeadLength(h)
<1> DEFINE H == 4 * h + 5
           Ends(k) == SubSeq(wire, k - 3, k) = <<CR, LF, CR, LF>>
<1>1. Len(wire) \in Nat /\ H <= Len(wire)
  BY DEF WholeMessage
<1>2. ASSUME NEW k \in 4..Len(wire)
      PROVE  Ends(k) <=> /\ wire[k - 3] = CR /\ wire[k - 2] = LF
                         /\ wire[k - 1] = CR /\ wire[k] = LF
  <2> DEFINE part == SubSeq(wire, k - 3, k)
  <2>1. /\ k - 4 \in Nat /\ k \in Nat /\ k - 4 <= k /\ k - 4 + 1 = k - 3 /\ k - (k - 4) = 4
        /\ k - 4 + 2 = k - 2 /\ k - 4 + 3 = k - 1 /\ k - 4 + 4 = k /\ k <= Len(wire)
    BY <1>1
  <2>2. /\ SubSeq(wire, k - 4 + 1, k) \in Seq(Symbols)
        /\ Len(SubSeq(wire, k - 4 + 1, k)) = k - (k - 4)
        /\ \A i \in 1..(k - (k - 4)) : SubSeq(wire, k - 4 + 1, k)[i] = wire[k - 4 + i]
    BY <2>1, PartIs
  <2>3. part \in Seq(Symbols) /\ Len(part) = 4 /\ \A i \in 1..4 : part[i] = wire[k - 4 + i]
    BY <2>1, <2>2
  <2>4. /\ part[1] = wire[k - 3] /\ part[2] = wire[k - 2]
        /\ part[3] = wire[k - 1] /\ part[4] = wire[k]
    BY <2>1, <2>3
  <2>5. part = <<part[1], part[2], part[3], part[4]>>
    <3> HIDE DEF part
    <3> QED
      BY <2>3
  <2> HIDE DEF part
  <2> QED
    BY <2>4, <2>5 DEF part
<1>3. H \in 4..Len(wire) /\ Ends(H)
  <2>1. wire[4 * h + 4] = CR /\ wire[4 * h + 5] = LF
    BY DEF WholeMessage
  <2>2. wire[4 * h + 2] = CR /\ wire[4 * h + 3] = LF
    <3>1. CASE h = 0
      BY <3>1 DEF WholeMessage
    <3>2. CASE h # 0
      <4>1. h \in 1..h
        BY <3>2
      <4> QED
        BY <4>1 DEF WholeMessage
    <3> QED
      BY <3>1, <3>2
  <2>3. H - 3 = 4 * h + 2 /\ H - 2 = 4 * h + 3 /\ H - 1 = 4 * h + 4 /\ H \in 4..Len(wire)
    BY <1>1
  <2> QED
    BY <1>2, <2>1, <2>2, <2>3
<1>4. ASSUME NEW j \in 4..(H - 1) PROVE ~Ends(j)
  <2>1. SUFFICES ASSUME wire[j - 3] = CR, wire[j - 1] = CR, wire[j] = LF PROVE FALSE
    <3>1. j \in 4..Len(wire)
      BY <1>1
    <3> QED
      BY <1>2, <3>1
  <2>2. PICK q \in 0..h : j = 4 * q + 4 \/ j = 4 * q + 5 \/ j = 4 * q + 6 \/ j = 4 * q + 7
    <3>1. PICK q \in Nat : q <= h /\ 4 * q + 4 <= j /\ j <= 4 * q + 7
      <4> DEFINE q == (j - 4) \div 4
      <4>1. q \in Nat /\ 4 * q <= j - 4 /\ j - 4 <= 4 * q + 3
        OBVIOUS
      <4> HIDE DEF q
      <4>2. q <= h /\ 4 * q + 4 <= j /\ j <= 4 * q + 7
        BY <4>1
      <4> QED
        BY <4>1, <4>2
    <3> QED
      BY <3>1
  <2>3. q \in 1..h =>
          /\ wire[4 * q] \notin Newlines /\ wire[4 * q + 1] \notin Newlines
          /\ wire[4 * q + 2] = CR /\ wire[4 * q + 3] = LF
    BY DEF WholeMessage
  <2>4. q + 1 \in 1..h =>
          wire[4 * (q + 1)] \notin Newlines /\ wire[4 * (q + 1) + 1] \notin Newlines
    BY DEF WholeMessage
  <2>5. /\ wire[1] \notin Newlines /\ wire[2] = CR /\ wire[3] = LF /\ wire[4 * h + 4] = CR
    BY DEF WholeMessage
  <2>6. CR \in Newlines /\ LF \in Newlines /\ CR # LF
    BY ReaderAssumption DEF Newlines
  <2>7. CASE j = 4 * q + 4
    <3>1. j - 1 = 4 * q + 3
      BY <2>7
    <3>2. wire[4 * q + 3] = LF
      BY <2>3, <2>5
    <3> QED
      BY <2>1, <2>6, <3>1, <3>2
  <2>8. CASE j = 4 * q + 5
    <3>1. q + 1 \in 1..h /\ j = 4 * (q + 1) + 1
      BY <2>8
    <3> QED
      BY <2>1, <2>4, <2>6, <3>1
  <2>9. CASE j = 4 * q + 6
    <3>1. q + 1 \in 1..h /\ j - 1 = 4 * (q + 1) + 1
      BY <2>9
    <3> QED
      BY <2>1, <2>4, <2>6, <3>1
  <2>10. CASE j = 4 * q + 7
    <3>1. q + 1 \in 1..h /\ j - 3 = 4 * (q + 1)
      BY <2>10
    <3> QED
      BY <2>1, <2>4, <2>6, <3>1
  <2> QED
    BY <2>2, <2>7, <2>8, <2>9, <2>10
<1> HIDE DEF Ends
<1>5. \A k \in 4..Len(wire) : Ends(k) /\ (\A j \in 4..(k - 1) : ~Ends(j)) => k = H
  <2>1. ASSUME NEW k \in 4..Len(wire), Ends(k), \A j \in 4..(k - 1) : ~Ends(j)
        PROVE  k = H
    <3>1. ~(k \in 4..(H - 1)) /\ ~(H \in 4..(k - 1))
      BY <1>3, <1>4, <2>1
    <3> QED
      BY <1>1, <1>3, <3>1
  <2> QED
    BY <2>1
<1>6. HeadEnd = CHOOSE k \in 4..Len(wire) : Ends(k) /\ \A j \in 4..(k - 1) : ~Ends(j)
  BY DEF HeadEnd, Ends
<1>7. HeadEnd = H
  BY <1>3, <1>4, <1>5, <1>6, Zenon
<1> QED
  BY <1>7 DEF HeadLength

LEMMA FragmentImplies ==
  ASSUME ReaderInv, FragmentInv
  PROVE  FragmentationInvisible
<1> SUFFICES ASSUME wire \in Complete, ~split, ~Busy
             PROVE  /\ ~Failed
                    /\ (outcome = "done") <=> (end = Len(wire))
                    /\ outcome = "done" =>
                         /\ startline = SubSeq(wire, 1, 3)
                         /\ headers = SentHeaders
                         /\ body = SentBody
  BY DEF FragmentationInvisible
<1>1. PICK h \in 0..Len(wire) : WholeMessage(wire, h) /\ Progress(h)
  BY DEF FragmentInv
<1>2. PositionsOK /\ HistoryOK /\ BufferIsTail
  BY TypeParts DEF ReaderInv
<1>3. h \in Nat /\ wire \in Seq(Symbols) /\ Len(wire) \in Nat
  BY <1>2 DEF PositionsOK
<1>4. ~Failed /\ at = end /\ ((outcome = "done") <=> (streamState = "FINISHED"))
  BY <1>1 DEF Progress, Reported
<1>5. CASE InHead(h)
  <2>1. PICK c : LineEndsAt(c)
    BY <1>1, <1>2, <1>3, <1>5, HeadLineEnds
  <2>2. end # Len(wire)
    <3>1. c \in Nat /\ at < c /\ c + 1 <= Len(wire) /\ at \in Nat
      BY <1>2, <2>1 DEF LineEndsAt, PositionsOK
    <3> QED
      BY <1>3, <1>4, <3>1
  <2>3. streamState # "FINISHED"
    BY <1>5 DEF InHead, AtStart, AtHeader
  <2> QED
    BY <1>4, <2>2, <2>3, Zenon
<1>6. CASE InBody(h)
  <2>1. HeadEnd = HeadLength(h)
    BY <1>1, <1>3, HeadEndIs
  <2>2. (HeadLength(h) - 5) \div 4 = h
    BY <1>3 DEF HeadLength
  <2>3. SentHeaders = HeadersOf(wire, h)
    BY <2>1, <2>2, Zenon DEF SentHeaders
  <2>4. taken = Len(wire) => body = SentBody
    BY <1>6, <2>1, Zenon DEF InBody, SentBody
  <2> QED
    BY <1>4, <1>6, <2>3, <2>4, Zenon DEF InBody
<1> QED
  BY <1>1, <1>5, <1>6 DEF Progress

\* For any wires and any fragments that keep CR and LF together, OnData reports a
\* whole message of known size with its last byte and reads what was sent.
THEOREM FragmentsAreInvisible == Spec => []FragmentationInvisible
<1>1. ReaderInv /\ FragmentInv => FragmentationInvisible
  BY FragmentImplies
<1>2. Init /\ ReaderInv => FragmentInv
  BY FragmentInit
<1>3. ReaderInv /\ ReaderInv' /\ FragmentInv /\ [Next]_vars => FragmentInv'
  BY FragmentStep
<1> QED
  BY <1>1, <1>2, <1>3, ReaderInvariance, PTL DEF Spec

=============================================================================
