------------------------- MODULE CefResponse_proofs -------------------------
(***************************************************************************)
(* Proofs about CefResponse: its state keeps its types, CEF is told once   *)
(* to read the headers, and what it takes as complete is whole, for any    *)
(* number of blocks and any size of CEF's buffer.                          *)
(***************************************************************************)
EXTENDS CefResponse, TLAPS

\* Who has told CEF to go on.  ProcessRequest leaves headersReady set, which is
\* harmless only because it calls Continue when no writer is left.
HeadInv ==
  /\ state = "head" => headersReady
  /\ io \in {"handler", "enter", "store", "count"} /\ headersReady => headGo = 0
  /\ headersReady /\ headGo > 0 => LastRef
  /\ ~headersReady => state = "body" /\ headGo = 1
  /\ headGo <= 1

\* The blocks that the handler and the task have accepted and not yet stored.
OneIf(b) == IF b THEN 1 ELSE 0
InHand == OneIf(task \in {"enter", "store"}) + OneIf(io \in {"enter", "store"})

\* Where the accepted blocks are.  The stream is bad only between read and
\* clear; up to the first overlap every block is in the stream or in a writer's
\* hand, and a ReadResponse that has read nothing has left nothing behind.  CEF
\* never gets more than the length, and reads only while something is missing.
BodyInv ==
  /\ delivered <= stored /\ stored + InHand <= accepted
  /\ ~good => io = "clear"
  /\ ~overlapped /\ io # "undefined" => stored + InHand = accepted
  /\ io = "last" => n = 0
  /\ io \in {"clear", "arm", "last"} /\ n = 0 /\ ~overlapped => delivered = stored
  /\ io \in {"handler", "enter", "store", "count", "headers"} => delivered = 0
  /\ io \in {"read", "last", "wait"} => delivered < length
  /\ io \in {"clear", "arm"} => delivered <= length /\ (n = 0 => delivered < length)
  /\ io = "complete" =>
       \/ LastRef /\ (~overlapped => delivered = stored)
       \/ delivered = length

CefInv == CefTypeOK /\ HeadInv /\ BodyInv

\* The two parts of CefTypeOK, flags and the rest, since no prover does both.
FlagsOK ==
  /\ headersReady \in BOOLEAN /\ dataReady \in BOOLEAN /\ dataGo \in BOOLEAN
  /\ good \in BOOLEAN /\ overlapped \in BOOLEAN

PlacesOK ==
  /\ io \in {"handler", "enter", "store", "count", "headers", "read", "clear", "arm",
             "last", "wait", "complete", "cancelled", "terminated", "undefined"}
  /\ task \in {"none", "run", "enter", "store", "test", "continue", "clear", "gone"}
  /\ state \in {"head", "body"} /\ headGo \in Nat /\ length \in 0..Unknown
  /\ accepted \in 0..MaxWrites /\ stored \in 0..MaxWrites /\ delivered \in 0..MaxWrites
  /\ n \in 0..Window

----------------------------------------------------------------------------

\* What Body().read returns: no more than is there, no more than CEF's buffer
\* holds, and nothing only if there is nothing.
LEMMA ReadCount ==
  ASSUME NEW a \in Nat, NEW b \in Nat \ {0}
  PROVE  /\ Min({a, b}) \in 0..b
         /\ Min({a, b}) <= a
         /\ Min({a, b}) = 0 => a = 0
<1>1. \E x \in {a, b} : \A y \in {a, b} : x <= y
  <2>1. CASE a <= b
    BY <2>1
  <2>2. CASE ~(a <= b)
    BY <2>2
  <2> QED
    BY <2>1, <2>2
<1>2. Min({a, b}) \in {a, b} /\ \A y \in {a, b} : Min({a, b}) <= y
  BY <1>1 DEF Min
<1> QED
  BY <1>2

\* CEF asks for something, and for no more than the length leaves.
LEMMA AskedSome ==
  ASSUME PlacesOK, io = "read", BodyInv
  PROVE  /\ Asked \in 1..Window
         /\ length # Unknown => delivered + Asked <= length
<1>1. length \in Nat /\ delivered \in Nat /\ delivered < length
  BY CefAssumption DEF PlacesOK, BodyInv, Unknown
<1>2. CASE length = Unknown
  BY <1>2, CefAssumption DEF Asked
<1>3. CASE length # Unknown
  <2>1. length - delivered \in Nat /\ length - delivered # 0
    BY <1>1
  <2>2. /\ Min({length - delivered, Window}) \in 0..Window
        /\ Min({length - delivered, Window}) <= length - delivered
        /\ Min({length - delivered, Window}) # 0
    BY <2>1, ReadCount, CefAssumption
  <2> QED
    BY <1>1, <1>3, <2>2, CefAssumption DEF Asked
<1> QED
  BY <1>2, <1>3

\* Reading k of at most a blocks does not exceed the length.
LEMMA ReadWithin ==
  ASSUME NEW d \in Nat, NEW k \in Nat, NEW a \in Nat, NEW l \in Nat,
         k <= a, d + a <= l, d < l
  PROVE  d + k <= l /\ (k = 0 => d + k < l)
OBVIOUS

\* A block goes from a writer's hand into the stream, or is lost.
LEMMA BlockMoves ==
  ASSUME NEW d \in Nat, NEW s \in Nat, NEW h \in Nat, NEW a \in Nat,
         d <= s, s + (h + 1) <= a
  PROVE  d <= s + 1 /\ (s + 1) + h <= a /\ s + h <= a
OBVIOUS

LEMMA SameSum ==
  ASSUME NEW s \in Nat, NEW h \in Nat
  PROVE  s + (h + 1) = (s + 1) + h
OBVIOUS

\* Fewer blocks in hand are still no more than were accepted.
LEMMA FewerInHand ==
  ASSUME NEW s \in Nat, NEW h \in Nat, NEW k \in Nat, NEW a \in Nat, k <= h, s + h <= a
  PROVE  s + k <= a
OBVIOUS

\* The flags are only ever assigned truth values.
LEMMA FlagsStep ==
  ASSUME FlagsOK, Next
  PROVE  FlagsOK'
<1> USE DEF FlagsOK, headVars, wakeVars, bodyVars
<1>1. CASE HandlerNext
  BY <1>1, Zenon DEF HandlerNext, StartTask, HandlerWrites, HandlerEnters, HandlerStores,
                       HandlerThrows, HandlerReturns, CallWrite, EnterBody, Store
<1>2. CASE TaskWrites \/ TaskEnters \/ TaskStores
  BY <1>2, Zenon DEF TaskWrites, TaskEnters, TaskStores, CallWrite, EnterBody, Store
<1>3. CASE TaskTests \/ TaskContinues \/ TaskClears \/ TaskDrops
  BY <1>3, Zenon DEF TaskTests, TaskContinues, TaskClears, TaskDrops
<1>4. CASE CountRefs \/ GetResponseHeaders \/ TestRefs \/ Wake
  BY <1>4, Zenon DEF CountRefs, GetResponseHeaders, TestRefs, Wake
<1>5. CASE ReadBody \/ ClearBody \/ ArmCallback
  BY <1>5, Zenon DEF ReadBody, ClearBody, ArmCallback
<1>6. CASE Cancel \/ Torn
  BY <1>6, Zenon DEF Cancel, Torn
<1> QED
  BY <1>1, <1>2, <1>3, <1>4, <1>5, <1>6 DEF Next, TaskNext, IoNext

\* The parts together are CefTypeOK.
LEMMA TypeParts == (CefTypeOK <=> PlacesOK /\ FlagsOK) /\ (CefTypeOK <=> PlacesOK /\ FlagsOK)'
BY Zenon DEF CefTypeOK, PlacesOK, FlagsOK

\* The initial state satisfies the invariant.
LEMMA CefInitInv ==
  ASSUME Init
  PROVE  CefInv
<1>1. CefTypeOK
  <2>1. PlacesOK
    BY CefAssumption DEF Init, PlacesOK, Unknown
  <2>2. FlagsOK
    BY Zenon DEF Init, FlagsOK
  <2> QED
    BY <2>1, <2>2, TypeParts
<1>2. HeadInv
  BY DEF Init, HeadInv
<1>3. BodyInv
  BY DEF Init, BodyInv, InHand, OneIf
<1> QED
  BY <1>1, <1>2, <1>3 DEF CefInv

\* Steps of the handler and of the task.
LEMMA WriterInv ==
  ASSUME CefInv, HandlerNext \/ TaskNext
  PROVE  CefInv'
<1> USE CefAssumption
    DEF CefInv, headVars, wakeVars, bodyVars, IoGoes, TaskGoes, Alive
<1> DEFINE Quiet == \/ StartTask \/ HandlerThrows \/ HandlerReturns \/ TaskTests
                    \/ TaskContinues \/ TaskClears \/ TaskDrops
<1>1. PlacesOK'
  <2> USE TypeParts
  <2>1. CASE HandlerWrites \/ TaskWrites
    BY <2>1 DEF HandlerWrites, TaskWrites, CallWrite, PlacesOK
  <2>2. CASE HandlerEnters \/ TaskEnters
    BY <2>2 DEF HandlerEnters, TaskEnters, EnterBody, PlacesOK
  <2>3. CASE HandlerStores
    BY <2>3 DEF HandlerStores, Store, PlacesOK, BodyInv, InHand, OneIf
  <2>4. CASE TaskStores
    BY <2>4 DEF TaskStores, Store, PlacesOK, BodyInv, InHand, OneIf
  <2>5. CASE Quiet
    BY <2>5 DEF StartTask, HandlerThrows, HandlerReturns, TaskTests, TaskContinues,
                TaskClears, TaskDrops, PlacesOK
  <2> QED
    BY <2>1, <2>2, <2>3, <2>4, <2>5 DEF HandlerNext, TaskNext
<1>2. HeadInv'
  <2>1. CASE HandlerEnters \/ TaskEnters
    BY <2>1 DEF HandlerEnters, TaskEnters, EnterBody, HeadInv, LastRef, CefTypeOK
  <2>2. CASE HandlerWrites \/ TaskWrites \/ HandlerStores \/ TaskStores
    BY <2>2 DEF HandlerWrites, TaskWrites, CallWrite, HandlerStores, TaskStores, Store,
                HeadInv, LastRef, CefTypeOK
  <2>3. CASE Quiet
    BY <2>3 DEF StartTask, HandlerThrows, HandlerReturns, TaskTests, TaskContinues,
                TaskClears, TaskDrops, HeadInv, LastRef, CefTypeOK
  <2> QED
    BY <2>1, <2>2, <2>3 DEF HandlerNext, TaskNext
<1>3. BodyInv'
  <2>1. CASE HandlerWrites
    <3>1. /\ InHand' = InHand + 1 /\ accepted' = accepted + 1 /\ io' = "enter"
          /\ io = "handler"
          /\ UNCHANGED <<task, length, good, stored, delivered, overlapped, n>>
      BY <2>1 DEF HandlerWrites, CallWrite, InHand, OneIf
    <3> QED
      BY <3>1 DEF BodyInv, CefTypeOK, InHand, OneIf
  <2>2. CASE TaskWrites
    <3>1. /\ InHand' = InHand + 1 /\ accepted' = accepted + 1 /\ ~LastRef
          /\ UNCHANGED <<io, length, good, stored, delivered, overlapped, n>>
      BY <2>2 DEF TaskWrites, CallWrite, InHand, OneIf, LastRef
    <3> QED
      BY <3>1 DEF BodyInv, CefTypeOK, InHand, OneIf
  <2>3. CASE HandlerStores
    <3>1. /\ InHand = InHand' + 1 /\ InHand' \in {0, 1}
          /\ io = "store" /\ io' = "handler" /\ good
          /\ UNCHANGED <<n, good, delivered, accepted, length, overlapped>>
          /\ stored' = stored + 1
      BY <2>3 DEF HandlerStores, Store, InHand, OneIf, BodyInv
    <3>2. /\ stored \in Nat /\ accepted \in Nat /\ delivered \in Nat /\ InHand' \in Nat
          /\ delivered = 0
      BY <3>1, TypeParts DEF PlacesOK, BodyInv
    <3>3. /\ delivered <= stored /\ stored + (InHand' + 1) <= accepted
          /\ ~overlapped => stored + (InHand' + 1) = accepted
      BY <3>1 DEF BodyInv
    <3>5. delivered <= stored + 1 /\ (stored + 1) + InHand' <= accepted
      BY <3>2, <3>3, BlockMoves
    <3>6. stored + (InHand' + 1) = (stored + 1) + InHand'
      BY <3>2, SameSum
    <3>4. /\ delivered' <= stored' /\ stored' + InHand' <= accepted'
          /\ ~overlapped' => stored' + InHand' = accepted'
      BY <3>1, <3>3, <3>5, <3>6
    <3> QED
      BY <3>1, <3>2, <3>4 DEF BodyInv
  <2>4. CASE TaskStores
    <3>1. /\ InHand = InHand' + 1 /\ InHand' \in {0, 1}
          /\ io' = io /\ ~LastRef
          /\ UNCHANGED <<n, good, delivered, accepted, length>>
          /\ stored' = IF good THEN stored + 1 ELSE stored
      BY <2>4 DEF TaskStores, Store, InHand, OneIf, LastRef
    <3>2. ~overlapped' => ~overlapped /\ io \notin {"clear", "arm", "last"}
      BY <2>4, Zenon DEF TaskStores
    <3>3. stored \in Nat /\ accepted \in Nat /\ delivered \in Nat /\ InHand' \in Nat
      BY <3>1, TypeParts DEF PlacesOK
    <3>4. /\ delivered <= stored /\ stored + (InHand' + 1) <= accepted
          /\ ~overlapped /\ io # "undefined" => stored + (InHand' + 1) = accepted
      BY <3>1 DEF BodyInv
    <3>5. delivered' <= stored' /\ stored' + InHand' <= accepted'
      BY <3>1, <3>3, <3>4, BlockMoves
    <3>6. ~overlapped' => stored' = stored + 1
      BY <3>1, <3>2 DEF BodyInv
    <3>7. ~overlapped' /\ io' # "undefined" => stored' + InHand' = accepted'
      <4>1. stored + (InHand' + 1) = (stored + 1) + InHand'
        BY <3>3, SameSum
      <4> QED
        BY <3>1, <3>2, <3>4, <3>6, <4>1
    <3>8. io' = "complete" => delivered' = length'
      BY <3>1 DEF BodyInv
    <3> QED
      BY <3>1, <3>2, <3>5, <3>7, <3>8 DEF BodyInv
  <2>5. CASE StartTask
    <3>1. /\ InHand' = InHand /\ io = "handler"
          /\ UNCHANGED <<io, n, length, good, accepted, stored, delivered, overlapped>>
      BY <2>5 DEF StartTask, InHand, OneIf
    <3> QED
      BY <3>1 DEF BodyInv, CefTypeOK
  <2>6. CASE \/ HandlerThrows \/ HandlerReturns \/ HandlerEnters
    <3>1. /\ InHand' = InHand
          /\ io \in {"handler", "enter"} /\ io' \in {"terminated", "count", "store"}
          /\ UNCHANGED <<n, length, good, accepted, stored, delivered, overlapped>>
      BY <2>6 DEF HandlerThrows, HandlerReturns, HandlerEnters, EnterBody, InHand, OneIf
    <3> QED
      BY <3>1 DEF BodyInv, CefTypeOK
  <2>7. CASE \/ TaskTests \/ TaskContinues \/ TaskClears \/ TaskDrops \/ TaskEnters
    <3>1. /\ InHand' = InHand /\ ~LastRef
          /\ UNCHANGED <<io, n, length, good, accepted, stored, delivered, overlapped>>
      BY <2>7 DEF TaskTests, TaskContinues, TaskClears, TaskDrops, TaskEnters, EnterBody,
                  InHand, OneIf, LastRef
    <3> QED
      BY <3>1 DEF BodyInv, CefTypeOK
  <2> QED
    BY <2>1, <2>2, <2>3, <2>4, <2>5, <2>6, <2>7 DEF HandlerNext, TaskNext
<1>4. FlagsOK'
  BY FlagsStep, TypeParts DEF Next
<1> QED
  BY <1>1, <1>2, <1>3, <1>4, TypeParts

\* Steps of CEF's IO thread.
LEMMA IoInv ==
  ASSUME CefInv, IoNext \/ Cancel \/ Torn
  PROVE  CefInv'
<1> USE CefAssumption
    DEF CefInv, headVars, wakeVars, bodyVars, IoGoes
<1>0. FlagsOK'
  BY FlagsStep, TypeParts DEF Next
<1>1. CASE ReadBody
  <2>1. /\ Asked \in 1..Window
        /\ length # Unknown => delivered + Asked <= length
    BY <1>1, AskedSome, TypeParts DEF ReadBody
  <2>2. stored - delivered \in Nat
    BY DEF CefTypeOK, BodyInv
  <2>3. /\ n' \in 0..Asked
        /\ n' <= stored - delivered
        /\ n' = 0 => stored - delivered = 0
    BY <1>1, <2>1, <2>2, ReadCount DEF ReadBody
  <2>4. /\ delivered' = delivered + n' /\ delivered' \in 0..MaxWrites
        /\ delivered' <= stored /\ n' \in 0..Window
    BY <1>1, <2>1, <2>2, <2>3 DEF ReadBody, CefTypeOK
  <2>5. delivered' <= length /\ (n' = 0 => delivered' < length)
    <3>1. delivered < length
      BY <1>1 DEF ReadBody, BodyInv
    <3>2. CASE length = Unknown
      BY <2>4, <3>2 DEF Unknown
    <3>3. CASE length # Unknown
      <4>1. delivered \in Nat /\ length \in Nat
        BY TypeParts DEF PlacesOK, Unknown
      <4>2. n' \in Nat /\ Asked \in Nat /\ n' <= Asked /\ delivered + Asked <= length
        BY <2>1, <2>3, <3>3
      <4> QED
        BY <2>4, <3>1, <4>1, <4>2, ReadWithin
    <3> QED
      BY <3>2, <3>3
  <2>6. CefTypeOK'
    <3>1. PlacesOK'
      BY <1>1, <2>4, TypeParts DEF ReadBody, PlacesOK
    <3> QED
      BY <1>0, <3>1, TypeParts
  <2>7. HeadInv'
    BY <1>1 DEF ReadBody, HeadInv, LastRef
  <2>8. BodyInv'
    BY <1>1, <2>2, <2>3, <2>4, <2>5 DEF ReadBody, BodyInv, InHand, OneIf, CefTypeOK
  <2> QED
    BY <2>6, <2>7, <2>8
<1>2. CASE CountRefs
  <2>1. CefTypeOK' /\ HeadInv'
    BY <1>2 DEF CountRefs, CefTypeOK, HeadInv, LastRef
  <2>2. BodyInv'
    BY <1>2 DEF CountRefs, CefTypeOK, BodyInv, InHand, OneIf
  <2> QED
    BY <2>1, <2>2
<1>3. CASE GetResponseHeaders \/ ClearBody \/ ArmCallback \/ TestRefs \/ Wake \/ Cancel
           \/ Torn
  <2> USE DEF GetResponseHeaders, ClearBody, ArmCallback, TestRefs, Wake, Cancel, Torn
  <2>1. PlacesOK'
    BY <1>3, TypeParts DEF PlacesOK
  <2>2. HeadInv'
    BY <1>3 DEF HeadInv, LastRef
  <2>3. BodyInv'
    <3>1. CASE GetResponseHeaders
      BY <3>1 DEF BodyInv, InHand, OneIf, CefTypeOK, Unknown
    <3>2. CASE ClearBody \/ ArmCallback
      BY <3>2 DEF BodyInv, InHand, OneIf, LastRef, CefTypeOK, Unknown
    <3>3. CASE TestRefs \/ Wake \/ Cancel
      BY <3>3 DEF BodyInv, InHand, OneIf, LastRef, CefTypeOK
    <3>4. CASE Torn
      <4>1. InHand' <= InHand /\ InHand' \in Nat /\ InHand \in Nat
        BY <3>4 DEF InHand, OneIf
      <4>2. stored \in Nat /\ accepted \in Nat
        BY TypeParts DEF PlacesOK
      <4>3. stored + InHand <= accepted
        BY DEF BodyInv
      <4>5. stored' + InHand' <= accepted'
        BY <3>4, <4>1, <4>2, <4>3, FewerInHand
      <4>4. io' = "undefined" /\ io # "clear"
            /\ UNCHANGED <<n, length, good, delivered, stored, overlapped>>
        BY <3>4
      <4> QED
        BY <4>4, <4>5 DEF BodyInv
    <3> QED
      BY <1>3, <3>1, <3>2, <3>3, <3>4
  <2> QED
    BY <2>1, <2>2, <2>3, <1>0, TypeParts
<1> QED
  BY <1>1, <1>2, <1>3 DEF IoNext

\* Every step of the two threads preserves the inductive invariant.
THEOREM CefInvariance == Spec => []CefInv
<1>1. Init => CefInv
  BY CefInitInv
<1>2. CefInv /\ [Next]_vars => CefInv'
  <2>1. CefInv /\ Next => CefInv'
    BY WriterInv, IoInv DEF Next
  <2>2. CefInv /\ UNCHANGED vars => CefInv'
    BY DEF CefInv, CefTypeOK, HeadInv, BodyInv, InHand, OneIf, LastRef, vars, headVars, wakeVars,
           bodyVars
  <2> QED
    BY <2>1, <2>2
<1> QED
  BY <1>1, <1>2, PTL DEF Spec

----------------------------------------------------------------------------

\* Types: no interleaving of ReadResponse with the writers makes a count negative
\* or larger than the number of blocks accepted.
THEOREM CefTypeCorrect == Spec => []CefTypeOK
<1>1. CefInv => CefTypeOK
  BY DEF CefInv
<1> QED
  BY CefInvariance, <1>1, PTL

\* CEF is told once to read the headers, when payload has been written or the last
\* writer is gone, whichever of SetState and ProcessRequest comes first.
THEOREM HeadersReadOnce == Spec => []HeadersReadWhenDone
<1>1. CefInv => HeadersReadWhenDone
  BY DEF CefInv, CefTypeOK, HeadInv, HeadersReadWhenDone
<1> QED
  BY CefInvariance, <1>1, PTL

\* A response CEF takes as complete is the whole response, unless a block was
\* stored in the middle of a ReadResponse, or more was written than announced.
THEOREM CompleteMeansWhole == Spec => []CompleteIsWhole
<1>1. CefInv => CompleteIsWhole
  BY DEF CefInv, CefTypeOK, BodyInv, InHand, OneIf, LastRef, CompleteIsWhole
<1> QED
  BY CefInvariance, <1>1, PTL

=============================================================================
