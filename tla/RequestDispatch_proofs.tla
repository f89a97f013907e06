----------------------- MODULE RequestDispatch_proofs -----------------------
(***************************************************************************)
(* Proofs about RequestDispatch: every request is answered exactly once,   *)
(* no handler runs after one that took it, and the dispatcher's use of the *)
(* response implements the specification of MessageWriter, so that what is *)
(* proved there holds of every response of the server.                     *)
(***************************************************************************)
EXTENDS RequestDispatch, MessageRecipient_proofs

\* The part of the state that the control of a request depends on.
ControlTypeOK ==
  /\ matching \in SUBSET (1..N)
  /\ pc \in {"scan", "after", "route", "await", "static", "file", "leave", "returned",
             "terminated"}
  /\ i \in 1..(N + 1)
  /\ handled \in BOOLEAN /\ served \in BOOLEAN /\ upgrade \in BOOLEAN
  /\ closed \in BOOLEAN /\ deleted \in BOOLEAN
  /\ refs \in SUBSET {"poll", "task"}

\* `handled` is set exactly when a handler has been entered, the callback holds
\* a reference until it returns, and the context lives until the last reference
\* goes, which closes the response if it was handled and deletes the context
\* unless the close ended the process.
LifetimeInv ==
  /\ pc = "scan" => ~handled
  /\ pc \in {"route", "await", "static", "file", "terminated"} => handled
  /\ pc \notin {"leave", "returned"} => ~served
  /\ pc \in {"leave", "returned"} => (served <=> ~handled /\ ~upgrade)
  /\ pc \notin {"returned", "terminated"} => "poll" \in refs
  /\ pc = "returned" => "poll" \notin refs
  /\ "task" \in refs => handled
  /\ deleted => refs = {}
  /\ refs = {} => deleted \/ pc = "terminated"
  /\ closed => refs = {} /\ handled
  /\ deleted /\ handled => closed
  /\ ~handled => wire = <<>>

\* No handler before the loop index matches, and only the one at it has run.
ScanInv ==
  /\ \A k \in 1..(i - 1) : k \notin matching
  /\ pc = "after" /\ ~handled => i <= N /\ i \notin matching
  /\ pc \in {"route", "await", "static", "file"} => i <= N
  /\ ran \subseteq {i} /\ ran \subseteq matching
  /\ handled <=> ran # {}

DispatchInv == ControlTypeOK /\ LifetimeInv /\ ScanInv

----------------------------------------------------------------------------

\* The number of handlers is a natural number.
LEMMA NType == N \in Nat
BY DispatchAssumption DEF N

\* A fresh context satisfies the invariant.
LEMMA DispatchInitInv == DispatchInit => DispatchInv
<1> SUFFICES ASSUME DispatchInit PROVE DispatchInv
  OBVIOUS
<1>1. ControlTypeOK
  <2>1. i \in 1..(N + 1)
    BY NType DEF DispatchInit
  <2>2. refs \in SUBSET {"poll", "task"}
    BY DEF DispatchInit
  <2> QED
    BY <2>1, <2>2 DEF DispatchInit, WriterInit, ControlTypeOK
<1>2. LifetimeInv
  BY DEF DispatchInit, WriterInit, LifetimeInv
<1>3. ScanInv
  BY DEF DispatchInit, ScanInv
<1> QED
  BY <1>1, <1>2, <1>3 DEF DispatchInv

\* The steps of Server::Handle between two handlers.
LEMMA ScanStepInv ==
  ASSUME DispatchInv,
         Skip \/ EnterHandler \/ AfterHandler \/ ServeStatic \/ LeaveHandshake
  PROVE  DispatchInv'
<1> USE NType, DispatchAssumption DEF DispatchInv, writerVars, request, N
<1>1. CASE Skip
  BY <1>1 DEF Skip, ControlTypeOK, LifetimeInv, ScanInv
<1>2. CASE EnterHandler
  <2>1. Handlers[i] \in {"route", "static"}
    BY <1>2 DEF EnterHandler, ControlTypeOK
  <2> QED
    BY <1>2, <2>1 DEF EnterHandler, ControlTypeOK, LifetimeInv, ScanInv
<1>3. CASE AfterHandler
  <2>1. CASE handled
    BY <1>3, <2>1 DEF AfterHandler, ControlTypeOK, LifetimeInv, ScanInv
  <2>2. CASE ~handled
    BY <1>3, <2>2 DEF AfterHandler, ControlTypeOK, LifetimeInv, ScanInv
  <2> QED
    BY <2>1, <2>2
<1>4. CASE ServeStatic
  BY <1>4 DEF ServeStatic, ControlTypeOK, LifetimeInv, ScanInv
<1>5. CASE LeaveHandshake
  BY <1>5 DEF LeaveHandshake, ControlTypeOK, LifetimeInv, ScanInv
<1> QED
  BY <1>1, <1>2, <1>3, <1>4, <1>5

\* The steps inside a handler.
LEMMA HandlerStepInv ==
  ASSUME DispatchInv,
         \/ RouteWrites \/ RouteReturns \/ RouteThrows \/ RouteStartsTask \/ FutureReady
         \/ StaticType \/ StaticFile \/ StaticMissing
  PROVE  DispatchInv'
<1> USE DEF DispatchInv, request
<1>1. CASE RouteWrites
  BY <1>1 DEF RouteWrites, WriteOne, Call, ControlTypeOK, LifetimeInv, ScanInv
<1>2. CASE RouteReturns
  BY <1>2 DEF RouteReturns, writerVars, ControlTypeOK, LifetimeInv, ScanInv
<1>3. CASE RouteThrows
  BY <1>3 DEF RouteThrows, Call, ControlTypeOK, LifetimeInv, ScanInv
<1>4. CASE RouteStartsTask
  BY <1>4 DEF RouteStartsTask, writerVars, ControlTypeOK, LifetimeInv, ScanInv
<1>5. CASE StaticType
  BY <1>5 DEF StaticType, Call, ControlTypeOK, LifetimeInv, ScanInv
<1>6. CASE StaticFile
  BY <1>6 DEF StaticFile, Call, ControlTypeOK, LifetimeInv, ScanInv
<1>7. CASE StaticMissing
  BY <1>7 DEF StaticMissing, writerVars, ControlTypeOK, LifetimeInv, ScanInv
<1>8. CASE FutureReady
  BY <1>8 DEF FutureReady, writerVars, ControlTypeOK, LifetimeInv, ScanInv
<1> QED
  BY <1>1, <1>2, <1>3, <1>4, <1>5, <1>6, <1>7, <1>8

\* The steps of the task and the deleter.
LEMMA LifetimeStepInv ==
  ASSUME DispatchInv,
         LeaveCallback \/ TaskWrites \/ TaskEnds
  PROVE  DispatchInv'
<1> USE DEF DispatchInv, request
<1>1. CASE LeaveCallback
  BY <1>1 DEF LeaveCallback, Release, CleanConnContext, CloseRaised, Close, writerVars,
              ControlTypeOK, LifetimeInv, ScanInv
<1>2. CASE TaskWrites
  BY <1>2 DEF TaskWrites, WriteOne, Call, dispatchVars, ControlTypeOK, LifetimeInv, ScanInv
<1>3. CASE TaskEnds
  BY <1>3 DEF TaskEnds, Alive, Release, CleanConnContext, CloseRaised, Close, writerVars,
              ControlTypeOK, LifetimeInv, ScanInv
<1> QED
  BY <1>1, <1>2, <1>3

\* Every step keeps the invariant.
LEMMA DispatchStepInv == DispatchInv /\ [DispatchNext]_vars => DispatchInv'
<1> SUFFICES ASSUME DispatchInv, [DispatchNext]_vars PROVE DispatchInv'
  OBVIOUS
<1>1. CASE UNCHANGED vars
  BY <1>1 DEF vars, dispatchVars, writerVars, DispatchInv, ControlTypeOK, LifetimeInv, ScanInv
<1>2. CASE DispatchNext
  BY <1>1, <1>2, ScanStepInv, HandlerStepInv, LifetimeStepInv
  DEF DispatchNext, PollStep, Finished
<1> QED
  BY <1>1, <1>2

----------------------------------------------------------------------------
(* Every step of the dispatcher is a step of the writer's client. *)

\* Every step of the dispatcher is a call of the writer's client or leaves the
\* writer alone.
LEMMA DispatchStepIsWriterStep ==
  DispatchInv /\ [DispatchNext]_vars => [WriterNext]_writerVars
<1> SUFFICES ASSUME DispatchInv, DispatchNext, ~UNCHANGED writerVars PROVE WriterNext
  BY DEF vars
<1> USE DEF DispatchInv, ControlTypeOK, LifetimeInv
<1>1. CASE RouteWrites
  BY <1>1 DEF RouteWrites, WriteOne, WriterNext, ClientSetStatus, ClientWriteHeader,
              ClientWritePayload
<1>2. CASE RouteThrows
  <2>1. ~closed /\ Call
    BY <1>2 DEF RouteThrows
  <2>2. \E s \in Statuses : SetStatus(s)
    BY <1>2, DispatchAssumption DEF RouteThrows
  <2> QED
    BY <2>1, <2>2 DEF WriterNext, ClientSetStatus
<1>3. CASE StaticType
  BY <1>3 DEF StaticType, WriterNext, ClientWriteHeader
<1>4. CASE StaticFile
  BY <1>4 DEF StaticFile, WriterNext, ClientWritePayload
<1>5. CASE TaskWrites
  BY <1>5 DEF TaskWrites, WriteOne, WriterNext, ClientSetStatus, ClientWriteHeader,
              ClientWritePayload
<1>6. CASE LeaveCallback \/ TaskEnds
  BY <1>6 DEF LeaveCallback, TaskEnds, Release, CleanConnContext, Alive, WriterNext,
              ClientClose
<1>7. ~(\/ Skip \/ EnterHandler \/ AfterHandler \/ ServeStatic \/ LeaveHandshake
        \/ RouteReturns \/ RouteStartsTask \/ FutureReady \/ StaticMissing
        \/ Finished)
  BY DEF Skip, EnterHandler, AfterHandler, ServeStatic, LeaveHandshake, RouteReturns,
         RouteStartsTask, FutureReady, StaticMissing, Finished, vars
<1> QED
  BY <1>1, <1>2, <1>3, <1>4, <1>5, <1>6, <1>7 DEF DispatchNext, PollStep

----------------------------------------------------------------------------
(* The variables that the control of a request does not depend on. *)

\* Their types.
RecordTypeOK ==
  /\ fileGood \in BOOLEAN /\ started \in BOOLEAN
  /\ thrown \in Statuses \cup {NoStatus}
  /\ declined \in SUBSET (1..N)

\* Every step keeps them; the declined handler is one of the chain.
LEMMA RecordStep ==
  DispatchInv /\ RecordTypeOK /\ [DispatchNext]_vars => RecordTypeOK'
<1> SUFFICES ASSUME DispatchInv, RecordTypeOK, [DispatchNext]_vars PROVE RecordTypeOK'
  OBVIOUS
<1> USE DEF RecordTypeOK, request
<1>1. CASE UNCHANGED vars
  BY <1>1 DEF vars, dispatchVars, N
<1>2. CASE Skip \/ EnterHandler \/ AfterHandler \/ ServeStatic \/ LeaveHandshake
  BY <1>2 DEF Skip, EnterHandler, AfterHandler, ServeStatic, LeaveHandshake, N
<1>3. CASE \/ RouteWrites \/ RouteReturns \/ RouteStartsTask \/ FutureReady
          \/ StaticType \/ StaticFile
  BY <1>3 DEF RouteWrites, RouteReturns, RouteStartsTask, FutureReady, StaticType, StaticFile, N
<1>4. CASE RouteThrows
  BY <1>4, DispatchAssumption DEF RouteThrows, N
<1>5. CASE StaticMissing
  <2>1. i \in 1..N
    BY <1>5, NType DEF StaticMissing, DispatchInv, ControlTypeOK, ScanInv
  <2> QED
    BY <1>5, <2>1 DEF StaticMissing, N
<1>6. CASE LeaveCallback \/ TaskWrites \/ TaskEnds
  BY <1>6 DEF LeaveCallback, TaskWrites, TaskEnds, dispatchVars, N
<1> QED
  BY <1>1, <1>2, <1>3, <1>4, <1>5, <1>6 DEF DispatchNext, PollStep, Finished

----------------------------------------------------------------------------
(* Theorems. *)

\* The inductive invariant holds throughout.
THEOREM DispatchInvariance == DispatchSpec => []DispatchInv
BY DispatchInitInv, DispatchStepInv, PTL DEF DispatchSpec

\* mg_serve_http is called at the end of the loop, where no handler has matched.
UnmatchedInv == served => matching \subseteq declined

\* Only ServeStatic sets `served`, and no step takes a declined handler back.
LEMMA UnmatchedStep == DispatchInv /\ UnmatchedInv /\ [DispatchNext]_vars => UnmatchedInv'
<1> SUFFICES ASSUME DispatchInv, UnmatchedInv, [DispatchNext]_vars PROVE UnmatchedInv'
  OBVIOUS
<1> USE DEF UnmatchedInv, request
<1>1. CASE UNCHANGED vars
  BY <1>1 DEF vars, dispatchVars
<1>2. CASE Skip \/ EnterHandler \/ AfterHandler \/ LeaveHandshake
  BY <1>2 DEF Skip, EnterHandler, AfterHandler, LeaveHandshake
<1>3. CASE ServeStatic
  <2>1. i - 1 >= N /\ N \in Nat /\ i \in Int
    BY <1>3, NType DEF ServeStatic, DispatchInv, ControlTypeOK
  <2>2. \A k \in 1..N : k \notin matching
    BY <2>1 DEF DispatchInv, ScanInv
  <2>3. matching = {}
    BY <2>2 DEF DispatchInv, ControlTypeOK
  <2> QED
    BY <1>3, <2>3 DEF ServeStatic
<1>4. CASE \/ RouteWrites \/ RouteReturns \/ RouteThrows \/ RouteStartsTask \/ FutureReady
          \/ StaticType \/ StaticFile \/ StaticMissing
  BY <1>4 DEF RouteWrites, RouteReturns, RouteThrows, RouteStartsTask, FutureReady,
              StaticType, StaticFile, StaticMissing
<1>5. CASE LeaveCallback \/ TaskWrites \/ TaskEnds
  BY <1>5 DEF LeaveCallback, TaskWrites, TaskEnds, dispatchVars
<1> QED
  BY <1>1, <1>2, <1>3, <1>4, <1>5 DEF DispatchNext, PollStep, Finished

LEMMA UnmatchedInvariance == DispatchSpec => []UnmatchedInv
<1>1. DispatchInit => UnmatchedInv
  BY DEF DispatchInit, UnmatchedInv
<1> QED
  BY <1>1, UnmatchedStep, DispatchInvariance, PTL DEF DispatchSpec

\* Every request is answered exactly once, by mg_serve_http or by the response
\* that CleanConnContext closes, for any handlers, any request and any task.
THEOREM RequestAnsweredOnce == DispatchSpec => []AnsweredExactlyOnce
<1>1. DispatchInv => AnsweredExactlyOnce
  BY DEF DispatchInv, ControlTypeOK, LifetimeInv, ScanInv, AnsweredExactlyOnce
<1> QED
  BY DispatchInvariance, <1>1, PTL

\* Server::Handle runs no handler behind a matching one that has not declined, and
\* mg_serve_http answers no request that a matching handler has not declined, for
\* any chain of handlers.
THEOREM NoHandlerAfterHandled == DispatchSpec => []NoneAfterHandled
<1>1. ASSUME DispatchInv, NEW h \in ran
      PROVE  h \in matching /\ \A k \in 1..(h - 1) : k \in matching => k \in declined
  BY <1>1 DEF DispatchInv, ScanInv
<1>2. DispatchInv /\ UnmatchedInv => NoneAfterHandled
  <2> SUFFICES ASSUME DispatchInv, UnmatchedInv, served PROVE matching \subseteq declined
    BY <1>1, Zenon DEF NoneAfterHandled
  <2> QED
    BY DEF UnmatchedInv
<1> QED
  BY DispatchInvariance, UnmatchedInvariance, <1>2, PTL

\* The server implements the client of the response writer: Done is called once,
\* after every other call, whichever thread drops the last reference.
THEOREM DispatchImplementsWriter == DispatchSpec => WriterProtocol
<1>1. DispatchInit => WriterInit
  BY DEF DispatchInit
<1> QED
  BY <1>1, DispatchInvariance, DispatchStepIsWriterStep, PTL
  DEF DispatchSpec, WriterProtocol, WriterSpec

\* The dispatcher's state keeps its types, the writer's state included, for every
\* chain of handlers.
THEOREM DispatchTypeCorrect == DispatchSpec => []DispatchTypeOK
<1>1. DispatchInit => RecordTypeOK
  BY DEF DispatchInit, RecordTypeOK
<1>2. DispatchSpec => []RecordTypeOK
  BY <1>1, RecordStep, DispatchInvariance, PTL DEF DispatchSpec
<1>3. DispatchSpec => []WriterTypeOK
  BY DispatchImplementsWriter, WriterTypeCorrect, PTL DEF WriterProtocol
<1>4. DispatchInv /\ RecordTypeOK /\ WriterTypeOK => DispatchTypeOK
  <2> SUFFICES ASSUME DispatchInv, RecordTypeOK, WriterTypeOK PROVE DispatchTypeOK
    OBVIOUS
  <2>1. ran \in SUBSET (1..N)
    BY DEF DispatchInv, ControlTypeOK, ScanInv
  <2> QED
    BY <2>1 DEF DispatchInv, ControlTypeOK, RecordTypeOK, DispatchTypeOK
<1> QED
  BY <1>2, <1>3, <1>4, DispatchInvariance, PTL

\* What is proved of the writer holds of every response the server sends.
THEOREM ResponsesWellFormed ==
  DispatchSpec => [](HeadPrecedesBody /\ ContentLengthIsPayload)
BY DispatchImplementsWriter, WriterHeadPrecedesBody, WriterContentLength, PTL
DEF WriterProtocol

\* Whatever the handlers and their tasks write, in whatever order, a recipient reads
\* from the wire of each closed response what was written, in every framing whose
\* coding the client announces as it set it.
THEOREM ServedResponsesRead == DispatchSpec => []RecipientReadsPayload
BY DispatchImplementsWriter, RecipientReads, PTL DEF WriterProtocol

=============================================================================
