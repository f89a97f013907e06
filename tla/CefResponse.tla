---------------------------- MODULE CefResponse ----------------------------
(***************************************************************************)
(* One response of the CEF server: a handler, and perhaps a task it passes *)
(* its ConnContextRef to, fill the response's memory, and CEF reads it     *)
(* through the callbacks of ResourceHandler (src/cef/server.cc,            *)
(* src/cef/connContext.h, src/http/outgoing/Response.cc).                  *)
(*                                                                         *)
(* The callbacks and the handler run on CEF's IO thread, the task on its   *)
(* own, as soon as the handler has started it.  ReadResponse holds         *)
(* payloadWrite, but no writer takes that mutex, so a step here is one     *)
(* access of the shared stream or of a callback pointer.  Where two        *)
(* unprotected accesses of one object meet the behaviour is undefined      *)
(* (Torn).                                                                 *)
(*                                                                         *)
(* CEF calls ReadResponse until it returns false, or until it has got the  *)
(* response_length of GetResponseHeaders: the Content-Length header, if    *)
(* the program has set one by then.                                        *)
(*                                                                         *)
(* Nothing sets the state FINISHED: OMessage::Done is empty, and the       *)
(* deleter cannot run while ResourceHandler holds `ctx`.                   *)
(***************************************************************************)
EXTENDS Naturals, FiniteSetsExt

CONSTANTS
  MaxWrites,  \* bound: blocks written to one response
  Window      \* blocks that fit into CEF's buffer

ASSUME CefAssumption == MaxWrites \in Nat /\ Window \in Nat \ {0}

VARIABLES
  io,            \* where the IO thread is
  task,          \* where the task is
  state,         \* "head" up to MessageState::HEADERS, then "body"
  headersReady,  \* the callback pointer is set
  dataReady,     \* the callback pointer is set
  headGo,        \* how often CEF was told to go on with the headers
  dataGo,        \* CEF was told to go on reading
  length,        \* response_length, or Unknown
  good,          \* Body().good()
  accepted,      \* blocks for which WritePayloadData was called
  stored,        \* blocks that went into Body()
  delivered,     \* blocks CEF has got
  n,             \* bytes_read of the current ReadResponse
  overlapped     \* history: a task stored a block during a ReadResponse that
                 \* had already read

headVars == <<state, headersReady, headGo, length>>
wakeVars == <<dataReady, dataGo>>
bodyVars == <<good, accepted, stored, delivered, overlapped>>
vars == <<io, task, headVars, wakeVars, bodyVars, n>>

\* ContentLength() is (size_t)-1: there is no such header.
Unknown == MaxWrites + 1

\* ProcessRequest has created the context and set headersReady.
Init ==
  /\ io = "handler" /\ task = "none"
  /\ state = "head" /\ headersReady = TRUE /\ headGo = 0 /\ length = Unknown
  /\ dataReady = FALSE /\ dataGo = FALSE
  /\ good = TRUE /\ accepted = 0 /\ stored = 0 /\ delivered = 0
  /\ n = 0 /\ overlapped = FALSE

Alive == io \notin {"terminated", "undefined"}
IoGoes(from, to) == io = from /\ io' = to
TaskGoes(from, to) == Alive /\ task = from /\ task' = to

\* ctx.use_count() = 1
LastRef == task \in {"none", "gone"}

----------------------------------------------------------------------------
(* Writing.  The handler and the task may each be inside a call of         *)
(* WritePayloadData.                                                       *)

\* The handler passes a copy of its reference to a task.
StartTask ==
  /\ io = "handler" /\ task = "none" /\ task' = "run"
  /\ UNCHANGED <<io, headVars, wakeVars, bodyVars, n>>

CallWrite ==
  /\ accepted < MaxWrites /\ accepted' = accepted + 1
  /\ UNCHANGED <<headVars, wakeVars, good, stored, delivered, overlapped, n>>

HandlerWrites == IoGoes("handler", "enter") /\ CallWrite /\ UNCHANGED task
TaskWrites == TaskGoes("run", "enter") /\ CallWrite /\ UNCHANGED io

\* SetState(BODY), the first part of WritePayloadData.
EnterBody ==
  /\ state' = "body"
  /\ IF state = "head" /\ headersReady
     THEN headGo' = headGo + 1 /\ headersReady' = FALSE
     ELSE UNCHANGED <<headGo, headersReady>>
  /\ UNCHANGED <<length, wakeVars, bodyVars, n>>

HandlerEnters == IoGoes("enter", "store") /\ EnterBody /\ UNCHANGED task
TaskEnters == TaskGoes("enter", "store") /\ EnterBody /\ UNCHANGED io

\* Body().write stores nothing in a stream that is not good.
Store ==
  /\ stored' = IF good THEN stored + 1 ELSE stored
  /\ UNCHANGED <<headVars, wakeVars, good, accepted, delivered, n>>

\* dataReady has not been set before the first ReadResponse.
HandlerStores ==
  /\ IoGoes("store", "handler") /\ Store
  /\ UNCHANGED <<task, overlapped>>

TaskStores ==
  /\ TaskGoes("store", "test") /\ Store
  /\ overlapped' = (overlapped \/ io \in {"clear", "arm", "last"})
  /\ UNCHANGED io

\* Handler::Handle is called directly: nobody catches a HandlerException.
HandlerThrows ==
  /\ IoGoes("handler", "terminated")
  /\ UNCHANGED <<task, headVars, wakeVars, bodyVars, n>>

HandlerReturns ==
  /\ IoGoes("handler", "count")
  /\ UNCHANGED <<task, headVars, wakeVars, bodyVars, n>>

\* `if (dataReady)`
TaskTests ==
  /\ TaskGoes("test", IF dataReady THEN "continue" ELSE "run")
  /\ UNCHANGED <<io, headVars, wakeVars, bodyVars, n>>

\* Mutant: the callback is reset and never used.
TaskContinues_Not ==
  /\ TaskGoes("continue", "clear")
  /\ UNCHANGED <<io, headVars, wakeVars, bodyVars, n>>

\* `dataReady->Continue()`
TaskContinues ==
  /\ TaskGoes("continue", "clear")
  /\ dataGo' = TRUE
  /\ UNCHANGED <<io, headVars, dataReady, bodyVars, n>>

\* `dataReady = 0`
TaskClears ==
  /\ TaskGoes("clear", "run")
  /\ dataReady' = FALSE
  /\ UNCHANGED <<io, headVars, dataGo, bodyVars, n>>

\* The task's reference goes away; ResourceHandler still has its own.
TaskDrops ==
  /\ TaskGoes("run", "gone")
  /\ UNCHANGED <<io, headVars, wakeVars, bodyVars, n>>

----------------------------------------------------------------------------
(* The callbacks of ResourceHandler. *)

\* Mutants: the task's reference is not looked at; a handler that wrote no
\* payload is forgotten.
CountRefs_IgnoresTask ==
  /\ IoGoes("count", "headers")
  /\ headGo' = IF headersReady THEN headGo + 1 ELSE headGo
  /\ UNCHANGED <<task, state, headersReady, length, wakeVars, bodyVars, n>>

CountRefs_NoContinue ==
  /\ IoGoes("count", "headers")
  /\ UNCHANGED <<task, headVars, wakeVars, bodyVars, n>>

\* The end of ProcessRequest.
CountRefs ==
  /\ IoGoes("count", "headers")
  /\ headGo' = IF LastRef /\ headersReady THEN headGo + 1 ELSE headGo
  /\ UNCHANGED <<task, state, headersReady, length, wakeVars, bodyVars, n>>

\* CEF calls GetResponseHeaders and, unless that tells it there is nothing to
\* read, ReadResponse.
GetResponseHeaders ==
  /\ io = "headers" /\ headGo > 0
  /\ length' \in 0..Unknown
  /\ io' = IF length' = 0 THEN "complete" ELSE "read"
  /\ UNCHANGED <<task, state, headersReady, headGo, wakeVars, bodyVars, n>>

\* bytes_to_read
Asked == IF length = Unknown THEN Window ELSE Min({length - delivered, Window})

\* Mutant: bytes_read is the size of CEF's buffer, not gcount().
ReadBody_Full ==
  /\ IoGoes("read", "clear")
  /\ n' = Asked
  /\ delivered' = delivered + n'
  /\ good' = TRUE
  /\ UNCHANGED <<task, headVars, wakeVars, accepted, stored, overlapped>>

\* ReadResponse: Body().read, which leaves the stream bad when there is less
\* than CEF asked for ...
ReadBody ==
  /\ IoGoes("read", "clear")
  /\ n' = Min({stored - delivered, Asked})
  /\ delivered' = delivered + n'
  /\ good' = (n' = Asked)
  /\ UNCHANGED <<task, headVars, wakeVars, accepted, stored, overlapped>>

\* ... Body().clear() ...
ClearBody ==
  /\ IoGoes("clear", "arm")
  /\ good' = TRUE
  /\ UNCHANGED <<task, headVars, wakeVars, accepted, stored, delivered, overlapped, n>>

\* ... dataReady is set if nothing was read; else CEF asks for more, if there is
\* more to come ...
ArmCallback ==
  /\ IoGoes("arm", IF n = 0 THEN "last"
                   ELSE IF delivered = length THEN "complete" ELSE "read")
  /\ dataReady' = (n = 0)
  /\ UNCHANGED <<task, headVars, dataGo, bodyVars, n>>

\* Mutant: a response with nothing to read is taken as complete.
TestRefs_Always ==
  /\ IoGoes("last", "complete")
  /\ UNCHANGED <<task, headVars, wakeVars, bodyVars, n>>

\* ... and the response is complete if nobody else holds the context.
TestRefs ==
  /\ IoGoes("last", IF LastRef THEN "complete" ELSE "wait")
  /\ UNCHANGED <<task, headVars, wakeVars, bodyVars, n>>

\* The callback was called: ReadResponse once more.
Wake ==
  /\ IoGoes("wait", "read")
  /\ dataGo /\ dataGo' = FALSE
  /\ UNCHANGED <<task, headVars, dataReady, bodyVars, n>>

\* The request is given up; Cancel() does nothing and the task goes on.
Cancel ==
  /\ io \in {"headers", "read", "wait"} /\ io' = "cancelled"
  /\ UNCHANGED <<task, headVars, wakeVars, bodyVars, n>>

\* Two threads are in SetState or in the stream, or assign one callback pointer,
\* at once.
Torn ==
  /\ \/ io = "enter" /\ task = "enter"
     \/ io \in {"read", "store"} /\ task = "store"
     \/ io = "arm" /\ task = "clear"
  /\ io' = "undefined"
  /\ UNCHANGED <<task, headVars, wakeVars, bodyVars, n>>

----------------------------------------------------------------------------
HandlerNext ==
  \/ StartTask \/ HandlerWrites \/ HandlerEnters \/ HandlerStores
  \/ HandlerThrows \/ HandlerReturns
IoNext ==
  CountRefs \/ GetResponseHeaders \/ ReadBody \/ ClearBody \/ ArmCallback
  \/ TestRefs \/ Wake
TaskNext ==
  \/ TaskWrites \/ TaskEnters \/ TaskStores \/ TaskTests \/ TaskContinues
  \/ TaskClears \/ TaskDrops

Next == HandlerNext \/ IoNext \/ TaskNext \/ Cancel \/ Torn

\* CEF calls what is due, and a task that is writing goes on.  A handler need not
\* return, a task need not write or drop its reference.
Fairness ==
  /\ WF_vars(IoNext)
  /\ WF_vars(TaskEnters \/ TaskStores \/ TaskTests \/ TaskContinues \/ TaskClears)

Spec == Init /\ [][Next]_vars /\ Fairness

----------------------------------------------------------------------------
(* Properties. *)

\* Types of the two threads' places and of the response they share.
CefTypeOK ==
  /\ io \in {"handler", "enter", "store", "count", "headers", "read", "clear", "arm",
             "last", "wait", "complete", "cancelled", "terminated", "undefined"}
  /\ task \in {"none", "run", "enter", "store", "test", "continue", "clear", "gone"}
  /\ state \in {"head", "body"} /\ headersReady \in BOOLEAN /\ headGo \in Nat
  /\ length \in 0..Unknown
  /\ dataReady \in BOOLEAN /\ dataGo \in BOOLEAN /\ good \in BOOLEAN
  /\ accepted \in 0..MaxWrites /\ stored \in 0..MaxWrites /\ delivered \in 0..MaxWrites
  /\ n \in 0..Window /\ overlapped \in BOOLEAN

\* CEF reads the headers only when payload has been written, after which
\* OMessageWriter accepts no header either, or nobody is left who could write; and
\* it is told so once, by SetState, on whichever thread writes first, or by
\* ProcessRequest.  (Two threads inside SetState at once are undefined.
\* OResponseMemory::WriteHeader, for its part, checks no state.)
HeadersReadWhenDone ==
  /\ headGo <= 1
  /\ headGo = 1 => state = "body" \/ LastRef

\* A response that CEF takes as complete is the whole response, if no more was
\* written than the Content-Length says, and no task stored a block while a
\* ReadResponse was between its read and its count of references (that block is
\* lost in the bad stream, or left unread).
CompleteIsWhole ==
  io = "complete" /\ ~overlapped /\ accepted <= length => delivered = accepted

\* A response whose handler has returned and whose last writer is gone ends, with
\* two exceptions: the writer dropped its reference while CEF was waiting for
\* data, or without ever writing payload.  Nothing tells CEF of either.
ResponseEnds ==
  io \notin {"handler", "enter", "store", "terminated"} /\ LastRef ~>
    \/ io \in {"complete", "cancelled", "undefined"}
    \/ io = "wait" /\ task = "gone" /\ ~dataGo
    \/ io = "headers" /\ task = "gone" /\ accepted = 0

\* A writer that finds the reader asleep gets every block delivered that it has
\* stored, up to the Content-Length, whatever the two threads do next.
SleeperGetsBlocks ==
  \A k \in 1..MaxWrites :
    io = "wait" /\ task = "continue" /\ stored >= k /\ length >= k ~>
      delivered >= k \/ io \in {"cancelled", "undefined"}

=============================================================================
