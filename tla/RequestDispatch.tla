--------------------------- MODULE RequestDispatch ---------------------------
(***************************************************************************)
(* One request on its way through the server: the mongoose callback        *)
(* creates a ConnContext, Server::Handle offers it to the handlers in      *)
(* order, and the deleter of the last ConnContextRef closes the response   *)
(* (src/server.cc, src/connContext.cc, src/mongoose/server.cc,             *)
(* src/StaticContentHandler.cc, include/rikitiki/routing.tcc).             *)
(*                                                                         *)
(* The response is the writer of module MessageWriter, whose operations    *)
(* are called here without the guards of that module's client: that the    *)
(* server calls them in the order the writer needs is a property           *)
(* (WriterProtocol), not an assumption.                                    *)
(*                                                                         *)
(* Two threads take part: the mongoose thread ("poll") runs the callback   *)
(* and the handlers; a handler may pass its ConnContextRef to a task       *)
(* started with std::async, which then writes on its own thread, beside    *)
(* the handler and after it.  The model takes their calls one at a time:   *)
(* the writer has no lock, and keeping two calls apart is up to the        *)
(* handler and its task.  Bound: one task for a request.                   *)
(***************************************************************************)
EXTENDS MessageWriter

CONSTANTS
  Handlers,       \* Server::handlers, a sequence of "route" and "static"
  InternalError,  \* HttpStatus::Internal_Server_Error
  NoStatus        \* the null status of HandlerException()

ASSUME DispatchAssumption ==
  /\ Handlers \in Seq({"route", "static"})
  /\ InternalError \in Statuses
  /\ NoStatus \notin Statuses

VARIABLES
  upgrade,    \* the event is MG_EV_WEBSOCKET_HANDSHAKE_REQUEST
  matching,   \* the handlers whose CanHandle is true of this request
  fileGood,   \* the file named by the URI can be opened
  pc,         \* where the mongoose thread is
  i,          \* the loop index of Server::Handle
  handled,    \* ConnContext::handled
  refs,       \* who holds a ConnContextRef
  started,    \* a task has been started
  thrown,     \* the status the HandlerException carried, if one was caught
  declined,   \* history: handlers whose Handle returned false
  ran,        \* history: handlers whose Handle was called
  served,     \* mg_serve_http answered the request
  deleted     \* the ConnContext has been deleted

dispatchVars == <<upgrade, matching, fileGood, pc, i, handled, refs, started,
                  thrown, declined, ran, served, deleted>>
vars == <<writerVars, dispatchVars>>

N == Len(Handlers)
request == <<upgrade, matching, fileGood>>

DispatchInit ==
  /\ WriterInit
  /\ matching \in SUBSET (1..N) /\ fileGood \in BOOLEAN /\ upgrade \in BOOLEAN
  /\ pc = "scan" /\ i = 1
  /\ handled = FALSE
  /\ refs = {"poll"} /\ started = FALSE
  /\ thrown = NoStatus
  /\ declined = {} /\ ran = {}
  /\ served = FALSE /\ deleted = FALSE

----------------------------------------------------------------------------
(* Server::Handle on the mongoose thread. *)

\* CanHandle is false: the loop body ends without a call.
Skip ==
  /\ pc = "scan" /\ i <= N /\ i \notin matching
  /\ pc' = "after"
  /\ UNCHANGED <<writerVars, request, started, i, handled, refs, thrown, declined, ran,
                 served, deleted>>

\* CanHandle is true: Handle is entered and Handler::Handle sets `handled`.
\* Route_::Handle checks route and method once more, on an unchanged request.
EnterHandler ==
  /\ pc = "scan" /\ i <= N /\ i \in matching
  /\ pc' = Handlers[i]
  /\ handled' = TRUE
  /\ ran' = ran \cup {i}
  /\ UNCHANGED <<writerVars, request, started, i, refs, thrown, declined, served,
                 deleted>>

\* Mutants: `handled` is ignored; the index is increased twice; or not at all.
AfterHandler_NotTested ==
  /\ pc = "after"
  /\ pc' = "scan" /\ i' = i + 1
  /\ UNCHANGED <<writerVars, request, started, handled, refs, thrown, declined, ran,
                 served, deleted>>

AfterHandler_Twice ==
  /\ pc = "after"
  /\ IF handled THEN pc' = "leave" /\ i' = i ELSE pc' = "scan" /\ i' = i + 2
  /\ UNCHANGED <<writerVars, request, started, handled, refs, thrown, declined, ran,
                 served, deleted>>

AfterHandler_Stuck ==
  /\ pc = "after"
  /\ pc' = IF handled THEN "leave" ELSE "scan"
  /\ i' = i
  /\ UNCHANGED <<writerVars, request, started, handled, refs, thrown, declined, ran,
                 served, deleted>>

\* The end of the loop body: `if (ctx->handled) return true`, else the next
\* handler.  What Handle returned is not looked at.
AfterHandler ==
  /\ pc = "after"
  /\ IF handled THEN pc' = "leave" /\ i' = i ELSE pc' = "scan" /\ i' = i + 1
  /\ UNCHANGED <<writerVars, request, started, handled, refs, thrown, declined, ran,
                 served, deleted>>

\* The loop ends without a handler: the callback calls mg_serve_http.
ServeStatic ==
  /\ pc = "scan" /\ i > N /\ ~upgrade
  /\ served' = TRUE
  /\ pc' = "leave"
  /\ UNCHANGED <<writerVars, request, started, i, handled, refs, thrown, declined, ran,
                 deleted>>

\* A websocket handshake that no handler takes is left to mongoose.
LeaveHandshake ==
  /\ pc = "scan" /\ i > N /\ upgrade
  /\ pc' = "leave"
  /\ UNCHANGED <<writerVars, request, started, i, handled, refs, thrown, declined, ran,
                 served, deleted>>

----------------------------------------------------------------------------
(* The function of a route: any sequence of writes, then a return, a       *)
(* HandlerException, or a task that goes on writing.                       *)

\* One `ctx << x`.  An InvalidStateException is no HandlerException: nothing
\* between the handler and the top of the mongoose thread catches it, and the
\* process ends in std::terminate.
WriteOne ==
  /\ Call
  /\ \/ \E s \in Statuses : SetStatus(s)
     \/ \E h \in Headers : WriteHeader(h)
     \/ \E p \in Payloads : WritePayloadData(p)

RouteWrites ==
  /\ pc = "route"
  /\ WriteOne
  /\ pc' = IF raised' = "none" THEN "route" ELSE "terminated"
  /\ UNCHANGED <<request, started, i, handled, refs, thrown, declined, ran, served,
                 deleted>>

RouteReturns ==
  /\ pc = "route"
  /\ pc' = "after"
  /\ UNCHANGED <<writerVars, request, started, i, handled, refs, thrown, declined, ran,
                 served, deleted>>

\* HandlerException: Server::Handle streams the status into the response and
\* returns true without looking at `handled`.
RouteThrows ==
  /\ pc = "route"
  /\ Call
  /\ \E s \in Statuses \cup {NoStatus} :
        LET reported == IF s = NoStatus THEN InternalError ELSE s
        IN  thrown' = reported /\ SetStatus(reported)
  /\ pc' = "leave"
  /\ UNCHANGED <<request, started, i, handled, refs, declined, ran, served, deleted>>

\* The function hands its ConnContextRef to a task.  It goes on beside the task
\* when it keeps the future of std::async, and waits when it drops it, because the
\* destructor of that future does.
RouteStartsTask ==
  /\ pc = "route" /\ ~started
  /\ started' = TRUE
  /\ refs' = refs \cup {"task"}
  /\ pc' \in {"route", "await"}
  /\ UNCHANGED <<writerVars, request, i, handled, thrown, declined, ran, served, deleted>>

FutureReady ==
  /\ pc = "await" /\ "task" \notin refs
  /\ pc' = "route"
  /\ UNCHANGED <<writerVars, request, started, i, handled, refs, thrown, declined, ran,
                 served, deleted>>

----------------------------------------------------------------------------
(* StaticContentHandler::Handle: the Content-Type header goes out before   *)
(* the file is opened.                                                     *)

StaticType ==
  /\ pc = "static"
  /\ Call
  /\ \E h \in Headers : WriteHeader(h)
  /\ pc' = "file"
  /\ UNCHANGED <<request, started, i, handled, refs, thrown, declined, ran, served,
                 deleted>>

StaticFile ==
  /\ pc = "file" /\ fileGood
  /\ Call
  /\ \E p \in Payloads : WritePayloadData(p)
  /\ pc' = "after"
  /\ UNCHANGED <<request, started, i, handled, refs, thrown, declined, ran, served,
                 deleted>>

StaticMissing ==
  /\ pc = "file" /\ ~fileGood
  /\ declined' = declined \cup {i}
  /\ pc' = "after"
  /\ UNCHANGED <<writerVars, request, started, i, handled, refs, thrown, ran, served,
                 deleted>>

----------------------------------------------------------------------------
(* The ConnContextRef and its deleter. *)

\* Mutant: every context is closed.
CleanConnContext_Mutant == Close /\ deleted' = (raised' = "none")

\* CleanConnContext: a handled context is closed, every context is deleted, unless
\* Done raises an exception: it then leaves the deleter of a shared_ptr, which
\* ends the process.
CleanConnContext ==
  \/ handled /\ Close /\ deleted' = (raised' = "none")
  \/ ~handled /\ deleted' = TRUE /\ UNCHANGED writerVars

CloseRaised == refs' = {} /\ ~deleted'

\* Mutant: the callback cleans up, whoever else holds a reference.
Release_Mutant(holder) ==
  /\ refs' = refs \ {holder}
  /\ IF holder = "poll" THEN CleanConnContext
     ELSE UNCHANGED <<writerVars, deleted>>

Release(holder) ==
  /\ refs' = refs \ {holder}
  /\ IF refs' = {} THEN CleanConnContext
     ELSE UNCHANGED <<writerVars, deleted>>

\* The callback returns: the references of the mongoose thread go away.
LeaveCallback ==
  /\ pc = "leave"
  /\ Release("poll")
  /\ pc' = IF CloseRaised THEN "terminated" ELSE "returned"
  /\ UNCHANGED <<request, started, i, handled, thrown, declined, ran, served>>

----------------------------------------------------------------------------
(* The task.  An exception ends it like a return and stays in its future.  *)

Alive == pc # "terminated"

TaskWrites ==
  /\ Alive /\ "task" \in refs
  /\ WriteOne /\ raised' = "none"
  /\ UNCHANGED dispatchVars

TaskEnds ==
  /\ Alive /\ "task" \in refs
  /\ Release("task")
  /\ pc' = IF CloseRaised THEN "terminated" ELSE pc
  /\ UNCHANGED <<request, started, i, handled, thrown, declined, ran, served>>

----------------------------------------------------------------------------

Finished ==
  /\ deleted \/ ~Alive
  /\ UNCHANGED vars

PollStep ==
  \/ Skip \/ EnterHandler \/ AfterHandler \/ ServeStatic \/ LeaveHandshake
  \/ RouteWrites \/ RouteReturns \/ RouteThrows \/ RouteStartsTask \/ FutureReady
  \/ StaticType \/ StaticFile \/ StaticMissing
  \/ LeaveCallback

DispatchNext ==
  \/ PollStep
  \/ TaskWrites \/ TaskEnds
  \/ Finished

Fairness ==
  /\ WF_vars(PollStep)
  /\ WF_vars(TaskEnds)

DispatchSpec == DispatchInit /\ [][DispatchNext]_vars /\ Fairness

----------------------------------------------------------------------------
(* Properties. *)

\* Type correctness of the dispatcher's state.
DispatchTypeOK ==
  /\ WriterTypeOK
  /\ matching \in SUBSET (1..N) /\ fileGood \in BOOLEAN /\ upgrade \in BOOLEAN
  /\ pc \in {"scan", "after", "route", "await", "static", "file", "leave", "returned",
             "terminated"}
  /\ i \in 1..(N + 1)
  /\ handled \in BOOLEAN
  /\ refs \in SUBSET {"poll", "task"} /\ started \in BOOLEAN
  /\ thrown \in Statuses \cup {NoStatus}
  /\ declined \in SUBSET (1..N) /\ ran \in SUBSET (1..N)
  /\ served \in BOOLEAN /\ deleted \in BOOLEAN

\* Every request is answered exactly once.  When the context is gone, either
\* mg_serve_http answered or the response was closed, never both and never
\* neither, whichever thread dropped the last reference; and mg_serve_http never
\* answers on a connection the handlers have written to.  Only a websocket
\* handshake that no handler takes is not answered here, and then not at all.
AnsweredExactlyOnce ==
  /\ deleted => IF upgrade /\ ran = {} THEN ~served /\ ~closed ELSE served # closed
  /\ served \/ ran = {} => wire = <<>>

\* "Handlers are tried in the order they are added in. Once one handler handles
\* the request, the rest are not executed." (doc/basics.dox): Server::Handle runs
\* a handler only when every matching handler in front of it declined the request,
\* and leaves the request to mg_serve_http only when they all did.
NoneAfterHandled ==
  /\ \A h \in ran : h \in matching /\ \A k \in 1..(h - 1) : k \in matching => k \in declined
  /\ served => matching \subseteq declined

\* The server keeps the protocol of the response writer: Done is called once,
\* and after it neither the route nor a task still writes.
WriterProtocol == WriterSpec

\* Every request comes to an end: its context is deleted, after the last of
\* callback and task, unless an exception ended the process.
RequestEnds == <>(deleted \/ ~Alive)

\* "Optionally specify the status to return.  If no status is set,
\* Internal_Server_Error is returned." (HandlerException, connContext.h): a
\* request whose handler threw is answered with the exception's status.
ExceptionStatusReturned ==
  closed /\ thrown # NoStatus => wire[1].status = thrown

\* "The return value indicates whether the handler actually handled the request
\* (true) or not (false)." (doc/basics.dox): a request that Handle declined is
\* offered to the handlers after it that match.
FalseMeansNotHandled ==
  deleted /\ ran # {} /\ ran \subseteq declined => ran = matching

=============================================================================
