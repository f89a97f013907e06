# A TLA+ verification of rikitiki

rikitiki is a C++ library for web server modules: a module registers handlers,
a server (mongoose, CEF, IIS7) turns each request into a `ConnContext` and offers
it to the handlers, and a handler streams a response into the context. This
directory holds TLA+ models of its core, the TLC configurations that check them,
and proofs that the TLA+ proof system checks. Paths are relative to the
repository; `PROJECT.json` gives, for every definition, the lines it models.

## 1. Inventory

| component | state it keeps | operations | modelled in |
|---|---|---|---|
| response writer (`src/http/outgoing`) | `streamState`, `bodyType`, `buffer`, `status`, framing fields | `<<` status/header/payload, `Done` | `MessageWriter` |
| dispatch and contexts (`src/server.cc`, `src/connContext.cc`, `routing.tcc`, `StaticContentHandler.cc`, `_handler` of `src/mongoose/server.cc`) | loop index, `handled`, the reference count of `ConnContextRef` | `Server::Handle`, `Handle` of a handler, the deleter `CleanConnContext` | `RequestDispatch` |
| incoming reader (`src/http/Response.cc`, `src/http/incoming/Message.cc`) | `bufferMode`, `expectedSize`, `buffer`, `currentState`, headers, body | `OnData`, `OnBufferedData` | `MessageReader` |
| mongoose life cycle (`src/mongoose/server.cc`) | globals `quit`, `quit_cond`; `runThread` | `Start`, `Run`, `WaitForStop`, `Stop`, `signal_handler` | `MongooseLifecycle` |
| request client (`src/os/*/http/helpers`, `src/http/helpers`) | one event base, one pump thread, `running`; per request a promise | `ProcessRequest`, `MakeRequest`, `readcb`, `eventcb`, `kick_events`, `run_events` | `RequestClient`, promise in `RequestFuture` (Linux) |
| CEF server (`src/cef`) | `headersReady`, `dataReady`, the body stream | `ProcessRequest`, `GetResponseHeaders`, `ReadResponse`, `SetState`, `WritePayloadData` | `CefResponse` |
| blocking accessors (`IMessage_`, `BufferedMessage`) | `stateConditionVariable`, cached members | `Headers`, `Body`, `OnStateChange` | not modelled (section 7) |
| websocket (`src/websocket`, `mongooseWebContext.cc`) | `ongoingMessage`, table of processes | `Write`, `OnReceiveFrame`, `Close` | not modelled (section 7) |
| route scanning, headers, query strings | none, or a map | `modern_sscanf`, `Add`, `FromQueryString`, `unescapeString` | not modelled (section 7) |
| enums, content types, URL, REST, IIS7, apache, templates, JSON, configuration, examples | tables, adapters | | not modelled (section 7) |

How they interact. The mongoose thread runs `_handler`, which creates a context
and calls `Server::Handle`; handlers write through the context into the response
writer, whose output goes to `mg_send`. A handler may hand its `ConnContextRef` to
another thread; whoever drops the last one runs `CleanConnContext`, which calls
`Done`. On the other side, `ProcessRequest` opens a socket, and the bytes that
come back are fed to the reader in whatever fragments the socket delivers. All
`MongooseServer` objects of a process share `quit` and `quit_cond`, which are also
written by a signal handler.

What is hard here, and what would be correct:

* *Writer.* The framing is chosen by the first payload call; `Done` moves the state
  backwards to write a length after the fact. Correct: one well-formed message,
  whose announced length is the payload's, whatever the order of calls.
* *Dispatch.* Being handled is a flag with several writers, and the last reference
  may go on another thread. Correct: exactly one answer, no handler behind one that handled
  the request, and no call on the response after `Done`.
* *Reader.* Lines and bodies arrive in pieces. Correct: the message read is
  independent of the cuts, its end is reported exactly when its last byte is there.
* *Life cycle.* Flag and condition variable are used without a common lock, by
  several servers and a signal. Correct: a call that returned has ended its thread;
  a stop request reaches everyone it is meant for and no one else.
* *Client.* The caller and the pump thread share an event base without a lock, and the
  caller may be the very thread that has to answer. Correct: a future resolves at most once
  and with the whole response, if that is one the reader can read, and every request that was
  sent is resolved.
* *CEF.* One thread reads a response while another writes it; the end is inferred from a
  reference count. Correct: what counts as complete is whole, and nobody sleeps forever.

The hazards behind these, each at its line, are in `PROJECT.json`.

## 2. Plan

Done, in this order: `MessageWriter` and `MessageRecipient`; `RequestDispatch`, which composes
the server with the writer; `MessageReader`; `MongooseLifecycle`; `RequestClient` against the
abstract specification `RequestFuture`; `CefResponse`; and proofs about all of these: every
property of a passing run that is not a liveness property is a theorem.

What is left, in order of value:

1. `RoundTrip`: the wire of `MessageWriter`, spelled out, through `MessageReader`.
2. Pure algorithms against reference definitions: route scanning, query strings and
   unescaping.

## 3. Modules and the code

**`MessageWriter`**: variables are the fields of `OMessage`, `OMessageWriter` and
`OResponseWriter`, plus the `wire` (one token per line or block passed to
`WriteData`) and the history of accepted headers and payload. `SetStatus`,
`WriteHeader`, `WritePayloadData` are whole calls; `Done` is the disjunction of the
six ways through its switch. The guards of the `Client...` actions (one call at a time,
`Done` last) are the protocol the writer relies on; the code does not enforce them.
No class of the repository changes `contentSize` or `encoding`; the constant
`Framings` says which values subclasses choose.

**`MessageRecipient`**: what an HTTP recipient makes of a wire. It is the reference for the
writer and looks at nothing of the writer's state: it splits the wire at the blank line, takes
the framing from the head (chunks if a header of `CodingHeaders` says so, else the length if
there is one, else the message ends with the connection) and concatenates the blocks behind
it. `OMessageWriter` never writes a Transfer-Encoding, so a client that chooses chunks has to
write that header itself; `RecipientReadsPayload` is about the clients that do
(`AnnouncedAsSet`). For a declared size the writer puts no length on the wire and `Done` raises an
`InvalidStateException`: the property then says that the blank line, the headers and the payload are right,
and nothing about where the message ends. `ContentLengthIsPayload` is silent on such a message.

**`RequestDispatch`** extends `MessageWriter` and calls its operations without the
client's guards. `pc` is the position of the mongoose thread: `scan` and `after` in the
loop of `Server::Handle`, `route`, `static`, `file` inside a handler, `leave` and
`returned` at the end of the callback, `terminated` when an exception reached the top
of the thread. Which handlers match is chosen in the initial state, since it depends on
URI and method only. A route function is any sequence of writes followed by a return or
a `HandlerException`, and may start a task at any moment, beside which it goes on; or it drops
the future of `std::async`, as `TestsModule::AsyncTests` does, and waits for the task (`await`).
Calls of handler and task alternate: the writer has no lock, and two calls at once are
undefined. An exception of `Done` leaves the deleter and ends the process with the
context not deleted. `refs` is who holds a `ConnContextRef`. `upgrade` says that
the event is `MG_EV_WEBSOCKET_HANDSHAKE_REQUEST`: it goes through the same handlers, and
what none of them takes is left to mongoose (`LeaveHandshake`).

**`MessageReader`**: `Deliver` is a call of `OnData` with the next fragment;
`PassThrough`, `TakeLine` and `KeepRest` are the passes through its loop, each with the
whole of `OnBufferedData`. Text is abstracted to symbols, so a start line is three
symbols and a header line four; bodies are symbols that may be CR or LF. `SizeOf` says which
length a symbol reads as; `NoSize` is one of them, since "-1" reads as `(size_t)-1`. The byte behind a
fragment, which the code reads when the fragment ends in a newline, is a free choice.
`BufferMode::LENGTH` cannot be reached and is left out; the module's head says why.
`Complete` is the set of wires that are one whole message, which `WholeMessage` defines from
the wire alone: lines that end in CR LF, a blank line, and a body of the length the
headers announce.

**`MongooseLifecycle`**: an owner and a poll thread per server and the signal handler,
with one action per access to `quit`, `quit_cond` or a thread: `signal_handler` tests `quit`,
resets the disposition, sets `quit` and notifies in four steps. `asleep` is the set of waiters.
`signalled` and `allAsleep` are history variables. External to the repository, and modelled
from their use: condition variables (spurious wake-ups included), signal
dispositions, `shared_ptr`, `mg_mgr_poll`.

**`RequestClient`**: one calling thread, one pump thread and the servers that are asked.
`caller` is the place in `ProcessRequest`, the constructor of `LinuxTCPIPSocket` and
`kick_events`, `pump` the place in `run_events` and `readcb`; each access of `loop.base`, which
both threads use without a lock, is a step. `usage` tells three callers apart: a handler that
asks its own server (`TestsModule::StartTests`, which ends in `operator()`, whose dropped future
holds it until every request is resolved), a thread that waits for each future, and one
that does not. `conn` has the outcomes of `connect` and `eventcb`; a response arrives in
extents, of which `readcb` hands one to `OnData` per pass, and may be followed by one that does not
belong to it. What `OnData` says of an extent depends on whether the response is `sound`:
it has a Content-Length and no chunked coding, no extent ends between CR and LF, and its last
extent holds nothing else. Of these `MessageReader` shows that `OnData` is true with the last
extent and the response read is the one sent. Of all others, which include what the runs
`payload_roundtrips` and `chunk_sizes` find, `OnData` may be true at any extent or never, and may
throw, and the response is whatever it is. `loop.running` is never true and left out.
Undefined behaviour and uncaught exceptions set `crash`, after which nothing happens.
External: `event_base_loop`, the read callback of bufferevents, the server that is asked.

**`RequestFuture`** is what the caller of `ProcessRequest` is promised: `Ask` and `Resolve`, the
latter at most once and, if the response is sound, with the whole of it. `RequestClient` implements it with
`asked <- sent` and `outcome <- [r |-> Outcome(r)]`, where `Outcome` is computed from the number
of `set_value` calls and the data `OnData` got.

**`CefResponse`**: the IO thread (`io`: the handler, the end of `ProcessRequest`, the steps of
`ReadResponse`, and waiting for a callback) and a task (`task`: the steps of
`WritePayloadData`), which runs from the moment the handler starts it, beside the handler.
`ReadResponse` holds `payloadWrite`, but no writer takes that mutex, so a
step is one access of the stream or of a callback pointer. `Torn` is two threads inside
`SetState`, in the stream or at one callback pointer at once; the behaviour is undefined from there on, and
no property says anything of it. Blocks of payload are counted, not spelled out. `length` is the `response_length` of
`GetResponseHeaders`, which bounds what CEF reads when a Content-Length was set. Nothing ever
sets the state FINISHED, since `OMessage::Done` is empty there. The CEF target is off by
default and needs a definition of `OMessage::WriteData` for `OResponseMemory` to compile.

`MC*` modules give the constants values. Definitions whose comment says *Mutant* are
deliberately wrong variants of the definition below them; no specification uses them.
They show that each property notices such a bug.

## 4. Runs

| run | checks | bounds |
|---|---|---|
| `writer` | `WriterTypeOK`, `HeadPrecedesBody`, `ContentLengthIsPayload`, `RecipientReadsPayload` | 2 statuses, 2 headers, one of which announces chunks, blocks of 0 to 2 bytes, declared sizes none, 0 and 2, with and without chunked; 4 calls and `Done`: every pair of calls in every order, and a payload in several parts. An empty block in the chunked framing is the chunk that ends the message: the recipient reads what comes before it, and the property says so |
| `dispatch` | `DispatchTypeOK`, `AnsweredExactlyOnce`, `NoneAfterHandled`, `WriterProtocol`, `RequestEnds` | chain route, static, route; every set of matching handlers; 4 writes; no framing, and a declared size, with which `Done` raises an exception in the deleter; one task per request, which suffices to have the last reference dropped by the callback or by another thread, beside handler and callback; HTTP requests and websocket handshakes |
| `reader` | `TypeOK`, `BufferIsTail`, `KnownSizeCount`, `FragmentationInvisible`, `MessageCompletes` | twelve wires: four messages with a length of 0 to 3 (repeated lengths, bodies with newlines), and chunked ones, without framing, with both framings, with repeated or empty headers, with a length of -1, overlong, with bare LF; every fragmentation |
| `lifecycle` | `TypeOK`, `ReturnedMeansExited`, `QuitEndsPolling`, `SigintWakesSleepers` | 2 servers, 2 starts each, 2 signals, `Run` or `Stop` |
| `client` | `ClientTypeOK`, `SafeWithoutOverlap`, `ResolvesLikeAFuture`, `SentIsResolved` | 2 requests, so that the second meets the event loop of the first in each of its places; responses of 1 to 2 extents and one more, sound or not; the three kinds of callers; refused and lost connections |
| `cef` | `CefTypeOK`, `HeadersReadWhenDone`, `CompleteIsWhole`, `ResponseEnds`, `SleeperGetsBlocks` | 3 blocks, read 2 at a time: full, partial and empty reads; every Content-Length, and none; a handler alone or with a task; `Cancel` at any time |

Two servers suffice to see every effect of one server on another, two signals to see the
second one killing the process, and two starts to see a restart with the flag still set.
`FragmentationInvisible` and `MessageCompletes` speak of complete messages of known size that
no fragment cuts between CR and LF; the other reader properties hold on every wire. The
client's safety properties also hold with three requests (3150568 states).

`SafeWithoutOverlap`, `SentIsResolved`, `CompleteIsWhole` and `ResponseEnds` name the
circumstances under which the code does not keep its promise, and hold in all others; each
exception is a hazard in `PROJECT.json`, and was found as a counterexample to the property
without it.

Six runs are expected to fail. Each states what the repository says of itself and TLC
shows that the code does something else: `exception_status` (the status of a
`HandlerException` is lost once the start line is out), `false_not_handled` (a handler that
returns `false` still ends the search), `payload_roundtrips` (a cut between CR and LF
shifts lines and body), `chunk_sizes` (chunk sizes end up in the body), `sigint_stops_all` (a
signal between test and wait is lost), `start_tests` (`StartTests` never reaches the status
page: `kick_events` joins a pump thread that waits for the handler's own server). The quotations are in `PROJECT.json` under
`findings`. Not a disagreement with any text, but worth knowing: the flag that `Stop` sets
is the flag of all servers, so stopping one ends the poll loops of all; `MongooseResponse` keeps a plain `mg_connection*`, so a
task that writes after mongoose has freed the connection sends on freed memory (the
connection is not modelled: nothing prevents this, and nothing else depends on it).

## 5. Fairness

* `RequestDispatch`: weak fairness of the mongoose thread, which is scheduled and whose
  route functions return (the bound on calls makes them finite), and of the end of a task.
* `MessageReader`: weak fairness of the next-state relation: the peer sends what it announced.
* `RequestClient`: weak fairness of the calling thread, of the pump thread and of the answer of
  each server that was asked. None for lost connections. A handler that asks its own server is
  answered only when it is done, since that server has one thread; it is never done, because it
  waits for its answers.
* `CefResponse`: weak fairness of the IO thread (CEF calls what is due) and of a task that is
  inside a write. None for the handler's return, for further writes, or for the task's end.
* `MongooseLifecycle`: weak fairness of each owner (outside `Start`), each poll thread and
  of a running signal handler. None for signals, starts and spurious wake-ups.

Deadlock is checked in the first four passing runs; where those systems may rest, an explicit
action says so (`Finished`, `Quiet`). The client and CEF really may stop: when everything is
answered, and in the cases that `SentIsResolved` and `ResponseEnds` name; these two properties
say in which states they may, which is stronger than the absence of deadlock.

## 6. Proofs

All theorems hold for every value of the constants that satisfies the named assumptions
`WriterAssumption`, `DispatchAssumption`, `ReaderAssumption`, `LifecycleAssumption`,
`ClientAssumption` and `CefAssumption` (types of the constants; for the reader also that CR is
not LF) and `CompleteAssumption` (each wire of `Complete` is a `WholeMessage`). TLC evaluates
them in the runs.

**`MessageWriter_proofs`**: `WriterTypeCorrect`, `WriterHeadPrecedesBody`,
`WriterContentLength`. `HeadPrecedesBody` is not inductive: whether a token may be appended
depends on whether the head is still open, which is not the same as `streamState`, because
a buffered body is in state `BODY` with an open head. The inductive invariant `WriterInv`
adds that fact, that the buffer is the payload in that case, that the start line is
written exactly when `START_LINE` is left, and that there is no length before `Done`. Lemmas on
appending one token to an ordered wire carry the steps; there is one lemma per operation.

**`MessageRecipient_proofs`**: `RecipientReads`, for any payload, any framing and any number of calls. While the
message is open, `OpenMessage` says what the wire is: in the head, and as long as a body is
buffered, exactly the start line and the accepted headers; in a chunked body, these, the blank
line and chunks whose bytes are the payload. `RecipientInv` joins this to the property; the six
ways through `Done` then give the closed wire in full. `SplitAtBlank` says where the recipient
splits such a wire, `ChunksRead` and `LengthRead` what it reads. The bytes of a body are
`FlattenSeq`, a recursive function; that it exists, and what it does with one block more, is
proved by induction on the length (`FlattenIs`, `FlattenAppend`).

**`SetInduction`**: a set of numbers that holds 0 and the successor of each of its elements
holds all of them, and a nonempty one has a least element. The library's induction
theorems take a predicate as a parameter, which the provers cannot instantiate; with a set in
its place the same induction is first-order.

**`RequestDispatch_proofs`**: `RequestAnsweredOnce`, `NoHandlerAfterHandled`,
`DispatchImplementsWriter`, `ResponsesWellFormed`, `ServedResponsesRead`
and `DispatchTypeCorrect`, for any chain of handlers. The
inductive invariant `DispatchInv` relates `pc`, `handled` and the references
(`LifetimeInv`: the context is deleted when nobody holds it any more, unless `Done` raised an exception
and the process ended, and a handled context is closed before it is deleted) and the loop index with the handlers that match
(`ScanInv`). From it each step of the dispatcher is a step of the writer's client or a
stutter, so the dispatcher implements `WriterSpec`, and the writer's theorems carry over: what
the server closes is well formed, and a recipient reads from it what was written.
`NoneAfterHandled` needs that mg_serve_http is reached only over handlers that do not match
(`UnmatchedInv`).

**`MessageReader_proofs`**: `ReaderTypeCorrect`, `NoByteLost` and `KnownSizeCounted`, for any wire
and any fragmentation, and `FragmentsAreInvisible` for any whole message.
The first three are not inductive one by one: `buffer` is what was not passed on
only if nothing is left in it when the mode changes to `NONE`, and `expectedSize` counts only
if the body is empty when the headers end. `ModeInv` adds how parser state, body type and buffer
mode go together, and `ReaderInv` is the conjunction of all. For the last, `FragmentInv` says
that on a whole message that was never cut between CR and LF the state of the parser is
determined by `taken` alone: after k header lines it is in `HEADERS` with the first k headers
and no newline has been read since (`InHead`); after the blank line the body is
what came behind it (`InBody`). The step that matters is `LineFound`: if a line's CR is in the
fragment its LF is too, and what `OnData` then passes on is the line, from however many
fragments its bytes came. `HeadEndIs` shows that the first blank line of such a
wire is where the headers end.

**`MongooseLifecycle_proofs`**: `LifecycleTypeCorrect` and `ReturnsAfterExit`, for any set
of servers. The conjunction of both is inductive.

**`RequestClient_proofs`**: `ClientTypeCorrect`, `ClientImplementsFuture` and `SequentialUseIsSafe`,
for any number of requests and extents; the first two for every overlap of caller and event loop. The types are not
inductive by themselves: that `got` stays within the response needs to know how much can still
arrive. `ClientInv` adds that the requests after `cur`, and `cur` before `Send`, have not been
sent (so `Ask` is a step of `RequestFuture`), that nothing arrives before the answer and at
most one extent beyond it, and that the promise of a sound response has been set once when the
response is complete and not before, and that of any other at most once (so a set is a
`Resolve`, and `ReadData` after `OnClose` resolves nothing).
`SafeWithoutOverlap` is far from inductive: it holds whenever no connection is lost before its
request is sent, and that may become true again when such a request is sent after all.
`ApartInv` therefore asks for no overlap only: caller and pump are never both active on the
base (`AloneInv`), a current base has not been freed (`BaseInv`), an open socket has the current
base (`SocketInv`), and the one way to a freed base is a peer faster than `MakeRequest`
(`CrashInv`), which the property excludes.

**`CefResponse_proofs`**: `CefTypeCorrect`, `HeadersReadOnce`, `CompleteMeansWhole`, for any number
of blocks and any buffer. `HeadInv` says why leaving `headersReady` set at the end of
`ProcessRequest` does no harm: CEF was told only when no writer is left. `BodyInv` accounts for
every block: up to the first overlap it is in the stream or in the hand of the handler or the
task, the stream is bad only between read and clear, a `ReadResponse` that read nothing left
nothing behind, and CEF never gets more than the length.

Only model-checked: liveness (`RequestEnds`, `MessageCompletes`, `QuitEndsPolling`,
`SigintWakesSleepers`, `SentIsResolved`, `ResponseEnds`, `SleeperGetsBlocks`), which is out of
the prover's reach.

## 7. Not modelled

* *Vendored code.* `third/ctemplate-2.2`, four fifths of the lines of the repository, is a
  library that rikitiki links for one optional extension; with its generated parser tables it
  is not modelled, and the share of lines the models cover is small for that reason.
* *Websocket.* No websocket connection can be made at this commit: the callbacks are compiled
  under `USE_WEBSOCKET` only, where they are assigned to a variable `callbacks` that no longer
  exists (`src/mongoose/server.cc:175`). The handshake event is modelled as far as it gets.
* *Blocking accessors* (`IMessage_::Headers`, `Body`, ...). They wait for a message that another
  thread feeds; no class of the repository feeds one, so the wait has no partner.
* *The Windows socket* of the request client, a thread per request with no shared event loop.
* *CEF's `RequestClient.h`* and the lookup of a handler for a URL.
* *Scans of text* (routes, URLs, query strings, unescaping, content types, cookies) and tables of
  names: sequential functions without state, which unit tests reach. What a route scan
  decides is a free choice in `RequestDispatch`.
* *IIS7*, an adapter to an API outside the repository; *apache*, written against an interface that
  `ConnContext` no longer has; templates, JSON, configuration, registration, examples.
