---------------------------- MODULE RequestClient ----------------------------
(***************************************************************************)
(* Requests that a program makes with MongooseServer::ProcessRequest: a    *)
(* SimpleRequestClient and a LinuxTCPIPSocket per request, and one event   *)
(* loop for all of them, which a pump thread runs                          *)
(* (src/os/linux/http/helpers/SimpleRequestClient.cc,                      *)
(* src/http/helpers/SimpleRequestClient.cc, src/mongoose/server.cc).       *)
(*                                                                         *)
(* One thread makes the requests 1..N in turn; `usage` says which:         *)
(*   "poll"   a handler of the server that is asked, on its only thread,   *)
(*            which ends by waiting for every answer                       *)
(*            (TestsModule::StartTests): nothing is answered before it is  *)
(*            done                                                         *)
(*   "burst"  another thread, which does not wait for the answers          *)
(*   "wait"   another thread, which waits for each future                  *)
(* Caller and pump thread share loop.base and loop.pump_thread without a   *)
(* lock; every access of loop.base is a step of its own.  loop.running is  *)
(* never set to true and therefore left out.                               *)
(*                                                                         *)
(* What OnData makes of the bytes is MessageReader's subject.  Here a      *)
(* response is `sound` when it has a Content-Length and no chunked coding, *)
(* no extent of it ends between CR and LF, and its last extent holds       *)
(* nothing else: of such a response OnData is true for the last extent and *)
(* for no other, and the response read is the one sent                     *)
(* (MessageReader!FragmentationInvisible).  Of every other response OnData *)
(* may be true too early, too late or never, and may fail.                 *)
(*                                                                         *)
(* Undefined behaviour and uncaught exceptions end the process: `crash`    *)
(* names the cause, and nothing happens afterwards.                        *)
(***************************************************************************)
EXTENDS Naturals

CONSTANTS
  N,         \* bound: number of requests
  MaxExtents \* bound: extents of memory in which a response arrives

ASSUME ClientAssumption == N \in Nat /\ MaxExtents \in Nat \ {0}

Requests == 1..N
Usages == {"poll", "burst", "wait"}

VARIABLES
  usage,
  sound,    \* whether the response to each request is sound
  caller,   \* where the calling thread is
  cur,      \* the request it is making
  local,    \* `base` of the socket's constructor
  base,     \* loop.base; the bases are numbered from 1, 0 is null
  made,     \* number of bases created
  freed,    \* the bases that event_base_free was called for
  pump,     \* where loop.pump_thread is
  reading,  \* the request whose readcb the pump thread is in
  dying,    \* `b` of run_events
  conn,     \* state of each socket
  bevBase,  \* the base each bufferevent was created on
  sent,     \* requests whose MakeRequest has returned
  replied,  \* requests the server has answered
  goal,     \* extents of the response
  net,      \* extents that have not been read from the socket
  input,    \* extents in the bufferevent's input buffer
  got,      \* extents given to IResponseMemory::OnData
  sets,     \* how often promise.set_value was called
  crash,
  overlap   \* history: requests begun while the event loop was running

callVars == <<usage, sound, cur, local>>
baseVars == <<base, made, freed>>
pumpVars == <<pump, reading, dying>>
sockVars == <<conn, bevBase, sent>>
dataVars == <<goal, net, input, got, replied>>
endVars  == <<sets, crash, overlap>>
vars == <<caller, callVars, baseVars, pumpVars, sockVars, dataVars, endVars>>

Each(v) == [r \in Requests |-> v]

Init ==
  /\ usage \in Usages /\ sound \in [Requests -> BOOLEAN]
  /\ caller = "idle" /\ cur = 0 /\ local = 0
  /\ base = 0 /\ made = 0 /\ freed = {}
  /\ pump = "none" /\ reading = 0 /\ dying = 0
  /\ conn = Each("none") /\ bevBase = Each(0)
  /\ sent = {} /\ replied = {}
  /\ goal = Each(0) /\ net = Each(0) /\ input = Each(0) /\ got = Each(0)
  /\ sets = Each(0)
  /\ crash = "none" /\ overlap = {}

----------------------------------------------------------------------------
(* The calling thread: ProcessRequest for the next request. *)

CallerGoes(from, to) == crash = "none" /\ caller = from /\ caller' = to

\* get_base: a base is created when there is none.
GetBase ==
  IF base = 0 THEN base' = made + 1 /\ made' = made + 1
              ELSE UNCHANGED <<base, made>>

PumpEnded == pump \in {"none", "done"}

\* The constructor of LinuxTCPIPSocket calls get_base ...
Begin ==
  /\ cur < N /\ cur' = cur + 1
  /\ CallerGoes("idle", "base")
  /\ GetBase
  /\ overlap' = IF PumpEnded THEN overlap ELSE overlap \cup {cur'}
  /\ UNCHANGED <<usage, sound, local, freed, pumpVars, sockVars, dataVars, sets, crash>>

\* ... and then reads loop.base, which the pump thread may have cleared.
ReadBase ==
  /\ CallerGoes("base", "connect")
  /\ local' = base
  /\ UNCHANGED <<usage, sound, cur, baseVars, pumpVars, sockVars, dataVars, endVars>>

\* connect() fails: the constructor returns and leaves `bev` uninitialized.
Refused ==
  /\ CallerGoes("connect", "send")
  /\ conn' = [conn EXCEPT ![cur] = "refused"]
  /\ UNCHANGED <<callVars, baseVars, pumpVars, bevBase, sent, dataVars, endVars>>

\* connect() succeeds: a bufferevent is created on the base and enabled.
\* (Without a base libevent registers no event and reports nothing.)
Connect ==
  /\ CallerGoes("connect", "kick")
  /\ IF local \in freed
     THEN crash' = "freed base" /\ UNCHANGED <<conn, bevBase>>
     ELSE /\ conn' = [conn EXCEPT ![cur] = "open"]
          /\ bevBase' = [bevBase EXCEPT ![cur] = local]
          /\ UNCHANGED crash
  /\ UNCHANGED <<callVars, baseVars, pumpVars, sent, dataVars, sets, overlap>>

\* kick_events: get_base once more ...
Kick ==
  /\ CallerGoes("kick", "join")
  /\ GetBase
  /\ UNCHANGED <<callVars, freed, pumpVars, sockVars, dataVars, endVars>>

\* ... then the pump thread is joined and a new one started.
Join ==
  /\ CallerGoes("join", "send")
  /\ PumpEnded
  /\ pump' = "start"
  /\ UNCHANGED <<callVars, baseVars, reading, dying, sockVars, dataVars, endVars>>

\* MakeRequest: the request is written to the bufferevent.
Send ==
  /\ CallerGoes("send", IF usage = "wait" THEN "wait" ELSE "idle")
  /\ crash' = IF conn[cur] = "refused" THEN "no bufferevent"
              ELSE IF bevBase[cur] \in freed THEN "freed base" ELSE "none"
  /\ sent' = IF crash' = "none" THEN sent \cup {cur} ELSE sent
  /\ UNCHANGED <<callVars, baseVars, pumpVars, conn, bevBase, dataVars, sets,
                 overlap>>

\* future.get()
Await ==
  /\ CallerGoes("wait", "idle")
  /\ sets[cur] > 0
  /\ UNCHANGED <<callVars, baseVars, pumpVars, sockVars, dataVars, endVars>>

\* StartTests calls TestsModule::operator().
StatusPage ==
  /\ usage = "poll" /\ cur = N
  /\ CallerGoes("idle", "status")
  /\ UNCHANGED <<callVars, baseVars, pumpVars, sockVars, dataVars, endVars>>

\* operator() drops the std::future of its task, and so waits until no test
\* counts any more; each counts until the future of its request is resolved.
\* The other callers have nothing left to do.
Finish ==
  /\ cur = N
  /\ CallerGoes(IF usage = "poll" THEN "status" ELSE "idle", "done")
  /\ usage = "poll" => \A r \in Requests : sets[r] > 0
  /\ UNCHANGED <<callVars, baseVars, pumpVars, sockVars, dataVars, endVars>>

----------------------------------------------------------------------------
(* The server that is asked.  Its response takes `size` extents and may be *)
(* followed by one more.                                                   *)

Answer(r) ==
  /\ crash = "none"
  /\ r \in sent \ replied /\ conn[r] = "open" /\ bevBase[r] # 0
  /\ usage = "poll" => caller = "done"
  /\ \E size \in 1..MaxExtents, extra \in 0..1 :
       /\ goal' = [goal EXCEPT ![r] = size]
       /\ net' = [net EXCEPT ![r] = size + extra]
  /\ replied' = replied \cup {r}
  /\ UNCHANGED <<caller, callVars, baseVars, pumpVars, sockVars, input, got,
                 endVars>>

----------------------------------------------------------------------------
(* The pump thread: run_events. *)

PumpGoes(from, to) == crash = "none" /\ pump = from /\ pump' = to

\* The events of r are pending in the base the pump thread runs.
Registered(r) == conn[r] = "open" /\ bevBase[r] = base

StartLoop ==
  /\ PumpGoes("start", "loop")
  /\ crash' = IF base = 0 THEN "null base" ELSE "none"
  /\ UNCHANGED <<caller, callVars, baseVars, reading, dying, sockVars, dataVars,
                 sets, overlap>>

\* libevent reads what has arrived and calls readcb.
ReadEvent(r) ==
  /\ PumpGoes("loop", "read")
  /\ Registered(r)
  /\ \E k \in 1..net[r] :
       /\ input' = [input EXCEPT ![r] = k]
       /\ net' = [net EXCEPT ![r] = @ - k]
  /\ reading' = r
  /\ UNCHANGED <<caller, callVars, baseVars, dying, sockVars, goal, got, replied,
                 endVars>>

Complete(r) == goal[r] > 0 /\ got[r] = goal[r]

\* OnData may return d for the next extent of r.  It is never true again once
\* the message is finished.
OnDataReturns(r, d) ==
  IF sound[r] THEN sets[r] = 0 /\ d = (got[r] + 1 = goal[r])
              ELSE d => sets[r] = 0

\* OnData may fail: on data after the end of the message, or on what an unsound
\* response makes the reader take for one (or for a chunk of negative size).
OnDataFails(r) == sound[r] => sets[r] > 0

\* OnData returns d; when that is true, OnClose sets the promise.
Accept(r, d) ==
  /\ got' = [got EXCEPT ![r] = @ + 1]
  /\ sets' = IF d THEN [sets EXCEPT ![r] = @ + 1] ELSE sets
  /\ pump' = IF d THEN "close" ELSE "read"
  /\ UNCHANGED <<caller, callVars, baseVars, reading, dying, sockVars, goal, net,
                 replied, crash, overlap>>

\* Mutants: the buffer is not drained; OnClose is called for every extent,
\* `done` or not.
ReadData_NoDrain ==
  LET r == reading
  IN /\ crash = "none" /\ pump = "read" /\ input[r] > 0
     /\ \E d \in BOOLEAN : OnDataReturns(r, d) /\ Accept(r, d)
     /\ UNCHANGED input

ReadData_IgnoresDone ==
  LET r == reading
  IN /\ crash = "none" /\ pump = "read" /\ input[r] > 0
     /\ \E d \in BOOLEAN : OnDataReturns(r, d)
     /\ Accept(r, TRUE)
     /\ input' = [input EXCEPT ![r] = @ - 1]

\* One pass of readcb's loop: OnData, and the first part of OnClose when it was
\* true.  The loop goes on after OnClose.
ReadData ==
  LET r == reading
  IN /\ crash = "none" /\ pump = "read" /\ input[r] > 0
     /\ \E d \in BOOLEAN : OnDataReturns(r, d) /\ Accept(r, d)
     /\ input' = [input EXCEPT ![r] = @ - 1]

\* OnData fails: nobody catches what it throws.
ReadFails ==
  /\ PumpGoes("read", "read")
  /\ input[reading] > 0 /\ OnDataFails(reading)
  /\ crash' = "OnData"
  /\ UNCHANGED <<caller, callVars, baseVars, reading, dying, sockVars, dataVars,
                 sets, overlap>>

\* The second part of OnClose: Cleanup.  libevent holds the buffer until
\* readcb has returned.
Cleanup ==
  /\ PumpGoes("close", "read")
  /\ conn' = [conn EXCEPT ![reading] = "freed"]
  /\ UNCHANGED <<caller, callVars, baseVars, reading, dying, bevBase, sent,
                 dataVars, endVars>>

ReadReturns ==
  /\ PumpGoes("read", "loop")
  /\ input[reading] = 0
  /\ reading' = 0
  /\ UNCHANGED <<caller, callVars, baseVars, dying, sockVars, dataVars, endVars>>

\* The peer closes or resets the connection: libevent stops reading and calls
\* eventcb, which sets connect_status at most and never calls OnClose.
EventCb(r) ==
  /\ crash = "none" /\ pump = "loop" /\ Registered(r)
  /\ conn' = [conn EXCEPT ![r] = "lost"]
  /\ UNCHANGED <<caller, callVars, baseVars, pumpVars, bevBase, sent, dataVars,
                 endVars>>

\* Mutant: event_base_loop is called with EVLOOP_NONBLOCK.
LoopEnds_NonBlock ==
  /\ PumpGoes("loop", "clear")
  /\ \A r \in Requests : ~(Registered(r) /\ net[r] > 0)
  /\ UNCHANGED <<caller, callVars, baseVars, reading, dying, sockVars, dataVars,
                 endVars>>

\* event_base_loop returns when no event is left.
LoopEnds ==
  /\ PumpGoes("loop", "clear")
  /\ \A r \in Requests : ~Registered(r)
  /\ UNCHANGED <<caller, callVars, baseVars, reading, dying, sockVars, dataVars,
                 endVars>>

\* Mutant: loop.base keeps pointing to the base.
ClearBase_Keeps ==
  /\ PumpGoes("clear", "free")
  /\ dying' = base
  /\ UNCHANGED <<caller, callVars, baseVars, reading, sockVars, dataVars, endVars>>

ClearBase ==
  /\ PumpGoes("clear", "free")
  /\ dying' = base /\ base' = 0
  /\ UNCHANGED <<caller, callVars, made, freed, reading, sockVars, dataVars,
                 endVars>>

FreeBase ==
  /\ PumpGoes("free", "done")
  /\ freed' = freed \cup {dying}
  /\ UNCHANGED <<caller, callVars, base, made, reading, dying, sockVars, dataVars,
                 endVars>>

----------------------------------------------------------------------------
CallerNext ==
  Begin \/ ReadBase \/ Refused \/ Connect \/ Kick \/ Join \/ Send \/ Await
  \/ StatusPage \/ Finish

PumpNext ==
  \/ StartLoop \/ ReadData \/ ReadFails \/ Cleanup \/ ReadReturns
  \/ LoopEnds \/ ClearBase \/ FreeBase
  \/ \E r \in Requests : ReadEvent(r)

Next ==
  \/ CallerNext \/ PumpNext
  \/ \E r \in Requests : Answer(r) \/ EventCb(r)

\* Both threads are scheduled, and a server answers what it has read.  Nothing
\* makes a connection fail.
Fairness ==
  /\ WF_vars(CallerNext) /\ WF_vars(PumpNext)
  /\ \A r \in Requests : WF_vars(Answer(r))

Spec == Init /\ [][Next]_vars /\ Fairness

----------------------------------------------------------------------------
(* Properties. *)

Crashes == {"none", "freed base", "null base", "no bufferevent", "OnData"}

\* Types of the state of the caller, the event loop and the sockets.
ClientTypeOK ==
  /\ usage \in Usages /\ sound \in [Requests -> BOOLEAN]
  /\ caller \in {"idle", "base", "connect", "kick", "join", "send", "wait", "status",
                 "done"}
  /\ cur \in 0..N /\ local \in Nat
  /\ base \in Nat /\ made \in Nat /\ freed \subseteq Nat /\ dying \in Nat
  /\ pump \in {"none", "start", "loop", "read", "close", "clear", "free", "done"}
  /\ reading \in 0..N
  /\ conn \in [Requests -> {"none", "refused", "open", "lost", "freed"}]
  /\ bevBase \in [Requests -> Nat]
  /\ sent \subseteq Requests /\ replied \subseteq Requests
  /\ goal \in [Requests -> 0..MaxExtents] /\ got \in [Requests -> 0..(MaxExtents + 1)]
  /\ net \in [Requests -> Nat] /\ input \in [Requests -> Nat]
  /\ sets \in [Requests -> Nat]
  /\ crash \in Crashes /\ overlap \subseteq Requests

\* What the promise of r tells its future.
Outcome(r) ==
  CASE sets[r] = 0                              -> "pending"
    [] sets[r] = 1 /\ ~sound[r]                 -> "as read"
    [] sets[r] = 1 /\ sound[r] /\ Complete(r)   -> "whole"
    [] OTHER                                    -> "broken"

Future == INSTANCE RequestFuture
            WITH asked <- sent, outcome <- [r \in Requests |-> Outcome(r)]

\* The socket callbacks resolve every future as RequestFuture says: after the
\* request was sent, and never twice, although readcb's loop goes on after
\* OnClose; with the whole of a sound response, in however many extents and
\* calls of readcb it arrives, and with whatever OnData made of another one.
ResolvesLikeAFuture == Future!FutureSpec

\* If each request is begun when the event loop of the one before has ended, and
\* no peer closes a connection before MakeRequest has written to it, then caller
\* and pump thread never meet: no base is used after it was freed or cleared,
\* none is freed under an open socket, and kick_events never waits.
SafeWithoutOverlap ==
  overlap = {} /\ (\A r \in Requests : conn[r] = "lost" => r \in sent) =>
    /\ crash \notin {"freed base", "null base"}
    /\ caller = "join" => PumpEnded
    /\ \A r \in Requests : conn[r] = "open" => bevBase[r] \notin freed \cup {0}

\* A request that was sent is resolved, unless its connection was lost, its
\* response is not sound, the process ended, a request overlapped with the event
\* loop (kick_events may then wait forever), or the caller is a handler of the
\* server it asks (which never gets to answer).
SentIsResolved ==
  \A r \in Requests :
    r \in sent ~> \/ sets[r] = 1
                  \/ conn[r] = "lost"
                  \/ r \in replied /\ ~sound[r]
                  \/ crash # "none"
                  \/ overlap # {}
                  \/ usage = "poll"

\* `include/rikitiki/examples/tests.h` 151: "Run all known tests, then go try to
\* get the status page": StartTests gets through its requests to operator(),
\* unless a connection fails or the process ends.
StatusPageReached ==
  usage = "poll" ~> \/ caller \in {"status", "done"}
                    \/ crash # "none"
                    \/ \E r \in Requests : conn[r] = "lost"

=============================================================================
