------------------------ MODULE RequestClient_proofs ------------------------
(***************************************************************************)
(* Proofs about RequestClient: its state keeps its types, the socket       *)
(* callbacks resolve the futures as RequestFuture promises, and requests   *)
(* that do not overlap share the event loop safely, for any number of      *)
(* requests and any size of their responses.                               *)
(***************************************************************************)
EXTENDS RequestClient, TLAPS

\* The caller makes the requests in order: it has sent none after `cur`, and not
\* `cur` itself before Send.
CallInv ==
  /\ caller \notin {"idle", "status", "done"} => cur \in Requests
  /\ \A r \in sent : r <= cur
  /\ caller \in {"base", "connect", "kick", "join", "send"} => cur \notin sent

\* The pump thread is in the readcb of some request.
PumpInv == pump \in {"read", "close"} => reading \in Requests

\* What a socket has received: nothing before the server replied, and at most one
\* extent more than the response has.  The promise is set at most once; that of a
\* sound response when the last extent was read, after which OnData gets no more.
DataInv ==
  /\ replied \subseteq sent
  /\ \A r \in Requests :
       /\ r \notin replied => /\ goal[r] = 0 /\ net[r] = 0 /\ input[r] = 0
                            /\ got[r] = 0 /\ sets[r] = 0
       /\ r \in replied => goal[r] > 0
       /\ net[r] + input[r] + got[r] <= goal[r] + 1
       /\ sets[r] <= 1
       /\ sound[r] => /\ got[r] <= goal[r]
                      /\ sets[r] = IF Complete(r) THEN 1 ELSE 0

ClientInv == ClientTypeOK /\ CallInv /\ PumpInv /\ DataInv

----------------------------------------------------------------------------
(* Steps that leave the data alone. *)

\* DataInv depends on the data, the promises and the requests sent only.
LEMMA DataUntouched ==
  ASSUME DataInv, UNCHANGED <<dataVars, sets, sent, sound>>
  PROVE  DataInv'
BY DEF DataInv, dataVars, Complete, Requests

\* Zero stands for "no request".
LEMMA ZeroInRange == 0 \in 0..N
BY ClientAssumption

\* A new base is a natural number.
LEMMA GetBaseType ==
  ASSUME base \in Nat, made \in Nat, GetBase
  PROVE  base' \in Nat /\ made' \in Nat
BY DEF GetBase

\* A request after `cur` has not been sent.
LEMMA NextIsNew ==
  ASSUME N \in Nat, cur \in 0..N, sent \subseteq 1..N, \A r \in sent : r <= cur
  PROVE  /\ cur + 1 \notin sent
         /\ \A r \in sent : r <= cur + 1
<1>1. cur + 1 \notin sent
  <2> SUFFICES ASSUME cur + 1 \in sent PROVE FALSE
    OBVIOUS
  <2>1. cur + 1 <= cur
    OBVIOUS
  <2> QED
    BY <2>1
<1>2. \A r \in sent : r <= cur + 1
  OBVIOUS
<1> QED
  BY <1>1, <1>2

\* The constructor of the socket, up to the start of the pump thread.
LEMMA ConstructorInv ==
  ASSUME ClientInv, Begin \/ ReadBase \/ Refused \/ Connect \/ Kick \/ Join
  PROVE  ClientInv'
<1> USE DEF ClientInv, CallerGoes, callVars, baseVars, pumpVars, sockVars, endVars
<1>1. DataInv' /\ PumpInv'
  <2>1. DataInv'
    BY DataUntouched DEF Begin, ReadBase, Refused, Connect, Kick, Join
  <2>2. PumpInv'
    BY DEF PumpInv, Begin, ReadBase, Refused, Connect, Kick, Join
  <2> QED
    BY <2>1, <2>2
<1>2. CASE Begin
  <2>1. /\ cur' \in Requests /\ cur' \in 0..N /\ cur' = cur + 1
        /\ caller' = "base" /\ sent' = sent
    BY <1>2, ClientAssumption DEF Begin, ClientTypeOK, Requests
  <2>2. CallInv'
    BY <2>1, NextIsNew, ClientAssumption DEF CallInv, ClientTypeOK, Requests
  <2>3. base' \in Nat /\ made' \in Nat
    BY <1>2, GetBaseType DEF Begin, ClientTypeOK
  <2>4. overlap' \in SUBSET Requests
    BY <1>2, <2>1 DEF Begin, ClientTypeOK
  <2>5. ClientTypeOK'
    BY <1>2, <2>1, <2>3, <2>4 DEF Begin, ClientTypeOK, dataVars, Crashes
  <2> QED
    BY <1>1, <2>2, <2>5
<1>3. CASE ReadBase
  BY <1>1, <1>3 DEF ReadBase, dataVars, ClientTypeOK, CallInv
<1>4. CASE Refused
  BY <1>1, <1>4 DEF Refused, dataVars, ClientTypeOK, CallInv
<1>5. CASE Connect
  <2>1. CallInv'
    BY <1>5 DEF Connect, CallInv
  <2>2. /\ conn' \in [Requests -> {"none", "refused", "open", "lost", "freed"}]
        /\ bevBase' \in [Requests -> Nat] /\ crash' \in Crashes
    <3>1. cur \in Requests /\ local \in Nat
      BY <1>5 DEF Connect, CallInv, ClientTypeOK
    <3>2. CASE local \in freed
      BY <1>5, <3>2 DEF Connect, ClientTypeOK, Crashes
    <3>3. CASE local \notin freed
      BY <1>5, <3>1, <3>3 DEF Connect, ClientTypeOK, Crashes
    <3> QED
      BY <3>2, <3>3
  <2>3. ClientTypeOK'
    BY <1>5, <2>2 DEF Connect, ClientTypeOK, dataVars, Crashes
  <2> QED
    BY <1>1, <2>1, <2>3
<1>6. CASE Kick
  <2>1. base' \in Nat /\ made' \in Nat
    BY <1>6, GetBaseType DEF Kick, ClientTypeOK
  <2> QED
    BY <1>1, <1>6, <2>1 DEF Kick, dataVars, ClientTypeOK, CallInv
<1>7. CASE Join
  BY <1>1, <1>7 DEF Join, dataVars, ClientTypeOK, CallInv
<1> QED
  BY <1>2, <1>3, <1>4, <1>5, <1>6, <1>7

\* What the caller does once it has a socket.
LEMMA CallerInv ==
  ASSUME ClientInv, Send \/ Await \/ StatusPage \/ Finish
  PROVE  ClientInv'
<1> USE DEF ClientInv, CallerGoes, callVars, baseVars, pumpVars, sockVars, endVars
<1>1. CASE Send
  <2>1. DataInv'
    BY <1>1 DEF Send, DataInv, dataVars, Complete, Requests
  <2>2. crash' \in Crashes
    BY <1>1 DEF Send, Crashes
  <2>3. /\ sent' \subseteq sent \cup {cur} /\ cur \in Requests
        /\ caller' \in {"wait", "idle"} /\ UNCHANGED callVars
    BY <1>1 DEF Send, CallInv
  <2>4. CallInv'
    BY <2>3, ClientAssumption DEF CallInv, ClientTypeOK, Requests
  <2>5. PumpInv'
    BY <1>1 DEF Send, PumpInv
  <2>6. ClientTypeOK'
    BY <1>1, <2>2, <2>3 DEF Send, ClientTypeOK, dataVars, Crashes
  <2> QED
    BY <2>1, <2>4, <2>5, <2>6
<1>2. CASE Await
  <2>1. DataInv'
    BY <1>2, DataUntouched DEF Await
  <2> QED
    BY <1>2, <2>1 DEF Await, dataVars, ClientTypeOK, CallInv, PumpInv
<1>3. CASE Finish
  <2>1. DataInv'
    BY <1>3, DataUntouched DEF Finish
  <2> QED
    BY <1>3, <2>1 DEF Finish, dataVars, ClientTypeOK, CallInv, PumpInv
<1>4. CASE StatusPage
  <2>1. DataInv'
    BY <1>4, DataUntouched DEF StatusPage
  <2> QED
    BY <1>4, <2>1 DEF StatusPage, dataVars, ClientTypeOK, CallInv, PumpInv
<1> QED
  BY <1>1, <1>2, <1>3, <1>4

\* The pump thread outside OnData, and eventcb.
LEMMA PumpStepInv ==
  ASSUME ClientInv,
         \/ StartLoop \/ ReadFails \/ Cleanup \/ ReadReturns \/ LoopEnds \/ ClearBase
         \/ FreeBase \/ \E r \in Requests : EventCb(r)
  PROVE  ClientInv'
<1> USE ZeroInRange DEF ClientInv, ClientTypeOK, CallInv, PumpInv, PumpGoes, callVars,
                        baseVars, pumpVars, sockVars, endVars, Crashes
<1>1. DataInv'
  BY DataUntouched DEF StartLoop, ReadFails, Cleanup, ReadReturns, LoopEnds, ClearBase,
                       FreeBase, EventCb
<1>2. CASE StartLoop
  BY <1>1, <1>2 DEF StartLoop, dataVars
<1>3. CASE Cleanup
  BY <1>1, <1>3 DEF Cleanup, dataVars
<1>4. CASE ReadReturns
  BY <1>1, <1>4 DEF ReadReturns, dataVars
<1>5. CASE LoopEnds
  BY <1>1, <1>5 DEF LoopEnds, dataVars
<1>6. CASE ClearBase
  BY <1>1, <1>6 DEF ClearBase, dataVars
<1>7. CASE FreeBase
  BY <1>1, <1>7 DEF FreeBase, dataVars
<1>8. CASE \E r \in Requests : EventCb(r)
  BY <1>1, <1>8 DEF EventCb, dataVars
<1>9. CASE ReadFails
  BY <1>1, <1>9 DEF ReadFails, dataVars
<1> QED
  BY <1>2, <1>3, <1>4, <1>5, <1>6, <1>7, <1>8, <1>9

----------------------------------------------------------------------------
(* Steps that move data. *)

\* A reply comes to a socket that has received nothing.
LEMMA AnswerInv ==
  ASSUME ClientInv, NEW r \in Requests, Answer(r)
  PROVE  ClientInv'
<1> PICK size \in 1..MaxExtents, extra \in 0..1 :
       /\ goal' = [goal EXCEPT ![r] = size]
       /\ net' = [net EXCEPT ![r] = size + extra]
  BY DEF Answer
<1>1. r \in sent /\ r \notin replied /\ replied' = replied \cup {r}
  BY DEF Answer
<1>2. UNCHANGED <<caller, callVars, baseVars, pumpVars, sockVars, input, got, endVars>>
  BY DEF Answer
<1>3. /\ goal' \in [Requests -> 0..MaxExtents]
      /\ net' \in [Requests -> Nat]
  BY ClientAssumption DEF ClientInv, ClientTypeOK
<1>4. DataInv'
  <2>1. /\ input[r] = 0 /\ got[r] = 0 /\ sets[r] = 0
        /\ goal'[r] = size /\ net'[r] = size + extra
    BY <1>1 DEF ClientInv, ClientTypeOK, DataInv
  <2>2. \A q \in Requests \ {r} : goal'[q] = goal[q] /\ net'[q] = net[q]
    BY DEF ClientInv, ClientTypeOK
  <2>3. replied' \subseteq sent' /\ UNCHANGED <<input, got, sets, sound>>
    BY <1>1, <1>2 DEF ClientInv, DataInv, callVars, sockVars, endVars
  <2> QED
    <3> SUFFICES ASSUME NEW q \in Requests
        PROVE  /\ q \notin replied' => /\ goal'[q] = 0 /\ net'[q] = 0 /\ input'[q] = 0
                                      /\ got'[q] = 0 /\ sets'[q] = 0
               /\ q \in replied' => goal'[q] > 0
               /\ net'[q] + input'[q] + got'[q] <= goal'[q] + 1
               /\ sets'[q] <= 1
               /\ sound'[q] =>
                    /\ got'[q] <= goal'[q]
                    /\ sets'[q] = IF goal'[q] > 0 /\ got'[q] = goal'[q] THEN 1 ELSE 0
      BY <2>3 DEF DataInv, Complete
    <3>1. CASE q = r
      BY <1>1, <2>1, <2>3, <3>1, ClientAssumption
    <3>2. CASE q # r
      BY <1>1, <2>2, <2>3, <3>2 DEF ClientInv, DataInv, Complete
    <3> QED
      BY <3>1, <3>2
<1>5. ClientTypeOK'
  BY <1>1, <1>2, <1>3 DEF ClientInv, ClientTypeOK, callVars, baseVars, pumpVars,
                          sockVars, endVars, Requests
<1> QED
  BY <1>2, <1>4, <1>5 DEF ClientInv, CallInv, PumpInv, callVars, pumpVars, sockVars,
                          Requests

\* Extents go from the network to the input buffer.
LEMMA ReadEventInv ==
  ASSUME ClientInv, NEW r \in Requests, ReadEvent(r)
  PROVE  ClientInv'
<1> PICK k \in 1..net[r] :
       /\ input' = [input EXCEPT ![r] = k]
       /\ net' = [net EXCEPT ![r] = @ - k]
  BY DEF ReadEvent
<1>1. /\ reading' = r /\ pump' = "read"
      /\ UNCHANGED <<caller, callVars, baseVars, dying, sockVars, goal, got, replied,
                     endVars>>
  BY DEF ReadEvent, PumpGoes
<1>2. input' \in [Requests -> Nat] /\ net' \in [Requests -> Nat]
  BY DEF ClientInv, ClientTypeOK
<1>3. DataInv'
  <2>1. /\ r \in replied /\ net'[r] + input'[r] <= net[r] + input[r]
        /\ \A q \in Requests \ {r} : net'[q] = net[q] /\ input'[q] = input[q]
    BY DEF ClientInv, ClientTypeOK, DataInv
  <2>2. UNCHANGED <<sent, replied, sound, goal, got, sets>>
    BY <1>1 DEF sockVars, endVars, callVars
  <2>3. \A q \in Requests : net'[q] + input'[q] + got[q] <= goal[q] + 1
    <3>1. CASE got \in [Requests -> Nat] /\ goal \in [Requests -> Nat]
      BY <1>2, <2>1, <3>1 DEF ClientInv, ClientTypeOK, DataInv
    <3> QED
      BY <3>1, ClientAssumption DEF ClientInv, ClientTypeOK
  <2>4. \A q \in Requests : q \notin replied => net'[q] = 0 /\ input'[q] = 0
    BY <2>1 DEF ClientInv, DataInv
  <2> QED
    BY <2>2, <2>3, <2>4 DEF ClientInv, DataInv, Complete, Requests
<1>4. ClientTypeOK'
  BY <1>1, <1>2 DEF ClientInv, ClientTypeOK, callVars, baseVars, sockVars, endVars,
                    Requests
<1> QED
  BY <1>1, <1>3, <1>4 DEF ClientInv, CallInv, PumpInv, callVars, sockVars, Requests

\* One pass of readcb: one extent more, and the promise set if OnData was true.
LEMMA ReadDataInv ==
  ASSUME ClientInv, ReadData
  PROVE  ClientInv'
<1> DEFINE r == reading
<1> PICK d \in BOOLEAN : OnDataReturns(r, d) /\ Accept(r, d)
  BY DEF ReadData
<1>1. /\ r \in Requests /\ input[r] > 0 /\ input' = [input EXCEPT ![r] = @ - 1]
      /\ UNCHANGED <<caller, callVars, baseVars, reading, dying, sockVars, goal, net,
                     replied, crash, overlap>>
  BY DEF ReadData, Accept, ClientInv, PumpInv
<1>2. /\ got' = [got EXCEPT ![r] = @ + 1]
      /\ sets' = IF d THEN [sets EXCEPT ![r] = @ + 1] ELSE sets
      /\ pump' \in {"read", "close"}
  BY DEF Accept
<1>3. r \in replied /\ goal[r] > 0 /\ got[r] + 1 <= MaxExtents + 1
  BY <1>1, ClientAssumption DEF ClientInv, ClientTypeOK, DataInv
<1>4. /\ d => sets[r] = 0
      /\ sound[r] => sets[r] = 0 /\ d = (got[r] + 1 = goal[r])
  BY DEF OnDataReturns
<1>5. /\ got' \in [Requests -> 0..(MaxExtents + 1)] /\ input' \in [Requests -> Nat]
      /\ sets' \in [Requests -> Nat]
  BY <1>1, <1>2, <1>3, ClientAssumption DEF ClientInv, ClientTypeOK
<1>6. DataInv'
  <2>1. /\ got'[r] = got[r] + 1 /\ input'[r] = input[r] - 1
        /\ sets'[r] = IF d THEN 1 ELSE sets[r]
    BY <1>1, <1>2, <1>4 DEF ClientInv, ClientTypeOK
  <2>2. \A q \in Requests \ {r} : /\ got'[q] = got[q] /\ input'[q] = input[q]
                                  /\ sets'[q] = sets[q]
    BY <1>1, <1>2 DEF ClientInv, ClientTypeOK
  <2>3. UNCHANGED <<goal, net, replied, sent, sound>>
    BY <1>1 DEF sockVars, callVars
  <2>4. /\ net[r] + input'[r] + got'[r] <= goal[r] + 1
        /\ sets'[r] <= 1
        /\ sound[r] => /\ got'[r] <= goal[r]
                       /\ sets'[r] = IF goal[r] > 0 /\ got'[r] = goal[r] THEN 1 ELSE 0
    BY <1>1, <1>3, <1>4, <2>1, ClientAssumption DEF ClientInv, ClientTypeOK, DataInv, Complete
  <2> QED
    <3>1. replied' \subseteq sent'
      BY <2>3 DEF ClientInv, DataInv
    <3> SUFFICES ASSUME NEW q \in Requests
        PROVE  /\ q \notin replied => /\ goal[q] = 0 /\ net[q] = 0 /\ input'[q] = 0
                                     /\ got'[q] = 0 /\ sets'[q] = 0
               /\ net[q] + input'[q] + got'[q] <= goal[q] + 1
               /\ q \in replied => goal[q] > 0
               /\ sets'[q] <= 1
               /\ sound[q] =>
                    /\ got'[q] <= goal[q]
                    /\ sets'[q] = IF goal[q] > 0 /\ got'[q] = goal[q] THEN 1 ELSE 0
      BY <2>3, <3>1 DEF DataInv, Complete, Requests
    <3>2. CASE q = r
      BY <1>3, <2>4, <3>2
    <3>3. CASE q # r
      BY <2>2, <3>3 DEF ClientInv, DataInv, Complete
    <3> QED
      BY <3>2, <3>3
<1>7. ClientTypeOK'
  BY <1>1, <1>2, <1>5 DEF ClientInv, ClientTypeOK, Requests, callVars, baseVars, sockVars
<1> QED
  BY <1>1, <1>6, <1>7 DEF ClientInv, CallInv, PumpInv, callVars, sockVars, Requests

----------------------------------------------------------------------------
(* The invariant. *)

\* Nothing has been asked and nothing received.
LEMMA ClientInitInv == Init => ClientInv
BY ClientAssumption
DEF Init, Each, ClientInv, ClientTypeOK, CallInv, PumpInv, DataInv, Complete, Requests,
    Crashes

\* Every step keeps the invariant.
LEMMA ClientStepInv == ClientInv /\ [Next]_vars => ClientInv'
<1> SUFFICES ASSUME ClientInv, [Next]_vars PROVE ClientInv'
  OBVIOUS
<1>1. CASE UNCHANGED vars
  BY <1>1 DEF vars, callVars, baseVars, pumpVars, sockVars, dataVars, endVars, ClientInv,
              ClientTypeOK, CallInv, PumpInv, DataInv, Complete, Requests, Crashes
<1>2. CASE Next
  BY <1>2, ConstructorInv, CallerInv, PumpStepInv, AnswerInv, ReadEventInv, ReadDataInv
  DEF Next, CallerNext, PumpNext
<1> QED
  BY <1>1, <1>2

\* The inductive invariant holds throughout.
THEOREM ClientInvariance == Spec => []ClientInv
BY ClientInitInv, ClientStepInv, PTL DEF Spec

\* The state of caller, event loop and sockets keeps its types; no response gets
\* more than one extent beyond its own, for any number of requests.
THEOREM ClientTypeCorrect == Spec => []ClientTypeOK
<1>1. ClientInv => ClientTypeOK
  BY DEF ClientInv
<1> QED
  BY <1>1, ClientInvariance, PTL

----------------------------------------------------------------------------
(* The refinement of RequestFuture. *)

\* What each future is told: nothing, or the response.
FuturesTold ==
  \A r \in Requests : Outcome(r) = IF sets[r] = 0 THEN "pending"
                                  ELSE IF sound[r] THEN "whole" ELSE "as read"

LEMMA InvTells == ClientInv => FuturesTold
<1> SUFFICES ASSUME ClientInv, NEW r \in Requests
             PROVE  Outcome(r) = IF sets[r] = 0 THEN "pending"
                                 ELSE IF sound[r] THEN "whole" ELSE "as read"
  BY DEF FuturesTold
<1>1. sets[r] = 0 \/ sets[r] = 1
  BY DEF ClientInv, ClientTypeOK, DataInv
<1>2. sound[r] /\ sets[r] = 1 => Complete(r)
  BY DEF ClientInv, DataInv
<1>3. CASE sets[r] = 0
  BY <1>3 DEF Outcome
<1>4. CASE sets[r] = 1 /\ sound[r]
  BY <1>2, <1>4 DEF Outcome
<1>5. CASE sets[r] = 1 /\ ~sound[r]
  BY <1>5 DEF Outcome
<1> QED
  BY <1>1, <1>3, <1>4, <1>5

\* A step that leaves the promises alone.
LEMMA FutureUntouched ==
  ASSUME FuturesTold, FuturesTold', UNCHANGED <<sent, sound, sets>>
  PROVE  UNCHANGED Future!futureVars
<1>1. \A r \in Requests : Outcome(r)' = Outcome(r)
  BY DEF FuturesTold, Requests
<1> QED
  BY <1>1 DEF Future!futureVars, Requests

\* MakeRequest is the request of the abstract specification, unless it ends the
\* process.
LEMMA SendAsks ==
  ASSUME ClientInv, FuturesTold, FuturesTold', Send
  PROVE  [Future!FutureNext]_(Future!futureVars)
<1>1. cur \in Requests /\ cur \notin sent
  BY DEF ClientInv, CallInv, Send, CallerGoes
<1>2. UNCHANGED <<sound, sets>>
  BY DEF Send, callVars
<1>3. CASE sent' = sent
  BY <1>2, <1>3, FutureUntouched
<1>4. CASE sent' = sent \cup {cur}
  <2>1. \A r \in Requests : Outcome(r)' = Outcome(r)
    BY <1>2 DEF FuturesTold, Requests
  <2>2. Future!Ask(cur)
    BY <1>1, <1>2, <1>4, <2>1 DEF Future!Ask, Requests
  <2> QED
    BY <1>1, <2>2 DEF Future!FutureNext
<1> QED
  BY <1>3, <1>4 DEF Send

\* A pass of readcb resolves the future of its request, with the whole response if
\* that is sound, or leaves every future alone.
LEMMA ReadDataResolves ==
  ASSUME ClientInv, FuturesTold, FuturesTold', ReadData
  PROVE  [Future!FutureNext]_(Future!futureVars)
<1> PICK r \in Requests : r = reading
  BY DEF ReadData, ClientInv, PumpInv
<1> PICK d \in BOOLEAN : OnDataReturns(r, d) /\ Accept(r, d)
  BY DEF ReadData
<1>1. r \in Requests /\ input[r] > 0 /\ UNCHANGED <<sent, sound>>
  BY DEF ReadData, Accept, sockVars, callVars
<1>2. CASE ~d
  <2>1. UNCHANGED sets
    BY <1>2 DEF Accept
  <2> QED
    BY <1>1, <2>1, FutureUntouched
<1>3. CASE d
  <2>1. sets[r] = 0 /\ sets' = [sets EXCEPT ![r] = @ + 1]
    BY <1>3 DEF OnDataReturns, Accept
  <2>2. sets'[r] = 1 /\ \A q \in Requests \ {r} : sets'[q] = sets[q]
    BY <1>1, <2>1 DEF ClientInv, ClientTypeOK
  <2>3. r \in sent
    BY <1>1 DEF ClientInv, ClientTypeOK, DataInv
  <2>4. Outcome(r) = "pending" /\ Outcome(r)' = IF sound[r] THEN "whole" ELSE "as read"
    <3>1. Outcome(r) = "pending"
      BY <2>1 DEF FuturesTold
    <3>2. sets'[r] # 0 /\ sound'[r] = sound[r]
      BY <1>1, <2>2
    <3>3. Outcome(r)' = IF sound[r] THEN "whole" ELSE "as read"
      BY <3>2 DEF FuturesTold, Requests
    <3> QED
      BY <3>1, <3>3
  <2>5. ASSUME NEW q \in Requests \ {r} PROVE Outcome(q)' = Outcome(q)
    <3>1. sets'[q] = sets[q] /\ sound'[q] = sound[q]
      BY <1>1, <2>2
    <3> QED
      BY <3>1 DEF FuturesTold, Requests
  <2>6. [q \in Requests |-> Outcome(q)]' = [[q \in Requests |-> Outcome(q)]
            EXCEPT ![r] = IF sound[r] THEN "whole" ELSE "as read"]
    BY <1>1, <2>4, <2>5
  <2>7. Future!Resolve(r)
    BY <1>1, <2>3, <2>4, <2>6 DEF Future!Resolve
  <2> QED
    BY <1>1, <2>7 DEF Future!FutureNext
<1> QED
  BY <1>2, <1>3

\* Every step of the client is a step of the abstract specification or leaves it
\* alone.
LEMMA ClientStepIsFutureStep ==
  ClientInv /\ FuturesTold /\ FuturesTold' /\ [Next]_vars
    => [Future!FutureNext]_(Future!futureVars)
<1> SUFFICES ASSUME ClientInv, FuturesTold, FuturesTold', [Next]_vars
             PROVE  [Future!FutureNext]_(Future!futureVars)
  OBVIOUS
<1>1. CASE UNCHANGED vars
  BY <1>1, FutureUntouched DEF vars, callVars, sockVars, endVars
<1>2. CASE \/ Begin \/ ReadBase \/ Refused \/ Connect \/ Kick \/ Join \/ Await
           \/ StatusPage \/ Finish
  BY <1>2, FutureUntouched
  DEF Begin, ReadBase, Refused, Connect, Kick, Join, Await, StatusPage, Finish, callVars,
      sockVars, endVars
<1>3. CASE \/ StartLoop \/ ReadFails \/ Cleanup \/ ReadReturns \/ LoopEnds \/ ClearBase
           \/ FreeBase \/ \E r \in Requests : ReadEvent(r) \/ EventCb(r) \/ Answer(r)
  BY <1>3, FutureUntouched
  DEF StartLoop, ReadFails, Cleanup, ReadReturns, LoopEnds, ClearBase, FreeBase, ReadEvent,
      EventCb, Answer, callVars, sockVars, endVars
<1> QED
  BY <1>1, <1>2, <1>3, SendAsks, ReadDataResolves DEF Next, CallerNext, PumpNext

\* For any number of requests, answered in any number of extents: the future of a
\* request is resolved at most once, after the request was sent, and with the
\* whole response if that is sound.  RequestClient implements RequestFuture.
THEOREM ClientImplementsFuture == Spec => ResolvesLikeAFuture
<1>1. Init => Future!FutureInit
  BY DEF Init, Each, Future!FutureInit, Outcome, Requests
<1> QED
  BY <1>1, ClientInvariance, InvTells, ClientStepIsFutureStep, PTL
  DEF Spec, ResolvesLikeAFuture, Future!FutureSpec

----------------------------------------------------------------------------
(* Requests that do not overlap with the event loop. *)

\* The bases are numbered in the order they are created.
BaseInv ==
  /\ base <= made /\ freed \subseteq 1..made
  /\ base \notin freed
  /\ pump \in {"start", "loop", "read", "close", "clear"} => base # 0
  /\ pump = "free" => base = 0 /\ dying \in 1..made

\* From Begin to Join the caller is alone, and works on the current base.
AloneInv ==
  /\ caller \in {"base", "connect", "kick", "join"} => PumpEnded /\ base # 0
  /\ caller = "connect" => local = base
  /\ caller \in {"kick", "join", "send"} => conn[cur] # "none"

\* A socket is open on the current base while there is a thread that will run its
\* loop, or that is about to start one.  A socket that readcb has closed was sent a
\* request.
SocketInv ==
  /\ \A r \in Requests : conn[r] = "open" =>
       /\ bevBase[r] = base /\ base # 0
       /\ pump \notin {"clear", "free"}
       /\ PumpEnded => caller \in {"kick", "join"}
  /\ \A r \in Requests : conn[r] = "freed" => r \in sent
  /\ pump \in {"read", "close"} => reading \in sent

\* The one way to a freed base: the peer was faster than MakeRequest.
CrashInv ==
  /\ crash # "null base"
  /\ crash = "freed base" => \E r \in Requests : conn[r] = "lost" /\ r \notin sent

ApartInv == overlap = {} => BaseInv /\ AloneInv /\ SocketInv /\ CrashInv

\* get_base leaves a base there is, or makes one that was never freed.
LEMMA GetBaseKeepsApart ==
  ASSUME ClientInv, BaseInv, GetBase
  PROVE  /\ base' \in Nat \ {0} /\ base' <= made'
         /\ freed \subseteq 1..made' /\ base' \notin freed
         /\ base # 0 => base' = base
BY DEF ClientInv, ClientTypeOK, BaseInv, GetBase

\* The caller on its way to Join.
LEMMA ConstructorApart ==
  ASSUME ClientInv, ApartInv, overlap' = {},
         Begin \/ ReadBase \/ Refused \/ Connect \/ Kick \/ Join
  PROVE  ApartInv'
<1> USE DEF CallerGoes, callVars, baseVars, pumpVars, sockVars, endVars
<1>0. overlap = {} /\ crash = "none" /\ UNCHANGED sent
  BY DEF Begin, ReadBase, Refused, Connect, Kick, Join
<1>1. BaseInv /\ AloneInv /\ SocketInv /\ CrashInv
  BY <1>0 DEF ApartInv
<1>2. CASE Begin
  <2>1. /\ PumpEnded /\ caller = "idle" /\ caller' = "base"
        /\ UNCHANGED <<conn, bevBase, pump, reading, dying, freed, crash>>
    BY <1>2 DEF Begin
  <2>2. base' \in Nat \ {0} /\ base' <= made' /\ freed \subseteq 1..made' /\ base' \notin freed
    BY <1>1, <1>2, GetBaseKeepsApart DEF Begin
  <2>3. BaseInv' /\ AloneInv'
    BY <2>1, <2>2 DEF BaseInv, AloneInv, PumpEnded
  <2>4. SocketInv' /\ CrashInv'
    BY <1>0, <1>1, <2>1 DEF SocketInv, CrashInv, PumpEnded
  <2> QED
    BY <2>3, <2>4 DEF ApartInv
<1>3. CASE ReadBase
  BY <1>0, <1>1, <1>3 DEF ReadBase, ApartInv, BaseInv, AloneInv, SocketInv, CrashInv, PumpEnded
<1>4. CASE Refused
  <2>1. cur \in Requests /\ conn'[cur] = "refused" /\ \A r \in Requests \ {cur} : conn'[r] = conn[r]
    BY <1>4 DEF Refused, ClientInv, ClientTypeOK, CallInv
  <2> QED
    BY <1>0, <1>1, <1>4, <2>1
    DEF Refused, ApartInv, BaseInv, AloneInv, SocketInv, CrashInv, PumpEnded
<1>5. CASE Connect
  <2>1. cur \in Requests /\ local = base /\ local \notin freed /\ PumpEnded /\ base # 0
    BY <1>1, <1>5 DEF Connect, ClientInv, CallInv, AloneInv, BaseInv
  <2>2. /\ conn' = [conn EXCEPT ![cur] = "open"]
        /\ bevBase' = [bevBase EXCEPT ![cur] = local]
        /\ UNCHANGED crash
    BY <1>5, <2>1 DEF Connect
  <2>3. /\ conn'[cur] = "open" /\ bevBase'[cur] = base
        /\ \A r \in Requests \ {cur} : conn'[r] = conn[r] /\ bevBase'[r] = bevBase[r]
    BY <2>1, <2>2 DEF ClientInv, ClientTypeOK
  <2> QED
    BY <1>0, <1>1, <1>5, <2>1, <2>2, <2>3
    DEF Connect, ApartInv, BaseInv, AloneInv, SocketInv, CrashInv, PumpEnded
<1>6. CASE Kick
  <2>1. base' = base /\ made' = made
    BY <1>1, <1>6 DEF Kick, GetBase, AloneInv
  <2> QED
    BY <1>0, <1>1, <1>6, <2>1
    DEF Kick, ApartInv, BaseInv, AloneInv, SocketInv, CrashInv, PumpEnded
<1>7. CASE Join
  BY <1>0, <1>1, <1>7 DEF Join, ApartInv, BaseInv, AloneInv, SocketInv, CrashInv, PumpEnded
<1> QED
  BY <1>2, <1>3, <1>4, <1>5, <1>6, <1>7

\* MakeRequest.  Its socket is open, on a base that nobody has freed; or the peer has
\* closed it already.
LEMMA SendApart ==
  ASSUME ClientInv, ApartInv, overlap' = {}, Send
  PROVE  ApartInv'
<1>1. overlap = {} /\ crash = "none" /\ BaseInv /\ AloneInv /\ SocketInv /\ CrashInv
  BY DEF Send, CallerGoes, ApartInv
<1>2. /\ caller = "send" /\ caller' \in {"wait", "idle"} /\ sent \subseteq sent'
      /\ UNCHANGED <<cur, local, base, made, freed, pump, reading, dying, conn, bevBase>>
  BY DEF Send, CallerGoes, callVars, baseVars, pumpVars
<1>3. cur \in Requests /\ cur \notin sent /\ conn[cur] # "none"
  BY <1>1, <1>2 DEF ClientInv, CallInv, AloneInv
<1>4. CrashInv'
  <2> SUFFICES ASSUME crash' = "freed base" PROVE conn[cur] = "lost" /\ sent' = sent
    BY <1>2, <1>3 DEF CrashInv, Send
  <2>1. conn[cur] # "refused" /\ bevBase[cur] \in freed /\ sent' = sent
    BY DEF Send
  <2>2. conn[cur] # "open"
    BY <1>1, <1>3, <2>1 DEF SocketInv, BaseInv
  <2>3. conn[cur] # "freed"
    BY <1>1, <1>3 DEF SocketInv
  <2> QED
    BY <1>3, <2>1, <2>2, <2>3 DEF ClientInv, ClientTypeOK
<1>5. BaseInv' /\ AloneInv'
  BY <1>1, <1>2 DEF BaseInv, AloneInv
<1>6. SocketInv'
  BY <1>1, <1>2 DEF SocketInv, PumpEnded
<1> QED
  BY <1>4, <1>5, <1>6 DEF ApartInv

\* Steps of the caller that wait, the server, and readcb up to Cleanup.
LEMMA DataApart ==
  ASSUME ClientInv, ApartInv, overlap' = {},
         \/ Await \/ StatusPage \/ Finish \/ ReadData
         \/ \E r \in Requests : Answer(r) \/ ReadEvent(r)
  PROVE  ApartInv'
<1> USE DEF CallerGoes, PumpGoes, callVars, baseVars, pumpVars, sockVars, endVars
<1>1. overlap = {} /\ crash = "none" /\ BaseInv /\ AloneInv /\ SocketInv /\ CrashInv
  BY DEF Await, StatusPage, Finish, ReadData, Accept, Answer, ReadEvent, ApartInv
<1>2. CASE Await \/ StatusPage \/ Finish \/ \E r \in Requests : Answer(r)
  <2>1. /\ caller' \in {caller, "idle", "status", "done"}
        /\ UNCHANGED <<callVars, baseVars, pumpVars, sockVars, endVars>>
        /\ caller' # caller => caller \in {"wait", "idle", "status"}
    BY <1>2 DEF Await, StatusPage, Finish, Answer
  <2> QED
    BY <1>1, <2>1 DEF ApartInv, BaseInv, AloneInv, SocketInv, CrashInv, PumpEnded
<1>3. CASE \E r \in Requests : ReadEvent(r)
  <2>1. PICK r \in Requests : ReadEvent(r)
    BY <1>3
  <2>2. r \in sent
    BY <2>1 DEF ReadEvent, ClientInv, ClientTypeOK, DataInv
  <2> QED
    BY <1>1, <2>1, <2>2
    DEF ReadEvent, ApartInv, BaseInv, AloneInv, SocketInv, CrashInv, PumpEnded
<1>4. CASE ReadData
  <2>1. /\ pump = "read" /\ pump' \in {"read", "close"}
        /\ crash' = "none"
        /\ UNCHANGED <<caller, callVars, baseVars, reading, dying, sockVars>>
    BY <1>1, <1>4 DEF ReadData, Accept
  <2> QED
    BY <1>1, <2>1 DEF ApartInv, BaseInv, AloneInv, SocketInv, CrashInv, PumpEnded
<1> QED
  BY <1>2, <1>3, <1>4

\* The event loop: it runs on a base, ends when no socket is open, and frees its
\* base before the caller goes on.
LEMMA PumpApart ==
  ASSUME ClientInv, ApartInv, overlap' = {},
         \/ StartLoop \/ ReadFails \/ Cleanup \/ ReadReturns \/ LoopEnds \/ ClearBase
         \/ FreeBase \/ \E r \in Requests : EventCb(r)
  PROVE  ApartInv'
<1> USE DEF PumpGoes, callVars, baseVars, pumpVars, sockVars, endVars
<1>1. overlap = {} /\ crash = "none" /\ BaseInv /\ AloneInv /\ SocketInv /\ CrashInv
  BY DEF StartLoop, ReadFails, Cleanup, ReadReturns, LoopEnds, ClearBase, FreeBase, EventCb,
         ApartInv
<1>0. made \in Nat
  BY DEF ClientInv, ClientTypeOK
<1> USE DEF BaseInv, AloneInv, SocketInv, CrashInv, PumpEnded, ApartInv
<1>2. CASE StartLoop
  <2>1. base # 0 /\ crash' = "none"
    BY <1>1, <1>2 DEF StartLoop
  <2> QED
    BY <1>1, <1>2, <2>1 DEF StartLoop
<1>8. CASE ReadReturns
  BY <1>1, <1>8 DEF ReadReturns
<1>9. CASE ReadFails
  BY <1>1, <1>9 DEF ReadFails
<1>3. CASE Cleanup
  <2>1. reading \in Requests /\ reading \in sent
    BY <1>1, <1>3 DEF Cleanup, ClientInv, PumpInv
  <2>2. conn'[reading] = "freed" /\ \A r \in Requests \ {reading} : conn'[r] = conn[r]
    BY <1>3, <2>1 DEF Cleanup, ClientInv, ClientTypeOK
  <2>3. caller \in {"kick", "join", "send"} => cur \in Requests
    BY DEF ClientInv, CallInv
  <2> QED
    BY <1>1, <1>3, <2>1, <2>2, <2>3 DEF Cleanup
<1>4. CASE LoopEnds
  BY <1>1, <1>4 DEF LoopEnds, Registered
<1>5. CASE ClearBase
  <2>1. dying' \in 1..made /\ base' = 0
    BY <1>1, <1>5 DEF ClearBase, ClientInv, ClientTypeOK
  <2>2. 0 \notin freed
    BY <1>1
  <2> QED
    BY <1>0, <1>1, <1>5, <2>1, <2>2 DEF ClearBase
<1>6. CASE FreeBase
  BY <1>1, <1>6 DEF FreeBase, ClientInv, ClientTypeOK
<1>7. CASE \E r \in Requests : EventCb(r)
  <2>1. PICK r \in Requests : EventCb(r)
    BY <1>7
  <2>2. conn'[r] = "lost" /\ \A q \in Requests \ {r} : conn'[q] = conn[q]
    BY <2>1 DEF EventCb, ClientInv, ClientTypeOK
  <2>3. caller \in {"kick", "join", "send"} => cur \in Requests
    BY DEF ClientInv, CallInv
  <2> QED
    BY <1>1, <2>1, <2>2, <2>3 DEF EventCb
<1> QED
  BY <1>2, <1>3, <1>4, <1>5, <1>6, <1>7, <1>8, <1>9

\* A request that overlaps is never forgotten.
LEMMA OverlapGrows ==
  ASSUME [Next]_vars, overlap' = {}
  PROVE  overlap = {}
BY DEF Next, CallerNext, PumpNext, Begin, ReadBase, Refused, Connect, Kick, Join, Send, Await,
       StatusPage, Finish, StartLoop, ReadData, Accept, ReadFails, Cleanup, ReadReturns, LoopEnds, ClearBase, FreeBase,
       ReadEvent, Answer, EventCb, vars, endVars

\* Every step keeps ApartInv.
LEMMA ApartStep == ClientInv /\ ApartInv /\ [Next]_vars => ApartInv'
<1> SUFFICES ASSUME ClientInv, ApartInv, [Next]_vars, overlap' = {} PROVE ApartInv'
  BY DEF ApartInv
<1>1. CASE UNCHANGED vars
  BY <1>1 DEF vars, callVars, baseVars, pumpVars, sockVars, dataVars, endVars, ApartInv,
              BaseInv, AloneInv, SocketInv, CrashInv, PumpEnded, Requests
<1>2. CASE Next
  BY <1>2, ConstructorApart, SendApart, DataApart, PumpApart DEF Next, CallerNext, PumpNext
<1> QED
  BY <1>1, <1>2

\* Requests that are begun one after the other, on connections no peer closes too
\* early, never meet the event loop: for any number of them no base is used after it
\* was freed or cleared, and kick_events never waits.
THEOREM SequentialUseIsSafe == Spec => []SafeWithoutOverlap
<1>1. Init => ApartInv
  BY DEF Init, Each, ApartInv, BaseInv, AloneInv, SocketInv, CrashInv, PumpEnded, Requests
<1>2. ClientInv /\ ApartInv => SafeWithoutOverlap
  BY DEF ApartInv, BaseInv, AloneInv, SocketInv, CrashInv, SafeWithoutOverlap
<1> QED
  BY <1>1, <1>2, ApartStep, ClientInvariance, PTL DEF Spec

=============================================================================
