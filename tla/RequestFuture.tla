---------------------------- MODULE RequestFuture ----------------------------
(***************************************************************************)
(* What a caller of Server::ProcessRequest is promised by the              *)
(* std::future<std::shared_ptr<Response>> it gets                          *)
(* (include/rikitiki/server.h): a request that was sent is resolved at     *)
(* most once, and with the whole response when that is one the reader can  *)
(* read.  RequestClient is compared with this specification.               *)
(***************************************************************************)
CONSTANT Requests

VARIABLES
  asked,    \* the requests that have been sent
  sound,    \* whether the response to each is one the reader can read
  outcome   \* what became of each request's promise

futureVars == <<asked, sound, outcome>>

FutureInit ==
  /\ asked = {}
  /\ sound \in [Requests -> BOOLEAN]
  /\ outcome = [r \in Requests |-> "pending"]

Ask(r) ==
  /\ r \notin asked
  /\ asked' = asked \cup {r}
  /\ UNCHANGED <<sound, outcome>>

Resolve(r) ==
  /\ r \in asked /\ outcome[r] = "pending"
  /\ outcome' = [outcome EXCEPT ![r] = IF sound[r] THEN "whole" ELSE "as read"]
  /\ UNCHANGED <<asked, sound>>

FutureNext == \E r \in Requests : Ask(r) \/ Resolve(r)

FutureSpec == FutureInit /\ [][FutureNext]_futureVars

=============================================================================
