------------------------- MODULE MongooseLifecycle -------------------------
(***************************************************************************)
(* Starting, waiting for and stopping MongooseServer objects               *)
(* (src/mongoose/server.cc).  The servers of a process share two globals:  *)
(* the flag `quit` and the condition variable quit_cond.                   *)
(*                                                                         *)
(* Each server has an owner thread, which calls Start, then WaitForStop    *)
(* (together: Run) or Stop, and a poll thread, created by Start.  SIGINT   *)
(* may run signal_handler at any moment between two steps of the threads.  *)
(* Each WaitForStop locks a mutex of its own, so quit_cond is in effect    *)
(* used without a lock: `asleep` is its set of waiters, and notify_all     *)
(* wakes those that are in it at that moment and no others.                *)
(***************************************************************************)
EXTENDS Integers, FiniteSets

CONSTANTS
  Servers,
  MaxSignals,   \* bound: number of SIGINTs
  MaxStarts,    \* bound: number of Start calls per server
  CallsStop     \* whether owners also call Stop instead of WaitForStop

ASSUME LifecycleAssumption ==
  /\ MaxSignals \in Nat /\ MaxStarts \in Nat
  /\ CallsStop \in BOOLEAN

VARIABLES
  quit,       \* the global flag
  asleep,     \* owners blocked in quit_cond.wait
  trapped,    \* SIGINT's disposition: signal_handler, not the default action
  owner,      \* where each owner thread is
  poll,       \* where each poll thread is
  handler,    \* where signal_handler is
  signals,    \* number of SIGINTs so far
  starts,     \* number of Start calls per server
  signalled,  \* history: the servers that ran when signal_handler set quit,
              \* and were not started again
  allAsleep   \* history: every owner was asleep when signal_handler set quit,
              \* and none has called Start since

vars == <<quit, asleep, trapped, owner, poll, handler, signals, starts, signalled,
          allAsleep>>

Init ==
  /\ quit = FALSE
  /\ asleep = {}
  /\ trapped = FALSE
  /\ owner = [s \in Servers |-> "idle"]
  /\ poll = [s \in Servers |-> "none"]
  /\ handler = "idle"
  /\ signals = 0
  /\ starts = [s \in Servers |-> 0]
  /\ signalled = {}
  /\ allAsleep = FALSE

Goto(s, from, to) == owner[s] = from /\ owner' = [owner EXCEPT ![s] = to]

Terminated == handler = "killed"

----------------------------------------------------------------------------
(* The owner of a server. *)

\* Start: the poll thread is created and the call returns.
Start(s) ==
  /\ starts[s] < MaxStarts
  /\ Goto(s, "idle", "started")
  /\ poll' = [poll EXCEPT ![s] = "test"]
  /\ starts' = [starts EXCEPT ![s] = @ + 1]
  /\ signalled' = signalled \ {s} /\ allAsleep' = FALSE
  /\ UNCHANGED <<quit, asleep, trapped, handler, signals>>

\* WaitForStop begins: the global flag is cleared.
ClearQuit(s) ==
  /\ Goto(s, "started", "install")
  /\ quit' = FALSE
  /\ UNCHANGED <<asleep, trapped, poll, handler, signals, starts, signalled, allAsleep>>

InstallHandler(s) ==
  /\ Goto(s, "install", "test")
  /\ trapped' = TRUE
  /\ UNCHANGED <<quit, asleep, poll, handler, signals, starts, signalled, allAsleep>>

\* `while (!quit)`: the flag is read, the wait comes later.
TestQuit(s) ==
  /\ Goto(s, "test", IF quit THEN "stop" ELSE "wait")
  /\ UNCHANGED <<quit, asleep, trapped, poll, handler, signals, starts,
                 signalled, allAsleep>>

\* Mutant: the owner does not wait for the notification.
Sleep_Mutant(s) ==
  /\ Goto(s, "wait", "test")
  /\ asleep' = asleep \cup {s}
  /\ UNCHANGED <<quit, trapped, poll, handler, signals, starts, signalled, allAsleep>>

Sleep(s) ==
  /\ Goto(s, "wait", "asleep")
  /\ asleep' = asleep \cup {s}
  /\ UNCHANGED <<quit, trapped, poll, handler, signals, starts, signalled, allAsleep>>

\* Woken by notify_all.
WakeUp(s) ==
  /\ s \notin asleep
  /\ Goto(s, "asleep", "test")
  /\ UNCHANGED <<quit, asleep, trapped, poll, handler, signals, starts,
                 signalled, allAsleep>>

\* A condition variable may also wake a waiter without a notification.
SpuriousWakeUp(s) ==
  /\ Goto(s, "asleep", "test")
  /\ asleep' = asleep \ {s}
  /\ UNCHANGED <<quit, trapped, poll, handler, signals, starts, signalled, allAsleep>>

\* An owner that does not wait calls Stop by itself.
CallStop(s) ==
  /\ CallsStop
  /\ Goto(s, "started", "stop")
  /\ UNCHANGED <<quit, asleep, trapped, poll, handler, signals, starts,
                 signalled, allAsleep>>

\* Stop: forcequit sets the flag ...
StopSetsQuit(s) ==
  /\ Goto(s, "stop", "notify")
  /\ quit' = TRUE
  /\ UNCHANGED <<asleep, trapped, poll, handler, signals, starts, signalled, allAsleep>>

\* ... and notifies ...
StopNotifies(s) ==
  /\ Goto(s, "notify", "join")
  /\ asleep' = {}
  /\ UNCHANGED <<quit, trapped, poll, handler, signals, starts, signalled, allAsleep>>

\* Mutant: the poll thread is detached.
Join_Mutant(s) ==
  /\ Goto(s, "join", "idle")
  /\ UNCHANGED <<quit, asleep, trapped, poll, handler, signals, starts,
                 signalled, allAsleep>>

\* ... and the poll thread is joined.
Join(s) ==
  /\ poll[s] = "exited"
  /\ Goto(s, "join", "idle")
  /\ UNCHANGED <<quit, asleep, trapped, poll, handler, signals, starts,
                 signalled, allAsleep>>

OwnerStep(s) ==
  \/ ClearQuit(s) \/ InstallHandler(s) \/ TestQuit(s) \/ Sleep(s) \/ WakeUp(s)
  \/ CallStop(s) \/ StopSetsQuit(s) \/ StopNotifies(s) \/ Join(s)

----------------------------------------------------------------------------
(* The poll thread: `while (!quit) mg_mgr_poll(&mgr, 1000)`, mg_mgr_free. *)

\* Mutant: the loop does not test the flag.
PollTest_Mutant(s) ==
  /\ poll[s] = "test"
  /\ poll' = [poll EXCEPT ![s] = "polling"]
  /\ UNCHANGED <<quit, asleep, trapped, owner, handler, signals, starts,
                 signalled, allAsleep>>

PollTest(s) ==
  /\ poll[s] = "test"
  /\ poll' = [poll EXCEPT ![s] = IF quit THEN "exited" ELSE "polling"]
  /\ UNCHANGED <<quit, asleep, trapped, owner, handler, signals, starts,
                 signalled, allAsleep>>

PollOnce(s) ==
  /\ poll[s] = "polling"
  /\ poll' = [poll EXCEPT ![s] = "test"]
  /\ UNCHANGED <<quit, asleep, trapped, owner, handler, signals, starts,
                 signalled, allAsleep>>

PollStep(s) == PollTest(s) \/ PollOnce(s)

----------------------------------------------------------------------------
(* SIGINT. *)

Running == {s \in Servers : poll[s] \in {"test", "polling"}}

\* A signal that is not trapped ends the process.  signal_handler tests quit
\* first.
Sigint ==
  /\ signals < MaxSignals /\ handler = "idle"
  /\ signals' = signals + 1
  /\ handler' = IF ~trapped THEN "killed" ELSE IF quit THEN "untrap" ELSE "set"
  /\ UNCHANGED <<quit, asleep, trapped, owner, poll, starts, signalled, allAsleep>>

\* A second SIGINT: the next one has its default action.
HandlerUntraps ==
  /\ handler = "untrap" /\ handler' = "set"
  /\ trapped' = FALSE
  /\ UNCHANGED <<quit, asleep, owner, poll, signals, starts, signalled, allAsleep>>

\* forcequit sets the flag ...
HandlerSetsQuit ==
  /\ handler = "set" /\ handler' = "notify"
  /\ quit' = TRUE
  /\ signalled' = signalled \cup Running
  /\ allAsleep' = (allAsleep \/ asleep = Servers)
  /\ UNCHANGED <<asleep, trapped, owner, poll, signals, starts>>

\* Mutant: signal_handler sets the flag and wakes nobody.
HandlerNotifies_Mutant ==
  /\ handler = "notify"
  /\ handler' = "idle"
  /\ UNCHANGED <<quit, asleep, trapped, owner, poll, signals, starts, signalled, allAsleep>>

\* ... and notifies.
HandlerNotifies ==
  /\ handler = "notify"
  /\ handler' = "idle"
  /\ asleep' = {}
  /\ UNCHANGED <<quit, trapped, owner, poll, signals, starts, signalled, allAsleep>>

HandlerStep == HandlerUntraps \/ HandlerSetsQuit \/ HandlerNotifies

----------------------------------------------------------------------------

Quiet ==
  /\ \/ Terminated
     \/ \A s \in Servers : owner[s] \in {"idle", "asleep"} /\ poll[s] \in {"none", "exited"}
  /\ UNCHANGED vars

Next ==
  \/ /\ ~Terminated
     /\ \E s \in Servers :
          Start(s) \/ OwnerStep(s) \/ SpuriousWakeUp(s) \/ PollStep(s)
  \/ Sigint
  \/ HandlerStep
  \/ Quiet

\* Threads are scheduled, a running signal_handler completes, and an owner that
\* has started a server goes on to wait for it or to stop it.  Nobody is obliged
\* to call Start or to send a signal, and no waiter wakes without a notification.
Fairness ==
  /\ \A s \in Servers : /\ WF_vars(~Terminated /\ PollStep(s))
                        /\ WF_vars(~Terminated /\ OwnerStep(s))
  /\ WF_vars(HandlerStep)

Spec == Init /\ [][Next]_vars /\ Fairness

----------------------------------------------------------------------------
(* Properties. *)

\* Type correctness of the lifecycle's state; the waiters of quit_cond are owners
\* inside its wait.
TypeOK ==
  /\ quit \in BOOLEAN /\ trapped \in BOOLEAN /\ allAsleep \in BOOLEAN
  /\ asleep \in SUBSET Servers
  /\ \A s \in asleep : owner[s] = "asleep"
  /\ owner \in [Servers -> {"idle", "started", "install", "test", "wait",
                            "asleep", "stop", "notify", "join"}]
  /\ poll \in [Servers -> {"none", "test", "polling", "exited"}]
  /\ handler \in {"idle", "untrap", "set", "notify", "killed"}
  /\ signals \in 0..MaxSignals
  /\ starts \in [Servers -> 0..MaxStarts]
  /\ signalled \in SUBSET Servers

\* When Run or Stop has returned, the server's poll thread has left its loop and
\* freed its manager: no callback runs on a server its owner may destroy.
ReturnedMeansExited ==
  \A s \in Servers : owner[s] = "idle" => poll[s] \notin {"test", "polling"}

\* A poll loop ends once the flag stays set: no server goes on serving after a
\* signal that no later WaitForStop has cleared.
QuitEndsPolling ==
  \A s \in Servers : []<>(~quit \/ poll[s] \in {"none", "exited"} \/ Terminated)

\* A SIGINT that finds every owner asleep in WaitForStop when it sets quit ends
\* them all, unless one of them calls Start again before that (the race that the
\* comment in WaitForStop describes).
SigintWakesSleepers ==
  allAsleep ~> (\A s \in Servers : owner[s] = "idle") \/ ~allAsleep \/ Terminated

\* "If you have more than one server running, SIGINT shuts them all down."
\* (include/rikitiki/mongoose/server.h): a server that was running when SIGINT
\* was handled comes to its end.
SigintStopsAll ==
  \A s \in Servers :
    (s \in signalled) ~> (owner[s] = "idle" \/ Terminated)

============================================================================
