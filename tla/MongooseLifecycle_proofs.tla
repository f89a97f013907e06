---------------------- MODULE MongooseLifecycle_proofs ----------------------
(***************************************************************************)
(* Proofs about MongooseLifecycle, for any set of servers and any bounds.  *)
(***************************************************************************)
EXTENDS MongooseLifecycle, TLAPS

\* The inductive invariant: the type invariant is needed to know that the
\* functions owner and poll change at the acting server only.
LifecycleInv == TypeOK /\ ReturnedMeansExited

\* A counter below its bound stays within it when it is increased.
LEMMA Increment ==
  ASSUME NEW bound \in Nat, NEW n \in 0..bound, n < bound
  PROVE  n + 1 \in 0..bound
OBVIOUS

\* No server runs before the first Start.
LEMMA InitInv == Init => LifecycleInv
<1>1. 0 \in 0..MaxSignals /\ 0 \in 0..MaxStarts
  BY LifecycleAssumption, SMT
<1> QED BY <1>1 DEF Init, LifecycleInv, TypeOK, ReturnedMeansExited

\* Start is the one step that creates a poll thread, and it leaves "idle".
LEMMA StartInv ==
  ASSUME LifecycleInv, NEW s \in Servers, Start(s)
  PROVE  LifecycleInv'
<1>1. starts[s] + 1 \in 0..MaxStarts
  <2>1. starts[s] \in 0..MaxStarts /\ starts[s] < MaxStarts
    BY DEF LifecycleInv, TypeOK, Start
  <2>2. MaxStarts \in Nat
    BY LifecycleAssumption
  <2> QED BY <2>1, <2>2, Increment, Zenon
<1>2. TypeOK'
  BY <1>1 DEF LifecycleInv, TypeOK, Start, Goto
<1>3. ReturnedMeansExited'
  BY DEF LifecycleInv, TypeOK, ReturnedMeansExited, Start, Goto
<1> QED BY <1>2, <1>3 DEF LifecycleInv

\* Join is the one step of the owner that reaches "idle", and it waits for the
\* poll thread's end.
LEMMA OwnerInv ==
  ASSUME LifecycleInv, NEW s \in Servers, OwnerStep(s) \/ SpuriousWakeUp(s)
  PROVE  LifecycleInv'
<1> USE DEF LifecycleInv, TypeOK, ReturnedMeansExited, Goto
<1>1. CASE ClearQuit(s)       BY <1>1 DEF ClearQuit
<1>2. CASE InstallHandler(s)  BY <1>2 DEF InstallHandler
<1>3. CASE TestQuit(s)        BY <1>3 DEF TestQuit
<1>4. CASE Sleep(s)           BY <1>4 DEF Sleep
<1>5. CASE WakeUp(s)          BY <1>5 DEF WakeUp
<1>6. CASE SpuriousWakeUp(s)  BY <1>6 DEF SpuriousWakeUp
<1>7. CASE CallStop(s)        BY <1>7 DEF CallStop
<1>8. CASE StopSetsQuit(s)    BY <1>8 DEF StopSetsQuit
<1>9. CASE StopNotifies(s)    BY <1>9 DEF StopNotifies
<1>10. CASE Join(s)           BY <1>10 DEF Join
<1> QED
  BY <1>1, <1>2, <1>3, <1>4, <1>5, <1>6, <1>7, <1>8, <1>9, <1>10 DEF OwnerStep

\* A poll thread that is in its loop belongs to an owner that is not idle.
LEMMA PollInv ==
  ASSUME LifecycleInv, NEW s \in Servers, PollStep(s)
  PROVE  LifecycleInv'
<1> USE DEF LifecycleInv, TypeOK, ReturnedMeansExited
<1>1. CASE PollTest(s)  BY <1>1 DEF PollTest
<1>2. CASE PollOnce(s)  BY <1>2 DEF PollOnce
<1> QED BY <1>1, <1>2 DEF PollStep

\* The signal handler touches neither owners nor poll threads.
LEMMA SignalInv ==
  ASSUME LifecycleInv, Sigint \/ HandlerStep
  PROVE  LifecycleInv'
<1> USE DEF LifecycleInv, TypeOK, ReturnedMeansExited
<1>1. CASE Sigint
  <2>1. signals + 1 \in 0..MaxSignals
    <3>1. signals \in 0..MaxSignals /\ signals < MaxSignals
      BY <1>1 DEF Sigint
    <3>2. MaxSignals \in Nat
      BY LifecycleAssumption
    <3> QED BY <3>1, <3>2, Increment, Zenon
  <2> QED BY <1>1, <2>1 DEF Sigint
<1>2. CASE HandlerUntraps  BY <1>2 DEF HandlerUntraps
<1>3. CASE HandlerSetsQuit
  <2>1. signalled' \in SUBSET Servers
    BY <1>3 DEF HandlerSetsQuit, Running
  <2>2. quit' \in BOOLEAN /\ allAsleep' \in BOOLEAN
    BY <1>3, Zenon DEF HandlerSetsQuit
  <2> QED BY <1>3, <2>1, <2>2 DEF HandlerSetsQuit
<1>4. CASE HandlerNotifies  BY <1>4 DEF HandlerNotifies
<1> QED BY <1>1, <1>2, <1>3, <1>4 DEF HandlerStep

\* Every step keeps the invariant.
LEMMA StepInv == LifecycleInv /\ [Next]_vars => LifecycleInv'
<1> SUFFICES ASSUME LifecycleInv, [Next]_vars PROVE LifecycleInv'
  OBVIOUS
<1>1. CASE \E s \in Servers : Start(s) \/ OwnerStep(s) \/ SpuriousWakeUp(s) \/ PollStep(s)
  BY <1>1, StartInv, OwnerInv, PollInv
<1>2. CASE Sigint \/ HandlerStep  BY <1>2, SignalInv
<1>3. CASE UNCHANGED vars
  BY <1>3 DEF vars, LifecycleInv, TypeOK, ReturnedMeansExited
<1> QED BY <1>1, <1>2, <1>3 DEF Next, Quiet

\* The lifecycle's state keeps its types, and every waiter of quit_cond is an
\* owner inside WaitForStop, however servers, signals and starts interleave.
THEOREM LifecycleTypeCorrect == Spec => []TypeOK
<1>1. LifecycleInv => TypeOK  BY DEF LifecycleInv
<1> QED BY <1>1, InitInv, StepInv, PTL DEF Spec

\* Run and Stop return only after the poll thread has ended, for any number of
\* servers, although all of them share one flag that any WaitForStop clears.
THEOREM ReturnsAfterExit == Spec => []ReturnedMeansExited
<1>1. LifecycleInv => ReturnedMeansExited  BY DEF LifecycleInv
<1> QED BY <1>1, InitInv, StepInv, PTL DEF Spec

=============================================================================
