---------------------------- MODULE PlayerProofs ----------------------------
(***************************************************************************)
(* Theorems about Player for any number of threads, any calls, any bounds  *)
(* and any failures.                                                       *)
(***************************************************************************)
EXTENDS Player, TLAPS

-----------------------------------------------------------------------------
(* Type correctness, one group of variables at a time.                     *)

\* The four ways a thread moves through a method keep its variables typed.
LEMMA GotoType ==
    ASSUME CallType, NEW t \in Threads, NEW l \in Pcs, Goto(t, l) PROVE CallType'
BY DEF CallType, Goto
LEMMA LoadType ==
    ASSUME CallType, NEW t \in Threads, NEW l \in Pcs, NEW s \in Loops \cup {nil},
           NEW k \in Loops \cup {nil}, Load(t, s, k, l) PROVE CallType'
BY DEF CallType, Load
LEMMA ReturnType ==
    ASSUME CallType, NEW t \in Threads, Return(t) PROVE CallType'
BY DEF CallType, Return, Pcs
LEMMA EnterType ==
    ASSUME CallType, NEW t \in Threads, NEW m \in Methods, NEW l \in Pcs, Enter(t, m, l)
    PROVE CallType'
BY DEF CallType, Enter

\* transition and enqueueStateLocked keep the notification variables typed.
LEMMA EnqueueType ==
    ASSUME NotifyType, NEW next \in PlayerState, enqueueStateLocked(next)
    PROVE  NotifyType'
<1>1. stateQueue' \in Seq(PlayerState) BY DEF NotifyType, enqueueStateLocked
<1>2. dispPc' \in [Dispatchers -> DispPcs]
  <2>1. CASE dispatching BY <2>1 DEF NotifyType, enqueueStateLocked
  <2>2. CASE ~dispatching BY <2>2 DEF NotifyType, enqueueStateLocked, DispPcs
  <2> QED BY <2>1, <2>2
<1> QED BY <1>1, <1>2 DEF NotifyType, enqueueStateLocked
LEMMA TransitionType ==
    ASSUME LifecycleType, NotifyType, NEW next \in PlayerState, transition(next)
    PROVE  state' \in PlayerState /\ NotifyType'
<1>1. CASE isValidTransition(state, next) BY <1>1, EnqueueType DEF transition
<1>2. CASE ~isValidTransition(state, next)
    BY <1>2 DEF transition, LifecycleType, NotifyType, notifyVars
<1> QED BY <1>1, <1>2

LEMMA PcFacts ==
    /\ {"idle", "start_runtime", "start_starting", "start_playing", "start_error",
        "pause_paused", "stop_load", "stop_deactivate", "stop_stopped", "close_wait",
        "close_closed"} \subseteq Pcs
    /\ CreatePcs \subseteq Pcs /\ RestartPcs \subseteq Pcs
    /\ TeardownPcs \subseteq Pcs /\ ControlPcs \subseteq Pcs
BY DEF Pcs

\* A step is typed when the groups of variables it may touch are.
LEMMA ThreadOnlyType ==
    ASSUME TypeOK, ThreadOnly, CallType' PROVE TypeOK'
BY DEF TypeOK, ThreadOnly, LifecycleType, NotifyType, ControlType, NativeType, LoopType,
    lifecycleVars, notifyVars, controlVars, nativeVars, loopVars
LEMMA NativeOnlyType ==
    ASSUME TypeOK, NativeOnly, CallType', NativeType' PROVE TypeOK'
BY DEF TypeOK, NativeOnly, LifecycleType, NotifyType, ControlType, LoopType,
    lifecycleVars, notifyVars, controlVars, loopVars
LEMMA PlayerOnlyType ==
    ASSUME TypeOK, PlayerOnly, CallType', LifecycleType', NotifyType' PROVE TypeOK'
BY DEF TypeOK, PlayerOnly, ControlType, NativeType, LoopType,
    controlVars, nativeVars, loopVars
LEMMA StateOnlyType ==
    ASSUME TypeOK, StateOnly, CallType', state' \in PlayerState, NotifyType' PROVE TypeOK'
BY PlayerOnlyType DEF TypeOK, StateOnly, LifecycleType
LEMMA LockOnlyType ==
    ASSUME TypeOK, LockOnly, CallType', ControlType' PROVE TypeOK'
BY DEF TypeOK, LockOnly, LifecycleType, NotifyType, NativeType, LoopType,
    lifecycleVars, notifyVars, nativeVars, loopVars

LEMMA StartType ==
    ASSUME TypeOK, NEW t \in Threads, StartStep(t)
    PROVE  TypeOK'
<1> USE PcFacts DEF TypeOK, CreatePcs, RestartPcs, TeardownPcs
<1>0. lp[t] \in Loops \cup {nil} /\ sp[t] \in Loops \cup {nil} BY DEF CallType
<1>1. CASE ensureRuntime(t)
  <2>1. CallType' BY <1>1, GotoType, ReturnType DEF ensureRuntime
  <2>2. LifecycleType' /\ NotifyType'
    BY <1>1 DEF ensureRuntime, LifecycleType, NotifyType, notifyVars
  <2> QED BY <1>1, <2>1, <2>2, PlayerOnlyType DEF ensureRuntime
<1>2. CASE StartStarting(t)
  <2>1. CallType' BY <1>2, GotoType, ReturnType DEF StartStarting
  <2>2. state' \in PlayerState /\ NotifyType'
    BY <1>2, TransitionType DEF StartStarting, PlayerState
  <2> QED BY <1>2, <2>1, <2>2, StateOnlyType DEF StartStarting
<1>3. CASE StartResources(t)
  <2>1. CallType' BY <1>3, GotoType DEF StartResources
  <2> QED BY <1>3, <2>1, ThreadOnlyType DEF StartResources
<1>4. CASE CreateMainLoop(t)
  <2>1. CallType'
    <3>1. CASE Goto(t, "start_error") BY <3>1, GotoType
    <3>2. CASE /\ \E g \in Loops : loop[g] = "none"
               /\ Load(t, nil, NewLoop, "start_stream")
      <4>1. NewLoop \in Loops BY <3>2 DEF NewLoop
      <4> QED BY <3>2, <4>1, LoadType
    <3> QED BY <1>4, <3>1, <3>2 DEF CreateMainLoop
  <2>2. NativeType' BY <1>4 DEF CreateMainLoop, NativeType
  <2> QED BY <1>4, <2>1, <2>2, NativeOnlyType DEF CreateMainLoop
<1>5. CASE CreatePlaybackStream(t)
  <2>1. CallType' BY <1>0, <1>5, GotoType, LoadType DEF CreatePlaybackStream
  <2>2. NativeType' BY <1>5 DEF CreatePlaybackStream, NativeType
  <2> QED BY <1>5, <2>1, <2>2, NativeOnlyType DEF CreatePlaybackStream
<1>6. CASE ConnectPlaybackStream(t)
  <2>1. CallType' BY <1>6, GotoType DEF ConnectPlaybackStream
  <2>2. NativeType' BY <1>6 DEF ConnectPlaybackStream, NativeType, DestroyBoth
  <2> QED BY <1>6, <2>1, <2>2, NativeOnlyType DEF ConnectPlaybackStream
<1>7. CASE ActivateNewStream(t)
  <2>1. CallType' BY <1>7, GotoType DEF ActivateNewStream
  <2>2. NativeType' BY <1>7 DEF ActivateNewStream, NativeType, DestroyBoth
  <2> QED BY <1>7, <2>1, <2>2, NativeOnlyType DEF ActivateNewStream
<1>8. CASE StartPublish(t)
  <2>1. CallType' BY <1>8, GotoType DEF StartPublish
  <2>2. LifecycleType' /\ NotifyType'
    BY <1>0, <1>8 DEF StartPublish, LifecycleType, NotifyType, notifyVars
  <2> QED BY <1>8, <2>1, <2>2, PlayerOnlyType DEF StartPublish
<1>9. CASE StartSpawn(t)
  <2>1. CallType' BY <1>9, GotoType DEF StartSpawn
  <2>2. LoopType' BY <1>9 DEF StartSpawn, LoopType, LoopPcs
  <2> QED BY <1>9, <2>1, <2>2 DEF StartSpawn, LifecycleType, NotifyType, ControlType,
        NativeType, lifecycleVars, notifyVars, controlVars, nativeVars
<1>10. CASE StartLoad(t)
  <2>1. CallType' BY <1>10, LoadType DEF StartLoad, LifecycleType
  <2> QED BY <1>10, <2>1, ThreadOnlyType DEF StartLoad
<1>11. CASE StartReactivate(t)
  <2>1. CallType' BY <1>11, GotoType DEF StartReactivate
  <2>2. NativeType' BY <1>11 DEF StartReactivate, NativeType, SetActive
  <2> QED BY <1>11, <2>1, <2>2, NativeOnlyType DEF StartReactivate
<1> QED BY <1>1, <1>2, <1>3, <1>4, <1>5, <1>6, <1>7, <1>8, <1>9, <1>10, <1>11 DEF StartStep

LEMMA CallTypeOK ==
    ASSUME TypeOK, NEW t \in Threads, Call(t)
    PROVE  TypeOK'
<1> USE PcFacts DEF TypeOK, TeardownPcs, ControlPcs, Methods
<1>1. CASE Start(t)
  <2>1. CallType' BY <1>1, EnterType DEF Start
  <2> QED BY <1>1, <2>1, ThreadOnlyType DEF Start
<1>2. CASE Pause(t)
  <2>1. CallType' BY <1>2, EnterType DEF Pause
  <2> QED BY <1>2, <2>1, ThreadOnlyType DEF Pause
<1>3. CASE Stop(t)
  <2>1. CallType' BY <1>3, EnterType DEF Stop
  <2> QED BY <1>3, <2>1, ThreadOnlyType DEF Stop
<1>4. CASE CloseOwn(t)
  <2>1. CallType' BY <1>4, EnterType DEF CloseOwn
  <2>2. NotifyType'
    <3>1. CASE state # "Closing" BY <1>4, <3>1, EnqueueType DEF CloseOwn, PlayerState
    <3>2. CASE state = "Closing" BY <1>4, <3>2 DEF CloseOwn, NotifyType, notifyVars
    <3> QED BY <3>1, <3>2
  <2>3. LifecycleType'
    BY <1>4 DEF CloseOwn, LifecycleType, PlayerState, StartAtWork
  <2> QED BY <1>4, <2>1, <2>2, <2>3, PlayerOnlyType DEF CloseOwn
<1>5. CASE CloseJoin(t)
  <2>1. CallType' BY <1>5, EnterType DEF CloseJoin
  <2> QED BY <1>5, <2>1, ThreadOnlyType DEF CloseJoin
<1>6. CASE Control(t)
  <2>1. CallType' BY <1>6, EnterType DEF Control
  <2> QED BY <1>6, <2>1, ThreadOnlyType DEF Control
<1> QED BY <1>1, <1>2, <1>3, <1>4, <1>5, <1>6 DEF Call

LEMMA StopType ==
    ASSUME TypeOK, NEW t \in Threads, StopStep(t) \/ FinishCall(t)
    PROVE  TypeOK'
<1> USE PcFacts DEF TypeOK
<1>1. CASE StopLoad(t)
  <2>1. CallType' BY <1>1, LoadType DEF StopLoad, LifecycleType
  <2> QED BY <1>1, <2>1, ThreadOnlyType DEF StopLoad
<1>2. CASE StopDeactivate(t)
  <2>1. CallType' BY <1>2, GotoType, ReturnType DEF StopDeactivate
  <2>2. NativeType' BY <1>2 DEF StopDeactivate, NativeType, SetActive
  <2> QED BY <1>2, <2>1, <2>2, NativeOnlyType DEF StopDeactivate
<1>3. CASE FinishCall(t)
  <2>1. CallType' BY <1>3, ReturnType DEF FinishCall
  <2>2. LastTransition[pc[t]] \in PlayerState
    BY <1>3 DEF FinishCall, LastTransition, PlayerState
  <2>3. state' \in PlayerState /\ NotifyType' BY <1>3, <2>2, TransitionType DEF FinishCall
  <2> QED BY <1>3, <2>1, <2>3, StateOnlyType DEF FinishCall
<1> QED BY <1>1, <1>2, <1>3 DEF StopStep

LEMMA CloseType ==
    ASSUME TypeOK, NEW t \in Threads, CloseStep(t)
    PROVE  TypeOK'
<1> USE PcFacts DEF TypeOK, TeardownPcs
<1>0. /\ lp[t] \in Loops \cup {nil} /\ sp[t] \in Loops \cup {nil}
      /\ AfterTeardown(t) \in Pcs
  BY DEF CallType, AfterTeardown
<1>1. CASE CloseJoined(t)
  <2>1. CallType' BY <1>1, ReturnType DEF CloseJoined
  <2> QED BY <1>1, <2>1, ThreadOnlyType DEF CloseJoined
<1>2. CASE TeardownLock(t)
  <2>1. CallType' BY <1>2, GotoType DEF TeardownLock
  <2>2. ControlType' BY <1>2 DEF TeardownLock, ControlType
  <2> QED BY <1>2, <2>1, <2>2, LockOnlyType DEF TeardownLock
<1>3. CASE TeardownDetach(t)
  <2>1. CallType' BY <1>0, <1>3, LoadType DEF TeardownDetach, LifecycleType
  <2>2. LifecycleType' BY <1>3 DEF TeardownDetach, LifecycleType
  <2>3. ControlType' BY <1>3 DEF TeardownDetach, ControlType
  <2> QED BY <1>3, <2>1, <2>2, <2>3 DEF TeardownDetach, NotifyType, NativeType, LoopType,
        notifyVars, nativeVars, loopVars
<1>4. CASE TeardownDisconnect(t)
  <2>1. CallType' BY <1>4, GotoType DEF TeardownDisconnect
  <2>2. NativeType' BY <1>4 DEF TeardownDisconnect, NativeType
  <2> QED BY <1>4, <2>1, <2>2, NativeOnlyType DEF TeardownDisconnect
<1>5. CASE TeardownQuit(t)
  <2>1. CallType' BY <1>5, GotoType DEF TeardownQuit
  <2>2. NativeType' BY <1>5 DEF TeardownQuit, NativeType
  <2> QED BY <1>5, <2>1, <2>2, NativeOnlyType DEF TeardownQuit
<1>6. CASE TeardownAwait(t)
  <2>1. CallType' BY <1>6, GotoType DEF TeardownAwait
  <2> QED BY <1>6, <2>1, ThreadOnlyType DEF TeardownAwait
<1>7. CASE TeardownDestroyStream(t)
  <2>1. CallType' BY <1>7, GotoType DEF TeardownDestroyStream
  <2>2. NativeType' BY <1>7 DEF TeardownDestroyStream, NativeType
  <2> QED BY <1>7, <2>1, <2>2, NativeOnlyType DEF TeardownDestroyStream
<1>8. CASE TeardownDestroyLoop(t)
  <2>1. CallType' BY <1>0, <1>8, GotoType DEF TeardownDestroyLoop
  <2>2. NativeType' BY <1>8 DEF TeardownDestroyLoop, NativeType
  <2> QED BY <1>8, <2>1, <2>2, NativeOnlyType DEF TeardownDestroyLoop
<1>9. CASE CloseClosed(t)
  <2>1. CallType' BY <1>9, ReturnType DEF CloseClosed
  <2>2. NotifyType' BY <1>9, EnqueueType DEF CloseClosed, PlayerState
  <2>3. LifecycleType' BY <1>9 DEF CloseClosed, LifecycleType, PlayerState
  <2> QED BY <1>9, <2>1, <2>2, <2>3, PlayerOnlyType DEF CloseClosed
<1> QED BY <1>1, <1>2, <1>3, <1>4, <1>5, <1>6, <1>7, <1>8, <1>9 DEF CloseStep

LEMMA ControlStepType ==
    ASSUME TypeOK, NEW t \in Threads, ControlStep(t)
    PROVE  TypeOK'
<1> USE PcFacts DEF TypeOK, ControlPcs
<1>1. CASE ControlAcquire(t)
  <2>1. CallType' BY <1>1, GotoType, ReturnType DEF ControlAcquire
  <2>2. ControlType' BY <1>1 DEF ControlAcquire, ControlType
  <2> QED BY <1>1, <2>1, <2>2, LockOnlyType DEF ControlAcquire
<1>2. CASE ControlRecheck(t)
  <2>1. CallType' BY <1>2, GotoType DEF ControlRecheck
  <2> QED BY <1>2, <2>1, ThreadOnlyType DEF ControlRecheck
<1>3. CASE ControlLoad(t)
  <2>1. CallType' BY <1>3, LoadType DEF ControlLoad, LifecycleType
  <2> QED BY <1>3, <2>1, ThreadOnlyType DEF ControlLoad
<1>4. CASE ControlCall(t)
  <2>1. CallType' BY <1>4, GotoType DEF ControlCall
  <2> QED BY <1>4, <2>1, ThreadOnlyType DEF ControlCall
<1>5. CASE ControlRelease(t)
  <2>1. CallType' BY <1>5, ReturnType DEF ControlRelease
  <2>2. ControlType' BY <1>5 DEF ControlRelease, ControlType
  <2> QED BY <1>5, <2>1, <2>2, LockOnlyType DEF ControlRelease
<1> QED BY <1>1, <1>2, <1>3, <1>4, <1>5 DEF ControlStep

LEMMA DispatchType ==
    ASSUME TypeOK, NEW d \in Dispatchers, Dispatch(d) \/ DispatchReturn(d)
    PROVE  TypeOK'
<1> USE DEF TypeOK
<1>1. NotifyType'
  <2>1. CASE DispatchNext(d) BY <2>1 DEF DispatchNext, NotifyType, DispPcs
  <2>2. CASE DispatchExit(d) BY <2>2 DEF DispatchExit, NotifyType, DispPcs
  <2>3. CASE DispatchReturn(d) BY <2>3 DEF DispatchReturn, NotifyType, DispPcs
  <2> QED BY <2>1, <2>2, <2>3 DEF Dispatch
<1>2. NotifyOnly BY DEF Dispatch, DispatchNext, DispatchExit, DispatchReturn
<1> QED BY <1>1, <1>2 DEF NotifyOnly, LifecycleType, ControlType, NativeType, CallType, LoopType,
        lifecycleVars, controlVars, nativeVars, callVars, loopVars

\* A step of a loop goroutine moves it, and may use quit, proc and, in fail, the
\* state and its notifications.
LEMMA LoopGotoType ==
    ASSUME TypeOK, NEW g \in Loops, NEW l \in LoopPcs, LoopGoto(g, l),
           quit' \in [Loops -> BOOLEAN], proc' \in [Loops -> Loops \cup {nil}],
           state' \in PlayerState, NotifyType'
    PROVE  TypeOK'
BY DEF TypeOK, LoopGoto, LifecycleType, ControlType, NativeType, CallType, LoopType,
    controlVars, callVars

LEMMA LoopOnlyType ==
    ASSUME TypeOK, NEW g \in Loops, NEW l \in LoopPcs, LoopGoto(g, l), LoopOnly
    PROVE  TypeOK'
<1>1. NotifyType' BY DEF TypeOK, LoopOnly, NotifyType, notifyVars
<1>2. state' \in PlayerState /\ quit' \in [Loops -> BOOLEAN]
      /\ proc' \in [Loops -> Loops \cup {nil}]
  BY DEF TypeOK, LoopOnly, LifecycleType, NativeType, LoopType
<1>3. LoopGoto(g, l) OBVIOUS
<1> QED BY ONLY TypeOK, <1>1, <1>2, <1>3, LoopGotoType

LEMMA LoopStepType ==
    ASSUME TypeOK, NEW g \in Loops, LoopStep(g)
    PROVE  TypeOK'
<1> USE DEF TypeOK, LoopPcs, InProcessPcs
<1>1. CASE LoopEnter(g)
  <2>1. quit' \in [Loops -> BOOLEAN] BY <1>1, BoundsAssumption DEF LoopEnter, NativeType
  <2>2. NotifyType' BY <1>1 DEF LoopEnter, NotifyType, notifyVars
  <2> QED BY <1>1, <2>1, <2>2, LoopGotoType DEF LoopEnter, LifecycleType, LoopType
<1>2. CASE LoopQuit(g) BY <1>2, LoopOnlyType DEF LoopQuit
<1>3. CASE LoopError(g) BY <1>3, LoopOnlyType DEF LoopError
<1>4. CASE LoopEnded(g) BY <1>4, LoopOnlyType DEF LoopEnded
<1>5. CASE ProcessBegin(g)
  <2>1. proc' \in [Loops -> Loops \cup {nil}]
    BY <1>5 DEF ProcessBegin, LoopType, LifecycleType
  <2>2. NotifyType' BY <1>5 DEF ProcessBegin, NotifyType, notifyVars
  <2> QED BY <1>5, <2>1, <2>2, LoopGotoType DEF ProcessBegin, LifecycleType, NativeType
<1>6. CASE ProcessDequeue(g) BY <1>6, LoopOnlyType DEF ProcessDequeue
<1>7. CASE ProcessFilled(g) BY <1>7, LoopOnlyType DEF ProcessFilled
<1>8. CASE ProcessQueue(g) BY <1>8, LoopOnlyType DEF ProcessQueue
<1>9. CASE ProcessRequeue(g) BY <1>9, LoopOnlyType DEF ProcessRequeue
<1>10. CASE fail(g)
  <2>1. FailInto[loopPc[g]] \in LoopPcs BY <1>10 DEF fail, FailInto
  <2>2. state' \in PlayerState /\ NotifyType' BY <1>10, TransitionType DEF fail, PlayerState
  <2> QED BY <1>10, <2>1, <2>2, LoopGotoType DEF fail, NativeType, LoopType
<1>11. CASE OnErrorReturns(g)
  <2>1. AfterOnError[loopPc[g]] \in LoopPcs BY <1>11 DEF OnErrorReturns, AfterOnError
  <2> QED BY <1>11, <2>1, LoopOnlyType DEF OnErrorReturns
<1> QED BY <1>1, <1>2, <1>3, <1>4, <1>5, <1>6, <1>7, <1>8, <1>9, <1>10, <1>11
        DEF LoopStep, LoopRuns

LEMMA InitType == Init => TypeOK
<1> SUFFICES ASSUME Init PROVE TypeOK
  OBVIOUS
<1>1. LifecycleType BY DEF Init, LifecycleType, PlayerState
<1>2. NotifyType
  <2>1. stateQueue \in Seq(PlayerState) BY DEF Init
  <2>2. dispPc \in [Dispatchers -> DispPcs] BY DEF Init, DispPcs
  <2>3. dispatching \in BOOLEAN /\ seen \in PlayerState BY DEF Init, PlayerState
  <2> QED BY <2>1, <2>2, <2>3 DEF NotifyType
<1>3. ControlType BY DEF Init, ControlType
<1>4. NativeType BY DEF Init, NativeType
<1>5. CallType BY PcFacts DEF Init, CallType
<1>6. LoopType BY DEF Init, LoopType, LoopPcs
<1> QED BY <1>1, <1>2, <1>3, <1>4, <1>5, <1>6 DEF TypeOK

LEMMA NextType == TypeOK /\ [Next]_vars => TypeOK'
<1> SUFFICES ASSUME TypeOK, [Next]_vars PROVE TypeOK'
  OBVIOUS
<1>1. CASE UNCHANGED vars
  BY <1>1 DEF vars, TypeOK, LifecycleType, NotifyType, ControlType, NativeType, CallType,
     LoopType, lifecycleVars, notifyVars, controlVars, nativeVars, callVars, loopVars
<1>2. ASSUME NEW t \in Threads, Call(t) \/ Continue(t) PROVE TypeOK'
  BY <1>2, CallTypeOK, StartType, StopType, CloseType, ControlStepType DEF Continue
<1>3. ASSUME NEW d \in Dispatchers, Dispatch(d) \/ DispatchReturn(d) PROVE TypeOK'
  BY <1>3, DispatchType
<1>4. ASSUME NEW g \in Loops, LoopStep(g) PROVE TypeOK'
  BY <1>4, LoopStepType
<1> QED BY <1>1, <1>2, <1>3, <1>4 DEF Next

\* Every variable of the player, of its goroutines and of PipeWire's side stays
\* in its domain.
THEOREM TypeCorrect == Spec => []TypeOK
BY InitType, NextType, PTL DEF Spec

-----------------------------------------------------------------------------
(* Who may announce Closed.  One Close owns the teardown, and from the       *)
(* moment it takes over until it announces Closed the state is Closing,      *)
(* whatever the Starts, Stops and loop goroutines it overtook still try.     *)

Owns(t) == method[t] = "Close" /\ pc[t] \in TeardownPcs \cup {"close_closed"}

StartPcs == {"start_runtime", "start_starting"} \cup CreatePcs \cup RestartPcs

OwnerInv ==
    /\ \A t \in Threads : pc[t] \in StartPcs => method[t] = "Start"
    /\ \A t \in Threads : pc[t] = "close_closed" => method[t] = "Close"
    /\ \A t \in Threads : Owns(t) => state = "Closing" /\ closeDone = "open"
    /\ \A t, u \in Threads : Owns(t) /\ Owns(u) => t = u

\* No transition but Close's own leaves Closing.
KeepsClosing == (state = "Closing" => state' = "Closing") /\ closeDone' = closeDone

LEMMA TransitionKeepsClosing ==
    ASSUME NEW next, next # "Closed", transition(next)
    PROVE  state = "Closing" => state' = "Closing"
BY DEF transition, isValidTransition, ValidTransitions

\* A step of t that keeps Closing keeps OwnerInv if t itself ends up in order.
LEMMA OwnerKept ==
    ASSUME TypeOK, OwnerInv, KeepsClosing, NEW t \in Threads,
           \A u \in Threads : u # t => pc'[u] = pc[u] /\ method'[u] = method[u],
           pc'[t] \in StartPcs => method'[t] = "Start",
           pc'[t] = "close_closed" => method'[t] = "Close",
           Owns(t)' => Owns(t)
    PROVE  OwnerInv'
BY DEF OwnerInv, KeepsClosing, Owns

LEMMA StartOwner ==
    ASSUME TypeOK, OwnerInv, NEW t \in Threads, StartStep(t)
    PROVE  OwnerInv'
<1> USE DEF CreatePcs, RestartPcs, TeardownPcs
<1>1. pc[t] \in StartPcs /\ method[t] = "Start"
  BY DEF OwnerInv, StartPcs, StartStep, ensureRuntime, StartStarting, StartResources,
     CreateMainLoop, CreatePlaybackStream, ConnectPlaybackStream, ActivateNewStream,
     StartPublish, StartSpawn, StartLoad, StartReactivate
<1>2. KeepsClosing
  <2>1. CASE StartStarting(t)
    BY <2>1, TransitionKeepsClosing DEF StartStarting, StateOnly, KeepsClosing
  <2> QED BY <2>1 DEF StartStep, ensureRuntime, StartResources, CreateMainLoop,
        CreatePlaybackStream, ConnectPlaybackStream, ActivateNewStream, StartPublish,
        StartSpawn, StartLoad, StartReactivate, ThreadOnly, NativeOnly, lifecycleVars,
        KeepsClosing
<1> DEFINE Others == \A u \in Threads : u # t => pc'[u] = pc[u] /\ method'[u] = method[u]
           Own == (method'[t] = "Start" /\ pc'[t] # "close_closed") \/ pc'[t] = "idle"
<1>3. Others /\ Own
  <2>1. pc \in [Threads -> Pcs] /\ method \in [Threads -> Methods \cup {"none"}]
    BY DEF TypeOK, CallType
  <2>2. ASSUME NEW l, l # "close_closed", Goto(t, l) PROVE Others /\ Own
    BY <1>1, <2>1, <2>2 DEF Goto
  <2>3. ASSUME NEW l, NEW k, NEW x, l # "close_closed", Load(t, k, x, l) PROVE Others /\ Own
    BY <1>1, <2>1, <2>3 DEF Load
  <2>4. CASE Return(t) BY <2>1, <2>4 DEF Return
  <2> HIDE DEF Others, Own
  <2> QED BY <2>2, <2>3, <2>4 DEF StartStep, ensureRuntime, StartStarting, StartResources,
        CreateMainLoop, CreatePlaybackStream, ConnectPlaybackStream, ActivateNewStream,
        StartPublish, StartSpawn, StartLoad, StartReactivate
<1> QED BY <1>2, <1>3, OwnerKept DEF Owns, StartPcs

LEMMA CallOwner ==
    ASSUME TypeOK, OwnerInv, NEW t \in Threads, Call(t)
    PROVE  OwnerInv'
<1> USE DEF CreatePcs, RestartPcs, TeardownPcs
<1>1. pc \in [Threads -> Pcs] /\ method \in [Threads -> Methods \cup {"none"}]
  BY DEF TypeOK, CallType
<1>2. CASE CloseOwn(t)
  <2>1. \A u \in Threads : ~Owns(u) BY <1>2 DEF CloseOwn, OwnerInv
  <2> QED BY <1>1, <1>2, <2>1 DEF CloseOwn, Enter, OwnerInv, Owns, StartPcs
<1>3. CASE ~CloseOwn(t)
  <2>1. KeepsClosing
    BY <1>3 DEF Call, Start, Pause, Stop, CloseJoin, Control, ThreadOnly, lifecycleVars,
       KeepsClosing
  <2>2. ASSUME NEW m, NEW l, Enter(t, m, l),
               l \notin TeardownPcs \cup {"close_closed"},
               l \in StartPcs => m = "Start"
        PROVE  OwnerInv'
    BY <1>1, <2>1, <2>2, OwnerKept DEF Enter, Owns
  <2> QED BY <1>3, <2>2 DEF Call, Start, Pause, Stop, CloseJoin, Control, StartPcs
<1> QED BY <1>2, <1>3

LEMMA CloseOwner ==
    ASSUME TypeOK, OwnerInv, NEW t \in Threads, CloseStep(t)
    PROVE  OwnerInv'
<1> USE DEF TeardownPcs
<1>1. pc \in [Threads -> Pcs] /\ method \in [Threads -> Methods \cup {"none"}]
  BY DEF TypeOK, CallType
<1>2. CASE CloseClosed(t)
  <2>1. Owns(t) BY <1>2 DEF CloseClosed, OwnerInv, Owns
  <2>2. \A u \in Threads : ~Owns(u)'
    BY <1>1, <1>2, <2>1 DEF CloseClosed, Return, OwnerInv, Owns
  <2> QED BY <1>1, <1>2, <2>2 DEF CloseClosed, Return, OwnerInv, StartPcs, CreatePcs, RestartPcs
<1>3. CASE ~CloseClosed(t)
  <2>1. KeepsClosing
    BY <1>3 DEF CloseStep, CloseJoined, TeardownLock, TeardownDetach, TeardownDisconnect,
       TeardownQuit, TeardownAwait, TeardownDestroyStream, TeardownDestroyLoop, ThreadOnly,
       NativeOnly, LockOnly, lifecycleVars, KeepsClosing
  <2>2. CASE CloseJoined(t)
    BY <1>1, <2>1, <2>2, OwnerKept DEF CloseJoined, Return, Owns, StartPcs, CreatePcs, RestartPcs
  <2>3. CASE /\ pc[t] \in TeardownPcs
             /\ \E l \in TeardownPcs \cup {AfterTeardown(t)} :
                   Goto(t, l) \/ \E k, x \in Loops \cup {nil} : Load(t, k, x, l)
    BY <1>1, <2>1, <2>3, OwnerKept
       DEF Goto, Load, Owns, AfterTeardown, StartPcs, CreatePcs, RestartPcs
  <2>4. streamPtr \in Loops \cup {nil} /\ loopPtr \in Loops \cup {nil}
    BY DEF TypeOK, LifecycleType
  <2> HIDE DEF TeardownPcs
  <2> QED BY <1>3, <2>2, <2>3, <2>4 DEF CloseStep, TeardownLock, TeardownDetach,
        TeardownDisconnect, TeardownQuit, TeardownAwait, TeardownDestroyStream,
        TeardownDestroyLoop, TeardownPcs
<1> QED BY <1>2, <1>3

LEMMA OtherOwner ==
    ASSUME TypeOK, OwnerInv, NEW t \in Threads, StopStep(t) \/ FinishCall(t) \/ ControlStep(t)
    PROVE  OwnerInv'
<1>1. pc \in [Threads -> Pcs] /\ method \in [Threads -> Methods \cup {"none"}]
  BY DEF TypeOK, CallType
<1>2. KeepsClosing
  <2>1. CASE FinishCall(t)
    <3>1. LastTransition[pc[t]] # "Closed" BY <2>1 DEF FinishCall, LastTransition
    <3> QED BY <2>1, <3>1, TransitionKeepsClosing DEF FinishCall, StateOnly, KeepsClosing
  <2> QED BY <2>1 DEF StopStep, StopLoad, StopDeactivate, ControlStep, ControlAcquire,
        ControlRecheck, ControlLoad, ControlCall, ControlRelease, ThreadOnly, NativeOnly,
        LockOnly, lifecycleVars, KeepsClosing
<1>3. CASE \E l \in {"stop_deactivate", "stop_stopped"} \cup ControlPcs :
              Goto(t, l) \/ \E k : Load(t, k, nil, l)
  BY <1>1, <1>2, <1>3, OwnerKept
     DEF Goto, Load, Owns, StartPcs, CreatePcs, RestartPcs, TeardownPcs, ControlPcs
<1>4. CASE Return(t)
  BY <1>1, <1>2, <1>4, OwnerKept
     DEF Return, Owns, StartPcs, CreatePcs, RestartPcs, TeardownPcs
<1> QED BY <1>3, <1>4 DEF StopStep, StopLoad, StopDeactivate, ControlStep, ControlAcquire,
        ControlRecheck, ControlLoad, ControlCall, ControlRelease, FinishCall, ControlPcs

\* The steps of dispatchers and loops make no call.
LEMMA LibraryOwner ==
    ASSUME OwnerInv, KeepsClosing, UNCHANGED callVars
    PROVE  OwnerInv'
BY DEF OwnerInv, KeepsClosing, callVars, Owns

LEMMA OwnerStep == TypeOK /\ OwnerInv /\ [Next]_vars => OwnerInv'
<1> SUFFICES ASSUME TypeOK, OwnerInv, [Next]_vars PROVE OwnerInv'
  OBVIOUS
<1>1. CASE UNCHANGED vars
  BY <1>1, LibraryOwner DEF vars, lifecycleVars, KeepsClosing
<1>2. ASSUME NEW t \in Threads, Call(t) \/ Continue(t) PROVE OwnerInv'
  BY <1>2, CallOwner, StartOwner, CloseOwner, OtherOwner DEF Continue
<1>3. ASSUME NEW d \in Dispatchers, Dispatch(d) \/ DispatchReturn(d) PROVE OwnerInv'
  BY <1>3, LibraryOwner DEF Dispatch, DispatchNext, DispatchExit, DispatchReturn, NotifyOnly,
     lifecycleVars, KeepsClosing
<1>4. ASSUME NEW g \in Loops, LoopStep(g) PROVE OwnerInv'
  <2>1. UNCHANGED <<callVars, closeDone>>
    BY <1>4 DEF LoopStep, LoopRuns, LoopEnter, LoopQuit, LoopError, LoopEnded, ProcessBegin,
       ProcessDequeue, ProcessFilled, ProcessQueue, ProcessRequeue, fail, OnErrorReturns, LoopGoto
  <2>2. state = "Closing" => state' = "Closing"
    <3>1. CASE fail(g) BY <3>1, TransitionKeepsClosing DEF fail
    <3> QED BY <1>4, <3>1 DEF LoopStep, LoopRuns, LoopEnter, LoopQuit, LoopError, LoopEnded,
          ProcessBegin, ProcessDequeue, ProcessFilled, ProcessQueue, ProcessRequeue,
          OnErrorReturns, LoopOnly
  <2> QED BY <2>1, <2>2, LibraryOwner DEF KeepsClosing
<1> QED BY <1>1, <1>2, <1>3, <1>4 DEF Next

LEMMA OneOwnerOfClose == Spec => []OwnerInv
<1>1. Init => OwnerInv
  BY DEF Init, OwnerInv, Owns, StartPcs, CreatePcs, RestartPcs, TeardownPcs
<1> QED BY <1>1, OwnerStep, TypeCorrect, PTL DEF Spec

-----------------------------------------------------------------------------
(* Notifications.  Every step leaves the state and its notifications alone, *)
(* announces one valid move, or is the dispatcher's; all that follows rests *)
(* on this alone.                                                           *)

stateVars == <<state, notifyVars>>
Announce ==
    \E next \in PlayerState :
        isValidTransition(state, next) /\ state' = next /\ enqueueStateLocked(next)
DispatcherStep ==
    (\E d \in Dispatchers : Dispatch(d) \/ DispatchReturn(d)) /\ UNCHANGED state

LEMMA TransitionAnnounces ==
    ASSUME NEW next \in PlayerState, transition(next)
    PROVE  UNCHANGED stateVars \/ Announce
BY DEF transition, Announce, stateVars

LEMMA StateSteps ==
    ASSUME TypeOK, OwnerInv, [Next]_vars
    PROVE  UNCHANGED stateVars \/ Announce \/ DispatcherStep
<1>1. CASE UNCHANGED vars BY <1>1 DEF vars, lifecycleVars, stateVars
<1>2. ASSUME NEW t \in Threads, Call(t) PROVE UNCHANGED stateVars \/ Announce
  <2>1. CASE CloseOwn(t)
    BY <2>1 DEF CloseOwn, Announce, stateVars, PlayerState
  <2> QED BY <1>2, <2>1 DEF Call, Start, Pause, Stop, CloseJoin, Control, ThreadOnly,
        lifecycleVars, stateVars
<1>3. ASSUME NEW t \in Threads, StartStep(t) PROVE UNCHANGED stateVars \/ Announce
  <2>1. CASE StartStarting(t) BY <2>1, TransitionAnnounces DEF StartStarting, PlayerState
  <2> QED BY <1>3, <2>1 DEF StartStep, ensureRuntime, StartResources, CreateMainLoop,
        CreatePlaybackStream, ConnectPlaybackStream, ActivateNewStream, StartPublish,
        StartSpawn, StartLoad, StartReactivate, ThreadOnly, NativeOnly, lifecycleVars, stateVars
<1>4. ASSUME NEW t \in Threads, StopStep(t) \/ FinishCall(t)
      PROVE  UNCHANGED stateVars \/ Announce
  <2>1. CASE FinishCall(t)
    <3>1. LastTransition[pc[t]] \in PlayerState
      BY <2>1 DEF FinishCall, LastTransition, PlayerState
    <3> QED BY <2>1, <3>1, TransitionAnnounces DEF FinishCall
  <2> QED BY <1>4, <2>1 DEF StopStep, StopLoad, StopDeactivate, ThreadOnly, NativeOnly,
        lifecycleVars, stateVars
<1>5. ASSUME NEW t \in Threads, CloseStep(t) PROVE UNCHANGED stateVars \/ Announce
  <2>1. CASE CloseClosed(t)
    <3>1. state = "Closing" BY <2>1 DEF CloseClosed, OwnerInv, Owns
    <3> QED BY <2>1, <3>1
          DEF CloseClosed, Announce, PlayerState, isValidTransition, ValidTransitions
  <2> QED BY <1>5, <2>1 DEF CloseStep, CloseJoined, TeardownLock, TeardownDetach,
        TeardownDisconnect, TeardownQuit, TeardownAwait, TeardownDestroyStream,
        TeardownDestroyLoop, ThreadOnly, NativeOnly, LockOnly, lifecycleVars, stateVars
<1>6. ASSUME NEW t \in Threads, ControlStep(t) PROVE UNCHANGED stateVars
  BY <1>6 DEF ControlStep, ControlAcquire, ControlRecheck, ControlLoad, ControlCall,
     ControlRelease, ThreadOnly, LockOnly, lifecycleVars, stateVars
<1>7. ASSUME NEW g \in Loops, LoopStep(g) PROVE UNCHANGED stateVars \/ Announce
  <2>1. CASE fail(g) BY <2>1, TransitionAnnounces DEF fail, PlayerState
  <2> QED BY <1>7, <2>1 DEF LoopStep, LoopRuns, LoopEnter, LoopQuit, LoopError, LoopEnded,
        ProcessBegin, ProcessDequeue, ProcessFilled, ProcessQueue, ProcessRequeue,
        OnErrorReturns, LoopOnly, stateVars
<1>8. ASSUME NEW d \in Dispatchers, Dispatch(d) \/ DispatchReturn(d) PROVE DispatcherStep
  BY <1>8 DEF Dispatch, DispatchNext, DispatchExit, DispatchReturn, NotifyOnly,
     lifecycleVars, DispatcherStep
<1> QED BY <1>1, <1>2, <1>3, <1>4, <1>5, <1>6, <1>7, <1>8 DEF Next, Continue

\* enqueueStateLocked starts a dispatcher exactly when there is none.
LEMMA EnqueueOneDispatcher ==
    ASSUME TypeOK, OneDispatcher, NEW next \in PlayerState, enqueueStateLocked(next)
    PROVE  OneDispatcher'
<1>1. dispPc \in [Dispatchers -> DispPcs] BY DEF TypeOK, NotifyType
<1>2. dispatching' = TRUE BY DEF enqueueStateLocked
<1>3. CASE dispatching
  <2>1. dispPc' = dispPc BY <1>3 DEF enqueueStateLocked
  <2> QED BY <1>2, <1>3, <2>1 DEF OneDispatcher
<1>4. CASE ~dispatching
  <2>1. \A d \in Dispatchers : dispPc[d] = "none" BY <1>4 DEF OneDispatcher
  <2>2. FreeDispatcher \in Dispatchers BY <2>1, ThreadsAssumption DEF FreeDispatcher
  <2>3. dispPc' = [dispPc EXCEPT ![FreeDispatcher] = "drain"]
    BY <1>4 DEF enqueueStateLocked
  <2> HIDE DEF FreeDispatcher
  <2>4. \A d \in Dispatchers : dispPc'[d] # "none" <=> d = FreeDispatcher
    BY <1>1, <2>1, <2>2, <2>3
  <2> QED BY <1>2, <2>2, <2>4 DEF OneDispatcher
<1> QED BY <1>3, <1>4

LEMMA DispatchOneDispatcher ==
    ASSUME TypeOK, OneDispatcher, NEW d \in Dispatchers, Dispatch(d) \/ DispatchReturn(d)
    PROVE  OneDispatcher'
<1>1. dispPc \in [Dispatchers -> DispPcs] BY DEF TypeOK, NotifyType
<1>2. \A e \in Dispatchers : dispPc[e] # "none" => e = d
  BY DEF Dispatch, DispatchNext, DispatchExit, DispatchReturn, OneDispatcher
<1>3. dispatching
  BY DEF Dispatch, DispatchNext, DispatchExit, DispatchReturn, OneDispatcher
<1>4. CASE DispatchNext(d) BY <1>1, <1>2, <1>3, <1>4 DEF DispatchNext, OneDispatcher
<1>5. CASE DispatchExit(d) BY <1>1, <1>2, <1>5 DEF DispatchExit, OneDispatcher
<1>6. CASE DispatchReturn(d) BY <1>1, <1>2, <1>3, <1>6 DEF DispatchReturn, OneDispatcher
<1> QED BY <1>4, <1>5, <1>6 DEF Dispatch

\* However many goroutines change the state, at most one dispatcher goroutine
\* exists, and a notification never waits without one.
THEOREM SerialDispatch == Spec => []OneDispatcher
<1>1. Init => OneDispatcher BY DEF Init, OneDispatcher
<1>2. TypeOK /\ OwnerInv /\ OneDispatcher /\ [Next]_vars => OneDispatcher'
  <2> SUFFICES ASSUME TypeOK, OwnerInv, OneDispatcher, [Next]_vars PROVE OneDispatcher'
    OBVIOUS
  <2>1. CASE UNCHANGED stateVars BY <2>1 DEF stateVars, notifyVars, OneDispatcher
  <2>2. CASE Announce BY <2>2, EnqueueOneDispatcher DEF Announce
  <2>3. CASE DispatcherStep BY <2>3, DispatchOneDispatcher DEF DispatcherStep
  <2> QED BY <2>1, <2>2, <2>3, StateSteps
<1> QED BY <1>1, <1>2, TypeCorrect, OneOwnerOfClose, PTL DEF Spec

\* Taken one element at a time: announcing appends to the path, telling drops
\* its first state.
LEMMA AnnouncedGrows ==
    ASSUME TypeOK, NEW next \in PlayerState, enqueueStateLocked(next)
    PROVE  Announced' = Append(Announced, next) /\ Announced \in Seq(PlayerState)
BY DEF TypeOK, NotifyType, enqueueStateLocked, Announced

LEMMA AnnouncedShrinks ==
    ASSUME TypeOK, NEW d \in Dispatchers, DispatchNext(d)
    PROVE  Announced' = Tail(Announced) /\ Announced \in Seq(PlayerState)
           /\ Len(Announced) > 1
BY DEF TypeOK, NotifyType, DispatchNext, Announced

\* The same property with the length of the path made explicit.
ExactPath ==
    /\ Announced[Len(Announced)] = state
    /\ \A i \in 1 .. Len(Announced) - 1 : isValidTransition(Announced[i], Announced[i + 1])

LEMMA ExactPathIs == ASSUME TypeOK PROVE NotificationsExact <=> ExactPath
<1>1. Len(Announced) - 1 = Len(stateQueue) BY DEF TypeOK, NotifyType, Announced
<1> QED BY <1>1 DEF NotificationsExact, ExactPath

\* Whatever the threads do and whatever fails, what the OnStateChange callback
\* has been told and will be told is the path the state has taken.
THEOREM ExactNotifications == Spec => []NotificationsExact
<1>1. Init => NotificationsExact
  BY DEF Init, NotificationsExact, Announced
<1>2. TypeOK /\ TypeOK' /\ OwnerInv /\ NotificationsExact /\ [Next]_vars => NotificationsExact'
  <2> SUFFICES ASSUME TypeOK, TypeOK', OwnerInv, NotificationsExact, [Next]_vars
               PROVE  NotificationsExact'
    OBVIOUS
  <2>0. ExactPath BY ExactPathIs
  <2>1. CASE UNCHANGED stateVars
    BY <2>1 DEF stateVars, notifyVars, NotificationsExact, Announced
  <2>2. CASE Announce
    <3>1. PICK next \in PlayerState :
            isValidTransition(state, next) /\ state' = next /\ enqueueStateLocked(next)
      BY <2>2 DEF Announce
    <3>2. Announced' = Append(Announced, next) /\ Announced \in Seq(PlayerState)
          /\ Len(Announced) > 0
      BY <3>1, AnnouncedGrows DEF TypeOK, NotifyType, Announced
    <3> HIDE DEF Announced
    <3>3. ExactPath' BY <2>0, <3>1, <3>2 DEF ExactPath
    <3> QED BY <3>3, ExactPathIs, PTL
  <2>3. CASE DispatcherStep
    <3>1. PICK d \in Dispatchers : Dispatch(d) \/ DispatchReturn(d)
      BY <2>3 DEF DispatcherStep
    <3>2. state' = state BY <2>3 DEF DispatcherStep
    <3>3. CASE DispatchNext(d)
      <4>1. Announced' = Tail(Announced) /\ Announced \in Seq(PlayerState)
            /\ Len(Announced) > 1
        BY <3>3, AnnouncedShrinks
      <4> HIDE DEF Announced
      <4>2. ExactPath' BY <2>0, <3>2, <4>1 DEF ExactPath
      <4> QED BY <4>2, ExactPathIs, PTL
    <3>4. CASE ~DispatchNext(d)
      BY <3>1, <3>2, <3>4 DEF Dispatch, DispatchExit, DispatchReturn, NotificationsExact, Announced
    <3> QED BY <3>3, <3>4
  <2> QED BY <2>1, <2>2, <2>3, StateSteps
<1> QED BY <1>1, <1>2, TypeCorrect, OneOwnerOfClose, PTL DEF Spec

\* The player, with all its threads, locks and failures, implements the
\* contract with the owner of OnStateChange.
THEOREM ImplementsContract == Spec => KeepsContract
<1>1. Init => Contract!Init BY DEF Init, Contract!Init
<1>2. TypeOK /\ OwnerInv /\ [Next]_vars => [Contract!Next]_(Contract!vars)
  <2> SUFFICES ASSUME TypeOK, OwnerInv, [Next]_vars PROVE [Contract!Next]_(Contract!vars)
    OBVIOUS
  <2>1. CASE UNCHANGED stateVars BY <2>1 DEF stateVars, notifyVars, Contract!vars
  <2>2. CASE Announce
    BY <2>2 DEF Announce, enqueueStateLocked, Contract!Next, Contract!Move,
       Contract!PlayerState, PlayerState, Contract!isValidTransition, isValidTransition,
       Contract!ValidTransitions, ValidTransitions
  <2>3. CASE DispatcherStep
    BY <2>3 DEF DispatcherStep, Dispatch, DispatchNext, DispatchExit, DispatchReturn,
       Contract!Next, Contract!Tell, Contract!vars
  <2> QED BY <2>1, <2>2, <2>3, StateSteps
<1> QED BY <1>1, <1>2, TypeCorrect, OneOwnerOfClose, PTL DEF Spec, KeepsContract, Contract!Spec

=============================================================================
