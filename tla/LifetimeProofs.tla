--------------------------- MODULE LifetimeProofs ---------------------------
(***************************************************************************)
(* Theorems about Player: how long its streams and main loops live, for    *)
(* any number of threads and loops, any calls, bounds and failures.        *)
(***************************************************************************)
EXTENDS PlayerProofs

-----------------------------------------------------------------------------
(* The inductive invariant, in five parts.                                 *)

\* One Start at a time gets past Starting, and until it is done the state goes
\* no other way than through Error to a Close.
ActivePcs == CreatePcs \cup RestartPcs \cup TeardownPcs \cup {"start_playing", "start_error"}
ActiveStart(t) == method[t] = "Start" /\ pc[t] \in ActivePcs
AfterStarting == {"Starting", "Error", "Closing", "Closed"}
StartInv ==
    /\ \A t \in Threads : pc[t] \in {"start_playing", "start_error"} => method[t] = "Start"
    /\ \A t \in Threads : pc[t] \in TeardownPcs => method[t] \in {"Start", "Close"}
    /\ \A t \in Threads : ActiveStart(t) => state \in AfterStarting
    /\ \A t, u \in Threads : ActiveStart(t) /\ ActiveStart(u) => t = u
    /\ closeDone # "nil" => state \in {"Closing", "Closed"}
    /\ closeDone = "closed" => state = "Closed"

\* The two pointers are one, as are those a thread holds; they are nil while a
\* Start creates; and a call under controlMu has the stream that is published.
CreatingPcs == {"start_loop", "start_stream", "start_connect", "start_activate", "start_publish"}
MakingPcs == CreatingPcs \ {"start_loop"}
HoldPcs == MakingPcs \cup DetachedPcs
PointersOf(t) ==
    /\ pc[t] \in CreatePcs \cup RestartPcs \cup {"start_starting"} => streamOps
    /\ pc[t] \in CreatingPcs => loopPtr = nil
    /\ pc[t] \in MakingPcs => lp[t] \in Loops
    /\ pc[t] \in HoldPcs \ {"start_stream"} => sp[t] = lp[t]
    /\ pc[t] = "start_spawn" => lp[t] \in Loops /\ loopPtr \in {nil, lp[t]}
    /\ pc[t] \in ControlPcs \ {"ctl_acquire"} => t \in readers
    /\ pc[t] = "ctl_call" => sp[t] = streamPtr /\ sp[t] # nil
PointerInv ==
    /\ streamPtr = loopPtr
    /\ loopPtr # nil => streamOps
    /\ \A t \in Threads : PointersOf(t)

\* A loop with its stream is held by the thread that creates it, then by loopPtr,
\* then by the thread that takes it down, and goes through its life with it.
Holds(t, g) == pc[t] \in HoldPcs /\ lp[t] = g
HeldRight(t, g) ==
    /\ loop[g] = "created" /\ loopPtr # g
    /\ pc[t] = "start_stream" => stream[g] = "none"
    /\ pc[t] = "start_connect" => stream[g] = "created"
    /\ pc[t] \in {"start_activate", "start_publish", "td_disconnect"} => stream[g] = "connected"
    /\ pc[t] \in {"td_quit", "td_await", "td_destroyStream"} => stream[g] = "disconnected"
    /\ pc[t] = "td_destroyLoop" => stream[g] = "destroyed"
    /\ pc[t] \in MakingPcs => loopPc[g] = "none"
    /\ pc[t] \in {"td_destroyStream", "td_destroyLoop"} => loopPc[g] = "exited"
Started(g) == loopPc[g] \notin {"none", "exited"}
Spawning(t, g) == pc[t] = "start_spawn" /\ lp[t] = g
LoopRight(g) ==
    /\ loopPtr = g => loop[g] = "created" /\ stream[g] = "connected"
    /\ loop[g] = "created" => loopPtr = g \/ \E t \in Threads : Holds(t, g)
    /\ loop[g] = "none" => stream[g] = "none" /\ loopPc[g] = "none"
    /\ loop[g] = "destroyed" => stream[g] \in {"none", "destroyed"}
    /\ Started(g) => loop[g] = "created" /\ stream[g] # "destroyed"
HoldInv ==
    /\ \A t \in Threads, g \in Loops : Holds(t, g) => HeldRight(t, g)
    /\ \A t, u \in Threads, g \in Loops : Holds(t, g) /\ Holds(u, g) => t = u
    /\ \A t \in Threads, g \in Loops : Spawning(t, g) =>
          loopPc[g] = "none" /\ loop[g] = "created" /\ stream[g] # "destroyed"
    /\ \A g \in Loops : LoopRight(g)

\* A process callback works on its own loop's stream, or on the one published
\* while its loop is taken down, which nobody can detach before the loop is gone.
BusyPcs == CreatePcs \cup RestartPcs \cup TeardownPcs
Busy(t) == method[t] = "Start" /\ pc[t] \in BusyPcs
NoDetachAhead == \A t \in Threads : Busy(t) => pc[t] = "start_spawn"
ProcessInv ==
    \A g \in Loops : Started(g) =>
        /\ loopPtr \notin {nil, g} => NoDetachAhead
        /\ loopPc[g] \in InProcessPcs => proc[g] # nil /\ proc[g] \in {g, loopPtr}

\* A Close that took over from no Start finds everything published, or nothing.
ToDetach(t) == method[t] = "Close" /\ pc[t] \in {"td_lock", "td_detach"}
CloseInv ==
    closeDone # "nil" /\ ~overtook =>
        /\ \A t \in Threads : ~Busy(t)
        /\ loopPtr # nil => \E t \in Threads : ToDetach(t)

LifeInv == StartInv /\ PointerInv /\ HoldInv /\ ProcessInv /\ CloseInv

-----------------------------------------------------------------------------
(* How a thread moves.                                                     *)

Others(t) ==
    \A u \in Threads : u # t =>
        pc'[u] = pc[u] /\ method'[u] = method[u] /\ sp'[u] = sp[u] /\ lp'[u] = lp[u]
Moved(t, m, l, s, k) ==
    pc'[t] = l /\ method'[t] = m /\ sp'[t] = s /\ lp'[t] = k /\ Others(t)

LEMMA GotoMoves ==
    ASSUME TypeOK, NEW t \in Threads, NEW l, Goto(t, l)
    PROVE  Moved(t, method[t], l, sp[t], lp[t])
BY DEF TypeOK, CallType, Goto, Moved, Others
LEMMA LoadMoves ==
    ASSUME TypeOK, NEW t \in Threads, NEW l, NEW s, NEW k, Load(t, s, k, l)
    PROVE  Moved(t, method[t], l, s, k)
BY DEF TypeOK, CallType, Load, Moved, Others
LEMMA ReturnMoves ==
    ASSUME TypeOK, NEW t \in Threads, Return(t)
    PROVE  Moved(t, "none", "idle", nil, nil)
BY DEF TypeOK, CallType, Return, Moved, Others
LEMMA EnterMoves ==
    ASSUME TypeOK, NEW t \in Threads, NEW m, NEW l, Enter(t, m, l)
    PROVE  Moved(t, m, l, sp[t], lp[t]) /\ pc[t] = "idle"
BY DEF TypeOK, CallType, Enter, MayEnter, Moved, Others

-----------------------------------------------------------------------------
(* StartInv.                                                               *)

\* No transition leads back to before Starting, or out of Closing.
KeepsStarting ==
    /\ state \in AfterStarting => state' \in AfterStarting
    /\ state \in {"Closing", "Closed"} => state' = state
    /\ closeDone' = closeDone

LEMMA TransitionKeepsStarting ==
    ASSUME NEW next, next \notin {"Closed", "Playing"}, transition(next)
    PROVE  /\ state \in AfterStarting => state' \in AfterStarting
           /\ state \in {"Closing", "Closed"} => state' = state
BY DEF transition, isValidTransition, ValidTransitions, AfterStarting

LEMMA StartKept ==
    ASSUME StartInv, NEW t \in Threads, Others(t), KeepsStarting,
           pc'[t] \in {"start_playing", "start_error"} => method'[t] = "Start",
           pc'[t] \in TeardownPcs => method'[t] \in {"Start", "Close"},
           ActiveStart(t)' => ActiveStart(t)
    PROVE  StartInv'
BY DEF StartInv, Others, KeepsStarting, ActiveStart

\* Steps that move nobody.
LEMMA LibraryStart ==
    ASSUME StartInv, KeepsStarting, UNCHANGED callVars PROVE StartInv'
BY DEF StartInv, KeepsStarting, ActiveStart, callVars

LEMMA CallStart ==
    ASSUME TypeOK, OwnerInv, StartInv, NEW t \in Threads, Call(t)
    PROVE  StartInv'
<1>1. CASE CloseOwn(t)
  <2>1. Moved(t, "Close", "td_lock", sp[t], lp[t]) BY <1>1, EnterMoves DEF CloseOwn
  <2>2. state' = "Closing" /\ closeDone' = "open" BY <1>1 DEF CloseOwn
  <2> QED BY <2>1, <2>2 DEF StartInv, Moved, Others, ActiveStart, AfterStarting
<1>2. CASE ~CloseOwn(t)
  <2>1. KeepsStarting
    BY <1>2 DEF Call, Start, Pause, Stop, CloseJoin, Control, ThreadOnly, lifecycleVars,
       KeepsStarting
  <2>2. ASSUME NEW m, NEW l, Enter(t, m, l), l \notin ActivePcs PROVE StartInv'
    <3>1. Moved(t, m, l, sp[t], lp[t]) BY <2>2, EnterMoves
    <3> QED BY <2>1, <2>2, <3>1, StartKept DEF Moved, ActiveStart, ActivePcs
  <2> QED BY <1>2, <2>2 DEF Call, Start, Pause, Stop, CloseJoin, Control, ActivePcs, CreatePcs,
        RestartPcs, TeardownPcs
<1> QED BY <1>1, <1>2

LEMMA StartStart ==
    ASSUME TypeOK, OwnerInv, StartInv, NEW t \in Threads, StartStep(t)
    PROVE  StartInv'
<1>1. method[t] = "Start"
  BY DEF OwnerInv, StartPcs, CreatePcs, RestartPcs, StartStep, ensureRuntime, StartStarting,
     StartResources, CreateMainLoop, CreatePlaybackStream, ConnectPlaybackStream,
     ActivateNewStream, StartPublish, StartSpawn, StartLoad, StartReactivate
<1>2. CASE StartStarting(t)
  <2>1. closeDone' = closeDone BY <1>2 DEF StartStarting, StateOnly
  <2>2. CASE isValidTransition(state, "Starting")
    <3>1. state \in {"Idle", "Stopped"} BY <2>2 DEF isValidTransition, ValidTransitions
    <3>2. Moved(t, "Start", "start_resources", sp[t], lp[t])
      BY <1>1, <1>2, <2>2, GotoMoves DEF StartStarting
    <3>3. state' = "Starting" BY <1>2, <2>2 DEF StartStarting, transition
    <3> QED BY <2>1, <3>1, <3>2, <3>3
          DEF StartInv, Moved, Others, ActiveStart, AfterStarting, TeardownPcs
  <2>3. CASE ~isValidTransition(state, "Starting")
    <3>1. Moved(t, "none", "idle", nil, nil) BY <1>2, <2>3, ReturnMoves DEF StartStarting
    <3>2. KeepsStarting BY <1>2, <2>1, <2>3 DEF StartStarting, transition, KeepsStarting
    <3> QED BY <3>1, <3>2, StartKept DEF Moved, ActiveStart, TeardownPcs
  <2> QED BY <2>2, <2>3
<1>3. CASE ~StartStarting(t)
  <2>1. KeepsStarting
    BY <1>3 DEF StartStep, ensureRuntime, StartResources, CreateMainLoop,
       CreatePlaybackStream, ConnectPlaybackStream, ActivateNewStream, StartPublish,
       StartSpawn, StartLoad, StartReactivate, ThreadOnly, NativeOnly, lifecycleVars,
       KeepsStarting
  <2>2. ASSUME NEW l, Goto(t, l), l \in ActivePcs => pc[t] \in ActivePcs PROVE StartInv'
    <3>1. Moved(t, "Start", l, sp[t], lp[t]) BY <1>1, <2>2, GotoMoves
    <3> QED BY <1>1, <2>1, <2>2, <3>1, StartKept DEF Moved, ActiveStart
  <2>3. ASSUME NEW l, NEW s, NEW k, Load(t, s, k, l), l \in ActivePcs => pc[t] \in ActivePcs
        PROVE  StartInv'
    <3>1. Moved(t, "Start", l, s, k) BY <1>1, <2>3, LoadMoves
    <3> QED BY <1>1, <2>1, <2>3, <3>1, StartKept DEF Moved, ActiveStart
  <2>4. CASE Return(t)
    <3>1. Moved(t, "none", "idle", nil, nil) BY <2>4, ReturnMoves
    <3> QED BY <2>1, <3>1, StartKept DEF Moved, ActiveStart, TeardownPcs
  <2>5. CASE ensureRuntime(t)
    <3>1. "start_starting" \notin ActivePcs
      BY DEF ActivePcs, CreatePcs, RestartPcs, TeardownPcs
    <3> QED BY <2>2, <2>4, <2>5, <3>1 DEF ensureRuntime
  <2>6. CASE ~ensureRuntime(t)
    <3>1. pc[t] \in ActivePcs
      BY <1>3, <2>6 DEF StartStep, StartResources, CreateMainLoop, CreatePlaybackStream,
         ConnectPlaybackStream, ActivateNewStream, StartPublish, StartSpawn, StartLoad,
         StartReactivate, ActivePcs, CreatePcs, RestartPcs
    <3> QED BY <1>3, <2>2, <2>3, <2>6, <3>1
          DEF StartStep, StartResources, CreateMainLoop, CreatePlaybackStream,
              ConnectPlaybackStream, ActivateNewStream, StartPublish, StartSpawn, StartLoad,
              StartReactivate
  <2> QED BY <2>5, <2>6
<1> QED BY <1>2, <1>3

LEMMA CloseStart ==
    ASSUME TypeOK, OwnerInv, StartInv, NEW t \in Threads, CloseStep(t)
    PROVE  StartInv'
<1>1. CASE CloseClosed(t)
  <2>1. Owns(t) BY <1>1 DEF CloseClosed, OwnerInv, Owns
  <2>2. Moved(t, "none", "idle", nil, nil) BY <1>1, ReturnMoves DEF CloseClosed
  <2>3. state' = "Closed" BY <1>1 DEF CloseClosed
  <2> QED BY <2>2, <2>3 DEF StartInv, Moved, Others, ActiveStart, AfterStarting, TeardownPcs
<1>2. CASE ~CloseClosed(t)
  <2>1. KeepsStarting
    BY <1>2 DEF CloseStep, CloseJoined, TeardownLock, TeardownDetach, TeardownDisconnect,
       TeardownQuit, TeardownAwait, TeardownDestroyStream, TeardownDestroyLoop, ThreadOnly,
       NativeOnly, LockOnly, lifecycleVars, KeepsStarting
  <2>2. CASE CloseJoined(t)
    <3>1. Moved(t, "none", "idle", nil, nil) BY <2>2, ReturnMoves DEF CloseJoined
    <3> QED BY <2>1, <3>1, StartKept DEF Moved, ActiveStart, TeardownPcs
  <2>3. CASE pc[t] \in TeardownPcs
    <3>1. method[t] \in {"Start", "Close"} BY <2>3 DEF StartInv
    <3>2. ASSUME NEW l \in TeardownPcs \cup {AfterTeardown(t)}, NEW s, NEW k,
                 Moved(t, method[t], l, s, k)
          PROVE  StartInv'
      <4>1. l \in {"start_playing", "start_error"} => method[t] = "Start"
        BY <3>1, <3>2 DEF AfterTeardown, TeardownPcs
      <4>2. pc'[t] = l /\ method'[t] = method[t] /\ Others(t) BY <3>2 DEF Moved
      <4> QED BY <2>1, <2>3, <3>1, <4>1, <4>2, StartKept DEF ActiveStart, ActivePcs
    <3>3. ASSUME NEW l \in TeardownPcs \cup {AfterTeardown(t)}, Goto(t, l) PROVE StartInv'
      BY <3>2, <3>3, GotoMoves
    <3>4. ASSUME NEW l \in TeardownPcs \cup {AfterTeardown(t)}, NEW s, NEW k, Load(t, s, k, l)
          PROVE  StartInv'
      BY <3>2, <3>4, LoadMoves
    <3>5. {"td_detach", "td_disconnect", "td_quit", "td_await", "td_destroyStream",
           "td_destroyLoop"} \subseteq TeardownPcs
      BY DEF TeardownPcs
    <3> QED BY <1>2, <2>3, <3>3, <3>4, <3>5 DEF CloseStep, CloseJoined, TeardownLock,
            TeardownDetach,
          TeardownDisconnect, TeardownQuit, TeardownAwait, TeardownDestroyStream,
          TeardownDestroyLoop, TeardownPcs
  <2> QED BY <1>2, <2>2, <2>3 DEF CloseStep, TeardownLock, TeardownDetach, TeardownDisconnect,
        TeardownQuit, TeardownAwait, TeardownDestroyStream, TeardownDestroyLoop, TeardownPcs
<1> QED BY <1>1, <1>2

LEMMA OtherStart ==
    ASSUME TypeOK, OwnerInv, StartInv, NEW t \in Threads,
           StopStep(t) \/ FinishCall(t) \/ ControlStep(t)
    PROVE  StartInv'
<1>1. CASE FinishCall(t)
  <2>1. Moved(t, "none", "idle", nil, nil) BY <1>1, ReturnMoves DEF FinishCall
  <2>2. closeDone' = closeDone BY <1>1 DEF FinishCall, StateOnly
  <2>3. CASE pc[t] = "start_playing"
    <3>1. transition("Playing") BY <1>1, <2>3 DEF FinishCall, LastTransition
    <3>2. state \in {"Closing", "Closed"} => state' = state
      BY <3>1 DEF transition, isValidTransition, ValidTransitions
    <3>3. \A u \in Threads : ~ActiveStart(u)'
      BY <2>1, <2>3 DEF StartInv, Moved, Others, ActiveStart, ActivePcs
    <3> QED BY <2>1, <2>2, <3>2, <3>3 DEF StartInv, Moved, Others, TeardownPcs
  <2>4. CASE pc[t] # "start_playing"
    <3>1. LastTransition[pc[t]] \notin {"Closed", "Playing"}
      BY <1>1, <2>4 DEF FinishCall, LastTransition
    <3>2. KeepsStarting BY <1>1, <2>2, <3>1, TransitionKeepsStarting DEF FinishCall, KeepsStarting
    <3> QED BY <2>1, <3>2, StartKept DEF Moved, ActiveStart, TeardownPcs
  <2> QED BY <2>3, <2>4
<1>2. CASE ~FinishCall(t)
  <2>1. KeepsStarting
    BY <1>2 DEF StopStep, StopLoad, StopDeactivate, ControlStep, ControlAcquire,
       ControlRecheck, ControlLoad, ControlCall, ControlRelease, ThreadOnly, NativeOnly,
       LockOnly, lifecycleVars, KeepsStarting
  <2>2. ASSUME NEW m, NEW l, NEW s, NEW k, Moved(t, m, l, s, k), l \notin ActivePcs
        PROVE  StartInv'
    BY <2>1, <2>2, StartKept DEF Moved, ActiveStart, ActivePcs
  <2>3. ASSUME NEW l \in {"stop_deactivate", "stop_stopped"} \cup ControlPcs, NEW k,
               Goto(t, l) \/ Load(t, k, nil, l)
        PROVE  StartInv'
    <3>1. l \notin ActivePcs
      BY DEF ControlPcs, ActivePcs, CreatePcs, RestartPcs, TeardownPcs
    <3> QED BY <2>2, <2>3, <3>1, GotoMoves, LoadMoves
  <2>4. CASE Return(t)
    <3>1. "idle" \notin ActivePcs BY DEF ActivePcs, CreatePcs, RestartPcs, TeardownPcs
    <3> QED BY <2>2, <2>4, <3>1, ReturnMoves
  <2> QED BY <1>2, <2>3, <2>4 DEF StopStep, StopLoad, StopDeactivate, ControlStep, ControlAcquire,
        ControlRecheck, ControlLoad, ControlCall, ControlRelease, ControlPcs
<1> QED BY <1>1, <1>2

LEMMA LoopKeepsStarting ==
    ASSUME NEW g \in Loops, LoopStep(g)
    PROVE  KeepsStarting /\ UNCHANGED <<callVars, streamOps, streamPtr, loopPtr, closeDone,
                                        overtook, controlVars, stream, active, loop>>
<1>1. UNCHANGED <<callVars, streamOps, streamPtr, loopPtr, closeDone, overtook, controlVars,
                  stream, active, loop>>
  BY DEF LoopStep, LoopRuns, LoopEnter, LoopQuit, LoopError, LoopEnded, ProcessBegin,
     ProcessDequeue, ProcessFilled, ProcessQueue, ProcessRequeue, fail, OnErrorReturns, LoopGoto
<1>2. CASE fail(g) BY <1>1, <1>2, TransitionKeepsStarting DEF fail, KeepsStarting
<1>3. CASE ~fail(g)
  BY <1>1, <1>3 DEF LoopStep, LoopRuns, LoopEnter, LoopQuit, LoopError, LoopEnded,
     ProcessBegin, ProcessDequeue, ProcessFilled, ProcessQueue, ProcessRequeue,
     OnErrorReturns, LoopOnly, KeepsStarting
<1> QED BY <1>1, <1>2, <1>3

LEMMA StartInvStep ==
    ASSUME TypeOK, OwnerInv, StartInv, [Next]_vars PROVE StartInv'
<1>1. CASE UNCHANGED vars
  BY <1>1, LibraryStart DEF vars, lifecycleVars, KeepsStarting
<1>2. ASSUME NEW t \in Threads, Call(t) \/ Continue(t) PROVE StartInv'
  BY <1>2, CallStart, StartStart, CloseStart, OtherStart DEF Continue
<1>3. ASSUME NEW d \in Dispatchers, Dispatch(d) \/ DispatchReturn(d) PROVE StartInv'
  BY <1>3, LibraryStart DEF Dispatch, DispatchNext, DispatchExit, DispatchReturn, NotifyOnly,
     lifecycleVars, KeepsStarting
<1>4. ASSUME NEW g \in Loops, LoopStep(g) PROVE StartInv'
  BY <1>4, LoopKeepsStarting, LibraryStart
<1> QED BY <1>1, <1>2, <1>3, <1>4 DEF Next

-----------------------------------------------------------------------------
(* PointerInv.                                                             *)

LEMMA CreatorIsActive ==
    ASSUME OwnerInv, NEW t \in Threads, pc[t] \in CreatePcs \cup RestartPcs PROVE ActiveStart(t)
BY DEF OwnerInv, StartPcs, ActiveStart, ActivePcs

LEMMA PointerKept ==
    ASSUME PointerInv, NEW t \in Threads, Others(t), PointersOf(t)',
           UNCHANGED <<streamPtr, loopPtr, streamOps>>, readers \subseteq readers' \cup {t}
    PROVE  PointerInv'
<1>1. ASSUME NEW u \in Threads, u # t PROVE PointersOf(u)'
  <2>1. PointersOf(u) BY DEF PointerInv
  <2> QED BY <1>1, <2>1 DEF Others, PointersOf
<1> QED BY <1>1 DEF PointerInv

LEMMA LibraryPointer ==
    ASSUME PointerInv, UNCHANGED <<callVars, streamPtr, loopPtr, streamOps, readers>>
    PROVE  PointerInv'
BY DEF PointerInv, PointersOf, callVars

LEMMA CallPointer ==
    ASSUME TypeOK, PointerInv, NEW t \in Threads, Call(t)
    PROVE  PointerInv'
<1>1. UNCHANGED <<streamPtr, loopPtr, streamOps, readers>>
  BY DEF Call, Start, Pause, Stop, CloseOwn, CloseJoin, Control, ThreadOnly, PlayerOnly,
     lifecycleVars, controlVars
<1>2. ASSUME NEW m, Enter(t, m, pc'[t]),
             pc'[t] \in {"start_runtime", "pause_paused", "stop_load", "td_lock", "close_wait",
                         "ctl_acquire"}
      PROVE  PointerInv'
  <2>1. Others(t) BY <1>2, EnterMoves DEF Moved
  <2>2. PointersOf(t)'
    BY <1>2 DEF PointersOf, CreatingPcs, MakingPcs, HoldPcs, CreatePcs, RestartPcs, ControlPcs,
       TeardownPcs, DetachedPcs
  <2> QED BY <1>1, <2>1, <2>2, PointerKept
<1>3. ASSUME NEW m, NEW l, Enter(t, m, l) PROVE Enter(t, m, pc'[t]) /\ pc'[t] = l
  BY <1>3, EnterMoves DEF Moved
<1> QED BY <1>2, <1>3 DEF Call, Start, Pause, Stop, CloseOwn, CloseJoin, Control

LEMMA StartPointer ==
    ASSUME TypeOK, OwnerInv, StartInv, PointerInv, NEW t \in Threads, StartStep(t)
    PROVE  PointerInv'
<1> USE DEF CreatingPcs, MakingPcs, HoldPcs, CreatePcs, RestartPcs, ControlPcs, TeardownPcs,
        DetachedPcs
<1>0. PointersOf(t) /\ streamPtr = loopPtr BY DEF PointerInv
<1>1. CASE ensureRuntime(t)
  <2>1. CASE streamOps' = TRUE /\ Goto(t, "start_starting")
    <3>1. Moved(t, method[t], "start_starting", sp[t], lp[t]) BY <2>1, GotoMoves
    <3>2. UNCHANGED <<streamPtr, loopPtr, readers>>
      BY <1>1 DEF ensureRuntime, PlayerOnly, controlVars
    <3>3. PointersOf(t)' BY <2>1, <3>1 DEF Moved, PointersOf
    <3>4. ASSUME NEW u \in Threads, u # t PROVE PointersOf(u)'
      <4>1. PointersOf(u) BY DEF PointerInv
      <4> QED BY <2>1, <3>1, <3>2, <3>4, <4>1 DEF Moved, Others, PointersOf
    <3> QED BY <2>1, <3>2, <3>3, <3>4 DEF PointerInv
  <2>2. CASE Return(t) /\ UNCHANGED streamOps
    <3>1. Moved(t, "none", "idle", nil, nil) BY <2>2, ReturnMoves
    <3>2. UNCHANGED <<streamPtr, loopPtr, readers>>
      BY <1>1 DEF ensureRuntime, PlayerOnly, controlVars
    <3> QED BY <2>2, <3>1, <3>2, PointerKept DEF Moved, PointersOf
  <2> QED BY <1>1, <2>1, <2>2 DEF ensureRuntime
<1>2. CASE StartPublish(t)
  <2>1. Moved(t, method[t], "start_spawn", sp[t], lp[t]) BY <1>2, GotoMoves DEF StartPublish
  <2>2. streamPtr' = lp[t] /\ loopPtr' = lp[t] /\ loopPtr = nil /\ streamOps /\ lp[t] \in Loops
    BY <1>0, <1>2 DEF StartPublish, PointersOf
  <2>3. UNCHANGED <<streamOps, readers>> BY <1>2 DEF StartPublish, PlayerOnly, controlVars
  <2>4. PointersOf(t)' BY <2>1, <2>2, <2>3 DEF Moved, PointersOf
  <2>5. ASSUME NEW u \in Threads, u # t PROVE PointersOf(u)'
    <3>1. PointersOf(u) BY DEF PointerInv
    <3>2. pc[u] \notin CreatePcs
      <4>1. ActiveStart(t) BY <1>2, CreatorIsActive DEF StartPublish
      <4> QED BY <2>5, <4>1, CreatorIsActive DEF StartInv
    <3> QED BY <1>0, <2>1, <2>2, <2>3, <2>5, <3>1, <3>2 DEF Moved, Others, PointersOf
  <2> QED BY <2>2, <2>3, <2>4, <2>5 DEF PointerInv
<1>3. CASE StartStarting(t)
  <2>1. UNCHANGED <<streamPtr, loopPtr, streamOps, readers>>
    BY <1>3 DEF StartStarting, StateOnly, PlayerOnly, controlVars
  <2>2. CASE Goto(t, "start_resources")
    <3>1. Moved(t, method[t], "start_resources", sp[t], lp[t]) BY <2>2, GotoMoves
    <3>2. streamOps BY <1>0, <1>3 DEF StartStarting, PointersOf
    <3> QED BY <2>1, <3>1, <3>2, PointerKept DEF Moved, PointersOf
  <2>3. CASE Return(t)
    <3>1. Moved(t, "none", "idle", nil, nil) BY <2>3, ReturnMoves
    <3> QED BY <2>1, <3>1, PointerKept DEF Moved, PointersOf
  <2> QED BY <1>3, <2>2, <2>3 DEF StartStarting
<1>4. CASE StartResources(t) \/ CreateMainLoop(t) \/ CreatePlaybackStream(t)
           \/ ConnectPlaybackStream(t) \/ ActivateNewStream(t) \/ StartSpawn(t) \/ StartLoad(t)
           \/ StartReactivate(t)
  <2>1. UNCHANGED <<streamPtr, loopPtr, streamOps, readers>>
    BY <1>4 DEF StartResources, CreateMainLoop, CreatePlaybackStream, ConnectPlaybackStream,
       ActivateNewStream, StartSpawn, StartLoad, StartReactivate, ThreadOnly, NativeOnly,
       lifecycleVars, controlVars
  <2>2. streamOps /\ pc[t] \in CreatePcs \cup RestartPcs
    BY <1>0, <1>4 DEF StartResources, CreateMainLoop, CreatePlaybackStream,
       ConnectPlaybackStream, ActivateNewStream, StartSpawn, StartLoad, StartReactivate,
       PointersOf
  <2>3. ASSUME NEW l, Goto(t, l),
               l \in {"start_error", "start_load", "start_playing", "td_lock"}
                 \/ (l = "start_loop" /\ loopPtr = nil)
                 \/ (l \in {"start_activate", "start_publish"} /\ sp[t] = lp[t]
                     /\ loopPtr = nil /\ lp[t] \in Loops)
        PROVE  PointerInv'
    <3>1. Moved(t, method[t], l, sp[t], lp[t]) BY <2>3, GotoMoves
    <3>2. PointersOf(t)' BY <2>1, <2>2, <2>3, <3>1 DEF Moved, PointersOf
    <3> QED BY <2>1, <3>1, <3>2, PointerKept DEF Moved
  <2>4. ASSUME NEW l, NEW s, NEW k, Load(t, s, k, l),
               l = "start_reactivate"
                 \/ (l = "start_stream" /\ loopPtr = nil /\ k \in Loops)
                 \/ (l = "start_connect" /\ loopPtr = nil /\ k \in Loops /\ s = k)
        PROVE  PointerInv'
    <3>1. Moved(t, method[t], l, s, k) BY <2>4, LoadMoves
    <3>2. PointersOf(t)' BY <2>1, <2>2, <2>4, <3>1 DEF Moved, PointersOf
    <3> QED BY <2>1, <3>1, <3>2, PointerKept DEF Moved
  <2>5. CASE StartResources(t) BY <1>0, <2>3, <2>5 DEF StartResources, HasResources
  <2>6. CASE CreateMainLoop(t)
    <3>1. (\E g \in Loops : loop[g] = "none") => NewLoop \in Loops BY DEF NewLoop
    <3>2. loopPtr = nil BY <1>0, <2>6 DEF CreateMainLoop, PointersOf
    <3> QED BY <2>3, <2>4, <2>6, <3>1, <3>2 DEF CreateMainLoop
  <2>7. CASE CreatePlaybackStream(t)
    BY <1>0, <2>3, <2>4, <2>7 DEF CreatePlaybackStream, PointersOf
  <2>8. CASE ConnectPlaybackStream(t)
    BY <1>0, <2>3, <2>8 DEF ConnectPlaybackStream, PointersOf
  <2>9. CASE ActivateNewStream(t) BY <1>0, <2>3, <2>9 DEF ActivateNewStream, PointersOf
  <2> QED BY <1>4, <2>3, <2>4, <2>5, <2>6, <2>7, <2>8, <2>9
        DEF StartSpawn, StartLoad, StartReactivate
<1> QED BY <1>1, <1>2, <1>3, <1>4 DEF StartStep

LEMMA ClosePointer ==
    ASSUME TypeOK, OwnerInv, StartInv, PointerInv, NEW t \in Threads, CloseStep(t)
    PROVE  PointerInv'
<1> USE DEF CreatingPcs, MakingPcs, HoldPcs, CreatePcs, RestartPcs, ControlPcs, TeardownPcs,
        DetachedPcs
<1>0. PointersOf(t) /\ streamPtr = loopPtr BY DEF PointerInv
<1>1. CASE TeardownDetach(t)
  <2>1. PICK l \in {"td_disconnect", "close_closed", "start_error"} :
            Moved(t, method[t], l, streamPtr, loopPtr)
    <3>1. (IF streamOps THEN "td_disconnect" ELSE AfterTeardown(t))
              \in {"td_disconnect", "close_closed", "start_error"}
      BY DEF AfterTeardown
    <3> HIDE DEF CreatingPcs, MakingPcs, HoldPcs, CreatePcs, RestartPcs, ControlPcs, TeardownPcs,
          DetachedPcs
    <3> QED BY <1>1, <3>1, LoadMoves DEF TeardownDetach
  <2>2. /\ readers = {} /\ readers' = {}
        /\ streamPtr' = nil /\ loopPtr' = nil /\ streamOps' = streamOps
    BY <1>1 DEF TeardownDetach
  <2>3. PointersOf(t)' BY <1>0, <2>1, <2>2 DEF Moved, PointersOf
  <2>4. ASSUME NEW u \in Threads, u # t PROVE PointersOf(u)'
    <3>1. PointersOf(u) BY DEF PointerInv
    <3> QED BY <2>1, <2>2, <2>4, <3>1 DEF Moved, Others, PointersOf
  <2> QED BY <2>2, <2>3, <2>4 DEF PointerInv
<1>2. CASE ~TeardownDetach(t)
  <2>1. UNCHANGED <<streamPtr, loopPtr, streamOps, readers>>
    BY <1>2 DEF CloseStep, CloseJoined, TeardownLock, TeardownDisconnect, TeardownQuit,
       TeardownAwait, TeardownDestroyStream, TeardownDestroyLoop, CloseClosed, ThreadOnly,
       NativeOnly, LockOnly, PlayerOnly, lifecycleVars, controlVars
  <2>2. ASSUME Goto(t, pc'[t]),
               pc'[t] \in {"td_detach", "close_closed", "start_error"}
                 \/ (pc'[t] \in DetachedPcs /\ pc[t] \in DetachedPcs)
        PROVE  PointerInv'
    <3>1. Moved(t, method[t], pc'[t], sp[t], lp[t]) BY <2>2, GotoMoves
    <3>2. PointersOf(t)' BY <1>0, <2>1, <2>2, <3>1 DEF Moved, PointersOf
    <3> QED BY <2>1, <3>1, <3>2, PointerKept DEF Moved
  <2>3. ASSUME NEW l, Goto(t, l) PROVE Goto(t, pc'[t]) /\ pc'[t] = l
    BY <2>3, GotoMoves DEF Moved
  <2>4. CASE Return(t)
    <3>1. Moved(t, "none", "idle", nil, nil) BY <2>4, ReturnMoves
    <3>2. PointersOf(t)' BY <2>1, <3>1 DEF Moved, PointersOf
    <3> QED BY <2>1, <3>1, <3>2, PointerKept DEF Moved
  <2> QED BY <1>2, <2>2, <2>3, <2>4
        DEF CloseStep, CloseJoined, TeardownLock, TeardownDisconnect, TeardownQuit,
            TeardownAwait, TeardownDestroyStream, TeardownDestroyLoop, CloseClosed, AfterTeardown
<1> QED BY <1>1, <1>2

LEMMA OtherPointer ==
    ASSUME TypeOK, PointerInv, NEW t \in Threads,
           StopStep(t) \/ FinishCall(t) \/ ControlStep(t)
    PROVE  PointerInv'
<1> USE DEF CreatingPcs, MakingPcs, HoldPcs, CreatePcs, RestartPcs, ControlPcs, TeardownPcs,
        DetachedPcs
<1>0. PointersOf(t) /\ streamPtr = loopPtr BY DEF PointerInv
<1>1. UNCHANGED <<streamPtr, loopPtr, streamOps>>
  BY DEF StopStep, StopLoad, StopDeactivate, FinishCall, ControlStep, ControlAcquire,
     ControlRecheck, ControlLoad, ControlCall, ControlRelease, ThreadOnly, NativeOnly,
     StateOnly, LockOnly, lifecycleVars
<1>2. readers \subseteq readers' \cup {t} /\ (ControlRelease(t) \/ readers \subseteq readers')
  BY DEF StopStep, StopLoad, StopDeactivate, FinishCall, ControlStep, ControlAcquire,
     ControlRecheck, ControlLoad, ControlCall, ControlRelease, ThreadOnly, NativeOnly,
     StateOnly, PlayerOnly, LockOnly, controlVars
<1>3. ASSUME NEW l, Goto(t, l),
             l = "stop_stopped" \/ (l \in ControlPcs \ {"ctl_call"} /\ t \in readers')
      PROVE  PointerInv'
  <2>1. Moved(t, method[t], l, sp[t], lp[t]) BY <1>3, GotoMoves
  <2>2. PointersOf(t)' BY <1>3, <2>1 DEF Moved, PointersOf
  <2> QED BY <1>1, <1>2, <2>1, <2>2, PointerKept DEF Moved
<1>4. ASSUME NEW l, Load(t, streamPtr, nil, l),
             \/ l \in {"stop_deactivate", "stop_stopped"}
             \/ l = "ctl_release" /\ t \in readers'
             \/ l = "ctl_call" /\ streamPtr # nil /\ t \in readers'
      PROVE  PointerInv'
  <2>1. Moved(t, method[t], l, streamPtr, nil) BY <1>4, LoadMoves
  <2>2. PointersOf(t)' BY <1>1, <1>4, <2>1 DEF Moved, PointersOf
  <2> QED BY <1>1, <1>2, <2>1, <2>2, PointerKept DEF Moved
<1>5. CASE Return(t)
  <2>1. Moved(t, "none", "idle", nil, nil) BY <1>5, ReturnMoves
  <2>2. PointersOf(t)' BY <1>1, <2>1 DEF Moved, PointersOf
  <2> QED BY <1>1, <1>2, <2>1, <2>2, PointerKept DEF Moved
<1>6. CASE StopStep(t) \/ FinishCall(t)
  BY <1>3, <1>4, <1>5, <1>6 DEF StopStep, StopLoad, StopDeactivate, FinishCall
<1>7. CASE ControlAcquire(t) BY <1>3, <1>5, <1>7 DEF ControlAcquire
<1>8. CASE ControlRecheck(t) \/ ControlLoad(t) \/ ControlCall(t)
  <2>1. t \in readers'
    BY <1>0, <1>8 DEF ControlRecheck, ControlLoad, ControlCall, PointersOf, ThreadOnly,
            controlVars
  <2> QED BY <1>3, <1>4, <1>8, <2>1 DEF ControlRecheck, ControlLoad, ControlCall
<1>9. CASE ControlRelease(t) BY <1>5, <1>9 DEF ControlRelease
<1> QED BY <1>6, <1>7, <1>8, <1>9 DEF ControlStep

LEMMA PointerInvStep ==
    ASSUME TypeOK, OwnerInv, StartInv, PointerInv, [Next]_vars PROVE PointerInv'
<1>1. CASE UNCHANGED vars
  BY <1>1, LibraryPointer DEF vars, lifecycleVars, controlVars
<1>2. ASSUME NEW t \in Threads, Call(t) \/ Continue(t) PROVE PointerInv'
  BY <1>2, CallPointer, StartPointer, ClosePointer, OtherPointer DEF Continue
<1>3. ASSUME NEW d \in Dispatchers, Dispatch(d) \/ DispatchReturn(d) PROVE PointerInv'
  BY <1>3, LibraryPointer DEF Dispatch, DispatchNext, DispatchExit, DispatchReturn, NotifyOnly,
     lifecycleVars, controlVars
<1>4. ASSUME NEW g \in Loops, LoopStep(g) PROVE PointerInv'
  BY <1>4, LoopKeepsStarting, LibraryPointer DEF controlVars
<1> QED BY <1>1, <1>2, <1>3, <1>4 DEF Next

-----------------------------------------------------------------------------
(* HoldInv.                                                                *)

\* A step of a thread that holds nothing and comes to hold nothing.
LEMMA HoldKept ==
    ASSUME HoldInv, NEW t \in Threads, Others(t),
           UNCHANGED <<stream, loop, loopPc, loopPtr>>, pc'[t] # "start_spawn",
           \A g \in Loops : ~Holds(t, g) /\ ~Holds(t, g)'
    PROVE  HoldInv'
<1>1. \A u \in Threads, g \in Loops : Holds(u, g)' <=> Holds(u, g) BY DEF Others, Holds
<1>2. \A u \in Threads, g \in Loops : Spawning(u, g)' => Spawning(u, g) BY DEF Others, Spawning
<1>3. \A u \in Threads, g \in Loops : Holds(u, g) => HeldRight(u, g)'
  BY DEF HoldInv, HeldRight, Others
<1>4. \A g \in Loops : LoopRight(g)' BY <1>1 DEF HoldInv, LoopRight, Started
<1> QED BY <1>1, <1>2, <1>3, <1>4 DEF HoldInv

\* A step of the thread that holds g, on g alone.
LEMMA HolderKept ==
    ASSUME HoldInv, NEW t \in Threads, NEW g \in Loops, Holds(t, g), Others(t),
           loopPtr' = loopPtr, loopPc' = loopPc, pc'[t] # "start_spawn", lp'[t] = g,
           \A h \in Loops : h # g => stream'[h] = stream[h] /\ loop'[h] = loop[h],
           \/ Holds(t, g)' /\ HeldRight(t, g)'
           \/ /\ pc'[t] \notin HoldPcs
              /\ loop'[g] = "destroyed" /\ stream'[g] \in {"none", "destroyed"},
           Started(g) \/ (\E u \in Threads : Spawning(u, g))
                => loop'[g] = "created" /\ stream'[g] # "destroyed"
    PROVE  HoldInv'
<1>1. \A u \in Threads, h \in Loops :
        (Holds(u, h)' => Holds(u, h)) /\ (h # g => (Holds(u, h)' <=> Holds(u, h)))
  BY DEF Others, Holds
<1>2. \A u \in Threads, h \in Loops : Spawning(u, h)' => Spawning(u, h) BY DEF Others, Spawning
<1>3. ASSUME NEW u \in Threads, NEW h \in Loops, Holds(u, h)' PROVE HeldRight(u, h)'
  <2>1. CASE u = t BY <1>3, <2>1 DEF Holds
  <2>2. CASE u # t
    <3>1. Holds(u, h) /\ h # g BY <1>1, <1>3, <2>2 DEF HoldInv
    <3> QED BY <2>2, <3>1 DEF HoldInv, HeldRight, Others
  <2> QED BY <2>1, <2>2
<1>4. ASSUME NEW h \in Loops PROVE LoopRight(h)'
  <2>1. CASE h # g BY <1>1, <2>1 DEF HoldInv, LoopRight, Started
  <2>2. CASE h = g
    <3>1. loopPtr # g BY DEF HoldInv, HeldRight
    <3>2. \/ loop'[g] = "created"
          \/ loop'[g] = "destroyed" /\ stream'[g] \in {"none", "destroyed"}
      BY DEF HeldRight
    <3>3. loop'[g] = "created" => Holds(t, g)' OBVIOUS
    <3>4. Started(g)' <=> Started(g) BY DEF Started
    <3> QED BY <2>2, <3>1, <3>2, <3>3, <3>4 DEF LoopRight
  <2> QED BY <2>1, <2>2
<1>5. ASSUME NEW u \in Threads, NEW h \in Loops, Spawning(u, h)'
      PROVE  (loopPc[h] = "none" /\ loop[h] = "created" /\ stream[h] # "destroyed")'
  BY <1>2, <1>5 DEF HoldInv
<1>6. \A u, v \in Threads, h \in Loops : Holds(u, h)' /\ Holds(v, h)' => u = v
  BY <1>1 DEF HoldInv
<1> QED BY <1>3, <1>4, <1>5, <1>6 DEF HoldInv

\* A loop that is about to be run, or runs, is destroyed by nobody.
LEMMA HolderOfSpawning ==
    ASSUME OwnerInv, StartInv, HoldInv, NEW t \in Threads, NEW g \in Loops, Holds(t, g),
           Started(g) \/ (\E u \in Threads : Spawning(u, g))
    PROVE  pc[t] \in {"td_disconnect", "td_quit", "td_await"}
<1>1. HeldRight(t, g) BY DEF HoldInv
<1>2. pc[t] \notin MakingPcs
  <2>1. CASE Started(g) BY <1>1, <2>1 DEF HeldRight, Started
  <2>2. ASSUME NEW u \in Threads, Spawning(u, g), pc[t] \in MakingPcs PROVE FALSE
    <3>1. pc[u] \in CreatePcs /\ pc[t] \in CreatePcs
      BY <2>2 DEF Spawning, MakingPcs, CreatingPcs, CreatePcs
    <3>2. t = u BY <3>1, CreatorIsActive DEF StartInv
    <3> QED BY <2>2, <3>2 DEF Spawning, MakingPcs, CreatingPcs
  <2> QED BY <2>1, <2>2
<1>3. loopPc[g] # "exited" BY DEF Started, HoldInv
<1> QED BY <1>1, <1>2, <1>3 DEF Holds, HeldRight, HoldPcs, DetachedPcs, TeardownPcs

LEMMA CallHold ==
    ASSUME TypeOK, HoldInv, NEW t \in Threads, Call(t)
    PROVE  HoldInv'
<1>1. UNCHANGED <<stream, loop, loopPc, loopPtr>>
  BY DEF Call, Start, Pause, Stop, CloseOwn, CloseJoin, Control, ThreadOnly, PlayerOnly,
     lifecycleVars, nativeVars, loopVars
<1>2. ASSUME NEW m, NEW l, Enter(t, m, l),
             l \in {"start_runtime", "pause_paused", "stop_load", "td_lock", "close_wait",
                    "ctl_acquire"}
      PROVE  HoldInv'
  <2>1. Others(t) /\ pc'[t] = l /\ pc[t] = "idle" BY <1>2, EnterMoves DEF Moved
  <2> QED BY <1>1, <1>2, <2>1, HoldKept DEF Holds, HoldPcs, MakingPcs, CreatingPcs,
          DetachedPcs, TeardownPcs
<1> QED BY <1>2 DEF Call, Start, Pause, Stop, CloseOwn, CloseJoin, Control

LEMMA OtherHold ==
    ASSUME TypeOK, HoldInv, NEW t \in Threads, StopStep(t) \/ FinishCall(t) \/ ControlStep(t)
    PROVE  HoldInv'
<1> DEFINE Away == {"idle", "stop_deactivate", "stop_stopped"} \cup ControlPcs
<1>1. UNCHANGED <<stream, loop, loopPc, loopPtr>>
  BY DEF StopStep, StopLoad, StopDeactivate, FinishCall, ControlStep, ControlAcquire,
     ControlRecheck, ControlLoad, ControlCall, ControlRelease, ThreadOnly, NativeOnly,
     StateOnly, PlayerOnly, LockOnly, lifecycleVars, nativeVars, loopVars
<1>2. pc[t] \notin HoldPcs
  BY DEF StopStep, StopLoad, StopDeactivate, FinishCall, LastTransition, ControlStep,
     ControlAcquire, ControlRecheck, ControlLoad, ControlCall, ControlRelease, HoldPcs,
     MakingPcs, CreatingPcs, DetachedPcs, TeardownPcs
<1>3. ASSUME NEW m, NEW l \in Away, NEW s, NEW k, Moved(t, m, l, s, k) PROVE HoldInv'
  <2>1. l \notin HoldPcs /\ l # "start_spawn"
    BY DEF HoldPcs, MakingPcs, CreatingPcs, DetachedPcs, TeardownPcs, ControlPcs
  <2> QED BY <1>1, <1>2, <1>3, <2>1, HoldKept DEF Moved, Holds
<1>4. ASSUME NEW l \in Away, Goto(t, l) PROVE HoldInv' BY <1>3, <1>4, GotoMoves
<1>5. ASSUME NEW l \in Away, NEW s, Load(t, s, nil, l) PROVE HoldInv' BY <1>3, <1>5, LoadMoves
<1>6. CASE Return(t) BY <1>3, <1>6, ReturnMoves
<1>7. {"stop_deactivate", "stop_stopped"} \cup ControlPcs \subseteq Away OBVIOUS
<1> HIDE DEF Away
<1> QED BY <1>4, <1>5, <1>6, <1>7
      DEF StopStep, StopLoad, StopDeactivate, FinishCall, ControlStep, ControlAcquire,
          ControlRecheck, ControlLoad, ControlCall, ControlRelease, ControlPcs

\* The next place of a thread that makes or takes down g.
LEMMA HolderMoves ==
    ASSUME TypeOK, OwnerInv, StartInv, PointerInv, HoldInv, NEW t \in Threads, NEW g \in Loops,
           Holds(t, g), NEW l, Moved(t, method[t], l, lp[t], lp[t]), l # "start_spawn",
           loopPtr' = loopPtr, loopPc' = loopPc,
           \A h \in Loops : h # g => stream'[h] = stream[h] /\ loop'[h] = loop[h],
           \/ l \in HoldPcs /\ HeldRight(t, g)'
           \/ /\ l \notin HoldPcs
              /\ loop'[g] = "destroyed" /\ stream'[g] \in {"none", "destroyed"},
           pc[t] \in {"td_disconnect", "td_quit", "td_await"}
                => loop'[g] = "created" /\ stream'[g] # "destroyed"
    PROVE  HoldInv'
<1>1. Others(t) /\ pc'[t] = l /\ lp'[t] = g BY DEF Moved, Holds
<1>2. Started(g) \/ (\E u \in Threads : Spawning(u, g))
        => loop'[g] = "created" /\ stream'[g] # "destroyed"
  BY HolderOfSpawning
<1>3. \/ Holds(t, g)' /\ HeldRight(t, g)'
      \/ /\ pc'[t] \notin HoldPcs
         /\ loop'[g] = "destroyed" /\ stream'[g] \in {"none", "destroyed"}
  BY <1>1 DEF Holds
<1> QED BY <1>1, <1>2, <1>3, HolderKept

LEMMA StartHold ==
    ASSUME TypeOK, OwnerInv, StartInv, PointerInv, HoldInv, NEW t \in Threads, StartStep(t)
    PROVE  HoldInv'
<1> USE DEF HoldPcs, MakingPcs, CreatingPcs, DetachedPcs, TeardownPcs
<1>0. /\ PointersOf(t) /\ streamPtr = loopPtr
      /\ stream \in [Loops -> {"none", "created", "connected", "disconnected", "destroyed"}]
      /\ loop \in [Loops -> {"none", "created", "destroyed"}] /\ loopPc \in [Loops -> LoopPcs]
  BY DEF PointerInv, TypeOK, NativeType, LoopType
<1>1. CASE \/ ensureRuntime(t) \/ StartStarting(t) \/ StartResources(t) \/ StartLoad(t)
           \/ StartReactivate(t)
  <2>1. UNCHANGED <<stream, loop, loopPc, loopPtr>>
    BY <1>1 DEF ensureRuntime, StartStarting, StartResources, StartLoad, StartReactivate,
       ThreadOnly, PlayerOnly, StateOnly, NativeOnly, lifecycleVars, nativeVars, loopVars
  <2>2. pc[t] \in {"start_runtime", "start_starting", "start_resources", "start_load",
                   "start_reactivate"}
    BY <1>1 DEF ensureRuntime, StartStarting, StartResources, StartLoad, StartReactivate
  <2>3. ASSUME NEW m, NEW l, NEW s, NEW k, Moved(t, m, l, s, k),
               l \in {"idle", "start_starting", "start_resources", "start_load", "start_loop",
                      "start_reactivate", "start_playing", "td_lock"}
        PROVE  HoldInv'
    BY <2>1, <2>2, <2>3, HoldKept DEF Moved, Holds
  <2> HIDE DEF HoldPcs, MakingPcs, CreatingPcs, DetachedPcs, TeardownPcs
  <2> QED BY <1>1, <2>3, GotoMoves, LoadMoves, ReturnMoves
        DEF ensureRuntime, StartStarting, StartResources, StartLoad, StartReactivate
<1>2. CASE CreateMainLoop(t)
  <2>1. loopPc' = loopPc /\ stream' = stream /\ loopPtr' = loopPtr
    BY <1>2 DEF CreateMainLoop, NativeOnly, lifecycleVars, loopVars
  <2>2. CASE Goto(t, "start_error") /\ UNCHANGED loop
    <3>1. Moved(t, method[t], "start_error", sp[t], lp[t]) BY <2>2, GotoMoves
    <3> QED BY <1>2, <2>1, <2>2, <3>1, HoldKept DEF Moved, Holds, CreateMainLoop
  <2>3. CASE /\ \E g \in Loops : loop[g] = "none"
             /\ loop' = [loop EXCEPT ![NewLoop] = "created"]
             /\ Load(t, nil, NewLoop, "start_stream")
    <3>1. PICK g \in Loops : g = NewLoop /\ loop[g] = "none" BY <2>3 DEF NewLoop
    <3>2. Moved(t, method[t], "start_stream", nil, g) BY <2>3, <3>1, LoadMoves
    <3>3. loop' = [loop EXCEPT ![g] = "created"] BY <2>3, <3>1
    <3>4. loopPtr # g /\ stream[g] = "none" /\ loopPc[g] = "none"
          /\ \A u \in Threads : ~Holds(u, g) /\ ~Spawning(u, g)
      BY <3>1 DEF HoldInv, HeldRight, LoopRight
    <3>5. ASSUME NEW u \in Threads, NEW h \in Loops
          PROVE  /\ Holds(u, h)' <=> Holds(u, h) \/ (u = t /\ h = g)
                 /\ Spawning(u, h)' => Spawning(u, h)
      BY <1>2, <3>2 DEF Moved, Others, Holds, Spawning, CreateMainLoop
    <3>6. ASSUME NEW u \in Threads, NEW h \in Loops, Holds(u, h)' PROVE HeldRight(u, h)'
      <4>1. CASE u = t /\ h = g BY <1>0, <2>1, <3>2, <3>3, <3>4, <4>1 DEF HeldRight, Moved
      <4>2. CASE Holds(u, h)
        <5>1. h # g /\ u # t BY <1>2, <3>4, <4>2 DEF Holds, CreateMainLoop
        <5> QED BY <1>0, <2>1, <3>2, <3>3, <4>2, <5>1 DEF HoldInv, HeldRight, Moved, Others
      <4> QED BY <3>5, <3>6, <4>1, <4>2
    <3>7. ASSUME NEW h \in Loops PROVE LoopRight(h)'
      BY <1>0, <2>1, <3>3, <3>4, <3>5 DEF HoldInv, LoopRight, Started
    <3>8. \A u \in Threads, h \in Loops : Spawning(u, h)' =>
            (loopPc[h] = "none" /\ loop[h] = "created" /\ stream[h] # "destroyed")'
      BY <1>0, <2>1, <3>3, <3>4, <3>5 DEF HoldInv
    <3>9. \A u, v \in Threads, h \in Loops : Holds(u, h)' /\ Holds(v, h)' => u = v
      BY <3>4, <3>5 DEF HoldInv
    <3> QED BY <3>6, <3>7, <3>8, <3>9 DEF HoldInv
  <2> QED BY <1>2, <2>2, <2>3 DEF CreateMainLoop
<1>3. CASE CreatePlaybackStream(t) \/ ConnectPlaybackStream(t) \/ ActivateNewStream(t)
  <2>1. loopPc' = loopPc /\ loopPtr' = loopPtr
    BY <1>3 DEF CreatePlaybackStream, ConnectPlaybackStream, ActivateNewStream, NativeOnly,
       lifecycleVars, loopVars
  <2>2. PICK g \in Loops : Holds(t, g) /\ lp[t] = g /\ HeldRight(t, g)
                           /\ (sp[t] = g \/ CreatePlaybackStream(t))
    BY <1>0, <1>3 DEF CreatePlaybackStream, ConnectPlaybackStream, ActivateNewStream, Holds,
       HoldInv, PointersOf
  <2>3. \A h \in Loops : h # g => stream'[h] = stream[h] /\ loop'[h] = loop[h]
    BY <1>0, <1>3, <2>2 DEF CreatePlaybackStream, ConnectPlaybackStream, ActivateNewStream,
       DestroyBoth
  <2>4. CASE Goto(t, "start_error")
    <3>1. Others(t) /\ pc'[t] = "start_error" /\ lp'[t] = g
      BY <2>2, <2>4, GotoMoves DEF Moved
    <3>2. loop'[g] = "destroyed" /\ stream'[g] \in {"none", "destroyed"}
      <4>1. /\ ~Load(t, lp[t], lp[t], "start_connect")
            /\ ~Goto(t, "start_activate") /\ ~Goto(t, "start_publish")
        BY <3>1, GotoMoves, LoadMoves DEF Moved
      <4> QED BY <1>0, <1>3, <2>2, <4>1 DEF CreatePlaybackStream, ConnectPlaybackStream,
            ActivateNewStream, DestroyBoth, HeldRight
    <3>3. pc[t] \notin {"td_disconnect", "td_quit", "td_await"}
      BY <1>3 DEF CreatePlaybackStream, ConnectPlaybackStream, ActivateNewStream
    <3> QED BY <2>1, <2>2, <2>3, <3>1, <3>2, <3>3, HolderOfSpawning, HolderKept
  <2>5. CASE ~Goto(t, "start_error")
    <3>1. PICK l \in {"start_connect", "start_activate", "start_publish"} :
            Moved(t, method[t], l, g, g)
            /\ (l = "start_connect" => loop' = loop /\ stream' = [stream EXCEPT ![g] = "created"])
            /\ (l = "start_activate" =>
                  loop' = loop /\ stream' = [stream EXCEPT ![g] = "connected"])
            /\ (l = "start_publish" => loop' = loop /\ stream' = stream /\ stream[g] = "connected")
      <4> HIDE DEF HoldPcs, MakingPcs, CreatingPcs, DetachedPcs, TeardownPcs
      <4>1. CASE CreatePlaybackStream(t) BY <2>2, <2>5, <4>1, LoadMoves DEF CreatePlaybackStream
      <4>2. CASE ConnectPlaybackStream(t)
        <5>1. /\ Goto(t, "start_activate") /\ loop' = loop /\ sp[t] = g
              /\ stream' = [stream EXCEPT ![sp[t]] = "connected"]
          BY <2>2, <2>5, <4>2 DEF ConnectPlaybackStream, CreatePlaybackStream
        <5> QED BY <2>2, <5>1, GotoMoves
      <4>3. CASE ActivateNewStream(t)
        <5>1. Goto(t, "start_publish") /\ loop' = loop /\ stream' = stream /\ sp[t] = g
              /\ pc[t] = "start_activate"
          BY <2>2, <2>5, <4>3 DEF ActivateNewStream, CreatePlaybackStream
        <5> QED BY <2>2, <5>1, GotoMoves DEF HeldRight
      <4> QED BY <1>3, <4>1, <4>2, <4>3
    <3>2. HeldRight(t, g)' BY <1>0, <1>3, <2>1, <2>2, <3>1 DEF HeldRight, Moved,
          CreatePlaybackStream, ConnectPlaybackStream, ActivateNewStream
    <3>3. pc[t] \notin {"td_disconnect", "td_quit", "td_await"}
      BY <1>3 DEF CreatePlaybackStream, ConnectPlaybackStream, ActivateNewStream
    <3> QED BY <2>1, <2>2, <2>3, <3>1, <3>2, <3>3, HolderMoves
  <2> QED BY <2>4, <2>5
<1>4. CASE StartPublish(t)
  <2>1. UNCHANGED <<stream, loop, loopPc>> BY <1>4 DEF StartPublish, PlayerOnly, nativeVars,
          loopVars
  <2>2. PICK g \in Loops : /\ Holds(t, g) /\ lp[t] = g /\ HeldRight(t, g)
                          /\ loopPtr = nil /\ loopPtr' = g
    BY <1>0, <1>4 DEF StartPublish, Holds, HoldInv, PointersOf
  <2>3. Moved(t, method[t], "start_spawn", sp[t], g) BY <1>4, <2>2, GotoMoves DEF StartPublish
  <2>4. loop[g] = "created" /\ stream[g] = "connected" /\ loopPc[g] = "none"
    BY <1>4, <2>2 DEF HeldRight, StartPublish
  <2>5. \A u \in Threads, h \in Loops :
          /\ Holds(u, h)' <=> Holds(u, h) /\ h # g
          /\ Spawning(u, h)' => Spawning(u, h) \/ h = g
    BY <1>4, <2>2, <2>3 DEF HoldInv, Moved, Others, Holds, Spawning, StartPublish
  <2>6. \A u \in Threads, h \in Loops : Holds(u, h)' => HeldRight(u, h)'
    BY <2>1, <2>2, <2>3, <2>5 DEF HoldInv, HeldRight, Moved, Others, Holds
  <2>7. \A h \in Loops : LoopRight(h)'
    BY <2>1, <2>2, <2>4, <2>5, ThreadsAssumption DEF HoldInv, LoopRight, Started
  <2> QED BY <2>1, <2>4, <2>5, <2>6, <2>7 DEF HoldInv
<1>5. CASE StartSpawn(t)
  <2>1. UNCHANGED <<stream, loop, loopPtr>> BY <1>5 DEF StartSpawn, lifecycleVars, nativeVars
  <2>2. PICK g \in Loops : lp[t] = g /\ Spawning(t, g)
    BY <1>0, <1>5 DEF StartSpawn, PointersOf, Spawning
  <2>3. Moved(t, method[t], "start_playing", sp[t], g) BY <1>5, <2>2, GotoMoves DEF StartSpawn
  <2>4. loopPc' = [loopPc EXCEPT ![g] = "spawned"] BY <1>5, <2>2 DEF StartSpawn
  <2>5. loop[g] = "created" /\ stream[g] # "destroyed" /\ loopPc[g] = "none"
    BY <2>2 DEF HoldInv
  <2>6. ASSUME NEW u \in Threads, NEW h \in Loops
        PROVE  /\ Holds(u, h)' <=> Holds(u, h)
               /\ Holds(u, h) => u # t
               /\ Holds(u, g) => pc[u] \in {"td_disconnect", "td_quit", "td_await"}
    BY <1>5, <2>2, <2>3, HolderOfSpawning DEF Moved, Others, Holds, StartSpawn
  <2>7. ASSUME NEW u \in Threads, NEW h \in Loops, Spawning(u, h)'
        PROVE  Spawning(u, h) /\ h # g
    <3>1. u # t BY <2>3, <2>7 DEF Spawning, Moved
    <3>2. Spawning(u, h) BY <2>3, <2>7, <3>1 DEF Spawning, Moved, Others
    <3>3. pc[u] \in CreatePcs /\ pc[t] \in CreatePcs BY <1>5, <3>2 DEF Spawning, StartSpawn,
            CreatePcs
    <3> QED BY <3>1, <3>3, CreatorIsActive DEF StartInv
  <2>8. \A u \in Threads, h \in Loops : Holds(u, h)' => HeldRight(u, h)'
    BY <1>0, <2>1, <2>3, <2>4, <2>6 DEF HoldInv, HeldRight, Moved, Others
  <2>9. \A h \in Loops : LoopRight(h)'
    BY <1>0, <2>1, <2>4, <2>5, <2>6 DEF HoldInv, LoopRight, Started
  <2> QED BY <1>0, <2>1, <2>4, <2>6, <2>7, <2>8, <2>9 DEF HoldInv
<1> QED BY <1>1, <1>2, <1>3, <1>4, <1>5 DEF StartStep

LEMMA CloseHold ==
    ASSUME TypeOK, OwnerInv, StartInv, PointerInv, HoldInv, NEW t \in Threads, CloseStep(t)
    PROVE  HoldInv'
<1> USE DEF HoldPcs, MakingPcs, CreatingPcs, DetachedPcs, TeardownPcs
<1>0. /\ PointersOf(t) /\ streamPtr = loopPtr /\ sp[t] \in Loops \cup {nil}
      /\ stream \in [Loops -> {"none", "created", "connected", "disconnected", "destroyed"}]
      /\ loop \in [Loops -> {"none", "created", "destroyed"}] /\ loopPc \in [Loops -> LoopPcs]
      /\ loopPtr \in Loops \cup {nil} /\ lp[t] \in Loops \cup {nil}
  BY DEF PointerInv, TypeOK, NativeType, LoopType, LifecycleType, CallType
<1>1. CASE CloseJoined(t) \/ TeardownLock(t) \/ CloseClosed(t)
  <2>1. UNCHANGED <<stream, loop, loopPc, loopPtr>>
    BY <1>1 DEF CloseJoined, TeardownLock, CloseClosed, ThreadOnly, LockOnly, PlayerOnly,
       lifecycleVars, nativeVars, loopVars
  <2>2. pc[t] \notin HoldPcs BY <1>1 DEF CloseJoined, TeardownLock, CloseClosed
  <2>3. Others(t) /\ pc'[t] \in {"idle", "td_detach"}
    BY <1>1, GotoMoves, ReturnMoves DEF CloseJoined, TeardownLock, CloseClosed, Moved
  <2> QED BY <2>1, <2>2, <2>3, HoldKept DEF Holds
<1>2. CASE TeardownDetach(t)
  <2>1. UNCHANGED <<stream, loop, loopPc>> /\ loopPtr' = nil
    BY <1>2 DEF TeardownDetach, nativeVars, loopVars
  <2>2. CASE loopPtr = nil
    <3>1. Others(t) /\ lp'[t] = nil /\ pc'[t] # "start_spawn"
      BY <1>2, <2>2, LoadMoves DEF TeardownDetach, Moved, AfterTeardown
    <3> QED BY <1>2, <2>1, <2>2, <3>1, HoldKept, ThreadsAssumption DEF Holds, TeardownDetach
  <2>3. CASE loopPtr # nil
    <3>1. PICK g \in Loops : g = loopPtr /\ loop[g] = "created" /\ stream[g] = "connected"
      BY <1>0, <2>3 DEF HoldInv, LoopRight
    <3>2. streamOps BY <2>3 DEF PointerInv
    <3>3. Moved(t, method[t], "td_disconnect", g, g)
      BY <1>0, <1>2, <3>1, <3>2, LoadMoves DEF TeardownDetach
    <3>4. \A u \in Threads, h \in Loops :
            /\ Holds(u, h)' <=> Holds(u, h) \/ (u = t /\ h = g)
            /\ Holds(u, h) => u # t /\ h # g
            /\ Spawning(u, h)' => Spawning(u, h)
      BY <1>2, <3>1, <3>3
         DEF HoldInv, HeldRight, Moved, Others, Holds, Spawning, TeardownDetach
    <3>5. \A u \in Threads, h \in Loops : Holds(u, h)' => HeldRight(u, h)'
      <4> SUFFICES ASSUME NEW u \in Threads, NEW h \in Loops, Holds(u, h)' PROVE HeldRight(u, h)'
        OBVIOUS
      <4>1. CASE Holds(u, h)
        BY <2>1, <3>3, <3>4, <4>1, ThreadsAssumption DEF HoldInv, HeldRight, Moved, Others
      <4>2. CASE u = t /\ h = g
        BY <2>1, <3>1, <3>3, <4>2, ThreadsAssumption DEF HeldRight, Moved
      <4> QED BY <3>4, <4>1, <4>2
    <3>6. \A h \in Loops : LoopRight(h)'
      BY <2>1, <3>1, <3>4, ThreadsAssumption DEF HoldInv, LoopRight, Started
    <3> QED BY <2>1, <3>4, <3>5, <3>6 DEF HoldInv
  <2> QED BY <2>2, <2>3
<1>3. CASE TeardownDisconnect(t) \/ TeardownQuit(t) \/ TeardownAwait(t)
           \/ TeardownDestroyStream(t) \/ TeardownDestroyLoop(t)
  <2>1. loopPc' = loopPc /\ loopPtr' = loopPtr /\ pc[t] \in DetachedPcs /\ sp[t] = lp[t]
    BY <1>0, <1>3 DEF TeardownDisconnect, TeardownQuit, TeardownAwait, TeardownDestroyStream,
       TeardownDestroyLoop, ThreadOnly, NativeOnly, lifecycleVars, loopVars, PointersOf
  <2>2. PICK l \in {"td_quit", "td_await", "td_destroyStream", "td_destroyLoop", "close_closed",
                    "start_error"} :
          Goto(t, l)
    BY <1>3 DEF TeardownDisconnect, TeardownQuit, TeardownAwait, TeardownDestroyStream,
       TeardownDestroyLoop, AfterTeardown
  <2>3. Moved(t, method[t], l, lp[t], lp[t]) BY <2>1, <2>2, GotoMoves
  <2>4. CASE lp[t] = nil
    <3>1. stream' = stream /\ loop' = loop
      BY <1>3, <2>1, <2>4 DEF TeardownDisconnect, TeardownQuit, TeardownAwait,
         TeardownDestroyStream, TeardownDestroyLoop, ThreadOnly, nativeVars
    <3> QED BY <2>1, <2>3, <2>4, <3>1, HoldKept, ThreadsAssumption DEF Holds, Moved
  <2>5. CASE lp[t] # nil
    <3>1. PICK g \in Loops : g = lp[t] /\ Holds(t, g) /\ HeldRight(t, g)
      BY <1>0, <2>1, <2>5 DEF HoldInv, Holds
    <3>2. \A h \in Loops : h # g => stream'[h] = stream[h] /\ loop'[h] = loop[h]
      BY <1>0, <1>3, <2>1, <3>1 DEF TeardownDisconnect, TeardownQuit, TeardownAwait,
         TeardownDestroyStream, TeardownDestroyLoop, ThreadOnly, nativeVars
    <3>3. ASSUME NEW k, Goto(t, k) PROVE k = l BY <2>3, <3>3, GotoMoves DEF Moved
    <3>4. \/ pc[t] = "td_disconnect" /\ l = "td_quit" /\ loop' = loop
             /\ stream' = [stream EXCEPT ![g] = "disconnected"]
          \/ pc[t] = "td_quit" /\ l = "td_await" /\ loop' = loop /\ stream' = stream
          \/ pc[t] = "td_await" /\ l = "td_destroyStream" /\ loop' = loop /\ stream' = stream
             /\ loopPc[g] = "exited"
          \/ pc[t] = "td_destroyStream" /\ l = "td_destroyLoop" /\ loop' = loop
             /\ stream' = [stream EXCEPT ![g] = "destroyed"]
          \/ pc[t] = "td_destroyLoop" /\ l \in {"close_closed", "start_error"}
             /\ loop' = [loop EXCEPT ![g] = "destroyed"] /\ stream' = stream
      <4> HIDE DEF HoldPcs, MakingPcs, CreatingPcs, DetachedPcs, TeardownPcs
      <4> QED BY <1>3, <2>1, <2>5, <3>1, <3>3, <3>3 DEF TeardownDisconnect, TeardownQuit,
              TeardownAwait,
            TeardownDestroyStream, TeardownDestroyLoop, ThreadOnly, nativeVars, AfterTeardown
    <3>5. CASE pc[t] # "td_destroyLoop"
      <4>1. HeldRight(t, g)' BY <1>0, <2>1, <2>3, <3>1, <3>4, <3>5 DEF HeldRight, Moved
      <4>2. l \in HoldPcs /\ l # "start_spawn" BY <3>4, <3>5
      <4>3. pc[t] \in {"td_disconnect", "td_quit", "td_await"}
              => loop'[g] = "created" /\ stream'[g] # "destroyed"
        BY <1>0, <3>1, <3>4 DEF HeldRight
      <4> QED BY <2>1, <2>3, <3>1, <3>2, <4>1, <4>2, <4>3, HolderMoves
    <3>6. CASE pc[t] = "td_destroyLoop"
      <4>1. loop'[g] = "destroyed" /\ stream'[g] \in {"none", "destroyed"}
        BY <1>0, <3>1, <3>4, <3>6 DEF HeldRight
      <4>2. l \notin HoldPcs /\ l # "start_spawn" BY <3>4, <3>6
      <4> QED BY <2>1, <2>3, <3>1, <3>2, <3>6, <4>1, <4>2, HolderMoves
    <3> QED BY <3>5, <3>6
  <2> QED BY <2>4, <2>5
<1> QED BY <1>1, <1>2, <1>3 DEF CloseStep

\* A step of a loop goroutine moves a loop that was started and not yet left.
LEMMA LoopMoves ==
    ASSUME TypeOK, NEW g \in Loops, LoopStep(g)
    PROVE  Started(g) /\ loopPc'[g] # "none" /\ \A h \in Loops : h # g => loopPc'[h] = loopPc[h]
<1>1. ASSUME NEW l, LoopGoto(g, l), Started(g), l # "none"
      PROVE  Started(g) /\ loopPc'[g] # "none" /\ \A h \in Loops : h # g => loopPc'[h] = loopPc[h]
  BY <1>1 DEF TypeOK, LoopType, LoopGoto
<1>2. CASE fail(g)
  <2>1. Started(g) /\ FailInto[loopPc[g]] # "none" BY <1>2 DEF fail, FailInto, Started
  <2> QED BY <1>1, <1>2, <2>1 DEF fail
<1>3. CASE OnErrorReturns(g)
  <2>1. Started(g) /\ AfterOnError[loopPc[g]] # "none"
    BY <1>3 DEF OnErrorReturns, AfterOnError, Started
  <2> QED BY <1>1, <1>3, <2>1 DEF OnErrorReturns
<1>4. CASE ~fail(g) /\ ~OnErrorReturns(g)
  <2>1. Started(g)
    BY <1>4 DEF LoopStep, LoopRuns, LoopEnter, LoopQuit, LoopError, LoopEnded, ProcessBegin,
       ProcessDequeue, ProcessFilled, ProcessQueue, ProcessRequeue, Started
  <2> QED BY <1>1, <1>4, <2>1
        DEF LoopStep, LoopRuns, LoopEnter, LoopQuit, LoopError, LoopEnded, ProcessBegin,
            ProcessDequeue, ProcessFilled, ProcessQueue, ProcessRequeue
<1> QED BY <1>2, <1>3, <1>4

LEMMA LoopHold ==
    ASSUME TypeOK, OwnerInv, StartInv, HoldInv, NEW g \in Loops, LoopStep(g)
    PROVE  HoldInv'
<1>1. UNCHANGED <<stream, loop, loopPtr, pc, lp>> BY LoopKeepsStarting DEF callVars
<1>2. Started(g) /\ loopPc'[g] # "none" /\ \A h \in Loops : h # g => loopPc'[h] = loopPc[h]
  BY LoopMoves
<1>3. \A t \in Threads, h \in Loops :
        (Holds(t, h)' <=> Holds(t, h)) /\ (Spawning(t, h)' <=> Spawning(t, h))
  BY <1>1 DEF Holds, Spawning
<1>4. \A t \in Threads : Holds(t, g) => pc[t] \in {"td_disconnect", "td_quit", "td_await"}
  BY <1>2, HolderOfSpawning
<1>5. \A t \in Threads, h \in Loops : Holds(t, h)' => HeldRight(t, h)'
  <2> SUFFICES ASSUME NEW t \in Threads, NEW h \in Loops, Holds(t, h)' PROVE HeldRight(t, h)'
    OBVIOUS
  <2>1. CASE h # g BY <1>1, <1>2, <1>3, <2>1 DEF HoldInv, HeldRight
  <2>2. CASE h = g
    BY <1>1, <1>3, <1>4, <2>2 DEF HoldInv, HeldRight, MakingPcs, CreatingPcs
  <2> QED BY <2>1, <2>2
<1>6. \A t \in Threads, h \in Loops : Spawning(t, h) => h # g BY <1>2 DEF HoldInv, Started
<1>7. \A h \in Loops : LoopRight(h)'
  BY <1>1, <1>2, <1>3 DEF HoldInv, LoopRight, Started
<1> QED BY <1>1, <1>2, <1>3, <1>5, <1>6, <1>7 DEF HoldInv

LEMMA HoldInvStep ==
    ASSUME TypeOK, OwnerInv, StartInv, PointerInv, HoldInv, [Next]_vars PROVE HoldInv'
<1>1. ASSUME UNCHANGED <<stream, loop, loopPc, loopPtr, pc, lp>> PROVE HoldInv'
  BY <1>1 DEF HoldInv, Holds, HeldRight, Spawning, LoopRight, Started
<1>2. CASE UNCHANGED vars
  BY <1>1, <1>2 DEF vars, lifecycleVars, nativeVars, callVars, loopVars
<1>3. ASSUME NEW t \in Threads, Call(t) \/ Continue(t) PROVE HoldInv'
  BY <1>3, CallHold, StartHold, CloseHold, OtherHold DEF Continue
<1>4. ASSUME NEW d \in Dispatchers, Dispatch(d) \/ DispatchReturn(d) PROVE HoldInv'
  BY <1>1, <1>4 DEF Dispatch, DispatchNext, DispatchExit, DispatchReturn, NotifyOnly,
     lifecycleVars, nativeVars, callVars, loopVars
<1>5. ASSUME NEW g \in Loops, LoopStep(g) PROVE HoldInv'
  BY <1>5, LoopHold
<1> QED BY <1>2, <1>3, <1>4, <1>5 DEF Next

-----------------------------------------------------------------------------
(* ProcessInv and CloseInv.                                                *)

\* While a Close is at work or done, no Start begins to create or restart.
LEMMA BusyBefore ==
    ASSUME TypeOK, OwnerInv, StartInv, NEW t \in Threads, Call(t) \/ Continue(t),
           state \in {"Closing", "Closed"}
    PROVE  /\ Others(t)
           /\ Busy(t)' => Busy(t) /\ (pc[t] = "start_spawn" => pc'[t] = "start_spawn")
<1> USE DEF BusyPcs, CreatePcs, RestartPcs, TeardownPcs
<1> DEFINE Goal == Busy(t)' => Busy(t) /\ (pc[t] = "start_spawn" => pc'[t] = "start_spawn")
<1> SUFFICES Others(t) /\ Goal OBVIOUS
<1>1. CASE Call(t)
  <2>1. ASSUME NEW m, NEW l, Enter(t, m, l), m = "Start" => l \notin BusyPcs
        PROVE  Others(t) /\ Goal
    BY <2>1, EnterMoves DEF Moved, Busy
  <2> HIDE DEF Goal
  <2> QED BY <1>1, <2>1 DEF Call, Start, Pause, Stop, CloseOwn, CloseJoin, Control
<1>2. CASE StartStarting(t)
  <2>1. ~isValidTransition(state, "Starting") BY DEF isValidTransition, ValidTransitions
  <2> QED BY <1>2, <2>1, ReturnMoves DEF StartStarting, Moved, Busy
<1>3. ASSUME NEW l, Goto(t, l), l \in BusyPcs => pc[t] \in BusyPcs \ {"start_spawn"}
      PROVE  Others(t) /\ Goal
  BY <1>3, GotoMoves DEF Moved, Busy
<1>4. ASSUME NEW l, NEW s, NEW k, Load(t, s, k, l),
             l \in BusyPcs => pc[t] \in BusyPcs \ {"start_spawn"}
      PROVE  Others(t) /\ Goal
  BY <1>4, LoadMoves DEF Moved, Busy
<1>5. CASE Return(t) BY <1>5, ReturnMoves DEF Moved, Busy
<1>6. CASE StartStep(t) /\ ~StartStarting(t)
  <2> HIDE DEF Goal
  <2> QED BY <1>3, <1>4, <1>5, <1>6
        DEF StartStep, ensureRuntime, StartResources, CreateMainLoop, CreatePlaybackStream,
            ConnectPlaybackStream, ActivateNewStream, StartPublish, StartSpawn, StartLoad,
            StartReactivate
<1>7. CASE StopStep(t) \/ FinishCall(t) \/ ControlStep(t)
  <2> HIDE DEF Goal
  <2> QED BY <1>3, <1>4, <1>5, <1>7
        DEF StopStep, StopLoad, StopDeactivate, FinishCall, ControlStep, ControlAcquire,
            ControlRecheck, ControlLoad, ControlCall, ControlRelease
<1>8. CASE CloseStep(t)
  <2> HIDE DEF Goal
  <2> QED BY <1>3, <1>4, <1>5, <1>8
        DEF CloseStep, CloseJoined, TeardownLock, TeardownDetach, TeardownDisconnect,
            TeardownQuit, TeardownAwait, TeardownDestroyStream, TeardownDestroyLoop,
            CloseClosed, AfterTeardown
<1> HIDE DEF Goal, BusyPcs
<1> QED BY <1>1, <1>2, <1>6, <1>7, <1>8 DEF Continue

LEMMA PointerMoves ==
    ASSUME NEW t \in Threads, Call(t) \/ Continue(t)
    PROVE  /\ StartPublish(t) \/ TeardownDetach(t) \/ loopPtr' = loopPtr
           /\ proc' = proc /\ (StartSpawn(t) \/ loopPc' = loopPc)
           /\ CloseOwn(t) \/ (overtook' = overtook /\ (closeDone' = closeDone \/ CloseClosed(t)))
BY DEF Call, Start, Pause, Stop, CloseOwn, CloseJoin, Control, Continue, StartStep, ensureRuntime,
   StartStarting, StartResources, CreateMainLoop, CreatePlaybackStream, ConnectPlaybackStream,
   ActivateNewStream, StartPublish, StartSpawn, StartLoad, StartReactivate, StopStep, StopLoad,
   StopDeactivate, CloseStep, CloseJoined, TeardownLock, TeardownDetach, TeardownDisconnect,
   TeardownQuit, TeardownAwait, TeardownDestroyStream, TeardownDestroyLoop, CloseClosed,
   ControlStep, ControlAcquire, ControlRecheck, ControlLoad, ControlCall, ControlRelease,
   FinishCall, ThreadOnly, NativeOnly, PlayerOnly, StateOnly, LockOnly, lifecycleVars, loopVars

\* A loop that runs and is not published is being taken down, by Close if no Start
\* is at it.
LEMMA TakenDown ==
    ASSUME TypeOK, OwnerInv, StartInv, PointerInv, HoldInv, NEW g \in Loops, Started(g),
           loopPtr # g
    PROVE  \E u \in Threads : /\ pc[u] \in {"td_disconnect", "td_quit", "td_await"}
                              /\ NoDetachAhead => Owns(u) /\ state = "Closing"
<1>1. PICK u \in Threads : Holds(u, g) BY DEF HoldInv, LoopRight
<1>2. pc[u] \in {"td_disconnect", "td_quit", "td_await"} BY <1>1, HolderOfSpawning
<1>3. method[u] \in {"Start", "Close"} BY <1>2 DEF StartInv, TeardownPcs
<1>4. NoDetachAhead => Owns(u)
  BY <1>2, <1>3 DEF NoDetachAhead, Busy, BusyPcs, Owns, TeardownPcs
<1> QED BY <1>2, <1>4 DEF OwnerInv

LEMMA ThreadProcess ==
    ASSUME TypeOK, OwnerInv, StartInv, PointerInv, HoldInv, ProcessInv, NEW t \in Threads,
           Call(t) \/ Continue(t)
    PROVE  ProcessInv'
<1>0. PointersOf(t) BY DEF PointerInv
<1>1. CASE StartPublish(t)
  <2>1. loopPtr = nil BY <1>0, <1>1 DEF StartPublish, PointersOf, CreatingPcs
  <2>2. loopPc' = loopPc /\ proc' = proc BY <1>1, PointerMoves DEF StartPublish, PlayerOnly,
          loopVars
  <2>3. Moved(t, method[t], "start_spawn", sp[t], lp[t]) BY <1>1, GotoMoves DEF StartPublish
  <2>4. NoDetachAhead'
    <3>1. ActiveStart(t) BY <1>1, CreatorIsActive DEF StartPublish, CreatePcs
    <3>2. ASSUME NEW u \in Threads, u # t PROVE ~Busy(u)'
      <4>1. ~ActiveStart(u) BY <3>1, <3>2 DEF StartInv
      <4> QED BY <2>3, <3>2, <4>1 DEF Moved, Others, Busy, BusyPcs, ActiveStart, ActivePcs
    <3> QED BY <2>3, <3>2 DEF NoDetachAhead, Moved
  <2> QED BY <2>1, <2>2, <2>4 DEF ProcessInv, Started
<1>2. CASE TeardownDetach(t)
  <2>1. loopPtr' = nil /\ loopPc' = loopPc /\ proc' = proc
    BY <1>2 DEF TeardownDetach, loopVars
  <2>2. ASSUME NEW g \in Loops, Started(g), loopPc[g] \in InProcessPcs, proc[g] # g
        PROVE  FALSE
    <3>1. loopPtr \notin {nil, g} /\ NoDetachAhead BY <2>2 DEF ProcessInv
    <3>2. PICK u \in Threads : pc[u] \in {"td_disconnect", "td_quit", "td_await"} /\ Owns(u)
      BY <2>2, <3>1, TakenDown
    <3>3. pc[t] = "td_detach" BY <1>2 DEF TeardownDetach
    <3>4. method[t] \in {"Start", "Close"} BY <3>3 DEF StartInv, TeardownPcs
    <3>5. method[t] # "Start"
      BY <3>1, <3>3 DEF NoDetachAhead, Busy, BusyPcs, TeardownPcs
    <3>6. Owns(t) BY <3>3, <3>4, <3>5 DEF Owns, TeardownPcs
    <3> QED BY <3>2, <3>3, <3>6 DEF OwnerInv
  <2> QED BY <2>1, <2>2 DEF ProcessInv, Started
<1>3. CASE ~StartPublish(t) /\ ~TeardownDetach(t)
  <2>1. loopPtr' = loopPtr /\ proc' = proc BY <1>3, PointerMoves
  <2>2. ASSUME NEW g \in Loops, Started(g), loopPtr \notin {nil, g} PROVE NoDetachAhead'
    <3>1. NoDetachAhead BY <2>2 DEF ProcessInv
    <3>2. state = "Closing" BY <2>2, <3>1, TakenDown
    <3> QED BY <3>1, <3>2, BusyBefore DEF NoDetachAhead, Others, Busy
  <2>3. CASE loopPc' = loopPc BY <2>1, <2>2, <2>3 DEF ProcessInv, Started
  <2>4. CASE StartSpawn(t)
    <3>1. lp[t] \in Loops /\ loopPtr \in {nil, lp[t]}
      BY <1>0, <2>4 DEF StartSpawn, PointersOf
    <3>2. loopPc' = [loopPc EXCEPT ![lp[t]] = "spawned"] BY <2>4 DEF StartSpawn
    <3>3. \A g \in Loops : g # lp[t] => loopPc'[g] = loopPc[g] BY <3>2 DEF TypeOK, LoopType
    <3>4. loopPc'[lp[t]] \notin InProcessPcs
      BY <3>1, <3>2 DEF TypeOK, LoopType, InProcessPcs
    <3> QED BY <2>1, <2>2, <3>1, <3>3, <3>4 DEF ProcessInv, Started
  <2> QED BY <1>3, <2>3, <2>4, PointerMoves
<1> QED BY <1>1, <1>2, <1>3

\* A loop enters the process callback only with a stream to work on.
LEMMA LoopProcesses ==
    ASSUME TypeOK, NEW g \in Loops, LoopStep(g)
    PROVE  /\ \A h \in Loops : h # g => proc'[h] = proc[h]
           /\ loopPc'[g] \in InProcessPcs =>
                 \/ loopPc[g] \in InProcessPcs /\ proc' = proc
                 \/ proc'[g] = streamPtr /\ streamPtr # nil
<1>1. CASE ProcessBegin(g) BY <1>1 DEF ProcessBegin, TypeOK, LoopType
<1>2. CASE fail(g)
  <2>1. proc' = proc /\ loopPc' = [loopPc EXCEPT ![g] = FailInto[loopPc[g]]]
        /\ loopPc[g] \in DOMAIN FailInto
    BY <1>2 DEF fail, LoopGoto
  <2>2. FailInto[loopPc[g]] \in InProcessPcs => loopPc[g] \in InProcessPcs
    BY <2>1 DEF FailInto, InProcessPcs
  <2> QED BY <2>1, <2>2 DEF TypeOK, LoopType
<1>3. CASE OnErrorReturns(g)
  <2>1. proc' = proc /\ loopPc' = [loopPc EXCEPT ![g] = AfterOnError[loopPc[g]]]
        /\ loopPc[g] \in DOMAIN AfterOnError
    BY <1>3 DEF OnErrorReturns, LoopGoto, LoopOnly
  <2>2. AfterOnError[loopPc[g]] \in InProcessPcs => loopPc[g] \in InProcessPcs
    BY <2>1 DEF AfterOnError, InProcessPcs
  <2> QED BY <2>1, <2>2 DEF TypeOK, LoopType
<1>4. CASE ~ProcessBegin(g) /\ ~fail(g) /\ ~OnErrorReturns(g)
  <2>1. proc' = proc
    BY <1>4 DEF LoopStep, LoopRuns, LoopEnter, LoopQuit, LoopError, LoopEnded, ProcessDequeue,
       ProcessFilled, ProcessQueue, ProcessRequeue, LoopOnly
  <2>2. ASSUME NEW l, LoopGoto(g, l), l \in InProcessPcs => loopPc[g] \in InProcessPcs
        PROVE  loopPc'[g] \in InProcessPcs => loopPc[g] \in InProcessPcs
    BY <2>2 DEF LoopGoto, TypeOK, LoopType
  <2>3. loopPc'[g] \in InProcessPcs => loopPc[g] \in InProcessPcs
    BY <1>4, <2>2 DEF LoopStep, LoopRuns, LoopEnter, LoopQuit, LoopError, LoopEnded,
       ProcessDequeue, ProcessFilled, ProcessQueue, ProcessRequeue, InProcessPcs
  <2> QED BY <2>1, <2>3
<1> QED BY <1>1, <1>2, <1>3, <1>4

LEMMA ProcessInvStep ==
    ASSUME TypeOK, OwnerInv, StartInv, PointerInv, HoldInv, ProcessInv, [Next]_vars
    PROVE  ProcessInv'
<1>1. ASSUME UNCHANGED <<loopPtr, callVars, loopVars>> PROVE ProcessInv'
  BY <1>1 DEF ProcessInv, Started, NoDetachAhead, Busy, callVars, loopVars
<1>2. CASE UNCHANGED vars BY <1>1, <1>2 DEF vars, lifecycleVars
<1>3. ASSUME NEW t \in Threads, Call(t) \/ Continue(t) PROVE ProcessInv'
  BY <1>3, ThreadProcess
<1>4. ASSUME NEW d \in Dispatchers, Dispatch(d) \/ DispatchReturn(d) PROVE ProcessInv'
  BY <1>1, <1>4 DEF Dispatch, DispatchNext, DispatchExit, DispatchReturn, NotifyOnly,
     lifecycleVars
<1>5. ASSUME NEW g \in Loops, LoopStep(g) PROVE ProcessInv'
  <2>1. UNCHANGED <<loopPtr, callVars>> BY <1>5, LoopKeepsStarting
  <2>2. NoDetachAhead' <=> NoDetachAhead BY <2>1 DEF NoDetachAhead, Busy, callVars
  <2>3. streamPtr = loopPtr BY DEF PointerInv
  <2> QED BY <1>5, <2>1, <2>2, <2>3, LoopMoves, LoopProcesses DEF ProcessInv, Started
<1> QED BY <1>2, <1>3, <1>4, <1>5 DEF Next

\* The thread that will detach stays where it is, or gets controlMu, or detaches.
LEMMA DetacherMoves ==
    ASSUME TypeOK, NEW t \in Threads, Call(t) \/ Continue(t), ToDetach(t)
    PROVE  TeardownDetach(t) \/ ToDetach(t)'
<1>1. CASE TeardownLock(t) BY <1>1, GotoMoves DEF TeardownLock, ToDetach, Moved
<1>2. CASE ~TeardownLock(t)
  <2>1. ~Call(t) /\ ~StartStep(t) /\ ~StopStep(t) /\ ~ControlStep(t) /\ ~FinishCall(t)
    BY DEF ToDetach, Call, Start, Pause, Stop, CloseOwn, CloseJoin, Control, Enter, MayEnter,
       StartStep, ensureRuntime, StartStarting, StartResources, CreateMainLoop,
       CreatePlaybackStream, ConnectPlaybackStream, ActivateNewStream, StartPublish, StartSpawn,
       StartLoad, StartReactivate, StopStep, StopLoad, StopDeactivate, ControlStep,
       ControlAcquire, ControlRecheck, ControlLoad, ControlCall, ControlRelease, FinishCall,
       LastTransition
  <2>2. TeardownDetach(t)
    BY <1>2, <2>1 DEF ToDetach, Continue, CloseStep, CloseJoined, TeardownDisconnect,
            TeardownQuit,
       TeardownAwait, TeardownDestroyStream, TeardownDestroyLoop, CloseClosed
  <2> QED BY <2>2
<1> QED BY <1>1, <1>2

LEMMA ThreadClose ==
    ASSUME TypeOK, OwnerInv, StartInv, CloseInv, NEW t \in Threads, Call(t) \/ Continue(t)
    PROVE  CloseInv'
<1>1. CASE CloseOwn(t)
  <2>1. Moved(t, "Close", "td_lock", sp[t], lp[t]) BY <1>1, EnterMoves DEF CloseOwn
  <2>2. overtook' = StartAtWork BY <1>1 DEF CloseOwn
  <2>3. StartAtWork <=> \E u \in Threads : Busy(u) BY DEF StartAtWork, Busy, BusyPcs
  <2>4. ToDetach(t)' BY <2>1 DEF Moved, ToDetach
  <2>5. ASSUME NEW u \in Threads, ~overtook' PROVE ~Busy(u)'
    BY <2>1, <2>2, <2>3, <2>5 DEF Moved, Others, Busy
  <2> QED BY <2>4, <2>5 DEF CloseInv
<1>2. CASE ~CloseOwn(t)
  <2> SUFFICES ASSUME closeDone' # "nil", ~overtook' PROVE CloseInv'
    BY DEF CloseInv
  <2>1. overtook' = overtook /\ (closeDone' = closeDone \/ CloseClosed(t)) BY <1>2, PointerMoves
  <2>2. closeDone # "nil"
    <3>1. CASE CloseClosed(t)
      <4>1. Owns(t) BY <3>1 DEF CloseClosed, OwnerInv, Owns
      <4> QED BY <4>1 DEF OwnerInv
    <3> QED BY <2>1, <3>1
  <2>3. state \in {"Closing", "Closed"} BY <2>2 DEF StartInv
  <2>4. (\A u \in Threads : ~Busy(u)) /\ (loopPtr # nil => \E u \in Threads : ToDetach(u))
    BY <2>1, <2>2 DEF CloseInv
  <2>5. Others(t) /\ (Busy(t)' => Busy(t)) BY <2>3, BusyBefore
  <2>6. \A u \in Threads : ~Busy(u)' BY <2>4, <2>5 DEF Others, Busy
  <2>7. ~StartPublish(t)
    <3>1. pc[t] = "start_publish" => Busy(t)
      BY DEF OwnerInv, StartPcs, CreatePcs, Busy, BusyPcs
    <3> QED BY <2>4, <3>1 DEF StartPublish
  <2>8. ASSUME loopPtr' # nil PROVE \E u \in Threads : ToDetach(u)'
    <3>1. ~TeardownDetach(t) BY <2>8 DEF TeardownDetach
    <3>2. loopPtr' = loopPtr BY <2>7, <3>1, PointerMoves
    <3>3. PICK u \in Threads : ToDetach(u) BY <2>4, <2>8, <3>2
    <3>4. CASE u = t BY <3>1, <3>3, <3>4, DetacherMoves
    <3>5. CASE u # t BY <2>5, <3>3, <3>5 DEF Others, ToDetach
    <3> QED BY <3>4, <3>5
  <2> QED BY <2>6, <2>8 DEF CloseInv
<1> QED BY <1>1, <1>2

LEMMA CloseInvStep ==
    ASSUME TypeOK, OwnerInv, StartInv, CloseInv, [Next]_vars PROVE CloseInv'
<1>1. ASSUME UNCHANGED <<loopPtr, closeDone, overtook, callVars>> PROVE CloseInv'
  BY <1>1 DEF CloseInv, Busy, ToDetach, callVars
<1>2. CASE UNCHANGED vars BY <1>1, <1>2 DEF vars, lifecycleVars
<1>3. ASSUME NEW t \in Threads, Call(t) \/ Continue(t) PROVE CloseInv'
  BY <1>3, ThreadClose
<1>4. ASSUME NEW d \in Dispatchers, Dispatch(d) \/ DispatchReturn(d) PROVE CloseInv'
  BY <1>1, <1>4 DEF Dispatch, DispatchNext, DispatchExit, DispatchReturn, NotifyOnly,
     lifecycleVars
<1>5. ASSUME NEW g \in Loops, LoopStep(g) PROVE CloseInv'
  <2>1. UNCHANGED <<closeDone, overtook>>
    BY <1>5 DEF LoopStep, LoopRuns, LoopEnter, LoopQuit, LoopError, LoopEnded, ProcessBegin,
       ProcessDequeue, ProcessFilled, ProcessQueue, ProcessRequeue, fail, OnErrorReturns, LoopGoto
  <2>2. UNCHANGED <<loopPtr, callVars>> BY <1>5, LoopKeepsStarting
  <2> QED BY <1>1, <2>1, <2>2
<1> QED BY <1>2, <1>3, <1>4, <1>5 DEF Next

-----------------------------------------------------------------------------
(* The invariant, and what follows from it.                                *)

LEMMA LifeInvInit == Init => LifeInv
<1> SUFFICES ASSUME Init PROVE LifeInv OBVIOUS
<1>1. \A t \in Threads : pc[t] = "idle" /\ method[t] = "none" BY DEF Init
<1>2. \A g \in Loops : loopPc[g] = "none" /\ loop[g] = "none" /\ stream[g] = "none" BY DEF Init
<1>3. state = "Idle" /\ loopPtr = nil /\ streamPtr = nil /\ closeDone = "nil" BY DEF Init
<1>4. StartInv BY <1>1, <1>3 DEF StartInv, ActiveStart, TeardownPcs
<1>5. PointerInv
  BY <1>1, <1>3 DEF PointerInv, PointersOf, CreatePcs, RestartPcs, CreatingPcs, MakingPcs,
     HoldPcs, DetachedPcs, TeardownPcs, ControlPcs
<1>6. HoldInv
  BY <1>1, <1>2, <1>3, ThreadsAssumption
  DEF HoldInv, Holds, Spawning, LoopRight, Started, HoldPcs, MakingPcs, CreatingPcs,
      DetachedPcs, TeardownPcs
<1>7. ProcessInv BY <1>2 DEF ProcessInv, Started
<1>8. CloseInv BY <1>3 DEF CloseInv
<1> QED BY <1>4, <1>5, <1>6, <1>7, <1>8 DEF LifeInv

LEMMA LifeCorrect == Spec => [](TypeOK /\ OwnerInv /\ LifeInv)
<1>1. TypeOK /\ OwnerInv /\ LifeInv /\ [Next]_vars => LifeInv'
  BY StartInvStep, PointerInvStep, HoldInvStep, ProcessInvStep, CloseInvStep DEF LifeInv
<1> QED BY <1>1, LifeInvInit, TypeCorrect, OneOwnerOfClose, PTL DEF Spec

\* A control call has the published stream in hand, and that one is alive: a
\* SetControl or GetControl never reaches a stream that Close takes down.
THEOREM ControlsMeetLiveStream == Spec => []ControlOnLiveStream
<1>1. ASSUME TypeOK, LifeInv PROVE ControlOnLiveStream
  <2> SUFFICES ASSUME NEW t \in Threads, pc[t] = "ctl_call"
               PROVE  stream[sp[t]] = "connected" /\ loop[sp[t]] = "created"
    BY DEF ControlOnLiveStream
  <2>1. sp[t] = loopPtr /\ sp[t] # nil BY <1>1 DEF LifeInv, PointerInv, PointersOf
  <2>2. sp[t] \in Loops BY <1>1, <2>1 DEF TypeOK, CallType
  <2> QED BY <1>1, <2>1, <2>2 DEF LifeInv, HoldInv, LoopRight
<1> QED BY <1>1, LifeCorrect, PTL

\* The process callback, which loads the stream pointer without a lock, never works
\* on a stream or in a loop that was destroyed.
THEOREM CallbackMeetsLiveStream == Spec => []ProcessOnLiveStream
<1>1. ASSUME TypeOK, OwnerInv, LifeInv PROVE ProcessOnLiveStream
  <2> SUFFICES ASSUME NEW g \in Loops, loopPc[g] \in InProcessPcs
               PROVE  loop[g] = "created" /\ stream[proc[g]] \in {"connected", "disconnected"}
    BY DEF ProcessOnLiveStream
  <2> USE <1>1 DEF LifeInv
  <2>1. Started(g) BY DEF Started, InProcessPcs
  <2>2. loop[g] = "created" BY <2>1 DEF HoldInv, LoopRight
  <2>3. proc[g] # nil /\ proc[g] \in {g, loopPtr} BY <2>1 DEF ProcessInv
  <2>4. CASE proc[g] = loopPtr
    <3>1. loopPtr \in Loops BY <2>3, <2>4 DEF TypeOK, LifecycleType
    <3> QED BY <2>2, <2>4, <3>1 DEF HoldInv, LoopRight
  <2>5. CASE proc[g] = g /\ loopPtr # g
    <3>1. PICK u \in Threads : Holds(u, g) BY <2>2, <2>5 DEF HoldInv, LoopRight
    <3>2. pc[u] \in {"td_disconnect", "td_quit", "td_await"} BY <2>1, <3>1, HolderOfSpawning
    <3>3. HeldRight(u, g) BY <3>1 DEF HoldInv
    <3>4. stream[g] \in {"connected", "disconnected"} BY <3>2, <3>3 DEF HeldRight
    <3> QED BY <2>2, <2>5, <3>4
  <2> QED BY <2>3, <2>4, <2>5
<1> QED BY <1>1, LifeCorrect, PTL

\* A stream is destroyed only once its loop goroutine is gone, and the loop after it.
THEOREM DestroyedInOrder == Spec => []DestroyOrder
<1>1. ASSUME LifeInv PROVE DestroyOrder
  BY <1>1 DEF LifeInv, HoldInv, LoopRight, Started, DestroyOrder
<1> QED BY <1>1, LifeCorrect, PTL

\* Two teardowns of one player, by Close and by a restart that failed, never have
\* the same stream or loop in hand, and each still finds alive what it will destroy.
THEOREM EachObjectOneOwner == Spec => []OneOwner
<1>1. ASSUME TypeOK, LifeInv PROVE OneOwner
  <2> USE <1>1 DEF LifeInv
  <2>1. ASSUME NEW t \in Threads, pc[t] \in DetachedPcs
        PROVE  sp[t] = lp[t] /\ sp[t] \in Loops \cup {nil} /\ Holds(t, lp[t])
    <3>1. "start_stream" \notin DetachedPcs BY DEF DetachedPcs, TeardownPcs
    <3> QED BY <2>1, <3>1 DEF PointerInv, PointersOf, HoldPcs, Holds, TypeOK, CallType
  <2>2. ASSUME NEW t \in Threads, pc[t] \in DetachedPcs, sp[t] # nil
        PROVE  /\ sp[t] # streamPtr /\ loop[sp[t]] = "created" /\ lp[t] # loopPtr
               /\ pc[t] # "td_destroyLoop" => stream[sp[t]] # "destroyed"
    <3>1. HeldRight(t, sp[t]) BY <2>1, <2>2 DEF HoldInv
    <3>2. pc[t] \in {"td_disconnect", "td_quit", "td_await", "td_destroyStream",
                     "td_destroyLoop"}
      BY <2>2 DEF DetachedPcs, TeardownPcs
    <3> QED BY <2>1, <2>2, <3>1, <3>2 DEF HeldRight, PointerInv
  <2>3. ASSUME NEW t \in Threads, NEW u \in Threads, pc[t] \in DetachedPcs,
               pc[u] \in DetachedPcs, t # u, sp[t] = sp[u]
        PROVE  sp[t] = nil
    BY <2>1, <2>3 DEF HoldInv
  <2> QED BY <2>1, <2>2, <2>3 DEF OneOwner
<1> QED BY <1>1, LifeCorrect, PTL

\* Once the owning Close has returned, every stream, loop and loop goroutine the
\* player ever had is gone, unless that Close overtook a Start.
THEOREM ClosedHasReleased == Spec => []CloseReleases
<1>1. ASSUME TypeOK, OwnerInv, LifeInv PROVE CloseReleases
  <2> SUFFICES ASSUME closeDone = "closed", ~overtook PROVE state = "Closed" /\ Released
    BY DEF CloseReleases
  <2> USE <1>1 DEF LifeInv
  <2>1. state = "Closed" BY DEF StartInv
  <2>2. \A t \in Threads : ~Owns(t) /\ ~Busy(t) BY DEF OwnerInv, CloseInv
  <2>3. loopPtr = nil /\ streamPtr = nil
    BY <2>2 DEF CloseInv, ToDetach, Owns, TeardownPcs, PointerInv
  <2>4. ASSUME NEW t \in Threads PROVE pc[t] \notin HoldPcs
    <3>1. pc[t] \in MakingPcs => Busy(t)
      BY DEF OwnerInv, StartPcs, CreatePcs, MakingPcs, CreatingPcs, Busy, BusyPcs
    <3>2. pc[t] \in DetachedPcs => Busy(t) \/ Owns(t)
      BY DEF StartInv, DetachedPcs, Busy, BusyPcs, Owns
    <3> QED BY <2>2, <3>1, <3>2 DEF HoldPcs
  <2>5. \A g \in Loops : loop[g] # "created"
    <3> SUFFICES ASSUME NEW g \in Loops, loop[g] = "created" PROVE FALSE OBVIOUS
    <3>1. loopPtr # g BY <2>3, ThreadsAssumption
    <3> QED BY <2>4, <3>1 DEF HoldInv, LoopRight, Holds
  <2>6. \A g \in Loops : /\ loop[g] \in {"none", "destroyed"}
                         /\ stream[g] \in {"none", "destroyed"}
                         /\ loopPc[g] \in {"none", "exited"}
    BY <2>5 DEF HoldInv, LoopRight, Started, TypeOK, NativeType
  <2> QED BY <2>1, <2>3, <2>6 DEF Released
<1> QED BY <1>1, LifeCorrect, PTL

=============================================================================
