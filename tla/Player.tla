------------------------------- MODULE Player -------------------------------
(***************************************************************************)
(* internal/core/player.go and the control flow of player_rt.go: one       *)
(* player, the goroutines that call its methods, the transient goroutine   *)
(* that delivers state notifications, and the goroutines that run PipeWire *)
(* main loops and with them the process callback.                          *)
(*                                                                         *)
(* A critical section of p.mu, an atomic load or store and a call into     *)
(* StreamOps are one step each; everything between two of them is local to *)
(* the goroutine.  controlMu is held across steps, so it is explicit.      *)
(*                                                                         *)
(* A member of Loops is what one run of startCreateResourcesAndActivate    *)
(* makes: a main loop, its stream, and the goroutine that runs the loop,   *)
(* which is a thread of that name.  The field loopDone goes with loopPtr:  *)
(* both are set and both are cleared in the same critical sections.  The   *)
(* field paused is written by Start, Pause and Stop and read by no code,   *)
(* so it is left out.  A call rejected on its first look at the state      *)
(* changes nothing and is a stuttering step.                               *)
(***************************************************************************)
EXTENDS PlayerStates, Naturals, Sequences, FiniteSets

CONSTANTS
    Clients,        \* application goroutines
    Dispatchers,    \* identities for dispatchStates goroutines
    Loops,          \* identities for main loops, their streams and goroutines
    nil,            \* the nil pointer
    MayCall,        \* MayCall[t]: the methods thread t calls
    CallBudget,     \* CallBudget[t]: how many calls thread t makes (a bound)
    MayFail,        \* the operations that may fail
    QuitIsSticky    \* a quit issued before pw_main_loop_run is honoured

Methods == {"Start", "Pause", "Stop", "Close", "Control"}

Failures == {"runtime", "loop", "stream", "connect", "activate", "reactivate",
             "deactivate", "run", "view", "fill", "queue"}

Threads == Clients \cup Dispatchers \cup Loops

ASSUME ThreadsAssumption ==
    /\ Clients \cap Dispatchers = {}
    /\ Loops \cap (Clients \cup Dispatchers) = {}
    /\ nil \notin Loops
    /\ Dispatchers # {}

ASSUME BoundsAssumption ==
    /\ MayCall \in [Threads -> SUBSET Methods]
    /\ CallBudget \in [Threads -> Nat]
    /\ MayFail \subseteq Failures
    /\ QuitIsSticky \in BOOLEAN

VARIABLES
    \* fields of player
    state,          \* the atomic state
    streamOps,      \* streamOps # nil
    streamPtr,      \* the stream, or nil
    loopPtr,        \* the main loop (and its loopDone), or nil
    closeDone,      \* the channel closeDone: "nil", "open" or "closed"
    stateQueue,     \* notifications not yet taken by the dispatcher
    dispatching,    \* a dispatcher goroutine exists
    readers,        \* threads that hold controlMu for reading
    writer,         \* threads that hold, or wait for, controlMu for writing
    \* PipeWire's side
    stream,         \* stream[g]: life of a stream
    active,         \* active[g]: pw_stream_set_active
    loop,           \* loop[g]: life of a main loop
    quit,           \* quit[g]: pw_main_loop_quit was called
    \* goroutines
    pc,             \* pc[t]: where thread t is in the call it makes
    method,         \* method[t]: the method it is in, "none" between calls
    sp,             \* sp[t]: its local copy of streamPtr
    lp,             \* lp[t]: its local copy of loopPtr
    calls,          \* calls[t]: calls thread t has made
    dispPc,         \* dispPc[d]: where dispatcher d is
    loopPc,         \* loopPc[g]: where a loop goroutine is
    proc,           \* proc[g]: the stream its process callback works on
    \* history
    seen,           \* the last state passed to OnStateChange
    overtook        \* Close took over while a Start was at work

lifecycleVars == <<state, streamOps, streamPtr, loopPtr, closeDone, overtook>>
notifyVars == <<stateQueue, dispatching, dispPc, seen>>
controlVars == <<readers, writer>>
nativeVars == <<stream, active, loop, quit>>
callVars == <<pc, method, sp, lp, calls>>
loopVars == <<loopPc, proc>>
vars == <<lifecycleVars, notifyVars, controlVars, nativeVars, callVars, loopVars>>

-----------------------------------------------------------------------------
(* Program counters.  "idle" is a thread outside any method of the player. *)

CreatePcs == {"start_resources", "start_loop", "start_stream", "start_connect",
              "start_activate", "start_publish", "start_spawn"}
RestartPcs == {"start_load", "start_reactivate"}
TeardownPcs == {"td_lock", "td_detach", "td_disconnect", "td_quit", "td_await",
                "td_destroyStream", "td_destroyLoop"}
ControlPcs == {"ctl_acquire", "ctl_recheck", "ctl_load", "ctl_call", "ctl_release"}
Pcs == {"idle", "start_runtime", "start_starting", "start_playing", "start_error",
        "pause_paused", "stop_load", "stop_deactivate", "stop_stopped", "close_wait",
        "close_closed"} \cup CreatePcs \cup RestartPcs \cup TeardownPcs \cup ControlPcs

\* dispatchStates: about to lock mu, or inside the callback.
DispPcs == {"none", "drain", "callback"}

\* The loop goroutine holds the pw_loop lock while pw_main_loop_run dispatches
\* the process callback; the err_* are inside OnError.
InProcessPcs == {"dequeue", "fill", "queue", "fail_held", "err_held", "requeue",
                 "fail_queued", "err_queued"}
LoopPcs == {"none", "spawned", "running", "ended", "fail_run", "err_run", "exited"}
             \cup InProcessPcs
UserCallbackPcs == {"fill", "err_held", "err_queued", "err_run"}

Init ==
    /\ state = "Idle" /\ streamOps = FALSE /\ streamPtr = nil /\ loopPtr = nil
    /\ closeDone = "nil" /\ overtook = FALSE
    /\ stateQueue = <<>> /\ dispatching = FALSE /\ seen = "Idle"
    /\ dispPc = [d \in Dispatchers |-> "none"]
    /\ readers = {} /\ writer = {}
    /\ stream = [g \in Loops |-> "none"] /\ active = [g \in Loops |-> FALSE]
    /\ loop = [g \in Loops |-> "none"] /\ quit = [g \in Loops |-> FALSE]
    /\ pc = [t \in Threads |-> "idle"] /\ method = [t \in Threads |-> "none"]
    /\ sp = [t \in Threads |-> nil] /\ lp = [t \in Threads |-> nil]
    /\ calls = [t \in Threads |-> 0]
    /\ loopPc = [g \in Loops |-> "none"] /\ proc = [g \in Loops |-> nil]

-----------------------------------------------------------------------------
(* Steps of a thread through a method: enter it, go on, go on with new      *)
(* local pointers, return from it.                                         *)

\* Application goroutines may call at any time, the library's goroutines while
\* they are inside a user callback.
MayEnter(t, m) ==
    /\ pc[t] = "idle" /\ m \in MayCall[t] /\ calls[t] < CallBudget[t]
    /\ t \in Dispatchers => dispPc[t] = "callback"
    /\ t \in Loops => loopPc[t] \in UserCallbackPcs

Enter(t, m, l) ==
    /\ MayEnter(t, m)
    /\ pc' = [pc EXCEPT ![t] = l]
    /\ method' = [method EXCEPT ![t] = m]
    /\ calls' = [calls EXCEPT ![t] = @ + 1]
    /\ UNCHANGED <<sp, lp>>

Goto(t, l) == pc' = [pc EXCEPT ![t] = l] /\ UNCHANGED <<method, sp, lp, calls>>

Load(t, s, l, next) ==
    /\ sp' = [sp EXCEPT ![t] = s]
    /\ lp' = [lp EXCEPT ![t] = l]
    /\ pc' = [pc EXCEPT ![t] = next]
    /\ UNCHANGED <<method, calls>>

Return(t) ==
    /\ pc' = [pc EXCEPT ![t] = "idle"]
    /\ method' = [method EXCEPT ![t] = "none"]
    /\ sp' = [sp EXCEPT ![t] = nil]
    /\ lp' = [lp EXCEPT ![t] = nil]
    /\ UNCHANGED calls

\* What a step leaves alone, beside callVars, when it touches only the thread
\* itself, only PipeWire's side, only fields of the player, only the state and
\* its notifications, or only controlMu.
ThreadOnly == UNCHANGED <<lifecycleVars, notifyVars, controlVars, nativeVars, loopVars>>
NativeOnly == UNCHANGED <<lifecycleVars, notifyVars, controlVars, loopVars>>
PlayerOnly == UNCHANGED <<controlVars, nativeVars, loopVars>>
StateOnly == PlayerOnly /\ UNCHANGED <<streamOps, streamPtr, loopPtr, closeDone, overtook>>
LockOnly == UNCHANGED <<lifecycleVars, notifyVars, nativeVars, loopVars>>

Fails(what) == what \in MayFail

Closing == state \in {"Closing", "Closed"}

FreeDispatcher == CHOOSE d \in Dispatchers : dispPc[d] = "none"

\* The caller holds mu.
enqueueStateLocked(next) ==
    /\ stateQueue' = Append(stateQueue, next)
    /\ dispatching' = TRUE
    /\ dispPc' = IF dispatching THEN dispPc
                                ELSE [dispPc EXCEPT ![FreeDispatcher] = "drain"]
    /\ UNCHANGED seen

\* Faulty variant: the transition table is not consulted.
transitionUnchecked(next) == state' = next /\ enqueueStateLocked(next)

\* A rejected transition leaves everything alone.
transition(next) ==
    IF isValidTransition(state, next)
    THEN state' = next /\ enqueueStateLocked(next)
    ELSE UNCHANGED <<state, notifyVars>>

\* callStreamWithLoopLock: thread t can have the lock of stream g's loop, which
\* is recursive, unless that loop is inside a callback.
CanLockLoop(t, g) == g \in Loops /\ g # t => loopPc[g] \notin InProcessPcs

-----------------------------------------------------------------------------
(* Start                                                                   *)

Start(t) ==
    /\ state \in {"Idle", "Stopped"}
    /\ Enter(t, "Start", "start_runtime")
    /\ ThreadOnly

\* Keep the StreamOps already there, or obtain one, or fail.
ensureRuntime(t) ==
    /\ pc[t] = "start_runtime"
    /\ \/ streamOps' = TRUE /\ Goto(t, "start_starting")
       \/ ~streamOps /\ Fails("runtime") /\ Return(t) /\ UNCHANGED streamOps
    /\ UNCHANGED <<state, streamPtr, loopPtr, closeDone, overtook, notifyVars>> /\ PlayerOnly

StartStarting(t) ==
    /\ pc[t] = "start_starting"
    /\ transition("Starting")
    /\ IF isValidTransition(state, "Starting") THEN Goto(t, "start_resources") ELSE Return(t)
    /\ StateOnly

HasResources == loopPtr # nil /\ streamPtr # nil

StartResources(t) ==
    /\ pc[t] = "start_resources"
    /\ Goto(t, IF HasResources THEN "start_load" ELSE "start_loop")
    /\ ThreadOnly

\* startCreateResourcesAndActivate.  Until StartPublish the loop and the stream
\* are known to this thread only; a failing step undoes the earlier ones.
NewLoop == CHOOSE g \in Loops : loop[g] = "none"

CreateMainLoop(t) ==
    /\ pc[t] = "start_loop"
    /\ \/ /\ \E g \in Loops : loop[g] = "none"
          /\ loop' = [loop EXCEPT ![NewLoop] = "created"]
          /\ Load(t, nil, NewLoop, "start_stream")
       \/ Fails("loop") /\ Goto(t, "start_error") /\ UNCHANGED loop
    /\ UNCHANGED <<stream, active, quit>> /\ NativeOnly

CreatePlaybackStream(t) ==
    /\ pc[t] = "start_stream"
    /\ \/ /\ stream' = [stream EXCEPT ![lp[t]] = "created"]
          /\ Load(t, lp[t], lp[t], "start_connect") /\ UNCHANGED loop
       \/ /\ Fails("stream") /\ loop' = [loop EXCEPT ![lp[t]] = "destroyed"]
          /\ Goto(t, "start_error") /\ UNCHANGED stream
    /\ UNCHANGED <<active, quit>> /\ NativeOnly

DestroyBoth(t) ==
    /\ stream' = [stream EXCEPT ![sp[t]] = "destroyed"]
    /\ loop' = [loop EXCEPT ![lp[t]] = "destroyed"]

ConnectPlaybackStream(t) ==
    /\ pc[t] = "start_connect"
    /\ \/ /\ stream' = [stream EXCEPT ![sp[t]] = "connected"]
          /\ Goto(t, "start_activate") /\ UNCHANGED loop
       \/ Fails("connect") /\ DestroyBoth(t) /\ Goto(t, "start_error")
    /\ UNCHANGED <<active, quit>> /\ NativeOnly

\* After a failure the stream is disconnected, best effort, and destroyed.
ActivateNewStream(t) ==
    /\ pc[t] = "start_activate"
    /\ \/ /\ active' = [active EXCEPT ![sp[t]] = TRUE]
          /\ Goto(t, "start_publish") /\ UNCHANGED <<stream, loop>>
       \/ Fails("activate") /\ DestroyBoth(t) /\ Goto(t, "start_error") /\ UNCHANGED active
    /\ UNCHANGED quit /\ NativeOnly

StartPublish(t) ==
    /\ pc[t] = "start_publish"
    /\ loopPtr' = lp[t] /\ streamPtr' = sp[t]
    /\ Goto(t, "start_spawn")
    /\ UNCHANGED <<state, streamOps, closeDone, overtook, notifyVars>> /\ PlayerOnly

\* The go statement that runs the main loop.
StartSpawn(t) ==
    /\ pc[t] = "start_spawn"
    /\ loopPc' = [loopPc EXCEPT ![lp[t]] = "spawned"]
    /\ Goto(t, "start_playing")
    /\ UNCHANGED <<lifecycleVars, notifyVars, controlVars, nativeVars, proc>>

\* Restart: the stream pointer is loaded without mu.
StartLoad(t) ==
    /\ pc[t] = "start_load"
    /\ Load(t, streamPtr, nil, "start_reactivate")
    /\ ThreadOnly

\* pw_stream_set_active through t's pointer; on a stream that is gone, or a nil
\* one, nothing happens here.
SetActive(t, on) ==
    active' = [g \in Loops |-> IF g = sp[t] /\ stream[g] = "connected" THEN on ELSE active[g]]

StartReactivate(t) ==
    /\ pc[t] = "start_reactivate"
    /\ CanLockLoop(t, sp[t])
    /\ \/ SetActive(t, TRUE) /\ Goto(t, "start_playing")
       \/ Fails("reactivate") /\ Goto(t, "td_lock") /\ UNCHANGED active
    /\ UNCHANGED <<stream, loop, quit>> /\ NativeOnly

-----------------------------------------------------------------------------
(* Pause and Stop                                                          *)

Pause(t) ==
    /\ state = "Playing"
    /\ Enter(t, "Pause", "pause_paused")
    /\ ThreadOnly

Stop(t) ==
    /\ state \in {"Playing", "Paused"}
    /\ Enter(t, "Stop", "stop_load")
    /\ ThreadOnly

\* deactivateStream copies the pointers under mu and calls after unlocking.
StopLoad(t) ==
    /\ pc[t] = "stop_load"
    /\ Load(t, streamPtr, nil,
            IF streamOps /\ streamPtr # nil THEN "stop_deactivate" ELSE "stop_stopped")
    /\ ThreadOnly

StopDeactivate(t) ==
    /\ pc[t] = "stop_deactivate"
    /\ CanLockLoop(t, sp[t])
    /\ \/ SetActive(t, FALSE) /\ Goto(t, "stop_stopped")
       \/ Fails("deactivate") /\ Return(t) /\ UNCHANGED active
    /\ UNCHANGED <<stream, loop, quit>> /\ NativeOnly

\* The last step of Start, Pause and Stop is a transition whose result is the
\* method's; start_error is failWithErrorState.
LastTransition == [start_playing |-> "Playing", start_error |-> "Error",
                   pause_paused |-> "Paused", stop_stopped |-> "Stopped"]

FinishCall(t) ==
    /\ pc[t] \in DOMAIN LastTransition
    /\ transition(LastTransition[pc[t]])
    /\ Return(t)
    /\ StateOnly

-----------------------------------------------------------------------------
(* Close and teardown                                                      *)

StartAtWork ==
    \E t \in Threads : method[t] = "Start" /\ pc[t] \in CreatePcs \cup RestartPcs \cup TeardownPcs

\* Faulty variant: Closing is set and not announced.
CloseOwnSilently(t) ==
    /\ state # "Closed" /\ closeDone = "nil" /\ isValidTransition(state, "Closing")
    /\ Enter(t, "Close", "td_lock")
    /\ closeDone' = "open" /\ state' = "Closing" /\ overtook' = StartAtWork
    /\ UNCHANGED <<streamOps, streamPtr, loopPtr, notifyVars>> /\ PlayerOnly

\* The owner: Closing is announced and closeDone made in one critical section.
CloseOwn(t) ==
    /\ state # "Closed" /\ closeDone = "nil"
    /\ state = "Closing" \/ isValidTransition(state, "Closing")
    /\ Enter(t, "Close", "td_lock")
    /\ closeDone' = "open"
    /\ state' = "Closing"
    /\ IF state # "Closing" THEN enqueueStateLocked("Closing") ELSE UNCHANGED notifyVars
    /\ overtook' = StartAtWork
    /\ UNCHANGED <<streamOps, streamPtr, loopPtr>> /\ PlayerOnly

\* Any other Close waits for the owner.
CloseJoin(t) ==
    /\ state # "Closed" /\ closeDone # "nil"
    /\ Enter(t, "Close", "close_wait")
    /\ ThreadOnly

CloseJoined(t) ==
    /\ pc[t] = "close_wait" /\ closeDone = "closed"
    /\ Return(t)
    /\ ThreadOnly

\* controlMu.Lock announces the writer first: TryRLock fails from here on.
TeardownLock(t) ==
    /\ pc[t] = "td_lock" /\ writer = {}
    /\ writer' = {t}
    /\ Goto(t, "td_detach")
    /\ LockOnly /\ UNCHANGED readers

AfterTeardown(t) == IF method[t] = "Close" THEN "close_closed" ELSE "start_error"

\* Faulty variants: the pointers are taken out under controls in flight, are
\* copied and left in place, only the stream is copied, or a mark that the checks for
\* nil do not know is left instead of nil.
Detach(t, s, l, keepS, keepL) ==
    /\ pc[t] = "td_detach"
    /\ Load(t, s, l, IF streamOps THEN "td_disconnect" ELSE AfterTeardown(t))
    /\ streamPtr' = keepS /\ loopPtr' = keepL /\ writer' = {}
    /\ UNCHANGED <<readers, state, streamOps, closeDone, overtook>>
    /\ UNCHANGED <<notifyVars, nativeVars, loopVars>>
DetachUnderReaders(t) == Detach(t, streamPtr, loopPtr, nil, nil)
DetachCopies(t) == readers = {} /\ Detach(t, streamPtr, loopPtr, streamPtr, loopPtr)
DetachForgetsLoop(t) == readers = {} /\ Detach(t, streamPtr, nil, nil, nil)
DetachMarks(t) == readers = {} /\ Detach(t, streamPtr, loopPtr, "detached", nil)

\* With the readers gone, take the pointers out under mu and let go of both locks.
TeardownDetach(t) ==
    /\ pc[t] = "td_detach" /\ readers = {}
    /\ Load(t, streamPtr, loopPtr, IF streamOps THEN "td_disconnect" ELSE AfterTeardown(t))
    /\ streamPtr' = nil /\ loopPtr' = nil
    /\ writer' = {}
    /\ UNCHANGED <<readers, state, streamOps, closeDone, overtook>>
    /\ UNCHANGED <<notifyVars, nativeVars, loopVars>>

\* Faulty variant: the stream is destroyed at once, under a running loop.
DestroyAtOnce(t) ==
    pc[t] = "td_disconnect" /\ Goto(t, "td_destroyStream") /\ ThreadOnly

\* The result of DisconnectStream is ignored.
TeardownDisconnect(t) ==
    /\ pc[t] = "td_disconnect"
    /\ CanLockLoop(t, sp[t])
    /\ stream' = IF sp[t] = nil THEN stream ELSE [stream EXCEPT ![sp[t]] = "disconnected"]
    /\ Goto(t, "td_quit")
    /\ UNCHANGED <<active, loop, quit>> /\ NativeOnly

TeardownQuit(t) ==
    /\ pc[t] = "td_quit"
    /\ IF lp[t] = nil
       THEN Goto(t, "td_destroyStream") /\ UNCHANGED quit
       ELSE Goto(t, "td_await") /\ quit' = [quit EXCEPT ![lp[t]] = TRUE]
    /\ UNCHANGED <<stream, active, loop>> /\ NativeOnly

\* Faulty variant: the stream is not destroyed.
AwaitThenDestroyLoop(t) ==
    pc[t] = "td_await" /\ loopPc[lp[t]] = "exited" /\ Goto(t, "td_destroyLoop") /\ ThreadOnly

\* The receive from loopDone.
TeardownAwait(t) ==
    /\ pc[t] = "td_await" /\ loopPc[lp[t]] = "exited"
    /\ Goto(t, "td_destroyStream")
    /\ ThreadOnly

TeardownDestroyStream(t) ==
    /\ pc[t] = "td_destroyStream"
    /\ stream' = IF sp[t] = nil THEN stream ELSE [stream EXCEPT ![sp[t]] = "destroyed"]
    /\ Goto(t, "td_destroyLoop")
    /\ UNCHANGED <<active, loop, quit>> /\ NativeOnly

TeardownDestroyLoop(t) ==
    /\ pc[t] = "td_destroyLoop"
    /\ loop' = IF lp[t] = nil THEN loop ELSE [loop EXCEPT ![lp[t]] = "destroyed"]
    /\ Goto(t, AfterTeardown(t))
    /\ UNCHANGED <<stream, active, quit>> /\ NativeOnly

CloseClosed(t) ==
    /\ pc[t] = "close_closed"
    /\ state' = "Closed"
    /\ closeDone' = "closed"
    /\ enqueueStateLocked("Closed")
    /\ Return(t)
    /\ UNCHANGED <<streamOps, streamPtr, loopPtr, overtook>> /\ PlayerOnly

-----------------------------------------------------------------------------
(* SetControl and GetControl                                               *)

Control(t) ==
    /\ ~Closing
    /\ Enter(t, "Control", "ctl_acquire")
    /\ ThreadOnly

\* Faulty variant: RLock instead of TryRLock.
ControlAcquireBlocking(t) ==
    /\ pc[t] = "ctl_acquire" /\ writer = {}
    /\ readers' = readers \cup {t} /\ Goto(t, "ctl_recheck")
    /\ LockOnly /\ UNCHANGED writer

\* TryRLock fails when a writer holds the lock or waits for it.
ControlAcquire(t) ==
    /\ pc[t] = "ctl_acquire"
    /\ IF writer = {} THEN readers' = readers \cup {t} /\ Goto(t, "ctl_recheck")
                      ELSE Return(t) /\ UNCHANGED readers
    /\ LockOnly /\ UNCHANGED writer

ControlRecheck(t) ==
    /\ pc[t] = "ctl_recheck"
    /\ Goto(t, IF Closing THEN "ctl_release" ELSE "ctl_load")
    /\ ThreadOnly

ControlLoad(t) ==
    /\ pc[t] = "ctl_load"
    /\ Load(t, streamPtr, nil,
            IF streamOps /\ streamPtr # nil THEN "ctl_call" ELSE "ctl_release")
    /\ ThreadOnly

\* SetStreamControl or GetStreamControl; neither result changes the player.
ControlCall(t) ==
    /\ pc[t] = "ctl_call" /\ CanLockLoop(t, sp[t])
    /\ Goto(t, "ctl_release")
    /\ ThreadOnly

ControlRelease(t) ==
    /\ pc[t] = "ctl_release"
    /\ readers' = readers \ {t}
    /\ Return(t)
    /\ LockOnly /\ UNCHANGED writer

-----------------------------------------------------------------------------
(* dispatchStates                                                          *)

NotifyOnly == UNCHANGED <<lifecycleVars, controlVars, nativeVars, callVars, loopVars>>

DispatchNext(d) ==
    /\ dispPc[d] = "drain" /\ stateQueue # <<>>
    /\ seen' = Head(stateQueue)
    /\ stateQueue' = Tail(stateQueue)
    /\ dispPc' = [dispPc EXCEPT ![d] = "callback"]
    /\ UNCHANGED dispatching /\ NotifyOnly

\* Faulty variant: the dispatcher exits with the flag still set.
DispatchExitFlagged(d) ==
    /\ dispPc[d] = "drain" /\ stateQueue = <<>>
    /\ dispPc' = [dispPc EXCEPT ![d] = "none"]
    /\ UNCHANGED <<stateQueue, seen, dispatching>> /\ NotifyOnly

DispatchExit(d) ==
    /\ dispPc[d] = "drain" /\ stateQueue = <<>>
    /\ dispatching' = FALSE
    /\ dispPc' = [dispPc EXCEPT ![d] = "none"]
    /\ UNCHANGED <<stateQueue, seen>> /\ NotifyOnly

\* OnStateChange returns; it may never do so.
DispatchReturn(d) ==
    /\ dispPc[d] = "callback" /\ pc[d] = "idle"
    /\ dispPc' = [dispPc EXCEPT ![d] = "drain"]
    /\ UNCHANGED <<stateQueue, dispatching, seen>> /\ NotifyOnly

-----------------------------------------------------------------------------
(* A loop goroutine: RunMainLoop, onProcess, processPCM and fail.          *)

LoopGoto(g, l) ==
    /\ loopPc' = [loopPc EXCEPT ![g] = l]
    /\ UNCHANGED <<streamOps, streamPtr, loopPtr, closeDone, overtook, controlVars, callVars>>
    /\ UNCHANGED <<stream, active, loop>>

LoopOnly == UNCHANGED <<state, notifyVars, quit, proc>>

LoopEnter(g) ==
    /\ loopPc[g] = "spawned"
    /\ LoopGoto(g, "running")
    /\ quit' = [quit EXCEPT ![g] = @ /\ QuitIsSticky]
    /\ UNCHANGED <<state, notifyVars, proc>>

\* pw_main_loop_run returns because of the quit; loopDone is closed.
LoopQuit(g) ==
    /\ loopPc[g] = "running" /\ quit[g]
    /\ LoopGoto(g, "exited") /\ LoopOnly

\* pw_main_loop_run returns an error.
LoopError(g) ==
    /\ loopPc[g] = "running" /\ Fails("run")
    /\ LoopGoto(g, "ended") /\ LoopOnly

\* An error that follows a Close is not reported; loopDone is closed.
LoopEnded(g) ==
    /\ loopPc[g] = "ended"
    /\ LoopGoto(g, IF Closing THEN "exited" ELSE "fail_run") /\ LoopOnly

\* onProcess loads streamPtr, whichever stream that is now, without mu.
ProcessBegin(g) ==
    /\ loopPc[g] = "running" /\ stream[g] = "connected" /\ active[g]
    /\ streamOps /\ streamPtr # nil
    /\ proc' = [proc EXCEPT ![g] = streamPtr]
    /\ LoopGoto(g, "dequeue") /\ UNCHANGED <<state, notifyVars, quit>>

\* DequeueBuffer, refresh and processPCM's look at the state.
ProcessDequeue(g) ==
    /\ loopPc[g] = "dequeue"
    /\ \/ LoopGoto(g, "running")
       \/ Fails("view") /\ LoopGoto(g, "fail_held")
       \/ LoopGoto(g, IF state = "Playing" THEN "fill" ELSE "queue")
    /\ LoopOnly

\* Fill, with OnUnderrun or OnDrain after it, returns.
ProcessFilled(g) ==
    /\ loopPc[g] = "fill" /\ pc[g] = "idle"
    /\ \/ LoopGoto(g, "queue")
       \/ Fails("fill") /\ LoopGoto(g, "fail_held")
    /\ LoopOnly

ProcessQueue(g) ==
    /\ loopPc[g] = "queue"
    /\ \/ LoopGoto(g, "running")
       \/ Fails("queue") /\ LoopGoto(g, "fail_queued")
    /\ LoopOnly

\* The deferred QueueBuffer after a failed view or fill; its error is dropped.
ProcessRequeue(g) ==
    /\ loopPc[g] = "requeue"
    /\ LoopGoto(g, "running") /\ LoopOnly

\* fail: Error when the state allows it, then OnError in any case.
FailInto == [fail_held |-> "err_held", fail_queued |-> "err_queued", fail_run |-> "err_run"]

fail(g) ==
    /\ loopPc[g] \in DOMAIN FailInto
    /\ transition("Error")
    /\ LoopGoto(g, FailInto[loopPc[g]])
    /\ UNCHANGED <<quit, proc>>

AfterOnError == [err_held |-> "requeue", err_queued |-> "running", err_run |-> "exited"]

OnErrorReturns(g) ==
    /\ loopPc[g] \in DOMAIN AfterOnError /\ pc[g] = "idle"
    /\ LoopGoto(g, AfterOnError[loopPc[g]]) /\ LoopOnly

-----------------------------------------------------------------------------

Call(t) == Start(t) \/ Pause(t) \/ Stop(t) \/ CloseOwn(t) \/ CloseJoin(t) \/ Control(t)

StartStep(t) ==
    \/ ensureRuntime(t) \/ StartStarting(t) \/ StartResources(t) \/ CreateMainLoop(t)
    \/ CreatePlaybackStream(t) \/ ConnectPlaybackStream(t) \/ ActivateNewStream(t)
    \/ StartPublish(t) \/ StartSpawn(t) \/ StartLoad(t) \/ StartReactivate(t)

StopStep(t) == StopLoad(t) \/ StopDeactivate(t)

CloseStep(t) ==
    \/ CloseJoined(t) \/ TeardownLock(t) \/ TeardownDetach(t) \/ TeardownDisconnect(t)
    \/ TeardownQuit(t) \/ TeardownAwait(t) \/ TeardownDestroyStream(t)
    \/ TeardownDestroyLoop(t) \/ CloseClosed(t)

ControlStep(t) ==
    \/ ControlAcquire(t) \/ ControlRecheck(t) \/ ControlLoad(t) \/ ControlCall(t)
    \/ ControlRelease(t)

\* Thread t goes on with the call it is in.
Continue(t) ==
    StartStep(t) \/ StopStep(t) \/ CloseStep(t) \/ ControlStep(t) \/ FinishCall(t)

Dispatch(d) == DispatchNext(d) \/ DispatchExit(d)

LoopRuns(g) ==
    \/ LoopEnter(g) \/ LoopEnded(g) \/ ProcessBegin(g) \/ ProcessDequeue(g) \/ ProcessFilled(g)
    \/ ProcessQueue(g) \/ ProcessRequeue(g) \/ fail(g) \/ OnErrorReturns(g)

LoopStep(g) == LoopRuns(g) \/ LoopQuit(g) \/ LoopError(g)

Next ==
    \/ \E t \in Threads : Call(t) \/ Continue(t)
    \/ \E d \in Dispatchers : Dispatch(d) \/ DispatchReturn(d)
    \/ \E g \in Loops : LoopStep(g)

Spec == Init /\ [][Next]_vars

\* The steps that may wait for the lock of a running loop.
LoopLockStep(t) ==
    StartReactivate(t) \/ StopDeactivate(t) \/ TeardownDisconnect(t) \/ ControlCall(t)

\* Goroutines in a call are scheduled, and the loop's lock is handed over in the
\* end (the loop drops it whenever it polls).  The loop goroutine runs, its
\* callbacks return, and a quit is noticed.  Nobody has to make a call, and
\* OnStateChange need not return.
Fairness ==
    /\ \A t \in Threads : WF_vars(Continue(t)) /\ SF_vars(LoopLockStep(t))
    /\ \A d \in Dispatchers : WF_vars(Dispatch(d))
    /\ \A g \in Loops : WF_vars(LoopRuns(g)) /\ SF_vars(LoopQuit(g))

FairSpec == Spec /\ Fairness

-----------------------------------------------------------------------------
(* Properties.                                                             *)

LifecycleType ==
    /\ state \in PlayerState /\ streamOps \in BOOLEAN
    /\ streamPtr \in Loops \cup {nil} /\ loopPtr \in Loops \cup {nil}
    /\ closeDone \in {"nil", "open", "closed"} /\ overtook \in BOOLEAN
NotifyType ==
    /\ stateQueue \in Seq(PlayerState) /\ dispatching \in BOOLEAN /\ seen \in PlayerState
    /\ dispPc \in [Dispatchers -> DispPcs]
ControlType == readers \in SUBSET Threads /\ writer \in SUBSET Threads
NativeType ==
    /\ stream \in [Loops -> {"none", "created", "connected", "disconnected", "destroyed"}]
    /\ active \in [Loops -> BOOLEAN] /\ quit \in [Loops -> BOOLEAN]
    /\ loop \in [Loops -> {"none", "created", "destroyed"}]
CallType ==
    /\ pc \in [Threads -> Pcs] /\ method \in [Threads -> Methods \cup {"none"}]
    /\ sp \in [Threads -> Loops \cup {nil}] /\ lp \in [Threads -> Loops \cup {nil}]
    /\ calls \in [Threads -> Nat]
LoopType == loopPc \in [Loops -> LoopPcs] /\ proc \in [Loops -> Loops \cup {nil}]

\* Every variable stays in its domain.
TypeOK == LifecycleType /\ NotifyType /\ ControlType /\ NativeType /\ CallType /\ LoopType

\* What the callback has been told followed by what it has still to be told.
Announced == <<seen>> \o stateQueue

\* An observer of OnStateChange can rebuild the exact path of the state: the
\* notifications seen and queued are a path of valid transitions that ends in
\* the current state, whichever threads made the transitions.
NotificationsExact ==
    /\ Announced[Len(Announced)] = state
    /\ \A i \in 1 .. Len(stateQueue) : isValidTransition(Announced[i], Announced[i + 1])

\* State callbacks run serially, and none is forgotten: there is a dispatcher
\* exactly while the flag says so, never two, and never a queue without one
\* (enqueueStateLocked: "enqueue and exit share mu to avoid lost wakeups").
OneDispatcher ==
    /\ \A d, e \in Dispatchers : dispPc[d] # "none" /\ dispPc[e] # "none" => d = e
    /\ dispatching <=> \E d \in Dispatchers : dispPc[d] # "none"
    /\ stateQueue # <<>> => dispatching

\* SetControl and GetControl never reach a stream that Close has begun to take
\* down: controlMu keeps teardown out from the load of the pointer to the end
\* of the native call.
ControlOnLiveStream ==
    \A t \in Threads : pc[t] = "ctl_call" =>
        stream[sp[t]] = "connected" /\ loop[sp[t]] = "created"

\* The process callback, which takes no lock, never works on a stream or a loop
\* that was destroyed.
ProcessOnLiveStream ==
    \A g \in Loops : loopPc[g] \in InProcessPcs =>
        /\ loop[g] = "created"
        /\ stream[proc[g]] \in {"connected", "disconnected"}

\* A stream is destroyed only once RunMainLoop has returned, and its loop only
\* after it.
DestroyOrder ==
    \A g \in Loops :
        /\ stream[g] = "destroyed" \/ loop[g] = "destroyed" => loopPc[g] \in {"none", "exited"}
        /\ loop[g] = "destroyed" => stream[g] \in {"none", "destroyed"}

DetachedPcs == TeardownPcs \ {"td_lock", "td_detach"}

\* However many teardowns run (Close and a failed restart can overlap), each
\* native object has one owner that releases it, and nobody destroys it twice.
OneOwner ==
    \A t \in Threads : pc[t] \in DetachedPcs =>
        /\ \A u \in Threads : pc[u] \in DetachedPcs /\ t # u =>
              (sp[t] = sp[u] => sp[t] = nil) /\ (lp[t] = lp[u] => lp[t] = nil)
        /\ sp[t] # nil => sp[t] # streamPtr /\ loop[sp[t]] = "created"
        /\ lp[t] # nil => lp[t] # loopPtr /\ loop[lp[t]] = "created"
        /\ sp[t] # nil /\ pc[t] # "td_destroyLoop" => stream[sp[t]] # "destroyed"

Released ==
    /\ streamPtr = nil /\ loopPtr = nil
    /\ \A g \in Loops :
          /\ stream[g] \in {"none", "destroyed"} /\ loop[g] \in {"none", "destroyed"}
          /\ loopPc[g] \in {"none", "exited"}

\* When Close returns every native object is gone, unless Close took over from
\* a Start that was still creating or restarting the stream.
CloseReleases == closeDone = "closed" /\ ~overtook => state = "Closed" /\ Released

\* Every method returns, whatever else runs and even when an OnStateChange
\* callback never does: Close is never stuck behind a control call, a control
\* call made inside the process callback is never stuck behind Close.
CallsReturn == \A t \in Threads : pc[t] # "idle" ~> pc[t] = "idle"

\* If callbacks return, the owner of the player is told in the end that it is
\* Closed, after Close has returned if need be.
ClosedIsTold ==
    (\A d \in Dispatchers : []<>(dispPc[d] # "callback")) =>
        (state = "Closed" ~> seen = "Closed")

Contract == INSTANCE PlayerContract WITH pending <- stateQueue

\* The player keeps the promise PlayerContract makes to the OnStateChange callback.
KeepsContract == Contract!Spec

-----------------------------------------------------------------------------
(* What the comments say of the program and the program does not do.       *)

\* "controlMu protects stream lifetime until teardown detaches owned resources"
\* (player.go): no call through streamPtr meets a stream that was destroyed.
ActivationOnLiveStream ==
    \A t \in Threads : pc[t] \in {"start_reactivate", "stop_deactivate"} =>
        sp[t] # nil /\ stream[sp[t]] # "destroyed"

\* "Close returns after resources are released" (PlayerCallbacks).
ClosedMeansReleased == closeDone = "closed" => Released

\* "PlayerStatePlaying indicates the player is actively outputting audio", here
\* when no method is under way.
PlayingMeansActive ==
    state = "Playing" /\ (\A t \in Threads : pc[t] = "idle")
        => streamPtr # nil /\ active[streamPtr]

=============================================================================
