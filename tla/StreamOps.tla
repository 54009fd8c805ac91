----------------------------- MODULE StreamOps -----------------------------
(***************************************************************************)
(* internal/capi/stream_ops.go with loop_lock.go: the Go storage pinned for *)
(* native streams and the loop lock taken for calls on them.               *)
(*                                                                         *)
(* An owner creates a main loop and a stream, runs the loop and takes both *)
(* down again, in the order player.go keeps; two owners are a Start that   *)
(* overtakes a teardown of the same player, which shares its StreamOps.    *)
(* Callers are goroutines in SetStreamControl or GetStreamControl, which the *)
(* player keeps out of a teardown (the calls of Stop, which it does not, are *)
(* in Player).  A pointer is an address, reused once it is freed.  A critical *)
(* section of s.mu, a native call and a step of the main loop are one step *)
(* each; that a loop that was quit returns is taken from pw_main_loop_run. *)
(* Whether a native call succeeds is open, taking the loop lock included.   *)
(***************************************************************************)
EXTENDS Naturals

CONSTANTS
    Owners,     \* goroutines that create and destroy
    Callers,    \* goroutines that call on a published stream
    Streams,    \* addresses of native streams
    Loops,      \* addresses of main loops
    nil

Threads == Owners \cup Callers

ASSUME DisjointAssumption ==
    /\ Owners \cap Callers = {} /\ Loops \cap Threads = {}
    /\ nil \notin Threads \cup Streams \cup Loops

VARIABLES
    \* fields of streamOpsImpl
    pinned,         \* streams whose callback storage is pinned
    pinnedParams,   \* streams whose parameters are pinned
    streamLoops,    \* streamLoops[s]: the main loop of s, or nil
    runningLoops,   \* main loops inside RunMainLoop
    \* native side
    stream,         \* stream[s]: "none", "new" or "connected"
    loop,           \* loop[l]: "none" or "created"
    run,            \* run[l]: where the goroutine running l is
    quit,           \* quit[l]
    lock,           \* lock[l]: who holds the loop's lock, l itself or nil
    \* goroutines
    pc,             \* pc[t]
    sp,             \* sp[t]: the stream t works on
    lp,             \* lp[o]: the main loop of owner o
    call,           \* call[t]: what t last called callStreamWithLoopLock for
    locked,         \* locked[t]: the call of t takes the loop lock
    stack,          \* stack[o]: streams whose storage is on the stack of o
    published       \* published[o]: callers may use sp[o]

tableVars == <<pinned, pinnedParams, streamLoops>>
nativeVars == <<stream, loop, quit>>
vars == <<tableVars, runningLoops, nativeVars, run, lock, pc, sp, lp, call, locked, stack,
          published>>

OwnerPcs == {"new_loop", "new_stream", "pin", "connect", "pin_params", "publish", "unpublish",
             "quit", "await", "unpin", "destroy", "destroy_loop"}
CallPcs == {"lookup", "lock", "call", "unlock"}
\* SetStreamControl or GetStreamControl of a caller; SetStreamActive of an owner, the
\* DisconnectStream after it failed, and that of the teardown.
Calls == {"control", "activate", "undo", "disconnect"}
RunPcs == {"none", "spawned", "marked", "polling", "dispatching", "left", "returned"}

Init ==
    /\ pinned = {} /\ pinnedParams = {} /\ streamLoops = [s \in Streams |-> nil]
    /\ runningLoops = {}
    /\ stream = [s \in Streams |-> "none"] /\ loop = [l \in Loops |-> "none"]
    /\ run = [l \in Loops |-> "none"] /\ quit = [l \in Loops |-> FALSE]
    /\ lock = [l \in Loops |-> nil]
    /\ pc = [t \in Threads |-> IF t \in Owners THEN "new_loop" ELSE "idle"]
    /\ sp = [t \in Threads |-> nil] /\ lp = [o \in Owners |-> nil]
    /\ call = [t \in Threads |-> IF t \in Owners THEN "activate" ELSE "control"]
    /\ locked = [t \in Threads |-> FALSE] /\ stack = [o \in Owners |-> {}]
    /\ published = [o \in Owners |-> FALSE]

Goto(t, next) == pc' = [pc EXCEPT ![t] = next]

\* What the steps of an owner leave alone unless they say otherwise.
Outside == UNCHANGED <<runningLoops, lock, locked>>
Elsewhere == Outside /\ UNCHANGED call

-----------------------------------------------------------------------------
(* CreateMainLoop, CreatePlaybackStream, ConnectPlaybackStream             *)

CreateMainLoop(o) ==
    /\ pc[o] = "new_loop"
    /\ \E l \in Loops :
          /\ loop[l] = "none"
          /\ loop' = [loop EXCEPT ![l] = "created"]
          /\ lp' = [lp EXCEPT ![o] = l]
          /\ run' = [run EXCEPT ![l] = "none"] /\ quit' = [quit EXCEPT ![l] = FALSE]
    /\ Goto(o, "new_stream")
    /\ UNCHANGED <<tableVars, stream, sp, stack, published>> /\ Elsewhere

\* Faulty variant: a nil stream is not refused.
NewStreamUnchecked(o) ==
    /\ pc[o] = "new_stream"
    /\ \/ \E s \in Streams :
             /\ stream[s] = "none"
             /\ stream' = [stream EXCEPT ![s] = "new"]
             /\ sp' = [sp EXCEPT ![o] = s]
             /\ stack' = [stack EXCEPT ![o] = {s}]
       \/ UNCHANGED <<stream, sp, stack>>
    /\ Goto(o, "pin")
    /\ UNCHANGED <<tableVars, loop, run, quit, lp, published>> /\ Elsewhere

\* pw_stream_new_simple; the storage is built before it.
NewStream(o) ==
    /\ pc[o] = "new_stream"
    /\ \/ \E s \in Streams :
             /\ stream[s] = "none"
             /\ stream' = [stream EXCEPT ![s] = "new"]
             /\ sp' = [sp EXCEPT ![o] = s]
             /\ stack' = [stack EXCEPT ![o] = {s}]
             /\ Goto(o, "pin")
       \/ Goto(o, "destroy_loop") /\ UNCHANGED <<stream, sp, stack>>
    /\ UNCHANGED <<tableVars, loop, run, quit, lp, published>> /\ Elsewhere

Pin(o) ==
    /\ pc[o] = "pin"
    /\ pinned' = pinned \cup {sp[o]}
    /\ streamLoops' = [streamLoops EXCEPT ![sp[o]] = lp[o]]
    /\ stack' = [stack EXCEPT ![o] = {}]
    /\ Goto(o, "connect")
    /\ UNCHANGED <<pinnedParams, nativeVars, run, sp, lp, published>> /\ Elsewhere

\* On failure the owner destroys the stream and the loop.
Connect(o) ==
    /\ pc[o] = "connect"
    /\ \/ stream' = [stream EXCEPT ![sp[o]] = "connected"] /\ Goto(o, "pin_params")
       \/ Goto(o, "unpin") /\ UNCHANGED stream
    /\ UNCHANGED <<tableVars, loop, quit, run, sp, lp, stack, published>> /\ Elsewhere

\* SetStreamActive follows.
PinParams(o) ==
    /\ pc[o] = "pin_params"
    /\ pinnedParams' = pinnedParams \cup {sp[o]}
    /\ call' = [call EXCEPT ![o] = "activate"] /\ Goto(o, "lookup")
    /\ UNCHANGED <<pinned, streamLoops, nativeVars, run, sp, lp, stack, published>> /\ Outside

-----------------------------------------------------------------------------
(* The owner publishes the stream and runs the loop, and takes them down.   *)

PublishAndSpawn(o) ==
    /\ pc[o] = "publish"
    /\ published' = [published EXCEPT ![o] = TRUE]
    /\ run' = [run EXCEPT ![lp[o]] = "spawned"]
    /\ Goto(o, "unpublish")
    /\ UNCHANGED <<tableVars, nativeVars, sp, lp, stack>> /\ Elsewhere

\* controlMu: the owner waits for the calls in flight and lets no more begin.
\* DisconnectStream follows.
Unpublish(o) ==
    /\ pc[o] = "unpublish"
    /\ \A c \in Callers : sp[c] # sp[o]
    /\ published' = [published EXCEPT ![o] = FALSE]
    /\ call' = [call EXCEPT ![o] = "disconnect"] /\ Goto(o, "lookup")
    /\ UNCHANGED <<tableVars, nativeVars, run, sp, lp, stack>> /\ Outside

QuitMainLoop(o) ==
    /\ pc[o] = "quit"
    /\ quit' = [quit EXCEPT ![lp[o]] = TRUE]
    /\ Goto(o, "await")
    /\ UNCHANGED <<tableVars, stream, loop, run, sp, lp, stack, published>> /\ Elsewhere

AwaitMainLoop(o) ==
    /\ pc[o] = "await" /\ run[lp[o]] = "returned"
    /\ Goto(o, "unpin")
    /\ UNCHANGED <<tableVars, nativeVars, run, sp, lp, stack, published>> /\ Elsewhere

\* Faulty variants: the storage is not kept on the stack meanwhile; the parameters
\* stay pinned.
UnpinAndForget(o) ==
    /\ pc[o] = "unpin"
    /\ pinned' = pinned \ {sp[o]} /\ pinnedParams' = pinnedParams \ {sp[o]}
    /\ streamLoops' = [streamLoops EXCEPT ![sp[o]] = nil]
    /\ Goto(o, "destroy")
    /\ UNCHANGED <<nativeVars, run, sp, lp, stack, published>> /\ Elsewhere
UnpinStorageOnly(o) ==
    /\ pc[o] = "unpin"
    /\ pinned' = pinned \ {sp[o]}
    /\ streamLoops' = [streamLoops EXCEPT ![sp[o]] = nil]
    /\ stack' = [stack EXCEPT ![o] = {sp[o]}]
    /\ Goto(o, "destroy")
    /\ UNCHANGED <<pinnedParams, nativeVars, run, sp, lp, published>> /\ Elsewhere

\* DestroyStream, first the maps, the storage being kept alive on the stack.
Unpin(o) ==
    /\ pc[o] = "unpin"
    /\ pinned' = pinned \ {sp[o]} /\ pinnedParams' = pinnedParams \ {sp[o]}
    /\ streamLoops' = [streamLoops EXCEPT ![sp[o]] = nil]
    /\ stack' = [stack EXCEPT ![o] = {sp[o]}]
    /\ Goto(o, "destroy")
    /\ UNCHANGED <<nativeVars, run, sp, lp, published>> /\ Elsewhere

\* And then pw_stream_destroy.
DestroyStream(o) ==
    /\ pc[o] = "destroy"
    /\ stream' = [stream EXCEPT ![sp[o]] = "none"]
    /\ stack' = [stack EXCEPT ![o] = {}]
    /\ sp' = [sp EXCEPT ![o] = nil]
    /\ Goto(o, "destroy_loop")
    /\ UNCHANGED <<tableVars, loop, quit, run, lp, published>> /\ Elsewhere

DestroyMainLoop(o) ==
    /\ pc[o] = "destroy_loop"
    /\ loop' = [loop EXCEPT ![lp[o]] = "none"]
    /\ lp' = [lp EXCEPT ![o] = nil]
    /\ Goto(o, "new_loop")
    /\ UNCHANGED <<tableVars, stream, quit, run, sp, stack, published>> /\ Elsewhere

-----------------------------------------------------------------------------
(* callStreamWithLoopLock                                                  *)

CallUnchanged == UNCHANGED <<tableVars, runningLoops, nativeVars, run, lp, stack, published>>

\* The caller has loaded the pointer while it was published.
BeginCall(c) ==
    /\ pc[c] = "idle"
    /\ \E o \in Owners : published[o] /\ sp' = [sp EXCEPT ![c] = sp[o]]
    /\ Goto(c, "lookup")
    /\ UNCHANGED <<lock, call, locked>> /\ CallUnchanged

Lookup(t) ==
    /\ pc[t] = "lookup"
    /\ LET running == streamLoops[sp[t]] \in runningLoops
       IN /\ locked' = [locked EXCEPT ![t] = running]
          /\ Goto(t, IF running THEN "lock" ELSE "call")
    /\ UNCHANGED <<lock, sp, call>> /\ CallUnchanged

\* pw_loop_lock.
Lock(t) ==
    /\ pc[t] = "lock" /\ lock[streamLoops[sp[t]]] = nil
    /\ lock' = [lock EXCEPT ![streamLoops[sp[t]]] = t]
    /\ Goto(t, "call")
    /\ UNCHANGED <<locked, sp, call>> /\ CallUnchanged

\* Where a call leads.  An owner whose stream is active publishes it; one that could
\* not activate it disconnects it first, with whatever result, and destroys both.
AfterCall(t, ok) ==
    CASE call[t] = "control" -> "idle"
      [] call[t] = "activate" -> IF ok THEN "publish" ELSE "lookup"
      [] call[t] = "undo" -> "unpin"
      [] call[t] = "disconnect" -> "quit"

Return(t, ok) ==
    /\ locked' = [locked EXCEPT ![t] = FALSE]
    /\ sp' = IF t \in Callers THEN [sp EXCEPT ![t] = nil] ELSE sp
    /\ call' = IF call[t] = "activate" /\ ~ok THEN [call EXCEPT ![t] = "undo"] ELSE call
    /\ Goto(t, AfterCall(t, ok))
    /\ CallUnchanged

\* pw_loop_lock fails: the call is not made.
LockFails(t) == pc[t] = "lock" /\ Return(t, FALSE) /\ UNCHANGED lock

\* Faulty variant: the lock is kept.
CallWithoutUnlock(t) ==
    /\ pc[t] = "call"
    /\ \E ok \in BOOLEAN : Return(t, ok)
    /\ UNCHANGED lock

\* The native call, and pw_loop_unlock if the lock was taken.  By LockOSThread the
\* thread that took it unlocks it; a result below 0 makes the call one that failed.
CallAndUnlock(t) ==
    /\ pc[t] = "call"
    /\ \E ok \in BOOLEAN : Return(t, ok)
    /\ lock' = [l \in Loops |-> IF lock[l] = t THEN nil ELSE lock[l]]

-----------------------------------------------------------------------------
(* RunMainLoop                                                             *)

RunUnchanged == UNCHANGED <<tableVars, nativeVars, pc, sp, lp, call, locked, stack, published>>

MarkRunning(l) ==
    /\ run[l] = "spawned"
    /\ runningLoops' = runningLoops \cup {l}
    /\ run' = [run EXCEPT ![l] = "marked"]
    /\ UNCHANGED lock /\ RunUnchanged

\* pw_main_loop_run holds the loop's lock while it dispatches, and returns after
\* a quit or an error.
EnterRun(l) ==
    /\ run[l] = "marked"
    /\ run' = [run EXCEPT ![l] = "polling"]
    /\ UNCHANGED <<lock, runningLoops>> /\ RunUnchanged

BeginDispatch(l) ==
    /\ run[l] = "polling" /\ lock[l] = nil
    /\ run' = [run EXCEPT ![l] = "dispatching"]
    /\ lock' = [lock EXCEPT ![l] = l]
    /\ UNCHANGED runningLoops /\ RunUnchanged

EndDispatch(l) ==
    /\ run[l] = "dispatching"
    /\ run' = [run EXCEPT ![l] = "polling"]
    /\ lock' = [lock EXCEPT ![l] = nil]
    /\ UNCHANGED runningLoops /\ RunUnchanged

LeaveRun(l) ==
    /\ run[l] = "polling"
    /\ run' = [run EXCEPT ![l] = "left"]
    /\ UNCHANGED <<lock, runningLoops>> /\ RunUnchanged

\* Faulty variant: the loop stays marked.
ReturnMarked(l) ==
    /\ run[l] = "left"
    /\ run' = [run EXCEPT ![l] = "returned"]
    /\ UNCHANGED <<lock, runningLoops>> /\ RunUnchanged

UnmarkRunning(l) ==
    /\ run[l] = "left"
    /\ runningLoops' = runningLoops \ {l}
    /\ run' = [run EXCEPT ![l] = "returned"]
    /\ UNCHANGED lock /\ RunUnchanged

-----------------------------------------------------------------------------

OwnerStep(o) ==
    \/ CreateMainLoop(o) \/ NewStream(o) \/ Pin(o) \/ Connect(o) \/ PinParams(o)
    \/ PublishAndSpawn(o) \/ Unpublish(o) \/ QuitMainLoop(o) \/ AwaitMainLoop(o)
    \/ Unpin(o) \/ DestroyStream(o) \/ DestroyMainLoop(o)

CallStep(t) == Lookup(t) \/ Lock(t) \/ LockFails(t) \/ CallAndUnlock(t)

RunStep(l) ==
    \/ MarkRunning(l) \/ EnterRun(l) \/ BeginDispatch(l) \/ EndDispatch(l) \/ LeaveRun(l)
    \/ UnmarkRunning(l)

Next ==
    \/ \E o \in Owners : OwnerStep(o)
    \/ \E c \in Callers : BeginCall(c)
    \/ \E t \in Threads : CallStep(t)
    \/ \E l \in Loops : RunStep(l)

Spec == Init /\ [][Next]_vars

\* Goroutines are scheduled, a lock is handed over in the end (that taking it fails is
\* not relied on), and a loop that was quit stops dispatching and returns.
Fairness ==
    /\ \A t \in Threads : WF_vars(Lookup(t) \/ CallAndUnlock(t)) /\ SF_vars(Lock(t))
    /\ \A l \in Loops :
          /\ WF_vars(MarkRunning(l) \/ EnterRun(l) \/ EndDispatch(l) \/ UnmarkRunning(l))
          /\ SF_vars(quit[l] /\ LeaveRun(l))

FairSpec == Spec /\ Fairness

-----------------------------------------------------------------------------
(* Properties.                                                             *)

\* Every variable stays in its domain.
TypeOK ==
    /\ pinned \in SUBSET Streams /\ pinnedParams \in SUBSET Streams
    /\ streamLoops \in [Streams -> Loops \cup {nil}] /\ runningLoops \in SUBSET Loops
    /\ stream \in [Streams -> {"none", "new", "connected"}]
    /\ loop \in [Loops -> {"none", "created"}] /\ run \in [Loops -> RunPcs]
    /\ quit \in [Loops -> BOOLEAN] /\ lock \in [Loops -> Threads \cup Loops \cup {nil}]
    /\ pc \in [Threads -> OwnerPcs \cup CallPcs \cup {"idle"}]
    /\ sp \in [Threads -> Streams \cup {nil}] /\ lp \in [Owners -> Loops \cup {nil}]
    /\ call \in [Threads -> Calls] /\ locked \in [Threads -> BOOLEAN]
    /\ stack \in [Owners -> SUBSET Streams] /\ published \in [Owners -> BOOLEAN]

\* "It keeps Go callback closures alive so PipeWire can call them safely": from
\* pw_stream_new_simple to the return of pw_stream_destroy the storage is pinned
\* or on a stack, also when the address is used again meanwhile.
StorageAlive ==
    \A s \in Streams : stream[s] # "none" =>
        s \in pinned \/ \E o \in Owners : s \in stack[o]

\* The maps "must be cleaned up in DestroyStream": nothing is kept for an address
\* without a stream, and no other loop is noted for one that has another stream.
NothingLeft ==
    /\ \A s \in pinned \cup pinnedParams : stream[s] # "none"
    /\ \A s \in Streams : streamLoops[s] # nil =>
          \E o \in Owners : sp[o] = s /\ lp[o] = streamLoops[s] /\ s \in pinned

\* A loop is marked from before pw_main_loop_run until after it, and not longer:
\* a loop at the same address is not taken for it.
MarkedWhileRunning ==
    \A l \in Loops :
        /\ run[l] \in {"marked", "polling", "dispatching", "left"} <=> l \in runningLoops
        /\ loop[l] = "none" => l \notin runningLoops /\ lock[l] = nil

\* Every call on a stream that was published comes to its end.
CallsEnd == \A c \in Callers : pc[c] # "idle" ~> pc[c] = "idle"

-----------------------------------------------------------------------------
(* What the comments say and the code does not do.                         *)

\* "GetStreamControl copies a control under the owning loop lock": no call works
\* on a stream while its loop dispatches.
CallsExcludeDispatch ==
    \A c \in Callers : pc[c] = "call" =>
        run[streamLoops[sp[c]]] # "dispatching"

=============================================================================
