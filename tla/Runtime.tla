------------------------------ MODULE Runtime ------------------------------
(***************************************************************************)
(* internal/core/runtime.go: the count of those who use the PipeWire       *)
(* library, shared by all Runtimes and by the players' ensureRuntime       *)
(* (player.go), with the once-only loading of the library                  *)
(* (capi/register.go) and the handles made from a Runtime: loops, contexts *)
(* and cores (loop.go, context.go, core.go).                               *)
(*                                                                         *)
(* Any goroutine calls Init and Deinit of any Runtime, and Start of any    *)
(* player.  A critical section of pipewireMu or of a player's mu is one    *)
(* action; the mu of a Runtime is held across actions.                     *)
(*                                                                         *)
(* Applications keep the order the documentation asks for: a handle is     *)
(* made while its Runtime is initialized and destroyed before what it was  *)
(* made from.  Addresses of native objects are used again.                 *)
(***************************************************************************)
EXTENDS Naturals, FiniteSets

CONSTANTS
    Threads,
    Runtimes,
    Players,
    Apis,           \* implementations of the CAPI
    default,        \* the one capi.Default returns
    ApiOf,          \* ApiOf[r]: the one Runtime r was made with
    Handles,        \* the Go values Loop, Context and Core
    Addrs,          \* addresses of native objects
    nil

ASSUME ApisAssumption == default \in Apis /\ ApiOf \in [Runtimes -> Apis] /\ nil \notin Apis
ASSUME UsersAssumption ==
    /\ IsFiniteSet(Runtimes) /\ IsFiniteSet(Players) /\ IsFiniteSet(Threads)
    /\ nil \notin Threads /\ Runtimes \cap (Players \X Threads) = {}
    /\ Runtimes \cap Players = {}
Kinds == {"loop", "context", "core"}
ASSUME HandlesAssumption ==
    nil \notin Addrs \cup Handles \cup Kinds /\ Handles \cap Runtimes = {}

VARIABLES
    pipewireRefCnt,
    pipewireCAPI,
    up,             \* the implementations whose pw_init is not undone
    registered,     \* what Register found: "no" before it was called
    initialized,    \* initialized[r]
    mu,             \* mu[r]: the thread that holds it, or nil
    streamOps,      \* the players whose streamOps is set
    pc, on,         \* where a thread is, and in a call on what
    uses,           \* history: <<p, t>> when t counted a use for player p
    handle,         \* handle[h]: its kind, ptr, and what it was made from
    native          \* native[a]: the kind of the object at a, or nil

libraryVars == <<pipewireRefCnt, pipewireCAPI, up>>
callVars == <<registered, initialized, mu, streamOps, pc, on, uses>>
handleVars == <<handle, native>>
vars == <<libraryVars, callVars, handleVars>>

Unused == [kind |-> "none", ptr |-> nil, from |-> nil]

Init ==
    /\ pipewireRefCnt = 0 /\ pipewireCAPI = nil /\ up = {}
    /\ registered = "no"
    /\ initialized = [r \in Runtimes |-> FALSE] /\ mu = [r \in Runtimes |-> nil]
    /\ streamOps = {} /\ uses = {}
    /\ pc = [t \in Threads |-> "idle"] /\ on = [t \in Threads |-> nil]
    /\ handle = [h \in Handles |-> Unused] /\ native = [a \in Addrs |-> nil]

Open(h) == handle[h].ptr # nil

\* A thread goes on, inside its call or out of it.
Goto(t, place) == pc' = [pc EXCEPT ![t] = place] /\ UNCHANGED on
Return(t) == pc' = [pc EXCEPT ![t] = "idle"] /\ on' = [on EXCEPT ![t] = nil]
Enter(t, place, x) ==
    pc[t] = "idle" /\ pc' = [pc EXCEPT ![t] = place] /\ on' = [on EXCEPT ![t] = x]

-----------------------------------------------------------------------------
(* Calls                                                                   *)

\* pipewire.Init, which makes the Runtime, and a later Init of the Runtime.
\* Only Runtimes with the default CAPI are made through the public package.
CallInit(t, r) ==
    /\ \/ ApiOf[r] = default /\ Enter(t, "register", r)
       \/ (ApiOf[r] # default \/ registered = "ok") /\ Enter(t, "lock", r)
    /\ UNCHANGED <<libraryVars, handleVars, registered, initialized, mu, streamOps, uses>>

\* ensureRuntime of a player that has no streamOps yet.
ensureRuntime(t, p) ==
    /\ p \notin streamOps
    /\ Enter(t, "register", p)
    /\ UNCHANGED <<libraryVars, handleVars, registered, initialized, mu, streamOps, uses>>

\* Once loads the library; its error is kept for every later call.
Register(t) ==
    /\ pc[t] = "register"
    /\ IF registered = "no" THEN registered' \in {"ok", "failed"} ELSE UNCHANGED registered
    /\ IF registered' = "failed" THEN Return(t)
       ELSE Goto(t, IF on[t] \in Runtimes THEN "lock" ELSE "init")
    /\ UNCHANGED <<libraryVars, handleVars, initialized, mu, streamOps, uses>>

\* Runtime.Init
LockInit(t) ==
    /\ pc[t] = "lock" /\ mu[on[t]] = nil
    /\ IF initialized[on[t]]
       THEN Return(t) /\ UNCHANGED mu
       ELSE mu' = [mu EXCEPT ![on[t]] = t] /\ Goto(t, "init")
    /\ UNCHANGED <<libraryVars, handleVars, registered, initialized, streamOps, uses>>

Unlocked(t) == [r \in Runtimes |-> IF r = on[t] THEN nil ELSE mu[r]]

Capi(x) == IF x \in Runtimes THEN ApiOf[x] ELSE default

\* Faulty variant: only the first user is counted.
initPipeWireOnce(t) ==
    /\ pc[t] = "init"
    /\ LET capi == Capi(on[t])
       IN IF pipewireRefCnt > 0 /\ pipewireCAPI # nil /\ capi # pipewireCAPI
          THEN Return(t) /\ mu' = Unlocked(t) /\ UNCHANGED <<libraryVars, uses>>
          ELSE /\ pipewireRefCnt' = 1
               /\ IF pipewireRefCnt = 0
                  THEN pipewireCAPI' = capi /\ up' = up \cup {capi}
                  ELSE UNCHANGED <<pipewireCAPI, up>>
               /\ uses' = IF on[t] \in Players THEN uses \cup {<<on[t], t>>} ELSE uses
               /\ Goto(t, "counted") /\ UNCHANGED mu
    /\ UNCHANGED <<handleVars, registered, initialized, streamOps>>

initPipeWire(t) ==
    /\ pc[t] = "init"
    /\ LET capi == Capi(on[t])
       IN IF pipewireRefCnt > 0 /\ pipewireCAPI # nil /\ capi # pipewireCAPI
          THEN Return(t) /\ mu' = Unlocked(t) /\ UNCHANGED <<libraryVars, uses>>
          ELSE /\ pipewireRefCnt' = pipewireRefCnt + 1
               /\ IF pipewireRefCnt = 0
                  THEN pipewireCAPI' = capi /\ up' = up \cup {capi}
                  ELSE UNCHANGED <<pipewireCAPI, up>>
               /\ uses' = IF on[t] \in Players THEN uses \cup {<<on[t], t>>} ELSE uses
               /\ Goto(t, "counted") /\ UNCHANGED mu
    /\ UNCHANGED <<handleVars, registered, initialized, streamOps>>

\* Runtime.Init returns.
SetInitialized(t) ==
    /\ pc[t] = "counted" /\ on[t] \in Runtimes
    /\ initialized' = [initialized EXCEPT ![on[t]] = TRUE]
    /\ mu' = Unlocked(t) /\ Return(t)
    /\ UNCHANGED <<libraryVars, handleVars, registered, streamOps, uses>>

\* ensureRuntime returns: the first of two concurrent calls sets streamOps, and
\* both have counted.
SetStreamOps(t) ==
    /\ pc[t] = "counted" /\ on[t] \in Players
    /\ streamOps' = streamOps \cup {on[t]}
    /\ Return(t)
    /\ UNCHANGED <<libraryVars, handleVars, registered, initialized, mu, uses>>

\* "Contexts created on it must be destroyed first", and so on up to the Runtime.
NothingMadeFrom(x) == \A h \in Handles : Open(h) => handle[h].from # x

\* Faulty variant: the Runtime stays initialized.
DeinitAgain(t, r) ==
    /\ mu[r] = nil /\ NothingMadeFrom(r)
    /\ initialized[r]
    /\ Enter(t, "deinit", r)
    /\ mu' = [mu EXCEPT ![r] = t]
    /\ UNCHANGED <<libraryVars, handleVars, registered, initialized, streamOps, uses>>

\* Deinit of a Runtime that is not initialized has no effect.
Deinit(t, r) ==
    /\ mu[r] = nil /\ NothingMadeFrom(r)
    /\ initialized[r]
    /\ Enter(t, "deinit", r)
    /\ initialized' = [initialized EXCEPT ![r] = FALSE]
    /\ mu' = [mu EXCEPT ![r] = t]
    /\ UNCHANGED <<libraryVars, handleVars, registered, streamOps, uses>>

deinitPipeWire(t) ==
    /\ pc[t] = "deinit"
    /\ IF pipewireRefCnt = 0
       THEN UNCHANGED libraryVars
       ELSE /\ pipewireRefCnt' = pipewireRefCnt - 1
            /\ IF pipewireRefCnt = 1
               THEN pipewireCAPI' = nil /\ up' = up \ {pipewireCAPI}
               ELSE UNCHANGED <<pipewireCAPI, up>>
    /\ mu' = Unlocked(t) /\ Return(t)
    /\ UNCHANGED <<handleVars, registered, initialized, streamOps, uses>>

-----------------------------------------------------------------------------
(* Handles.  A failing native operation leaves no handle.                  *)

New(h, kind, from) ==
    \E a \in Addrs :
        /\ native[a] = nil /\ ~Open(h)
        /\ native' = [native EXCEPT ![a] = kind]
        /\ handle' = [handle EXCEPT ![h] = [kind |-> kind, ptr |-> a, from |-> from]]
        /\ UNCHANGED <<libraryVars, callVars>>

NewLoop(r, h) == initialized[r] /\ New(h, "loop", r)

\* A context or core is refused by a handle that was destroyed.
NewContext(loop, h) == handle[loop].kind = "loop" /\ Open(loop) /\ New(h, "context", loop)
Connect(context, h) == handle[context].kind = "context" /\ Open(context) /\ New(h, "core", context)

\* Faulty variant: the handle keeps its pointer.
DestroyKeepsPtr(h) ==
    /\ Open(h) /\ NothingMadeFrom(h)
    /\ native' = [native EXCEPT ![handle[h].ptr] = nil]
    /\ UNCHANGED <<libraryVars, callVars, handle>>

\* Destroy of a loop or context, Disconnect of a core, any number of times.
Destroy(h) ==
    /\ Open(h) /\ NothingMadeFrom(h)
    /\ native' = [native EXCEPT ![handle[h].ptr] = nil]
    /\ handle' = [handle EXCEPT ![h].ptr = nil]
    /\ UNCHANGED <<libraryVars, callVars>>

-----------------------------------------------------------------------------

Call(t) ==
    \/ \E r \in Runtimes : CallInit(t, r) \/ Deinit(t, r)
    \/ \E p \in Players : ensureRuntime(t, p)
    \/ Register(t) \/ LockInit(t) \/ initPipeWire(t) \/ SetInitialized(t)
    \/ SetStreamOps(t) \/ deinitPipeWire(t)

UseHandle(h) ==
    \/ \E r \in Runtimes : NewLoop(r, h)
    \/ \E from \in Handles : NewContext(from, h) \/ Connect(from, h)
    \/ Destroy(h)

Next == (\E t \in Threads : Call(t)) \/ (\E h \in Handles : UseHandle(h))

Spec == Init /\ [][Next]_vars

-----------------------------------------------------------------------------
(* Properties.                                                             *)

\* Every variable stays in its domain.
TypeOK ==
    /\ pipewireRefCnt \in Nat /\ pipewireCAPI \in Apis \cup {nil} /\ up \subseteq Apis
    /\ registered \in {"no", "ok", "failed"}
    /\ initialized \in [Runtimes -> BOOLEAN] /\ mu \in [Runtimes -> Threads \cup {nil}]
    /\ streamOps \subseteq Players /\ uses \subseteq Players \X Threads
    /\ pc \in [Threads -> {"idle", "register", "lock", "init", "counted", "deinit"}]
    /\ on \in [Threads -> Runtimes \cup Players \cup {nil}]
    /\ handle \in [Handles -> [kind : Kinds \cup {"none"}, ptr : Addrs \cup {nil},
                               from : Runtimes \cup Handles \cup {nil}]]
    /\ native \in [Addrs -> Kinds \cup {nil}]

\* Those the count stands for: the Runtimes that are initialized, or on the way
\* into or out of it, and the uses of players, who keep them.
Counted(r) ==
    \/ initialized[r]
    \/ \E t \in Threads : mu[r] = t /\ pc[t] \in {"counted", "deinit"}
Users == {r \in Runtimes : Counted(r)} \cup uses

\* The count is exact, whoever calls Init, Deinit and Start at once and however
\* often: no use is lost, and none is given back twice.
CountExact == pipewireRefCnt = Cardinality(Users)

\* The library is initialised once while there is a user, for the CAPI of every
\* user, and not when there is none: nobody's Deinit, first, last or repeated,
\* takes it from another Runtime or from a player that was started, and the
\* native objects of a Runtime exist only while it is there.
UpWhileUsed ==
    /\ up = IF pipewireCAPI = nil THEN {} ELSE {pipewireCAPI}
    /\ \A r \in Runtimes : initialized[r] => ApiOf[r] \in up
    /\ streamOps # {} => default \in up
    /\ up # {} => Users # {}
    /\ (\E a \in Addrs : native[a] # nil) => up # {}

\* A handle that was not destroyed has a native object of its kind for itself,
\* made from one that still exists, and no other object exists: a repeated
\* Destroy ("Destroy is idempotent") does not reach a later object that got the
\* address.
HandlesOwn ==
    /\ \A h \in Handles : Open(h) =>
          /\ native[handle[h].ptr] = handle[h].kind
          /\ handle[h].from \in Runtimes => initialized[handle[h].from]
          /\ handle[h].from \in Handles => Open(handle[h].from)
    /\ \A h, g \in Handles : Open(h) /\ handle[h].ptr = handle[g].ptr => h = g
    /\ \A a \in Addrs : native[a] # nil => \E h \in Handles : handle[h].ptr = a

=============================================================================
