---------------------------- MODULE RuntimeProofs ----------------------------
(***************************************************************************)
(* Theorems about Runtime for any number of threads, Runtimes, players,    *)
(* CAPIs, handles and addresses.                                           *)
(***************************************************************************)
EXTENDS Runtime, FiniteSetTheorems, TLAPS

-----------------------------------------------------------------------------
(* Type correctness.                                                       *)

\* Init and Deinit of Runtimes and Start of players keep every variable typed.
LEMMA CallType ==
    ASSUME TypeOK, NEW t \in Threads, Call(t) PROVE TypeOK'
<1> USE DEF TypeOK, libraryVars, handleVars
<1>1. ASSUME NEW r \in Runtimes, CallInit(t, r) PROVE TypeOK'
  BY <1>1 DEF CallInit, Enter
<1>2. ASSUME NEW r \in Runtimes, Deinit(t, r) PROVE TypeOK'
  BY <1>2 DEF Deinit, Enter
<1>3. ASSUME NEW p \in Players, ensureRuntime(t, p) PROVE TypeOK'
  BY <1>3 DEF ensureRuntime, Enter
<1>4. CASE Register(t) BY <1>4 DEF Register, Goto, Return
<1>5. CASE LockInit(t) BY <1>5 DEF LockInit, Goto, Return
<1>6. Unlocked(t) \in [Runtimes -> Threads \cup {nil}] BY DEF Unlocked
<1>7. CASE initPipeWire(t)
  <2>1. pc[t] = "init" /\ Capi(on[t]) \in Apis BY <1>7, ApisAssumption DEF initPipeWire, Capi
  <2>2. uses' \subseteq Players \X Threads BY <1>7 DEF initPipeWire
  <2>3. pipewireRefCnt' \in Nat /\ pipewireCAPI' \in Apis \cup {nil} /\ up' \subseteq Apis
    BY <1>7, <2>1 DEF initPipeWire
  <2>4. /\ pc' \in [Threads -> {"idle", "register", "lock", "init", "counted", "deinit"}]
        /\ on' \in [Threads -> Runtimes \cup Players \cup {nil}]
    BY <1>7 DEF initPipeWire, Goto, Return
  <2>5. mu' \in [Runtimes -> Threads \cup {nil}] BY <1>6, <1>7 DEF initPipeWire
  <2> QED BY <1>7, <2>2, <2>3, <2>4, <2>5 DEF initPipeWire
<1>8. CASE SetInitialized(t) BY <1>6, <1>8 DEF SetInitialized, Return
<1>9. CASE SetStreamOps(t) BY <1>9 DEF SetStreamOps, Return
<1>10. CASE deinitPipeWire(t)
  <2>1. pipewireRefCnt' \in Nat /\ pipewireCAPI' \in Apis \cup {nil} /\ up' \subseteq Apis
    BY <1>10 DEF deinitPipeWire
  <2> QED BY <1>6, <1>10, <2>1 DEF deinitPipeWire, Return
<1> QED BY <1>1, <1>2, <1>3, <1>4, <1>5, <1>7, <1>8, <1>9, <1>10 DEF Call

\* A handle made keeps every variable typed, and so does one destroyed.
LEMMA NewType ==
    ASSUME TypeOK, NEW h \in Handles, NEW kind \in Kinds, NEW from \in Runtimes \cup Handles,
           New(h, kind, from)
    PROVE  TypeOK'
BY DEF TypeOK, New, libraryVars, callVars
LEMMA HandleType ==
    ASSUME TypeOK, NEW h \in Handles, UseHandle(h) PROVE TypeOK'
<1>1. ASSUME NEW r \in Runtimes, NewLoop(r, h) PROVE TypeOK'
  BY <1>1, NewType DEF NewLoop, Kinds
<1>2. ASSUME NEW from \in Handles, NewContext(from, h) \/ Connect(from, h) PROVE TypeOK'
  BY <1>2, NewType DEF NewContext, Connect, Kinds
<1>3. CASE Destroy(h) BY <1>3 DEF Destroy, TypeOK, libraryVars, callVars
<1> QED BY <1>1, <1>2, <1>3 DEF UseHandle

LEMMA InitType == Init => TypeOK
<1> SUFFICES ASSUME Init PROVE TypeOK
  OBVIOUS
<1>1. handle \in [Handles -> [kind : Kinds \cup {"none"}, ptr : Addrs \cup {nil},
                              from : Runtimes \cup Handles \cup {nil}]]
  BY DEF Init, Unused
<1> QED BY <1>1 DEF Init, TypeOK

LEMMA NextType == TypeOK /\ [Next]_vars => TypeOK'
<1> SUFFICES ASSUME TypeOK, [Next]_vars PROVE TypeOK'
  OBVIOUS
<1>1. CASE UNCHANGED vars
  BY <1>1 DEF vars, TypeOK, libraryVars, callVars, handleVars
<1> QED BY <1>1, CallType, HandleType DEF Next

\* Every variable of the Runtimes, of the calls on them, of the handles and of
\* the library stays in its domain.
THEOREM TypeCorrect == Spec => []TypeOK
BY InitType, NextType, PTL DEF Spec

-----------------------------------------------------------------------------
(* Where the threads are.  A thread holds the mu of the Runtime it is      *)
(* initializing or deinitializing, and nothing else; that Runtime is not   *)
(* initialized.                                                            *)

Holding == {"init", "counted", "deinit"}

Places ==
    /\ \A t \in Threads : pc[t] # "idle" => on[t] \in Runtimes \cup Players
    /\ \A t \in Threads : pc[t] \in {"lock", "deinit"} => on[t] \in Runtimes
    /\ \A t \in Threads, r \in Runtimes : mu[r] = t <=> pc[t] \in Holding /\ on[t] = r
    /\ \A t \in Threads, r \in Runtimes : mu[r] = t => ~initialized[r]

LEMMA CallPlaces ==
    ASSUME TypeOK, Places, NEW t \in Threads, Call(t) PROVE Places'
<1> USE UsersAssumption DEF TypeOK, Places, Holding
<1>1. ASSUME NEW r \in Runtimes, CallInit(t, r) PROVE Places'
  BY <1>1 DEF CallInit, Enter
<1>2. ASSUME NEW r \in Runtimes, Deinit(t, r) PROVE Places'
  BY <1>2 DEF Deinit, Enter
<1>3. ASSUME NEW p \in Players, ensureRuntime(t, p) PROVE Places'
  BY <1>3 DEF ensureRuntime, Enter
<1>4. CASE Register(t) BY <1>4 DEF Register, Goto, Return
<1>5. CASE LockInit(t) BY <1>5 DEF LockInit, Goto, Return
<1>6. CASE initPipeWire(t) BY <1>6 DEF initPipeWire, Goto, Return, Unlocked
<1>7. CASE SetInitialized(t) BY <1>7 DEF SetInitialized, Return, Unlocked
<1>8. CASE SetStreamOps(t) BY <1>8 DEF SetStreamOps, Return
<1>9. CASE deinitPipeWire(t) BY <1>9 DEF deinitPipeWire, Return, Unlocked
<1> QED BY <1>1, <1>2, <1>3, <1>4, <1>5, <1>6, <1>7, <1>8, <1>9 DEF Call

\* Only calls touch what Places is about.
LEMMA HandleCalls ==
    ASSUME NEW h \in Handles, UseHandle(h) PROVE UNCHANGED <<libraryVars, callVars>>
BY DEF UseHandle, NewLoop, NewContext, Connect, New, Destroy

LEMMA InitPlaces == Init => Places
BY UsersAssumption DEF Init, Places, Holding

LEMMA NextPlaces == TypeOK /\ Places /\ [Next]_vars => Places'
<1> SUFFICES ASSUME TypeOK, Places, [Next]_vars PROVE Places'
  OBVIOUS
<1>1. ASSUME UNCHANGED callVars PROVE Places'
  BY <1>1 DEF Places, callVars
<1>2. CASE UNCHANGED vars BY <1>1, <1>2 DEF vars
<1> QED BY <1>1, <1>2, CallPlaces, HandleCalls DEF Next

-----------------------------------------------------------------------------
(* The uses players have of the library: a thread counts one on the way    *)
(* through ensureRuntime, and the player keeps it.                         *)

UsesInv ==
    /\ \A p \in Players, t \in Threads :
          <<p, t>> \in uses => p \in streamOps \/ (pc[t] = "counted" /\ on[t] = p)
    /\ \A t \in Threads : on[t] \in Players =>
          /\ pc[t] \in {"register", "init"} => <<on[t], t>> \notin uses
          /\ pc[t] = "counted" => <<on[t], t>> \in uses
    /\ streamOps # {} => uses # {}

LEMMA CallUses ==
    ASSUME TypeOK, Places, UsesInv, NEW t \in Threads, Call(t) PROVE UsesInv'
<1> USE UsersAssumption DEF TypeOK, UsesInv
<1>1. ASSUME NEW r \in Runtimes, CallInit(t, r) PROVE UsesInv'
  BY <1>1 DEF CallInit, Enter
<1>2. ASSUME NEW r \in Runtimes, Deinit(t, r) PROVE UsesInv'
  BY <1>2 DEF Deinit, Enter
<1>3. ASSUME NEW p \in Players, ensureRuntime(t, p) PROVE UsesInv'
  BY <1>3 DEF ensureRuntime, Enter
<1>4. CASE Register(t) BY <1>4 DEF Register, Goto, Return
<1>5. CASE LockInit(t) BY <1>5 DEF LockInit, Goto, Return, Places
<1>6. CASE initPipeWire(t)
  <2>1. CASE UNCHANGED uses BY <1>6, <2>1 DEF initPipeWire, Goto, Return, Places
  <2>2. CASE uses' # uses
    <3>1. on[t] \in Players /\ uses' = uses \cup {<<on[t], t>>} /\ Goto(t, "counted")
      BY <1>6, <2>2 DEF initPipeWire
    <3> QED BY <1>6, <3>1 DEF initPipeWire, Goto
  <2> QED BY <2>1, <2>2
<1>7. CASE SetInitialized(t) BY <1>7 DEF SetInitialized, Return
<1>8. CASE SetStreamOps(t) BY <1>8 DEF SetStreamOps, Return
<1>9. CASE deinitPipeWire(t) BY <1>9 DEF deinitPipeWire, Return, Places
<1> QED BY <1>1, <1>2, <1>3, <1>4, <1>5, <1>6, <1>7, <1>8, <1>9 DEF Call

LEMMA InitUses == Init => UsesInv
BY DEF Init, UsesInv

LEMMA NextUses == TypeOK /\ Places /\ UsesInv /\ [Next]_vars => UsesInv'
<1> SUFFICES ASSUME TypeOK, Places, UsesInv, [Next]_vars PROVE UsesInv'
  OBVIOUS
<1>1. ASSUME UNCHANGED callVars PROVE UsesInv'
  BY <1>1 DEF UsesInv, callVars
<1>2. CASE UNCHANGED vars BY <1>1, <1>2 DEF vars
<1> QED BY <1>1, <1>2, CallUses, HandleCalls DEF Next

-----------------------------------------------------------------------------
(* The count.  A step leaves the users alone, adds one to them or takes    *)
(* one away, and the count follows.  While there are users, all of them    *)
(* use the CAPI that is up.                                                *)

CountInv == IsFiniteSet(Users) /\ CountExact

OneCapi ==
    /\ pipewireRefCnt = 0 <=> pipewireCAPI = nil
    /\ up = IF pipewireCAPI = nil THEN {} ELSE {pipewireCAPI}
    /\ \A x \in Users : Capi(x) = pipewireCAPI

\* What a call does to the users, and to the library for them.
SameUsers == UNCHANGED libraryVars /\ Users' = Users
UserAdded(x) ==
    /\ pipewireRefCnt' = pipewireRefCnt + 1
    /\ x \notin Users /\ Users' = Users \cup {x}
    /\ IF pipewireRefCnt = 0
       THEN pipewireCAPI' = Capi(x) /\ up' = up \cup {Capi(x)}
       ELSE UNCHANGED <<pipewireCAPI, up>> /\ pipewireCAPI \in {nil, Capi(x)}
UserGone(x) ==
    /\ pipewireRefCnt' = pipewireRefCnt - 1
    /\ x \in Users /\ Users' = Users \ {x}
    /\ IF pipewireRefCnt = 1
       THEN pipewireCAPI' = nil /\ up' = up \ {pipewireCAPI}
       ELSE UNCHANGED <<pipewireCAPI, up>>

LEMMA CountFollows ==
    ASSUME CountInv, SameUsers \/ (\E x : UserAdded(x) \/ UserGone(x)) PROVE CountInv'
<1>1. CASE SameUsers BY <1>1 DEF SameUsers, CountInv, CountExact, libraryVars
<1>2. ASSUME NEW x, UserAdded(x) PROVE CountInv'
  BY <1>2, FS_AddElement DEF UserAdded, CountInv, CountExact
<1>3. ASSUME NEW x, UserGone(x) PROVE CountInv'
  BY <1>3, FS_RemoveElement DEF UserGone, CountInv, CountExact
<1> QED BY <1>1, <1>2, <1>3

\* The count is zero exactly when nobody is counted.
LEMMA CountZero == CountInv => (pipewireRefCnt = 0 <=> Users = {})
BY FS_EmptySet DEF CountInv, CountExact

LEMMA CallUsers ==
    ASSUME TypeOK, Places, UsesInv, CountInv, NEW t \in Threads, Call(t)
    PROVE  SameUsers \/ (\E x : UserAdded(x) \/ UserGone(x))
<1> USE UsersAssumption DEF TypeOK
<1> DEFINE SameCounted == \A r \in Runtimes : Counted(r)' = Counted(r)
<1>0. ASSUME SameCounted, UNCHANGED <<libraryVars, uses>> PROVE SameUsers
  BY <1>0 DEF SameUsers, Users
<1>1. ASSUME NEW r \in Runtimes, CallInit(t, r) PROVE SameUsers
  BY <1>0, <1>1 DEF CallInit, Enter, Counted, Places, Holding, libraryVars
<1>2. ASSUME NEW r \in Runtimes, Deinit(t, r) PROVE SameUsers
  BY <1>0, <1>2 DEF Deinit, Enter, Counted, Places, Holding, libraryVars
<1>3. ASSUME NEW p \in Players, ensureRuntime(t, p) PROVE SameUsers
  BY <1>0, <1>3 DEF ensureRuntime, Enter, Counted, Places, Holding, libraryVars
<1>4. CASE Register(t)
  BY <1>0, <1>4 DEF Register, Goto, Return, Counted, Places, Holding, libraryVars
<1>5. CASE LockInit(t)
  BY <1>0, <1>5 DEF LockInit, Goto, Return, Counted, Places, Holding, libraryVars
<1>6. CASE initPipeWire(t)
  <2>0. pc[t] = "init" /\ (Goto(t, "counted") => ~Return(t))
    BY <1>6 DEF initPipeWire, Goto, Return
  <2>1. CASE Return(t) /\ UNCHANGED <<libraryVars, uses>>
    BY <1>0, <1>6, <2>1 DEF initPipeWire, Return, Unlocked, Counted, Places, Holding, libraryVars
  <2>2. CASE Goto(t, "counted") /\ on[t] \in Players
    <3>1. /\ uses' = uses \cup {<<on[t], t>>}
          /\ UNCHANGED <<initialized, mu>>
          /\ <<on[t], t>> \notin uses
      BY <1>6, <2>2 DEF initPipeWire, UsesInv, Goto, Return
    <3>2. SameCounted
      BY <1>6, <2>2, <3>1 DEF initPipeWire, Goto, Counted, Places, Holding
    <3>3. <<on[t], t>> \notin Runtimes /\ Capi(on[t]) = Capi(<<on[t], t>>)
      BY <2>2 DEF Capi
    <3>4. <<on[t], t>> \notin Users /\ Users' = Users \cup {<<on[t], t>>}
      <4> HIDE DEF TypeOK
      <4>1. {r \in Runtimes : Counted(r)'} = {r \in Runtimes : Counted(r)} BY <3>2
      <4> QED BY <3>1, <3>3, <4>1 DEF Users
    <3> QED BY <1>6, <2>0, <2>2, <3>3, <3>4 DEF UserAdded, initPipeWire
  <2>3. CASE Goto(t, "counted") /\ on[t] \in Runtimes
    <3>1. UNCHANGED <<uses, initialized, mu>>
      BY <1>6, <2>3 DEF initPipeWire, Goto, Return
    <3>2. \A r \in Runtimes : Counted(r)' <=> Counted(r) \/ r = on[t]
      BY <1>6, <2>3, <3>1 DEF initPipeWire, Goto, Counted, Places, Holding
    <3>3. ~Counted(on[t]) BY <1>6, <2>3 DEF initPipeWire, Counted, Places, Holding
    <3>4. on[t] \notin Users /\ Users' = Users \cup {on[t]}
      BY <2>3, <3>1, <3>2, <3>3 DEF Users
    <3> QED BY <1>6, <2>0, <2>3, <3>4 DEF UserAdded, initPipeWire
  <2> QED BY <1>6, <2>1, <2>2, <2>3 DEF initPipeWire, Places
<1>7. CASE SetInitialized(t)
  BY <1>0, <1>7 DEF SetInitialized, Return, Unlocked, Counted, Places, Holding, libraryVars
<1>8. CASE SetStreamOps(t)
  BY <1>0, <1>8 DEF SetStreamOps, Return, Counted, Places, Holding, libraryVars
<1>9. CASE deinitPipeWire(t)
  <2>1. on[t] \in Runtimes /\ mu[on[t]] = t /\ ~initialized[on[t]]
    BY <1>9 DEF deinitPipeWire, Places, Holding
  <2>2. Counted(on[t]) BY <1>9, <2>1 DEF deinitPipeWire, Counted
  <2>3. \A r \in Runtimes : Counted(r)' <=> Counted(r) /\ r # on[t]
    BY <1>9, <2>1 DEF deinitPipeWire, Return, Unlocked, Counted, Places, Holding
  <2>4. on[t] \in Users /\ pipewireRefCnt # 0 BY <2>1, <2>2, CountZero DEF Users
  <2>5. Users' = Users \ {on[t]} BY <1>9, <2>1, <2>3 DEF deinitPipeWire, Users
  <2> QED BY <1>9, <2>4, <2>5 DEF UserGone, deinitPipeWire
<1> QED BY <1>1, <1>2, <1>3, <1>4, <1>5, <1>6, <1>7, <1>8, <1>9 DEF Call

LEMMA OneCapiFollows ==
    ASSUME TypeOK, CountInv, OneCapi, SameUsers \/ (\E x : UserAdded(x) \/ UserGone(x))
    PROVE  OneCapi'
<1>1. CASE SameUsers BY <1>1 DEF SameUsers, OneCapi, libraryVars, Capi
<1>2. ASSUME NEW x, UserAdded(x) PROVE OneCapi'
  <2>1. Capi(x) \in Apis BY ApisAssumption DEF Capi
  <2>2. pipewireRefCnt = 0 => Users = {} BY CountZero
  <2>3. pipewireRefCnt' # 0 BY <1>2 DEF UserAdded, TypeOK
  <2>4. pipewireCAPI' = Capi(x) /\ up' = {Capi(x)}
    BY <1>2, <2>1, ApisAssumption DEF UserAdded, OneCapi
  <2>5. \A y \in Users' : Capi(y) = pipewireCAPI'
    BY <1>2, <2>2, <2>4 DEF UserAdded, OneCapi
  <2> QED BY <2>1, <2>3, <2>4, <2>5, ApisAssumption DEF OneCapi, Capi
<1>3. ASSUME NEW x, UserGone(x) PROVE OneCapi'
  <2>1. CountInv' BY <1>3, CountFollows
  <2>2. CASE pipewireRefCnt = 1
    <3>1. pipewireRefCnt' = 0 /\ pipewireCAPI' = nil /\ up' = {}
      BY <1>3, <2>2 DEF UserGone, OneCapi
    <3>2. Users' = {} BY <2>1, <3>1, FS_EmptySet DEF CountInv, CountExact
    <3> QED BY <3>1, <3>2 DEF OneCapi
  <2>3. CASE pipewireRefCnt # 1
    <3>1. pipewireRefCnt # 0 BY <1>3, CountZero DEF UserGone
    <3>2. pipewireRefCnt' # 0 /\ UNCHANGED <<pipewireCAPI, up>>
      BY <1>3, <2>3 DEF UserGone, TypeOK
    <3> QED BY <1>3, <3>1, <3>2 DEF UserGone, OneCapi, Capi
  <2> QED BY <2>2, <2>3
<1> QED BY <1>1, <1>2, <1>3

UseInv == TypeOK /\ Places /\ UsesInv /\ CountInv /\ OneCapi

LEMMA InitUse == Init => UseInv
<1> SUFFICES ASSUME Init PROVE UseInv
  OBVIOUS
<1>1. Users = {} BY UsersAssumption DEF Init, Users, Counted
<1>2. CountInv BY <1>1, FS_EmptySet DEF Init, CountInv, CountExact
<1>3. OneCapi BY <1>1 DEF Init, OneCapi
<1> QED BY <1>2, <1>3, InitType, InitPlaces, InitUses DEF UseInv

LEMMA NextUse == UseInv /\ [Next]_vars => UseInv'
<1> SUFFICES ASSUME UseInv, [Next]_vars PROVE UseInv'
  OBVIOUS
<1>1. SameUsers \/ (\E x : UserAdded(x) \/ UserGone(x))
  <2>1. ASSUME UNCHANGED <<libraryVars, callVars>> PROVE SameUsers
    BY <2>1 DEF SameUsers, Users, Counted, callVars
  <2>2. CASE UNCHANGED vars BY <2>1, <2>2 DEF vars
  <2> QED BY <2>1, <2>2, CallUsers, HandleCalls DEF Next, UseInv
<1> QED BY <1>1, NextType, NextPlaces, NextUses, CountFollows, OneCapiFollows DEF UseInv

\* The count of the library's users is exact, whoever calls Init, Deinit and
\* Start at once and however often.
THEOREM Counting == Spec => []CountExact
<1>1. UseInv => CountExact BY DEF UseInv, CountInv
<1> QED BY <1>1, InitUse, NextUse, PTL DEF Spec

-----------------------------------------------------------------------------
(* Handles.  What an open handle was made from is still there: a context   *)
(* has its loop, a core its context, and in the end a Runtime that is      *)
(* initialized.                                                            *)

MadeFrom(h) ==
    \/ handle[h].kind = "loop" /\ handle[h].from \in Runtimes /\ initialized[handle[h].from]
    \/ /\ handle[h].kind = "context"
       /\ handle[h].from \in Handles /\ Open(handle[h].from)
       /\ handle[handle[h].from].kind = "loop"
    \/ /\ handle[h].kind = "core"
       /\ handle[h].from \in Handles /\ Open(handle[h].from)
       /\ handle[handle[h].from].kind = "context"

HandleInv ==
    /\ \A h \in Handles : Open(h) => MadeFrom(h) /\ native[handle[h].ptr] = handle[h].kind
    /\ \A h, g \in Handles : Open(h) /\ handle[h].ptr = handle[g].ptr => h = g
    /\ \A a \in Addrs : native[a] # nil => \E h \in Handles : handle[h].ptr = a

LEMMA HandlesTyped ==
    TypeOK => \A h \in Handles : Open(h) => handle[h].ptr \in Addrs
BY DEF TypeOK, Open

LEMMA NewHandle ==
    ASSUME TypeOK, HandleInv, NEW h \in Handles, NEW kind \in Kinds, NEW from,
           New(h, kind, from), MadeFrom(h)'
    PROVE  HandleInv'
<1>1. PICK a \in Addrs :
        /\ native[a] = nil /\ ~Open(h)
        /\ native' = [native EXCEPT ![a] = kind]
        /\ handle' = [handle EXCEPT ![h] = [kind |-> kind, ptr |-> a, from |-> from]]
        /\ UNCHANGED <<libraryVars, callVars>>
  BY DEF New
<1>2. handle'[h] = [kind |-> kind, ptr |-> a, from |-> from] /\ native'[a] = kind
  BY <1>1 DEF TypeOK
<1>3. \A g \in Handles \ {h} : handle'[g] = handle[g] /\ Open(g)' = Open(g)
  BY <1>1 DEF TypeOK, Open
<1>4. \A g \in Handles : Open(g) =>
        g # h /\ handle[g].ptr \in Addrs \ {a} /\ native'[handle[g].ptr] = native[handle[g].ptr]
  <2>1. nil \notin Kinds BY HandlesAssumption
  <2>2. \A g \in Handles : Open(g) => handle[g].kind \in Kinds BY DEF HandleInv, MadeFrom, Kinds
  <2> QED BY <1>1, <2>1, <2>2, HandlesTyped DEF HandleInv, TypeOK
<1>5. \A g \in Handles : Open(g)' => MadeFrom(g)' /\ native'[handle'[g].ptr] = handle'[g].kind
  <2> SUFFICES ASSUME NEW g \in Handles, Open(g)', g # h
               PROVE  MadeFrom(g)' /\ native'[handle'[g].ptr] = handle'[g].kind
    BY <1>2
  <2>1. Open(g) /\ handle'[g] = handle[g] BY <1>3
  <2>2. handle[g].from \in Handles => handle[g].from # h \/ ~MadeFrom(g)
    BY <1>1, HandlesAssumption DEF MadeFrom
  <2>3. MadeFrom(g)'
    BY <1>1, <1>3, <2>1, <2>2 DEF HandleInv, MadeFrom, callVars
  <2> QED BY <1>4, <2>1, <2>3 DEF HandleInv
<1>6. \A f, g \in Handles : Open(f)' /\ handle'[f].ptr = handle'[g].ptr => f = g
  <2>1. a # nil BY HandlesAssumption
  <2> QED BY <1>2, <1>3, <1>4, <2>1 DEF HandleInv, Open
<1>7. \A c \in Addrs : native'[c] # nil => \E g \in Handles : handle'[g].ptr = c
  <2> SUFFICES ASSUME NEW c \in Addrs, native'[c] # nil, c # a
               PROVE  \E g \in Handles : handle'[g].ptr = c
    BY <1>2
  <2>1. PICK g \in Handles : handle[g].ptr = c BY <1>1 DEF HandleInv, TypeOK
  <2>2. Open(g) BY <2>1, HandlesAssumption DEF Open
  <2> QED BY <1>3, <1>4, <2>1, <2>2
<1> QED BY <1>5, <1>6, <1>7 DEF HandleInv

LEMMA UseHandleInv ==
    ASSUME TypeOK, HandleInv, NEW h \in Handles, UseHandle(h) PROVE HandleInv'
<1>1. ASSUME NEW r \in Runtimes, NewLoop(r, h) PROVE HandleInv'
  <2>1. New(h, "loop", r) /\ initialized[r] /\ "loop" \in Kinds BY <1>1 DEF NewLoop, Kinds
  <2>2. MadeFrom(h)' BY <2>1 DEF New, MadeFrom, callVars, TypeOK
  <2> QED BY <2>1, <2>2, NewHandle
<1>2. ASSUME NEW from \in Handles, NewContext(from, h) PROVE HandleInv'
  <2>1. New(h, "context", from) /\ Open(from) /\ "context" \in Kinds
    BY <1>2 DEF NewContext, Kinds
  <2>2. MadeFrom(h)' BY <1>2, <2>1 DEF New, NewContext, MadeFrom, Open, TypeOK
  <2> QED BY <2>1, <2>2, NewHandle
<1>3. ASSUME NEW from \in Handles, Connect(from, h) PROVE HandleInv'
  <2>1. New(h, "core", from) /\ Open(from) /\ "core" \in Kinds
    BY <1>3 DEF Connect, Kinds
  <2>2. MadeFrom(h)' BY <1>3, <2>1 DEF New, Connect, MadeFrom, Open, TypeOK
  <2> QED BY <2>1, <2>2, NewHandle
<1>4. CASE Destroy(h)
  <2>1. /\ ~Open(h)' /\ handle[h].ptr \in Addrs
        /\ native' = [native EXCEPT ![handle[h].ptr] = nil]
    BY <1>4, HandlesTyped DEF Destroy, Open, TypeOK
  <2>2. \A g \in Handles \ {h} : handle'[g] = handle[g] /\ Open(g)' = Open(g)
    BY <1>4 DEF Destroy, TypeOK, Open
  <2>3. \A g \in Handles : Open(g) => handle[g].from # h BY <1>4 DEF Destroy, NothingMadeFrom
  <2>4. \A g \in Handles : Open(g)' => MadeFrom(g)' /\ native'[handle'[g].ptr] = handle'[g].kind
    <3> SUFFICES ASSUME NEW g \in Handles \ {h}, Open(g)
                 PROVE  MadeFrom(g)' /\ native'[handle'[g].ptr] = handle'[g].kind
      BY <2>1, <2>2
    <3>1. MadeFrom(g)' BY <1>4, <2>2, <2>3 DEF HandleInv, MadeFrom, Destroy, callVars
    <3>2. handle[g].ptr \in Addrs /\ handle[g].ptr # handle[h].ptr BY HandlesTyped DEF HandleInv
    <3> QED BY <2>1, <2>2, <3>1, <3>2 DEF HandleInv, TypeOK
  <2>5. \A f, g \in Handles : Open(f)' /\ handle'[f].ptr = handle'[g].ptr => f = g
    BY <2>1, <2>2 DEF HandleInv, Open
  <2>6. \A c \in Addrs : native'[c] # nil => \E g \in Handles : handle'[g].ptr = c
    BY <2>1, <2>2 DEF HandleInv, TypeOK
  <2> QED BY <2>4, <2>5, <2>6 DEF HandleInv
<1> QED BY <1>1, <1>2, <1>3, <1>4 DEF UseHandle

\* Deinit waits for the loops of its Runtime, and no other call clears
\* initialized.
LEMMA CallHandleInv ==
    ASSUME TypeOK, HandleInv, NEW t \in Threads, Call(t) PROVE HandleInv'
<1>1. UNCHANGED handleVars
  BY DEF Call, CallInit, Deinit, ensureRuntime, Register, LockInit, initPipeWire,
     SetInitialized, SetStreamOps, deinitPipeWire
<1>2. \A h \in Handles, r \in Runtimes :
        Open(h) /\ handle[h].from = r /\ initialized[r] => initialized'[r]
  <2>1. ASSUME NEW r \in Runtimes, Deinit(t, r)
        PROVE  \A h \in Handles, q \in Runtimes :
                  Open(h) /\ handle[h].from = q /\ initialized[q] => initialized'[q]
    BY <2>1 DEF Deinit, NothingMadeFrom, TypeOK
  <2>2. CASE SetInitialized(t) BY <2>2 DEF SetInitialized, TypeOK
  <2>3. CASE UNCHANGED initialized BY <2>3
  <2> QED BY <2>1, <2>2, <2>3 DEF Call, CallInit, ensureRuntime, Register, LockInit,
        initPipeWire, SetStreamOps, deinitPipeWire
<1> QED BY <1>1, <1>2 DEF HandleInv, MadeFrom, Open, handleVars

LEMMA InitHandle == Init => HandleInv
BY DEF Init, HandleInv, Open, Unused

LEMMA NextHandle == TypeOK /\ HandleInv /\ [Next]_vars => HandleInv'
<1> SUFFICES ASSUME TypeOK, HandleInv, [Next]_vars PROVE HandleInv'
  OBVIOUS
<1>1. CASE UNCHANGED vars
  BY <1>1 DEF vars, callVars, handleVars, HandleInv, MadeFrom, Open
<1> QED BY <1>1, UseHandleInv, CallHandleInv DEF Next

\* A handle that was not destroyed has a native object of its kind for itself,
\* made from one that still exists, however often others are destroyed and
\* whatever addresses are used again.
THEOREM HandlesApart == Spec => []HandlesOwn
<1>1. TypeOK /\ HandleInv => HandlesOwn
  BY HandlesAssumption DEF HandleInv, MadeFrom, HandlesOwn
<1> QED BY <1>1, InitType, NextType, InitHandle, NextHandle, PTL DEF Spec

\* The library is initialised while there is a user, for the CAPI of every user,
\* and not when there is none, and the native objects exist only meanwhile.
THEOREM LibraryUp == Spec => []UpWhileUsed
<1>1. UseInv /\ HandleInv => UpWhileUsed
  <2> SUFFICES ASSUME UseInv, HandleInv PROVE UpWhileUsed
    OBVIOUS
  <2>1. \A r \in Runtimes : initialized[r] => ApiOf[r] \in up
    <3> SUFFICES ASSUME NEW r \in Runtimes, initialized[r] PROVE ApiOf[r] \in up
      OBVIOUS
    <3>1. r \in Users BY DEF Users, Counted
    <3>2. ApiOf[r] = pipewireCAPI /\ ApiOf[r] # nil
      BY <3>1, ApisAssumption DEF UseInv, OneCapi, Capi
    <3> QED BY <3>2 DEF UseInv, OneCapi
  <2>2. streamOps # {} => default \in up
    <3> SUFFICES ASSUME streamOps # {} PROVE default \in up
      OBVIOUS
    <3>1. PICK x \in uses : TRUE BY DEF UseInv, UsesInv
    <3>2. x \in Users /\ Capi(x) = default
      BY <3>1, UsersAssumption DEF UseInv, TypeOK, Users, Capi
    <3> QED BY <3>2, ApisAssumption DEF UseInv, OneCapi
  <2>3. up # {} => Users # {} BY CountZero DEF UseInv, OneCapi
  <2>4. \A h \in Handles : Open(h) => \E r \in Runtimes : initialized[r]
    BY DEF HandleInv, MadeFrom
  <2>5. (\E a \in Addrs : native[a] # nil) => up # {}
    <3>1. \A h \in Handles : handle[h].ptr \in Addrs => Open(h) BY HandlesAssumption DEF Open
    <3> QED BY <2>1, <2>4, <3>1 DEF HandleInv
  <2> QED BY <2>1, <2>2, <2>3, <2>5 DEF UpWhileUsed, UseInv, OneCapi
<1> QED BY <1>1, InitUse, NextUse, InitHandle, NextHandle, PTL DEF Spec, UseInv

=============================================================================
