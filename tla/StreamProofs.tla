---------------------------- MODULE StreamProofs ----------------------------
(***************************************************************************)
(* Theorems about StreamOps: the tables of pinned storage, of stream loops *)
(* and of running loops, for any number of owners, callers and addresses.  *)
(***************************************************************************)
EXTENDS StreamOps, TLAPS

-----------------------------------------------------------------------------
(* The inductive invariant, in five parts.                                 *)

\* What an owner has in hand at each of its steps; no two owners have the same
\* stream or loop, and every address in use is some owner's.
Hand(o) ==
    /\ pc[o] # "idle" /\ call[o] # "control"
    /\ lp[o] = nil <=> pc[o] = "new_loop"
    /\ sp[o] = nil <=> pc[o] \in {"new_loop", "new_stream", "destroy_loop"}
    /\ published[o] <=> pc[o] = "unpublish"
    /\ stack[o] = IF pc[o] \in {"pin", "destroy"} THEN {sp[o]} ELSE {}
    /\ lp[o] # nil => loop[lp[o]] = "created"
    /\ sp[o] # nil => stream[sp[o]] # "none"
Apart ==
    \A o, u \in Owners :
        /\ lp[o] = lp[u] /\ lp[o] # nil => o = u
        /\ sp[o] = sp[u] /\ sp[o] # nil => o = u
OwnerInv ==
    /\ \A o \in Owners : Hand(o)
    /\ Apart
    /\ \A s \in Streams : stream[s] # "none" => \E o \in Owners : sp[o] = s

\* The tables hold exactly the streams of the owners that have pinned them.
PinnedPcs == {"connect", "pin_params", "publish", "unpublish", "quit", "await", "unpin"}
               \cup CallPcs
HasPinned(o, s) == pc[o] \in PinnedPcs /\ sp[o] = s
TableInv ==
    /\ \A o \in Owners : pc[o] \in PinnedPcs => sp[o] \in pinned /\ streamLoops[sp[o]] = lp[o]
    /\ \A s \in Streams : s \in pinned \cup pinnedParams \/ streamLoops[s] # nil
          => \E o \in Owners : HasPinned(o, s)

\* A caller is at work on a stream that stays published meanwhile.
CallerInv ==
    \A c \in Callers :
        /\ pc[c] \in CallPcs \cup {"idle"} /\ call[c] = "control"
        /\ pc[c] = "idle" <=> sp[c] = nil
        /\ sp[c] # nil => \E o \in Owners : published[o] /\ sp[o] = sp[c]

\* A loop runs only from the time it is published to the end of the await.
InRun == {"marked", "polling", "dispatching", "left"}
RunInv ==
    /\ \A o \in Owners :
          /\ pc[o] \in {"new_stream", "pin", "connect", "pin_params", "publish"}
                => run[lp[o]] = "none"
          /\ pc[o] \in CallPcs /\ call[o] \in {"activate", "undo"} => run[lp[o]] = "none"
          /\ pc[o] \in {"unpin", "destroy", "destroy_loop"} => run[lp[o]] \in {"none", "returned"}
    /\ \A l \in Loops :
          /\ loop[l] = "none" => run[l] \in {"none", "returned"}
          /\ run[l] \in InRun <=> l \in runningLoops

\* The lock of a loop is with the loop while it dispatches, or with a thread in a
\* call on a stream of that loop.
LockInv ==
    \A l \in Loops :
        /\ lock[l] \in Threads \cup {l, nil}
        /\ lock[l] = l <=> run[l] = "dispatching"
        /\ \A t \in Threads : lock[l] = t => pc[t] = "call" /\ streamLoops[sp[t]] = l

StreamInv == OwnerInv /\ TableInv /\ CallerInv /\ RunInv /\ LockInv

-----------------------------------------------------------------------------
(* Type correctness.                                                       *)

LEMMA GotoType ==
    ASSUME TypeOK, NEW t \in Threads, NEW l \in OwnerPcs \cup CallPcs \cup {"idle"}, Goto(t, l)
    PROVE  pc' \in [Threads -> OwnerPcs \cup CallPcs \cup {"idle"}]
BY DEF TypeOK, Goto

LEMMA OwnerType == ASSUME TypeOK, OwnerInv, NEW o \in Owners, OwnerStep(o) PROVE TypeOK'
<1>0. o \in Threads BY DEF Threads
<1> USE <1>0 DEF TypeOK, tableVars, nativeVars, Outside, Elsewhere, RunPcs, Calls
<1>1. ASSUME NEW l \in OwnerPcs \cup CallPcs, Goto(o, l)
      PROVE  pc' \in [Threads -> OwnerPcs \cup CallPcs \cup {"idle"}]
  BY <1>1, GotoType
<1> DEFINE PcType == pc' \in [Threads -> OwnerPcs \cup CallPcs \cup {"idle"}]
<1>2. PcType
  BY <1>1 DEF OwnerStep, OwnerPcs, CallPcs,
    CreateMainLoop, NewStream, Pin, Connect, PinParams, PublishAndSpawn, Unpublish,
     QuitMainLoop, AwaitMainLoop, Unpin, DestroyStream, DestroyMainLoop
<1>3. CASE CreateMainLoop(o) BY <1>2, <1>3 DEF CreateMainLoop
<1>4. CASE NewStream(o) BY <1>2, <1>4 DEF NewStream
<1>5. CASE Pin(o) BY <1>2, <1>5 DEF Pin, OwnerInv, Hand
<1>6. CASE Connect(o) BY <1>2, <1>6 DEF Connect
<1>7. CASE PinParams(o) BY <1>2, <1>7 DEF PinParams, OwnerInv, Hand
<1>8. CASE PublishAndSpawn(o) BY <1>2, <1>8 DEF PublishAndSpawn
<1>9. CASE Unpublish(o) BY <1>2, <1>9 DEF Unpublish
<1>10. CASE QuitMainLoop(o) BY <1>2, <1>10 DEF QuitMainLoop
<1>11. CASE AwaitMainLoop(o) BY <1>2, <1>11 DEF AwaitMainLoop
<1>12. CASE Unpin(o) BY <1>2, <1>12 DEF Unpin, OwnerInv, Hand
<1>13. CASE DestroyStream(o) BY <1>2, <1>13 DEF DestroyStream
<1>14. CASE DestroyMainLoop(o) BY <1>2, <1>14 DEF DestroyMainLoop
<1> QED BY <1>3, <1>4, <1>5, <1>6, <1>7, <1>8, <1>9, <1>10, <1>11, <1>12, <1>13, <1>14
  DEF OwnerStep

LEMMA CallType == ASSUME TypeOK, NEW t \in Threads, CallStep(t) PROVE TypeOK'
<1> USE DEF TypeOK, CallUnchanged, tableVars, nativeVars
<1>1. ASSUME NEW ok \in BOOLEAN, Return(t, ok)
      PROVE  /\ pc' \in [Threads -> OwnerPcs \cup CallPcs \cup {"idle"}]
             /\ sp' \in [Threads -> Streams \cup {nil}] /\ call' \in [Threads -> Calls]
             /\ locked' \in [Threads -> BOOLEAN] /\ CallUnchanged
  <2>1. AfterCall(t, ok) \in OwnerPcs \cup CallPcs \cup {"idle"}
    BY DEF AfterCall, Calls, OwnerPcs, CallPcs
  <2> QED BY <1>1, <2>1, GotoType DEF Return, Calls
<1>2. CASE Lookup(t) BY <1>2, GotoType DEF Lookup, CallPcs
<1>3. CASE Lock(t) BY <1>3, GotoType DEF Lock, CallPcs
<1>4. CASE LockFails(t) BY <1>1, <1>4 DEF LockFails
<1>5. CASE CallAndUnlock(t) BY <1>1, <1>5 DEF CallAndUnlock
<1> QED BY <1>2, <1>3, <1>4, <1>5 DEF CallStep

LEMMA BeginType == ASSUME TypeOK, NEW c \in Callers, BeginCall(c) PROVE TypeOK'
<1>1. c \in Threads BY DEF Threads
<1>2. pc' \in [Threads -> OwnerPcs \cup CallPcs \cup {"idle"}]
  BY <1>1, GotoType DEF BeginCall, CallPcs
<1> QED BY <1>1, <1>2 DEF TypeOK, BeginCall, CallUnchanged, tableVars, nativeVars, Threads

LEMMA RunType == ASSUME TypeOK, NEW l \in Loops, RunStep(l) PROVE TypeOK'
BY DEF TypeOK, RunStep, MarkRunning, EnterRun, BeginDispatch, EndDispatch, LeaveRun, UnmarkRunning,
   RunUnchanged, tableVars, nativeVars, RunPcs

LEMMA StutterType == ASSUME TypeOK, UNCHANGED vars PROVE TypeOK'
BY DEF TypeOK, vars, tableVars, nativeVars

-----------------------------------------------------------------------------
(* The steps of an owner.                                                  *)

\* A step of an owner moves no other thread.
Others(t) ==
    /\ \A u \in Threads : u # t => pc'[u] = pc[u] /\ sp'[u] = sp[u] /\ call'[u] = call[u]
    /\ \A u \in Owners : u # t =>
          lp'[u] = lp[u] /\ stack'[u] = stack[u] /\ published'[u] = published[u]

LEMMA OwnerMoves ==
    ASSUME TypeOK, NEW o \in Owners, OwnerStep(o)
    PROVE  /\ Others(o) /\ runningLoops' = runningLoops /\ lock' = lock
           /\ pc[o] \notin {"pin_params", "unpublish"} => call' = call
           /\ call'[o] = call[o] \/ call'[o] \in {"activate", "disconnect"}
BY DEF TypeOK, Others, OwnerStep, Goto, Outside, Elsewhere, CreateMainLoop, NewStream, Pin, Connect,
   PinParams, PublishAndSpawn, Unpublish, QuitMainLoop, AwaitMainLoop, Unpin, DestroyStream,
   DestroyMainLoop

LEMMA OwnerOwnerInv ==
    ASSUME TypeOK, StreamInv, NEW o \in Owners, OwnerStep(o)
    PROVE  OwnerInv'
<1>0. /\ Others(o)
      /\ call'[o] = call[o] \/ call'[o] \in {"activate", "disconnect"}
  BY OwnerMoves
<1> USE <1>0, DisjointAssumption DEF StreamInv, OwnerInv, Hand, Apart, TypeOK, Others, Goto,
        Threads, tableVars, nativeVars
<1>1. CASE CreateMainLoop(o) BY <1>1 DEF CreateMainLoop
<1>2. CASE NewStream(o)
  <2>1. pc[o] = "new_stream" /\ sp[o] = nil /\ lp' = lp /\ loop' = loop /\ published' = published
    BY <1>2 DEF NewStream
  <2>2. CASE UNCHANGED <<stream, sp, stack>> /\ Goto(o, "destroy_loop") BY <2>1, <2>2
  <2>3. CASE \E s \in Streams : /\ stream[s] = "none" /\ stream' = [stream EXCEPT ![s] = "new"]
                                /\ sp' = [sp EXCEPT ![o] = s] /\ stack' = [stack EXCEPT ![o] = {s}]
                                /\ Goto(o, "pin")
    <3>1. PICK s \in Streams : /\ stream[s] = "none" /\ stream' = [stream EXCEPT ![s] = "new"]
                               /\ sp' = [sp EXCEPT ![o] = s] /\ stack' = [stack EXCEPT ![o] = {s}]
                               /\ Goto(o, "pin")
      BY <2>3
    <3>2. Hand(o)' BY <2>1, <3>1
    <3>3. ASSUME NEW u \in Owners, u # o PROVE Hand(u)' BY <2>1, <3>1, <3>3
    <3>4. Apart' BY <2>1, <3>1
    <3>5. ASSUME NEW r \in Streams, stream'[r] # "none" PROVE \E u \in Owners : sp'[u] = r
      <4>1. CASE r = s BY <3>1, <4>1
      <4>2. CASE r # s
        <5>1. PICK u \in Owners : sp[u] = r BY <3>1, <3>5, <4>2
        <5> QED BY <2>1, <5>1, DisjointAssumption
      <4> QED BY <4>1, <4>2
    <3> HIDE DEF Hand, Apart
    <3> QED BY <3>2, <3>3, <3>4, <3>5
  <2> QED BY <1>2, <2>2, <2>3 DEF NewStream
<1>3. CASE Pin(o)
  <2>1. Hand(o)' BY <1>3 DEF Pin
  <2>2. ASSUME NEW u \in Owners, u # o PROVE Hand(u)' BY <1>3, <2>2 DEF Pin
  <2>3. Apart' BY <1>3 DEF Pin
  <2>4. \A s \in Streams : stream'[s] # "none" => \E u \in Owners : sp'[u] = s BY <1>3 DEF Pin
  <2> HIDE DEF Hand, Apart
  <2> QED BY <2>1, <2>2, <2>3, <2>4
<1>4. CASE Connect(o) BY <1>4 DEF Connect
<1>5. CASE PinParams(o) BY <1>5 DEF PinParams
<1>6. CASE PublishAndSpawn(o) BY <1>6 DEF PublishAndSpawn
<1>7. CASE Unpublish(o) BY <1>7 DEF Unpublish
<1>8. CASE QuitMainLoop(o) BY <1>8 DEF QuitMainLoop
<1>9. CASE AwaitMainLoop(o) BY <1>9 DEF AwaitMainLoop
<1>10. CASE Unpin(o)
  <2>1. Hand(o)' BY <1>10 DEF Unpin
  <2>2. ASSUME NEW u \in Owners, u # o PROVE Hand(u)' BY <1>10, <2>2 DEF Unpin
  <2>3. Apart' BY <1>10 DEF Unpin
  <2>4. \A s \in Streams : stream'[s] # "none" => \E u \in Owners : sp'[u] = s BY <1>10 DEF Unpin
  <2> HIDE DEF Hand, Apart
  <2> QED BY <2>1, <2>2, <2>3, <2>4
<1>11. CASE DestroyStream(o)
  <2>1. Hand(o)' BY <1>11 DEF DestroyStream
  <2>2. ASSUME NEW u \in Owners, u # o PROVE Hand(u)' BY <1>11, <2>2 DEF DestroyStream
  <2>3. Apart' BY <1>11 DEF DestroyStream
  <2>4. \A s \in Streams : stream'[s] # "none" => \E u \in Owners : sp'[u] = s BY <1>11
    DEF DestroyStream
  <2> HIDE DEF Hand, Apart
  <2> QED BY <2>1, <2>2, <2>3, <2>4
<1>12. CASE DestroyMainLoop(o) BY <1>12 DEF DestroyMainLoop
<1> QED BY <1>1, <1>2, <1>3, <1>4, <1>5, <1>6, <1>7, <1>8, <1>9, <1>10, <1>11, <1>12 DEF OwnerStep

LEMMA OwnerTable ==
    ASSUME TypeOK, StreamInv, NEW o \in Owners, OwnerStep(o)
    PROVE  TableInv'
<1>0. Others(o) /\ runningLoops' = runningLoops /\ lock' = lock BY OwnerMoves
<1> USE <1>0, DisjointAssumption DEF StreamInv, OwnerInv, Hand, Apart, TableInv, HasPinned,
        PinnedPcs, CallPcs, TypeOK,
        Others, Goto, Threads,
        tableVars, nativeVars
<1>1. CASE CreateMainLoop(o) BY <1>1 DEF CreateMainLoop
<1>2. CASE NewStream(o) BY <1>2 DEF NewStream
<1>3. CASE Pin(o) BY <1>3 DEF Pin
<1>4. CASE Connect(o) BY <1>4 DEF Connect
<1>5. CASE PinParams(o) BY <1>5 DEF PinParams
<1>6. CASE PublishAndSpawn(o) BY <1>6 DEF PublishAndSpawn
<1>7. CASE Unpublish(o) BY <1>7 DEF Unpublish
<1>8. CASE QuitMainLoop(o) BY <1>8 DEF QuitMainLoop
<1>9. CASE AwaitMainLoop(o) BY <1>9 DEF AwaitMainLoop
<1>10. CASE Unpin(o) BY <1>10 DEF Unpin
<1>11. CASE DestroyStream(o) BY <1>11 DEF DestroyStream
<1>12. CASE DestroyMainLoop(o) BY <1>12 DEF DestroyMainLoop
<1> QED BY <1>1, <1>2, <1>3, <1>4, <1>5, <1>6, <1>7, <1>8, <1>9, <1>10, <1>11, <1>12 DEF OwnerStep

LEMMA OwnerCaller ==
    ASSUME TypeOK, StreamInv, NEW o \in Owners, OwnerStep(o)
    PROVE  CallerInv'
<1>0. Others(o) /\ runningLoops' = runningLoops /\ lock' = lock BY OwnerMoves
<1> USE <1>0, DisjointAssumption DEF StreamInv, OwnerInv, Hand, Apart, CallerInv, CallPcs, TypeOK,
        Others, Goto, Threads,
        tableVars, nativeVars
<1>1. CASE CreateMainLoop(o) BY <1>1 DEF CreateMainLoop
<1>2. CASE NewStream(o) BY <1>2 DEF NewStream
<1>3. CASE Pin(o) BY <1>3 DEF Pin
<1>4. CASE Connect(o) BY <1>4 DEF Connect
<1>5. CASE PinParams(o) BY <1>5 DEF PinParams
<1>6. CASE PublishAndSpawn(o) BY <1>6 DEF PublishAndSpawn
<1>7. CASE Unpublish(o) BY <1>7 DEF Unpublish
<1>8. CASE QuitMainLoop(o) BY <1>8 DEF QuitMainLoop
<1>9. CASE AwaitMainLoop(o) BY <1>9 DEF AwaitMainLoop
<1>10. CASE Unpin(o) BY <1>10 DEF Unpin
<1>11. CASE DestroyStream(o) BY <1>11 DEF DestroyStream
<1>12. CASE DestroyMainLoop(o) BY <1>12 DEF DestroyMainLoop
<1> QED BY <1>1, <1>2, <1>3, <1>4, <1>5, <1>6, <1>7, <1>8, <1>9, <1>10, <1>11, <1>12 DEF OwnerStep

LEMMA OwnerRun ==
    ASSUME TypeOK, StreamInv, NEW o \in Owners, OwnerStep(o)
    PROVE  RunInv'
<1>0. /\ Others(o) /\ runningLoops' = runningLoops /\ lock' = lock
      /\ pc[o] \notin {"pin_params", "unpublish"} => call' = call
  BY OwnerMoves
<1> USE <1>0, DisjointAssumption DEF StreamInv, OwnerInv, Hand, Apart, RunInv, InRun, TypeOK,
        Others, Goto, Threads, CallPcs,
        tableVars, nativeVars
<1>1. CASE CreateMainLoop(o) BY <1>1 DEF CreateMainLoop
<1>2. CASE NewStream(o) BY <1>2 DEF NewStream
<1>3. CASE Pin(o) BY <1>3 DEF Pin
<1>4. CASE Connect(o) BY <1>4 DEF Connect
<1>5. CASE PinParams(o) BY <1>5 DEF PinParams, Outside
<1>6. CASE PublishAndSpawn(o) BY <1>6 DEF PublishAndSpawn
<1>7. CASE Unpublish(o) BY <1>7 DEF Unpublish, Outside
<1>8. CASE QuitMainLoop(o) BY <1>8 DEF QuitMainLoop
<1>9. CASE AwaitMainLoop(o) BY <1>9 DEF AwaitMainLoop
<1>10. CASE Unpin(o) BY <1>10 DEF Unpin
<1>11. CASE DestroyStream(o) BY <1>11 DEF DestroyStream
<1>12. CASE DestroyMainLoop(o) BY <1>12 DEF DestroyMainLoop
<1> QED BY <1>1, <1>2, <1>3, <1>4, <1>5, <1>6, <1>7, <1>8, <1>9, <1>10, <1>11, <1>12 DEF OwnerStep

LEMMA OwnerLock ==
    ASSUME TypeOK, StreamInv, NEW o \in Owners, OwnerStep(o)
    PROVE  LockInv'
<1>0. Others(o) /\ runningLoops' = runningLoops /\ lock' = lock BY OwnerMoves
<1> USE <1>0, DisjointAssumption DEF StreamInv, OwnerInv, Hand, Apart, LockInv, TableInv,
        CallerInv, PinnedPcs, CallPcs, TypeOK,
        Others, Goto, Threads,
        tableVars, nativeVars
<1>1. CASE CreateMainLoop(o)
  <2>1. PICK l \in Loops : loop[l] = "none" /\ run' = [run EXCEPT ![l] = "none"]
    BY <1>1 DEF CreateMainLoop
  <2>2. run[l] # "dispatching" BY <2>1 DEF RunInv
  <2>3. \A k \in Loops : run'[k] = "dispatching" <=> run[k] = "dispatching" BY <2>1, <2>2
  <2>4. \A t \in Threads : pc[t] = "call" => t # o BY <1>1 DEF CreateMainLoop
  <2>5. UNCHANGED <<sp, streamLoops>> BY <1>1 DEF CreateMainLoop
  <2> QED BY <2>3, <2>4, <2>5
<1>2. CASE NewStream(o) BY <1>2 DEF NewStream
<1>3. CASE Pin(o) BY <1>3 DEF Pin
<1>4. CASE Connect(o) BY <1>4 DEF Connect
<1>5. CASE PinParams(o) BY <1>5 DEF PinParams
<1>6. CASE PublishAndSpawn(o)
  <2>1. pc[o] = "publish" /\ run' = [run EXCEPT ![lp[o]] = "spawned"] BY <1>6 DEF PublishAndSpawn
  <2>2. run[lp[o]] = "none" BY <2>1 DEF RunInv
  <2>3. \A k \in Loops : run'[k] = "dispatching" <=> run[k] = "dispatching" BY <2>1, <2>2
  <2>4. UNCHANGED <<sp, streamLoops>> BY <1>6 DEF PublishAndSpawn
  <2> QED BY <2>1, <2>3, <2>4
<1>7. CASE Unpublish(o) BY <1>7 DEF Unpublish
<1>8. CASE QuitMainLoop(o) BY <1>8 DEF QuitMainLoop
<1>9. CASE AwaitMainLoop(o) BY <1>9 DEF AwaitMainLoop
<1>10. CASE Unpin(o) BY <1>10 DEF Unpin
<1>11. CASE DestroyStream(o) BY <1>11 DEF DestroyStream
<1>12. CASE DestroyMainLoop(o) BY <1>12 DEF DestroyMainLoop
<1> QED BY <1>1, <1>2, <1>3, <1>4, <1>5, <1>6, <1>7, <1>8, <1>9, <1>10, <1>11, <1>12 DEF OwnerStep

-----------------------------------------------------------------------------
(* The steps of a call and of a running loop, and the theorems.            *)

LEMMA CallerOf ==
    ASSUME TypeOK, StreamInv, NEW t \in Threads, pc[t] \in CallPcs
    PROVE  \E o \in Owners : /\ HasPinned(o, sp[t]) /\ sp[t] # nil
                             /\ streamLoops[sp[t]] = lp[o] /\ lp[o] \in Loops
BY DisjointAssumption
DEF TypeOK, StreamInv, OwnerInv, Hand, TableInv, CallerInv, HasPinned, PinnedPcs, CallPcs, Threads

LEMMA CallInv == ASSUME TypeOK, StreamInv, NEW t \in Threads, CallStep(t) PROVE StreamInv'
<1> USE DisjointAssumption DEF Goto, TypeOK, Threads
<1>1. CallUnchanged /\ pc[t] \in CallPcs /\ Others(t)
  BY DEF CallStep, Lookup, Lock, LockFails, CallAndUnlock, Return, CallPcs, Others, CallUnchanged
<1>2. \/ pc'[t] \in CallPcs /\ sp'[t] = sp[t] /\ call'[t] = call[t]
      \/ \E ok \in BOOLEAN : Return(t, ok)
  BY DEF CallStep, Lookup, Lock, LockFails, CallAndUnlock, CallPcs
<1>3. \/ /\ pc'[t] \in CallPcs /\ sp'[t] = sp[t]
         /\ \/ call'[t] = call[t]
            \/ t \in Owners /\ call[t] = "activate" /\ call'[t] = "undo"
      \/ /\ t \in Owners /\ sp'[t] = sp[t] /\ call'[t] = call[t]
         /\ \/ pc'[t] = "publish" /\ call[t] = "activate"
            \/ pc'[t] = "unpin" /\ call[t] = "undo"
            \/ pc'[t] = "quit"
      \/ t \in Callers /\ pc'[t] = "idle" /\ sp'[t] = nil /\ call'[t] = call[t]
  <2>1. ASSUME NEW ok \in BOOLEAN, Return(t, ok), t \in Callers
        PROVE  pc'[t] = "idle" /\ sp'[t] = nil /\ call'[t] = call[t]
    <3>1. call[t] = "control" BY <2>1 DEF StreamInv, CallerInv
    <3> QED BY <2>1, <3>1 DEF Return, AfterCall
  <2>2. ASSUME NEW ok \in BOOLEAN, Return(t, ok), t \in Owners
        PROVE  /\ sp'[t] = sp[t]
               /\ \/ pc'[t] = "lookup" /\ call[t] = "activate" /\ call'[t] = "undo"
                  \/ pc'[t] = "publish" /\ call[t] = "activate" /\ call'[t] = call[t]
                  \/ pc'[t] = "unpin" /\ call[t] = "undo" /\ call'[t] = call[t]
                  \/ pc'[t] = "quit" /\ call'[t] = call[t]
    <3>1. call[t] \in {"activate", "undo", "disconnect"}
      BY <2>2 DEF StreamInv, OwnerInv, Hand, Calls
    <3> QED BY <2>2, <3>1 DEF Return, AfterCall
  <2> QED BY <1>2, <2>1, <2>2 DEF CallPcs
<1> HIDE DEF Goto, TypeOK
<1> USE <1>1, <1>3, DisjointAssumption
    DEF StreamInv, CallUnchanged, tableVars, nativeVars, Others, CallPcs
<1>4. \A o \in Owners : sp'[o] = sp[o] OBVIOUS
<1>5. OwnerInv'
  <2>1. ASSUME NEW o \in Owners PROVE Hand(o)' BY <1>4 DEF OwnerInv, Hand
  <2>2. Apart' BY <1>4 DEF OwnerInv, Apart
  <2> QED BY <1>4, <2>1, <2>2 DEF OwnerInv
<1>6. \A o \in Owners : pc'[o] \in PinnedPcs <=> pc[o] \in PinnedPcs BY DEF PinnedPcs
<1>7. TableInv' BY <1>4, <1>6 DEF TableInv, HasPinned
<1>8. CallerInv' BY <1>4 DEF CallerInv
<1>9. RunInv'
  <2>1. \A k \in Loops : run'[k] = run[k] OBVIOUS
  <2>2. ASSUME NEW o \in Owners
        PROVE  /\ pc'[o] \in {"new_stream", "pin", "connect", "pin_params", "publish"}
                    => run[lp[o]] = "none"
               /\ pc'[o] \in CallPcs /\ call'[o] \in {"activate", "undo"} => run[lp[o]] = "none"
               /\ pc'[o] \in {"unpin", "destroy", "destroy_loop"}
                    => run[lp[o]] \in {"none", "returned"}
    BY DEF RunInv
  <2> QED BY <2>2 DEF RunInv
<1>10. LockInv'
  <2>1. CASE Lookup(t) BY <2>1 DEF Lookup, LockInv
  <2>2. CASE Lock(t)
    <3>1. PICK o \in Owners : streamLoops[sp[t]] = lp[o] /\ lp[o] \in Loops BY CallerOf
    <3>2. lock[lp[o]] = nil /\ lock' = [lock EXCEPT ![lp[o]] = t] /\ sp' = sp /\ pc'[t] = "call"
      BY <2>2, <3>1 DEF Lock, Goto, TypeOK
    <3> QED BY <3>1, <3>2 DEF LockInv, TypeOK
  <2>3. CASE LockFails(t)
    <3>1. pc[t] = "lock" /\ lock' = lock BY <2>3 DEF LockFails
    <3> QED BY <3>1 DEF LockInv
  <2>4. CASE CallAndUnlock(t) BY <2>4 DEF CallAndUnlock, LockInv, TypeOK
  <2> QED BY <2>1, <2>2, <2>3, <2>4 DEF CallStep
<1> QED BY <1>5, <1>7, <1>8, <1>9, <1>10

LEMMA BeginInv == ASSUME TypeOK, StreamInv, NEW c \in Callers, BeginCall(c) PROVE StreamInv'
<1>1. /\ CallUnchanged /\ lock' = lock /\ call' = call /\ Others(c)
      /\ pc[c] = "idle" /\ pc'[c] = "lookup"
  BY DEF BeginCall, CallUnchanged, Goto, Others, TypeOK, Threads
<1>2. PICK o \in Owners : published[o] /\ sp'[c] = sp[o]
  BY DEF BeginCall, TypeOK, Threads
<1> USE <1>1, DisjointAssumption
    DEF StreamInv, CallUnchanged, tableVars, nativeVars, Others, CallPcs, Threads
<1>3. OwnerInv'
  <2>1. ASSUME NEW u \in Owners PROVE Hand(u)'
    <3>1. pc'[u] = pc[u] /\ sp'[u] = sp[u] OBVIOUS
    <3> QED BY <3>1 DEF OwnerInv, Hand
  <2>2. Apart' BY DEF OwnerInv, Apart
  <2> QED BY <2>1, <2>2 DEF OwnerInv
<1>4. TableInv' BY DEF TableInv, HasPinned
<1>5. CallerInv'
  <2>1. sp[o] # nil BY <1>2 DEF OwnerInv, Hand
  <2> QED BY <1>2, <2>1 DEF CallerInv
<1>6. RunInv' BY DEF RunInv
<1>7. LockInv' BY DEF LockInv
<1> QED BY <1>3, <1>4, <1>5, <1>6, <1>7

LEMMA RunStepInv == ASSUME TypeOK, StreamInv, NEW l \in Loops, RunStep(l) PROVE StreamInv'
<1>1. RunUnchanged
  BY DEF RunStep, MarkRunning, EnterRun, BeginDispatch, EndDispatch, LeaveRun, UnmarkRunning
<1>2. run[l] \notin {"none", "returned"} /\ \A k \in Loops : k # l => run'[k] = run[k]
  BY DEF RunStep, MarkRunning, EnterRun, BeginDispatch, EndDispatch, LeaveRun, UnmarkRunning,
          TypeOK
<1> USE <1>1 DEF StreamInv, RunUnchanged, tableVars, nativeVars
<1>3. OwnerInv'
  <2>1. ASSUME NEW u \in Owners PROVE Hand(u)' BY DEF OwnerInv, Hand
  <2>2. Apart' BY DEF OwnerInv, Apart
  <2> QED BY <2>1, <2>2 DEF OwnerInv
<1>4. TableInv' BY DEF TableInv, HasPinned
<1>5. CallerInv' BY DEF CallerInv
<1>6. RunInv'
  <2>1. ASSUME NEW o \in Owners, lp[o] = l PROVE pc[o] \notin {"new_stream", "pin", "connect",
              "pin_params", "publish", "unpin", "destroy", "destroy_loop"}
              /\ (pc[o] \in CallPcs => call[o] \notin {"activate", "undo"})
    BY <1>2, <2>1 DEF RunInv
  <2>2. ASSUME NEW o \in Owners, lp[o] # l, pc[o] # "new_loop" PROVE run'[lp[o]] = run[lp[o]]
    BY <1>2, <2>2 DEF OwnerInv, Hand, TypeOK
  <2>3. \A k \in Loops : run'[k] \in InRun <=> k \in runningLoops'
    BY DEF RunInv, InRun, RunStep, MarkRunning, EnterRun, BeginDispatch, EndDispatch, LeaveRun,
       UnmarkRunning, TypeOK
  <2>4. \A k \in Loops : loop'[k] = "none" => run'[k] \in {"none", "returned"}
    BY <1>2 DEF RunInv
  <2>5. ASSUME NEW o \in Owners
        PROVE  /\ pc[o] \in {"new_stream", "pin", "connect", "pin_params", "publish"}
                    => run'[lp[o]] = "none"
               /\ pc[o] \in CallPcs /\ call[o] \in {"activate", "undo"} => run'[lp[o]] = "none"
               /\ pc[o] \in {"unpin", "destroy", "destroy_loop"}
                    => run'[lp[o]] \in {"none", "returned"}
    <3>1. CASE lp[o] = l BY <2>1, <3>1
    <3>2. CASE lp[o] # l BY <2>2, <3>2 DEF RunInv, CallPcs
    <3> QED BY <3>1, <3>2
  <2> QED BY <2>3, <2>4, <2>5 DEF RunInv
<1>7. LockInv'
  BY DisjointAssumption
  DEF LockInv, RunStep, MarkRunning, EnterRun, BeginDispatch, EndDispatch, LeaveRun,
      UnmarkRunning, TypeOK
<1> QED BY <1>3, <1>4, <1>5, <1>6, <1>7

LEMMA StreamInit == Init => TypeOK /\ StreamInv
<1> SUFFICES ASSUME Init PROVE TypeOK /\ StreamInv OBVIOUS
<1> USE DisjointAssumption DEF Init, Threads
<1>1. TypeOK BY DEF TypeOK, OwnerPcs, RunPcs, Calls
<1>2. OwnerInv
  <2>1. \A o \in Owners : Hand(o) BY DEF Hand
  <2> QED BY <2>1 DEF OwnerInv, Apart
<1>3. TableInv BY DEF TableInv, PinnedPcs, CallPcs
<1>4. CallerInv BY DEF CallerInv
<1>5. RunInv BY DEF RunInv, InRun, CallPcs
<1>6. LockInv BY DEF LockInv
<1> QED BY <1>1, <1>2, <1>3, <1>4, <1>5, <1>6 DEF StreamInv

LEMMA StreamCorrect == Spec => [](TypeOK /\ StreamInv)
<1>1. ASSUME TypeOK, StreamInv, [Next]_vars PROVE TypeOK' /\ StreamInv'
  <2> USE <1>1
  <2>1. CASE UNCHANGED vars
    BY <2>1, StutterType
    DEF StreamInv, OwnerInv, Hand, Apart, TableInv, HasPinned, CallerInv, RunInv, LockInv, vars,
        tableVars, nativeVars
  <2>2. ASSUME NEW o \in Owners, OwnerStep(o) PROVE TypeOK' /\ StreamInv'
    BY <2>2, OwnerType, OwnerOwnerInv, OwnerTable, OwnerCaller, OwnerRun, OwnerLock DEF StreamInv
  <2>3. ASSUME NEW c \in Callers, BeginCall(c) PROVE TypeOK' /\ StreamInv'
    BY <2>3, BeginType, BeginInv
  <2>4. ASSUME NEW t \in Threads, CallStep(t) PROVE TypeOK' /\ StreamInv'
    BY <2>4, CallType, CallInv
  <2>5. ASSUME NEW l \in Loops, RunStep(l) PROVE TypeOK' /\ StreamInv'
    BY <2>5, RunType, RunStepInv
  <2> QED BY <2>1, <2>2, <2>3, <2>4, <2>5 DEF Next
<1> QED BY <1>1, StreamInit, PTL DEF Spec

\* Every variable stays in its domain.
THEOREM TypeCorrect == Spec => []TypeOK
BY StreamCorrect, PTL

\* The callback storage of a stream outlives it: it is pinned, or on the stack of the
\* goroutine that makes or destroys the stream, also when its address was used before.
THEOREM StorageOutlivesStream == Spec => []StorageAlive
<1>1. ASSUME TypeOK, StreamInv PROVE StorageAlive
  <2> SUFFICES ASSUME NEW s \in Streams, stream[s] # "none"
               PROVE  s \in pinned \/ \E o \in Owners : s \in stack[o]
    BY DEF StorageAlive
  <2> USE <1>1 DEF StreamInv
  <2>1. PICK o \in Owners : sp[o] = s BY DEF OwnerInv
  <2>2. Hand(o) BY DEF OwnerInv
  <2>3. pc[o] \in OwnerPcs \cup CallPcs /\ s # nil
    BY <2>2, DisjointAssumption DEF Hand, TypeOK, Threads
  <2>4. pc[o] \in PinnedPcs \cup {"pin", "destroy"}
    BY <2>1, <2>2, <2>3 DEF Hand, OwnerPcs, PinnedPcs
  <2> QED BY <2>1, <2>2, <2>4 DEF Hand, TableInv
<1> QED BY <1>1, StreamCorrect, PTL

\* No table keeps an entry for an address without a stream, nor another stream's loop:
\* what one stream left cannot be taken for what the next at its address has.
THEOREM NothingLeftBehind == Spec => []NothingLeft
<1>1. ASSUME TypeOK, StreamInv PROVE NothingLeft
  <2> USE <1>1 DEF StreamInv
  <2>1. ASSUME NEW s \in pinned \cup pinnedParams PROVE stream[s] # "none"
    <3>1. s \in Streams /\ s # nil BY <2>1, DisjointAssumption DEF TypeOK
    <3>2. PICK o \in Owners : HasPinned(o, s) BY <2>1, <3>1 DEF TableInv
    <3> QED BY <3>1, <3>2 DEF HasPinned, OwnerInv, Hand
  <2>2. ASSUME NEW s \in Streams, streamLoops[s] # nil
        PROVE  \E o \in Owners : sp[o] = s /\ lp[o] = streamLoops[s] /\ s \in pinned
    <3>1. PICK o \in Owners : HasPinned(o, s) BY <2>2 DEF TableInv
    <3> QED BY <3>1 DEF HasPinned, TableInv
  <2> QED BY <2>1, <2>2 DEF NothingLeft
<1> QED BY <1>1, StreamCorrect, PTL

\* A loop is marked exactly while pw_main_loop_run runs it, and an address without a
\* loop is neither marked nor locked.
THEOREM MarkedExactlyWhileRunning == Spec => []MarkedWhileRunning
<1>1. ASSUME TypeOK, StreamInv PROVE MarkedWhileRunning
  <2> SUFFICES ASSUME NEW l \in Loops
               PROVE  /\ run[l] \in InRun <=> l \in runningLoops
                      /\ loop[l] = "none" => l \notin runningLoops /\ lock[l] = nil
    BY DEF MarkedWhileRunning, InRun
  <2> USE <1>1 DEF StreamInv
  <2>1. run[l] \in InRun <=> l \in runningLoops BY DEF RunInv
  <2>2. ASSUME loop[l] = "none" PROVE l \notin runningLoops /\ lock[l] = nil
    <3>1. run[l] \in {"none", "returned"} BY <2>2 DEF RunInv
    <3>2. ASSUME NEW t \in Threads, lock[l] = t PROVE FALSE
      <4>1. pc[t] = "call" /\ streamLoops[sp[t]] = l BY <3>2 DEF LockInv
      <4>2. PICK o \in Owners : lp[o] = l BY <4>1, CallerOf DEF CallPcs
      <4> QED BY <2>2, <4>2, DisjointAssumption DEF OwnerInv, Hand
    <3> QED BY <2>1, <3>1, <3>2 DEF LockInv, InRun
  <2> QED BY <2>1, <2>2
<1> QED BY <1>1, StreamCorrect, PTL

-----------------------------------------------------------------------------
(* What the loop lock gives the calls that take it.                        *)

\* A call that found its loop marked has that loop's lock until it is over.
HasLock == \A t \in Threads : pc[t] = "call" /\ locked[t] => lock[streamLoops[sp[t]]] = t

LEMMA OwnerHasLock ==
    ASSUME TypeOK, StreamInv, HasLock, NEW o \in Owners, OwnerStep(o)
    PROVE  HasLock'
<1> USE DisjointAssumption DEF StreamInv
<1>1. Others(o) /\ lock' = lock /\ locked' = locked /\ pc'[o] # "call"
  <2>1. Others(o) /\ lock' = lock BY OwnerMoves
  <2>2. locked' = locked /\ pc'[o] # "call"
    BY DEF OwnerStep, Goto, Outside, Elsewhere, TypeOK, Threads, CreateMainLoop, NewStream, Pin,
       Connect, PinParams, PublishAndSpawn, Unpublish, QuitMainLoop, AwaitMainLoop, Unpin,
       DestroyStream, DestroyMainLoop
  <2> QED BY <2>1, <2>2
<1>2. ASSUME NEW t \in Threads, t # o, pc[t] = "call" PROVE streamLoops'[sp[t]] = streamLoops[sp[t]]
  <2>1. ASSUME pc[o] \in {"pin", "unpin"}, sp[t] = sp[o] PROVE FALSE
    <3>1. sp[o] # nil BY <2>1 DEF OwnerInv, Hand
    <3>2. PICK u \in Owners : sp[u] = sp[t] /\ (t = u \/ published[u])
      BY <1>2, <2>1, <3>1 DEF CallerInv, Threads
    <3>3. u = o BY <2>1, <3>1, <3>2 DEF OwnerInv, Apart
    <3> QED BY <1>2, <2>1, <3>2, <3>3 DEF OwnerInv, Hand
  <2>2. streamLoops' = streamLoops \/ Pin(o) \/ Unpin(o)
    BY DEF OwnerStep, tableVars, CreateMainLoop, NewStream, Connect, PinParams,
       PublishAndSpawn, Unpublish, QuitMainLoop, AwaitMainLoop, DestroyStream,
       DestroyMainLoop
  <2>3. ASSUME Pin(o) \/ Unpin(o) PROVE streamLoops'[sp[t]] = streamLoops[sp[t]]
    <3>1. sp[t] # sp[o] BY <2>1, <2>3 DEF Pin, Unpin
    <3>2. sp[t] \in Streams BY <1>2, CallerOf DEF TypeOK, CallPcs
    <3> QED BY <2>3, <3>1, <3>2 DEF Pin, Unpin, TypeOK
  <2> QED BY <2>2, <2>3
<1> QED BY <1>1, <1>2 DEF HasLock, Others

LEMMA CallHasLock ==
    ASSUME TypeOK, StreamInv, HasLock, NEW t \in Threads, CallStep(t)
    PROVE  HasLock'
<1> USE DisjointAssumption DEF CallUnchanged, tableVars, Goto, TypeOK, HasLock, StreamInv
<1>1. CASE Lookup(t) BY <1>1 DEF Lookup
<1>2. CASE Lock(t)
  <2>1. streamLoops[sp[t]] \in Loops BY <1>2, CallerOf DEF Lock, CallPcs
  <2>2. lock'[streamLoops[sp[t]]] = t BY <1>2, <2>1 DEF Lock
  <2>3. ASSUME NEW u \in Threads, u # t, pc[u] = "call", locked[u]
        PROVE  lock'[streamLoops[sp[u]]] = u
    <3>1. lock[streamLoops[sp[u]]] = u /\ u # nil BY <2>3
    <3>2. streamLoops[sp[u]] # streamLoops[sp[t]] BY <1>2, <3>1 DEF Lock
    <3>3. streamLoops[sp[u]] \in Loops BY <2>3, CallerOf DEF CallPcs
    <3> QED BY <1>2, <3>1, <3>2, <3>3 DEF Lock
  <2> QED BY <1>2, <2>2, <2>3 DEF Lock
<1>3. ASSUME LockFails(t) \/ CallAndUnlock(t) PROVE HasLock'
  <2>1. ASSUME NEW u \in Threads, u # t, pc[u] = "call", locked[u]
        PROVE  lock'[streamLoops[sp[u]]] = u
    <3>1. streamLoops[sp[u]] \in Loops BY <2>1, CallerOf DEF CallPcs
    <3>2. lock[streamLoops[sp[u]]] = u /\ streamLoops' = streamLoops
      BY <1>3, <2>1 DEF LockFails, CallAndUnlock, Return
    <3>3. \A k \in Loops : lock[k] # t => lock'[k] = lock[k]
      BY <1>3 DEF LockFails, CallAndUnlock
    <3> QED BY <2>1, <3>1, <3>2, <3>3
  <2>2. PICK ok \in BOOLEAN : Return(t, ok) BY <1>3 DEF LockFails, CallAndUnlock
  <2>3. \A u \in Threads : u # t => pc'[u] = pc[u] /\ sp'[u] = sp[u] /\ locked'[u] = locked[u]
    BY <2>2 DEF Return
  <2>4. ~locked'[t] /\ streamLoops' = streamLoops BY <2>2 DEF Return
  <2> HIDE DEF TypeOK, StreamInv
  <2> QED BY <2>1, <2>3, <2>4
<1> QED BY <1>1, <1>2, <1>3 DEF CallStep

LEMMA RunHasLock ==
    ASSUME TypeOK, StreamInv, HasLock, NEW l \in Loops, RunStep(l)
    PROVE  HasLock'
<1> USE DisjointAssumption DEF RunUnchanged, tableVars, TypeOK, HasLock, StreamInv, Threads
<1>1. lock' = lock \/ BeginDispatch(l) \/ EndDispatch(l)
  BY DEF RunStep, MarkRunning, EnterRun, LeaveRun, UnmarkRunning
<1>2. RunUnchanged
  BY DEF RunStep, MarkRunning, EnterRun, BeginDispatch, EndDispatch, LeaveRun, UnmarkRunning
<1>3. ASSUME NEW u \in Threads, pc[u] = "call", locked[u] PROVE lock'[streamLoops[sp[u]]] = u
  <2>1. lock[streamLoops[sp[u]]] = u /\ u \notin {nil, l} BY <1>3
  <2>2. \/ lock' = lock
        \/ lock[l] \in {nil, l} /\ \A k \in Loops : k # l => lock'[k] = lock[k]
    BY <1>1 DEF BeginDispatch, EndDispatch, LockInv
  <2>3. streamLoops[sp[u]] \in Loops BY <1>3, CallerOf DEF CallPcs
  <2> QED BY <2>1, <2>2, <2>3
<1> QED BY <1>2, <1>3

LEMMA LockKept == Spec => []HasLock
<1>1. Init => HasLock BY DEF Init, HasLock
<1>2. ASSUME TypeOK, StreamInv, HasLock, [Next]_vars PROVE HasLock'
  <2> USE <1>2
  <2>1. CASE UNCHANGED vars BY <2>1 DEF HasLock, vars, tableVars
  <2>2. ASSUME NEW o \in Owners, OwnerStep(o) PROVE HasLock' BY <2>2, OwnerHasLock
  <2>3. ASSUME NEW c \in Callers, BeginCall(c) PROVE HasLock'
    <3>1. Others(c) /\ pc'[c] = "lookup"
      BY <2>3, DisjointAssumption DEF BeginCall, CallUnchanged, Goto, Others, TypeOK, Threads
    <3> QED BY <2>3, <3>1 DEF BeginCall, CallUnchanged, tableVars, Others, HasLock
  <2>4. ASSUME NEW t \in Threads, CallStep(t) PROVE HasLock' BY <2>4, CallHasLock
  <2>5. ASSUME NEW l \in Loops, RunStep(l) PROVE HasLock' BY <2>5, RunHasLock
  <2> QED BY <2>1, <2>2, <2>3, <2>4, <2>5 DEF Next
<1> QED BY <1>1, <1>2, StreamCorrect, PTL DEF Spec

\* A call that took the loop lock has it to itself: neither the main loop nor another
\* such call is at work on that loop.
LockedCallsAlone ==
    \A t \in Threads : pc[t] = "call" /\ locked[t] =>
        /\ run[streamLoops[sp[t]]] # "dispatching"
        /\ \A u \in Threads : pc[u] = "call" /\ locked[u] /\ streamLoops[sp[u]] = streamLoops[sp[t]]
              => u = t

\* What "under the owning loop lock" comes to: it keeps the process callback and the
\* other calls out, for every call that found its loop marked by RunMainLoop.
THEOREM LockedCallsExclude == Spec => []LockedCallsAlone
<1>1. ASSUME TypeOK, StreamInv, HasLock PROVE LockedCallsAlone
  <2> SUFFICES ASSUME NEW t \in Threads, pc[t] = "call", locked[t]
               PROVE  /\ run[streamLoops[sp[t]]] # "dispatching"
                      /\ \A u \in Threads : /\ pc[u] = "call" /\ locked[u]
                                            /\ streamLoops[sp[u]] = streamLoops[sp[t]]
                                            => u = t
    BY DEF LockedCallsAlone
  <2>1. lock[streamLoops[sp[t]]] = t BY <1>1 DEF HasLock
  <2>2. streamLoops[sp[t]] \in Loops BY <1>1, CallerOf DEF CallPcs
  <2>3. run[streamLoops[sp[t]]] # "dispatching"
    BY <1>1, <2>1, <2>2, DisjointAssumption DEF StreamInv, LockInv
  <2> QED BY <1>1, <2>1, <2>3 DEF HasLock
<1> QED BY <1>1, LockKept, StreamCorrect, PTL

=============================================================================
