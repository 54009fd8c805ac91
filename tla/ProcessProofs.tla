---------------------------- MODULE ProcessProofs ----------------------------
(***************************************************************************)
(* Theorems about ProcessCallback: the buffer, the view and the error of a *)
(* process callback, for any buffers, channels, capacities and Fill.       *)
(***************************************************************************)
EXTENDS ProcessCallback, TLAPS

-----------------------------------------------------------------------------
(* The inductive invariant, in four parts.                                 *)

\* From DequeueBuffer to QueueBuffer, and in the fail between them, the callback
\* holds a buffer, the only one that is out.
FailPcs == {"fail", "on_error"}
FillPcs == {"fill", "underrun", "drain", "commit"}
Holding ==
    \/ pc \in {"refresh", "state", "queue"} \cup FillPcs
    \/ pc \in FailPcs /\ afterFail = "queue"
HeldInv ==
    /\ held # nil <=> Holding
    /\ \A b \in Buffers : native[b] = "out" <=> b = held

\* Once refresh has accepted the buffer every channel of the view is its own, and
\* the view points nowhere else until QueueBuffer gives the buffer away.
ViewInv ==
    /\ pc \in {"state"} \cup FillPcs =>
          viewBuf = held /\ \A ch \in Channel : samples[ch] = held /\ Fits(held, ch)
    /\ pc # "clear" => \A ch \in Channel : samples[ch] \in {nil, held}

\* An error before QueueBuffer rules Commit out and keeps an error of QueueBuffer
\* from being told again.
Telling == (told = 0 /\ ~failed) \/ (told = 1 /\ failed)
ErrorInv ==
    /\ pc \in {"dequeue", "refresh", "state"} \cup FillPcs =>
          told = 0 /\ ~failed /\ queueOnError /\ ~committed
    /\ pc \in FailPcs =>
          /\ told = 0 /\ failed
          /\ (queueOnError <=> afterFail = "clear") /\ (committed <=> queueOnError)
    /\ pc = "queue" => Telling /\ (queueOnError <=> ~failed) /\ (committed <=> ~failed)
    /\ pc \in {"clear", "idle"} => Telling

\* What Fill returned was written, and it is the whole buffer unless OnDrain is
\* called; Commit announces that much.
Written(n) == fill # "adapted_none" => 1..n \subseteq fresh
FillInv ==
    /\ pc \in {"underrun", "drain", "commit"} => Written(result)
    /\ pc \in {"drain", "commit"} => result \in 0..Frames
    /\ pc = "commit" => result = Frames \/ drained
    /\ pc = "queue" /\ committed =>
          Written(announced[held]) /\ (announced[held] = Frames \/ drained)

ProcInv == HeldInv /\ ViewInv /\ ErrorInv /\ FillInv

-----------------------------------------------------------------------------
(* The steps, those of the other goroutines and of the native side first.  *)

Outside == SetState \/ Publish \/ Detach \/ \E b \in Buffers : Consume(b)

\* TypeOK in two halves, for the two provers.
DataType ==
    /\ fill \in Fills /\ policy \in {"silence", "fail_fast"} /\ state \in PlayerState
    /\ native \in [Buffers -> {"free", "out", "queued", "lost"}]
    /\ announced \in [Buffers -> 0..Frames] /\ fresh \in SUBSET Frame
    /\ pc \in Pcs /\ held \in Buffers \cup {nil} /\ viewBuf \in Buffers \cup {nil}
    /\ samples \in [Channel -> Buffers \cup {nil}] /\ result \in -1..Frames
    /\ afterFail \in {"queue", "clear"} /\ told \in 0..2
FlagType ==
    /\ published \in BOOLEAN /\ queueOnError \in BOOLEAN /\ failed \in BOOLEAN
    /\ committed \in BOOLEAN /\ drained \in BOOLEAN

LEMMA TypeHalves == TypeOK <=> DataType /\ FlagType BY DEF TypeOK, DataType, FlagType

LEMMA OutsideStep ==
    ASSUME TypeOK, ProcInv, Outside \/ UNCHANGED vars
    PROVE  TypeOK' /\ ProcInv'
<1> USE DEF ProcInv
<1>0. DataType /\ FlagType BY TypeHalves
<1>1. DataType'
  <2>1. state' \in PlayerState
    BY <1>0 DEF Outside, SetState, Publish, Detach, Consume, DataType, vars, isValidTransition,
       ValidTransitions, PlayerState
  <2>2. native' \in [Buffers -> {"free", "out", "queued", "lost"}]
    BY <1>0 DEF Outside, SetState, Publish, Detach, Consume, DataType, vars
  <2>3. announced' \in [Buffers -> 0..Frames]
    BY <1>0, ConfigAssumption DEF Outside, SetState, Publish, Detach, Consume, DataType, vars
  <2> QED BY <1>0, <2>1, <2>2, <2>3 DEF Outside, SetState, Publish, Detach, Consume, DataType,
          playerVars,
            viewVars, errorVars, vars
<1>2. UNCHANGED <<fresh, pc, held, viewVars, result, errorVars, markVars, fill>>
  BY DEF Outside, SetState, Publish, Detach, Consume, playerVars, vars
<1>3. FlagType'
  <2>1. published' \in BOOLEAN
    BY <1>0 DEF Outside, SetState, Publish, Detach, Consume, FlagType, playerVars, vars
  <2> QED BY <1>0, <1>2, <2>1 DEF FlagType, errorVars, markVars
<1>4. HeldInv'
  <2>1. \A b \in Buffers : native'[b] = "out" <=> b = held
    BY ConfigAssumption
    DEF HeldInv, Holding, FillPcs, FailPcs, Outside, SetState, Publish, Detach, Consume, TypeOK,
        vars
  <2> QED BY <1>2, <2>1 DEF HeldInv, Holding, FillPcs, FailPcs, errorVars
<1>5. ViewInv' BY <1>2 DEF ViewInv, FillPcs, Fits, viewVars
<1>6. ErrorInv' BY <1>2 DEF ErrorInv, Telling, FillPcs, FailPcs, errorVars, markVars
<1>7. FillInv'
  <2>1. pc = "queue" => announced' = announced
    BY DEF Outside, SetState, Publish, Detach, Consume, vars
  <2> QED BY <1>2, <2>1 DEF FillInv, Written, markVars
<1>8. TypeOK' BY <1>1, <1>3 DEF TypeOK, DataType, FlagType
<1> QED BY <1>4, <1>5, <1>6, <1>7, <1>8

LEMMA DataStep == ASSUME TypeOK, ProcInv, onProcess PROVE DataType'
<1>0. DataType BY TypeHalves
<1> USE <1>0, ConfigAssumption DEF DataType, Pcs, Environment, playerVars, viewVars, errorVars,
        NoSamples, clear, failThen, processUnchanged, Frame, Silence
<1>1. CASE BeginProcess BY <1>1 DEF BeginProcess
<1>2. CASE DequeueBuffer BY <1>2 DEF DequeueBuffer
<1>3. CASE refresh BY <1>3 DEF refresh, ProcInv, HeldInv, Holding
<1>4. CASE ReadState
  <2>1. fresh' \in SUBSET Frame BY <1>4 DEF ReadState
  <2>2. result' \in -1..Frames BY <1>4 DEF ReadState
  <2> QED BY <1>4, <2>1, <2>2 DEF ReadState
<1>5. CASE FillReturns BY <1>5 DEF FillReturns
<1>6. CASE FillEnds BY <1>6 DEF FillEnds
<1>7. CASE FillFails BY <1>7 DEF FillFails
<1>8. CASE AdaptedFill BY <1>8 DEF AdaptedFill
<1>9. CASE handleUnderrun
  <2>1. fresh' \in SUBSET Frame BY <1>9 DEF handleUnderrun
  <2>2. result' \in -1..Frames BY <1>9 DEF handleUnderrun
  <2> QED BY <1>9, <2>1, <2>2 DEF handleUnderrun
<1>10. CASE emitDrain BY <1>10 DEF emitDrain
<1>11. CASE Fail BY <1>11 DEF Fail, PlayerState
<1>12. CASE OnError BY <1>12 DEF OnError, ProcInv, ErrorInv, FailPcs
<1>13. CASE Commit BY <1>13 DEF Commit, ProcInv, FillInv
<1>14. CASE QueueBuffer
  <2>1. native' \in [Buffers -> {"free", "out", "queued", "lost"}] BY <1>14 DEF QueueBuffer
  <2>2. viewBuf' \in Buffers \cup {nil} /\ samples' \in [Channel -> Buffers \cup {nil}]
    BY <1>14 DEF QueueBuffer
  <2> QED BY <1>14, <2>1, <2>2 DEF QueueBuffer
<1>15. CASE EndProcess BY <1>15 DEF EndProcess
<1> QED BY <1>1, <1>2, <1>3, <1>4, <1>5, <1>6, <1>7, <1>8, <1>9, <1>10, <1>11, <1>12, <1>13,
        <1>14, <1>15 DEF onProcess, processPCM

LEMMA FlagStep == ASSUME TypeOK, ProcInv, onProcess PROVE FlagType'
<1>0. FlagType BY TypeHalves
<1> USE <1>0 DEF FlagType, Environment, playerVars, errorVars, markVars, failThen,
        processUnchanged
<1>1. CASE BeginProcess BY <1>1 DEF BeginProcess
<1>2. CASE DequeueBuffer \/ refresh BY <1>2 DEF DequeueBuffer, refresh
<1>3. CASE processPCM
  BY <1>3 DEF processPCM, ReadState, FillReturns, FillEnds, FillFails, AdaptedFill,
     handleUnderrun, emitDrain
<1>4. CASE Fail \/ OnError BY <1>4 DEF Fail, OnError
<1>5. CASE Commit \/ QueueBuffer \/ EndProcess BY <1>5 DEF Commit, QueueBuffer, EndProcess
<1> QED BY <1>1, <1>2, <1>3, <1>4, <1>5 DEF onProcess

LEMMA HeldStep == ASSUME TypeOK, ProcInv, onProcess PROVE HeldInv'
<1> USE ConfigAssumption DEF ProcInv, HeldInv, Holding, FillPcs, FailPcs
<1>1. CASE BeginProcess BY <1>1 DEF BeginProcess
<1>2. CASE DequeueBuffer BY <1>2 DEF DequeueBuffer, TypeOK
<1>3. CASE refresh BY <1>3 DEF refresh, failThen
<1>4. CASE processPCM
  BY <1>4 DEF processPCM, ReadState, FillReturns, FillEnds, FillFails, AdaptedFill,
     handleUnderrun, emitDrain, processUnchanged, failThen
<1>5. CASE Fail \/ OnError
  BY <1>5 DEF Fail, OnError, processUnchanged, errorVars, TypeOK
<1>6. CASE Commit BY <1>6 DEF Commit
<1>7. CASE QueueBuffer BY <1>7 DEF QueueBuffer, failThen, TypeOK
<1>8. CASE EndProcess BY <1>8 DEF EndProcess
<1> QED BY <1>1, <1>2, <1>3, <1>4, <1>5, <1>6, <1>7, <1>8 DEF onProcess

LEMMA ViewStep == ASSUME TypeOK, ProcInv, onProcess PROVE ViewInv'
<1> USE DEF ProcInv, ViewInv, FillPcs, Fits, viewVars
<1>1. CASE BeginProcess BY <1>1 DEF BeginProcess
<1>2. CASE DequeueBuffer BY <1>2 DEF DequeueBuffer, HeldInv, Holding, FailPcs
<1>3. CASE refresh BY <1>3 DEF refresh, failThen, clear, NoSamples
<1>4. CASE processPCM
  BY <1>4 DEF processPCM, ReadState, FillReturns, FillEnds, FillFails, AdaptedFill,
     handleUnderrun, emitDrain, processUnchanged, failThen
<1>5. CASE Fail \/ OnError BY <1>5 DEF Fail, OnError, processUnchanged, TypeOK
<1>6. CASE Commit BY <1>6 DEF Commit
<1>7. CASE QueueBuffer BY <1>7 DEF QueueBuffer, failThen, clear, NoSamples
<1>8. CASE EndProcess BY <1>8 DEF EndProcess, clear, NoSamples
<1> QED BY <1>1, <1>2, <1>3, <1>4, <1>5, <1>6, <1>7, <1>8 DEF onProcess

LEMMA ErrorStep == ASSUME TypeOK, ProcInv, onProcess PROVE ErrorInv'
<1>0. FlagType BY TypeHalves
<1> USE <1>0 DEF ProcInv, ErrorInv, Telling, FillPcs, FailPcs, errorVars, markVars, FlagType
<1>1. CASE BeginProcess BY <1>1 DEF BeginProcess
<1>2. CASE DequeueBuffer
  <2>1. pc = "dequeue" /\ pc' \in {"refresh", "clear"} BY <1>2 DEF DequeueBuffer
  <2>2. told = 0 /\ ~failed /\ queueOnError /\ ~committed BY <2>1
  <2>3. told' = 0 /\ ~failed' /\ queueOnError' /\ ~committed' BY <1>2, <2>2 DEF DequeueBuffer
  <2> QED BY <2>1, <2>3
<1>3. CASE refresh BY <1>3 DEF refresh, failThen
<1>4. CASE processPCM
  BY <1>4 DEF processPCM, ReadState, FillReturns, FillEnds, FillFails, AdaptedFill,
     handleUnderrun, emitDrain, processUnchanged, failThen
<1>5. CASE Fail BY <1>5 DEF Fail, processUnchanged
<1>6. CASE OnError
  <2>1. told' = 1 BY <1>6 DEF OnError
  <2>2. afterFail \in {"queue", "clear"} BY DEF TypeOK
  <2>3. /\ pc = "on_error" /\ pc' = afterFail
        /\ UNCHANGED <<queueOnError, afterFail, failed, committed>>
    BY <1>6 DEF OnError, processUnchanged
  <2> QED BY <2>1, <2>2, <2>3
<1>7. CASE Commit
  <2>1. pc = "commit" /\ pc' = "queue" /\ committed' BY <1>7 DEF Commit
  <2>2. told = 0 /\ ~failed /\ queueOnError BY <2>1
  <2>3. told' = 0 /\ ~failed' /\ queueOnError' BY <1>7, <2>2 DEF Commit
  <2> QED BY <2>1, <2>3
<1>8. CASE QueueBuffer BY <1>8 DEF QueueBuffer, failThen
<1>9. CASE EndProcess BY <1>9 DEF EndProcess
<1> QED BY <1>1, <1>2, <1>3, <1>4, <1>5, <1>6, <1>7, <1>8, <1>9 DEF onProcess

LEMMA FillStep == ASSUME TypeOK, ProcInv, onProcess PROVE FillInv'
<1> USE ConfigAssumption DEF ProcInv, FillInv, Written, TypeOK, Frame, Silence, Environment,
        playerVars, markVars
<1>1. CASE BeginProcess BY <1>1 DEF BeginProcess
<1>2. CASE DequeueBuffer BY <1>2 DEF DequeueBuffer
<1>3. CASE refresh BY <1>3 DEF refresh, failThen
<1>4. CASE ReadState BY <1>4 DEF ReadState
<1>5. CASE FillReturns BY <1>5 DEF FillReturns
<1>6. CASE FillEnds BY <1>6 DEF FillEnds
<1>7. CASE FillFails BY <1>7 DEF FillFails, failThen
<1>8. CASE AdaptedFill BY <1>8 DEF AdaptedFill
<1>9. CASE handleUnderrun BY <1>9 DEF handleUnderrun, failThen
<1>10. CASE emitDrain BY <1>10 DEF emitDrain
<1>11. CASE Fail \/ OnError
  BY <1>11 DEF Fail, OnError, processUnchanged, errorVars, ErrorInv, FailPcs
<1>12. CASE Commit BY <1>12 DEF Commit, ViewInv, FillPcs, HeldInv, Holding
<1>13. CASE QueueBuffer BY <1>13 DEF QueueBuffer, failThen
<1>14. CASE EndProcess BY <1>14 DEF EndProcess
<1> QED BY <1>1, <1>2, <1>3, <1>4, <1>5, <1>6, <1>7, <1>8, <1>9, <1>10, <1>11, <1>12, <1>13,
        <1>14 DEF onProcess, processPCM

LEMMA ProcInit == Init => TypeOK /\ ProcInv
<1> SUFFICES ASSUME Init PROVE TypeOK /\ ProcInv OBVIOUS
<1>1. DataType BY ConfigAssumption DEF Init, DataType, PlayerState, Pcs, NoSamples, Channel
<1>2. FlagType BY DEF Init, FlagType
<1>3. HeldInv BY ConfigAssumption DEF Init, HeldInv, Holding, FillPcs, FailPcs
<1>4. ViewInv BY DEF Init, ViewInv, FillPcs, NoSamples
<1>5. ErrorInv BY DEF Init, ErrorInv, Telling, FillPcs, FailPcs
<1>6. FillInv BY DEF Init, FillInv
<1> QED BY <1>1, <1>2, <1>3, <1>4, <1>5, <1>6, TypeHalves DEF ProcInv

LEMMA ProcCorrect == Spec => [](TypeOK /\ ProcInv)
<1>1. ASSUME TypeOK, ProcInv, [Next]_vars PROVE TypeOK' /\ ProcInv'
  <2>1. CASE onProcess
    <3>1. TypeOK' BY <1>1, <2>1, DataStep, FlagStep DEF TypeOK, DataType, FlagType
    <3> QED BY <1>1, <2>1, <3>1, HeldStep, ViewStep, ErrorStep, FillStep DEF ProcInv
  <2>2. CASE ~onProcess BY <1>1, <2>2, OutsideStep DEF Next, Outside
  <2> QED BY <2>1, <2>2
<1> QED BY <1>1, ProcInit, PTL DEF Spec

-----------------------------------------------------------------------------
(* The theorems.                                                           *)

\* Every variable stays in its domain; no buffer ever announces a negative number of
\* frames to the native side.
THEOREM TypeCorrect == Spec => []TypeOK
BY ProcCorrect, PTL

\* While user code runs, and between callbacks, the reusable view points into no
\* buffer but the one the callback holds, so OnError and Fill cannot reach one that
\* was given back.
THEOREM ViewFollowsHeld == Spec => []ViewOnHeldBuffer
<1>1. ASSUME ProcInv PROVE ViewOnHeldBuffer BY <1>1 DEF ProcInv, ViewInv, ViewOnHeldBuffer
<1> QED BY <1>1, ProcCorrect, PTL

\* refresh lets no buffer pass to Fill that lacks a channel or is too small in one.
THEOREM FillIsGivenAll == Spec => []FillGetsWholeBuffer
<1>1. ASSUME TypeOK, ProcInv PROVE FillGetsWholeBuffer
  <2> SUFFICES ASSUME pc \in FillPcs, NEW ch \in Channel
               PROVE  samples[ch] = held /\ held # nil /\ Capacity[held][ch] >= Frames
    BY DEF FillGetsWholeBuffer, FillPcs
  <2>1. samples[ch] = held /\ Frames <= Capacity[held][ch]
    BY <1>1 DEF ProcInv, ViewInv, Fits
  <2>2. held # nil BY <1>1 DEF ProcInv, HeldInv, Holding
  <2>3. held \in Buffers BY <1>1, <2>2 DEF TypeOK
  <2>4. Capacity[held][ch] \in Nat /\ Frames \in Nat
    BY <2>3, ConfigAssumption DEF Channel
  <2> QED BY <2>1, <2>2, <2>4
<1> QED BY <1>1, ProcCorrect, PTL

\* However a callback ends, the buffer it dequeued has been offered back.
THEOREM EveryBufferReturns == Spec => []BuffersComeBack
<1>1. ASSUME ProcInv PROVE BuffersComeBack
  BY <1>1, ConfigAssumption DEF ProcInv, HeldInv, Holding, FillPcs, FailPcs, BuffersComeBack
<1> QED BY <1>1, ProcCorrect, PTL

\* A callback tells OnError once if a step of it failed, and else not at all.
THEOREM OneErrorPerCallback == Spec => []ErrorToldOnce
<1>1. ASSUME ProcInv PROVE ErrorToldOnce
  BY <1>1 DEF ProcInv, ErrorInv, Telling, ErrorToldOnce
<1> QED BY <1>1, ProcCorrect, PTL

\* What Commit announces was written by Fill or silenced in the same callback,
\* unless the Fill is the one the public package installs.
THEOREM AnnouncedWasFilled == Spec => []CommitOfFilled
<1>1. ASSUME ProcInv PROVE CommitOfFilled
  BY <1>1 DEF ProcInv, FillInv, Written, CommitOfFilled
<1> QED BY <1>1, ProcCorrect, PTL

\* A committed buffer is full or OnDrain was called; an uncommitted one was told to
\* OnError.
THEOREM ShortMeansDrained == Spec => []ShortOnlyAtEnd
<1>1. ASSUME ProcInv PROVE ShortOnlyAtEnd
  BY <1>1 DEF ProcInv, ErrorInv, Telling, FillInv, ShortOnlyAtEnd
<1> QED BY <1>1, ProcCorrect, PTL

=============================================================================
