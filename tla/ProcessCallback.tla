-------------------------- MODULE ProcessCallback --------------------------
(***************************************************************************)
(* One player's process callback: onProcess and processPCM of              *)
(* internal/core/player_rt.go, the reusable view of a native buffer in     *)
(* internal/core/pwbuffer.go and the Fill adapter of pipewire/player.go.   *)
(*                                                                         *)
(* The main loop runs the callbacks one after the other; other goroutines  *)
(* change the state of the player between any two steps and take the       *)
(* stream away.  Samples are abstracted to the frames written since the    *)
(* buffer was dequeued, the same in every channel.                         *)
(***************************************************************************)
EXTENDS Integers, PlayerStates

CONSTANTS
    Buffers,    \* native buffers of a stream
    Channels,   \* number of channels of the player
    Frames,     \* FramesPerBuffer
    Capacity,   \* Capacity[b][ch]: frames the data of b holds, 0 if unmapped
    BadHeader,  \* buffers without an spa_buffer or with another channel count
    Fills,      \* kinds of Fill: "user", "none" (core) or "adapted_none" (public)
    nil

ASSUME ConfigAssumption ==
    /\ Channels \in Nat \ {0} /\ Frames \in Nat \ {0}
    /\ Capacity \in [Buffers -> [1..Channels -> Nat]]
    /\ BadHeader \subseteq Buffers /\ nil \notin Buffers
    /\ Fills \subseteq {"user", "none", "adapted_none"}

VARIABLES
    fill,           \* which Fill the player was made with
    policy,         \* config.UnderrunPolicy
    state,          \* state of the player
    published,      \* streamPtr is not nil
    native,         \* native[b]: "free", "out" (dequeued), "queued" or "lost"
    announced,      \* announced[b]: the frames its size and its chunks announce
    fresh,          \* frames of the held buffer written since it was dequeued
    \* the callback
    pc,
    held,           \* bufPtr
    viewBuf,        \* pwView.buf
    samples,        \* samples[ch]: the buffer pwView.samples[ch] points into
    result,         \* what processPCM or Fill returned
    queueOnError,
    afterFail,      \* where fail returns to
    committed,      \* Commit was called in this callback
    failed,         \* some step of this callback failed
    drained,        \* OnDrain was called in this callback
    told            \* calls of OnError in this callback

playerVars == <<fill, policy, published>>
viewVars == <<viewBuf, samples>>
errorVars == <<queueOnError, afterFail, failed, told>>
markVars == <<committed, drained>>
vars == <<playerVars, state, native, announced, fresh, pc, held, viewVars, result, errorVars,
          markVars>>

Pcs == {"idle", "dequeue", "refresh", "state", "fill", "underrun", "drain", "commit", "queue",
        "fail", "on_error", "clear"}

Channel == 1..Channels
Frame == 1..Frames
NoSamples == [ch \in Channel |-> nil]

Init ==
    /\ fill \in Fills /\ policy \in {"silence", "fail_fast"}
    /\ state = "Idle" /\ published = FALSE
    /\ native = [b \in Buffers |-> "free"] /\ announced = [b \in Buffers |-> 0]
    /\ fresh = {} /\ pc = "idle" /\ held = nil
    /\ viewBuf = nil /\ samples = NoSamples
    /\ result = 0 /\ queueOnError = TRUE /\ afterFail = "queue"
    /\ committed = FALSE /\ drained = FALSE /\ failed = FALSE /\ told = 0

clear == viewBuf' = nil /\ samples' = NoSamples

-----------------------------------------------------------------------------
(* The other goroutines, and the native side.                              *)

SetState ==
    /\ \E next \in PlayerState : isValidTransition(state, next) /\ state' = next
    /\ UNCHANGED <<playerVars, native, announced, fresh, pc, held, viewVars, result, errorVars,
                   markVars>>

\* A new stream comes with new buffers; the loop of the one before has ended.
Publish ==
    /\ ~published /\ pc = "idle"
    /\ published' = TRUE
    /\ native' = [b \in Buffers |-> "free"] /\ announced' = [b \in Buffers |-> 0]
    /\ UNCHANGED <<fill, policy, state, fresh, pc, held, viewVars, result, errorVars, markVars>>

Detach ==
    /\ published /\ published' = FALSE
    /\ UNCHANGED <<fill, policy, state, native, announced, fresh, pc, held, viewVars, result,
                   errorVars, markVars>>

\* The graph is done with a buffer that was queued.
Consume(b) ==
    /\ native[b] = "queued" /\ native' = [native EXCEPT ![b] = "free"]
    /\ UNCHANGED <<playerVars, state, announced, fresh, pc, held, viewVars, result, errorVars,
                   markVars>>

-----------------------------------------------------------------------------
(* onProcess                                                               *)

Environment == UNCHANGED playerVars

BeginProcess ==
    /\ pc = "idle" /\ published
    /\ pc' = "dequeue"
    /\ queueOnError' = TRUE /\ committed' = FALSE /\ drained' = FALSE
    /\ failed' = FALSE /\ told' = 0
    /\ Environment
    /\ UNCHANGED <<state, native, announced, fresh, held, viewVars, result, afterFail>>

DequeueBuffer ==
    /\ pc = "dequeue"
    /\ \/ \E b \in Buffers :
             /\ native[b] = "free"
             /\ native' = [native EXCEPT ![b] = "out"]
             /\ held' = b /\ fresh' = {} /\ pc' = "refresh"
       \/ pc' = "clear" /\ UNCHANGED <<native, held, fresh>>
    /\ Environment
    /\ UNCHANGED <<state, announced, viewVars, result, errorVars, markVars>>

\* What fail(err) does is in Fail and OnError; then the callback goes on at next.
failThen(next) == pc' = "fail" /\ afterFail' = next /\ failed' = TRUE

Fits(b, ch) == Frames <= Capacity[b][ch]

\* Faulty variants: only the first channel is validated; the buffer is not queued
\* again when the view cannot be made.
refreshFirstChannel ==
    /\ pc = "refresh"
    /\ IF held \notin BadHeader /\ Fits(held, 1)
       THEN /\ viewBuf' = held /\ samples' = [ch \in Channel |-> held]
            /\ pc' = "state" /\ UNCHANGED <<queueOnError, afterFail, failed>>
       ELSE clear /\ queueOnError' = FALSE /\ failThen("queue")
    /\ Environment
    /\ UNCHANGED <<state, native, announced, fresh, held, result, told, markVars>>
refreshAndReturn ==
    /\ pc = "refresh"
    /\ IF held \notin BadHeader /\ \A ch \in Channel : Fits(held, ch)
       THEN /\ viewBuf' = held /\ samples' = [ch \in Channel |-> held]
            /\ pc' = "state" /\ UNCHANGED <<queueOnError, afterFail, failed>>
       ELSE clear /\ queueOnError' = FALSE /\ failThen("clear")
    /\ Environment
    /\ UNCHANGED <<state, native, announced, fresh, held, result, told, markVars>>

refresh ==
    /\ pc = "refresh"
    /\ IF held \notin BadHeader /\ \A ch \in Channel : Fits(held, ch)
       THEN /\ viewBuf' = held /\ samples' = [ch \in Channel |-> held]
            /\ pc' = "state" /\ UNCHANGED <<queueOnError, afterFail, failed>>
       ELSE clear /\ queueOnError' = FALSE /\ failThen("queue")
    /\ Environment
    /\ UNCHANGED <<state, native, announced, fresh, held, result, told, markVars>>

-----------------------------------------------------------------------------
(* processPCM                                                              *)

\* The frames fillSilence(start, Frames) clears.
Silence(start) == {f \in Frame : f > start}

processUnchanged == UNCHANGED <<native, announced, held, viewVars, markVars>>

ReadState ==
    /\ pc = "state"
    /\ IF state = "Playing" /\ fill # "none"
       THEN pc' = "fill" /\ UNCHANGED <<fresh, result>>
       ELSE fresh' = Silence(0) /\ result' = Frames /\ pc' = "commit"
    /\ Environment /\ processUnchanged
    /\ UNCHANGED <<state, errorVars>>

\* Faulty variant: a failure of Fill does not exclude one of QueueBuffer.
FillThenFailTwice ==
    /\ pc = "fill" /\ fill = "user"
    /\ \E n \in 0..Frames :
          /\ fresh' = 1..n
          /\ failThen("queue")
    /\ Environment /\ processUnchanged
    /\ UNCHANGED <<state, result, queueOnError, told>>

\* Faulty variants: a negative count is not taken for an underrun; a short count is
\* committed as it is.
FillReturnsNegative ==
    /\ pc = "fill" /\ fill = "user"
    /\ \E n \in 0..Frames, r \in -1..Frames :
          /\ r \in {n, -1}
          /\ fresh' = 1..n /\ result' = r
          /\ pc' = IF r >= 0 /\ r < Frames THEN "underrun" ELSE "commit"
    /\ Environment /\ processUnchanged
    /\ UNCHANGED <<state, errorVars>>
FillReturnsShort ==
    /\ pc = "fill" /\ fill = "user"
    /\ \E n \in 0..Frames, r \in -1..Frames :
          r \in {n, -1} /\ fresh' = 1..n /\ result' = r
    /\ pc' = "commit"
    /\ Environment /\ processUnchanged
    /\ UNCHANGED <<state, errorVars>>

\* A user's Fill writes a prefix of the buffer and returns its length, or a
\* negative count, which is an underrun like a short one.
FillReturns ==
    /\ pc = "fill" /\ fill = "user"
    /\ \E n \in 0..Frames, r \in -1..Frames :
          /\ r \in {n, -1}
          /\ fresh' = 1..n /\ result' = r
          /\ pc' = IF r < Frames THEN "underrun" ELSE "commit"
    /\ Environment /\ processUnchanged
    /\ UNCHANGED <<state, errorVars>>

\* It may return io.EOF with the frames it wrote.
FillEnds ==
    /\ pc = "fill" /\ fill = "user"
    /\ \E n \in 0..Frames : fresh' = 1..n /\ result' = n
    /\ pc' = "drain"
    /\ Environment /\ processUnchanged
    /\ UNCHANGED <<state, errorVars>>

\* Or another error, whatever it wrote.
FillFails ==
    /\ pc = "fill" /\ fill = "user"
    /\ \E n \in 0..Frames : fresh' = 1..n
    /\ queueOnError' = FALSE /\ failThen("queue")
    /\ Environment /\ processUnchanged
    /\ UNCHANGED <<state, result, told>>

\* The public package installs a Fill of its own when the user gives none.
AdaptedFill ==
    /\ pc = "fill" /\ fill = "adapted_none"
    /\ result' = Frames /\ pc' = "commit"
    /\ Environment /\ processUnchanged
    /\ UNCHANGED <<state, fresh, errorVars>>

\* Faulty variant: the first missing frame is skipped.
handleUnderrunSkipping ==
    /\ pc = "underrun"
    /\ \/ /\ policy = "silence"
          /\ fresh' = fresh \cup Silence(result + 1) /\ result' = Frames
          /\ pc' = "commit" /\ UNCHANGED <<queueOnError, afterFail, failed>>
       \/ /\ policy = "fail_fast"
          /\ queueOnError' = FALSE /\ failThen("queue")
          /\ UNCHANGED <<fresh, result>>
    /\ Environment /\ processUnchanged
    /\ UNCHANGED <<state, told>>

\* OnUnderrun, then the policy.
handleUnderrun ==
    /\ pc = "underrun"
    /\ \/ /\ policy = "silence"
          /\ fresh' = fresh \cup Silence(result) /\ result' = Frames
          /\ pc' = "commit" /\ UNCHANGED <<queueOnError, afterFail, failed>>
       \/ /\ policy = "fail_fast"
          /\ queueOnError' = FALSE /\ failThen("queue")
          /\ UNCHANGED <<fresh, result>>
    /\ Environment /\ processUnchanged
    /\ UNCHANGED <<state, told>>

emitDrain ==
    /\ pc = "drain" /\ pc' = "commit"
    /\ drained' = TRUE
    /\ Environment
    /\ UNCHANGED <<state, native, announced, fresh, held, viewVars, result, errorVars, committed>>

-----------------------------------------------------------------------------
(* fail                                                                    *)

Fail ==
    /\ pc = "fail" /\ pc' = "on_error"
    /\ state' = IF isValidTransition(state, "Error") THEN "Error" ELSE state
    /\ Environment /\ processUnchanged
    /\ UNCHANGED <<fresh, result, errorVars>>

\* OnError is told of a refused transition too.
OnError ==
    /\ pc = "on_error" /\ pc' = afterFail
    /\ told' = told + 1
    /\ Environment /\ processUnchanged
    /\ UNCHANGED <<state, fresh, result, queueOnError, afterFail, failed>>

-----------------------------------------------------------------------------
(* Commit, and the deferred calls.                                         *)

Commit ==
    /\ pc = "commit" /\ pc' = "queue"
    /\ announced' = [announced EXCEPT ![viewBuf] = result]
    /\ committed' = TRUE
    /\ Environment
    /\ UNCHANGED <<state, native, fresh, held, viewVars, result, errorVars, drained>>

\* Faulty variant: the view is left for the deferred clear.
QueueThenFail ==
    /\ pc = "queue"
    /\ held' = nil
    /\ \/ /\ native' = [native EXCEPT ![held] = "queued"]
          /\ pc' = "clear" /\ UNCHANGED <<viewVars, errorVars>>
       \/ /\ native' = [native EXCEPT ![held] = "lost"]
          /\ IF queueOnError
             THEN failThen("clear") /\ UNCHANGED viewVars
             ELSE pc' = "clear" /\ UNCHANGED <<viewVars, afterFail, failed>>
          /\ UNCHANGED <<queueOnError, told>>
    /\ Environment
    /\ UNCHANGED <<state, announced, fresh, result, markVars>>

\* A buffer the stream refuses is not offered again.
QueueBuffer ==
    /\ pc = "queue"
    /\ held' = nil
    /\ \/ /\ native' = [native EXCEPT ![held] = "queued"]
          /\ pc' = "clear" /\ UNCHANGED <<viewVars, errorVars>>
       \/ /\ native' = [native EXCEPT ![held] = "lost"]
          /\ IF queueOnError
             THEN clear /\ failThen("clear")
             ELSE pc' = "clear" /\ UNCHANGED <<viewVars, afterFail, failed>>
          /\ UNCHANGED <<queueOnError, told>>
    /\ Environment
    /\ UNCHANGED <<state, announced, fresh, result, markVars>>

EndProcess ==
    /\ pc = "clear" /\ pc' = "idle"
    /\ clear
    /\ Environment
    /\ UNCHANGED <<state, native, announced, fresh, held, result, errorVars, markVars>>

-----------------------------------------------------------------------------

processPCM ==
    ReadState \/ FillReturns \/ FillEnds \/ FillFails \/ AdaptedFill \/ handleUnderrun \/ emitDrain

onProcess ==
    BeginProcess \/ DequeueBuffer \/ refresh \/ processPCM \/ Fail \/ OnError \/ Commit
    \/ QueueBuffer \/ EndProcess

Next == SetState \/ Publish \/ Detach \/ (\E b \in Buffers : Consume(b)) \/ onProcess

Spec == Init /\ [][Next]_vars

-----------------------------------------------------------------------------
(* Properties.                                                             *)

\* Every variable stays in its domain: no buffer announces a negative number of
\* frames, whatever a user's Fill returns.
TypeOK ==
    /\ fill \in Fills /\ policy \in {"silence", "fail_fast"} /\ state \in PlayerState
    /\ published \in BOOLEAN /\ native \in [Buffers -> {"free", "out", "queued", "lost"}]
    /\ announced \in [Buffers -> 0..Frames] /\ fresh \in SUBSET Frame
    /\ pc \in Pcs /\ held \in Buffers \cup {nil} /\ viewBuf \in Buffers \cup {nil}
    /\ samples \in [Channel -> Buffers \cup {nil}] /\ result \in -1..Frames
    /\ queueOnError \in BOOLEAN /\ afterFail \in {"queue", "clear"}
    /\ committed \in BOOLEAN /\ drained \in BOOLEAN /\ failed \in BOOLEAN /\ told \in 0..2

\* "Clear before OnError can reenter player methods": while user code runs, and
\* between callbacks, the view points at most into the buffer that is held.
ViewOnHeldBuffer ==
    pc \in {"fill", "underrun", "drain", "on_error", "idle"} =>
        \A ch \in Channel : samples[ch] \in {nil, held}

\* Fill is handed every channel of the held buffer, all large enough.
FillGetsWholeBuffer ==
    pc \in {"fill", "underrun", "drain", "commit"} =>
        \A ch \in Channel : samples[ch] = held /\ held # nil /\ Capacity[held][ch] >= Frames

\* A callback gives back the buffer it dequeued, whichever of its steps fails.
BuffersComeBack == pc = "idle" => \A b \in Buffers : native[b] # "out"

\* One failed callback is one OnError, also when it fails in several steps.
ErrorToldOnce == pc = "idle" => told = (IF failed THEN 1 ELSE 0)

\* What a queued buffer announces was written in this callback, for every Fill
\* but the one the public package installs.
CommitOfFilled ==
    pc = "queue" /\ committed /\ fill # "adapted_none" => 1..announced[held] \subseteq fresh

\* A buffer is sent on short of frames only with OnDrain called, and uncommitted
\* only with OnError called.
ShortOnlyAtEnd ==
    pc = "queue" => IF committed THEN announced[held] = Frames \/ drained ELSE told = 1

-----------------------------------------------------------------------------
(* What the comments say and the code does not do.                         *)

\* "Commit updates each data chunk's size and stride to reflect the number of
\* frames written": it announces no frame that was not written in this callback.
CommitReflectsWritten ==
    pc = "queue" /\ committed => 1..announced[held] \subseteq fresh

=============================================================================
