# purego-pipewire in TLA+

TLA+ specifications of the parts of purego-pipewire whose correctness depends on the order of
events - goroutines, PipeWire's loop thread, callbacks and native objects with a lifetime - and of
the code that writes and reads its messages. TLC checks small instances; the theorems of the eight
`...Proofs` modules are checked by TLAPS for every value of the constants, and state every invariant
the passing runs check. `PROJECT.json` lists the runs, the source lines every definition models, the faulty
variants each property is known to reject, the hazards and the findings.

    tlc -workers 2 -config PlayerLifecycle.cfg MCPlayer
    tlapm VideoProofs.tla

## The system

| component | state | operations | hard behaviour |
|---|---|---|---|
| Player (`internal/core/player.go`, `player_rt.go`) | atomic state, `mu`, `controlMu`, stream and loop pointers, `closeDone`, notification queue | Start, Pause, Stop, Close, SetControl, GetControl, teardown, `dispatchStates`, the loop goroutine | any goroutine calls any method at any time; user callbacks call back in; native objects are destroyed under their users; waiting on the loop goroutine |
| Process callback (`player_rt.go`, `pwbuffer.go`, `pipewire/player.go`) | the reusable view, the buffer held | onProcess, processPCM, refresh, Commit, fail | several steps may fail, the buffer goes back exactly once, the state changes meanwhile |
| StreamOps (`internal/capi/stream_ops.go`, `loop_lock.go`) | pinned storage and parameters, loop per stream, running loops | create, connect, call under the loop lock, run and quit loops, destroy | C addresses are used again; the need for the lock is decided before the call |
| Video source (`internal/core/video.go`) | process-wide source table, slots, negotiated format | NewVideoSource, Dequeue, Queue, Release, Resize, Destroy, four event handlers | buffers removed while borrowed, format changed while buffers live, stale table entries |
| Runtime (`internal/core/runtime.go`) | shared reference count, its CAPI, `initialized`, the outcome of loading | Init, Deinit, the player's `ensureRuntime`, Register | one count for Runtimes and players, Init and Deinit of one Runtime at once, a failure that stays |
| Loop, Context, Core handles | a native pointer each | create, iterate, destroy | order of destruction, addresses used again |
| SPA pods (`spa/pod.go`, `capi/stream_params.go`) | the builder: position, error, open objects | objects, properties, scalars, choices, whole parameters; the parser of formats | padding and bounds, calls in any order, damaged input |
| shm, loader, wrappers | none or once-only | system calls, `dlsym`, forwarding | - |
| `cmd/pipewiregen`, generated bindings, mocks | none at run time | - | - |

The player calls StreamOps for everything native; a main loop calls the player's process callback
on the goroutine that runs it; the dispatcher goroutine calls OnStateChange. A video source lives
on the application's own loop thread and shares only the source table with other sources. Runtimes
and players share the count of the library's users. Streams and video sources offer their formats
as pods, and a video source parses the one PipeWire answers with.

What makes each component correct:

- Player: each native object is released once, by one owner, after its last user; Close returns
  with everything released; every method returns; the callback hears the exact path of states.
- Process callback: user code sees only the buffer held; every buffer goes back; one failure is
  told once; what is announced was written.
- StreamOps: Go memory that PipeWire refers to stays alive, and nothing is kept longer; calls on a
  running loop's stream take its lock and end.
- Video source: what is borrowed stays mapped, mappings are neither leaked nor freed twice, a
  buffer is in one pair of hands, events reach their own source, Destroy silences the handler.
- Runtime: the library is initialised while anybody uses it and not longer; a handle's Destroy
  destroys its own object and no other.
- Pods: nothing is written past a buffer, what Bytes returns is what the calls said, and the parser
  reads inside of what it got and accepts only a complete, fixed format.

## Modules

`PlayerStates` - the states and `isValidTransition`, shared by the modules below.

`PlayerContract` - the abstract specification: what the owner of an OnStateChange callback may rely
on. The state moves along valid transitions, the callback is told of each once and in order.

`Player` - the player in detail. A thread is an application goroutine, a dispatcher or a loop
goroutine; `pc`, `sp` and `lp` are where it is in a method and its copies of the pointers. A
critical section of `mu`, an atomic access and a call into StreamOps are one action each; what lies
between is local. `controlMu` is held across actions, so its readers and its writer are variables,
and a writer that waits already makes `TryRLock` fail. A failing native operation is a disjunct
guarded by `MayFail`. A main loop, its stream and the goroutine that runs it are one member of
`Loops`. The process callback appears here only with its places where it can wait, be called back
or fail. `overtook` records that Close began while a Start was at work: what Close promises then is
different, see the findings.

`ProcessCallback` - the process callback by itself, at the granularity of native calls, state reads
and user callbacks, while other goroutines move the state and take the stream away. It models the
view of a multi-channel buffer, the deferred calls and their order, and the Fill that the public
package installs.

`StreamOps` - the three maps keyed by stream address, the set of running loops and the loop lock.
Owners go through create, connect, activate, run, disconnect, quit, await and destroy in the order
player.go keeps, including the way back when the activation fails; addresses are taken from small sets
and used again. `call` says what a thread is in `callStreamWithLoopLock` for, and so where the call
leads; taking the loop lock may fail, and then the native call is not made.

`VideoLending` - the abstract specification of a video source's memory, as its borrower sees it:
pieces are mapped, lent, given back and unmapped, never while lent.

`VideoSource` - a method or event handler is one action, because all of one source run on one
thread; sources interleave. Two are more than one, since PipeWire calls back from within them:
`NewVideoSource`, which scans the source table by one compare-and-swap per entry (`ClaimEntry`,
`TableFull`) and gets events while `pw_stream_connect` is under way, and the teardown of Destroy or of a
failed connection, where events arrive between `s.closed = true` (`StartTeardown`) and the end of
`pw_stream_disconnect` (`EndTeardown`). PipeWire's side (where a buffer is, its user data and its chunk) and
the mappings the system has given out are variables, so that the slot table can be compared with
them. `Recycle` and the stream's events are the library's, as the code uses it. The history
variables are `lent`, what the application holds, `renewing`, that nothing was dequeued since the last
Resize, and `told`, the source whose handler the last step called.

`Runtime` - the count and the CAPI it stands for, `up` (the implementations whose `pw_init` is not
undone) and, per thread, its place in Init, Deinit or `ensureRuntime`. A Runtime's `mu` is held from
`LockInit` to `SetInitialized`; a critical section of `pipewireMu` is one action. `uses` remembers the
uses players counted, which they never give back. Handles are made from a Runtime, a loop or a
context, and are destroyed in the documented order; `native` says what lives at an address.

`Pods` - a builder is a record of the words written so far, its first error and the open objects;
each method is an operator on it, with the code's room checks and padding. The parser and the
offsets it reads are recursive functions on words. A Go int becomes a word by `Word`, what int32 and
uint32 make of it. A behaviour calls methods in any order, or makes
one of the library's parameters, or receives a format property by property, which is then cut short
or damaged in one word. `meant` and `said` are what the calls and the sender meant.

`MCPlayer`, `MCProcessCallback`, `MCStreamOps`, `MCVideoSource`, `MCRuntime`, `MCPods` - the instances
TLC runs. `PlayerProofs` and, on top of it, `LifetimeProofs`; `ProcessProofs`, `StreamProofs`,
`VideoProofs`, `RuntimeProofs`; `PodProofs` and, on top of it, `ParserProofs` - the theorems.

Definitions whose comment says *faulty variant* are not part of any specification: each is the
body of an action with a plausible bug, and stands for it when a property is tested.

## What the runs show

| run | instance | result |
|---|---|---|
| PlayerLifecycle | 2 applications with 3 and 2 calls to any methods, 2 loops, every operation may fail (1.1 million states) | types, exact notifications, one dispatcher, controls and process callbacks on live objects only, destruction order, one owner per object, Close releases, `PlayerContract` is implemented |
| PlayerReentrant | one Start, one Close or control from outside, Close from OnStateChange, control and Stop from Fill and OnError; fair (22 thousand states) | every call returns, also one made from a callback; Closed is told |
| PlayerActivationRace, PlayerLateStart, PlayerSilentPlaying | as PlayerLifecycle, with few or no failures | counterexamples, see below |
| ProcessBuffers | 2 channels of 2 frames; a good buffer, two bad ones and a bad header; all kinds of Fill, both policies (650 thousand states) | view, buffers, errors and commits are right |
| ProcessNoFill | the Fill of the public package | counterexample |
| StreamStorage | 2 owners, 1 caller, 2 stream and 2 loop addresses; fair (35 thousand states) | storage alive, nothing left, marks exact, calls end |
| StreamCallUnlocked | the same | counterexample |
| VideoBuffers | 2 sources, 1 table entry, 2 slots, 3 buffers, 2 mappings, 2 sizes (525 thousand states) | `VideoLending` is implemented; mappings, slots and hands agree; announced sizes fit; slots are left for the buffers of a Resize; silence after Destroy; events and entries belong to their source |
| RuntimeHandles | 2 goroutines, 3 Runtimes of 2 CAPIs, 1 player, 3 handles, 3 addresses (52 thousand states) | the count is exact, the library is up for its users only, handles keep to their own objects |
| PodCoding | 14 buffer lengths, 10 values, objects nested twice, formats of up to 5 properties (416 thousand states) | no overrun, bytes as meant, formats parsed as said, damaged ones without a read outside |

Bounds and why they are enough. `CallBudget` bounds the calls of a thread: three by one and two by
the other suffice for a start, a stop, a restart and an overlapping Stop, Close or control, the
longest patterns the guards of the methods distinguish. Two loops allow one restart that creates a
second stream after the first was torn down. Two dispatchers let a second one exist if the flag were
wrong. Two slots with three buffers make slots run out; two sizes make a change of format
observable; one table entry makes the table fill up, also for a scan that passed the entry just before
it was freed (a second entry, behind which a scan can go on, is in the proofs only: with two sources open at
once the states are too many); two mappings are fewer than the sources have
slots, so that they run out and are used again. Two addresses and two owners make an address
come back while its former owner is still on the way out. Frames are few because the code treats
only the relation of a count to the buffer's length.

Two goroutines suffice for the races on the count, each of which is between two calls; the third
Runtime, of another CAPI, makes the refusal of a second CAPI and the change to it after the last
Deinit happen. Three handles make a chain of loop, context and core, or loops that come and go at
addresses used before. In `Pods`, `Lengths` lie on both sides of where an object, a property, each scalar and each
choice just fits, with and without padding; `podMaxDepth` is 2 instead of the code's 4, which suffices
to nest, to fill the stack and to be refused; `Arguments` are the words 0 and 1; `MaxInt32` is 2^20 - 1,
above every constant and small enough for TLC to count past the range of uint32, and `Ints` lie on both
sides of it and behind that range; `MaxWritten` (48 bytes)
bounds what was written before a call, `MaxProps` (5) the properties of a format, of which four are
needed and one can be repeated, and `MaxDamaged` (2) those of a format that is damaged or cut short
anywhere.

The runs of the player, VideoBuffers, RuntimeHandles and PodCoding do not check deadlock: budgets run
out, destroyed sources stay destroyed, a library that failed to load stays so, and a damaged pod is
the end of a behaviour. The other runs do.

Fairness. A goroutine inside a call keeps being scheduled; the lock of a running loop is dropped
whenever the loop polls, so a waiting thread gets it in the end (strong fairness of the steps that
take it, an assumption about PipeWire's mutex); user callbacks on the loop return; a loop that is
told to quit returns. Nobody must make a call, and OnStateChange need not return: `CallsReturn`
holds without it, `ClosedIsTold` says in its hypothesis that it does.

`QuitIsSticky` is TRUE in every run: a quit issued before the goroutine has entered
`pw_main_loop_run` is taken to be honoured. If the library forgets it, Close waits for ever.

## Findings

Each is the only property of a run that must fail.

1. `ActivationOnLiveStream` (PlayerActivationRace): Stop and a restarting Start call SetStreamActive
   through a pointer they copied without `controlMu`; a Close in between has destroyed the stream.
2. `ClosedMeansReleased` (PlayerLateStart): a restart whose old loop fails before it looks for
   resources creates, publishes and runs new ones behind the Close this failure made legal.
3. `PlayingMeansActive` (PlayerSilentPlaying): the second of two overlapping Stops deactivates the
   stream a restart has just activated.
4. `CallsExcludeDispatch` (StreamCallUnlocked): a call that asks whether the loop runs just before it
   does goes on without the lock while the loop dispatches.
5. `CommitReflectsWritten` (ProcessNoFill): a public player without Fill plays whatever the buffers
   hold, since the adapter claims full frames and hides the core's nil check.

## What is proved

`PlayerProofs`, for any sets of threads and loops, budgets, call permissions and failures, from the
named assumptions of `Player` alone (`ThreadsAssumption`, `BoundsAssumption`):

- `TypeCorrect`: the type invariant. One lemma per group of actions, on top of lemmas for the ways a
  step changes a thread (`Goto`, `Load`, `Return`, `Enter`) and for what it leaves alone.
- `SerialDispatch`: `OneDispatcher`. It is inductive together with the type invariant; the dispatcher's
  exit and the enqueueing of a state meet in `dispatching`, which both change under `mu`.
- `ExactNotifications` and `ImplementsContract`. Every step leaves the state and its notifications
  alone, announces one valid transition, or delivers the head of the queue (`StateSteps`). The hard
  step is the last one of Close, which sets Closed without `transition`: it is a valid move only
  because the state is still Closing. `OwnerInv` says so - while `closeDone` is open there is exactly
  one owner, it is inside Close, and the state is Closing - and is inductive because no other
  transition leaves Closing and no second Close becomes owner.

`LifetimeProofs`, under the same assumptions: the five invariants about native objects, which are not
inductive even together with the types. `LifeInv` is, in five parts:

- `StartInv`: one Start at a time is past Starting, and until it is done the state can only go through
  Error to a Close. So nobody else publishes, and a teardown has one of two origins.
- `PointerInv`: the two published pointers are one, and so are the two a thread has in hand; they are
  nil while a Start creates; a call under `controlMu` has the published stream
  (`ControlsMeetLiveStream`: a reader keeps the writer, who alone detaches, out).
- `HoldInv`: a loop with its stream is held by the thread that creates it, then by `loopPtr`, then by the
  thread that takes it down, never by two, and its life is as far as the place of that thread says
  (`EachObjectOneOwner`, `DestroyedInOrder`).
- `ProcessInv`: the stream a process callback has loaded is that of its own loop, or a published one that
  nobody can detach before this loop's goroutine is gone (`CallbackMeetsLiveStream`). It is
  why the load needs no lock.
- `CloseInv`: while a Close that overtook no Start is at work no Start is, and what is published is still
  to be detached by it (`ClosedHasReleased`).

`ProcessProofs`, for any buffers, channels, frames and kinds of Fill: all seven properties of
`ProcessBuffers`. `HeldInv` ties the buffer held to the place in the callback and to the one buffer that
is out; `ViewInv` says what the reusable view points to, before and after `refresh` and until the
deferred queueing; `ErrorInv` relates the three flags of the deferred calls to the number of errors told
(an error before QueueBuffer rules Commit out and silences the error of QueueBuffer); `FillInv` follows
what was written to what is announced.

`StreamProofs`, for any sets of owners, callers and addresses: `OwnerInv` says what an
owner has in hand at each step and that no two owners have the same address, `TableInv` that the tables
hold exactly what the owners have pinned, `CallerInv` that a caller's stream stays published, `RunInv`
when a loop is marked (one whose stream is still being activated never is), `LockInv` who can have its
lock. From them follow `StorageOutlivesStream`, `NothingLeftBehind`, `MarkedExactlyWhileRunning`,
and `LockedCallsExclude`: what finding 4 leaves of "under the owning loop lock" holds, the calls that found their loop marked do exclude it and each other.

`VideoProofs`, for any sets of sources, buffers (finite), mappings and sizes, and any numbers of
entries and slots: every property of `VideoBuffers`. Three invariants are inductive given the types.

- `TableInv` (`EventsReachOwner`, `NoEntryLost`): a source that holds an entry and the entry name each
  other, and a destroyed source remembers none - otherwise its second Destroy would clear the entry
  of another.
- `MemoryInv` (`MappingsAccounted`, `ImplementsLending`): a mapping is in place while exactly one slot
  holds it, and a slot is borrowed while its borrower has its memory. Every step frees the slots it
  empties (`FreedOwned`), adds one (`AddedOwned`) or keeps them, and is, seen from the borrower, one
  step of `VideoLending` or none.
- `AttachInv` (`SlotsFollowBuffers`, `HandedOut`, `AnnouncedFits`): per source, a slot and its buffer name
  each other as long as PipeWire has the buffer, which needs a stream; a slot without a buffer is
  marked removed and is borrowed; slot and PipeWire agree on whether a buffer is dequeued.
- `ResizeLeavesRoom` adds that nothing is borrowed since the Resize: then every slot in use has a buffer
  of its own in PipeWire, and no slot free would mean as many buffers as slots. `DestroyedIsSilent`
  needs `ClosingInv`, that a source whose Destroy or failed constructor is under way is closed as long as it
has a stream, and `TableInv`, that an event finds its own source: then the check of `closed` in the handlers
(`Tells`) is what silences them.

`RuntimeProofs`, for any finite sets of threads, Runtimes and players, any CAPIs, handles, addresses:

- `Counting` and `LibraryUp`: `Places` says which thread holds which `mu`, `UsesInv` that a thread counts a
  player's use once and the player keeps it. Then every step adds one user to `Users`, removes one or
  leaves them (`CallUsers`), in step with the count, so that it is their number (`CountInv`) and stands
  for one CAPI (`OneCapi`).
- `HandlesApart`: an open handle has an object to itself and what it was made from is open
  (`HandleInv`, `MadeFrom`); `Destroy` clears `ptr`, so that a handle never names an object made later.

`PodProofs`, for any lengths, depth, arguments and values:

- `NothingOverrun`. `InOrder` - the words fit the buffer, their number is even, the open headers are
  inside - is kept by every method. It is why the padding without a room check is safe: in `End` it has
  nothing to pad, in a choice it was part of the room asked for.
- `WritesWhatWasMeant`. `Says` cuts the words at the headers of the open objects: each piece is the body
  of one of them, and each header but its size, which `End` patches, is what was meant. Every method adds
  its words to the innermost piece or opens, closes and pads one. The library's parameters are calls in
  sequence (`SixMeans`), except the one made without a builder, whose words are compared one by one.

`ParserProofs`, for whatever the specification of `Pods` lets arrive:

- `ReadsNothingOutside`. The parser's loop is a recursion over offsets, which exists because each property
  lies behind the one before (`NextBehind`); what it visits ends inside (`VisitedInside`), and the checks
  before each read leave room for it.
- `ParsesWhatWasSaid`, the round trip. Each property of a whole format is at its place, aligned, with its
  words (`PropAt`); the parser finds there the key, type, size and value (`PropParsed`) and accepts it just
  if it is a fixed value of a sensible size (`AcceptedParsed`); so the loop comes to all of them or to one it
  refuses (`VisitedWhole`), and the last property of each key is the last said (`LastWhole`). The header
  of a pod that was cut short announces more than is left, and the library's offer has a rate with
  alternatives (`OpenRefused`). The lemmas ask of a property only that its value has the type of its key.

Both need induction over the length of a sequence. The library's induction theorems take an operator as a
parameter, which the provers here cannot instantiate; `SetInduction` takes a set instead, and follows from
the well-foundedness of `<` on the naturals (`LeastNumber`).

Only model-checked: liveness (`CallsReturn`, `ClosedIsTold`, `CallsEnd`), because TLAPS proves no
`ENABLED` and no leads-to under fairness here, and the properties that must fail.

## Not modelled, and why

- `MainLoop`: its Run has no way to be ended, so the order the repository's README.md:51-53 shows (defer
  Destroy, go Run) destroys a loop that runs; there is no state of the handle that could tell. `Loop.Iterate` and
  `VideoSource.Trigger` change nothing here.
- The format PipeWire itself has in force. A format the library ignores leaves the old size in force
  here, and `ChunkFits` compares a buffer with the size its slot was mapped for.
- A `pw_loop_unlock` that fails: the thread that took the lock gives it back, so only the result of the call
  is changed, which is open in `StreamOps` anyway.
- The arguments of controls and their marshalling, the validation of configurations, the frame
  headers and the strides do not influence the properties.
- Property keys (`spa/props.go`) and names of formats (`spa/formats.go`) are constants.
- The shared memory helper is a fixed sequence of system calls, an operation that succeeds or fails
  here. Looking up the library's symbols is sequential; its outcome, which stays, is in `Runtime`.
- Registry, the public Stream and the wrappers forward or do nothing; the generator and generated
  code keep no state that steps could put in disorder.
- A Fill that returns more frames than it was given is outside its contract and noted as a hazard. A
  Close called on the loop goroutine waits for itself; the documentation allows Close only in state
  callbacks, so the runs do not do it.

## Plan

Done: all modules above, their runs, `PlayerContract` and `VideoLending` with their refinements, and a
theorem for every invariant and refinement that a passing run checks. Left: `StreamOps` as the
implementation of what `Player` assumes of its native side, the loop lock, the quit and the return of a
loop; and the parts of the code that the section above leaves out.
