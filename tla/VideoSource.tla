---------------------------- MODULE VideoSource ----------------------------
(***************************************************************************)
(* internal/core/video.go: video sources, the table through which native   *)
(* callbacks find them, and the slots that tie a PipeWire buffer to the    *)
(* memfd mapping it shows and to the application that borrows it.          *)
(*                                                                         *)
(* Each source lives on the thread of its loop, and a handler callback is  *)
(* the last thing an event handler does, so a method or an event handler   *)
(* is one step.  Two are not, because PipeWire calls back from within      *)
(* them: NewVideoSource, around pw_stream_connect, and teardown, around    *)
(* pw_stream_disconnect.  Sources of different loops interleave, and share *)
(* videoTable, which NewVideoSource scans entry by entry.                  *)
(*                                                                         *)
(* A frame size stands for width, height, stride and format; a mapping     *)
(* for its file descriptor and its memory.  The chunk of a buffer is       *)
(* attached and detached with pw, as is the header, which is left out.     *)
(* nodeID, warned, cfg and the parameters take part in no later decision   *)
(* and are left out, and Trigger, which only starts a graph cycle, too.    *)
(***************************************************************************)
EXTENDS Naturals, FiniteSets

CONSTANTS
    Sources,        \* identities for calls of NewVideoSource
    MaxSources,     \* videoMaxSources
    MaxBuffers,     \* videoMaxBuffers
    Buffers,        \* the struct pw_buffer of a stream, reused by PipeWire
    Maps,           \* memfd mappings the system can give out
    Sizes,          \* frame sizes in bytes
    nil

ASSUME LimitsAssumption == MaxSources \in Nat \ {0} /\ MaxBuffers \in Nat \ {0}
ASSUME SizesAssumption == Sizes \subseteq Nat \ {0}
ASSUME BuffersAssumption == IsFiniteSet(Buffers)
ASSUME NilAssumption == nil \notin Sources \cup Buffers \cup Maps

\* Indices as in the code's user data: slot index + 1, and 0 for none.
Entries == 1 .. MaxSources
Slots == 1 .. MaxBuffers

VARIABLES
    videoTable,     \* videoTable[k]: the source in entry k, or nil
    made,           \* made[s]: how far NewVideoSource(s) got
    scan,           \* scan[s]: the entry its scan of the table tries next
    table,          \* table[s]: its entry, or 0
    stream,         \* stream[s]: s.stream # nil
    closed,         \* closed[s]
    leaving,        \* leaving[s]: its teardown is running
    negotiated,     \* negotiated[s]
    size,           \* size[s]: the frame size negotiated last
    slots,          \* slots[s][i]
    \* PipeWire
    place,          \* place[s][p]: where PipeWire has buffer p
    userData,       \* userData[s][p]: 0 or the slot of p
    chunk,          \* chunk[s][p]: the bytes its chunk announces, 0 if it is absent
    \* the system
    mapped,         \* the mappings in place
    \* history
    lent,           \* lent[s]: <<slot, mapping>> handed to the application
    renewing,       \* renewing[s]: resized, and nothing dequeued since
    told            \* the source whose handler the last step called, or nil

tableVars == <<videoTable, made, scan, table>>
sourceVars == <<stream, closed, leaving, negotiated, size, renewing>>
bufferVars == <<slots, place, userData, chunk, mapped, lent>>
vars == <<tableVars, sourceVars, bufferVars, told>>

EmptySlot == [live |-> FALSE, pw |-> nil, removed |-> FALSE, borrowed |-> FALSE,
              mem |-> nil, bytes |-> 0]

\* A buffer is unknown, free to be dequeued, dequeued, or on its way through
\* the graph.
Places == {"absent", "free", "dequeued", "graph"}

Init ==
    /\ videoTable = [k \in Entries |-> nil]
    /\ made = [s \in Sources |-> "no"]
    /\ scan = [s \in Sources |-> 1] /\ table = [s \in Sources |-> 0]
    /\ stream = [s \in Sources |-> FALSE]
    /\ closed = [s \in Sources |-> FALSE] /\ leaving = [s \in Sources |-> FALSE]
    /\ negotiated = [s \in Sources |-> FALSE] /\ size = [s \in Sources |-> 0]
    /\ slots = [s \in Sources |-> [i \in Slots |-> EmptySlot]]
    /\ place = [s \in Sources |-> [p \in Buffers |-> "absent"]]
    /\ userData = [s \in Sources |-> [p \in Buffers |-> 0]]
    /\ chunk = [s \in Sources |-> [p \in Buffers |-> 0]]
    /\ mapped = {}
    /\ lent = [s \in Sources |-> {}] /\ renewing = [s \in Sources |-> FALSE]
    /\ told = nil

\* This step calls the handler of s, unless it is closed.  Faulty variant:
\* s.closed is not looked at.
TellsClosed(s) == told' = s
Tells(s) == told' = IF closed[s] THEN nil ELSE s
Quiet == told' = nil

-----------------------------------------------------------------------------
(* freeSlot and teardown                                                   *)

\* FreeSharedMem for the slots I of s that hold a mapping.
Unmap(s, I) == mapped' = mapped \ {slots[s][i].mem : i \in {i \in I : slots[s][i].live}}

freeSlot(s, i) == slots' = [slots EXCEPT ![s][i] = EmptySlot] /\ Unmap(s, {i})

\* What a slot becomes when PipeWire takes the buffer away from a borrower.
Detached(slot) == [slot EXCEPT !.pw = nil, !.removed = TRUE]

\* What teardown does once pw_stream_disconnect and pw_stream_destroy are through:
\* the slots that no callback emptied are.
DropBuffers(s) ==
    LET lost == {i \in Slots : ~slots[s][i].borrowed}
    IN /\ slots' = [slots EXCEPT ![s] =
                      [i \in Slots |-> IF i \in lost THEN EmptySlot ELSE Detached(slots[s][i])]]
       /\ Unmap(s, lost)
       /\ place' = [place EXCEPT ![s] = [p \in Buffers |-> "absent"]]
       /\ userData' = [userData EXCEPT ![s] = [p \in Buffers |-> 0]]
       /\ chunk' = [chunk EXCEPT ![s] = [p \in Buffers |-> 0]]

\* teardown starts with s.closed set.  Until it ends the stream and the entry are
\* there, and PipeWire calls back.
StartTeardown(s) ==
    /\ closed' = [closed EXCEPT ![s] = TRUE]
    /\ leaving' = [leaving EXCEPT ![s] = TRUE]
    /\ Quiet /\ UNCHANGED <<stream, negotiated, size, renewing, bufferVars>>

\* Faulty variant: the entry is given back and s.table left as it is.
EndTeardownKeepsEntry(s) ==
    /\ leaving[s]
    /\ DropBuffers(s)
    /\ leaving' = [leaving EXCEPT ![s] = FALSE] /\ stream' = [stream EXCEPT ![s] = FALSE]
    /\ videoTable' = [k \in Entries |-> IF k = table[s] THEN nil ELSE videoTable[k]]
    /\ Quiet /\ UNCHANGED <<made, scan, table, closed, lent, negotiated, size, renewing>>

EndTeardown(s) ==
    /\ leaving[s]
    /\ DropBuffers(s)
    /\ leaving' = [leaving EXCEPT ![s] = FALSE] /\ stream' = [stream EXCEPT ![s] = FALSE]
    /\ videoTable' = [k \in Entries |-> IF k = table[s] THEN nil ELSE videoTable[k]]
    /\ table' = [table EXCEPT ![s] = 0]
    /\ Quiet /\ UNCHANGED <<made, scan, closed, lent, negotiated, size, renewing>>

-----------------------------------------------------------------------------
(* NewVideoSource                                                          *)

\* The compare-and-swap of one entry.
ClaimEntry(s) ==
    /\ made[s] = "no" /\ scan[s] \in Entries
    /\ IF videoTable[scan[s]] = nil
       THEN /\ videoTable' = [videoTable EXCEPT ![scan[s]] = s]
            /\ table' = [table EXCEPT ![s] = scan[s]]
            /\ made' = [made EXCEPT ![s] = "claimed"]
            /\ UNCHANGED scan
       ELSE /\ scan' = [scan EXCEPT ![s] = @ + 1]
            /\ UNCHANGED <<videoTable, table, made>>
    /\ Quiet /\ UNCHANGED <<sourceVars, bufferVars>>

\* ErrVideoTableFull, also when an entry the scan has passed is free by now.
TableFull(s) ==
    /\ made[s] = "no" /\ scan[s] \notin Entries
    /\ made' = [made EXCEPT ![s] = "failed"]
    /\ Quiet /\ UNCHANGED <<videoTable, scan, table, sourceVars, bufferVars>>

\* Faulty variant: the entry stays taken.
CreateFailsHoldingEntry(s) ==
    /\ made[s] = "claimed"
    /\ made' = [made EXCEPT ![s] = "failed"]
    /\ Quiet /\ UNCHANGED <<videoTable, scan, table, sourceVars, bufferVars>>

\* The properties or the stream cannot be made.
CreateFails(s) ==
    /\ made[s] = "claimed"
    /\ videoTable' = [videoTable EXCEPT ![table[s]] = nil]
    /\ made' = [made EXCEPT ![s] = "failed"]
    /\ Quiet /\ UNCHANGED <<scan, table, sourceVars, bufferVars>>

\* The stream is there and has its listener, and pw_stream_connect is called.
Connect(s) ==
    /\ made[s] = "claimed"
    /\ stream' = [stream EXCEPT ![s] = TRUE]
    /\ made' = [made EXCEPT ![s] = "connecting"]
    /\ Quiet
    /\ UNCHANGED <<videoTable, scan, table, closed, leaving, negotiated, size, renewing, bufferVars>>

Connected(s) ==
    /\ made[s] = "connecting"
    /\ made' = [made EXCEPT ![s] = "open"]
    /\ Quiet /\ UNCHANGED <<videoTable, scan, table, sourceVars, bufferVars>>

ConnectFails(s) ==
    /\ made[s] = "connecting"
    /\ made' = [made EXCEPT ![s] = "failed"]
    /\ StartTeardown(s)
    /\ UNCHANGED <<videoTable, scan, table>>

-----------------------------------------------------------------------------
(* The application, which has the source once NewVideoSource returned it   *)

Free(s) == {p \in Buffers : place[s][p] = "free"}

\* It calls a method: on the source's thread, so not from within its Destroy,
\* whose callbacks are kept from the handler.
Calls(s) == made[s] = "open" /\ ~leaving[s]

\* p can be handed out.
Usable(s, p) ==
    /\ userData[s][p] # 0
    /\ LET slot == slots[s][userData[s][p]]
       IN slot.live /\ ~slot.removed /\ ~slot.borrowed /\ slot.pw = p

\* PipeWire may give any free buffer first.  The unusable ones it gives before a
\* usable one, or instead of one, stay dequeued.  PipeWire has at most
\* MaxBuffers of them, so the bound on the code's loop is not met.
Dequeue(s) ==
    /\ Calls(s) /\ stream[s] /\ negotiated[s]
    /\ LET unusable == {p \in Free(s) : ~Usable(s, p)}
       IN \/ \E p \in Free(s) \ unusable, skipped \in SUBSET unusable :
                LET i == userData[s][p]
                IN /\ slots' = [slots EXCEPT ![s][i].borrowed = TRUE]
                   /\ lent' = [lent EXCEPT ![s] = @ \cup {<<i, slots[s][i].mem>>}]
                   /\ place' = [place EXCEPT ![s] = [q \in Buffers |->
                                  IF q \in skipped \cup {p} THEN "dequeued" ELSE @[q]]]
          \/ /\ Free(s) = unusable /\ unusable # {}
             /\ place' = [place EXCEPT ![s] = [q \in Buffers |->
                            IF q \in unusable THEN "dequeued" ELSE @[q]]]
             /\ UNCHANGED <<slots, lent>>
    /\ renewing' = [renewing EXCEPT ![s] = FALSE]
    /\ Quiet
    /\ UNCHANGED <<tableVars, stream, closed, leaving, negotiated, size, userData, chunk, mapped>>

slotOf(s, i) == slots[s][i].live /\ slots[s][i].borrowed

GiveBack(s, i) == lent' = [lent EXCEPT ![s] = {l \in @ : l[1] # i}]

\* Faulty variant: the slot is made reusable and its mapping stays.
ResetRemoved(s, i) ==
    /\ Calls(s) /\ slotOf(s, i)
    /\ slots[s][i].removed \/ ~stream[s]
    /\ slots' = [slots EXCEPT ![s][i] = EmptySlot]
    /\ GiveBack(s, i)
    /\ Quiet /\ UNCHANGED <<tableVars, sourceVars, place, userData, chunk, mapped>>

\* Queue and Release of a buffer that PipeWire, or the stream, is gone for.
FreeRemoved(s, i) ==
    /\ Calls(s) /\ slotOf(s, i)
    /\ slots[s][i].removed \/ ~stream[s]
    /\ freeSlot(s, i)
    /\ GiveBack(s, i)
    /\ Quiet /\ UNCHANGED <<tableVars, sourceVars, place, userData, chunk>>

HandOver(s, i, to) ==
    /\ Calls(s) /\ slotOf(s, i)
    /\ ~slots[s][i].removed /\ stream[s]
    /\ slots' = [slots EXCEPT ![s][i].borrowed = FALSE]
    /\ place' = [place EXCEPT ![s][slots[s][i].pw] = to]
    /\ GiveBack(s, i)
    /\ Quiet /\ UNCHANGED <<tableVars, sourceVars, userData, mapped>>

\* Faulty variants: the size negotiated last is announced, whatever the
\* mapping; the buffer stays marked as borrowed.
QueueCurrentSize(s, i) ==
    /\ HandOver(s, i, "graph")
    /\ chunk' = [chunk EXCEPT ![s][slots[s][i].pw] = size[s]]
QueueKeepsBorrowed(s, i) ==
    /\ Calls(s) /\ slotOf(s, i) /\ ~slots[s][i].removed /\ stream[s]
    /\ place' = [place EXCEPT ![s][slots[s][i].pw] = "graph"]
    /\ GiveBack(s, i)
    /\ Quiet /\ UNCHANGED <<tableVars, sourceVars, userData, mapped, slots, chunk>>

\* A corrupted frame announces no bytes.
Queue(s, i) ==
    /\ HandOver(s, i, "graph")
    /\ \E bytes \in {slots[s][i].bytes, 0} :
          chunk' = [chunk EXCEPT ![s][slots[s][i].pw] = bytes]

Release(s, i) == HandOver(s, i, "free") /\ UNCHANGED chunk

\* Faulty variant: borrowed buffers do not matter.
ResizeWhileBorrowed(s) ==
    /\ Calls(s) /\ stream[s]
    /\ renewing' = [renewing EXCEPT ![s] = TRUE]
    /\ Quiet /\ UNCHANGED <<tableVars, stream, closed, leaving, negotiated, size, bufferVars>>

\* PipeWire takes the new offer, and will answer with a format and replace every
\* buffer.  A Resize that is refused, here or by PipeWire, has no effect.
Resize(s) ==
    /\ Calls(s) /\ stream[s]
    /\ \A i \in Slots : ~slots[s][i].borrowed
    /\ renewing' = [renewing EXCEPT ![s] = TRUE]
    /\ Quiet /\ UNCHANGED <<tableVars, stream, closed, leaving, negotiated, size, bufferVars>>

Destroy(s) == Calls(s) /\ StartTeardown(s) /\ UNCHANGED tableVars

-----------------------------------------------------------------------------
(* PipeWire's callbacks, from the creation of the stream to the end of     *)
(* pw_stream_destroy: an event of the stream made for s reaches whatever    *)
(* source is in the entry its listener was given.                          *)

videoLookup(s) == videoTable[table[s]]

Event(s) == stream[s] /\ videoLookup(s) = s

onStateChanged(s) ==
    /\ Event(s)
    /\ Tells(s)
    /\ UNCHANGED <<tableVars, sourceVars, bufferVars>>

\* A format with no parameter; one that is not offered changes nothing.
FormatCleared(s) ==
    /\ Event(s)
    /\ negotiated' = [negotiated EXCEPT ![s] = FALSE]
    /\ Quiet /\ UNCHANGED <<tableVars, stream, closed, leaving, size, renewing, bufferVars>>

onParamChanged(s, bytes) ==
    /\ Event(s)
    /\ negotiated' = [negotiated EXCEPT ![s] = TRUE]
    /\ size' = [size EXCEPT ![s] = bytes]
    /\ Tells(s)
    /\ UNCHANGED <<tableVars, stream, closed, leaving, renewing, bufferVars>>

FirstEmpty(s, i) == ~slots[s][i].live /\ \A j \in 1 .. i - 1 : slots[s][j].live

\* The buffer cannot be used: nothing is negotiated, its memory is of another
\* kind, no slot is empty, or no memory is to be had.
AddUnusable(s, p) ==
    /\ Event(s) /\ place[s][p] = "absent"
    /\ place' = [place EXCEPT ![s][p] = "free"]
    /\ userData' = [userData EXCEPT ![s][p] = 0]
    /\ Quiet /\ UNCHANGED <<tableVars, sourceVars, slots, chunk, mapped, lent>>

\* Faulty variant: the user data is one more than the number of the slot.
onAddBufferOffByOne(s, p) ==
    /\ Event(s) /\ place[s][p] = "absent" /\ negotiated[s]
    /\ \E i \in Slots, m \in Maps \ mapped :
          /\ FirstEmpty(s, i)
          /\ mapped' = mapped \cup {m}
          /\ slots' = [slots EXCEPT ![s][i] =
                         [EmptySlot EXCEPT !.live = TRUE, !.pw = p, !.mem = m, !.bytes = size[s]]]
          /\ userData' = [userData EXCEPT ![s][p] = i + 1]
    /\ place' = [place EXCEPT ![s][p] = "free"]
    /\ Tells(s)
    /\ UNCHANGED <<tableVars, sourceVars, chunk, lent>>

onAddBuffer(s, p) ==
    /\ Event(s) /\ place[s][p] = "absent" /\ negotiated[s]
    /\ \E i \in Slots, m \in Maps \ mapped :
          /\ FirstEmpty(s, i)
          /\ mapped' = mapped \cup {m}
          /\ slots' = [slots EXCEPT ![s][i] =
                         [EmptySlot EXCEPT !.live = TRUE, !.pw = p, !.mem = m, !.bytes = size[s]]]
          /\ userData' = [userData EXCEPT ![s][p] = i]
          /\ chunk' = [chunk EXCEPT ![s][p] = size[s]]
    /\ place' = [place EXCEPT ![s][p] = "free"]
    /\ Tells(s)
    /\ UNCHANGED <<tableVars, sourceVars, lent>>

\* PipeWire takes back a buffer that has no slot.
RemoveUnusable(s, p) ==
    /\ Event(s) /\ place[s][p] # "absent"
    /\ userData[s][p] = 0
    /\ place' = [place EXCEPT ![s][p] = "absent"] /\ chunk' = [chunk EXCEPT ![s][p] = 0]
    /\ Quiet /\ UNCHANGED <<tableVars, sourceVars, slots, userData, mapped, lent>>

\* Faulty variants: the mapping goes although it is borrowed; the slot of a
\* borrowed buffer keeps its pw.
RemoveBorrowedToo(s, p) ==
    /\ Event(s) /\ place[s][p] # "absent"
    /\ userData[s][p] # 0
    /\ place' = [place EXCEPT ![s][p] = "absent"] /\ chunk' = [chunk EXCEPT ![s][p] = 0]
    /\ userData' = [userData EXCEPT ![s][p] = 0]
    /\ freeSlot(s, userData[s][p])
    /\ Tells(s)
    /\ UNCHANGED <<tableVars, sourceVars, lent>>
RemoveKeepsPw(s, p) ==
    /\ Event(s) /\ place[s][p] # "absent"
    /\ userData[s][p] # 0
    /\ place' = [place EXCEPT ![s][p] = "absent"] /\ chunk' = [chunk EXCEPT ![s][p] = 0]
    /\ userData' = [userData EXCEPT ![s][p] = 0]
    /\ LET i == userData[s][p]
       IN IF slots[s][i].borrowed
          THEN UNCHANGED <<slots, mapped>>
          ELSE freeSlot(s, i)
    /\ Tells(s)
    /\ UNCHANGED <<tableVars, sourceVars, lent>>

\* The owner of a borrowed buffer may still write into its mapping.
onRemoveBuffer(s, p) ==
    /\ Event(s) /\ place[s][p] # "absent"
    /\ userData[s][p] # 0
    /\ place' = [place EXCEPT ![s][p] = "absent"] /\ chunk' = [chunk EXCEPT ![s][p] = 0]
    /\ LET i == userData[s][p]
       IN IF ~slots[s][i].live \/ slots[s][i].pw # p
          THEN UNCHANGED <<slots, mapped, userData>> /\ Quiet
          ELSE /\ userData' = [userData EXCEPT ![s][p] = 0]
               /\ IF slots[s][i].borrowed
                  THEN slots' = [slots EXCEPT ![s][i] = Detached(@)] /\ UNCHANGED mapped
                  ELSE freeSlot(s, i)
               /\ Tells(s)
    /\ UNCHANGED <<tableVars, sourceVars, lent>>

\* The graph is done with a queued buffer.
Recycle(s, p) ==
    /\ Event(s) /\ place[s][p] = "graph"
    /\ place' = [place EXCEPT ![s][p] = "free"]
    /\ Quiet /\ UNCHANGED <<tableVars, sourceVars, slots, userData, chunk, mapped, lent>>

-----------------------------------------------------------------------------

NewVideoSource(s) ==
    ClaimEntry(s) \/ TableFull(s) \/ CreateFails(s) \/ Connect(s) \/ Connected(s) \/ ConnectFails(s)

Application(s) ==
    \/ Dequeue(s) \/ Resize(s) \/ Destroy(s)
    \/ \E i \in Slots : FreeRemoved(s, i) \/ Queue(s, i) \/ Release(s, i)

PipeWire(s) ==
    \/ onStateChanged(s) \/ FormatCleared(s)
    \/ \E bytes \in Sizes : onParamChanged(s, bytes)
    \/ \E p \in Buffers :
          \/ onAddBuffer(s, p) \/ AddUnusable(s, p)
          \/ onRemoveBuffer(s, p) \/ RemoveUnusable(s, p) \/ Recycle(s, p)

Next == \E s \in Sources : NewVideoSource(s) \/ Application(s) \/ EndTeardown(s) \/ PipeWire(s)

Spec == Init /\ [][Next]_vars

-----------------------------------------------------------------------------
(* Properties.                                                             *)

SlotType ==
    {slot \in [live : BOOLEAN, pw : Buffers \cup {nil}, removed : BOOLEAN, borrowed : BOOLEAN,
               mem : Maps \cup {nil}, bytes : Sizes \cup {0}] : slot.live => slot.mem # nil}
TableType ==
    /\ videoTable \in [Entries -> Sources \cup {nil}]
    /\ made \in [Sources -> {"no", "claimed", "connecting", "open", "failed"}]
    /\ scan \in [Sources -> Entries \cup {MaxSources + 1}]
    /\ table \in [Sources -> Entries \cup {0}]
SourceType ==
    /\ stream \in [Sources -> BOOLEAN]
    /\ closed \in [Sources -> BOOLEAN] /\ leaving \in [Sources -> BOOLEAN]
    /\ negotiated \in [Sources -> BOOLEAN] /\ size \in [Sources -> Sizes \cup {0}]
    /\ renewing \in [Sources -> BOOLEAN]
BufferType ==
    /\ slots \in [Sources -> [Slots -> SlotType]]
    /\ place \in [Sources -> [Buffers -> Places]]
    /\ userData \in [Sources -> [Buffers -> Slots \cup {0}]]
    /\ chunk \in [Sources -> [Buffers -> Sizes \cup {0}]]
    /\ mapped \in SUBSET Maps
    /\ lent \in [Sources -> SUBSET (Slots \X Maps)]

\* Every variable stays in its domain.
TypeOK ==
    /\ TableType /\ SourceType /\ BufferType
    /\ told \in Sources \cup {nil}

Borrowed == {l[2] : l \in UNION {lent[s] : s \in Sources}}

\* What the application borrowed is lent to it alone and stays mapped until it
\* gives it back, even when PipeWire removes the buffer, the format changes, the
\* source is destroyed or another source maps and unmaps meanwhile (VideoBuffer:
\* Data "stays valid until the buffer is given back").
Lending == INSTANCE VideoLending WITH borrowed <- Borrowed
LendsAsPromised == Lending!Spec

\* A mapping is in place while exactly one slot holds it, and otherwise not:
\* none is leaked, none is unmapped twice, and no two buffers share one.
Holds(s, i, m) == slots[s][i].live /\ slots[s][i].mem = m
MappingsOwned ==
    /\ \A m \in Maps : m \in mapped <=> \E s \in Sources, i \in Slots : Holds(s, i, m)
    /\ \A m \in Maps, s, t \in Sources, i, j \in Slots :
          Holds(s, i, m) /\ Holds(t, j, m) => s = t /\ i = j

\* A slot in use belongs to a buffer that PipeWire still has, which names it,
\* or to a borrower: no slot points to a struct pw_buffer that is gone, none is
\* lost, and after Destroy only borrowers hold any.
SlotsAttached ==
    \A s \in Sources :
        /\ \A i \in Slots : slots[s][i].live =>
              LET p == slots[s][i].pw
              IN IF p = nil THEN slots[s][i].removed /\ slots[s][i].borrowed
                            ELSE place[s][p] # "absent" /\ userData[s][p] = i
        /\ \A p \in Buffers : userData[s][p] # 0 =>
              slots[s][userData[s][p]].live /\ slots[s][userData[s][p]].pw = p

\* A buffer is in one pair of hands: the slot knows who has its memory, and
\* PipeWire, while it has the buffer, agrees.
HandedOutOnce ==
    \A s \in Sources :
        /\ \A l \in lent[s] : slots[s][l[1]].borrowed
        /\ \A i \in Slots : slots[s][i].borrowed => <<i, slots[s][i].mem>> \in lent[s]
        /\ \A p \in Buffers : userData[s][p] # 0 =>
              (slots[s][userData[s][p]].borrowed <=> place[s][p] = "dequeued")

\* What a queued frame announces fits its mapping, whatever size was negotiated
\* since the mapping was made.
ChunkFits ==
    \A s \in Sources, p \in Buffers : place[s][p] = "graph" =>
        userData[s][p] # 0 /\ chunk[s][p] <= slots[s][userData[s][p]].bytes

\* After a Resize, while nothing is dequeued, every buffer PipeWire adds finds an
\* empty slot, however old and new buffers follow each other: "PipeWire replaces
\* every buffer, and the replacements need the slots the borrowed ones hold."
ResizeFindsSlots ==
    \A s \in Sources :
        /\ stream[s] /\ renewing[s]
        /\ Cardinality({p \in Buffers : place[s][p] # "absent"}) < MaxBuffers
        => \E i \in Slots : ~slots[s][i].live

\* "No handler callback runs after Destroy starts": not for the events that come
\* while the stream is disconnected and destroyed, and not later; nor for a source
\* whose connection failed, which the application never gets.
Over(s) == leaving[s] \/ made[s] = "failed" \/ (made[s] = "open" /\ ~stream[s])
ClosedIsSilent == told # nil => ~Over(told)

\* As long as a stream exists, also while it is disconnected, its events reach its
\* own source.
CallbacksReachOwner == \A s \in Sources : stream[s] => videoLookup(s) = s

\* Only a source that is being made or has its stream holds an entry.
EntriesReleased ==
    \A k \in Entries : videoTable[k] # nil =>
        made[videoTable[k]] = "claimed" \/ stream[videoTable[k]]

=============================================================================
