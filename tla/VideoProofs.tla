----------------------------- MODULE VideoProofs -----------------------------
(***************************************************************************)
(* Theorems about VideoSource for any number of sources, table entries,    *)
(* slots, buffers, mappings and frame sizes.                               *)
(***************************************************************************)
EXTENDS VideoSource, FiniteSetTheorems, TLAPS

-----------------------------------------------------------------------------
(* Type correctness.                                                       *)

LEMMA SlotTypes ==
    /\ EmptySlot \in SlotType
    /\ \A slot \in SlotType : Detached(slot) \in SlotType
    /\ \A slot \in SlotType, yes \in BOOLEAN : [slot EXCEPT !.borrowed = yes] \in SlotType
    /\ \A slot \in SlotType : slot.live => slot.mem \in Maps
BY DEF EmptySlot, SlotType, Detached

LEMMA UnmapType ==
    ASSUME BufferType, NEW s \in Sources, NEW I, Unmap(s, I) PROVE mapped' \in SUBSET Maps
BY DEF BufferType, Unmap

LEMMA DropType ==
    ASSUME BufferType, NEW s \in Sources, DropBuffers(s), UNCHANGED lent PROVE BufferType'
<1> DEFINE I == {i \in Slots : ~slots[s][i].borrowed}
           kept == [i \in Slots |-> IF i \in I THEN EmptySlot ELSE Detached(slots[s][i])]
<1>1. kept \in [Slots -> SlotType] BY SlotTypes DEF BufferType
<1>2. slots' = [slots EXCEPT ![s] = kept] BY DEF DropBuffers
<1>3. slots' \in [Sources -> [Slots -> SlotType]] BY <1>1, <1>2 DEF BufferType
<1>4. mapped' \in SUBSET Maps BY UnmapType DEF DropBuffers
<1> QED BY <1>3, <1>4 DEF DropBuffers, BufferType, Places

LEMMA FreeSlotType ==
    ASSUME BufferType, NEW s \in Sources, NEW i \in Slots, freeSlot(s, i)
    PROVE  slots' \in [Sources -> [Slots -> SlotType]] /\ mapped' \in SUBSET Maps
BY SlotTypes, UnmapType DEF freeSlot, BufferType

LEMMA ApplicationType ==
    ASSUME TypeOK, NEW s \in Sources, Application(s) PROVE TypeOK'
<1> USE DEF TypeOK
<1>1. CASE Dequeue(s)
  <2>1. ASSUME NEW p \in Buffers, Usable(s, p)
        PROVE  userData[s][p] \in Slots /\ slots[s][userData[s][p]].live
    BY <2>1 DEF Usable, BufferType
  <2>2. ASSUME NEW i \in Slots, slots[s][i].live, slots' = [slots EXCEPT ![s][i].borrowed = TRUE]
        PROVE  slots' \in [Sources -> [Slots -> SlotType]]
    BY <2>2, SlotTypes DEF BufferType
  <2>3. slots' \in [Sources -> [Slots -> SlotType]]
    BY <1>1, <2>1, <2>2 DEF Dequeue, Free, BufferType
  <2>4. ASSUME NEW i \in Slots, slots[s][i].live PROVE slots[s][i].mem \in Maps
    BY <2>4, SlotTypes DEF BufferType
  <2>5. lent' \in [Sources -> SUBSET (Slots \X Maps)]
    <3>1. CASE UNCHANGED lent BY <3>1 DEF BufferType
    <3>2. CASE \E i \in Slots : /\ slots[s][i].live
                                /\ lent' = [lent EXCEPT ![s] = @ \cup {<<i, slots[s][i].mem>>}]
      BY <3>2, <2>4 DEF BufferType
    <3> QED BY <1>1, <2>1, <3>1, <3>2 DEF Dequeue, Free
  <2>6. place' \in [Sources -> [Buffers -> Places]]
    <3>1. PICK out : place' = [place EXCEPT ![s] = [q \in Buffers |-> IF q \in out THEN "dequeued" ELSE @[q]]]
      BY <1>1 DEF Dequeue
    <3> QED BY <3>1 DEF BufferType, Places
  <2> QED BY <1>1, <2>3, <2>5, <2>6
          DEF Dequeue, Quiet, tableVars, TableType, SourceType, BufferType
<1>2. CASE Resize(s) BY <1>2 DEF Resize, Quiet, tableVars, bufferVars, TableType, SourceType, BufferType
<1>3. CASE Destroy(s)
  BY <1>3 DEF Destroy, StartTeardown, Quiet, tableVars, bufferVars, TableType, SourceType, BufferType
<1>4. ASSUME NEW i \in Slots, FreeRemoved(s, i) PROVE TypeOK'
  <2>1. lent' \in [Sources -> SUBSET (Slots \X Maps)] BY <1>4 DEF FreeRemoved, GiveBack, BufferType
  <2>2. BufferType' BY <1>4, <2>1, FreeSlotType DEF FreeRemoved, BufferType
  <2> QED BY <1>4, <2>2 DEF FreeRemoved, Quiet, tableVars, sourceVars, TableType, SourceType
<1>5. ASSUME NEW i \in Slots, Queue(s, i) \/ Release(s, i) PROVE TypeOK'
  <2>1. PICK to \in Places : HandOver(s, i, to) BY <1>5 DEF Queue, Release, Places
  <2>2. lent' \in [Sources -> SUBSET (Slots \X Maps)] BY <2>1 DEF HandOver, GiveBack, BufferType
  <2>3. slots' \in [Sources -> [Slots -> SlotType]] BY <2>1, SlotTypes DEF HandOver, BufferType
  <2>4. place' \in [Sources -> [Buffers -> Places]] BY <2>1 DEF HandOver, BufferType
  <2>5. chunk' \in [Sources -> [Buffers -> Sizes \cup {0}]]
    <3>1. CASE Release(s, i) BY <3>1 DEF Release, BufferType
    <3>2. CASE Queue(s, i)
      <4>1. slots[s][i].bytes \in Sizes \cup {0} BY DEF BufferType, SlotType
      <4>2. PICK bytes \in Sizes \cup {0} : chunk' = [chunk EXCEPT ![s][slots[s][i].pw] = bytes]
        BY <3>2, <4>1 DEF Queue
      <4> QED BY <4>2 DEF BufferType
    <3> QED BY <1>5, <3>1, <3>2
  <2> QED BY <2>1, <2>2, <2>3, <2>4, <2>5
          DEF HandOver, Quiet, tableVars, sourceVars, TableType, SourceType, BufferType
<1> QED BY <1>1, <1>2, <1>3, <1>4, <1>5 DEF Application

LEMMA NewType ==
    ASSUME TypeOK, NEW s \in Sources, NewVideoSource(s) PROVE TypeOK'
<1> USE DEF TypeOK
<1>1. CASE ClaimEntry(s)
  <2>1. /\ videoTable' \in [Entries -> Sources \cup {nil}]
        /\ table' \in [Sources -> Entries \cup {0}]
        /\ made' \in [Sources -> {"no", "claimed", "connecting", "open", "failed"}]
    BY <1>1 DEF ClaimEntry, TableType
  <2>2. scan' \in [Sources -> Entries \cup {MaxSources + 1}]
    <3>1. scan[s] + 1 \in Entries \cup {MaxSources + 1}
      BY <1>1, LimitsAssumption DEF ClaimEntry, Entries
    <3> QED BY <1>1, <3>1 DEF ClaimEntry, TableType
  <2> QED BY <1>1, <2>1, <2>2
          DEF ClaimEntry, Quiet, TableType, sourceVars, bufferVars, SourceType, BufferType
<1>2. CASE TableFull(s) \/ CreateFails(s) \/ Connected(s)
  BY <1>2 DEF TableFull, CreateFails, Connected, Quiet, TableType, sourceVars, bufferVars, SourceType,
              BufferType
<1>3. CASE Connect(s) BY <1>3 DEF Connect, Quiet, TableType, bufferVars, SourceType, BufferType
<1>4. CASE ConnectFails(s)
  BY <1>4 DEF ConnectFails, StartTeardown, Quiet, bufferVars, TableType, SourceType, BufferType
<1> QED BY <1>1, <1>2, <1>3, <1>4 DEF NewVideoSource

LEMMA EndType ==
    ASSUME TypeOK, NEW s \in Sources, EndTeardown(s) PROVE TypeOK'
<1>1. BufferType' BY DropType DEF EndTeardown, TypeOK
<1> QED BY <1>1 DEF EndTeardown, Quiet, TypeOK, TableType, SourceType

LEMMA PipeWireType ==
    ASSUME TypeOK, NEW s \in Sources, PipeWire(s) PROVE TypeOK'
<1> USE DEF TypeOK
<1>1. CASE onStateChanged(s)
  BY <1>1 DEF onStateChanged, Tells, tableVars, sourceVars, bufferVars, TableType, SourceType, BufferType
<1>2. CASE FormatCleared(s)
  BY <1>2 DEF FormatCleared, Quiet, tableVars, bufferVars, TableType, SourceType, BufferType
<1>3. ASSUME NEW bytes \in Sizes, onParamChanged(s, bytes) PROVE TypeOK'
  BY <1>3 DEF onParamChanged, Tells, tableVars, bufferVars, TableType, SourceType, BufferType
<1>4. ASSUME NEW p \in Buffers, onAddBuffer(s, p) PROVE TypeOK'
  <2>1. PICK i \in Slots, m \in Maps :
           /\ mapped' = mapped \cup {m}
           /\ slots' = [slots EXCEPT ![s][i] =
                         [EmptySlot EXCEPT !.live = TRUE, !.pw = p, !.mem = m, !.bytes = size[s]]]
           /\ userData' = [userData EXCEPT ![s][p] = i]
           /\ chunk' = [chunk EXCEPT ![s][p] = size[s]]
    BY <1>4 DEF onAddBuffer
  <2>2. [EmptySlot EXCEPT !.live = TRUE, !.pw = p, !.mem = m, !.bytes = size[s]] \in SlotType
    BY NilAssumption DEF EmptySlot, SlotType, SourceType
  <2>3. slots' \in [Sources -> [Slots -> SlotType]] BY <2>1, <2>2 DEF BufferType
  <2>4. chunk' \in [Sources -> [Buffers -> Sizes \cup {0}]] BY <2>1 DEF BufferType, SourceType
  <2> QED BY <1>4, <2>1, <2>3, <2>4
          DEF onAddBuffer, Tells, tableVars, sourceVars, TableType, SourceType, BufferType, Places
<1>5. ASSUME NEW p \in Buffers, AddUnusable(s, p) \/ RemoveUnusable(s, p) \/ Recycle(s, p)
      PROVE  TypeOK'
  <2>1. CASE AddUnusable(s, p)
    BY <2>1 DEF AddUnusable, Quiet, tableVars, sourceVars, TableType, SourceType, BufferType, Places
  <2>2. CASE RemoveUnusable(s, p)
    BY <2>2 DEF RemoveUnusable, Quiet, tableVars, sourceVars, TableType, SourceType, BufferType, Places
  <2>3. CASE Recycle(s, p)
    BY <2>3 DEF Recycle, Quiet, tableVars, sourceVars, TableType, SourceType, BufferType, Places
  <2> QED BY <1>5, <2>1, <2>2, <2>3
<1>6. ASSUME NEW p \in Buffers, onRemoveBuffer(s, p) PROVE TypeOK'
  <2>1. userData[s][p] \in Slots BY <1>6 DEF onRemoveBuffer, BufferType
  <2>2. slots' \in [Sources -> [Slots -> SlotType]] /\ mapped' \in SUBSET Maps
    <3>1. CASE UNCHANGED <<slots, mapped>> BY <3>1 DEF BufferType
    <3>2. CASE freeSlot(s, userData[s][p]) BY <3>2, <2>1, FreeSlotType
    <3>3. CASE slots' = [slots EXCEPT ![s][userData[s][p]] = Detached(@)] /\ UNCHANGED mapped
      BY <3>3, <2>1, SlotTypes DEF BufferType
    <3> QED BY <1>6, <3>1, <3>2, <3>3 DEF onRemoveBuffer
  <2>3. userData' \in [Sources -> [Buffers -> Slots \cup {0}]]
    <3>1. \/ UNCHANGED userData
          \/ userData' = [userData EXCEPT ![s][p] = 0]
      BY <1>6 DEF onRemoveBuffer
    <3>2. CASE userData' = [userData EXCEPT ![s][p] = 0] BY <3>2 DEF BufferType
    <3> QED BY <3>1, <3>2 DEF BufferType
  <2>4. told' \in Sources \cup {nil}
    BY <1>6 DEF onRemoveBuffer, Quiet, Tells
  <2> QED BY <1>6, <2>2, <2>3, <2>4
          DEF onRemoveBuffer, tableVars, sourceVars, TableType, SourceType, BufferType, Places
<1> QED BY <1>1, <1>2, <1>3, <1>4, <1>5, <1>6 DEF PipeWire

LEMMA InitType == Init => TypeOK
<1>1. Init => TableType BY LimitsAssumption DEF Init, TableType, Entries
<1>2. Init => SourceType /\ BufferType BY SlotTypes DEF Init, SourceType, BufferType, Places
<1> QED BY <1>1, <1>2 DEF Init, TypeOK

LEMMA NextType == TypeOK /\ [Next]_vars => TypeOK'
<1> SUFFICES ASSUME TypeOK, [Next]_vars PROVE TypeOK'
  OBVIOUS
<1>1. CASE UNCHANGED vars
  BY <1>1 DEF vars, tableVars, sourceVars, bufferVars, TypeOK, TableType, SourceType, BufferType
<1> QED BY <1>1, NewType, ApplicationType, EndType, PipeWireType DEF Next

\* Every variable of the sources, of PipeWire's buffers and of the system's
\* mappings stays in its domain.
THEOREM TypeCorrect == Spec => []TypeOK
BY InitType, NextType, PTL DEF Spec

-----------------------------------------------------------------------------
(* The source table.                                                       *)

\* A source that holds an entry and the entry name each other; a destroyed source
\* does not remember the entry it had.
TableInv ==
    /\ \A s \in Sources : made[s] = "claimed" \/ stream[s] =>
          table[s] \in Entries /\ videoTable[table[s]] = s
    /\ \A s \in Sources : made[s] = "open" /\ ~stream[s] => table[s] = 0
    /\ \A s \in Sources : made[s] \in {"no", "claimed"} => ~stream[s]
    /\ \A s \in Sources : made[s] = "connecting" => stream[s] /\ ~leaving[s]
    /\ \A s \in Sources : leaving[s] => made[s] = "open" \/ (stream[s] /\ made[s] = "failed")
    /\ \A k \in Entries : videoTable[k] # nil =>
          /\ made[videoTable[k]] = "claimed" \/ stream[videoTable[k]]
          /\ table[videoTable[k]] = k

\* teardown gives back the entry of s, if it has one, and no other one.
LEMMA EndTable ==
    ASSUME TypeOK, TableInv, NEW s \in Sources, EndTeardown(s) PROVE TableInv'
<1> USE DEF TypeOK, TableType, SourceType, Entries
<1>1. /\ ~stream'[s] /\ table'[s] = 0 /\ UNCHANGED made /\ ~leaving'[s]
      /\ \A t \in Sources \ {s} :
            stream'[t] = stream[t] /\ table'[t] = table[t] /\ leaving'[t] = leaving[t]
      /\ \A k \in Entries : videoTable'[k] = IF k = table[s] THEN nil ELSE videoTable[k]
      /\ made[s] \in {"open", "failed"}
  BY DEF EndTeardown, TableInv
<1>2. ASSUME NEW t \in Sources \ {s}, made[t] = "claimed" \/ stream[t]
      PROVE  table[t] \in Entries /\ videoTable[table[t]] = t /\ table[t] # table[s]
  <2>1. table[t] \in Entries /\ videoTable[table[t]] = t BY <1>2 DEF TableInv
  <2>2. CASE stream[s] BY <2>1, <2>2 DEF TableInv
  <2>3. CASE made[s] = "open" /\ ~stream[s] BY <2>1, <2>3, LimitsAssumption DEF TableInv
  <2> QED BY <2>2, <2>3 DEF EndTeardown, TableInv
<1>3. \A t \in Sources : (made[t] = "claimed" \/ stream[t])' =>
         table'[t] \in Entries /\ videoTable'[table'[t]] = t
  BY <1>1, <1>2
<1>4. /\ \A t \in Sources : made'[t] = "open" /\ ~stream'[t] => table'[t] = 0
      /\ \A t \in Sources : made'[t] \in {"no", "claimed"} => ~stream'[t]
      /\ \A t \in Sources : made'[t] = "connecting" => stream'[t] /\ ~leaving'[t]
      /\ \A t \in Sources : leaving'[t] => made'[t] = "open" \/ (stream'[t] /\ made'[t] = "failed")
  BY <1>1 DEF TableInv
<1>5. ASSUME NEW k \in Entries, videoTable'[k] # nil
      PROVE  /\ (made[videoTable[k]] = "claimed" \/ stream[videoTable[k]])'
             /\ table[videoTable[k]]' = k
  <2>1. k # table[s] /\ videoTable'[k] = videoTable[k] /\ videoTable[k] \in Sources
    BY <1>1, <1>5
  <2>2. /\ made[videoTable[k]] = "claimed" \/ stream[videoTable[k]]
        /\ table[videoTable[k]] = k
    BY <1>5, <2>1 DEF TableInv
  <2>3. videoTable[k] # s BY <2>1, <2>2
  <2> QED BY <1>1, <2>1, <2>2, <2>3
<1> HIDE DEF TypeOK, TableType, SourceType, Entries
<1> QED BY <1>3, <1>4, <1>5 DEF TableInv

LEMMA NewTable ==
    ASSUME TypeOK, TableInv, NEW s \in Sources, NewVideoSource(s) PROVE TableInv'
<1> USE DEF TypeOK, TableType, SourceType, Entries
<1>1. CASE ClaimEntry(s)
  <2>1. CASE /\ videoTable[scan[s]] = nil
             /\ videoTable' = [videoTable EXCEPT ![scan[s]] = s]
             /\ table' = [table EXCEPT ![s] = scan[s]]
             /\ made' = [made EXCEPT ![s] = "claimed"]
    BY <1>1, <2>1, NilAssumption DEF ClaimEntry, sourceVars, TableInv
  <2>2. CASE UNCHANGED <<videoTable, table, made>>
    BY <1>1, <2>2 DEF ClaimEntry, sourceVars, TableInv
  <2> QED BY <1>1, <2>1, <2>2 DEF ClaimEntry
<1>2. CASE TableFull(s) BY <1>2, NilAssumption DEF TableFull, sourceVars, TableInv
<1>3. CASE CreateFails(s) BY <1>3, NilAssumption DEF CreateFails, sourceVars, TableInv
<1>4. CASE Connect(s) BY <1>4, NilAssumption DEF Connect, TableInv
<1>5. CASE Connected(s) BY <1>5, NilAssumption DEF Connected, sourceVars, TableInv
<1>6. CASE ConnectFails(s) BY <1>6, NilAssumption DEF ConnectFails, StartTeardown, TableInv
<1> QED BY <1>1, <1>2, <1>3, <1>4, <1>5, <1>6 DEF NewVideoSource

\* Only NewVideoSource, Destroy and teardown touch the table and the streams.
LEMMA NextTable == TypeOK /\ TableInv /\ [Next]_vars => TableInv'
<1> SUFFICES ASSUME TypeOK, TableInv, [Next]_vars PROVE TableInv'
  OBVIOUS
<1>1. CASE UNCHANGED <<tableVars, stream, leaving>> BY <1>1 DEF TableInv, tableVars
<1>2. ASSUME NEW s \in Sources, PipeWire(s) PROVE UNCHANGED <<tableVars, stream, leaving>>
  BY <1>2 DEF PipeWire, onStateChanged, FormatCleared, onParamChanged, onAddBuffer, AddUnusable,
              onRemoveBuffer, RemoveUnusable, Recycle, sourceVars
<1>3. ASSUME NEW s \in Sources, Application(s), ~Destroy(s)
      PROVE  UNCHANGED <<tableVars, stream, leaving>>
  BY <1>3 DEF Application, Dequeue, Resize, FreeRemoved, Queue, Release, HandOver, sourceVars
<1>4. ASSUME NEW s \in Sources, Destroy(s) PROVE TableInv'
  <2>1. /\ UNCHANGED <<videoTable, made, table, stream>> /\ made[s] = "open"
        /\ \A t \in Sources \ {s} : leaving'[t] = leaving[t]
    BY <1>4 DEF Destroy, Calls, StartTeardown, tableVars, TypeOK, SourceType
  <2> QED BY <2>1 DEF TableInv
<1>5. CASE UNCHANGED vars BY <1>1, <1>5 DEF vars, sourceVars
<1> QED BY <1>1, <1>2, <1>3, <1>4, <1>5, NewTable, EndTable DEF Next

LEMMA InitTable == Init => TableInv
BY NilAssumption DEF Init, TableInv

\* As long as a stream exists its events reach its own source, however often
\* other sources are made, fail and are destroyed, also twice.
THEOREM EventsReachOwner == Spec => []CallbacksReachOwner
<1>1. TableInv => CallbacksReachOwner BY DEF TableInv, CallbacksReachOwner, videoLookup
<1> QED BY <1>1, InitType, NextType, InitTable, NextTable, PTL DEF Spec

\* Only a source that is being made or has its stream holds an entry of the
\* table, so that failures and destruction never fill it up.
THEOREM NoEntryLost == Spec => []EntriesReleased
<1>1. TableInv => EntriesReleased BY DEF TableInv, EntriesReleased
<1> QED BY <1>1, InitType, NextType, InitTable, NextTable, PTL DEF Spec

-----------------------------------------------------------------------------
(* Mappings and borrowers.                                                 *)

\* A borrowed slot is in use, and is what its borrower thinks it has.
LentInv ==
    \A s \in Sources :
        /\ \A i \in Slots : slots[s][i].borrowed =>
              slots[s][i].live /\ <<i, slots[s][i].mem>> \in lent[s]
        /\ \A l \in lent[s] : slots[s][l[1]].borrowed /\ slots[s][l[1]].mem = l[2]

MemoryInv == MappingsOwned /\ LentInv

\* The slots outside of I keep their memory, or nothing.
KeepMemory(s, I) ==
    \A t \in Sources, j \in Slots : ~(t = s /\ j \in I) =>
        slots'[t][j].live = slots[t][j].live /\ slots'[t][j].mem = slots[t][j].mem

\* Slots freed take their mappings with them, and only those.
LEMMA FreedOwned ==
    ASSUME TypeOK, MappingsOwned, NEW s \in Sources, NEW I \in SUBSET Slots, Unmap(s, I),
           KeepMemory(s, I), \A i \in I : ~slots'[s][i].live
    PROVE  MappingsOwned'
<1>1. ASSUME NEW m \in Maps PROVE
         m \in mapped' <=> m \in mapped /\ ~\E i \in I : Holds(s, i, m)
  BY DEF Unmap, Holds
<1>2. ASSUME NEW t \in Sources, NEW j \in Slots, NEW m \in Maps PROVE
         Holds(t, j, m)' <=> Holds(t, j, m) /\ ~(t = s /\ j \in I)
  BY DEF KeepMemory, Holds
<1>3. ASSUME NEW m \in Maps PROVE m \in mapped' <=> \E t \in Sources, j \in Slots : Holds(t, j, m)'
  <2>1. CASE \E i \in I : Holds(s, i, m)
    <3>1. \A t \in Sources, j \in Slots : Holds(t, j, m) => t = s /\ j \in I
      BY <2>1 DEF MappingsOwned
    <3> QED BY <1>1, <1>2, <2>1, <3>1
  <2>2. CASE ~\E i \in I : Holds(s, i, m) BY <1>1, <1>2, <2>2 DEF MappingsOwned
  <2> QED BY <2>1, <2>2
<1>4. ASSUME NEW m \in Maps, NEW t \in Sources, NEW u \in Sources, NEW i \in Slots, NEW j \in Slots,
             Holds(t, i, m)', Holds(u, j, m)'
      PROVE  t = u /\ i = j
  BY <1>2, <1>4 DEF MappingsOwned
<1> QED BY <1>3, <1>4 DEF MappingsOwned

\* A free mapping goes to an empty slot.
LEMMA AddedOwned ==
    ASSUME TypeOK, MappingsOwned, NEW s \in Sources, NEW i \in Slots, NEW m \in Maps \ mapped,
           ~slots[s][i].live, mapped' = mapped \cup {m}, KeepMemory(s, {i}),
           slots'[s][i].live, slots'[s][i].mem = m
    PROVE  MappingsOwned'
<1>1. ASSUME NEW t \in Sources, NEW j \in Slots, NEW n \in Maps PROVE
         Holds(t, j, n)' <=> Holds(t, j, n) \/ (t = s /\ j = i /\ n = m)
  BY DEF KeepMemory, Holds
<1>2. \A t \in Sources, j \in Slots : ~Holds(t, j, m) BY DEF MappingsOwned
<1>3. ASSUME NEW n \in Maps PROVE n \in mapped' <=> \E t \in Sources, j \in Slots : Holds(t, j, n)'
  BY <1>1 DEF MappingsOwned
<1>4. ASSUME NEW n \in Maps, NEW t \in Sources, NEW u \in Sources, NEW k \in Slots, NEW j \in Slots,
             Holds(t, k, n)', Holds(u, j, n)'
      PROVE  t = u /\ k = j
  BY <1>1, <1>2, <1>4 DEF MappingsOwned
<1> QED BY <1>3, <1>4 DEF MappingsOwned

LEMMA KeptOwned ==
    ASSUME TypeOK, MappingsOwned, NEW s \in Sources, UNCHANGED mapped, KeepMemory(s, {})
    PROVE  MappingsOwned'
<1>1. ASSUME NEW t \in Sources, NEW j \in Slots, NEW m \in Maps PROVE
         Holds(t, j, m)' <=> Holds(t, j, m)
  BY DEF KeepMemory, Holds
<1> QED BY <1>1 DEF MappingsOwned

LEMMA TeardownMemory ==
    ASSUME TypeOK, MemoryInv, NEW s \in Sources, EndTeardown(s) PROVE MemoryInv'
<1> USE DEF TypeOK, BufferType
<1> DEFINE I == {i \in Slots : ~slots[s][i].borrowed}
<1>1. /\ \A t \in Sources \ {s} : slots'[t] = slots[t]
      /\ \A i \in I : slots'[s][i] = EmptySlot
      /\ \A i \in Slots \ I : slots'[s][i] = Detached(slots[s][i])
  BY DEF EndTeardown, DropBuffers
<1>2. ASSUME NEW i \in Slots \ I
      PROVE  /\ slots'[s][i].live = slots[s][i].live /\ slots'[s][i].mem = slots[s][i].mem
             /\ slots'[s][i].borrowed = slots[s][i].borrowed
  <2>1. slots[s][i] \in SlotType /\ slots'[s][i] = Detached(slots[s][i]) BY <1>1
  <2> QED BY <2>1 DEF Detached, SlotType
<1>3. KeepMemory(s, I) BY <1>1, <1>2 DEF KeepMemory
<1>4. \A i \in I : ~slots'[s][i].live /\ ~slots'[s][i].borrowed BY <1>1 DEF EmptySlot
<1>5. Unmap(s, I) BY DEF EndTeardown, DropBuffers
<1>6. MappingsOwned' BY <1>3, <1>4, <1>5, FreedOwned DEF MemoryInv
<1>7. LentInv'
  <2>1. ASSUME NEW i \in Slots PROVE
           /\ slots'[s][i].borrowed <=> slots[s][i].borrowed
           /\ slots[s][i].borrowed => slots'[s][i].live = slots[s][i].live /\ slots'[s][i].mem = slots[s][i].mem
    BY <1>2, <1>4
  <2>2. UNCHANGED lent BY DEF EndTeardown
  <2>3. \A l \in lent[s] : l[1] \in Slots OBVIOUS
  <2>4. \A i \in Slots : slots'[s][i].borrowed =>
           slots'[s][i].live /\ <<i, slots'[s][i].mem>> \in lent'[s]
    BY <2>1, <2>2 DEF MemoryInv, LentInv
  <2>5. \A l \in lent'[s] : slots'[s][l[1]].borrowed /\ slots'[s][l[1]].mem = l[2]
    BY <2>1, <2>2, <2>3 DEF MemoryInv, LentInv
  <2> HIDE DEF TypeOK, BufferType
  <2> QED BY <1>1, <2>2, <2>4, <2>5 DEF MemoryInv, LentInv
<1> QED BY <1>6, <1>7 DEF MemoryInv

\* A step that changes one slot, and what is lent of it.
OnlySlot(s, i) ==
    /\ \A t \in Sources, j \in Slots : ~(t = s /\ j = i) => slots'[t][j] = slots[t][j]
    /\ \A t \in Sources \ {s} : lent'[t] = lent[t]
    /\ \A j \in Slots \ {i}, m \in Maps : <<j, m>> \in lent'[s] <=> <<j, m>> \in lent[s]

LEMMA OnlySlotLent ==
    ASSUME TypeOK, TypeOK', LentInv, NEW s \in Sources, NEW i \in Slots, OnlySlot(s, i),
           slots'[s][i].borrowed => slots'[s][i].live /\ <<i, slots'[s][i].mem>> \in lent'[s],
           \A m \in Maps : <<i, m>> \in lent'[s] => slots'[s][i].borrowed /\ slots'[s][i].mem = m
    PROVE  LentInv'
<1>1. ASSUME NEW t \in Sources, NEW j \in Slots, slots'[t][j].borrowed
      PROVE  slots'[t][j].live /\ <<j, slots'[t][j].mem>> \in lent'[t]
  <2>1. slots'[t][j].live => slots'[t][j].mem \in Maps
    BY SlotTypes DEF TypeOK, BufferType
  <2> QED BY <1>1, <2>1 DEF OnlySlot, LentInv
<1>2. ASSUME NEW t \in Sources, NEW l \in lent'[t]
      PROVE  slots'[t][l[1]].borrowed /\ slots'[t][l[1]].mem = l[2]
  <2>1. PICK j \in Slots, m \in Maps : l = <<j, m>> BY DEF TypeOK, BufferType
  <2>2. CASE t = s /\ j = i BY <2>1, <2>2
  <2>3. CASE ~(t = s /\ j = i)
    <3>1. l \in lent[t] BY <2>1, <2>3 DEF OnlySlot
    <3> QED BY <2>1, <2>3, <3>1 DEF OnlySlot, LentInv
  <2> QED BY <2>2, <2>3
<1> QED BY <1>1, <1>2 DEF LentInv

\* What Dequeue does when it hands a buffer out.
LEMMA DequeueLends ==
    ASSUME TypeOK, NEW s \in Sources, Dequeue(s)
    PROVE  \/ UNCHANGED <<slots, lent>>
           \/ \E i \in Slots :
                 /\ slots[s][i].live /\ ~slots[s][i].borrowed
                 /\ slots' = [slots EXCEPT ![s][i].borrowed = TRUE]
                 /\ lent' = [lent EXCEPT ![s] = @ \cup {<<i, slots[s][i].mem>>}]
<1>1. ASSUME NEW p \in Buffers, Usable(s, p)
      PROVE  /\ userData[s][p] \in Slots
             /\ slots[s][userData[s][p]].live /\ ~slots[s][userData[s][p]].borrowed
  BY <1>1 DEF Usable, TypeOK, BufferType
<1> QED BY <1>1 DEF Dequeue, Free

LEMMA ApplicationMemory ==
    ASSUME TypeOK, TypeOK', MemoryInv, NEW s \in Sources, Application(s) PROVE MemoryInv'
<1> USE DEF TypeOK, BufferType
<1>1. ASSUME UNCHANGED <<slots, lent, mapped>> PROVE MemoryInv'
  BY <1>1 DEF MemoryInv, MappingsOwned, Holds, LentInv
<1>2. CASE Dequeue(s)
  <2>1. CASE UNCHANGED <<slots, lent>> BY <1>1, <1>2, <2>1 DEF Dequeue
  <2>2. ASSUME NEW i \in Slots, slots[s][i].live, ~slots[s][i].borrowed,
               slots' = [slots EXCEPT ![s][i].borrowed = TRUE],
               lent' = [lent EXCEPT ![s] = @ \cup {<<i, slots[s][i].mem>>}]
        PROVE  MemoryInv'
    <3>1. slots[s][i] \in SlotType OBVIOUS
    <3>2. /\ slots'[s][i].borrowed /\ slots'[s][i].live /\ slots'[s][i].mem = slots[s][i].mem
          /\ \A t \in Sources, j \in Slots : ~(t = s /\ j = i) => slots'[t][j] = slots[t][j]
      BY <2>2, <3>1 DEF SlotType
    <3>3. OnlySlot(s, i) BY <2>2, <3>2 DEF OnlySlot
    <3>4. \A m \in Maps : <<i, m>> \notin lent[s] BY <2>2 DEF MemoryInv, LentInv
    <3>5. LentInv'
      <4>1. \A m \in Maps : <<i, m>> \in lent'[s] <=> m = slots[s][i].mem
        BY <2>2, <3>4
      <4>2. slots[s][i].mem \in Maps BY <2>2, SlotTypes
      <4> HIDE DEF TypeOK, BufferType
      <4> QED BY <3>2, <3>3, <4>1, <4>2, OnlySlotLent DEF MemoryInv
    <3>6. KeepMemory(s, {}) BY <2>2, <3>2 DEF KeepMemory
    <3> QED BY <1>2, <3>5, <3>6, KeptOwned DEF MemoryInv, Dequeue
  <2> QED BY <1>2, <2>1, <2>2, DequeueLends
<1>3. CASE Resize(s) BY <1>1, <1>3 DEF Resize, bufferVars
<1>4. CASE Destroy(s) BY <1>1, <1>4 DEF Destroy, StartTeardown, bufferVars
<1>5. ASSUME NEW i \in Slots, GiveBack(s, i) PROVE
         /\ \A t \in Sources \ {s} : lent'[t] = lent[t]
         /\ \A j \in Slots \ {i}, m \in Maps : <<j, m>> \in lent'[s] <=> <<j, m>> \in lent[s]
         /\ \A m \in Maps : <<i, m>> \notin lent'[s]
  BY <1>5 DEF GiveBack
<1>6. ASSUME NEW i \in Slots, FreeRemoved(s, i) PROVE MemoryInv'
  <2>1. /\ slots'[s][i] = EmptySlot
        /\ \A t \in Sources, j \in Slots : ~(t = s /\ j = i) => slots'[t][j] = slots[t][j]
    BY <1>6 DEF FreeRemoved, freeSlot
  <2>2. OnlySlot(s, i) BY <1>5, <1>6, <2>1 DEF OnlySlot, FreeRemoved
  <2>3. LentInv'
    <3>1. ~slots'[s][i].borrowed BY <2>1 DEF EmptySlot
    <3>2. \A m \in Maps : <<i, m>> \notin lent'[s] BY <1>5, <1>6 DEF FreeRemoved
    <3> HIDE DEF TypeOK, BufferType
    <3> QED BY <2>2, <3>1, <3>2, OnlySlotLent DEF MemoryInv
  <2>4. KeepMemory(s, {i}) /\ ~slots'[s][i].live BY <2>1 DEF KeepMemory, EmptySlot
  <2> QED BY <1>6, <2>3, <2>4, FreedOwned DEF MemoryInv, FreeRemoved, freeSlot
<1>7. ASSUME NEW i \in Slots, Queue(s, i) \/ Release(s, i) PROVE MemoryInv'
  <2>1. PICK to : HandOver(s, i, to) BY <1>7 DEF Queue, Release
  <2>2. slots[s][i] \in SlotType OBVIOUS
  <2>3. /\ ~slots'[s][i].borrowed
        /\ slots'[s][i].live = slots[s][i].live /\ slots'[s][i].mem = slots[s][i].mem
        /\ \A t \in Sources, j \in Slots : ~(t = s /\ j = i) => slots'[t][j] = slots[t][j]
    BY <2>1, <2>2 DEF HandOver, SlotType
  <2>4. OnlySlot(s, i) BY <1>5, <2>1, <2>3 DEF OnlySlot, HandOver
  <2>5. LentInv' BY <1>5, <2>1, <2>3, <2>4, OnlySlotLent DEF MemoryInv, HandOver
  <2>6. KeepMemory(s, {}) BY <2>3 DEF KeepMemory
  <2> QED BY <2>1, <2>5, <2>6, KeptOwned DEF MemoryInv, HandOver
<1> QED BY <1>2, <1>3, <1>4, <1>6, <1>7 DEF Application

LEMMA PipeWireMemory ==
    ASSUME TypeOK, TypeOK', MemoryInv, NEW s \in Sources, PipeWire(s) PROVE MemoryInv'
<1>1. ASSUME UNCHANGED <<slots, lent, mapped>> PROVE MemoryInv'
  BY <1>1 DEF MemoryInv, MappingsOwned, Holds, LentInv
<1>2. CASE \/ onStateChanged(s) \/ FormatCleared(s) \/ \E bytes \in Sizes : onParamChanged(s, bytes)
           \/ \E p \in Buffers : AddUnusable(s, p) \/ RemoveUnusable(s, p) \/ Recycle(s, p)
  BY <1>1, <1>2 DEF onStateChanged, FormatCleared, onParamChanged, AddUnusable, RemoveUnusable,
                    Recycle, bufferVars
<1>3. ASSUME NEW p \in Buffers, onAddBuffer(s, p) PROVE MemoryInv'
  <2>1. PICK i \in Slots, m \in Maps \ mapped :
           /\ FirstEmpty(s, i)
           /\ mapped' = mapped \cup {m}
           /\ slots' = [slots EXCEPT ![s][i] =
                         [EmptySlot EXCEPT !.live = TRUE, !.pw = p, !.mem = m, !.bytes = size[s]]]
    BY <1>3 DEF onAddBuffer
  <2>2. /\ slots'[s][i].live /\ ~slots'[s][i].borrowed /\ slots'[s][i].mem = m
        /\ \A t \in Sources, j \in Slots : ~(t = s /\ j = i) => slots'[t][j] = slots[t][j]
    BY <2>1 DEF TypeOK, BufferType, EmptySlot
  <2>3. UNCHANGED lent /\ ~slots[s][i].live BY <1>3, <2>1 DEF onAddBuffer, FirstEmpty
  <2>4. OnlySlot(s, i) /\ KeepMemory(s, {i}) BY <2>2, <2>3 DEF OnlySlot, KeepMemory
  <2>5. \A n \in Maps : <<i, n>> \notin lent'[s] BY <2>3 DEF MemoryInv, LentInv
  <2>6. LentInv' BY <2>2, <2>4, <2>5, OnlySlotLent DEF MemoryInv
  <2>7. MappingsOwned' BY <2>1, <2>2, <2>3, <2>4, AddedOwned DEF MemoryInv
  <2> QED BY <2>6, <2>7 DEF MemoryInv
<1>4. ASSUME NEW p \in Buffers, onRemoveBuffer(s, p) PROVE MemoryInv'
  <2> DEFINE i == userData[s][p]
  <2>1. i \in Slots /\ UNCHANGED lent BY <1>4 DEF onRemoveBuffer, TypeOK, BufferType
  <2>2. CASE UNCHANGED <<slots, mapped>> BY <1>1, <2>1, <2>2
  <2>3. CASE slots[s][i].borrowed /\ slots' = [slots EXCEPT ![s][i] = Detached(@)] /\ UNCHANGED mapped
    <3>1. slots[s][i] \in SlotType BY <2>1 DEF TypeOK, BufferType
    <3>2. /\ slots'[s][i].live = slots[s][i].live /\ slots'[s][i].mem = slots[s][i].mem
          /\ slots'[s][i].borrowed = slots[s][i].borrowed
          /\ \A t \in Sources, j \in Slots : ~(t = s /\ j = i) => slots'[t][j] = slots[t][j]
      BY <2>1, <2>3, <3>1 DEF TypeOK, BufferType, Detached, SlotType
    <3>3. OnlySlot(s, i) /\ KeepMemory(s, {}) BY <2>1, <3>2 DEF OnlySlot, KeepMemory
    <3>4. slots'[s][i].borrowed => slots'[s][i].live /\ <<i, slots'[s][i].mem>> \in lent'[s]
      BY <2>1, <3>2 DEF MemoryInv, LentInv
    <3>5. \A m \in Maps : <<i, m>> \in lent'[s] => slots'[s][i].borrowed /\ slots'[s][i].mem = m
      BY <2>1, <3>2 DEF MemoryInv, LentInv
    <3>6. LentInv' BY <2>1, <3>3, <3>4, <3>5, OnlySlotLent DEF MemoryInv
    <3> QED BY <2>3, <3>3, <3>6, KeptOwned DEF MemoryInv
  <2>4. CASE ~slots[s][i].borrowed /\ freeSlot(s, i)
    <3>1. /\ slots'[s][i] = EmptySlot
          /\ \A t \in Sources, j \in Slots : ~(t = s /\ j = i) => slots'[t][j] = slots[t][j]
      BY <2>1, <2>4 DEF freeSlot, TypeOK, BufferType
    <3>2. OnlySlot(s, i) /\ KeepMemory(s, {i}) BY <2>1, <3>1 DEF OnlySlot, KeepMemory
    <3>3. ~slots'[s][i].borrowed /\ ~slots'[s][i].live BY <3>1 DEF EmptySlot
    <3>4. \A m \in Maps : <<i, m>> \notin lent'[s] BY <2>1, <2>4 DEF MemoryInv, LentInv
    <3>5. LentInv' BY <2>1, <3>2, <3>3, <3>4, OnlySlotLent DEF MemoryInv
    <3>6. MappingsOwned' BY <2>1, <2>4, <3>2, <3>3, FreedOwned DEF MemoryInv, freeSlot
    <3> QED BY <3>5, <3>6 DEF MemoryInv
  <2> QED BY <1>4, <2>2, <2>3, <2>4 DEF onRemoveBuffer
<1> QED BY <1>2, <1>3, <1>4 DEF PipeWire

LEMMA NewMemory ==
    ASSUME TypeOK, MemoryInv, NEW s \in Sources, NewVideoSource(s) PROVE MemoryInv'
<1>1. UNCHANGED <<slots, lent, mapped>>
  BY DEF NewVideoSource, ClaimEntry, TableFull, CreateFails, Connect, Connected, ConnectFails,
         StartTeardown, bufferVars
<1> QED BY <1>1 DEF MemoryInv, MappingsOwned, Holds, LentInv

LEMMA NextMemory == TypeOK /\ MemoryInv /\ [Next]_vars => MemoryInv'
<1> SUFFICES ASSUME TypeOK, MemoryInv, [Next]_vars PROVE MemoryInv'
  OBVIOUS
<1>1. TypeOK' BY NextType
<1>2. CASE UNCHANGED vars
  BY <1>2 DEF vars, bufferVars, MemoryInv, MappingsOwned, Holds, LentInv
<1> QED BY <1>1, <1>2, NewMemory, ApplicationMemory, TeardownMemory, PipeWireMemory DEF Next

LEMMA InitMemory == Init => MemoryInv
BY DEF Init, MemoryInv, MappingsOwned, Holds, LentInv, EmptySlot

\* No mapping is leaked, unmapped twice or shared by two buffers, on any of the
\* ways a slot ends.
THEOREM MappingsAccounted == Spec => []MappingsOwned
<1>1. MemoryInv => MappingsOwned BY DEF MemoryInv
<1> QED BY <1>1, InitType, NextType, InitMemory, NextMemory, PTL DEF Spec

-----------------------------------------------------------------------------
(* The contract about memory.                                              *)

LentFor(m) == \E s \in Sources, i \in Slots : m \in Maps /\ <<i, m>> \in lent[s]

LEMMA InBorrowed == TypeOK => \A m : m \in Borrowed <=> LentFor(m)
<1> SUFFICES ASSUME TypeOK, NEW m PROVE m \in Borrowed <=> LentFor(m)
  OBVIOUS
<1>1. ASSUME m \in Borrowed PROVE LentFor(m)
  <2>1. PICK s \in Sources : \E l \in lent[s] : m = l[2] BY <1>1 DEF Borrowed
  <2>2. lent[s] \subseteq Slots \X Maps BY DEF TypeOK, BufferType
  <2> QED BY <2>1, <2>2 DEF LentFor
<1>2. ASSUME NEW s \in Sources, NEW i \in Slots, <<i, m>> \in lent[s] PROVE m \in Borrowed
  BY <1>2 DEF Borrowed
<1> QED BY <1>1, <1>2 DEF LentFor

LEMMA InBorrowedNext ==
    ASSUME TypeOK' PROVE \A m : m \in Borrowed' <=> LentFor(m)'
<1>1. lent' \in [Sources -> SUBSET (Slots \X Maps)] BY DEF TypeOK, BufferType
<1> SUFFICES ASSUME NEW m PROVE m \in Borrowed' <=> LentFor(m)'
  OBVIOUS
<1>2. ASSUME m \in Borrowed' PROVE LentFor(m)'
  <2>1. PICK s \in Sources : \E l \in lent'[s] : m = l[2] BY <1>2 DEF Borrowed
  <2> QED BY <1>1, <2>1 DEF LentFor
<1>3. ASSUME NEW s \in Sources, NEW i \in Slots, <<i, m>> \in lent'[s] PROVE m \in Borrowed'
  BY <1>3 DEF Borrowed
<1> QED BY <1>2, <1>3 DEF LentFor

\* Borrowed memory has its own slot, of a borrower.
LEMMA BorrowedSlot ==
    ASSUME TypeOK, MemoryInv, NEW s \in Sources, NEW i \in Slots, slots[s][i].live
    PROVE  /\ slots[s][i].mem \in mapped
           /\ slots[s][i].mem \in Borrowed <=> slots[s][i].borrowed
<1>1. slots[s][i].mem \in Maps BY SlotTypes DEF TypeOK, BufferType
<1>2. slots[s][i].mem \in mapped BY <1>1 DEF MemoryInv, MappingsOwned, Holds
<1>3. ASSUME slots[s][i].mem \in Borrowed PROVE slots[s][i].borrowed
  <2>1. PICK t \in Sources, j \in Slots : <<j, slots[s][i].mem>> \in lent[t]
    BY <1>3, InBorrowed DEF LentFor
  <2>2. slots[t][j].borrowed /\ slots[t][j].live /\ slots[t][j].mem = slots[s][i].mem
    BY <2>1 DEF MemoryInv, LentInv
  <2>3. t = s /\ j = i BY <1>1, <2>2 DEF MemoryInv, MappingsOwned, Holds
  <2> QED BY <2>2, <2>3
<1>4. ASSUME slots[s][i].borrowed PROVE slots[s][i].mem \in Borrowed
  BY <1>1, <1>4, InBorrowed DEF LentFor, MemoryInv, LentInv
<1> QED BY <1>2, <1>3, <1>4

LEMMA UnmapStep ==
    ASSUME TypeOK, MemoryInv, NEW s \in Sources, NEW I \in SUBSET Slots, Unmap(s, I),
           \A i \in I : ~slots[s][i].borrowed, UNCHANGED lent
    PROVE  Lending!Next
<1> DEFINE gone == {slots[s][i].mem : i \in {i \in I : slots[s][i].live}}
<1>1. gone \subseteq mapped \ Borrowed BY BorrowedSlot
<1>2. gone \in SUBSET Maps BY <1>1 DEF TypeOK, BufferType
<1>3. mapped' = mapped \ gone BY DEF Unmap
<1>4. Borrowed' = Borrowed BY DEF Borrowed
<1> QED BY <1>1, <1>2, <1>3, <1>4 DEF Lending!Next, Lending!Unmap

LEMMA GiveBackStep ==
    ASSUME TypeOK, TypeOK', MemoryInv, NEW s \in Sources, NEW i \in Slots, GiveBack(s, i),
           slotOf(s, i), mapped' \in {mapped, mapped \ {slots[s][i].mem}}
    PROVE  Lending!Next
<1> DEFINE m == slots[s][i].mem
<1>1. m \in Maps /\ m \in Borrowed BY BorrowedSlot, SlotTypes DEF slotOf, TypeOK, BufferType
<1>2. ASSUME NEW n \in Borrowed' PROVE n \in Borrowed \ {m}
  <2>1. PICK t \in Sources, j \in Slots : n \in Maps /\ <<j, n>> \in lent'[t]
    BY InBorrowedNext DEF LentFor
  <2>2. <<j, n>> \in lent[t] /\ ~(t = s /\ j = i) BY <2>1 DEF GiveBack, TypeOK, BufferType
  <2>3. slots[t][j].live /\ slots[t][j].mem = n BY <2>2 DEF MemoryInv, LentInv
  <2>4. n # m BY <2>1, <2>2, <2>3 DEF MemoryInv, MappingsOwned, Holds, slotOf
  <2> QED BY <2>1, <2>2, <2>4, InBorrowed DEF LentFor
<1>3. ASSUME NEW n \in Borrowed \ {m} PROVE n \in Borrowed'
  <2>1. PICK t \in Sources, j \in Slots : n \in Maps /\ <<j, n>> \in lent[t]
    BY InBorrowed DEF LentFor
  <2>2. ~(t = s /\ j = i) BY <1>3, <2>1 DEF MemoryInv, LentInv
  <2>3. <<j, n>> \in lent'[t] BY <2>1, <2>2 DEF GiveBack, TypeOK, BufferType
  <2> QED BY <2>1, <2>3, InBorrowedNext DEF LentFor
<1>4. Borrowed' = Borrowed \ {m} BY <1>2, <1>3
<1> QED BY <1>1, <1>4 DEF Lending!Next, Lending!GiveBack

LEMMA LendStep ==
    ASSUME TypeOK, TypeOK', MemoryInv, NEW s \in Sources, NEW i \in Slots,
           slots[s][i].live, ~slots[s][i].borrowed, UNCHANGED mapped,
           lent' = [lent EXCEPT ![s] = @ \cup {<<i, slots[s][i].mem>>}]
    PROVE  Lending!Next
<1> DEFINE m == slots[s][i].mem
<1>1. m \in Maps /\ m \in mapped \ Borrowed BY BorrowedSlot, SlotTypes DEF TypeOK, BufferType
<1>2. ASSUME NEW t \in Sources, NEW j \in Slots, NEW n \in Maps
      PROVE  <<j, n>> \in lent'[t] <=> <<j, n>> \in lent[t] \/ (t = s /\ j = i /\ n = m)
  BY DEF TypeOK, BufferType
<1>3. ASSUME NEW n PROVE n \in Borrowed' <=> n \in Borrowed \/ n = m
  <2>1. LentFor(n)' <=> LentFor(n) \/ n = m BY <1>1, <1>2 DEF LentFor
  <2>2. (n \in Borrowed <=> LentFor(n)) /\ (n \in Borrowed' <=> LentFor(n)')
    BY InBorrowed, InBorrowedNext
  <2> QED BY <2>1, <2>2
<1>4. Borrowed' = Borrowed \cup {m} BY <1>3
<1> QED BY <1>1, <1>4 DEF Lending!Next, Lending!Lend

LEMMA LendingNext == TypeOK /\ TypeOK' /\ MemoryInv /\ [Next]_vars => [Lending!Next]_(Lending!vars)
<1> SUFFICES ASSUME TypeOK, TypeOK', MemoryInv, [Next]_vars PROVE [Lending!Next]_(Lending!vars)
  OBVIOUS
<1>1. ASSUME UNCHANGED <<lent, mapped>> PROVE UNCHANGED Lending!vars
  BY <1>1 DEF Lending!vars, Borrowed
<1>2. ASSUME NEW s \in Sources, EndTeardown(s) PROVE Lending!Next
  <2> DEFINE I == {i \in Slots : ~slots[s][i].borrowed}
  <2>1. Unmap(s, I) /\ UNCHANGED lent BY <1>2 DEF EndTeardown, DropBuffers
  <2> QED BY <2>1, UnmapStep
<1>3. ASSUME NEW s \in Sources, NewVideoSource(s) PROVE [Lending!Next]_(Lending!vars)
  BY <1>1, <1>3 DEF NewVideoSource, ClaimEntry, TableFull, CreateFails, Connect, Connected,
                    ConnectFails, StartTeardown, bufferVars
<1>4. ASSUME NEW s \in Sources, Application(s) PROVE [Lending!Next]_(Lending!vars)
  <2>1. CASE Dequeue(s)
    <3>1. UNCHANGED mapped BY <2>1 DEF Dequeue
    <3> QED BY <1>1, <2>1, <3>1, DequeueLends, LendStep
  <2>2. CASE Resize(s) BY <1>1, <2>2 DEF Resize, bufferVars
  <2>3. CASE Destroy(s) BY <1>1, <2>3 DEF Destroy, StartTeardown, bufferVars
  <2>4. ASSUME NEW i \in Slots, FreeRemoved(s, i) PROVE Lending!Next
    <3>1. mapped' = mapped \ {slots[s][i].mem} BY <2>4 DEF FreeRemoved, freeSlot, Unmap, slotOf
    <3> QED BY <2>4, <3>1, GiveBackStep DEF FreeRemoved
  <2>5. ASSUME NEW i \in Slots, Queue(s, i) \/ Release(s, i) PROVE Lending!Next
    BY <2>5, GiveBackStep DEF Queue, Release, HandOver
  <2> QED BY <1>4, <2>1, <2>2, <2>3, <2>4, <2>5 DEF Application
<1>5. ASSUME NEW s \in Sources, PipeWire(s) PROVE [Lending!Next]_(Lending!vars)
  <2>1. ASSUME NEW p \in Buffers, onAddBuffer(s, p) PROVE Lending!Next
    <3>1. UNCHANGED Borrowed BY <2>1 DEF onAddBuffer, Borrowed
    <3> QED BY <2>1, <3>1 DEF onAddBuffer, Lending!Next, Lending!Map
  <2>2. ASSUME NEW p \in Buffers, onRemoveBuffer(s, p) PROVE [Lending!Next]_(Lending!vars)
    <3> DEFINE i == userData[s][p]
    <3>1. i \in Slots /\ UNCHANGED lent BY <2>2 DEF onRemoveBuffer, TypeOK, BufferType
    <3>2. CASE UNCHANGED mapped BY <1>1, <3>1, <3>2
    <3>3. CASE ~slots[s][i].borrowed /\ freeSlot(s, i)
      <4>1. Unmap(s, {i}) BY <3>3 DEF freeSlot
      <4> QED BY <3>1, <3>3, <4>1, UnmapStep
    <3> QED BY <2>2, <3>2, <3>3 DEF onRemoveBuffer
  <2>3. CASE \/ onStateChanged(s) \/ FormatCleared(s) \/ \E bytes \in Sizes : onParamChanged(s, bytes)
             \/ \E p \in Buffers : AddUnusable(s, p) \/ RemoveUnusable(s, p) \/ Recycle(s, p)
    BY <1>1, <2>3 DEF onStateChanged, FormatCleared, onParamChanged, AddUnusable, RemoveUnusable,
                      Recycle, bufferVars
  <2> QED BY <1>5, <2>1, <2>2, <2>3 DEF PipeWire
<1>6. CASE UNCHANGED vars BY <1>1, <1>6 DEF vars, bufferVars
<1> QED BY <1>2, <1>3, <1>4, <1>5, <1>6 DEF Next

\* Memory that is lent is lent once and stays mapped until its borrower gives it
\* back, whatever PipeWire, Destroy and other sources do: every step is a step
\* of VideoLending, or none for it.
THEOREM ImplementsLending == Spec => LendsAsPromised
<1>1. Init => Lending!Init BY DEF Init, Lending!Init, Borrowed
<1> QED BY <1>1, InitType, NextType, InitMemory, NextMemory, LendingNext, PTL
        DEF Spec, LendsAsPromised, Lending!Spec

-----------------------------------------------------------------------------
(* Slots and PipeWire's buffers.                                           *)

\* A slot and its buffer name each other as long as PipeWire has the buffer,
\* which it has only while there is a stream.
SlotAttached(s, i) ==
    LET slot == slots[s][i]
    IN slot.live =>
          /\ slot.removed <=> slot.pw = nil
          /\ slot.pw = nil => slot.borrowed
          /\ slot.pw # nil => place[s][slot.pw] # "absent" /\ userData[s][slot.pw] = i
BufferAttached(s, p) ==
    LET slot == slots[s][userData[s][p]]
    IN userData[s][p] # 0 =>
          /\ slot.live /\ slot.pw = p
          /\ slot.borrowed <=> place[s][p] = "dequeued"
          /\ stream[s]
Attached(s) ==
    /\ \A i \in Slots : SlotAttached(s, i)
    /\ \A p \in Buffers : BufferAttached(s, p)

LEMMA NoSlotZero == 0 \notin Slots
BY DEF Slots

\* What the buffer of s announces while it is in the graph.
BufferFits(s, p) ==
    place[s][p] = "graph" => userData[s][p] # 0 /\ chunk[s][p] <= slots[s][userData[s][p]].bytes
Fits(s) == \A p \in Buffers : BufferFits(s, p)

\* A step of one source leaves the buffers of the others alone.
LEMMA OthersKeep ==
    ASSUME TypeOK, NEW s \in Sources,
           NewVideoSource(s) \/ Application(s) \/ EndTeardown(s) \/ PipeWire(s),
           NEW t \in Sources \ {s}
    PROVE  /\ slots'[t] = slots[t] /\ place'[t] = place[t] /\ userData'[t] = userData[t]
           /\ chunk'[t] = chunk[t] /\ stream'[t] = stream[t]
<1> USE DEF TypeOK, SourceType, BufferType
<1>1. CASE EndTeardown(s) BY <1>1 DEF EndTeardown, DropBuffers
<1>2. CASE NewVideoSource(s)
  BY <1>2 DEF NewVideoSource, ClaimEntry, TableFull, CreateFails, Connect, Connected, ConnectFails,
              StartTeardown, sourceVars, bufferVars
<1>3. CASE Application(s)
  BY <1>3 DEF Application, Dequeue, Resize, Destroy, StartTeardown, FreeRemoved, freeSlot, Queue,
              Release, HandOver, sourceVars, bufferVars
<1>4. CASE PipeWire(s)
  <2>1. ASSUME NEW p \in Buffers, onRemoveBuffer(s, p) PROVE
           /\ slots'[t] = slots[t] /\ place'[t] = place[t] /\ userData'[t] = userData[t]
           /\ chunk'[t] = chunk[t] /\ stream'[t] = stream[t]
    BY <2>1 DEF onRemoveBuffer, freeSlot, sourceVars
  <2>2. ASSUME NEW p \in Buffers, onAddBuffer(s, p) PROVE
           /\ slots'[t] = slots[t] /\ place'[t] = place[t] /\ userData'[t] = userData[t]
           /\ chunk'[t] = chunk[t] /\ stream'[t] = stream[t]
    BY <2>2 DEF onAddBuffer, sourceVars
  <2> QED BY <1>4, <2>1, <2>2 DEF PipeWire, onStateChanged, FormatCleared, onParamChanged, AddUnusable,
              RemoveUnusable, Recycle, sourceVars, bufferVars
<1> QED BY <1>1, <1>2, <1>3, <1>4

LEMMA TeardownAttached ==
    ASSUME TypeOK, NEW s \in Sources, EndTeardown(s) PROVE Attached(s)' /\ Fits(s)'
<1> USE DEF TypeOK, BufferType
<1>1. /\ \A p \in Buffers : place'[s][p] = "absent" /\ userData'[s][p] = 0
      /\ \A i \in Slots : slots'[s][i] = IF slots[s][i].borrowed THEN Detached(slots[s][i]) ELSE EmptySlot
  BY DEF EndTeardown, DropBuffers
<1>2. ASSUME NEW i \in Slots, slots'[s][i].live
      PROVE  slots'[s][i].removed /\ slots'[s][i].pw = nil /\ slots'[s][i].borrowed
  <2>1. slots[s][i] \in SlotType OBVIOUS
  <2>2. slots[s][i].borrowed BY <1>1, <1>2 DEF EmptySlot
  <2>3. slots'[s][i] = Detached(slots[s][i]) BY <1>1, <2>2
  <2> QED BY <2>1, <2>2, <2>3 DEF Detached, SlotType
<1> QED BY <1>1, <1>2 DEF Attached, SlotAttached, BufferAttached, Fits, BufferFits

\* A step that changes neither what slots show nor whose they are, and takes
\* buffers without a slot or the one of slot i out of PipeWire's hands or back.
LEMMA HandsChange ==
    ASSUME TypeOK, NEW s \in Sources, Attached(s), NEW i \in Slots, NEW p \in Buffers,
           userData[s][p] = i, UNCHANGED <<userData, stream>>,
           slots'[s][i].borrowed <=> place'[s][p] = "dequeued", place'[s][p] # "absent",
           \A j \in Slots : /\ slots'[s][j].live = slots[s][j].live
                            /\ slots'[s][j].pw = slots[s][j].pw
                            /\ slots'[s][j].removed = slots[s][j].removed
                            /\ j # i => slots'[s][j].borrowed = slots[s][j].borrowed,
           \A q \in Buffers \ {p} : /\ userData[s][q] # 0 => place'[s][q] = place[s][q]
                                    /\ place'[s][q] = "absent" <=> place[s][q] = "absent"
    PROVE  Attached(s)'
<1>1. /\ \A j \in Slots : SlotAttached(s, j)
      /\ \A q \in Buffers : BufferAttached(s, q)
      /\ \A q \in Buffers : userData[s][q] \in Slots \cup {0}
      /\ \A j \in Slots : slots[s][j].pw \in Buffers \cup {nil}
  BY DEF Attached, TypeOK, BufferType, SlotType
<1>2. slots[s][i].live /\ slots[s][i].pw = p BY <1>1, NoSlotZero DEF BufferAttached
<1>3. ASSUME NEW j \in Slots PROVE SlotAttached(s, j)'
  <2>1. CASE j = i BY <1>1, <1>2, <2>1, NilAssumption DEF SlotAttached
  <2>2. CASE j # i BY <1>1, <1>2, <2>2, NoSlotZero DEF SlotAttached
  <2> QED BY <2>1, <2>2
<1>4. ASSUME NEW q \in Buffers PROVE BufferAttached(s, q)'
  <2>1. CASE q = p BY <1>1, <1>2, <2>1, NoSlotZero DEF BufferAttached
  <2>2. CASE q # p
    <3>1. userData[s][q] # i BY <1>1, <1>2, <2>2, NoSlotZero DEF BufferAttached
    <3> QED BY <1>1, <2>2, <3>1 DEF BufferAttached
  <2> QED BY <2>1, <2>2
<1> QED BY <1>3, <1>4 DEF Attached

LEMMA DequeueAttached ==
    ASSUME TypeOK, NEW s \in Sources, Attached(s), Fits(s), Dequeue(s)
    PROVE  Attached(s)' /\ Fits(s)'
<1>1. ASSUME NEW p \in Free(s), ~Usable(s, p) PROVE userData[s][p] = 0
  <2>1. /\ p \in Buffers /\ place[s][p] = "free" /\ userData[s][p] \in Slots \cup {0} /\ p # nil
    BY NilAssumption DEF Free, TypeOK, BufferType
  <2>2. ASSUME userData[s][p] # 0 PROVE Usable(s, p)
    <3>1. BufferAttached(s, p) /\ SlotAttached(s, userData[s][p]) BY <2>1, <2>2 DEF Attached
    <3> QED BY <2>1, <2>2, <3>1 DEF BufferAttached, SlotAttached, Usable
  <2> QED BY <1>1, <2>2
<1>2. UNCHANGED <<userData, chunk, stream>> BY DEF Dequeue
<1>3. ASSUME NEW out \in SUBSET Free(s), \A q \in out : userData[s][q] = 0, UNCHANGED slots,
             place' = [place EXCEPT ![s] = [q \in Buffers |-> IF q \in out THEN "dequeued" ELSE @[q]]]
      PROVE  Attached(s)' /\ Fits(s)'
  <2>1. \A q \in Buffers : /\ userData[s][q] # 0 => place'[s][q] = place[s][q]
                           /\ place'[s][q] = "absent" <=> place[s][q] = "absent"
                           /\ place'[s][q] = "graph" => place[s][q] = "graph"
    BY <1>3 DEF Free, TypeOK, BufferType
  <2>2. \A j \in Slots : slots[s][j].pw \in Buffers \cup {nil} BY DEF TypeOK, BufferType, SlotType
  <2>3. \A j \in Slots : SlotAttached(s, j)' BY <1>2, <1>3, <2>1, <2>2 DEF Attached, SlotAttached
  <2>4. \A q \in Buffers : BufferAttached(s, q)' BY <1>2, <1>3, <2>1 DEF Attached, BufferAttached
  <2>5. \A q \in Buffers : BufferFits(s, q)' BY <1>2, <1>3, <2>1 DEF Fits, BufferFits
  <2> QED BY <2>3, <2>4, <2>5 DEF Attached, Fits
<1>4. ASSUME NEW p \in Free(s), NEW out \in SUBSET Free(s), Usable(s, p),
             \A q \in out : userData[s][q] = 0,
             slots' = [slots EXCEPT ![s][userData[s][p]].borrowed = TRUE],
             place' = [place EXCEPT ![s] = [q \in Buffers |->
                         IF q \in out \cup {p} THEN "dequeued" ELSE @[q]]]
      PROVE  Attached(s)' /\ Fits(s)'
  <2> DEFINE i == userData[s][p]
  <2>1. p \in Buffers /\ i \in Slots BY <1>4 DEF Usable, Free, TypeOK, BufferType
  <2>2. \A j \in Slots : slots[s][j] \in SlotType BY DEF TypeOK, BufferType
  <2>3. /\ slots'[s][i].borrowed
        /\ \A j \in Slots : /\ slots'[s][j].live = slots[s][j].live
                            /\ slots'[s][j].pw = slots[s][j].pw
                            /\ slots'[s][j].removed = slots[s][j].removed
                            /\ slots'[s][j].bytes = slots[s][j].bytes
                            /\ j # i => slots'[s][j].borrowed = slots[s][j].borrowed
    BY <1>4, <2>1, <2>2 DEF SlotType, TypeOK, BufferType
  <2>4. /\ place'[s][p] = "dequeued"
        /\ \A q \in Buffers \ {p} : /\ userData[s][q] # 0 => place'[s][q] = place[s][q]
                                    /\ place'[s][q] = "absent" <=> place[s][q] = "absent"
                                    /\ place'[s][q] = "graph" => place[s][q] = "graph"
    BY <1>4, <2>1 DEF Free, TypeOK, BufferType
  <2>5. Attached(s)' BY <1>2, <2>1, <2>3, <2>4, HandsChange
  <2>6. ASSUME NEW q \in Buffers PROVE BufferFits(s, q)'
    <3>1. userData[s][q] \in Slots \cup {0} BY DEF TypeOK, BufferType
    <3>2. BufferFits(s, q) BY DEF Fits
    <3> QED BY <1>2, <2>3, <2>4, <3>1, <3>2 DEF BufferFits
  <2> QED BY <2>5, <2>6 DEF Fits
<1>5. \/ \E p \in Free(s), out \in SUBSET Free(s) :
            /\ Usable(s, p) /\ \A q \in out : ~Usable(s, q)
            /\ slots' = [slots EXCEPT ![s][userData[s][p]].borrowed = TRUE]
            /\ place' = [place EXCEPT ![s] = [q \in Buffers |->
                           IF q \in out \cup {p} THEN "dequeued" ELSE @[q]]]
      \/ \E out \in SUBSET Free(s) :
            /\ \A q \in out : ~Usable(s, q)
            /\ UNCHANGED slots
            /\ place' = [place EXCEPT ![s] = [q \in Buffers |-> IF q \in out THEN "dequeued" ELSE @[q]]]
  BY DEF Dequeue
<1> QED BY <1>1, <1>3, <1>4, <1>5

LEMMA HandOverAttached ==
    ASSUME TypeOK, NEW s \in Sources, Attached(s), Fits(s), NEW i \in Slots, Queue(s, i) \/ Release(s, i)
    PROVE  Attached(s)' /\ Fits(s)'
<1>1. PICK to \in {"free", "graph"} : HandOver(s, i, to) BY DEF Queue, Release
<1>2. \A j \in Slots : slots[s][j] \in SlotType BY DEF TypeOK, BufferType
<1>3. PICK p \in Buffers : p = slots[s][i].pw /\ userData[s][p] = i
  <2>1. SlotAttached(s, i) /\ slots[s][i].live /\ ~slots[s][i].removed
    BY <1>1 DEF Attached, HandOver, slotOf
  <2> QED BY <1>2, <2>1 DEF SlotAttached, SlotType
<1>4. /\ ~slots'[s][i].borrowed
      /\ \A j \in Slots : /\ slots'[s][j].live = slots[s][j].live
                          /\ slots'[s][j].pw = slots[s][j].pw
                          /\ slots'[s][j].removed = slots[s][j].removed
                          /\ slots'[s][j].bytes = slots[s][j].bytes
                          /\ j # i => slots'[s][j].borrowed = slots[s][j].borrowed
  BY <1>1, <1>2 DEF HandOver, SlotType, TypeOK, BufferType
<1>5. /\ place'[s][p] = to /\ \A q \in Buffers \ {p} : place'[s][q] = place[s][q]
      /\ UNCHANGED <<userData, stream>>
  BY <1>1, <1>3 DEF HandOver, sourceVars, TypeOK, BufferType
<1>6. Attached(s)' BY <1>3, <1>4, <1>5, HandsChange
<1>7. ASSUME NEW q \in Buffers \ {p}, chunk'[s][q] = chunk[s][q] PROVE BufferFits(s, q)'
  <2>1. userData[s][q] \in Slots \cup {0} /\ BufferFits(s, q) BY DEF TypeOK, BufferType, Fits
  <2> QED BY <1>4, <1>5, <1>7, <2>1 DEF BufferFits
<1>8. CASE Release(s, i)
  <2>1. UNCHANGED chunk /\ place'[s][p] = "free"
    BY <1>3, <1>8 DEF Release, HandOver, TypeOK, BufferType
  <2>2. BufferFits(s, p)' BY <2>1 DEF BufferFits
  <2>3. \A q \in Buffers : BufferFits(s, q)' BY <1>7, <2>1, <2>2, <1>4, <1>5
  <2> QED BY <1>6, <2>3 DEF Fits
<1>9. CASE Queue(s, i)
  <2>1. chunk'[s][p] \in {slots[s][i].bytes, 0} /\ \A q \in Buffers \ {p} : chunk'[s][q] = chunk[s][q]
    BY <1>3, <1>9 DEF Queue, TypeOK, BufferType
  <2>2. slots[s][i].bytes \in Nat
    <3>1. slots[s][i].bytes \in Sizes \cup {0} BY <1>2 DEF SlotType
    <3>2. \A bytes \in Sizes \cup {0} : bytes \in Nat BY SizesAssumption
    <3> QED BY <3>1, <3>2
  <2>3. chunk'[s][p] <= slots'[s][i].bytes BY <1>4, <2>1, <2>2
  <2>4. userData'[s][p] = i /\ i # 0 BY <1>3, <1>5, NoSlotZero
  <2>5. BufferFits(s, p)' BY <2>3, <2>4 DEF BufferFits
  <2>6. \A q \in Buffers : BufferFits(s, q)' BY <1>7, <2>1, <2>5
  <2> QED BY <1>6, <2>6 DEF Fits
<1> QED BY <1>8, <1>9

LEMMA ApplicationAttached ==
    ASSUME TypeOK, NEW s \in Sources, Attached(s), Fits(s), Application(s)
    PROVE  Attached(s)' /\ Fits(s)'
<1>1. CASE Resize(s)
  BY <1>1 DEF Resize, bufferVars, Attached, SlotAttached, BufferAttached, Fits, BufferFits
<1>2. ASSUME NEW i \in Slots, FreeRemoved(s, i) PROVE Attached(s)' /\ Fits(s)'
  <2>1. /\ ~slots'[s][i].live /\ \A j \in Slots \ {i} : slots'[s][j] = slots[s][j]
        /\ UNCHANGED <<place, userData, chunk, stream>>
    BY <1>2 DEF FreeRemoved, freeSlot, sourceVars, TypeOK, BufferType, EmptySlot
  <2>2. ASSUME NEW p \in Buffers PROVE userData[s][p] # i
    <3>1. SUFFICES ASSUME userData[s][p] = i PROVE FALSE
      OBVIOUS
    <3>2. slots[s][i].live /\ slots[s][i].pw = p /\ stream[s]
      BY <3>1, NoSlotZero DEF Attached, BufferAttached
    <3>3. slots[s][i].pw = nil BY <1>2, <3>2 DEF FreeRemoved, Attached, SlotAttached
    <3> QED BY <3>2, <3>3, NilAssumption
  <2>3. \A p \in Buffers : userData[s][p] \in Slots \cup {0} BY DEF TypeOK, BufferType
  <2>4. \A j \in Slots : SlotAttached(s, j)' BY <2>1 DEF Attached, SlotAttached
  <2>5. \A p \in Buffers : BufferAttached(s, p)' BY <2>1, <2>2, <2>3 DEF Attached, BufferAttached
  <2>6. \A p \in Buffers : BufferFits(s, p)' BY <2>1, <2>2, <2>3 DEF Fits, BufferFits
  <2> QED BY <2>4, <2>5, <2>6 DEF Attached, Fits
<1>3. CASE Destroy(s)
  BY <1>3 DEF Destroy, StartTeardown, bufferVars, Attached, SlotAttached, BufferAttached, Fits, BufferFits
<1> QED BY <1>1, <1>2, <1>3, DequeueAttached, HandOverAttached DEF Application

\* PipeWire gives or takes a buffer p; the slots, but for its own slot i, stay.
LEMMA OtherBuffers ==
    ASSUME TypeOK, NEW s \in Sources, Attached(s), Fits(s), NEW p \in Buffers, NEW i \in Slots \cup {0},
           \A q \in Buffers \ {p} : /\ place'[s][q] = place[s][q] /\ userData'[s][q] = userData[s][q]
                                    /\ chunk'[s][q] = chunk[s][q]
                                    /\ i # 0 => userData[s][q] # i,
           \A j \in Slots \ {i} : slots'[s][j] = slots[s][j] /\ (slots[s][j].live => slots[s][j].pw # p),
           UNCHANGED stream, i # 0 => SlotAttached(s, i)', BufferAttached(s, p)', BufferFits(s, p)'
    PROVE  Attached(s)' /\ Fits(s)'
<1>1. \A j \in Slots : slots[s][j].pw \in Buffers \cup {nil} BY DEF TypeOK, BufferType, SlotType
<1>2. \A q \in Buffers : userData[s][q] \in Slots \cup {0} BY DEF TypeOK, BufferType
<1>3. ASSUME NEW j \in Slots PROVE SlotAttached(s, j)'
  <2>1. CASE j = i BY <2>1, NoSlotZero
  <2>2. CASE j # i
    <3>1. slots'[s][j] = slots[s][j] /\ (slots[s][j].live => slots[s][j].pw \in (Buffers \ {p}) \cup {nil})
      BY <1>1, <2>2
    <3> QED BY <3>1 DEF Attached, SlotAttached
  <2> QED BY <2>1, <2>2
<1>4. ASSUME NEW q \in Buffers PROVE BufferAttached(s, q)'
  <2>1. CASE q # p
    <3>1. userData[s][q] # 0 => slots'[s][userData[s][q]] = slots[s][userData[s][q]] BY <1>2, <2>1
    <3> QED BY <2>1, <3>1 DEF Attached, BufferAttached
  <2> QED BY <2>1
<1>5. ASSUME NEW q \in Buffers PROVE BufferFits(s, q)'
  <2>1. CASE q # p
    <3>1. userData[s][q] # 0 => slots'[s][userData[s][q]] = slots[s][userData[s][q]] BY <1>2, <2>1
    <3>2. BufferFits(s, q) BY DEF Fits
    <3> QED BY <2>1, <3>1, <3>2 DEF BufferFits
  <2> QED BY <2>1
<1> QED BY <1>3, <1>4, <1>5 DEF Attached, Fits

LEMMA PipeWireAttached ==
    ASSUME TypeOK, NEW s \in Sources, Attached(s), Fits(s), PipeWire(s)
    PROVE  Attached(s)' /\ Fits(s)'
<1> DEFINE Others(p) == \A q \in Buffers \ {p} : /\ place'[s][q] = place[s][q]
                                                /\ userData'[s][q] = userData[s][q]
                                                /\ chunk'[s][q] = chunk[s][q]
<1>1. ASSUME NEW p \in Buffers, userData[s][p] = 0
      PROVE  \A j \in Slots : slots[s][j].live => slots[s][j].pw # p
  BY <1>1, NoSlotZero, NilAssumption DEF Attached, SlotAttached
<1>2. ASSUME NEW p \in Buffers, AddUnusable(s, p) \/ RemoveUnusable(s, p)
      PROVE  Attached(s)' /\ Fits(s)'
  <2>1. userData[s][p] = 0
    <3>1. SUFFICES ASSUME userData[s][p] # 0, place[s][p] = "absent" PROVE FALSE
      BY <1>2 DEF AddUnusable, RemoveUnusable
    <3>2. userData[s][p] \in Slots BY <3>1 DEF TypeOK, BufferType
    <3>3. SlotAttached(s, userData[s][p]) /\ BufferAttached(s, p) BY <3>2 DEF Attached
    <3> QED BY <3>1, <3>3, NilAssumption DEF SlotAttached, BufferAttached
  <2>2. userData'[s][p] = 0 /\ place'[s][p] \in {"free", "absent"} /\ Others(p)
    BY <1>2, <2>1 DEF AddUnusable, RemoveUnusable, TypeOK, BufferType
  <2>3. UNCHANGED <<slots, stream>> BY <1>2 DEF AddUnusable, RemoveUnusable, sourceVars
  <2>4. BufferAttached(s, p)' /\ BufferFits(s, p)' BY <2>2 DEF BufferAttached, BufferFits
  <2> QED BY <1>1, <2>1, <2>2, <2>3, <2>4, OtherBuffers
<1>3. ASSUME NEW p \in Buffers, Recycle(s, p) PROVE Attached(s)' /\ Fits(s)'
  <2>1. userData[s][p] \in Slots /\ place[s][p] = "graph"
    BY <1>3 DEF Recycle, Fits, BufferFits, TypeOK, BufferType
  <2>2. /\ place'[s][p] = "free" /\ Others(p) /\ UNCHANGED <<slots, userData, chunk, stream>>
    BY <1>3 DEF Recycle, sourceVars, TypeOK, BufferType
  <2>3. ~slots[s][userData[s][p]].borrowed BY <2>1, NoSlotZero DEF Attached, BufferAttached
  <2>4. Attached(s)' BY <2>1, <2>2, <2>3, HandsChange
  <2>5. \A q \in Buffers : BufferFits(s, q)' BY <2>2 DEF Fits, BufferFits
  <2> QED BY <2>4, <2>5 DEF Fits
<1>4. ASSUME NEW p \in Buffers, onAddBuffer(s, p) PROVE Attached(s)' /\ Fits(s)'
  <2>1. PICK i \in Slots, m \in Maps \ mapped :
           /\ FirstEmpty(s, i)
           /\ slots' = [slots EXCEPT ![s][i] =
                         [EmptySlot EXCEPT !.live = TRUE, !.pw = p, !.mem = m, !.bytes = size[s]]]
           /\ userData' = [userData EXCEPT ![s][p] = i]
           /\ chunk' = [chunk EXCEPT ![s][p] = size[s]]
    BY <1>4 DEF onAddBuffer
  <2>2. /\ slots'[s][i] = [EmptySlot EXCEPT !.live = TRUE, !.pw = p, !.mem = m, !.bytes = size[s]]
        /\ \A j \in Slots \ {i} : slots'[s][j] = slots[s][j]
        /\ ~slots[s][i].live /\ userData'[s][p] = i
    BY <2>1 DEF FirstEmpty, TypeOK, BufferType
  <2>3. place'[s][p] = "free" /\ Others(p) /\ UNCHANGED stream /\ stream[s]
    BY <1>4, <2>1 DEF onAddBuffer, sourceVars, Event, TypeOK, BufferType
  <2>4. userData[s][p] = 0
    <3>1. SUFFICES ASSUME userData[s][p] # 0 PROVE FALSE
      OBVIOUS
    <3>2. userData[s][p] \in Slots BY <3>1 DEF TypeOK, BufferType
    <3>3. SlotAttached(s, userData[s][p]) /\ BufferAttached(s, p) BY <3>2 DEF Attached
    <3> QED BY <1>4, <3>1, <3>3, NilAssumption DEF SlotAttached, BufferAttached, onAddBuffer
  <2>5. \A q \in Buffers : userData[s][q] # i
    BY <2>2, NoSlotZero DEF Attached, BufferAttached
  <2>6. SlotAttached(s, i)' BY <2>2, <2>3, NilAssumption DEF SlotAttached, EmptySlot
  <2>7. BufferAttached(s, p)' BY <2>2, <2>3 DEF BufferAttached, EmptySlot
  <2>8. BufferFits(s, p)' BY <2>3 DEF BufferFits
  <2> QED BY <1>1, <2>2, <2>3, <2>4, <2>5, <2>6, <2>7, <2>8, OtherBuffers
<1>5. ASSUME NEW p \in Buffers, onRemoveBuffer(s, p) PROVE Attached(s)' /\ Fits(s)'
  <2>1. PICK i \in Slots : userData[s][p] = i /\ i # 0
    BY <1>5 DEF onRemoveBuffer, TypeOK, BufferType
  <2>2. slots[s][i].live /\ slots[s][i].pw = p BY <2>1 DEF Attached, BufferAttached
  <2>3. /\ place'[s][p] = "absent" /\ userData'[s][p] = 0 /\ Others(p)
        /\ UNCHANGED stream
    BY <1>5, <2>1, <2>2 DEF onRemoveBuffer, sourceVars, TypeOK, BufferType
  <2>4. \A q \in Buffers \ {p} : userData[s][q] # i
    BY <2>1, <2>2 DEF Attached, BufferAttached
  <2>5. \A j \in Slots \ {i} : slots[s][j].live => slots[s][j].pw # p
    BY <2>1, NilAssumption DEF Attached, SlotAttached
  <2>6. BufferAttached(s, p)' /\ BufferFits(s, p)' BY <2>3 DEF BufferAttached, BufferFits
  <2>7. SlotAttached(s, i)' /\ \A j \in Slots \ {i} : slots'[s][j] = slots[s][j]
    <3>1. CASE slots[s][i].borrowed /\ slots' = [slots EXCEPT ![s][i] = Detached(@)]
      <4>1. slots[s][i] \in SlotType BY <2>1 DEF TypeOK, BufferType
      <4>2. /\ slots'[s][i] = Detached(slots[s][i]) /\ \A j \in Slots \ {i} : slots'[s][j] = slots[s][j]
        BY <2>1, <3>1 DEF TypeOK, BufferType
      <4>3. slots'[s][i].removed /\ slots'[s][i].pw = nil /\ slots'[s][i].borrowed
        <5>1. slots[s][i].borrowed BY <3>1
        <5> QED BY <4>1, <4>2, <5>1 DEF Detached, SlotType
      <4> QED BY <4>2, <4>3 DEF SlotAttached
    <3>2. CASE freeSlot(s, i)
      <4>1. /\ slots'[s][i] = EmptySlot /\ \A j \in Slots \ {i} : slots'[s][j] = slots[s][j]
        BY <2>1, <3>2 DEF freeSlot, TypeOK, BufferType
      <4> QED BY <4>1 DEF SlotAttached, EmptySlot
    <3> QED BY <1>5, <2>1, <2>2, <3>1, <3>2 DEF onRemoveBuffer
  <2> QED BY <2>1, <2>3, <2>4, <2>5, <2>6, <2>7, OtherBuffers
<1>6. CASE onStateChanged(s) \/ FormatCleared(s) \/ \E bytes \in Sizes : onParamChanged(s, bytes)
  <2>1. UNCHANGED <<slots, place, userData, chunk, stream>>
    BY <1>6 DEF onStateChanged, FormatCleared, onParamChanged, sourceVars, bufferVars
  <2> QED BY <2>1 DEF Attached, SlotAttached, BufferAttached, Fits, BufferFits
<1> QED BY <1>2, <1>3, <1>4, <1>5, <1>6 DEF PipeWire

LEMMA NewAttached ==
    ASSUME TypeOK, NEW s \in Sources, Attached(s), Fits(s), NewVideoSource(s)
    PROVE  Attached(s)' /\ Fits(s)'
<1>1. UNCHANGED bufferVars /\ (stream[s] => stream'[s])
  BY DEF NewVideoSource, ClaimEntry, TableFull, CreateFails, Connect, Connected, ConnectFails,
         StartTeardown, sourceVars, TypeOK, SourceType
<1> QED BY <1>1 DEF bufferVars, Attached, SlotAttached, BufferAttached, Fits, BufferFits

AttachInv == \A s \in Sources : Attached(s) /\ Fits(s)

LEMMA NextAttached == TypeOK /\ AttachInv /\ [Next]_vars => AttachInv'
<1> SUFFICES ASSUME TypeOK, AttachInv, [Next]_vars, NEW t \in Sources PROVE Attached(t)' /\ Fits(t)'
  BY DEF AttachInv
<1>1. Attached(t) /\ Fits(t) BY DEF AttachInv
<1>2. ASSUME /\ slots'[t] = slots[t] /\ place'[t] = place[t] /\ userData'[t] = userData[t]
             /\ chunk'[t] = chunk[t] /\ stream'[t] = stream[t]
      PROVE  Attached(t)' /\ Fits(t)'
  BY <1>1, <1>2 DEF Attached, SlotAttached, BufferAttached, Fits, BufferFits
<1>3. CASE UNCHANGED vars BY <1>2, <1>3 DEF vars, sourceVars, bufferVars
<1>4. ASSUME NEW s \in Sources,
             NewVideoSource(s) \/ Application(s) \/ EndTeardown(s) \/ PipeWire(s)
      PROVE  Attached(t)' /\ Fits(t)'
  <2>1. CASE s = t
    BY <1>1, <1>4, <2>1, NewAttached, ApplicationAttached, TeardownAttached, PipeWireAttached
  <2>2. CASE s # t BY <1>2, <1>4, <2>2, OthersKeep
  <2> QED BY <2>1, <2>2
<1> QED BY <1>3, <1>4 DEF Next

LEMMA InitAttached == Init => AttachInv
BY DEF Init, AttachInv, Attached, SlotAttached, BufferAttached, Fits, BufferFits, EmptySlot

\* The three invariants together.
VideoInv == TypeOK /\ MemoryInv /\ AttachInv

LEMMA Invariance == Spec => []VideoInv
BY InitType, NextType, InitMemory, NextMemory, InitAttached, NextAttached, PTL DEF Spec, VideoInv

\* A slot in use belongs to a buffer PipeWire still has, which names it, or to a
\* borrower: whatever order buffers come, go and are borrowed in, no slot points
\* to a buffer that is gone and none is lost.
THEOREM SlotsFollowBuffers == Spec => []SlotsAttached
<1>1. VideoInv => SlotsAttached
  <2> SUFFICES ASSUME VideoInv, NEW s \in Sources
               PROVE  /\ \A i \in Slots : slots[s][i].live =>
                            LET p == slots[s][i].pw
                            IN IF p = nil THEN slots[s][i].removed /\ slots[s][i].borrowed
                                          ELSE place[s][p] # "absent" /\ userData[s][p] = i
                      /\ \A p \in Buffers : userData[s][p] # 0 =>
                            slots[s][userData[s][p]].live /\ slots[s][userData[s][p]].pw = p
    BY DEF SlotsAttached
  <2> QED BY DEF VideoInv, AttachInv, Attached, SlotAttached, BufferAttached
<1> QED BY <1>1, Invariance, PTL

\* A buffer is in one pair of hands, and slot, PipeWire and borrower agree in whose.
THEOREM HandedOut == Spec => []HandedOutOnce
<1>1. VideoInv => HandedOutOnce
  <2> SUFFICES ASSUME VideoInv, NEW s \in Sources
               PROVE  /\ \A l \in lent[s] : slots[s][l[1]].borrowed
                      /\ \A i \in Slots : slots[s][i].borrowed => <<i, slots[s][i].mem>> \in lent[s]
                      /\ \A p \in Buffers : userData[s][p] # 0 =>
                            (slots[s][userData[s][p]].borrowed <=> place[s][p] = "dequeued")
    BY DEF HandedOutOnce
  <2> QED BY DEF VideoInv, MemoryInv, LentInv, AttachInv, Attached, BufferAttached
<1> QED BY <1>1, Invariance, PTL

\* What a queued frame announces fits its mapping, whatever sizes were negotiated
\* since the mapping was made.
THEOREM AnnouncedFits == Spec => []ChunkFits
<1>1. VideoInv => ChunkFits BY DEF VideoInv, AttachInv, Fits, BufferFits, ChunkFits
<1> QED BY <1>1, Invariance, PTL

-----------------------------------------------------------------------------
(* Resizing and closing.                                                   *)

\* Nothing is borrowed between a Resize and the next Dequeue.
RenewInv == \A s \in Sources, i \in Slots : renewing[s] => ~slots[s][i].borrowed

LEMMA NextRenew == TypeOK /\ RenewInv /\ [Next]_vars => RenewInv'
<1> SUFFICES ASSUME TypeOK, RenewInv, [Next]_vars, NEW t \in Sources, NEW j \in Slots, renewing'[t]
             PROVE  ~slots'[t][j].borrowed
  BY DEF RenewInv
<1> USE DEF TypeOK, SourceType, BufferType
<1>1. CASE UNCHANGED vars BY <1>1 DEF vars, sourceVars, bufferVars, RenewInv
<1>2. ASSUME renewing[t], slots'[t][j].borrowed => slots[t][j].borrowed PROVE ~slots'[t][j].borrowed
  BY <1>2 DEF RenewInv
<1>3. slots[t][j] \in SlotType OBVIOUS
<1>4. ASSUME renewing[t], slots'[t][j] \in {slots[t][j], Detached(slots[t][j]), EmptySlot}
      PROVE  ~slots'[t][j].borrowed
  <2>1. ~slots[t][j].borrowed BY <1>4 DEF RenewInv
  <2>2. ~Detached(slots[t][j]).borrowed /\ ~EmptySlot.borrowed
    BY <1>3, <2>1 DEF Detached, EmptySlot, SlotType
  <2> QED BY <1>4, <2>1, <2>2
<1>5. ASSUME NEW s \in Sources, EndTeardown(s) PROVE ~slots'[t][j].borrowed
  <2>1. renewing[t] BY <1>5 DEF EndTeardown
  <2>2. slots'[t][j] \in {slots[t][j], Detached(slots[t][j]), EmptySlot}
    BY <1>5 DEF EndTeardown, DropBuffers
  <2> QED BY <1>4, <2>1, <2>2
<1>6. ASSUME NEW s \in Sources, NewVideoSource(s) PROVE ~slots'[t][j].borrowed
  BY <1>2, <1>6 DEF NewVideoSource, ClaimEntry, TableFull, CreateFails, Connect, Connected,
                    ConnectFails, StartTeardown, sourceVars, bufferVars
<1>7. ASSUME NEW s \in Sources, Application(s) PROVE ~slots'[t][j].borrowed
  <2>1. CASE Dequeue(s)
    <3>1. t # s /\ renewing[t] BY <2>1 DEF Dequeue
    <3>2. slots'[t] = slots[t] BY <1>7, <3>1, OthersKeep
    <3> QED BY <1>2, <3>1, <3>2
  <2>2. CASE Resize(s) BY <2>2 DEF Resize, bufferVars, RenewInv
  <2>3. CASE Destroy(s) BY <1>2, <2>3 DEF Destroy, StartTeardown, bufferVars
  <2>4. ASSUME NEW i \in Slots, FreeRemoved(s, i) PROVE ~slots'[t][j].borrowed
    BY <1>2, <2>4 DEF FreeRemoved, freeSlot, sourceVars, EmptySlot
  <2>5. ASSUME NEW i \in Slots, Queue(s, i) \/ Release(s, i) PROVE ~slots'[t][j].borrowed
    <3>1. PICK to : HandOver(s, i, to) BY <2>5 DEF Queue, Release
    <3>2. renewing[t] /\ slots' = [slots EXCEPT ![s][i].borrowed = FALSE]
      BY <3>1 DEF HandOver, sourceVars
    <3>3. slots'[t][j].borrowed => slots[t][j].borrowed BY <1>3, <3>2 DEF SlotType
    <3> QED BY <1>2, <3>2, <3>3
  <2> QED BY <1>7, <2>1, <2>2, <2>3, <2>4, <2>5 DEF Application
<1>8. ASSUME NEW s \in Sources, PipeWire(s) PROVE ~slots'[t][j].borrowed
  <2>1. renewing[t]
    BY <1>8 DEF PipeWire, onStateChanged, FormatCleared, onParamChanged, onAddBuffer, AddUnusable,
                onRemoveBuffer, RemoveUnusable, Recycle, sourceVars
  <2>2. ASSUME NEW p \in Buffers, onAddBuffer(s, p) PROVE ~slots'[t][j].borrowed
    <3>1. PICK i \in Slots, m \in Maps :
             slots' = [slots EXCEPT ![s][i] =
                         [EmptySlot EXCEPT !.live = TRUE, !.pw = p, !.mem = m, !.bytes = size[s]]]
      BY <2>2 DEF onAddBuffer
    <3>2. CASE t = s /\ j = i BY <3>1, <3>2 DEF EmptySlot
    <3>3. CASE ~(t = s /\ j = i) BY <1>2, <2>1, <3>1, <3>3
    <3> QED BY <3>2, <3>3
  <2>3. ASSUME NEW p \in Buffers, onRemoveBuffer(s, p) PROVE ~slots'[t][j].borrowed
    <3>1. slots'[t][j] \in {slots[t][j], Detached(slots[t][j]), EmptySlot}
      <4> DEFINE i == userData[s][p]
      <4>1. i \in Slots BY <2>3 DEF onRemoveBuffer
      <4>2. CASE UNCHANGED slots BY <4>2
      <4>3. CASE slots' = [slots EXCEPT ![s][i] = Detached(@)] BY <4>1, <4>3
      <4>4. CASE slots' = [slots EXCEPT ![s][i] = EmptySlot] BY <4>1, <4>4
      <4> QED BY <2>3, <4>2, <4>3, <4>4 DEF onRemoveBuffer, freeSlot
    <3> QED BY <1>4, <2>1, <3>1
  <2>4. CASE UNCHANGED slots BY <1>2, <2>1, <2>4
  <2> QED BY <1>8, <2>2, <2>3, <2>4
          DEF PipeWire, onStateChanged, FormatCleared, onParamChanged, AddUnusable, RemoveUnusable,
              Recycle, bufferVars
<1> QED BY <1>1, <1>5, <1>6, <1>7, <1>8 DEF Next

LEMMA InitRenew == Init => RenewInv
BY DEF Init, RenewInv

\* After a Resize, while nothing is dequeued, every buffer PipeWire adds finds an
\* empty slot: otherwise the slots would hold as many buffers as PipeWire may have.
THEOREM ResizeLeavesRoom == Spec => []ResizeFindsSlots
<1>1. VideoInv /\ RenewInv => ResizeFindsSlots
  <2> SUFFICES ASSUME VideoInv, RenewInv, NEW s \in Sources, renewing[s], \A i \in Slots : slots[s][i].live
               PROVE  ~(Cardinality({p \in Buffers : place[s][p] # "absent"}) < MaxBuffers)
    BY DEF ResizeFindsSlots
  <2> DEFINE present == {p \in Buffers : place[s][p] # "absent"}
             pw == [i \in Slots |-> slots[s][i].pw]
  <2>1. ASSUME NEW i \in Slots PROVE pw[i] \in present /\ userData[s][pw[i]] = i
    <3>1. slots[s][i].pw \in Buffers \cup {nil} BY DEF VideoInv, TypeOK, BufferType, SlotType
    <3>2. SlotAttached(s, i) /\ ~slots[s][i].borrowed BY DEF VideoInv, AttachInv, Attached, RenewInv
    <3> QED BY <3>1, <3>2 DEF SlotAttached
  <2>2. pw \in Injection(Slots, present) BY <2>1 DEF Injection, IsInjective
  <2>3. IsFiniteSet(present) BY BuffersAssumption, FS_Subset
  <2>4. IsFiniteSet(Slots) /\ Cardinality(Slots) = MaxBuffers
    BY LimitsAssumption, FS_Interval DEF Slots
  <2>5. Cardinality(Slots) <= Cardinality(present)
    BY <2>2, <2>3, FS_Injection
  <2>6. Cardinality(present) \in Nat BY <2>3, FS_CardinalityType
  <2> QED BY <2>4, <2>5, <2>6, LimitsAssumption
<1> QED BY <1>1, Invariance, InitType, NextType, InitRenew, NextRenew, PTL DEF Spec

\* While a source that is over still has its stream, whose events reach it, it is
\* closed: closed is set before the first call that PipeWire can call back from.
ClosingInv == \A s \in Sources : stream[s] /\ Over(s) => closed[s]

LEMMA NextClosing == TypeOK /\ TableInv /\ ClosingInv /\ [Next]_vars => ClosingInv'
<1> SUFFICES ASSUME TypeOK, TableInv, ClosingInv, [Next]_vars PROVE ClosingInv'
  OBVIOUS
<1> USE DEF TypeOK, TableType, SourceType
<1>1. CASE UNCHANGED <<made, stream, closed, leaving>> BY <1>1 DEF ClosingInv, Over
<1>2. ASSUME NEW s \in Sources, NewVideoSource(s) PROVE ClosingInv'
  <2>1. CASE ClaimEntry(s) BY <2>1 DEF ClaimEntry, sourceVars, ClosingInv, Over, TableInv
  <2>2. CASE TableFull(s) BY <2>2 DEF TableFull, sourceVars, ClosingInv, Over, TableInv
  <2>3. CASE CreateFails(s) BY <2>3 DEF CreateFails, sourceVars, ClosingInv, Over, TableInv
  <2>4. CASE Connect(s) BY <2>4 DEF Connect, ClosingInv, Over, TableInv
  <2>5. CASE Connected(s) BY <2>5 DEF Connected, sourceVars, ClosingInv, Over, TableInv
  <2>6. CASE ConnectFails(s) BY <2>6 DEF ConnectFails, StartTeardown, ClosingInv, Over
  <2> QED BY <1>2, <2>1, <2>2, <2>3, <2>4, <2>5, <2>6 DEF NewVideoSource
<1>3. ASSUME NEW s \in Sources, Destroy(s) PROVE ClosingInv'
  BY <1>3 DEF Destroy, StartTeardown, tableVars, ClosingInv, Over
<1>4. ASSUME NEW s \in Sources, EndTeardown(s) PROVE ClosingInv'
  BY <1>4 DEF EndTeardown, ClosingInv, Over
<1>5. ASSUME NEW s \in Sources, Application(s), ~Destroy(s) PROVE ClosingInv'
  BY <1>1, <1>5 DEF Application, Dequeue, Resize, FreeRemoved, Queue, Release, HandOver,
                    tableVars, sourceVars
<1>6. ASSUME NEW s \in Sources, PipeWire(s) PROVE ClosingInv'
  BY <1>1, <1>6 DEF PipeWire, onStateChanged, FormatCleared, onParamChanged, onAddBuffer,
                    AddUnusable, onRemoveBuffer, RemoveUnusable, Recycle, tableVars, sourceVars
<1>7. CASE UNCHANGED vars BY <1>1, <1>7 DEF vars, tableVars, sourceVars
<1> QED BY <1>2, <1>3, <1>4, <1>5, <1>6, <1>7 DEF Next

LEMMA NextSilent ==
    TypeOK /\ ClosingInv /\ ClosedIsSilent /\ [Next]_vars => ClosedIsSilent'
<1> SUFFICES ASSUME TypeOK, ClosingInv, ClosedIsSilent, [Next]_vars PROVE ClosedIsSilent'
  OBVIOUS
<1>1. ASSUME Quiet PROVE ClosedIsSilent' BY <1>1 DEF Quiet, ClosedIsSilent
<1>2. ASSUME NEW s \in Sources, Tells(s), Event(s), UNCHANGED <<made, stream, leaving>>
      PROVE  ClosedIsSilent'
  BY <1>2 DEF Tells, Event, ClosingInv, ClosedIsSilent, Over
<1>3. CASE UNCHANGED vars
  BY <1>3 DEF vars, tableVars, sourceVars, ClosedIsSilent, Over
<1>4. ASSUME NEW s \in Sources, NewVideoSource(s) \/ EndTeardown(s) PROVE ClosedIsSilent'
  BY <1>1, <1>4 DEF NewVideoSource, ClaimEntry, TableFull, CreateFails, Connect, Connected,
                    ConnectFails, StartTeardown, EndTeardown
<1>5. ASSUME NEW s \in Sources, Application(s) PROVE ClosedIsSilent'
  BY <1>1, <1>5 DEF Application, Dequeue, Resize, Destroy, StartTeardown, FreeRemoved, Queue,
                    Release, HandOver
<1>6. ASSUME NEW s \in Sources, PipeWire(s) PROVE ClosedIsSilent'
  BY <1>1, <1>2, <1>6 DEF PipeWire, onStateChanged, FormatCleared, onParamChanged, onAddBuffer,
                          AddUnusable, onRemoveBuffer, RemoveUnusable, Recycle, tableVars, sourceVars
<1> QED BY <1>3, <1>4, <1>5, <1>6 DEF Next

\* A handler hears nothing from the start of Destroy on, although the stream's
\* disconnection removes buffers and changes states, and until its end any event
\* still finds the source; nor does it hear of a source whose connection failed.
THEOREM DestroyedIsSilent == Spec => []ClosedIsSilent
<1>1. Init => ClosingInv /\ ClosedIsSilent BY DEF Init, ClosingInv, ClosedIsSilent
<1> QED BY <1>1, InitType, NextType, InitTable, NextTable, NextClosing, NextSilent, PTL DEF Spec

=============================================================================
