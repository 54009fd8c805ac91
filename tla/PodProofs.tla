------------------------------ MODULE PodProofs ------------------------------
(***************************************************************************)
(* Theorems about the builder of Pods for any buffers, depth, arguments    *)
(* and values.                                                             *)
(***************************************************************************)
EXTENDS Pods, SequenceTheorems, WellFoundedInduction, TLAPS

-----------------------------------------------------------------------------
(* A builder in order, which every method keeps: the buffer is not         *)
(* overrun, everything in it ends on an 8-byte boundary, and the headers   *)
(* to patch are in it.                                                     *)

Errors == {"none", "full", "state"}
Builders == [len : Nat, words : Seq(Int), err : Errors, stack : Seq(Nat \ {0})]

Even(n) == n % 2 = 0

InOrder(p) ==
    /\ p \in Builders
    /\ Written(p.words) <= p.len /\ Even(Len(p.words))
    /\ Len(p.stack) <= podMaxDepth
    /\ \A i \in DOMAIN p.stack : p.stack[i] + 3 <= Len(p.words)

LEMMA EvenNumbers ==
    /\ Even(0) /\ Even(2) /\ Even(4) /\ Even(34)
    /\ \A m, n \in Nat : Even(m) /\ Even(n) => Even(m + n)
    /\ \A m, n \in Nat : Even(m) /\ ~Even(n) => Even(m + n + 1)
BY DEF Even

\* What is known of a builder in order.
LEMMA Facts ==
    ASSUME NEW p, InOrder(p)
    PROVE  /\ p \in Builders /\ p.len \in Nat /\ p.words \in Seq(Int)
           /\ p.stack \in Seq(Nat \ {0}) /\ p.err \in Errors
           /\ Len(p.words) \in Nat /\ Len(p.stack) \in Nat
           /\ Even(Len(p.words)) /\ 4 * Len(p.words) <= p.len
           /\ Written(p.words) = 4 * Len(p.words)
BY DEF InOrder, Builders, Written

LEMMA NewInOrder ==
    ASSUME NEW len \in Nat PROVE InOrder(NewPodBuilder(len))
<1>1. \A ws \in Seq(Int), st \in Seq(Nat \ {0}) :
        [len |-> len, words |-> ws, err |-> "none", stack |-> st] \in Builders
  BY DEF Builders, Errors
<1>2. NewPodBuilder(len) \in Builders BY <1>1, EmptySeq DEF NewPodBuilder
<1>3. Len(<<>>) = 0 /\ DOMAIN <<>> = {} BY EmptySeq
<1>4. /\ NewPodBuilder(len).words = <<>> /\ NewPodBuilder(len).stack = <<>>
      /\ NewPodBuilder(len).len = len
  BY DEF NewPodBuilder
<1> QED BY <1>2, <1>3, <1>4, EvenNumbers, DepthAssumption DEF InOrder, Written

LEMMA FailInOrder ==
    ASSUME NEW p, InOrder(p), NEW err \in Errors PROVE InOrder(Fail(p, err))
BY DEF InOrder, Builders, Fail

\* A builder with other words, at least as many, is in order.
LEMMA WordsInOrder ==
    ASSUME NEW p, InOrder(p), NEW ws \in Seq(Int),
           4 * Len(ws) <= p.len, Len(p.words) <= Len(ws), Even(Len(ws))
    PROVE  InOrder([p EXCEPT !.words = ws])
<1> DEFINE q == [p EXCEPT !.words = ws]
<1>1. p \in Builders /\ Len(p.words) \in Nat /\ Len(ws) \in Nat BY Facts
<1>2. q \in Builders /\ q.words = ws /\ q.stack = p.stack /\ q.len = p.len
  BY <1>1 DEF Builders
<1>3. \A i \in DOMAIN p.stack : p.stack[i] \in Nat BY Facts
<1>4. \A i \in DOMAIN p.stack : p.stack[i] + 3 <= Len(ws) BY <1>1, <1>3 DEF InOrder
<1> HIDE DEF q
<1>5. InOrder(q) BY <1>2, <1>4 DEF InOrder, Written
<1> QED BY <1>5 DEF q

\* Words for which there is room keep the builder in order if they are even in
\* number.
LEMMA PutInOrder ==
    ASSUME NEW p, InOrder(p), NEW ws \in Seq(Int),
           Written(p.words) + 4 * Len(ws) <= p.len, Even(Len(ws))
    PROVE  InOrder(Put(p, ws))
<1>1. p.words \o ws \in Seq(Int) /\ Len(p.words \o ws) = Len(p.words) + Len(ws)
  BY Facts, ConcatProperties
<1>2. Len(p.words) \in Nat /\ Len(ws) \in Nat /\ p.len \in Nat BY Facts
<1>3. 4 * Len(p.words \o ws) <= p.len BY <1>1, <1>2, Facts
<1>4. Even(Len(p.words \o ws)) BY <1>1, <1>2, Facts, EvenNumbers
<1>5. Len(p.words) <= Len(p.words \o ws) BY <1>1, <1>2
<1>6. InOrder([p EXCEPT !.words = p.words \o ws]) BY <1>1, <1>3, <1>4, <1>5, WordsInOrder
<1> QED BY <1>6 DEF Put

\* Patching a size keeps the builder in order.
LEMMA PatchInOrder ==
    ASSUME NEW p, InOrder(p), NEW i \in 1 .. Len(p.words) PROVE InOrder(Patch(p, i))
<1> DEFINE v == Written(p.words) - 4 * (i - 1) - 8
           ws == [p.words EXCEPT ![i] = v]
<1>1. v \in Int BY Facts
<1>2. ws \in Seq(Int) /\ Len(ws) = Len(p.words) BY <1>1, Facts, ExceptSeq
<1>3. Patch(p, i) = [p EXCEPT !.words = ws] BY DEF Patch
<1> HIDE DEF ws
<1>4. 4 * Len(ws) <= p.len /\ Len(p.words) <= Len(ws) /\ Even(Len(ws)) BY <1>2, Facts
<1> QED BY <1>2, <1>3, <1>4, WordsInOrder

\* Nothing is padded in a builder in order.
LEMMA Pad8InOrder == ASSUME NEW p, InOrder(p) PROVE InOrder(Pad8(p))
BY DEF Pad8, InOrder, Even

-----------------------------------------------------------------------------
(* The methods.                                                            *)

LEMMA PropInOrder ==
    ASSUME NEW p, InOrder(p), NEW key \in Nat PROVE InOrder(Prop(p, key))
<1>1. CASE p.stack = <<>> BY <1>1, FailInOrder DEF Errors, Prop
<1>2. CASE p.stack # <<>> /\ ~Room(p, 8) BY <1>2, FailInOrder DEF Errors, Prop
<1>3. CASE p.stack # <<>> /\ Room(p, 8)
  <2> DEFINE ws == <<key, 0>>
  <2>1. ws \in Seq(Int) /\ Len(ws) = 2 OBVIOUS
  <2> HIDE DEF ws
  <2>2. Written(p.words) + 4 * Len(ws) <= p.len BY <1>3, <2>1 DEF Room
  <2>3. InOrder(Put(p, ws)) BY <2>1, <2>2, PutInOrder, EvenNumbers
  <2> QED BY <1>3, <2>3 DEF Prop, ws
<1> QED BY <1>1, <1>2, <1>3

LEMMA ScalarInOrder ==
    ASSUME NEW p, InOrder(p), NEW v, v.size \in Nat, v.type \in Nat,
           v.vals \in Seq(Nat), Len(v.vals) = 2
    PROVE  InOrder(Scalar(p, v))
<1> DEFINE ws == <<v.size, v.type>> \o v.vals
<1>1. ws \in Seq(Int) /\ Len(ws) = 4
  <2>1. v.vals \in Seq(Int) OBVIOUS
  <2> DEFINE head == <<v.size, v.type>>
  <2>2. head \in Seq(Int) /\ Len(head) = 2 OBVIOUS
  <2> HIDE DEF head
  <2>3. head \o v.vals \in Seq(Int) /\ Len(head \o v.vals) = Len(head) + Len(v.vals)
    BY <2>1, <2>2, ConcatProperties
  <2> QED BY <2>2, <2>3 DEF head
<1> HIDE DEF ws
<1>2. CASE Room(p, 16)
  <2>1. Written(p.words) + 4 * Len(ws) <= p.len BY <1>1, <1>2 DEF Room
  <2>2. InOrder(Put(p, ws)) BY <1>1, <2>1, PutInOrder, EvenNumbers
  <2> QED BY <1>2, <2>2 DEF Scalar, ws
<1>3. CASE ~Room(p, 16) BY <1>3, FailInOrder DEF Errors, Scalar
<1> QED BY <1>2, <1>3

LEMMA AlignedRoom ==
    ASSUME NEW m \in Nat
    PROVE  4 * m <= Align8(4 * m) /\ (~Even(m) => 4 * (m + 1) <= Align8(4 * m))
BY DEF Align8, Even

LEMMA OddNumbers == ASSUME NEW m \in Nat, ~Even(m) PROVE Even(m + 1)
BY DEF Even

LEMMA ConcatInt ==
    ASSUME NEW v \in Seq(Int), NEW w \in Seq(Int)
    PROVE  v \o w \in Seq(Int) /\ Len(v \o w) = Len(v) + Len(w) /\ Len(v) \in Nat /\ Len(w) \in Nat
BY ConcatProperties

\* Words for which there is aligned room keep the builder in order when padded.
LEMMA PaddedInOrder ==
    ASSUME NEW p, InOrder(p), NEW ws \in Seq(Int), NEW m \in Nat, Len(ws) = m,
           Len(p.words) <= m, Align8(4 * m) <= p.len
    PROVE  InOrder(Pad8([p EXCEPT !.words = ws]))
<1> DEFINE q == [p EXCEPT !.words = ws]
           padded == ws \o <<0>>
<1>1. p \in Builders /\ p.words \in Seq(Int) /\ p.len \in Nat BY Facts
<1>2. q.words = ws /\ Put(q, <<0>>) = [p EXCEPT !.words = padded] BY <1>1 DEF Put, Builders
<1>3. CASE Even(m)
  <2>1. Pad8(q) = q BY <1>2, <1>3 DEF Pad8, Even
  <2>2. 4 * m <= p.len
    <3> PICK a \in Nat : a = Align8(4 * m) BY DEF Align8
    <3>1. 4 * m <= a BY AlignedRoom
    <3> QED BY <1>1, <3>1
  <2>3. InOrder(q) BY <1>3, <2>2, WordsInOrder
  <2> QED BY <2>1, <2>3
<1>4. CASE ~Even(m)
  <2>1. Pad8(q) = [p EXCEPT !.words = padded] BY <1>2, <1>4 DEF Pad8, Even
  <2>2. padded \in Seq(Int) /\ Len(padded) = m + 1 OBVIOUS
  <2> HIDE DEF padded
  <2>3. 4 * (m + 1) <= p.len
    <3> PICK a \in Nat : a = Align8(4 * m) BY DEF Align8
    <3>1. 4 * (m + 1) <= a BY <1>4, AlignedRoom
    <3> QED BY <1>1, <3>1
  <2>4. Even(m + 1) BY <1>4, OddNumbers
  <2>5. Len(p.words) <= m + 1 BY <1>1
  <2>6. InOrder([p EXCEPT !.words = padded]) BY <2>2, <2>3, <2>4, <2>5, WordsInOrder
  <2> QED BY <2>1, <2>6
<1> QED BY <1>3, <1>4

\* What choiceBegin asks for is the aligned room of its words.
LEMMA ChoiceRoom ==
    ASSUME NEW k \in Nat, NEW j \in Nat, NEW len \in Nat,
           4 * k + (Align8(4 * k + 24 + 4 * j) - 4 * k) <= len
    PROVE  Align8(4 * (k + 6 + j)) <= len
BY DEF Align8
LEMMA ChoiceWords ==
    ASSUME NEW words \in Seq(Int), NEW head \in Seq(Int), Len(head) = 6, NEW vals \in Seq(Int)
    PROVE  /\ words \o (head \o vals) \in Seq(Int)
           /\ Len(words \o (head \o vals)) = Len(words) + 6 + Len(vals)
           /\ Len(words) + 6 + Len(vals) \in Nat
           /\ Len(words) + 1 \in 1 .. Len(words) + 6 + Len(vals)
           /\ Len(words) <= Len(words) + 6 + Len(vals)
<1> DEFINE body == head \o vals
<1>1. body \in Seq(Int) /\ Len(body) = 6 + Len(vals) BY ConcatInt
<1> HIDE DEF body
<1>2. words \o body \in Seq(Int) /\ Len(words \o body) = Len(words) + Len(body)
  BY <1>1, ConcatInt
<1>3. Len(words) + (6 + Len(vals)) = Len(words) + 6 + Len(vals) OBVIOUS
<1>4. Len(words) + 1 \in 1 .. Len(words) + 6 + Len(vals) OBVIOUS
<1> QED BY <1>1, <1>2, <1>3, <1>4 DEF body
LEMMA PatchedWords ==
    ASSUME NEW all \in Seq(Int), NEW i \in 1 .. Len(all)
    PROVE  LET ws == [all EXCEPT ![i] = Written(all) - 4 * (i - 1) - 8]
           IN  ws \in Seq(Int) /\ Len(ws) = Len(all)
<1> DEFINE size == Written(all) - 4 * (i - 1) - 8
<1>1. size \in Int BY DEF Written
<1> HIDE DEF size
<1>2. [all EXCEPT ![i] = size] \in Seq(Int) /\ Len([all EXCEPT ![i] = size]) = Len(all)
  BY <1>1, ExceptSeq
<1> QED BY <1>2 DEF size

\* A choice keeps room for its padding.
LEMMA ChoiceInOrder ==
    ASSUME NEW p, InOrder(p), NEW v, v.choice \in Int, v.size \in Nat, v.type \in Nat,
           v.vals \in Seq(Nat)
    PROVE  InOrder(Choice(p, v))
<1> DEFINE head == <<0, TypeChoice, v.choice, 0, v.size, v.type>>
           room == Align8(Written(p.words) + 24 + Written(v.vals)) - Written(p.words)
           body == head \o v.vals
           all == p.words \o body
           i == Len(p.words) + 1
           ws == [all EXCEPT ![i] = Written(all) - 4 * (i - 1) - 8]
<1>1. CASE v.vals = <<>> BY <1>1, FailInOrder DEF Errors, Choice
<1>2. CASE v.vals # <<>> /\ ~Room(p, room) BY <1>2, FailInOrder DEF Errors, Choice
<1>3. CASE v.vals # <<>> /\ Room(p, room)
  <2>1. p \in Builders /\ p.words \in Seq(Int) /\ p.len \in Nat /\ Len(p.words) \in Nat BY Facts
  <2>2. v.vals \in Seq(Int) /\ Len(v.vals) \in Nat OBVIOUS
  <2>3. head \in Seq(Int) /\ Len(head) = 6 BY DEF TypeChoice
  <2>4. Align8(4 * (Len(p.words) + 6 + Len(v.vals))) <= p.len
    <3>1. Written(p.words) + room <= p.len BY <1>3 DEF Room
    <3> QED BY <2>1, <2>2, <3>1, ChoiceRoom DEF Written
  <2>5. Patch(Put(p, body), i) = [p EXCEPT !.words = ws]
    <3> HIDE DEF body, i
    <3> QED BY <2>1 DEF Patch, Put, Builders
  <2> HIDE DEF head
  <2> DEFINE m == Len(p.words) + 6 + Len(v.vals)
  <2>6. all \in Seq(Int) /\ Len(all) = m /\ m \in Nat /\ i \in 1 .. m /\ Len(p.words) <= m
    BY <2>1, <2>2, <2>3, ChoiceWords
  <2> HIDE DEF all, i
  <2>7. ws \in Seq(Int) /\ Len(ws) = m BY <2>6, PatchedWords
  <2> HIDE DEF ws, m
  <2>8. InOrder(Pad8([p EXCEPT !.words = ws])) BY <2>4, <2>6, <2>7, PaddedInOrder DEF m
  <2>9. Choice(p, v) = Pad8(Patch(Put(p, body), i))
    BY <1>3 DEF Choice, head, i
  <2> QED BY <2>5, <2>8, <2>9
<1> QED BY <1>1, <1>2, <1>3

LEMMA StackPopped ==
    ASSUME NEW stack \in Seq(Nat \ {0}), stack # <<>>
    PROVE  LET rest == SubSeq(stack, 1, Len(stack) - 1)
           IN  /\ rest \in Seq(Nat \ {0}) /\ Len(rest) <= Len(stack)
               /\ \A i \in DOMAIN rest : i \in DOMAIN stack /\ rest[i] = stack[i]
               /\ Len(stack) \in DOMAIN stack
<1>1. Len(stack) \in Nat \ {0} /\ DOMAIN stack = 1 .. Len(stack) BY EmptySeq, LenProperties
<1>2. \A i \in 1 .. Len(stack) - 1 : stack[i] \in Nat \ {0} BY <1>1, ElementOfSeq
<1> DEFINE rest == SubSeq(stack, 1, Len(stack) - 1)
<1>3. rest \in Seq(Nat \ {0}) /\ Len(rest) = Len(stack) - 1
      /\ \A i \in 1 .. Len(stack) - 1 : rest[i] = stack[i]
  BY <1>1, <1>2, SubSeqProperties
<1> HIDE DEF rest
<1>4. DOMAIN rest = 1 .. Len(stack) - 1 BY <1>3, LenProperties
<1>5. \A i \in DOMAIN rest : i \in DOMAIN stack /\ rest[i] = stack[i]
  <2> SUFFICES ASSUME NEW i \in DOMAIN rest PROVE i \in DOMAIN stack /\ rest[i] = stack[i]
    OBVIOUS
  <2>1. i \in 1 .. Len(stack) - 1 BY <1>4
  <2>2. i \in 1 .. Len(stack) BY <1>1, <2>1
  <2>3. rest[i] = stack[i] BY <1>3, <2>1
  <2> QED BY <1>1, <2>2, <2>3
<1> QED BY <1>1, <1>3, <1>5 DEF rest

LEMMA StackPushed ==
    ASSUME NEW stack \in Seq(Nat \ {0}), NEW k \in Nat,
           \A i \in DOMAIN stack : stack[i] + 3 <= k
    PROVE  /\ Append(stack, k + 1) \in Seq(Nat \ {0})
           /\ Len(Append(stack, k + 1)) = Len(stack) + 1
           /\ \A i \in DOMAIN Append(stack, k + 1) : Append(stack, k + 1)[i] + 3 <= k + 4
<1> DEFINE pushed == Append(stack, k + 1)
<1>1. /\ pushed \in Seq(Nat \ {0}) /\ Len(pushed) = Len(stack) + 1
      /\ \A i \in 1 .. Len(stack) : pushed[i] = stack[i]
      /\ pushed[Len(stack) + 1] = k + 1
  BY AppendProperties
<1> HIDE DEF pushed
<1>2. \A i \in DOMAIN pushed : i \in 1 .. Len(stack) \/ i = Len(stack) + 1 BY <1>1
<1>3. \A i \in 1 .. Len(stack) : stack[i] \in Nat /\ stack[i] + 3 <= k OBVIOUS
<1>4. \A i \in 1 .. Len(stack) : pushed[i] + 3 <= k + 4
  <2> SUFFICES ASSUME NEW i \in 1 .. Len(stack) PROVE pushed[i] + 3 <= k + 4
    OBVIOUS
  <2> PICK n \in Nat : n = stack[i] /\ n + 3 <= k BY <1>3
  <2> QED BY <1>1
<1>5. pushed[Len(stack) + 1] + 3 <= k + 4 BY <1>1
<1> QED BY <1>1, <1>2, <1>4, <1>5 DEF pushed

\* An object that is opened has its header inside.
LEMMA ObjectInOrder ==
    ASSUME NEW p, InOrder(p), NEW type \in Nat, NEW id \in Nat
    PROVE  InOrder(Object(p, type, id))
<1> DEFINE ws == <<0, TypeObject, type, id>>
           stack == Append(p.stack, Len(p.words) + 1)
           q == [Put(p, ws) EXCEPT !.stack = stack]
<1>1. CASE ~Room(p, 16) BY <1>1, FailInOrder DEF Errors, Object
<1>2. CASE Room(p, 16) /\ Len(p.stack) = podMaxDepth
  BY <1>2, FailInOrder DEF Errors, Object
<1>3. CASE Room(p, 16) /\ Len(p.stack) # podMaxDepth
  <2>1. ws \in Seq(Int) /\ Len(ws) = 4 BY DEF TypeObject
  <2> HIDE DEF ws
  <2>2. Written(p.words) + 4 * Len(ws) <= p.len BY <1>3, <2>1 DEF Room
  <2>3. InOrder(Put(p, ws)) BY <2>1, <2>2, PutInOrder, EvenNumbers
  <2>4. Len(Put(p, ws).words) = Len(p.words) + 4
    <3>1. Put(p, ws).words = p.words \o ws BY Facts DEF Put, Builders
    <3>2. Len(p.words \o ws) = Len(p.words) + Len(ws) BY <2>1, Facts, ConcatInt
    <3> QED BY <2>1, <3>1, <3>2
  <2>5. /\ stack \in Seq(Nat \ {0}) /\ Len(stack) = Len(p.stack) + 1
        /\ \A i \in DOMAIN stack : stack[i] + 3 <= Len(p.words) + 4
    <3>1. \A i \in DOMAIN p.stack : p.stack[i] + 3 <= Len(p.words) BY DEF InOrder
    <3> QED BY <3>1, Facts, StackPushed
  <2> HIDE DEF stack
  <2>6. Len(stack) <= podMaxDepth
    <3>1. Len(p.stack) <= podMaxDepth BY DEF InOrder
    <3>2. Len(p.stack) \in Nat BY Facts
    <3> QED BY <1>3, <2>5, <3>1, <3>2, DepthAssumption
  <2>7. /\ q \in Builders /\ q.stack = stack
        /\ q.words = Put(p, ws).words /\ q.len = Put(p, ws).len
    <3>1. Put(p, ws) \in Builders BY <2>3, Facts
    <3> QED BY <2>5, <3>1 DEF Builders
  <2> HIDE DEF q
  <2>8. InOrder(q) BY <2>3, <2>4, <2>5, <2>6, <2>7 DEF InOrder
  <2> QED BY <1>3, <2>8 DEF Object, q, ws, stack
<1> QED BY <1>1, <1>2, <1>3

\* The pod that is closed is even already: End has nothing to pad.
LEMMA EndInOrder ==
    ASSUME NEW p, InOrder(p) PROVE InOrder(End(p))
<1> DEFINE rest == SubSeq(p.stack, 1, Len(p.stack) - 1)
           q == [p EXCEPT !.stack = rest]
           start == p.stack[Len(p.stack)]
<1>1. CASE p.err # "none" BY <1>1 DEF End
<1>2. CASE p.err = "none" /\ p.stack = <<>> BY <1>2, FailInOrder DEF Errors, End
<1>3. CASE p.err = "none" /\ p.stack # <<>>
  <2>1. /\ rest \in Seq(Nat \ {0}) /\ Len(rest) <= Len(p.stack)
        /\ \A i \in DOMAIN rest : i \in DOMAIN p.stack /\ rest[i] = p.stack[i]
    BY <1>3, Facts, StackPopped
  <2>2. start \in 1 .. Len(p.words)
    <3>1. Len(p.stack) \in DOMAIN p.stack BY <1>3, Facts, StackPopped
    <3>2. start + 3 <= Len(p.words) /\ start \in Nat \ {0} BY <3>1, Facts DEF InOrder
    <3>3. Len(p.words) \in Nat /\ p.words \in Seq(Int) BY Facts
    <3> HIDE DEF start
    <3> QED BY <3>2, <3>3
  <2> HIDE DEF rest
  <2>3. q \in Builders /\ q.stack = rest /\ q.words = p.words /\ q.len = p.len
    <3>1. p \in Builders BY Facts
    <3> QED BY <2>1, <3>1 DEF Builders
  <2> HIDE DEF q
  <2>4. Len(rest) <= podMaxDepth
    <3>1. Len(p.stack) <= podMaxDepth BY DEF InOrder
    <3>2. Len(p.stack) \in Nat BY Facts
    <3> QED BY <2>1, <3>1, <3>2, DepthAssumption
  <2>5. InOrder(q) BY <2>1, <2>3, <2>4 DEF InOrder
  <2>6. InOrder(Pad8(Patch(q, start))) BY <2>2, <2>3, <2>5, PatchInOrder, Pad8InOrder
  <2> QED BY <1>3, <2>6 DEF End, q, rest
<1> QED BY <1>1, <1>2, <1>3

-----------------------------------------------------------------------------
(* Whole parameters.                                                       *)

\* The values the methods of the builder are called with.
Proper(v) ==
    /\ v.choice \in Int /\ v.size \in Nat /\ v.type \in Nat /\ v.vals \in Seq(Nat)
    /\ v.choice = Plain => Len(v.vals) = 2

LEMMA ValueInOrder ==
    ASSUME NEW p, InOrder(p), NEW v, Proper(v) PROVE InOrder(Value(p, v))
BY ScalarInOrder, ChoiceInOrder DEF Value, Proper

LEMMA PlusInOrder ==
    ASSUME NEW p, InOrder(p), NEW kv, kv.key \in Nat, Proper(kv.val) PROVE InOrder(p ++ kv)
<1>1. InOrder(Prop(p, kv.key)) BY PropInOrder
<1> QED BY <1>1, ValueInOrder DEF ++

LEMMA SixInOrder ==
    ASSUME NEW p, InOrder(p), NEW kvs,
           \A i \in 1 .. 6 : kvs[i].key \in Nat /\ Proper(kvs[i].val)
    PROVE  InOrder(SixProps(p, kvs))
<1>1. \A q : \A i \in 1 .. 6 : InOrder(q) => InOrder(q ++ kvs[i]) BY PlusInOrder
<1> QED BY <1>1 DEF SixProps

LEMMA OpenInOrder ==
    ASSUME NEW len \in Nat, NEW type \in Nat, NEW id \in Nat PROVE InOrder(Open(len, type, id))
BY NewInOrder, ObjectInOrder DEF Open
LEMMA RefusedInOrder ==
    ASSUME NEW len \in Nat PROVE InOrder(Refused(len))
BY NewInOrder, FailInOrder DEF Refused, Errors

LEMMA ProperScalars ==
    ASSUME NEW m \in Nat, NEW n \in Nat
    PROVE  Proper(Id(m)) /\ Proper(IntPod(m)) /\ Proper(Rectangle(m, n)) /\ Proper(Fraction(m, n))
<1>1. \A j, k \in Nat : <<j, k>> \in Seq(Nat) /\ Len(<<j, k>>) = 2 OBVIOUS
<1>2. <<m, 0>> \in Seq(Nat) /\ Len(<<m, 0>>) = 2 BY <1>1
<1>3. <<m, n>> \in Seq(Nat) /\ Len(<<m, n>>) = 2 BY <1>1
<1> QED BY <1>2, <1>3 DEF Proper, Id, IntPod, Rectangle, Fraction, Plain, TypeId, TypeInt,
        TypeRectangle, TypeFraction

LEMMA ProperChoices ==
    ASSUME NEW l \in Nat, NEW m \in Nat, NEW n \in Nat, NEW vals \in Seq(Nat)
    PROVE  /\ Proper(ChoiceEnumId(vals)) /\ Proper(ChoiceRangeInt(l, m, n))
           /\ Proper(ChoiceFlagsInt(n))
           /\ Proper(ChoiceRangeFraction(<<l, 1>>, <<m, 1>>, <<n, 1>>))
<1>1. <<l, m, n>> \in Seq(Nat) /\ <<n>> \in Seq(Nat) OBVIOUS
<1>2. <<l, 1>> \o <<m, 1>> \o <<n, 1>> \in Seq(Nat)
  <2>1. \A k \in Nat : <<k, 1>> \in Seq(Nat) OBVIOUS
  <2> QED BY <2>1, ConcatProperties
<1> QED BY <1>1, <1>2 DEF Proper, ChoiceEnumId, ChoiceRangeInt, ChoiceFlagsInt,
        ChoiceRangeFraction, Plain, ChoiceEnum, ChoiceRange, ChoiceFlags, TypeId, TypeInt,
        TypeFraction

\* The properties of the parameters of the library.
ProperProps(kvs) == \A i \in 1 .. Len(kvs) : kvs[i].key \in Nat /\ Proper(kvs[i].val)

LEMMA WordType == ASSUME NEW n \in Int PROVE Word(n) \in Nat
<1>1. 2 * (MaxInt32 + 1) \in Nat \ {0} BY WidthAssumption
<1>2. \A k \in Nat \ {0} : n % k \in Nat OBVIOUS
<1> QED BY <1>1, <1>2 DEF Word

LEMMA EnumFormatProper ==
    ASSUME NEW w \in Int, NEW h \in Int, NEW fps \in Int, NEW formats \in Seq(Nat), formats # <<>>
    PROVE  /\ Len(EnumFormatProps(w, h, fps, formats)) = 6
           /\ ProperProps(EnumFormatProps(w, h, fps, formats))
<1> DEFINE kvs == EnumFormatProps(w, h, fps, formats)
<1>1. Proper(EnumFormats(formats))
  <2>1. formats[1] \in Nat BY EmptySeq, ElementOfSeq
  <2>2. <<formats[1]>> \o formats \in Seq(Nat) BY <2>1
  <2> QED BY <2>1, <2>2, ProperScalars, ProperChoices DEF EnumFormats
<1>2. /\ Proper(Id(MediaTypeVideo)) /\ Proper(Id(MediaSubtypeRaw))
      /\ Proper(Rectangle(Word(w), Word(h))) /\ Proper(Fraction(0, 1))
  BY ProperScalars, WordType DEF MediaTypeVideo, MediaSubtypeRaw
<1>3. Proper(ChoiceRangeFraction(<<Word(fps), 1>>, <<1, 1>>, <<Word(fps), 1>>))
  BY ProperChoices, WordType
<1>4. \A i \in 1 .. 6 : kvs[i].key \in Nat /\ Proper(kvs[i].val)
  BY <1>1, <1>2, <1>3 DEF EnumFormatProps, FormatKeyMediaType, FormatKeyMediaSubtype,
     FormatKeyVideoFormat, FormatKeyVideoSize, FormatKeyVideoFramerate, FormatKeyVideoMaxRate
<1>5. Len(kvs) = 6 BY DEF EnumFormatProps
<1> HIDE DEF kvs
<1>6. ProperProps(kvs) BY <1>4, <1>5 DEF ProperProps
<1> QED BY <1>5, <1>6 DEF kvs

LEMMA BuffersProper ==
    ASSUME NEW size \in Nat, NEW stride \in Nat, NEW least \in Nat,
           NEW default \in Nat, NEW most \in Nat, NEW types \in Nat
    PROVE  /\ Len(BuffersProps(size, stride, least, default, most, types)) = 6
           /\ ProperProps(BuffersProps(size, stride, least, default, most, types))
<1> DEFINE kvs == BuffersProps(size, stride, least, default, most, types)
<1>1. /\ Proper(IntPod(1)) /\ Proper(IntPod(size)) /\ Proper(IntPod(stride))
      /\ Proper(IntPod(16))
  BY ProperScalars
<1>2. Proper(ChoiceRangeInt(default, least, most)) /\ Proper(ChoiceFlagsInt(types))
  BY ProperChoices, EmptySeq
<1>3. \A i \in 1 .. 6 : kvs[i].key \in Nat /\ Proper(kvs[i].val)
  BY <1>1, <1>2 DEF BuffersProps, BuffersKeyBuffers, BuffersKeyBlocks, BuffersKeySize,
     BuffersKeyStride, BuffersKeyAlign, BuffersKeyDataType
<1>4. Len(kvs) = 6 BY DEF BuffersProps
<1> HIDE DEF kvs
<1>5. ProperProps(kvs) BY <1>3, <1>4 DEF ProperProps
<1> QED BY <1>4, <1>5 DEF kvs

LEMMA MetaProper == Len(MetaProps) = 2 /\ ProperProps(MetaProps)
<1>1. Proper(Id(MetaTypeHeader)) /\ Proper(IntPod(MetaHeaderSize))
  BY ProperScalars DEF MetaTypeHeader, MetaHeaderSize
<1>2. \A i \in 1 .. 2 : MetaProps[i].key \in Nat /\ Proper(MetaProps[i].val)
  BY <1>1 DEF MetaProps, MetaKeyType, MetaKeySize
<1>3. Len(MetaProps) = 2 BY DEF MetaProps
<1> QED BY <1>2, <1>3 DEF ProperProps

\* The parameters of the library, into a buffer of any length.
LEMMA EnumFormatInOrder ==
    ASSUME NEW len \in Nat, NEW w \in Int, NEW h \in Int, NEW fps \in Int,
           NEW formats \in Seq(Nat)
    PROVE  InOrder(VideoEnumFormat(len, w, h, fps, formats))
<1>1. CASE formats = <<>> \/ w <= 0 \/ h <= 0 \/ fps <= 0
  BY <1>1, RefusedInOrder DEF VideoEnumFormat
<1>2. CASE ~(formats = <<>> \/ w <= 0 \/ h <= 0 \/ fps <= 0)
  <2> DEFINE kvs == EnumFormatProps(w, h, fps, formats)
  <2>1. Len(kvs) = 6 /\ ProperProps(kvs) BY <1>2, EnumFormatProper
  <2>2. InOrder(Open(len, TypeObjectFormat, ParamEnumFormat))
    BY OpenInOrder DEF TypeObjectFormat, ParamEnumFormat
  <2> HIDE DEF kvs
  <2>3. InOrder(End(SixProps(Open(len, TypeObjectFormat, ParamEnumFormat), kvs)))
    BY <2>1, <2>2, SixInOrder, EndInOrder DEF ProperProps
  <2> QED BY <1>2, <2>3 DEF VideoEnumFormat, kvs
<1> QED BY <1>1, <1>2

LEMMA BuffersInOrder ==
    ASSUME NEW len \in Nat, NEW size \in Int, NEW stride \in Int, NEW least \in Int,
           NEW default \in Int, NEW most \in Int, NEW types \in Nat
    PROVE  InOrder(VideoBuffers(len, size, stride, least, default, most, types))
<1> DEFINE kvs == BuffersProps(size, stride, least, default, most, types)
           refused == \/ size <= 0 \/ stride <= 0 \/ least <= 0 \/ default < least
                      \/ most < default
                      \/ size > MaxInt32 \/ stride > MaxInt32 \/ most > MaxInt32
<1>1. CASE refused BY <1>1, RefusedInOrder DEF VideoBuffers
<1>2. CASE ~refused
  <2>0. /\ size \in Nat /\ stride \in Nat /\ least \in Nat /\ default \in Nat /\ most \in Nat
    BY <1>2
  <2>1. Len(kvs) = 6 /\ ProperProps(kvs) BY <2>0, BuffersProper
  <2>2. InOrder(Open(len, TypeObjectParamBuffers, ParamBuffers))
    BY OpenInOrder DEF TypeObjectParamBuffers, ParamBuffers
  <2> HIDE DEF kvs
  <2>3. InOrder(End(SixProps(Open(len, TypeObjectParamBuffers, ParamBuffers), kvs)))
    BY <2>1, <2>2, SixInOrder, EndInOrder DEF ProperProps
  <2> QED BY <1>2, <2>3 DEF VideoBuffers, kvs
<1> QED BY <1>1, <1>2

LEMMA MetaInOrder ==
    ASSUME NEW len \in Nat PROVE InOrder(MetaHeader(len))
<1>1. /\ MetaProps[1].key \in Nat /\ Proper(MetaProps[1].val)
      /\ MetaProps[2].key \in Nat /\ Proper(MetaProps[2].val)
  BY MetaProper DEF ProperProps
<1>2. InOrder(Open(len, TypeObjectParamMeta, ParamMeta))
  BY OpenInOrder DEF TypeObjectParamMeta, ParamMeta
<1> QED BY <1>1, <1>2, PlusInOrder, EndInOrder DEF MetaHeader

LEMMA SixWords ==
    ASSUME NEW ws \in Seq(Int), NEW prop \in Seq(Int), Len(prop) = 6
    PROVE  /\ ws \o prop \in Seq(Int)
           /\ \A n \in {4, 10, 16, 22, 28} : Len(ws) = n => Len(ws \o prop) = n + 6
BY ConcatInt

\* Five properties of constant size fill the buffer of the audio parameter.
LEMMA RawAudioInOrder ==
    ASSUME NEW rate \in Int, NEW channels \in Int PROVE InOrder(RawAudioParams(rate, channels))
<1> DEFINE header == <<objBodySize, TypeObject, TypeObjectFormat, ParamEnumFormat>>
           p1 == writeIdProp(FormatKeyMediaType, MediaTypeAudio)
           p2 == writeIdProp(FormatKeyMediaSubtype, MediaSubtypeRaw)
           p3 == writeIdProp(FormatKeyAudioFormat, AudioFormatF32P)
           p4 == writeIntProp(FormatKeyAudioRate, Word(rate))
           p5 == writeIntProp(FormatKeyAudioChannels, Word(channels))
           words == header \o p1 \o p2 \o p3 \o p4 \o p5
           new == NewPodBuilder(8 + objBodySize)
<1>0. Word(rate) \in Nat /\ Word(channels) \in Nat BY WordType
<1>1. objBodySize = 128 /\ 8 + objBodySize = 136 BY DEF objBodySize, propSize
<1>2. header \in Seq(Int) /\ Len(header) = 4
  BY <1>1 DEF TypeObject, TypeObjectFormat, ParamEnumFormat
<1>3. \A key, v \in Nat :
        /\ writeIdProp(key, v) \in Seq(Int) /\ Len(writeIdProp(key, v)) = 6
        /\ writeIntProp(key, v) \in Seq(Int) /\ Len(writeIntProp(key, v)) = 6
  BY DEF writeIdProp, writeIntProp, TypeId, TypeInt
<1>4. /\ p1 \in Seq(Int) /\ Len(p1) = 6 /\ p2 \in Seq(Int) /\ Len(p2) = 6
      /\ p3 \in Seq(Int) /\ Len(p3) = 6 /\ p4 \in Seq(Int) /\ Len(p4) = 6
      /\ p5 \in Seq(Int) /\ Len(p5) = 6
  BY <1>0, <1>3 DEF FormatKeyMediaType, MediaTypeAudio, FormatKeyMediaSubtype, MediaSubtypeRaw,
     FormatKeyAudioFormat, AudioFormatF32P, FormatKeyAudioRate, FormatKeyAudioChannels
<1> HIDE DEF header, p1, p2, p3, p4, p5
<1>5. words \in Seq(Int) /\ Len(words) = 34
  <2> DEFINE w1 == header \o p1
             w2 == w1 \o p2
             w3 == w2 \o p3
             w4 == w3 \o p4
  <2>1. w1 \in Seq(Int) /\ Len(w1) = 10 BY <1>2, <1>4, SixWords
  <2> HIDE DEF w1
  <2>2. w2 \in Seq(Int) /\ Len(w2) = 16 BY <1>4, <2>1, SixWords
  <2> HIDE DEF w2
  <2>3. w3 \in Seq(Int) /\ Len(w3) = 22 BY <1>4, <2>2, SixWords
  <2> HIDE DEF w3
  <2>4. w4 \in Seq(Int) /\ Len(w4) = 28 BY <1>4, <2>3, SixWords
  <2> HIDE DEF w4
  <2>5. w4 \o p5 \in Seq(Int) /\ Len(w4 \o p5) = 34 BY <1>4, <2>4, SixWords
  <2> QED BY <2>5 DEF w4, w3, w2, w1
<1>6. InOrder(new) /\ new.words = <<>> /\ new.len = 136
  BY <1>1, NewInOrder DEF NewPodBuilder
<1> HIDE DEF words, new
<1>7. 4 * Len(words) <= new.len /\ Len(new.words) <= Len(words) BY <1>5, <1>6, EmptySeq
<1>8. Even(Len(words)) BY <1>5, EvenNumbers
<1>9. InOrder([new EXCEPT !.words = words]) BY <1>5, <1>6, <1>7, <1>8, WordsInOrder
<1> QED BY <1>9 DEF RawAudioParams, words, new, header, p1, p2, p3, p4, p5

-----------------------------------------------------------------------------
(* The specification.                                                      *)

LEMMA InitInOrder == Init => InOrder(b)
BY LengthsAssumption, NewInOrder DEF Init

LEMMA CallInOrder ==
    ASSUME InOrder(b), CallObject \/ CallProp \/ CallEnd \/ CallValue PROVE InOrder(b)'
<1>1. CASE CallObject BY <1>1, ArgumentsAssumption, ObjectInOrder DEF CallObject, Called
<1>2. CASE CallProp BY <1>2, ArgumentsAssumption, PropInOrder DEF CallProp, Called
<1>3. CASE CallEnd BY <1>3, EndInOrder DEF CallEnd, Called
<1>4. CASE CallValue
  <2>1. PICK v \in Values : b' = Value(b, v) BY <1>4 DEF CallValue, Called
  <2>2. Proper(v) BY ValuesAssumption DEF Proper, Plain
  <2> QED BY <2>1, <2>2, ValueInOrder
<1> QED BY <1>1, <1>2, <1>3, <1>4

LEMMA OfferedSeq == \A formats \in OfferedFormats : formats \in Seq(Nat)
<1>1. <<>> \in Seq(Nat) BY EmptySeq
<1>2. <<8>> \in Seq(Nat) /\ <<8, 12>> \in Seq(Nat) /\ <<12, 8, 12, 8>> \in Seq(Nat) OBVIOUS
<1> QED BY <1>1, <1>2 DEF OfferedFormats

LEMMA MakeInOrder ==
    ASSUME InOrder(b), MakeEnumFormat \/ MakeBuffers \/ MakeMeta \/ MakeRawAudio
    PROVE  InOrder(b)'
<1>1. b.len \in Nat BY Facts
<1>2. CASE MakeEnumFormat
  <2>1. PICK w, h, fps \in Ints, formats \in OfferedFormats :
          b' = VideoEnumFormat(b.len, w, h, fps, formats)
    BY <1>2 DEF MakeEnumFormat, Made, Called
  <2>2. formats \in Seq(Nat) BY OfferedSeq
  <2> QED BY <1>1, <2>1, <2>2, ArgumentsAssumption, EnumFormatInOrder
<1>3. CASE MakeBuffers
  <2>1. PICK size, stride, least, most \in Ints :
          b' = VideoBuffers(b.len, size, stride, least, 2, most, 4)
    BY <1>3 DEF MakeBuffers, Made, Called
  <2>2. /\ size \in Int /\ stride \in Int /\ least \in Int /\ most \in Int
        /\ 2 \in Int /\ 4 \in Nat
    BY ArgumentsAssumption
  <2> QED BY <1>1, <2>1, <2>2, BuffersInOrder
<1>4. CASE MakeMeta BY <1>1, <1>4, MetaInOrder DEF MakeMeta, Made, Called
<1>5. CASE MakeRawAudio
  <2>1. PICK rate, channels \in Ints : b' = RawAudioParams(rate, channels)
    BY <1>5 DEF MakeRawAudio, Made, Called
  <2> QED BY <2>1, ArgumentsAssumption, RawAudioInOrder
<1> QED BY <1>2, <1>3, <1>4, <1>5

LEMMA NextInOrder == InOrder(b) /\ [Next]_vars => InOrder(b)'
<1> SUFFICES ASSUME InOrder(b), [Next]_vars PROVE InOrder(b)'
  OBVIOUS
<1>1. CASE UNCHANGED b BY <1>1
<1> QED BY <1>1, CallInOrder, MakeInOrder DEF Next, vars, ReceiveProp, CutShort, Damage

\* Whatever is called in whatever order, nothing is written past the end of the
\* caller's buffer, everything in it ends on an 8-byte boundary although End and
\* choiceEnd pad without asking for room, and the headers to patch lie inside.
THEOREM NothingOverrun == Spec => []BuilderOK
<1>1. InOrder(b) => BuilderOK BY DEF InOrder, BuilderOK, Even
<1> QED BY <1>1, InitInOrder, NextInOrder, PTL DEF Spec

-----------------------------------------------------------------------------
(* What the words mean.  The words a builder has written fall into the     *)
(* bodies of what is open, one after the other: the first of what is       *)
(* outside of all objects, then, behind its header, one for each open      *)
(* object.  Every body is what was meant; a header lacks its size only.    *)

Start(p, i) == IF i = 1 THEN 0 ELSE p.stack[i - 1] + 3
Stop(p, i) == IF i = Len(p.stack) + 1 THEN Len(p.words) ELSE p.stack[i] - 1

Meanings == [type : Int, id : Int, body : Seq(Int)]

BodyMeant(p, i, body) ==
    /\ Start(p, i) + Len(body) = Stop(p, i)
    /\ \A k \in 1 .. Len(body) : p.words[Start(p, i) + k] = body[k]

HeaderMeant(p, i, obj) ==
    /\ p.words[p.stack[i] + 1] = TypeObject
    /\ p.words[p.stack[i] + 2] = obj.type
    /\ p.words[p.stack[i] + 3] = obj.id

Nested(stack) == \A i, j \in 1 .. Len(stack) : i < j => stack[i] + 4 <= stack[j]

Says(p, m) ==
    /\ m \in Seq(Meanings) /\ Len(m) = Len(p.stack) + 1
    /\ m[1].type = 0 /\ m[1].id = 0
    /\ Nested(p.stack)
    /\ \A i \in 1 .. Len(m) : BodyMeant(p, i, m[i].body)
    /\ \A i \in 1 .. Len(p.stack) : HeaderMeant(p, i, m[i + 1])

\* Once a call was refused, Bytes refuses too, and nothing is meant.
Means(p, m) == p.err = "none" => Says(p, m)

LEMMA ConcatElements ==
    ASSUME NEW v \in Seq(Int), NEW w \in Seq(Int)
    PROVE  /\ v \o w \in Seq(Int) /\ Len(v \o w) = Len(v) + Len(w)
           /\ Len(v) \in Nat /\ Len(w) \in Nat
           /\ \A k \in 1 .. Len(v) : (v \o w)[k] = v[k]
           /\ \A k \in 1 .. Len(w) : (v \o w)[Len(v) + k] = w[k]
<1>1. /\ v \o w \in Seq(Int) /\ Len(v \o w) = Len(v) + Len(w)
      /\ \A k \in 1 .. Len(v) + Len(w) :
            (v \o w)[k] = IF k <= Len(v) THEN v[k] ELSE w[k - Len(v)]
  BY ConcatProperties
<1>2. Len(v) \in Nat /\ Len(w) \in Nat OBVIOUS
<1>3. ASSUME NEW k \in 1 .. Len(w) PROVE (v \o w)[Len(v) + k] = w[k]
  <2>1. /\ Len(v) + k \in 1 .. Len(v) + Len(w) /\ ~(Len(v) + k <= Len(v))
        /\ Len(v) + k - Len(v) = k
    BY <1>2
  <2> QED BY <1>1, <2>1
<1>4. ASSUME NEW k \in 1 .. Len(v) PROVE (v \o w)[k] = v[k]
  BY <1>1, <1>2
<1> QED BY <1>1, <1>2, <1>3, <1>4

\* What is known of a builder whose words say something.
LEMMA SaysFacts ==
    ASSUME NEW p, InOrder(p), NEW m, Says(p, m)
    PROVE  /\ m \in Seq(Meanings) /\ Len(m) = Len(p.stack) + 1 /\ Len(m) \in Nat
           /\ \A i \in 1 .. Len(m) :
                 /\ m[i] \in Meanings /\ m[i].body \in Seq(Int) /\ Len(m[i].body) \in Nat
                 /\ Start(p, i) \in Nat
                 /\ Start(p, i) + Len(m[i].body) = Stop(p, i)
                 /\ Stop(p, i) \in 0 .. Len(p.words)
           /\ \A i \in 1 .. Len(p.stack) :
                 p.stack[i] \in Nat \ {0} /\ p.stack[i] + 3 <= Len(p.words)
<1>1. m \in Seq(Meanings) /\ Len(m) = Len(p.stack) + 1 /\ Len(m) \in Nat
  BY DEF Says
<1>2. p.stack \in Seq(Nat \ {0}) /\ Len(p.words) \in Nat /\ Len(p.stack) \in Nat BY Facts
<1>3. \A i \in 1 .. Len(p.stack) : p.stack[i] \in Nat \ {0} /\ p.stack[i] + 3 <= Len(p.words)
  BY <1>2 DEF InOrder
<1>4. ASSUME NEW i \in 1 .. Len(m)
      PROVE  /\ m[i] \in Meanings /\ m[i].body \in Seq(Int) /\ Len(m[i].body) \in Nat
             /\ Start(p, i) \in Nat /\ Start(p, i) + Len(m[i].body) = Stop(p, i)
             /\ Stop(p, i) \in 0 .. Len(p.words)
  <2>1. m[i] \in Meanings /\ m[i].body \in Seq(Int) /\ Len(m[i].body) \in Nat
    <3>1. m[i] \in Meanings BY <1>1, ElementOfSeq
    <3>2. m[i].body \in Seq(Int) BY <3>1 DEF Meanings
    <3> QED BY <3>1, <3>2
  <2>2. Start(p, i) + Len(m[i].body) = Stop(p, i) BY DEF Says, BodyMeant
  <2>3. Start(p, i) \in Nat
    <3>1. CASE i = 1 BY <3>1 DEF Start
    <3>2. CASE i # 1
      <4>1. i - 1 \in 1 .. Len(p.stack) BY <1>1, <1>2, <3>2
      <4> QED BY <1>3, <3>2, <4>1 DEF Start
    <3> QED BY <3>1, <3>2
  <2>4. Stop(p, i) \in Int /\ Stop(p, i) <= Len(p.words)
    <3>1. CASE i = Len(p.stack) + 1 BY <1>2, <3>1 DEF Stop
    <3>2. CASE i # Len(p.stack) + 1
      <4>1. i \in 1 .. Len(p.stack) BY <1>1, <1>2, <3>2
      <4>2. p.stack[i] \in Nat /\ p.stack[i] + 3 <= Len(p.words) BY <1>3, <4>1
      <4> QED BY <1>2, <3>2, <4>2 DEF Stop
    <3> QED BY <3>1, <3>2
  <2> QED BY <1>2, <2>1, <2>2, <2>3, <2>4
<1> QED BY <1>1, <1>3, <1>4

\* Words that a method writes are words of the innermost body.
Into(m, ws) == [m EXCEPT ![Len(m)].body = @ \o ws]

LEMMA IntoBody ==
    ASSUME NEW m \in Seq(Meanings), m # <<>>, NEW ws \in Seq(Int)
    PROVE  /\ Into(m, ws) \in Seq(Meanings) /\ Len(Into(m, ws)) = Len(m)
           /\ Len(m) \in Nat /\ Len(m) > 0
           /\ \A i \in 1 .. Len(m) : i # Len(m) => Into(m, ws)[i] = m[i]
           /\ \A i \in 1 .. Len(m) :
                 Into(m, ws)[i].type = m[i].type /\ Into(m, ws)[i].id = m[i].id
           /\ Into(m, ws)[Len(m)].body = m[Len(m)].body \o ws
<1>1. Len(m) \in Nat /\ Len(m) > 0 BY EmptySeq
<1>2. \A i \in 1 .. Len(m) : m[i] \in Meanings BY <1>1, ElementOfSeq
<1> DEFINE last == m[Len(m)]
           new == [last EXCEPT !.body = last.body \o ws]
<1>3. last \in Meanings /\ last.body \in Seq(Int) BY <1>1, <1>2 DEF Meanings
<1>4. last.body \o ws \in Seq(Int) BY <1>3, ConcatElements
<1>5. /\ new \in Meanings /\ new.type = last.type /\ new.id = last.id
      /\ new.body = last.body \o ws
  BY <1>3, <1>4 DEF Meanings
<1>6. Into(m, ws) = [m EXCEPT ![Len(m)] = new] BY DEF Into
<1> HIDE DEF new
<1>7. /\ Into(m, ws) \in Seq(Meanings) /\ Len(Into(m, ws)) = Len(m)
      /\ \A i \in 1 .. Len(m) : Into(m, ws)[i] = IF i = Len(m) THEN new ELSE m[i]
  <2>1. [m EXCEPT ![Len(m)] = new] \in Seq(Meanings) /\ Len([m EXCEPT ![Len(m)] = new]) = Len(m)
    BY <1>1, <1>5, ExceptSeq
  <2>2. \A i \in 1 .. Len(m) : [m EXCEPT ![Len(m)] = new][i] = IF i = Len(m) THEN new ELSE m[i]
    BY <1>1
  <2> QED BY <1>6, <2>1, <2>2
<1>8. Len(m) \in 1 .. Len(m) BY <1>1
<1> QED BY <1>1, <1>5, <1>7, <1>8

LEMMA Within ==
    ASSUME NEW a \in Nat, NEW n \in Nat, NEW len \in Nat, a + n \in 0 .. len, NEW k \in 1 .. n
    PROVE  a + k \in 1 .. len
OBVIOUS

LEMMA Sums ==
    ASSUME NEW a \in Nat, NEW m \in Nat, NEW len \in Nat, a + m = len
    PROVE  \A n \in Nat : a + (m + n) = len + n
OBVIOUS

\* A header that is inside.
LEMMA HeaderWithin ==
    ASSUME NEW s \in Nat \ {0}, NEW len \in Nat, s + 3 <= len
    PROVE  s \in 1 .. len /\ s + 1 \in 1 .. len /\ s + 2 \in 1 .. len /\ s + 3 \in 1 .. len
OBVIOUS

\* Words that a method adds are what it meant.
LEMMA PutSays ==
    ASSUME NEW p, InOrder(p), NEW m, Says(p, m), NEW ws \in Seq(Int)
    PROVE  Says(Put(p, ws), Into(m, ws))
<1> DEFINE q == Put(p, ws)
           n == Into(m, ws)
           words == p.words \o ws
           L == Len(m)
<1>1. /\ m \in Seq(Meanings) /\ L = Len(p.stack) + 1 /\ L \in Nat
      /\ \A i \in 1 .. L :
           /\ m[i].body \in Seq(Int) /\ Len(m[i].body) \in Nat
           /\ Start(p, i) \in Nat /\ Start(p, i) + Len(m[i].body) = Stop(p, i)
           /\ Stop(p, i) \in 0 .. Len(p.words)
      /\ \A i \in 1 .. Len(p.stack) : p.stack[i] \in Nat \ {0} /\ p.stack[i] + 3 <= Len(p.words)
  BY SaysFacts
<1>2. Len(p.words) \in Nat /\ Len(p.stack) \in Nat /\ p.words \in Seq(Int) BY Facts
<1>3. m # <<>> BY <1>1, <1>2, EmptySeq
<1>4. /\ n \in Seq(Meanings) /\ Len(n) = L
      /\ \A i \in 1 .. L : i # L => n[i] = m[i]
      /\ \A i \in 1 .. L : n[i].type = m[i].type /\ n[i].id = m[i].id
      /\ n[L].body = m[L].body \o ws
  BY <1>1, <1>3, IntoBody
<1>5. q.words = words /\ q.stack = p.stack BY Facts DEF Put, Builders
<1>6. /\ Len(words) = Len(p.words) + Len(ws) /\ Len(ws) \in Nat
      /\ \A k \in 1 .. Len(p.words) : words[k] = p.words[k]
      /\ \A k \in 1 .. Len(ws) : words[Len(p.words) + k] = ws[k]
  BY <1>2, ConcatElements
<1>7. L \in 1 .. L BY <1>1, <1>2
<1> HIDE DEF n, q, words, L
<1>8. \A i \in 1 .. L : Start(q, i) = Start(p, i) BY <1>5 DEF Start
<1>9. \A i \in 1 .. L : i # L => Stop(q, i) = Stop(p, i) BY <1>1, <1>5 DEF Stop
<1>10. Stop(p, L) = Len(p.words) /\ Stop(q, L) = Len(words) BY <1>1, <1>5 DEF Stop
<1>11. ASSUME NEW i \in 1 .. L, NEW k \in 1 .. Len(m[i].body)
       PROVE  words[Start(p, i) + k] = m[i].body[k]
  <2>1. Start(p, i) + k \in 1 .. Len(p.words) BY <1>1, <1>2, Within
  <2>2. p.words[Start(p, i) + k] = m[i].body[k] BY DEF Says, BodyMeant, L
  <2> QED BY <1>6, <2>1, <2>2
<1>12. ASSUME NEW i \in 1 .. L, i # L PROVE BodyMeant(q, i, n[i].body)
  <2>1. n[i] = m[i] BY <1>4, <1>12
  <2>2. Start(q, i) = Start(p, i) /\ Stop(q, i) = Stop(p, i) BY <1>8, <1>9, <1>12
  <2> QED BY <1>1, <1>5, <1>11, <2>1, <2>2 DEF BodyMeant
<1>13. BodyMeant(q, L, n[L].body)
  <2> DEFINE body == m[L].body
  <2>1. body \in Seq(Int) /\ Len(body) \in Nat /\ Start(p, L) \in Nat BY <1>1, <1>7
  <2>2. Start(p, L) + Len(body) = Len(p.words) BY <1>1, <1>7, <1>10
  <2> HIDE DEF body
  <2>3. \A j \in Nat : Start(p, L) + (Len(body) + j) = Len(p.words) + j
    BY <1>2, <2>1, <2>2, Sums
  <2>4. /\ Len(body \o ws) = Len(body) + Len(ws)
        /\ \A k \in 1 .. Len(body) : (body \o ws)[k] = body[k]
        /\ \A k \in 1 .. Len(ws) : (body \o ws)[Len(body) + k] = ws[k]
    BY <2>1, ConcatElements
  <2>5. Start(p, L) + Len(body \o ws) = Len(words)
    <3>1. Start(p, L) + (Len(body) + Len(ws)) = Len(p.words) + Len(ws)
      BY <1>6, <2>3
    <3> QED BY <1>6, <2>4, <3>1
  <2>6. ASSUME NEW k \in 1 .. Len(body \o ws) PROVE words[Start(p, L) + k] = (body \o ws)[k]
    <3>1. CASE k <= Len(body)
      <4>1. k \in 1 .. Len(body) BY <1>6, <2>1, <2>4, <3>1
      <4> QED BY <1>7, <1>11, <2>4, <4>1 DEF body
    <3>2. CASE ~(k <= Len(body))
      <4>1. PICK j \in 1 .. Len(ws) : k = Len(body) + j
        <5>1. k - Len(body) \in 1 .. Len(ws) /\ k = Len(body) + (k - Len(body))
          BY <1>6, <2>1, <2>4, <3>2
        <5> QED BY <5>1
      <4>2. Start(p, L) + (Len(body) + j) = Len(p.words) + j BY <1>6, <2>3
      <4> QED BY <1>6, <2>4, <4>1, <4>2
    <3> QED BY <3>1, <3>2
  <2>7. n[L].body = body \o ws BY <1>4 DEF body
  <2>8. Start(q, L) = Start(p, L) BY <1>7, <1>8
  <2> QED BY <1>5, <1>10, <2>5, <2>6, <2>7, <2>8 DEF BodyMeant
<1>14. ASSUME NEW i \in 1 .. Len(p.stack) PROVE HeaderMeant(q, i, n[i + 1])
  <2>1. /\ p.stack[i] + 1 \in 1 .. Len(p.words) /\ p.stack[i] + 2 \in 1 .. Len(p.words)
        /\ p.stack[i] + 3 \in 1 .. Len(p.words)
    <3>1. p.stack[i] \in Nat \ {0} /\ p.stack[i] + 3 <= Len(p.words) BY <1>1
    <3> QED BY <1>2, <3>1, HeaderWithin
  <2>2. HeaderMeant(p, i, m[i + 1]) BY DEF Says
  <2>3. n[i + 1].type = m[i + 1].type /\ n[i + 1].id = m[i + 1].id BY <1>1, <1>2, <1>4
  <2>4. /\ words[p.stack[i] + 1] = p.words[p.stack[i] + 1]
        /\ words[p.stack[i] + 2] = p.words[p.stack[i] + 2]
        /\ words[p.stack[i] + 3] = p.words[p.stack[i] + 3]
    BY <1>6, <2>1
  <2> QED BY <1>5, <2>2, <2>3, <2>4 DEF HeaderMeant
<1>15. n[1].type = 0 /\ n[1].id = 0
  <2>1. 1 \in 1 .. L BY <1>7
  <2> QED BY <1>4, <2>1 DEF Says
<1>16. Nested(q.stack) BY <1>5 DEF Says
<1>17. Says(q, n) BY <1>1, <1>4, <1>5, <1>12, <1>13, <1>14, <1>15, <1>16 DEF Says
<1> QED BY <1>17 DEF q, n

LEMMA MeaningNew ==
    ASSUME NEW type \in Int, NEW id \in Int
    PROVE  [type |-> type, id |-> id, body |-> <<>>] \in Meanings
<1>1. \A ws \in Seq(Int) : [type |-> type, id |-> id, body |-> ws] \in Meanings BY DEF Meanings
<1> QED BY <1>1, EmptySeq

\* An object that is opened has its header, but no body yet.
LEMMA ObjectSays ==
    ASSUME NEW p, InOrder(p), NEW m, Says(p, m), NEW type \in Int, NEW id \in Int
    PROVE  Says([Put(p, <<0, TypeObject, type, id>>)
                   EXCEPT !.stack = Append(p.stack, Len(p.words) + 1)],
                Append(m, [type |-> type, id |-> id, body |-> <<>>]))
<1> DEFINE ws == <<0, TypeObject, type, id>>
           words == p.words \o ws
           stack == Append(p.stack, Len(p.words) + 1)
           new == [type |-> type, id |-> id, body |-> <<>>]
           q == [Put(p, ws) EXCEPT !.stack = stack]
           n == Append(m, new)
           D == Len(p.stack)
           W == Len(p.words)
<1>1. /\ m \in Seq(Meanings) /\ Len(m) = D + 1 /\ Len(m) \in Nat
      /\ \A i \in 1 .. D + 1 :
           /\ Len(m[i].body) \in Nat
           /\ Start(p, i) \in Nat /\ Start(p, i) + Len(m[i].body) = Stop(p, i)
           /\ Stop(p, i) \in 0 .. W
      /\ \A i \in 1 .. D : p.stack[i] \in Nat \ {0} /\ p.stack[i] + 3 <= W
  BY SaysFacts
<1>2. W \in Nat /\ D \in Nat /\ p.words \in Seq(Int) /\ p.stack \in Seq(Nat \ {0}) BY Facts
<1>3. ws \in Seq(Int) /\ Len(ws) = 4 /\ ws[2] = TypeObject /\ ws[3] = type /\ ws[4] = id
  BY DEF TypeObject
<1>4. new \in Meanings /\ new.body = <<>> /\ new.type = type /\ new.id = id BY MeaningNew
<1> HIDE DEF ws, new, D, W
<1>5. /\ n \in Seq(Meanings) /\ Len(n) = D + 2
      /\ \A i \in 1 .. D + 1 : n[i] = m[i]
      /\ n[D + 2] = new
  <2>1. /\ n \in Seq(Meanings) /\ Len(n) = Len(m) + 1
        /\ \A i \in 1 .. Len(m) : n[i] = m[i]
        /\ n[Len(m) + 1] = new
    BY <1>1, <1>4, AppendProperties
  <2> QED BY <1>1, <1>2, <2>1
<1>6. /\ stack \in Seq(Nat \ {0}) /\ Len(stack) = D + 1
      /\ \A i \in 1 .. D : stack[i] = p.stack[i]
      /\ stack[D + 1] = W + 1
  <2>1. W + 1 \in Nat \ {0} BY <1>2
  <2> QED BY <1>2, <2>1, AppendProperties DEF D, W
<1>7. q.words = words /\ q.stack = stack
  BY Facts DEF Put, Builders
<1>8. /\ Len(words) = W + 4
      /\ \A k \in 1 .. W : words[k] = p.words[k]
      /\ words[W + 2] = TypeObject /\ words[W + 3] = type /\ words[W + 4] = id
  <2>1. /\ Len(words) = W + Len(ws)
        /\ \A k \in 1 .. W : words[k] = p.words[k]
        /\ \A k \in 1 .. Len(ws) : words[W + k] = ws[k]
    BY <1>2, <1>3, ConcatElements DEF W
  <2>2. 2 \in 1 .. 4 /\ 3 \in 1 .. 4 /\ 4 \in 1 .. 4 OBVIOUS
  <2> QED BY <1>3, <2>1, <2>2
<1> HIDE DEF q, n, words, stack
<1>9. ASSUME NEW i \in 1 .. D + 1
      PROVE  Start(q, i) = Start(p, i) /\ Stop(q, i) = Stop(p, i)
  <2>1. Start(q, i) = Start(p, i)
    <3>1. CASE i = 1 BY <3>1 DEF Start
    <3>2. CASE i # 1
      <4>1. i - 1 \in 1 .. D BY <1>2, <3>2
      <4> QED BY <1>6, <1>7, <3>2, <4>1 DEF Start
    <3> QED BY <3>1, <3>2
  <2>2. CASE i = D + 1
    <3>1. W + 1 - 1 = W BY <1>2
    <3>2. i # Len(stack) + 1 BY <1>2, <1>6, <2>2
    <3> QED BY <1>6, <1>7, <2>1, <2>2, <3>1, <3>2 DEF Stop, D, W
  <2>3. CASE i # D + 1
    <3>1. i \in 1 .. D BY <1>2, <2>3
    <3>2. i # Len(stack) + 1 BY <1>2, <1>6, <3>1
    <3> QED BY <1>6, <1>7, <2>1, <2>3, <3>1, <3>2 DEF Stop, D
  <2> QED BY <2>2, <2>3
<1>10. ASSUME NEW i \in 1 .. D + 1 PROVE BodyMeant(q, i, n[i].body)
  <2>1. n[i] = m[i] BY <1>5
  <2>2. BodyMeant(p, i, m[i].body) BY <1>1 DEF Says
  <2>3. ASSUME NEW k \in 1 .. Len(m[i].body)
        PROVE  words[Start(p, i) + k] = m[i].body[k]
    <3>1. Start(p, i) + k \in 1 .. W BY <1>1, <1>2, Within
    <3> QED BY <1>8, <2>2, <3>1 DEF BodyMeant
  <2> QED BY <1>7, <1>9, <2>1, <2>2, <2>3 DEF BodyMeant
<1>11. BodyMeant(q, D + 2, n[D + 2].body)
  <2>1. Start(q, D + 2) = W + 4
    <3>1. D + 2 # 1 /\ D + 2 - 1 = D + 1 BY <1>2
    <3>2. stack[D + 1] + 3 = W + 4 BY <1>2, <1>6
    <3>3. Start(q, D + 2) = stack[D + 1] + 3 BY <1>2, <1>7, <3>1 DEF Start
    <3> QED BY <3>2, <3>3
  <2>2. Stop(q, D + 2) = W + 4
    <3>1. D + 2 = D + 1 + 1 BY <1>2
    <3> QED BY <1>6, <1>7, <1>8, <3>1 DEF Stop
  <2>3. n[D + 2].body = <<>> /\ Len(n[D + 2].body) = 0 BY <1>4, <1>5, EmptySeq
  <2>4. W + 4 + 0 = W + 4 BY <1>2
  <2> QED BY <2>1, <2>2, <2>3, <2>4 DEF BodyMeant
<1>12. ASSUME NEW i \in 1 .. D PROVE HeaderMeant(q, i, n[i + 1])
  <2>1. /\ p.stack[i] + 1 \in 1 .. W /\ p.stack[i] + 2 \in 1 .. W
        /\ p.stack[i] + 3 \in 1 .. W
    <3>1. p.stack[i] \in Nat \ {0} /\ p.stack[i] + 3 <= W BY <1>1
    <3> QED BY <1>2, <3>1, HeaderWithin
  <2>2. HeaderMeant(p, i, m[i + 1]) BY DEF Says, D
  <2>3. n[i + 1] = m[i + 1]
    <3>1. i + 1 \in 1 .. D + 1 BY <1>2
    <3> QED BY <1>5, <3>1
  <2>4. /\ words[p.stack[i] + 1] = p.words[p.stack[i] + 1]
        /\ words[p.stack[i] + 2] = p.words[p.stack[i] + 2]
        /\ words[p.stack[i] + 3] = p.words[p.stack[i] + 3]
    BY <1>8, <2>1
  <2> QED BY <1>6, <1>7, <2>2, <2>3, <2>4 DEF HeaderMeant
<1>13. HeaderMeant(q, D + 1, n[D + 2])
  <2>1. W + 1 + 1 = W + 2 /\ W + 1 + 2 = W + 3 /\ W + 1 + 3 = W + 4 BY <1>2
  <2> QED BY <1>4, <1>5, <1>6, <1>7, <1>8, <2>1 DEF HeaderMeant
<1>14. Nested(stack)
  <2> SUFFICES ASSUME NEW i \in 1 .. D + 1, NEW j \in 1 .. D + 1, i < j
               PROVE  stack[i] + 4 <= stack[j]
    BY <1>6 DEF Nested
  <2>1. i \in 1 .. D BY <1>2
  <2>2. CASE j = D + 1
    <3>1. p.stack[i] \in Nat /\ p.stack[i] + 3 <= W BY <1>1, <2>1
    <3>2. p.stack[i] + 4 <= W + 1 BY <1>2, <3>1
    <3> QED BY <1>6, <2>1, <2>2, <3>2
  <2>3. CASE j # D + 1
    <3>1. j \in 1 .. D BY <1>2, <2>3
    <3> QED BY <1>6, <2>1, <3>1 DEF Says, Nested, D
  <2> QED BY <2>2, <2>3
<1>15. n[1].type = 0 /\ n[1].id = 0
  <2>1. 1 \in 1 .. D + 1 BY <1>2
  <2> QED BY <1>5, <2>1 DEF Says
<1>16. \A i \in 1 .. Len(n) : BodyMeant(q, i, n[i].body)
  <2> SUFFICES ASSUME NEW i \in 1 .. D + 2 PROVE BodyMeant(q, i, n[i].body)
    BY <1>5
  <2>1. i \in 1 .. D + 1 \/ i = D + 2 BY <1>2
  <2> QED BY <1>10, <1>11, <2>1
<1>17. \A i \in 1 .. Len(stack) : HeaderMeant(q, i, n[i + 1])
  <2> SUFFICES ASSUME NEW i \in 1 .. D + 1 PROVE HeaderMeant(q, i, n[i + 1])
    BY <1>6
  <2>1. i \in 1 .. D \/ i = D + 1 BY <1>2
  <2>2. D + 1 + 1 = D + 2 BY <1>2
  <2> QED BY <1>12, <1>13, <2>1, <2>2
<1>18. Len(n) = Len(stack) + 1 BY <1>2, <1>5, <1>6
<1>19. Says(q, n) BY <1>5, <1>7, <1>14, <1>15, <1>16, <1>17, <1>18 DEF Says
<1> QED BY <1>19 DEF q, n, ws, stack, new, W

LEMMA EncodedObjectElements ==
    ASSUME NEW obj \in Meanings,
           NEW enc, enc = EncodedObject(obj.type, obj.id, obj.body)
    PROVE  /\ enc \in Seq(Int) /\ Len(enc) = 4 + Len(obj.body)
           /\ enc[1] = 8 + 4 * Len(obj.body) /\ enc[2] = TypeObject
           /\ enc[3] = obj.type /\ enc[4] = obj.id
           /\ \A k \in 1 .. Len(obj.body) : enc[4 + k] = obj.body[k]
<1> DEFINE size == 8 + Written(obj.body)
           head == <<size, TypeObject, obj.type, obj.id>>
<1>1. obj.type \in Int /\ obj.id \in Int /\ obj.body \in Seq(Int) BY DEF Meanings
<1>2. size \in Int /\ size = 8 + 4 * Len(obj.body) BY <1>1 DEF Written
<1> HIDE DEF size
<1>3. /\ head \in Seq(Int) /\ Len(head) = 4
      /\ head[1] = size /\ head[2] = TypeObject /\ head[3] = obj.type /\ head[4] = obj.id
  BY <1>1, <1>2 DEF TypeObject
<1> HIDE DEF head
<1>4. /\ head \o obj.body \in Seq(Int) /\ Len(head \o obj.body) = Len(head) + Len(obj.body)
      /\ \A k \in 1 .. Len(head) : (head \o obj.body)[k] = head[k]
      /\ \A k \in 1 .. Len(obj.body) : (head \o obj.body)[Len(head) + k] = obj.body[k]
  BY <1>1, <1>3, ConcatElements
<1>5. 1 \in 1 .. 4 /\ 2 \in 1 .. 4 /\ 3 \in 1 .. 4 /\ 4 \in 1 .. 4 OBVIOUS
<1>6. enc = head \o obj.body BY DEF EncodedObject, head, size
<1>7. /\ enc \in Seq(Int) /\ Len(enc) = 4 + Len(obj.body)
      /\ \A k \in 1 .. 4 : enc[k] = head[k]
      /\ \A k \in 1 .. Len(obj.body) : enc[4 + k] = obj.body[k]
  BY <1>3, <1>4, <1>6, Zenon
<1> QED BY <1>2, <1>3, <1>5, <1>7

\* The size patched into the header of the pod that is closed.
LEMMA SizeOfBody ==
    ASSUME NEW s \in Nat, NEW len \in Nat, NEW words, s + 3 + len = Len(words)
    PROVE  Written(words) - 4 * (s - 1) - 8 = 8 + 4 * len
<1>1. 4 * (s + 3 + len) - 4 * (s - 1) - 8 = 8 + 4 * len OBVIOUS
<1> QED BY <1>1 DEF Written

\* An object that is closed becomes a pod in the body around it.
LEMMA EndSays ==
    ASSUME NEW p, InOrder(p), NEW m, Says(p, m), p.stack # <<>>
    PROVE  LET top == m[Len(m)]
           IN  Says([p EXCEPT !.words = [p.words EXCEPT ![p.stack[Len(p.stack)]] =
                                Written(p.words) - 4 * (p.stack[Len(p.stack)] - 1) - 8],
                              !.stack = SubSeq(p.stack, 1, Len(p.stack) - 1)],
                    Into(SubSeq(m, 1, Len(m) - 1), EncodedObject(top.type, top.id, top.body)))
<1> DEFINE D == Len(p.stack)
           W == Len(p.words)
           s == p.stack[D]
           size == Written(p.words) - 4 * (s - 1) - 8
           words == [p.words EXCEPT ![s] = size]
           rest == SubSeq(p.stack, 1, D - 1)
           q == [p EXCEPT !.words = words, !.stack = rest]
           top == m[Len(m)]
           enc == EncodedObject(top.type, top.id, top.body)
           rm == SubSeq(m, 1, Len(m) - 1)
           n == Into(rm, enc)
           B == Len(top.body)
<1>1. /\ m \in Seq(Meanings) /\ Len(m) = D + 1 /\ Len(m) \in Nat
      /\ \A i \in 1 .. D + 1 :
           /\ m[i] \in Meanings /\ m[i].body \in Seq(Int) /\ Len(m[i].body) \in Nat
           /\ Start(p, i) \in Nat /\ Start(p, i) + Len(m[i].body) = Stop(p, i)
           /\ Stop(p, i) \in 0 .. W
      /\ \A i \in 1 .. D : p.stack[i] \in Nat \ {0} /\ p.stack[i] + 3 <= W
  BY SaysFacts
<1>2. /\ W \in Nat /\ D \in Nat /\ D > 0 /\ p.words \in Seq(Int)
      /\ p.stack \in Seq(Nat \ {0})
  BY Facts, EmptySeq
<1>3. top = m[D + 1] BY <1>1
<1> HIDE DEF D, W, top
<1>4. s \in Nat \ {0} /\ s + 3 <= W /\ s \in 1 .. W /\ D \in 1 .. D
  <2>1. D \in 1 .. D BY <1>2
  <2>2. s \in Nat \ {0} /\ s + 3 <= W BY <1>1, <2>1
  <2> QED BY <1>2, <2>1, <2>2, HeaderWithin
<1>5. /\ top \in Meanings /\ top.body \in Seq(Int) /\ B \in Nat
      /\ top.type \in Int /\ top.id \in Int
      /\ s + 3 + B = W /\ s + 3 = Start(p, D + 1)
  <2>1. D + 1 \in 1 .. D + 1 /\ D + 1 # 1 /\ D + 1 - 1 = D BY <1>2
  <2>2. Start(p, D + 1) = s + 3 BY <1>2, <2>1 DEF Start
  <2>3. Stop(p, D + 1) = W BY <2>1 DEF Stop, D, W
  <2>4. top \in Meanings /\ top.body \in Seq(Int) /\ B \in Nat BY <1>1, <1>3, <2>1
  <2>5. Start(p, D + 1) + B = Stop(p, D + 1) BY <1>1, <1>3, <2>1
  <2>6. top.type \in Int /\ top.id \in Int BY <2>4 DEF Meanings
  <2> QED BY <2>2, <2>3, <2>4, <2>5, <2>6
<1> HIDE DEF s, B
<1>6. size = 8 + 4 * B BY <1>4, <1>5, SizeOfBody DEF W
<1> HIDE DEF size
<1>7. /\ Len(words) = W
      /\ words[s] = size
      /\ \A k \in 1 .. W : k # s => words[k] = p.words[k]
  <2>1. size \in Int BY <1>5, <1>6
  <2> QED BY <1>2, <1>4, <2>1, ExceptSeq DEF W
<1>8. /\ Len(rest) = D - 1
      /\ \A i \in 1 .. D - 1 : rest[i] = p.stack[i]
  <2>1. \A i \in 1 .. D - 1 : p.stack[i] \in Nat \ {0} BY <1>1, <1>2
  <2>2. 1 \in Int /\ D - 1 \in Int /\ 1 .. D - 1 \subseteq 1 .. D BY <1>2
  <2> QED BY <1>2, <2>1, <2>2, SubSeqProperties DEF D
<1>9. /\ rm \in Seq(Meanings) /\ Len(rm) = D /\ rm # <<>>
      /\ \A i \in 1 .. D : rm[i] = m[i]
  <2>1. Len(m) - 1 = D BY <1>1, <1>2
  <2>2. \A i \in 1 .. D : m[i] \in Meanings BY <1>1, <1>2
  <2>3. SubSeq(m, 1, D) \in Seq(Meanings) /\ Len(SubSeq(m, 1, D)) = D
        /\ \A i \in 1 .. D : SubSeq(m, 1, D)[i] = m[i]
    BY <1>1, <1>2, <2>2, SubSeqProperties
  <2>4. rm = SubSeq(m, 1, D) BY <2>1
  <2> HIDE DEF rm
  <2>5. rm \in Seq(Meanings) /\ Len(rm) = D BY <2>3, <2>4
  <2>6. rm # <<>> BY <1>2, <2>5, EmptySeq
  <2> QED BY <2>3, <2>4, <2>5, <2>6
<1>10. /\ enc \in Seq(Int) /\ Len(enc) = 4 + B
       /\ enc[1] = size /\ enc[2] = TypeObject /\ enc[3] = top.type /\ enc[4] = top.id
       /\ \A k \in 1 .. B : enc[4 + k] = top.body[k]
  <2>0. enc = EncodedObject(top.type, top.id, top.body) OBVIOUS
  <2> HIDE DEF enc
  <2>1. /\ enc \in Seq(Int) /\ Len(enc) = 4 + Len(top.body)
        /\ enc[1] = 8 + 4 * Len(top.body) /\ enc[2] = TypeObject
        /\ enc[3] = top.type /\ enc[4] = top.id
        /\ \A k \in 1 .. Len(top.body) : enc[4 + k] = top.body[k]
    BY <1>5, <2>0, EncodedObjectElements
  <2> QED BY <1>6, <2>1 DEF B
<1> HIDE DEF enc, rm, words, rest
<1>11. /\ n \in Seq(Meanings) /\ Len(n) = D
       /\ \A i \in 1 .. D : i # D => n[i] = m[i]
       /\ \A i \in 1 .. D : n[i].type = m[i].type /\ n[i].id = m[i].id
       /\ n[D].body = m[D].body \o enc
  <2>1. /\ n \in Seq(Meanings) /\ Len(n) = Len(rm)
        /\ \A i \in 1 .. Len(rm) : i # Len(rm) => n[i] = rm[i]
        /\ \A i \in 1 .. Len(rm) : n[i].type = rm[i].type /\ n[i].id = rm[i].id
        /\ n[Len(rm)].body = rm[Len(rm)].body \o enc
    BY <1>9, <1>10, IntoBody
  <2> HIDE DEF n
  <2> QED BY <1>4, <1>9, <2>1
<1>12. q.words = words /\ q.stack = rest BY Facts DEF Builders
<1> HIDE DEF q, n
<1>13. ASSUME NEW i \in 1 .. D PROVE Start(q, i) = Start(p, i)
  <2>1. CASE i = 1 BY <2>1 DEF Start
  <2>2. CASE i # 1
    <3>1. i - 1 \in 1 .. D - 1 BY <1>2, <2>2
    <3> QED BY <1>8, <1>12, <2>2, <3>1 DEF Start
  <2> QED BY <2>1, <2>2
<1>14. ASSUME NEW i \in 1 .. D, i # D
       PROVE  Stop(q, i) = Stop(p, i) /\ Stop(p, i) = p.stack[i] - 1 /\ p.stack[i] + 4 <= s
  <2>1. i \in 1 .. D - 1 /\ i # D + 1 /\ i # D - 1 + 1 /\ i < D BY <1>2, <1>14
  <2>2. Stop(q, i) = p.stack[i] - 1 BY <1>8, <1>12, <2>1 DEF Stop
  <2>3. Stop(p, i) = p.stack[i] - 1 BY <2>1 DEF Stop, D
  <2>4. p.stack[i] + 4 <= p.stack[D] BY <1>4, <2>1 DEF Says, Nested, D
  <2> QED BY <2>2, <2>3, <2>4 DEF s
<1>15. Stop(q, D) = W /\ Stop(p, D) = s - 1
  <2>1. D = D - 1 + 1 /\ D # D + 1 BY <1>2
  <2> QED BY <1>7, <1>8, <1>12, <2>1 DEF Stop, D, s
<1>16. ASSUME NEW i \in 1 .. D, NEW k \in 1 .. Len(m[i].body)
       PROVE  words[Start(p, i) + k] = m[i].body[k]
  <2>1. i \in 1 .. D + 1 BY <1>2
  <2>2. /\ Start(p, i) \in Nat /\ Len(m[i].body) \in Nat
        /\ Start(p, i) + Len(m[i].body) = Stop(p, i) /\ Stop(p, i) \in 0 .. W
    BY <1>1, <2>1
  <2>3. Stop(p, i) < s
    <3>1. CASE i = D BY <1>4, <1>15, <3>1
    <3>2. CASE i # D
      <4>1. p.stack[i] \in Nat BY <1>1
      <4> QED BY <1>4, <1>14, <3>2, <4>1
    <3> QED BY <3>1, <3>2
  <2>4. Start(p, i) + k \in 1 .. Stop(p, i) BY <2>2, Within
  <2>5. Start(p, i) + k \in 1 .. W /\ Start(p, i) + k # s BY <1>2, <1>4, <2>2, <2>3, <2>4
  <2>6. p.words[Start(p, i) + k] = m[i].body[k] BY <1>1, <2>1 DEF Says, BodyMeant
  <2> QED BY <1>7, <2>5, <2>6
<1>17. ASSUME NEW i \in 1 .. D, i # D PROVE BodyMeant(q, i, n[i].body)
  <2>1. n[i] = m[i] BY <1>11, <1>17
  <2>2. Start(q, i) = Start(p, i) /\ Stop(q, i) = Stop(p, i) BY <1>13, <1>14, <1>17
  <2>3. Start(p, i) + Len(m[i].body) = Stop(p, i)
    <3>1. i \in 1 .. D + 1 BY <1>2
    <3> QED BY <1>1, <3>1
  <2> QED BY <1>12, <1>16, <2>1, <2>2, <2>3 DEF BodyMeant
<1>18. ASSUME NEW k \in 1 .. 4 + B PROVE words[s - 1 + k] = enc[k]
  <2>1. CASE k = 1
    <3>1. s - 1 + k = s BY <1>4, <2>1
    <3> QED BY <1>7, <1>10, <2>1, <3>1
  <2>2. CASE k \in 2 .. 4
    <3>1. /\ s + 1 \in 1 .. W /\ s + 2 \in 1 .. W /\ s + 3 \in 1 .. W
          /\ s + 1 # s /\ s + 2 # s /\ s + 3 # s
      BY <1>2, <1>4, HeaderWithin
    <3>2. /\ p.words[s + 1] = TypeObject /\ p.words[s + 2] = top.type
          /\ p.words[s + 3] = top.id
      <4>1. HeaderMeant(p, D, m[D + 1]) BY <1>4 DEF Says, D
      <4> QED BY <1>3, <4>1 DEF HeaderMeant, s
    <3>3. s - 1 + 2 = s + 1 /\ s - 1 + 3 = s + 2 /\ s - 1 + 4 = s + 3 BY <1>4
    <3>4. k = 2 \/ k = 3 \/ k = 4 BY <2>2
    <3> QED BY <1>7, <1>10, <3>1, <3>2, <3>3, <3>4
  <2>3. CASE k > 4
    <3>1. PICK j \in 1 .. B : k = 4 + j
      <4>1. k - 4 \in 1 .. B /\ k = 4 + (k - 4) BY <1>5, <2>3
      <4> QED BY <4>1
    <3>2. s - 1 + k = s + 3 + j BY <1>4, <3>1
    <3>3. s + 3 + j \in 1 .. W /\ s + 3 + j # s
      <4>1. s + 3 \in Nat /\ s + 3 + B \in 0 .. W BY <1>2, <1>4, <1>5
      <4>2. s + 3 + j \in 1 .. W BY <1>2, <1>5, <4>1, Within
      <4> QED BY <1>4, <4>2
    <3>4. p.words[s + 3 + j] = top.body[j]
      <4>1. BodyMeant(p, D + 1, top.body)
        <5>1. D + 1 \in 1 .. Len(m) BY <1>1, <1>2
        <5> QED BY <1>3, <5>1 DEF Says
      <4> QED BY <1>5, <4>1 DEF BodyMeant, B
    <3> QED BY <1>7, <1>10, <3>1, <3>2, <3>3, <3>4
  <2> QED BY <1>5, <2>1, <2>2, <2>3
<1>19. BodyMeant(q, D, n[D].body)
  <2> DEFINE body == m[D].body
  <2>1. /\ body \in Seq(Int) /\ Len(body) \in Nat /\ Start(p, D) \in Nat
        /\ Start(p, D) + Len(body) = s - 1
    <3>1. D \in 1 .. D + 1 BY <1>2
    <3> QED BY <1>1, <1>15, <3>1
  <2> HIDE DEF body
  <2>2. /\ Len(body \o enc) = Len(body) + (4 + B)
        /\ \A k \in 1 .. Len(body) : (body \o enc)[k] = body[k]
        /\ \A k \in 1 .. 4 + B : (body \o enc)[Len(body) + k] = enc[k]
    <3>1. /\ Len(body \o enc) = Len(body) + Len(enc)
          /\ \A k \in 1 .. Len(body) : (body \o enc)[k] = body[k]
          /\ \A k \in 1 .. Len(enc) : (body \o enc)[Len(body) + k] = enc[k]
      BY <1>10, <2>1, ConcatElements
    <3>2. Len(enc) = 4 + B BY <1>10
    <3> QED BY <3>1, <3>2
  <2>3. s - 1 \in Nat /\ s - 1 + (4 + B) = W BY <1>4, <1>5
  <2>4. \A j \in Nat : Start(p, D) + (Len(body) + j) = s - 1 + j BY <2>1, <2>3, Sums
  <2>5. Start(p, D) + Len(body \o enc) = W BY <1>5, <2>2, <2>3, <2>4
  <2>6. ASSUME NEW k \in 1 .. Len(body \o enc) PROVE words[Start(p, D) + k] = (body \o enc)[k]
    <3>1. CASE k <= Len(body)
      <4>1. k \in 1 .. Len(body) BY <1>5, <2>1, <2>2, <3>1
      <4> QED BY <1>4, <1>16, <2>2, <4>1 DEF body
    <3>2. CASE ~(k <= Len(body))
      <4>1. PICK j \in 1 .. 4 + B : k = Len(body) + j
        <5>1. k - Len(body) \in 1 .. 4 + B /\ k = Len(body) + (k - Len(body))
          BY <1>5, <2>1, <2>2, <3>2
        <5> QED BY <5>1
      <4>2. Start(p, D) + (Len(body) + j) = s - 1 + j BY <1>5, <2>4
      <4> QED BY <1>18, <2>2, <4>1, <4>2
    <3> QED BY <3>1, <3>2
  <2>7. n[D].body = body \o enc BY <1>11 DEF body
  <2>8. Start(q, D) = Start(p, D) BY <1>4, <1>13
  <2> QED BY <1>12, <1>15, <2>5, <2>6, <2>7, <2>8 DEF BodyMeant
<1>20. ASSUME NEW i \in 1 .. D - 1 PROVE HeaderMeant(q, i, n[i + 1])
  <2>1. i \in 1 .. D /\ i # D /\ i + 1 \in 1 .. D BY <1>2
  <2>2. p.stack[i] \in Nat \ {0} /\ p.stack[i] + 3 <= W /\ p.stack[i] + 4 <= s
    BY <1>1, <1>14, <2>1
  <2>3. /\ p.stack[i] + 1 \in 1 .. W /\ p.stack[i] + 2 \in 1 .. W /\ p.stack[i] + 3 \in 1 .. W
    BY <1>2, <2>2, HeaderWithin
  <2>4. p.stack[i] + 1 # s /\ p.stack[i] + 2 # s /\ p.stack[i] + 3 # s BY <1>4, <2>2
  <2>5. HeaderMeant(p, i, m[i + 1]) BY <2>1 DEF Says, D
  <2>6. n[i + 1].type = m[i + 1].type /\ n[i + 1].id = m[i + 1].id BY <1>11, <2>1
  <2>7. /\ words[p.stack[i] + 1] = p.words[p.stack[i] + 1]
        /\ words[p.stack[i] + 2] = p.words[p.stack[i] + 2]
        /\ words[p.stack[i] + 3] = p.words[p.stack[i] + 3]
    BY <1>7, <2>3, <2>4
  <2> QED BY <1>8, <1>12, <2>5, <2>6, <2>7 DEF HeaderMeant
<1>21. Nested(rest)
  <2> SUFFICES ASSUME NEW i \in 1 .. D - 1, NEW j \in 1 .. D - 1, i < j
               PROVE  rest[i] + 4 <= rest[j]
    BY <1>8 DEF Nested
  <2>1. i \in 1 .. D /\ j \in 1 .. D BY <1>2
  <2>2. p.stack[i] + 4 <= p.stack[j] BY <2>1 DEF Says, Nested, D
  <2> QED BY <1>8, <2>2
<1>22. n[1].type = 0 /\ n[1].id = 0
  <2>1. 1 \in 1 .. D BY <1>2
  <2> QED BY <1>11, <2>1 DEF Says
<1>23. \A i \in 1 .. Len(n) : BodyMeant(q, i, n[i].body) BY <1>11, <1>17, <1>19
<1>24. Len(n) = Len(rest) + 1 BY <1>2, <1>8, <1>11
<1>25. Says(q, n) BY <1>8, <1>11, <1>12, <1>20, <1>21, <1>22, <1>23, <1>24 DEF Says
<1> QED BY <1>25 DEF q, n, words, size, rest, enc, rm, top, s, D

-----------------------------------------------------------------------------
(* What each method means.                                                 *)

LEMMA EncodedInts ==
    ASSUME NEW v, Proper(v) PROVE Encoded(v) \in Seq(Int)
<1>1. /\ v.vals \in Seq(Int) /\ v.size \in Int /\ v.type \in Int /\ v.choice \in Int
      /\ Len(v.vals) \in Nat
  BY DEF Proper
<1>2. CASE v.choice = Plain
  <2> DEFINE head == <<v.size, v.type>>
  <2>1. head \in Seq(Int) BY <1>1
  <2> HIDE DEF head
  <2>2. head \o v.vals \in Seq(Int) BY <1>1, <2>1, ConcatElements
  <2> QED BY <1>2, <2>2 DEF Encoded, head
<1>3. CASE v.choice # Plain
  <2> DEFINE head == <<16 + Written(v.vals), TypeChoice, v.choice, 0, v.size, v.type>>
             enc == head \o v.vals
  <2>1. head \in Seq(Int) BY <1>1 DEF Written, TypeChoice
  <2> HIDE DEF head
  <2>2. enc \in Seq(Int) BY <1>1, <2>1, ConcatElements
  <2> HIDE DEF enc
  <2>3. Padded(enc) \in Seq(Int)
    <3>1. <<0>> \in Seq(Int) OBVIOUS
    <3>2. enc \o <<0>> \in Seq(Int) BY <2>2, <3>1, ConcatElements
    <3> QED BY <2>2, <3>2 DEF Padded
  <2> QED BY <1>3, <2>3 DEF Encoded, head, enc
<1> QED BY <1>2, <1>3

LEMMA ConcatCases ==
    ASSUME NEW m \in Nat, NEW n \in Nat, NEW k \in 1 .. m + n
    PROVE  k \in 1 .. m \/ \E j \in 1 .. n : k = m + j
<1>1. CASE k <= m BY <1>1
<1>2. CASE ~(k <= m)
  <2>1. k - m \in 1 .. n /\ k = m + (k - m) BY <1>2
  <2> QED BY <2>1
<1> QED BY <1>1, <1>2

Patched(ws, i, e) == [ws EXCEPT ![i] = e]

\* Patching the first word behind others patches what is appended.
LEMMA PatchBehind ==
    ASSUME NEW u \in Seq(Int), NEW w \in Seq(Int), w # <<>>, NEW e \in Int
    PROVE  Patched(u \o w, Len(u) + 1, e) = u \o Patched(w, 1, e)
<1> DEFINE x == [w EXCEPT ![1] = e]
           m == Len(u)
           n == Len(w)
           c == u \o w
           d == u \o x
           z == [c EXCEPT ![m + 1] = e]
<1>1. m \in Nat /\ n \in Nat /\ n > 0 BY EmptySeq
<1>2. 1 \in 1 .. n /\ m + 1 \in 1 .. m + n BY <1>1
<1>3. /\ c \in Seq(Int) /\ Len(c) = m + n
      /\ \A k \in 1 .. m : c[k] = u[k]
      /\ \A k \in 1 .. n : c[m + k] = w[k]
  BY ConcatElements
<1>4. x \in Seq(Int) /\ Len(x) = n /\ \A k \in 1 .. n : x[k] = IF k = 1 THEN e ELSE w[k]
  BY <1>2, ExceptSeq
<1> HIDE DEF c, x
<1>5. /\ d \in Seq(Int) /\ Len(d) = m + Len(x)
      /\ \A k \in 1 .. m : d[k] = u[k]
      /\ \A k \in 1 .. Len(x) : d[m + k] = x[k]
  BY <1>4, ConcatElements
<1>6. m + 1 \in 1 .. Len(c) BY <1>2, <1>3
<1>7. /\ z \in Seq(Int) /\ Len(z) = Len(c)
      /\ \A k \in 1 .. Len(c) : z[k] = IF k = m + 1 THEN e ELSE c[k]
  BY <1>3, <1>6, ExceptSeq
<1> HIDE DEF z, d, m, n
<1>8. ASSUME NEW k \in 1 .. m + n PROVE z[k] = d[k]
  <2>1. z[k] = IF k = m + 1 THEN e ELSE c[k] BY <1>3, <1>7
  <2>2. CASE k \in 1 .. m
    <3>1. k # m + 1 BY <1>1, <2>2
    <3> QED BY <1>3, <1>5, <2>1, <2>2, <3>1
  <2>3. CASE \E j \in 1 .. n : k = m + j
    <3>1. PICK j \in 1 .. n : k = m + j BY <2>3
    <3>2. d[k] = IF j = 1 THEN e ELSE w[j] BY <1>4, <1>5, <3>1
    <3>3. c[k] = w[j] BY <1>3, <3>1
    <3>4. k = m + 1 <=> j = 1 BY <1>1, <3>1
    <3> QED BY <2>1, <3>2, <3>3, <3>4
  <2> QED BY <1>1, <2>2, <2>3, ConcatCases
<1>9. Len(z) = m + n /\ Len(d) = m + n BY <1>3, <1>4, <1>5, <1>7
<1>10. z = d
  <2>1. Len(z) = Len(d) /\ \A k \in 1 .. Len(z) : z[k] = d[k] BY <1>8, <1>9
  <2> QED BY <1>5, <1>7, <2>1, SeqEqual
<1> QED BY <1>10 DEF Patched, z, d, c, x, m

\* And patching the first of several words leaves what follows them.
LEMMA PatchBefore ==
    ASSUME NEW u \in Seq(Int), u # <<>>, NEW w \in Seq(Int), NEW e \in Int
    PROVE  Patched(u \o w, 1, e) = Patched(u, 1, e) \o w
<1> DEFINE x == [u EXCEPT ![1] = e]
           m == Len(u)
           n == Len(w)
           c == u \o w
           d == x \o w
           z == [c EXCEPT ![1] = e]
<1>1. m \in Nat /\ n \in Nat /\ m > 0 BY EmptySeq
<1>2. 1 \in 1 .. m /\ 1 \in 1 .. m + n BY <1>1
<1>3. /\ c \in Seq(Int) /\ Len(c) = m + n
      /\ \A k \in 1 .. m : c[k] = u[k]
      /\ \A k \in 1 .. n : c[m + k] = w[k]
  BY ConcatElements
<1>4. x \in Seq(Int) /\ Len(x) = m /\ \A k \in 1 .. m : x[k] = IF k = 1 THEN e ELSE u[k]
  BY <1>2, ExceptSeq
<1> HIDE DEF c, x
<1>5. /\ d \in Seq(Int) /\ Len(d) = Len(x) + n
      /\ \A k \in 1 .. Len(x) : d[k] = x[k]
      /\ \A k \in 1 .. n : d[Len(x) + k] = w[k]
  BY <1>4, ConcatElements
<1>6. 1 \in 1 .. Len(c) BY <1>2, <1>3
<1>7. /\ z \in Seq(Int) /\ Len(z) = Len(c)
      /\ \A k \in 1 .. Len(c) : z[k] = IF k = 1 THEN e ELSE c[k]
  BY <1>3, <1>6, ExceptSeq
<1> HIDE DEF z, d, m, n
<1>8. ASSUME NEW k \in 1 .. m + n PROVE z[k] = d[k]
  <2>1. z[k] = IF k = 1 THEN e ELSE c[k] BY <1>3, <1>7
  <2>2. CASE k \in 1 .. m BY <1>3, <1>4, <1>5, <2>1, <2>2
  <2>3. CASE \E j \in 1 .. n : k = m + j
    <3>1. PICK j \in 1 .. n : k = m + j BY <2>3
    <3>2. d[k] = w[j] BY <1>4, <1>5, <3>1
    <3>3. c[k] = w[j] BY <1>3, <3>1
    <3>4. k # 1 BY <1>1, <3>1
    <3> QED BY <2>1, <3>2, <3>3, <3>4
  <2> QED BY <1>1, <2>2, <2>3, ConcatCases
<1>9. Len(z) = m + n /\ Len(d) = m + n BY <1>3, <1>4, <1>5, <1>7
<1>10. z = d
  <2>1. Len(z) = Len(d) /\ \A k \in 1 .. Len(z) : z[k] = d[k] BY <1>8, <1>9
  <2> QED BY <1>5, <1>7, <2>1, SeqEqual
<1> QED BY <1>10 DEF Patched, z, d, c, x

LEMMA EvenSum ==
    ASSUME NEW m \in Nat, Even(m), NEW n \in Nat PROVE (m + n) % 2 = 0 <=> n % 2 = 0
BY DEF Even

LEMMA ConcatThree ==
    ASSUME NEW u \in Seq(Int), NEW v \in Seq(Int), NEW w \in Seq(Int)
    PROVE  (u \o v) \o w = u \o (v \o w)
BY ConcatAssociative

LEMMA SizeOfChoice ==
    ASSUME NEW m \in Nat, NEW n \in Nat, NEW words, Len(words) = m + (6 + n)
    PROVE  Written(words) - 4 * (m + 1 - 1) - 8 = 16 + 4 * n
<1>1. 4 * (m + (6 + n)) - 4 * (m + 1 - 1) - 8 = 16 + 4 * n OBVIOUS
<1> QED BY <1>1 DEF Written

\* Padding behind an even number of words is padding.
LEMMA Pad8Put ==
    ASSUME NEW p, InOrder(p), NEW ws \in Seq(Int)
    PROVE  Pad8(Put(p, ws)) = Put(p, Padded(ws))
<1> DEFINE q == Put(p, ws)
<1>1. /\ p \in Builders /\ p.words \in Seq(Int) /\ Len(p.words) \in Nat
      /\ Even(Len(p.words)) /\ Len(ws) \in Nat
  BY Facts
<1>2. q.words = p.words \o ws BY <1>1 DEF Put, Builders
<1>3. Len(p.words \o ws) = Len(p.words) + Len(ws) BY <1>1, ConcatElements
<1>4. Put(q, <<0>>) = [p EXCEPT !.words = p.words \o ws \o <<0>>] BY <1>1 DEF Put, Builders
<1> HIDE DEF q
<1>5. Len(q.words) % 2 = 0 <=> Len(ws) % 2 = 0 BY <1>1, <1>2, <1>3, EvenSum
<1>6. CASE Len(ws) % 2 = 0 BY <1>5, <1>6 DEF Pad8, Padded, q
<1>7. CASE Len(ws) % 2 # 0
  <2>1. Pad8(q) = Put(q, <<0>>) /\ Padded(ws) = ws \o <<0>> BY <1>5, <1>7 DEF Pad8, Padded
  <2>2. p.words \o ws \o <<0>> = p.words \o (ws \o <<0>>)
    <3> DEFINE zero == <<0>>
    <3>1. zero \in Seq(Int) OBVIOUS
    <3> HIDE DEF zero
    <3>2. (p.words \o ws) \o zero = p.words \o (ws \o zero)
      BY <1>1, <3>1, ConcatThree
    <3> QED BY <3>2 DEF zero
  <2> QED BY <1>4, <2>1, <2>2 DEF Put, q
<1> QED BY <1>6, <1>7

\* A choice whose size is patched and that is padded is the choice meant.
LEMMA ChoicePut ==
    ASSUME NEW p, InOrder(p), NEW v, Proper(v), v.choice # Plain
    PROVE  Pad8(Patch(Put(p, <<0, TypeChoice, v.choice, 0, v.size, v.type>> \o v.vals),
                      Len(p.words) + 1))
           = Put(p, Encoded(v))
<1> DEFINE head == <<0, TypeChoice, v.choice, 0, v.size, v.type>>
           size == 16 + Written(v.vals)
           sized == <<size, TypeChoice, v.choice, 0, v.size, v.type>>
           body == head \o v.vals
           i == Len(p.words) + 1
<1>1. v.vals \in Seq(Int) /\ v.size \in Int /\ v.type \in Int /\ v.choice \in Int
  BY DEF Proper
<1>2. p \in Builders /\ p.words \in Seq(Int) /\ Len(p.words) \in Nat BY Facts
<1>3. Len(v.vals) \in Nat /\ size \in Int /\ size = 16 + 4 * Len(v.vals) BY <1>1 DEF Written
<1> HIDE DEF size
<1>4. head \in Seq(Int) /\ Len(head) = 6 /\ head # <<>> /\ Patched(head, 1, size) = sized
  BY <1>1, <1>3 DEF TypeChoice, Patched
<1> HIDE DEF head, sized
<1>5. body \in Seq(Int) /\ Len(body) = 6 + Len(v.vals)
  <2>1. body \in Seq(Int) /\ Len(body) = Len(head) + Len(v.vals) BY <1>1, <1>4, ConcatElements
  <2> QED BY <1>4, <2>1
<1>6. Patched(body, 1, size) = sized \o v.vals BY <1>1, <1>3, <1>4, PatchBefore
<1>7. sized \o v.vals \in Seq(Int)
  <2>1. sized \in Seq(Int) BY <1>1, <1>3 DEF sized, TypeChoice
  <2> QED BY <1>1, <2>1, ConcatElements
<1> HIDE DEF body
<1>8. body # <<>> BY <1>3, <1>5, EmptySeq
<1>9. Patched(p.words \o body, i, size) = p.words \o (sized \o v.vals)
  <2>1. Patched(p.words \o body, i, size) = p.words \o Patched(body, 1, size)
    BY <1>2, <1>3, <1>5, <1>8, PatchBehind, Zenon
  <2> QED BY <1>6, <2>1
<1>10. Len(p.words \o body) = Len(p.words) + (6 + Len(v.vals))
  <2>1. Len(p.words \o body) = Len(p.words) + Len(body) BY <1>2, <1>5, ConcatElements
  <2> QED BY <1>5, <2>1
<1>11. Written(p.words \o body) - 4 * (i - 1) - 8 = size
  <2>1. Written(p.words \o body) - 4 * (i - 1) - 8 = 16 + 4 * Len(v.vals)
    
    <3> DEFINE m == Len(p.words)
               n == Len(v.vals)
               words == p.words \o body
    <3>1. m \in Nat /\ n \in Nat /\ Len(words) = m + (6 + n) /\ i = m + 1 BY <1>2, <1>3, <1>10
    <3> HIDE DEF m, n, words, i
    <3>2. Written(words) - 4 * (m + 1 - 1) - 8 = 16 + 4 * n BY <3>1, SizeOfChoice
    <3> QED BY <3>1, <3>2 DEF words, n
  <2> QED BY <1>3, <2>1
<1>12. Put(p, body).words = p.words \o body BY <1>2 DEF Put, Builders
<1>13. Patch(Put(p, body), i) = [Put(p, body) EXCEPT !.words = Patched(@, i, size)]
  BY <1>11, <1>12 DEF Patch, Patched
<1>14. Patch(Put(p, body), i) = Put(p, sized \o v.vals)
  BY <1>2, <1>9, <1>12, <1>13 DEF Put, Builders
<1>15. Encoded(v) = Padded(sized \o v.vals) BY DEF Encoded, sized, size
<1> QED BY <1>7, <1>14, <1>15, Pad8Put DEF body, head

\* A method leaves m as the meaning of the builder q that it makes of p.
Leaves(p, q, m) == (q.err = "none" => p.err = "none") /\ Means(q, m)

LEMMA FailLeaves ==
    ASSUME NEW p, InOrder(p), NEW err \in {"full", "state"}, NEW m
    PROVE  Leaves(p, Fail(p, err), m)
<1>1. p \in Builders BY Facts
<1>2. Fail(p, err).err # "none" BY <1>1 DEF Fail, Builders
<1> QED BY <1>2 DEF Leaves, Means

LEMMA PutLeaves ==
    ASSUME NEW p, InOrder(p), NEW m, Means(p, m), p.err = "none", NEW ws \in Seq(Int)
    PROVE  Leaves(p, Put(p, ws), Into(m, ws))
BY PutSays DEF Means, Leaves

LEMMA ValueLeaves ==
    ASSUME NEW p, InOrder(p), NEW m, Means(p, m), NEW v, Proper(v)
    PROVE  Leaves(p, Value(p, v), Into(m, Encoded(v)))
<1>1. Encoded(v) \in Seq(Int) BY EncodedInts
<1>2. CASE v.choice = Plain
  <2>1. CASE Room(p, 16)
    <3>1. Value(p, v) = Put(p, Encoded(v)) BY <1>2, <2>1 DEF Value, Scalar, Encoded
    <3>2. p.err = "none" BY <2>1 DEF Room
    <3> QED BY <1>1, <3>1, <3>2, PutLeaves
  <2>2. CASE ~Room(p, 16)
    <3>1. Value(p, v) = Fail(p, "full") BY <1>2, <2>2 DEF Value, Scalar
    <3> QED BY <3>1, FailLeaves
  <2> QED BY <2>1, <2>2
<1>3. CASE v.choice # Plain
  <2> DEFINE room == Align8(Written(p.words) + 24 + Written(v.vals)) - Written(p.words)
  <2>1. CASE v.vals = <<>>
    <3>1. Value(p, v) = Fail(p, "state") BY <1>3, <2>1 DEF Value, Choice
    <3> QED BY <3>1, FailLeaves
  <2>2. CASE v.vals # <<>> /\ ~Room(p, room)
    <3>1. Value(p, v) = Fail(p, "full") BY <1>3, <2>2 DEF Value, Choice
    <3> QED BY <3>1, FailLeaves
  <2>3. CASE v.vals # <<>> /\ Room(p, room)
    <3>1. Value(p, v) =
            Pad8(Patch(Put(p, <<0, TypeChoice, v.choice, 0, v.size, v.type>> \o v.vals),
                       Len(p.words) + 1))
      BY <1>3, <2>3 DEF Value, Choice
    <3>2. Value(p, v) = Put(p, Encoded(v)) BY <1>3, <3>1, ChoicePut
    <3>3. p.err = "none" BY <2>3 DEF Room
    <3> QED BY <1>1, <3>2, <3>3, PutLeaves
  <2> QED BY <2>1, <2>2, <2>3
<1> QED BY <1>2, <1>3

LEMMA PropLeaves ==
    ASSUME NEW p, InOrder(p), NEW m, Means(p, m), NEW key \in Nat
    PROVE  Leaves(p, Prop(p, key), Into(m, <<key, 0>>))
<1>1. CASE p.stack = <<>> BY <1>1, FailLeaves DEF Prop
<1>2. CASE p.stack # <<>> /\ ~Room(p, 8) BY <1>2, FailLeaves DEF Prop
<1>3. CASE p.stack # <<>> /\ Room(p, 8)
  <2>1. <<key, 0>> \in Seq(Int) OBVIOUS
  <2>2. p.err = "none" BY <1>3 DEF Room
  <2>3. Prop(p, key) = Put(p, <<key, 0>>) BY <1>3 DEF Prop
  <2> QED BY <2>1, <2>2, <2>3, PutLeaves
<1> QED BY <1>1, <1>2, <1>3

LEMMA ObjectLeaves ==
    ASSUME NEW p, InOrder(p), NEW m, Means(p, m), NEW type \in Nat, NEW id \in Nat
    PROVE  Leaves(p, Object(p, type, id), Append(m, [type |-> type, id |-> id, body |-> <<>>]))
<1>1. CASE ~Room(p, 16) BY <1>1, FailLeaves DEF Object
<1>2. CASE Room(p, 16) /\ Len(p.stack) = podMaxDepth BY <1>2, FailLeaves DEF Object
<1>3. CASE Room(p, 16) /\ Len(p.stack) # podMaxDepth
  <2> DEFINE q == [Put(p, <<0, TypeObject, type, id>>)
                     EXCEPT !.stack = Append(p.stack, Len(p.words) + 1)]
             n == Append(m, [type |-> type, id |-> id, body |-> <<>>])
  <2>1. Object(p, type, id) = q BY <1>3 DEF Object
  <2>2. p.err = "none" BY <1>3 DEF Room
  <2>3. Says(p, m) BY <2>2 DEF Means
  <2>4. type \in Int /\ id \in Int OBVIOUS
  <2>5. Says(q, n) BY <2>3, <2>4, ObjectSays
  <2> HIDE DEF q, n
  <2>6. Leaves(p, q, n) BY <2>2, <2>5 DEF Leaves, Means
  <2> QED BY <2>1, <2>6 DEF n
<1> QED BY <1>1, <1>2, <1>3

LEMMA EndLeaves ==
    ASSUME NEW p, InOrder(p), NEW m, Means(p, m)
    PROVE  LET top == m[Len(m)]
           IN  Leaves(p, End(p), Into(SubSeq(m, 1, Len(m) - 1),
                                      EncodedObject(top.type, top.id, top.body)))
<1> DEFINE top == m[Len(m)]
           n == Into(SubSeq(m, 1, Len(m) - 1), EncodedObject(top.type, top.id, top.body))
           start == p.stack[Len(p.stack)]
           rest == SubSeq(p.stack, 1, Len(p.stack) - 1)
           size == Written(p.words) - 4 * (start - 1) - 8
           words == [p.words EXCEPT ![start] = size]
           q == [p EXCEPT !.words = words, !.stack = rest]
<1>1. CASE p.err # "none" BY <1>1 DEF End, Leaves, Means
<1>2. CASE p.err = "none" /\ p.stack = <<>>
  <2>1. End(p) = Fail(p, "state") BY <1>2 DEF End
  <2> HIDE DEF n
  <2>2. Leaves(p, End(p), n) BY <2>1, FailLeaves
  <2> QED BY <2>2 DEF n
<1>3. CASE p.err = "none" /\ p.stack # <<>>
  <2>1. Says(p, m) BY <1>3 DEF Means
  <2>2. Says(q, n) BY <1>3, <2>1, EndSays
  <2>3. End(p) = Pad8(Patch([p EXCEPT !.stack = rest], start)) BY <1>3 DEF End
  <2>4. /\ p \in Builders /\ p.words \in Seq(Int) /\ Len(p.words) \in Nat
        /\ Even(Len(p.words))
    BY Facts
  <2>5. Patch([p EXCEPT !.stack = rest], start) = q
    <3> HIDE DEF rest, start
    <3> QED BY <2>4 DEF Patch, Builders
  <2>6. q.words = words /\ q.err = p.err
    <3> HIDE DEF rest, words
    <3> QED BY <2>4 DEF Builders
  <2>7. Len(words) = Len(p.words) BY <2>4
  <2> HIDE DEF q, words, n
  <2>8. Pad8(q) = q BY <2>4, <2>6, <2>7 DEF Pad8, Even
  <2>9. End(p) = q BY <2>3, <2>5, <2>8
  <2>10. Leaves(p, End(p), n) BY <1>3, <2>2, <2>9 DEF Leaves, Means
  <2> QED BY <2>10 DEF n
<1> QED BY <1>1, <1>2, <1>3

-----------------------------------------------------------------------------
(* Recursion over the properties of a pod: < is well-founded on Nat.       *)

LEMMA LeastNumber ==
    ASSUME NEW T, T \subseteq Nat, T # {}
    PROVE  \E n \in T : \A m \in T : n <= m
<1> DEFINE R == OpToRel(<, Nat)
<1>1. IsWellFoundedOn(R, Nat) BY NatLessThanWellFounded, Zenon
<1> HIDE DEF R
<1>2. PICK n \in T : \A m \in T : ~(<<m, n>> \in R) BY <1>1, WFMin
<1>3. \A m \in T : ~(m < n)
  <2> SUFFICES ASSUME NEW m \in T, m < n PROVE FALSE
    OBVIOUS
  <2>1. <<m, n>> \in Nat \X Nat OBVIOUS
  <2>2. <<m, n>> \in R BY <2>1, Zenon DEF R, OpToRel
  <2> QED BY <1>2, <2>2
<1>4. \A m \in T : m \in Nat /\ n \in Nat OBVIOUS
<1> QED BY <1>3, <1>4

LEMMA SetInduction ==
    ASSUME NEW S, 0 \in S, \A n \in Nat : n \in S => n + 1 \in S
    PROVE  \A n \in Nat : n \in S
<1> DEFINE T == {n \in Nat : n \notin S}
<1> SUFFICES ASSUME T # {} PROVE FALSE
  OBVIOUS
<1>1. PICK n \in T : \A m \in T : n <= m
  <2>1. T \subseteq Nat OBVIOUS
  <2> HIDE DEF T
  <2> QED BY <2>1, LeastNumber
<1>2. n \in Nat /\ n \notin S /\ n # 0 OBVIOUS
<1>3. n - 1 \in Nat /\ ~(n <= n - 1) BY <1>2
<1>4. n - 1 \in S BY <1>1, <1>3
<1>5. n - 1 + 1 = n BY <1>2
<1> QED BY <1>2, <1>3, <1>4, <1>5

\* The function EncodedProps is defined with, on the first n properties.
UpTo(f, n, props) ==
    f = [i \in 0 .. n |-> IF i = 0 THEN <<>> ELSE f[i - 1] \o EncodedProp(props[i])]

LEMMA UpToExists == ASSUME NEW props PROVE \A n \in Nat : \E f : UpTo(f, n, props)
<1> DEFINE S == {n \in Nat : \E f : UpTo(f, n, props)}
<1>1. 0 \in S
  <2> DEFINE f == [i \in 0 .. 0 |-> <<>>]
  <2>1. f = [i \in 0 .. 0 |-> IF i = 0 THEN <<>> ELSE f[i - 1] \o EncodedProp(props[i])]
    <3>1. \A i \in 0 .. 0 : i = 0 OBVIOUS
    <3> QED BY <3>1
  <2> HIDE DEF f
  <2> QED BY <2>1 DEF UpTo
<1>2. ASSUME NEW n \in Nat, n \in S PROVE n + 1 \in S
  <2> PICK f : UpTo(f, n, props) BY <1>2
  <2> DEFINE last == f[n] \o EncodedProp(props[n + 1])
             g == [i \in 0 .. n + 1 |-> IF i = n + 1 THEN last ELSE f[i]]
             h(i) == IF i = 0 THEN <<>> ELSE g[i - 1] \o EncodedProp(props[i])
  <2>1. ASSUME NEW i \in 0 .. n + 1 PROVE g[i] = h(i)
    <3>1. CASE i = n + 1
      <4>1. i - 1 \in 0 .. n + 1 /\ i - 1 # n + 1 /\ i - 1 = n /\ i # 0 BY <3>1
      <4>2. g[i - 1] = f[n] BY <4>1
      <4> QED BY <3>1, <4>1, <4>2
    <3>2. CASE i # n + 1 /\ i # 0
      <4>1. i \in 0 .. n /\ i - 1 \in 0 .. n + 1 /\ i - 1 # n + 1 BY <3>2
      <4>2. f[i] = f[i - 1] \o EncodedProp(props[i]) BY <3>2, <4>1 DEF UpTo
      <4>3. g[i - 1] = f[i - 1] BY <4>1
      <4> QED BY <3>2, <4>2, <4>3
    <3>3. CASE i = 0
      <4>1. 0 \in 0 .. n /\ 0 \in 0 .. n + 1 /\ 0 # n + 1 OBVIOUS
      <4>2. f[0] = <<>> BY <4>1 DEF UpTo
      <4> QED BY <3>3, <4>1, <4>2
    <3> QED BY <3>1, <3>2, <3>3
  <2>2. UpTo(g, n + 1, props)
    <3>1. g = [i \in 0 .. n + 1 |-> g[i]] OBVIOUS
    <3> HIDE DEF g
    <3> QED BY <2>1, <3>1 DEF UpTo
  <2> HIDE DEF g
  <2> QED BY <2>2
<1> HIDE DEF S
<1>3. \A n \in Nat : n \in S BY <1>1, <1>2, SetInduction
<1> QED BY <1>3 DEF S

\* EncodedProps joins what its properties are encoded as.
LEMMA EncodedPropsUpTo ==
    ASSUME NEW props, Len(props) \in Nat
    PROVE  \E f : UpTo(f, Len(props), props) /\ EncodedProps(props) = f[Len(props)]
<1> DEFINE f == CHOOSE f : UpTo(f, Len(props), props)
<1>1. UpTo(f, Len(props), props) BY UpToExists
<1>2. EncodedProps(props) = f[Len(props)] BY Zenon DEF EncodedProps, UpTo
<1> QED BY <1>1, <1>2

LEMMA UpToStep ==
    ASSUME NEW f, NEW n \in Nat, NEW props, UpTo(f, n, props)
    PROVE  /\ f[0] = <<>>
           /\ \A i \in 1 .. n : f[i] = f[i - 1] \o EncodedProp(props[i])
<1>1. \A i \in 0 .. n : f[i] = IF i = 0 THEN <<>> ELSE f[i - 1] \o EncodedProp(props[i])
  BY DEF UpTo
<1>2. 0 \in 0 .. n /\ \A i \in 1 .. n : i \in 0 .. n /\ i # 0 OBVIOUS
<1> QED BY <1>1, <1>2

LEMMA EncodedPropInts ==
    ASSUME NEW kv, kv.key \in Nat, Proper(kv.val)
    PROVE  EncodedProp(kv) \in Seq(Int)
<1> DEFINE head == <<kv.key, 0>>
<1>1. head \in Seq(Int) OBVIOUS
<1>2. Encoded(kv.val) \in Seq(Int) BY EncodedInts
<1> HIDE DEF head
<1>3. head \o Encoded(kv.val) \in Seq(Int) BY <1>1, <1>2, ConcatElements
<1> QED BY <1>3 DEF EncodedProp, head

-----------------------------------------------------------------------------
(* What the parameters mean.                                               *)

OneObject(type, id, body) == <<Outermost, [type |-> type, id |-> id, body |-> body]>>
OnePod(ws) == <<[Outermost EXCEPT !.body = ws]>>

LEMMA IntoOne ==
    ASSUME NEW type, NEW id, NEW body, NEW ws
    PROVE  Into(OneObject(type, id, body), ws) = OneObject(type, id, body \o ws)
<1> DEFINE obj == [type |-> type, id |-> id, body |-> body]
           longer == [type |-> type, id |-> id, body |-> body \o ws]
           m == <<Outermost, obj>>
<1>1. Len(m) = 2 /\ m[2] = obj OBVIOUS
<1>2. [obj EXCEPT !.body = @ \o ws] = longer
  <2> DEFINE joined == body \o ws
  <2>1. obj.body = body OBVIOUS
  <2> HIDE DEF joined
  <2>2. [obj EXCEPT !.body = joined] = [type |-> type, id |-> id, body |-> joined] OBVIOUS
  <2> QED BY <2>1, <2>2 DEF joined
<1> HIDE DEF obj, longer
<1>3. [m EXCEPT ![2] = longer] = <<Outermost, longer>> OBVIOUS
<1>4. Into(m, ws) = [m EXCEPT ![2] = longer] BY <1>1, <1>2 DEF Into
<1> QED BY <1>3, <1>4 DEF OneObject, obj, longer

LEMMA PlusMeans ==
    ASSUME NEW p, InOrder(p), NEW type, NEW id, NEW body \in Seq(Int),
           Means(p, OneObject(type, id, body)),
           NEW kv, kv.key \in Nat, Proper(kv.val)
    PROVE  /\ InOrder(p ++ kv) /\ body \o EncodedProp(kv) \in Seq(Int)
           /\ Means(p ++ kv, OneObject(type, id, body \o EncodedProp(kv)))
<1> DEFINE q == Prop(p, kv.key)
           head == <<kv.key, 0>>
           enc == Encoded(kv.val)
<1>1. InOrder(q) /\ InOrder(p ++ kv) BY PropInOrder, PlusInOrder
<1>2. head \in Seq(Int) OBVIOUS
<1>3. Means(q, OneObject(type, id, body \o head))
  BY PropLeaves, IntoOne DEF Leaves
<1> HIDE DEF q, head
<1>4. Means(Value(q, kv.val), OneObject(type, id, (body \o head) \o enc))
  BY <1>1, <1>3, ValueLeaves, IntoOne DEF Leaves
<1>5. enc \in Seq(Int) BY EncodedInts
<1>6. (body \o head) \o enc = body \o (head \o enc) BY <1>2, <1>5, ConcatThree
<1>7. body \o EncodedProp(kv) \in Seq(Int) BY EncodedPropInts, ConcatElements
<1> QED BY <1>1, <1>4, <1>6, <1>7 DEF ++, q, head, EncodedProp

LEMMA SaysNothing == ASSUME NEW len \in Nat PROVE Means(NewPodBuilder(len), <<Outermost>>)
<1> DEFINE p == NewPodBuilder(len)
           m == <<Outermost>>
<1>1. p.words = <<>> /\ p.stack = <<>> /\ Len(p.stack) = 0 /\ Len(p.words) = 0
  BY DEF NewPodBuilder
<1>2. Outermost \in Meanings /\ Outermost.type = 0 /\ Outermost.id = 0 /\ Len(Outermost.body) = 0
  BY MeaningNew DEF Outermost
<1>3. m \in Seq(Meanings) /\ Len(m) = 1 /\ m[1] = Outermost BY <1>2
<1> HIDE DEF p, m
<1>4. BodyMeant(p, 1, m[1].body) BY <1>1, <1>2, <1>3 DEF BodyMeant, Start, Stop
<1>5. Says(p, m) BY <1>1, <1>2, <1>3, <1>4 DEF Says, Nested
<1> QED BY <1>5 DEF Means, p, m

LEMMA PairAppended ==
    ASSUME NEW S, NEW x \in S, NEW y \in S PROVE Append(<<x>>, y) = <<x, y>>
<1>1. <<x>> \in Seq(S) /\ Len(<<x>>) = 1 /\ <<x>>[1] = x OBVIOUS
<1>2. <<x, y>> \in Seq(S) /\ Len(<<x, y>>) = 2 /\ <<x, y>>[1] = x /\ <<x, y>>[2] = y OBVIOUS
<1>3. Append(<<x>>, y) \in Seq(S) /\ Len(Append(<<x>>, y)) = 2 BY <1>1, AppendProperties
<1>4. Append(<<x>>, y)[1] = x /\ Append(<<x>>, y)[2] = y BY <1>1, AppendProperties
<1> DEFINE both == Append(<<x>>, y)
           two == <<x, y>>
<1>5. both \in Seq(S) /\ Len(both) = 2 /\ both[1] = x /\ both[2] = y BY <1>3, <1>4
<1>6. two \in Seq(S) /\ Len(two) = 2 /\ two[1] = x /\ two[2] = y BY <1>2
<1> HIDE DEF both, two
<1>7. Len(both) = Len(two) /\ \A i \in 1 .. Len(both) : both[i] = two[i] BY <1>5, <1>6
<1> QED BY <1>5, <1>6, <1>7, SeqEqual DEF both, two

LEMMA FirstOfPair ==
    ASSUME NEW x \in Meanings, NEW y \in Meanings PROVE SubSeq(<<x, y>>, 1, 1) = <<x>>
<1> DEFINE one == <<x>>
           two == <<x, y>>
           first == SubSeq(two, 1, 1)
<1>1. one \in Seq(Meanings) /\ Len(one) = 1 /\ one[1] = x OBVIOUS
<1>2. two \in Seq(Meanings) /\ Len(two) = 2 /\ two[1] = x OBVIOUS
<1> HIDE DEF one, two
<1>3. first \in Seq(Meanings) /\ Len(first) = 1 /\ first[1] = two[1]
  BY <1>2, SubSeqProperties
<1> HIDE DEF first
<1>4. first = one
  <2>1. Len(first) = Len(one) /\ \A i \in 1 .. Len(first) : first[i] = one[i]
    BY <1>1, <1>2, <1>3
  <2> QED BY <1>1, <1>3, <2>1, SeqEqual
<1> QED BY <1>4 DEF first, two, one

LEMMA OpenMeans ==
    ASSUME NEW len \in Nat, NEW type \in Nat, NEW id \in Nat
    PROVE  Means(Open(len, type, id), OneObject(type, id, <<>>))
<1> DEFINE obj == [type |-> type, id |-> id, body |-> <<>>]
<1>1. Means(Open(len, type, id), Append(<<Outermost>>, obj))
  BY NewInOrder, SaysNothing, ObjectLeaves DEF Open, Leaves
<1>2. obj \in Meanings /\ Outermost \in Meanings
  <2>1. type \in Int /\ id \in Int /\ 0 \in Int OBVIOUS
  <2> QED BY <2>1, MeaningNew DEF Outermost
<1> HIDE DEF obj
<1>3. Append(<<Outermost>>, obj) = <<Outermost, obj>> BY <1>2, PairAppended
<1> QED BY <1>1, <1>3 DEF OneObject, obj

LEMMA EndMeans ==
    ASSUME NEW p, InOrder(p), NEW type \in Nat, NEW id \in Nat, NEW body \in Seq(Int),
           Means(p, OneObject(type, id, body))
    PROVE  Means(End(p), OnePod(EncodedObject(type, id, body)))
<1> DEFINE obj == [type |-> type, id |-> id, body |-> body]
           m == <<Outermost, obj>>
           enc == EncodedObject(type, id, body)
<1>1. OneObject(type, id, body) = m BY DEF OneObject
<1>2. Len(m) = 2 /\ m[2] = obj OBVIOUS
<1>3. obj \in Meanings /\ obj.type = type /\ obj.id = id /\ obj.body = body
  BY DEF Meanings
<1> HIDE DEF obj
<1>4. SubSeq(m, 1, Len(m) - 1) = <<Outermost>>
  <2>1. SubSeq(m, 1, 1) = <<Outermost>>
    <3>1. Outermost \in Meanings
      <4>1. 0 \in Int OBVIOUS
      <4> QED BY <4>1, MeaningNew DEF Outermost
    <3> QED BY <1>3, <3>1, FirstOfPair
  <2>2. Len(m) - 1 = 1 BY <1>2
  <2> QED BY <2>1, <2>2
<1> HIDE DEF m, enc
<1>5. Means(End(p), Into(<<Outermost>>, enc))
  <2>1. LET top == m[Len(m)]
        IN  Means(End(p), Into(SubSeq(m, 1, Len(m) - 1),
                               EncodedObject(top.type, top.id, top.body)))
    BY <1>1, EndLeaves DEF Leaves
  <2> QED BY <1>2, <1>3, <1>4, <2>1 DEF enc
<1>6. enc \in Seq(Int) BY <1>3, EncodedObjectElements DEF enc
<1>7. Into(<<Outermost>>, enc) = OnePod(enc)
  <2>1. <<>> \o enc = enc BY <1>6, ConcatEmptySeq
  <2>2. Len(<<Outermost>>) = 1 /\ <<Outermost>>[1] = Outermost OBVIOUS
  <2>3. Outermost.body = <<>> BY DEF Outermost
  <2>4. [Outermost EXCEPT !.body = @ \o enc] = [Outermost EXCEPT !.body = enc] BY <2>1, <2>3
  <2> DEFINE first == [Outermost EXCEPT !.body = enc]
  <2>5. Into(<<Outermost>>, enc) = [<<Outermost>> EXCEPT ![1] = first] BY <2>2, <2>4 DEF Into
  <2> HIDE DEF first
  <2>6. [<<Outermost>> EXCEPT ![1] = first] = <<first>> OBVIOUS
  <2> QED BY <2>5, <2>6 DEF OnePod, first
<1> QED BY <1>5, <1>7 DEF enc

\* A builder with one object open, in which the first i properties are.
Filled(p, type, id, f, i) ==
    InOrder(p) /\ f[i] \in Seq(Int) /\ Means(p, OneObject(type, id, f[i]))

LEMMA PlusFilled ==
    ASSUME NEW kvs, NEW n \in Nat, NEW f, UpTo(f, n, kvs),
           \A i \in 1 .. n : kvs[i].key \in Nat /\ Proper(kvs[i].val)
    PROVE  \A type, id \in Nat : \A p : \A i \in 1 .. n :
             Filled(p, type, id, f, i - 1) => Filled(p ++ kvs[i], type, id, f, i)
<1>1. \A i \in 1 .. n : f[i] = f[i - 1] \o EncodedProp(kvs[i]) BY UpToStep
<1> SUFFICES ASSUME NEW type \in Nat, NEW id \in Nat, NEW p, NEW i \in 1 .. n,
                    Filled(p, type, id, f, i - 1)
             PROVE  Filled(p ++ kvs[i], type, id, f, i)
  OBVIOUS
<1>2. f[i] = f[i - 1] \o EncodedProp(kvs[i]) BY <1>1, Zenon
<1> QED BY <1>2, PlusMeans DEF Filled

LEMMA OpenFilled ==
    ASSUME NEW len \in Nat, NEW type \in Nat, NEW id \in Nat, NEW n \in Nat, NEW kvs,
           NEW f, UpTo(f, n, kvs)
    PROVE  Filled(Open(len, type, id), type, id, f, 0)
<1>1. f[0] = <<>> BY UpToStep
<1>2. <<>> \in Seq(Int) BY EmptySeq
<1> QED BY <1>1, <1>2, OpenInOrder, OpenMeans DEF Filled

LEMMA EndFilled ==
    ASSUME NEW p, NEW type \in Nat, NEW id \in Nat, NEW f, NEW n, Filled(p, type, id, f, n)
    PROVE  Means(End(p), OnePod(EncodedObject(type, id, f[n])))
BY EndMeans DEF Filled

LEMMA SixMeans ==
    ASSUME NEW len \in Nat, NEW type \in Nat, NEW id \in Nat,
           NEW kvs, ProperProps(kvs), Len(kvs) = 6
    PROVE  Means(End(SixProps(Open(len, type, id), kvs)),
                 OnePod(EncodedObject(type, id, EncodedProps(kvs))))
<1>1. PICK f : UpTo(f, 6, kvs) /\ EncodedProps(kvs) = f[6]
  <2>1. Len(kvs) \in Nat OBVIOUS
  <2> QED BY <2>1, EncodedPropsUpTo
<1> DEFINE Full(p, i) == Filled(p, type, id, f, i)
<1>2. Full(Open(len, type, id), 0) BY <1>1, OpenFilled
<1>3. \A p : \A i \in 1 .. 6 : Full(p, i - 1) => Full(p ++ kvs[i], i)
  BY <1>1, PlusFilled DEF ProperProps
<1>4. /\ \A p : Full(p, 0) => Full(p ++ kvs[1], 1)
      /\ \A p : Full(p, 1) => Full(p ++ kvs[2], 2)
      /\ \A p : Full(p, 2) => Full(p ++ kvs[3], 3)
      /\ \A p : Full(p, 3) => Full(p ++ kvs[4], 4)
      /\ \A p : Full(p, 4) => Full(p ++ kvs[5], 5)
      /\ \A p : Full(p, 5) => Full(p ++ kvs[6], 6)
  <2>1. /\ 1 - 1 = 0 /\ 2 - 1 = 1 /\ 3 - 1 = 2 /\ 4 - 1 = 3 /\ 5 - 1 = 4 /\ 6 - 1 = 5
        /\ 1 \in 1 .. 6 /\ 2 \in 1 .. 6 /\ 3 \in 1 .. 6
        /\ 4 \in 1 .. 6 /\ 5 \in 1 .. 6 /\ 6 \in 1 .. 6
    OBVIOUS
  <2> HIDE DEF Full
  <2> QED BY <1>3, <2>1
<1>5. Full(SixProps(Open(len, type, id), kvs), 6)
  <2> HIDE DEF Full
  <2> QED BY <1>2, <1>4 DEF SixProps
<1> QED BY <1>1, <1>5, EndFilled

LEMMA MetaMeans ==
    ASSUME NEW len \in Nat
    PROVE  Means(MetaHeader(len),
                 OnePod(EncodedObject(TypeObjectParamMeta, ParamMeta, EncodedProps(MetaProps))))
<1>1. TypeObjectParamMeta \in Nat /\ ParamMeta \in Nat BY DEF TypeObjectParamMeta, ParamMeta
<1>2. Len(MetaProps) = 2 /\ ProperProps(MetaProps) BY MetaProper
<1>3. PICK f : UpTo(f, 2, MetaProps) /\ EncodedProps(MetaProps) = f[2]
  <2>1. Len(MetaProps) \in Nat BY <1>2
  <2> QED BY <1>2, <2>1, EncodedPropsUpTo
<1> DEFINE Full(p, i) == Filled(p, TypeObjectParamMeta, ParamMeta, f, i)
<1>4. Full(Open(len, TypeObjectParamMeta, ParamMeta), 0) BY <1>1, <1>2, <1>3, OpenFilled
<1>5. \A p : \A i \in 1 .. 2 : Full(p, i - 1) => Full(p ++ MetaProps[i], i)
  BY <1>1, <1>2, <1>3, PlusFilled DEF ProperProps
<1>6. /\ \A p : Full(p, 0) => Full(p ++ MetaProps[1], 1)
      /\ \A p : Full(p, 1) => Full(p ++ MetaProps[2], 2)
  <2>1. 1 - 1 = 0 /\ 2 - 1 = 1 /\ 1 \in 1 .. 2 /\ 2 \in 1 .. 2 OBVIOUS
  <2> HIDE DEF Full
  <2> QED BY <1>5, <2>1
<1>7. Full(Open(len, TypeObjectParamMeta, ParamMeta) ++ MetaProps[1] ++ MetaProps[2], 2)
  <2> HIDE DEF Full
  <2> QED BY <1>4, <1>6
<1> QED BY <1>1, <1>2, <1>3, <1>7, EndFilled DEF MetaHeader

LEMMA RefusedMeans == ASSUME NEW len \in Nat, NEW m PROVE Means(Refused(len), m)
BY NewInOrder, FailLeaves DEF Refused, Leaves

LEMMA EnumFormatMeans ==
    ASSUME NEW len \in Nat, NEW w \in Int, NEW h \in Int, NEW fps \in Int,
           NEW formats \in Seq(Nat), formats # <<>>
    PROVE  Means(VideoEnumFormat(len, w, h, fps, formats),
                 OnePod(EncodedObject(TypeObjectFormat, ParamEnumFormat,
                                      EncodedProps(EnumFormatProps(w, h, fps, formats)))))
<1> DEFINE kvs == EnumFormatProps(w, h, fps, formats)
<1>1. Len(kvs) = 6 /\ ProperProps(kvs) BY EnumFormatProper
<1>2. TypeObjectFormat \in Nat /\ ParamEnumFormat \in Nat BY DEF TypeObjectFormat, ParamEnumFormat
<1> HIDE DEF kvs
<1>3. CASE w <= 0 \/ h <= 0 \/ fps <= 0 BY <1>3, RefusedMeans DEF VideoEnumFormat
<1>4. CASE ~(w <= 0 \/ h <= 0 \/ fps <= 0) BY <1>1, <1>2, <1>4, SixMeans DEF VideoEnumFormat, kvs
<1> QED BY <1>3, <1>4 DEF kvs

LEMMA BuffersMeans ==
    ASSUME NEW len \in Nat, NEW size \in Int, NEW stride \in Int, NEW least \in Int,
           NEW default \in Int, NEW most \in Int, NEW types \in Nat
    PROVE  Means(VideoBuffers(len, size, stride, least, default, most, types),
                 OnePod(EncodedObject(TypeObjectParamBuffers, ParamBuffers,
                          EncodedProps(BuffersProps(size, stride, least, default, most, types)))))
<1> DEFINE kvs == BuffersProps(size, stride, least, default, most, types)
           refused == \/ size <= 0 \/ stride <= 0 \/ least <= 0 \/ default < least
                      \/ most < default
                      \/ size > MaxInt32 \/ stride > MaxInt32 \/ most > MaxInt32
<1>1. ASSUME ~refused PROVE Len(kvs) = 6 /\ ProperProps(kvs)
  <2>1. /\ size \in Nat /\ stride \in Nat /\ least \in Nat /\ default \in Nat /\ most \in Nat
    BY <1>1
  <2> QED BY <2>1, BuffersProper
<1>2. TypeObjectParamBuffers \in Nat /\ ParamBuffers \in Nat
  BY DEF TypeObjectParamBuffers, ParamBuffers
<1> HIDE DEF kvs
<1>3. CASE refused BY <1>3, RefusedMeans DEF VideoBuffers
<1>4. CASE ~refused BY <1>1, <1>2, <1>4, SixMeans DEF VideoBuffers, kvs
<1> QED BY <1>3, <1>4 DEF kvs

\* A property of one word, as the code writes it without a builder.
LEMMA FourJoined ==
    ASSUME NEW c \in Int, NEW d \in Int, NEW e \in Int, NEW g \in Int
    PROVE  <<c, d>> \o <<e, g>> = <<c, d, e, g>>
<1> DEFINE u == <<c, d>>
           v == <<e, g>>
           w == <<c, d, e, g>>
           uv == u \o v
<1>1. u \in Seq(Int) /\ Len(u) = 2 /\ u[1] = c /\ u[2] = d OBVIOUS
<1>2. v \in Seq(Int) /\ Len(v) = 2 /\ v[1] = e /\ v[2] = g OBVIOUS
<1>3. w \in Seq(Int) /\ Len(w) = 4 /\ w[1] = c /\ w[2] = d /\ w[3] = e /\ w[4] = g OBVIOUS
<1> HIDE DEF u, v, w
<1>4. /\ uv \in Seq(Int) /\ Len(uv) = 2 + 2
      /\ \A k \in 1 .. 2 : uv[k] = u[k]
      /\ \A k \in 1 .. 2 : uv[2 + k] = v[k]
  <2>1. /\ uv \in Seq(Int) /\ Len(uv) = Len(u) + Len(v)
        /\ \A k \in 1 .. Len(u) : uv[k] = u[k]
        /\ \A k \in 1 .. Len(v) : uv[Len(u) + k] = v[k]
    BY <1>1, <1>2, ConcatElements
  <2> HIDE DEF uv
  <2> QED BY <1>1, <1>2, <2>1, Zenon
<1> HIDE DEF uv
<1>5. uv[1] = u[1] /\ uv[2] = u[2] /\ uv[2 + 1] = v[1] /\ uv[2 + 2] = v[2]
  <2>1. 1 \in 1 .. 2 /\ 2 \in 1 .. 2 OBVIOUS
  <2> QED BY <1>4, <2>1, Zenon
<1>6. uv[1] = w[1] /\ uv[2] = w[2] /\ uv[3] = w[3] /\ uv[4] = w[4]
  BY <1>1, <1>2, <1>3, <1>5
<1>7. Len(uv) = Len(w) /\ \A i \in 1 .. Len(uv) : uv[i] = w[i]
  <2>1. \A i \in 1 .. 4 : i = 1 \/ i = 2 \/ i = 3 \/ i = 4 OBVIOUS
  <2> QED BY <1>3, <1>4, <1>6, <2>1
<1>8. uv = w BY <1>3, <1>4, <1>7, SeqEqual
<1> QED BY <1>8 DEF uv, u, v, w

LEMMA SixJoined ==
    ASSUME NEW a \in Int, NEW b1 \in Int,
           NEW c \in Int, NEW d \in Int, NEW e \in Int, NEW g \in Int
    PROVE  <<a, b1>> \o (<<c, d>> \o <<e, g>>) = <<a, b1, c, d, e, g>>
<1> DEFINE u == <<a, b1>>
           v == <<c, d, e, g>>
           w == <<a, b1, c, d, e, g>>
           uv == u \o v
<1>1. u \in Seq(Int) /\ Len(u) = 2 /\ u[1] = a /\ u[2] = b1 OBVIOUS
<1>2. v \in Seq(Int) /\ Len(v) = 4 /\ v[1] = c /\ v[2] = d /\ v[3] = e /\ v[4] = g OBVIOUS
<1>3. /\ w \in Seq(Int) /\ Len(w) = 6 /\ w[1] = a /\ w[2] = b1
      /\ w[3] = c /\ w[4] = d /\ w[5] = e /\ w[6] = g
  OBVIOUS
<1> HIDE DEF u, v, w
<1>4. /\ uv \in Seq(Int) /\ Len(uv) = 2 + 4
      /\ \A k \in 1 .. 2 : uv[k] = u[k]
      /\ \A k \in 1 .. 4 : uv[2 + k] = v[k]
  <2>1. /\ uv \in Seq(Int) /\ Len(uv) = Len(u) + Len(v)
        /\ \A k \in 1 .. Len(u) : uv[k] = u[k]
        /\ \A k \in 1 .. Len(v) : uv[Len(u) + k] = v[k]
    BY <1>1, <1>2, ConcatElements
  <2> HIDE DEF uv
  <2> QED BY <1>1, <1>2, <2>1, Zenon
<1> HIDE DEF uv
<1>5. /\ uv[1] = u[1] /\ uv[2] = u[2] /\ uv[2 + 1] = v[1] /\ uv[2 + 2] = v[2]
      /\ uv[2 + 3] = v[3] /\ uv[2 + 4] = v[4]
  <2>1. /\ 1 \in 1 .. 2 /\ 2 \in 1 .. 2
        /\ 1 \in 1 .. 4 /\ 2 \in 1 .. 4 /\ 3 \in 1 .. 4 /\ 4 \in 1 .. 4
    OBVIOUS
  <2> QED BY <1>4, <2>1, Zenon
<1>6. /\ uv[1] = w[1] /\ uv[2] = w[2] /\ uv[3] = w[3] /\ uv[4] = w[4]
      /\ uv[5] = w[5] /\ uv[6] = w[6]
  BY <1>1, <1>2, <1>3, <1>5
<1>7. Len(uv) = Len(w) /\ \A i \in 1 .. Len(uv) : uv[i] = w[i]
  <2>1. \A i \in 1 .. 6 : i = 1 \/ i = 2 \/ i = 3 \/ i = 4 \/ i = 5 \/ i = 6 OBVIOUS
  <2> QED BY <1>3, <1>4, <1>6, <2>1
<1>8. uv = w BY <1>3, <1>4, <1>7, SeqEqual
<1>9. <<c, d>> \o <<e, g>> = v BY FourJoined DEF v
<1> QED BY <1>8, <1>9 DEF uv, u, w

\* A pod outside of all objects is what its words are.
LEMMA WholeSays ==
    ASSUME NEW p, InOrder(p), p.stack = <<>> PROVE Says(p, OnePod(p.words))
<1> DEFINE all == [Outermost EXCEPT !.body = p.words]
           m == <<all>>
<1>1. p.words \in Seq(Int) /\ Len(p.words) \in Nat /\ Len(p.stack) = 0 BY Facts, EmptySeq
<1>2. all \in Meanings /\ all.type = 0 /\ all.id = 0 /\ all.body = p.words
  BY <1>1 DEF Outermost, Meanings
<1> HIDE DEF all
<1>3. m \in Seq(Meanings) /\ Len(m) = 1 /\ m[1] = all BY <1>2
<1> HIDE DEF m
<1>4. BodyMeant(p, 1, m[1].body) BY <1>1, <1>2, <1>3 DEF BodyMeant, Start, Stop
<1>5. Says(p, m) BY <1>1, <1>2, <1>3, <1>4 DEF Says, Nested
<1> QED BY <1>5 DEF OnePod, m, all

LEMMA AudioProp ==
    ASSUME NEW key \in Nat, NEW v \in Nat
    PROVE  /\ EncodedProp([key |-> key, val |-> Id(v)]) = writeIdProp(key, v)
           /\ EncodedProp([key |-> key, val |-> IntPod(v)]) = writeIntProp(key, v)
<1>1. key \in Int /\ v \in Int /\ 0 \in Int /\ 4 \in Int /\ TypeId \in Int /\ TypeInt \in Int
  BY DEF TypeId, TypeInt
<1>2. /\ <<key, 0>> \o (<<4, TypeId>> \o <<v, 0>>) = <<key, 0, 4, TypeId, v, 0>>
      /\ <<key, 0>> \o (<<4, TypeInt>> \o <<v, 0>>) = <<key, 0, 4, TypeInt, v, 0>>
  BY <1>1, SixJoined
<1>3. Encoded(Id(v)) = <<4, TypeId>> \o <<v, 0>> BY DEF Encoded, Id
<1>4. Encoded(IntPod(v)) = <<4, TypeInt>> \o <<v, 0>> BY DEF Encoded, IntPod
<1> QED BY <1>2, <1>3, <1>4 DEF EncodedProp, writeIdProp, writeIntProp

LEMMA FiveUpTo ==
    ASSUME NEW f, NEW kvs, UpTo(f, 5, kvs)
    PROVE  /\ f[0] = <<>> /\ f[1] = f[0] \o EncodedProp(kvs[1])
           /\ f[2] = f[1] \o EncodedProp(kvs[2]) /\ f[3] = f[2] \o EncodedProp(kvs[3])
           /\ f[4] = f[3] \o EncodedProp(kvs[4]) /\ f[5] = f[4] \o EncodedProp(kvs[5])
<1>1. f[0] = <<>> /\ \A i \in 1 .. 5 : f[i] = f[i - 1] \o EncodedProp(kvs[i])
  <2>1. 5 \in Nat OBVIOUS
  <2> QED BY <2>1, UpToStep, Zenon
<1>2. /\ 1 - 1 = 0 /\ 2 - 1 = 1 /\ 3 - 1 = 2 /\ 4 - 1 = 3 /\ 5 - 1 = 4
      /\ 1 \in 1 .. 5 /\ 2 \in 1 .. 5 /\ 3 \in 1 .. 5 /\ 4 \in 1 .. 5 /\ 5 \in 1 .. 5
  OBVIOUS
<1> QED BY <1>1, <1>2

\* Behind the header h, these n words make all.
Joined(h, ws, n, all) == h \in Seq(Int) /\ ws \in Seq(Int) /\ Len(ws) = n /\ all = h \o ws

LEMMA SixMore ==
    ASSUME NEW h, NEW ws, NEW n \in Nat, NEW all, Joined(h, ws, n, all),
           NEW e \in Seq(Int), Len(e) = 6
    PROVE  Joined(h, ws \o e, n + 6, all \o e)
<1>1. h \in Seq(Int) /\ ws \in Seq(Int) /\ Len(ws) = n /\ all = h \o ws BY DEF Joined
<1>2. ws \o e \in Seq(Int) /\ Len(ws \o e) = Len(ws) + Len(e) BY <1>1, ConcatElements
<1>3. (h \o ws) \o e = h \o (ws \o e) BY <1>1, ConcatThree
<1> QED BY <1>1, <1>2, <1>3 DEF Joined

LEMMA RawAudioMeans ==
    ASSUME NEW rate \in Int, NEW channels \in Int
    PROVE  Means(RawAudioParams(rate, channels),
                 OnePod(EncodedObject(TypeObjectFormat, ParamEnumFormat,
                                      EncodedProps(RawAudioProps(rate, channels)))))
<1> DEFINE p == RawAudioParams(rate, channels)
           kvs == RawAudioProps(rate, channels)
           header == <<objBodySize, TypeObject, TypeObjectFormat, ParamEnumFormat>>
           p1 == writeIdProp(FormatKeyMediaType, MediaTypeAudio)
           p2 == writeIdProp(FormatKeyMediaSubtype, MediaSubtypeRaw)
           p3 == writeIdProp(FormatKeyAudioFormat, AudioFormatF32P)
           p4 == writeIntProp(FormatKeyAudioRate, Word(rate))
           p5 == writeIntProp(FormatKeyAudioChannels, Word(channels))
           words == header \o p1 \o p2 \o p3 \o p4 \o p5
           body == EncodedProps(kvs)
<1>0. Word(rate) \in Nat /\ Word(channels) \in Nat BY WordType
<1>1. p.words = words /\ p.stack = <<>> BY DEF RawAudioParams, NewPodBuilder
<1>2. Says(p, OnePod(p.words)) BY <1>1, RawAudioInOrder, WholeSays
<1>3. Len(kvs) = 5 BY DEF RawAudioProps
<1>4. PICK f : UpTo(f, 5, kvs) /\ body = f[5]
  <2>1. Len(kvs) \in Nat BY <1>3
  <2> HIDE DEF kvs
  <2> QED BY <1>3, <2>1, EncodedPropsUpTo
<1>5. /\ EncodedProp(kvs[1]) = p1 /\ EncodedProp(kvs[2]) = p2 /\ EncodedProp(kvs[3]) = p3
      /\ EncodedProp(kvs[4]) = p4 /\ EncodedProp(kvs[5]) = p5
  <2>1. /\ FormatKeyMediaType \in Nat /\ MediaTypeAudio \in Nat
        /\ FormatKeyMediaSubtype \in Nat /\ MediaSubtypeRaw \in Nat
        /\ FormatKeyAudioFormat \in Nat /\ AudioFormatF32P \in Nat
        /\ FormatKeyAudioRate \in Nat /\ FormatKeyAudioChannels \in Nat
    BY DEF FormatKeyMediaType, MediaTypeAudio, FormatKeyMediaSubtype, MediaSubtypeRaw,
       FormatKeyAudioFormat, AudioFormatF32P, FormatKeyAudioRate, FormatKeyAudioChannels
  <2>2. /\ kvs[1] = [key |-> FormatKeyMediaType, val |-> Id(MediaTypeAudio)]
        /\ kvs[2] = [key |-> FormatKeyMediaSubtype, val |-> Id(MediaSubtypeRaw)]
        /\ kvs[3] = [key |-> FormatKeyAudioFormat, val |-> Id(AudioFormatF32P)]
        /\ kvs[4] = [key |-> FormatKeyAudioRate, val |-> IntPod(Word(rate))]
        /\ kvs[5] = [key |-> FormatKeyAudioChannels, val |-> IntPod(Word(channels))]
    BY DEF RawAudioProps
  <2> HIDE DEF kvs
  <2> QED BY <1>0, <2>1, <2>2, AudioProp
<1>6. /\ f[0] = <<>> /\ f[1] = f[0] \o p1 /\ f[2] = f[1] \o p2 /\ f[3] = f[2] \o p3
      /\ f[4] = f[3] \o p4 /\ f[5] = f[4] \o p5
  <2> HIDE DEF kvs, p1, p2, p3, p4, p5
  <2> QED BY <1>4, <1>5, FiveUpTo
<1>7. header \in Seq(Int) /\ objBodySize = 128
  BY DEF objBodySize, propSize, TypeObject, TypeObjectFormat, ParamEnumFormat
<1>8. \A key, v \in Nat :
        /\ writeIdProp(key, v) \in Seq(Int) /\ Len(writeIdProp(key, v)) = 6
        /\ writeIntProp(key, v) \in Seq(Int) /\ Len(writeIntProp(key, v)) = 6
  BY DEF writeIdProp, writeIntProp, TypeId, TypeInt
<1>9. /\ p1 \in Seq(Int) /\ Len(p1) = 6 /\ p2 \in Seq(Int) /\ Len(p2) = 6
      /\ p3 \in Seq(Int) /\ Len(p3) = 6 /\ p4 \in Seq(Int) /\ Len(p4) = 6
      /\ p5 \in Seq(Int) /\ Len(p5) = 6
  BY <1>0, <1>8 DEF FormatKeyMediaType, MediaTypeAudio, FormatKeyMediaSubtype, MediaSubtypeRaw,
     FormatKeyAudioFormat, AudioFormatF32P, FormatKeyAudioRate, FormatKeyAudioChannels
<1> HIDE DEF p1, p2, p3, p4, p5, header, kvs, body, p
<1>10. Joined(header, f[0], 0, header)
  BY <1>6, <1>7, EmptySeq, ConcatEmptySeq DEF Joined
<1>11. /\ 0 \in Nat /\ 6 \in Nat /\ 12 \in Nat /\ 18 \in Nat /\ 24 \in Nat
       /\ 0 + 6 = 6 /\ 6 + 6 = 12 /\ 12 + 6 = 18 /\ 18 + 6 = 24 /\ 24 + 6 = 30
  OBVIOUS
<1>12. Joined(header, f[1], 6, header \o p1) BY <1>6, <1>9, <1>10, <1>11, SixMore, Zenon
<1>13. Joined(header, f[2], 12, header \o p1 \o p2) BY <1>6, <1>9, <1>11, <1>12, SixMore, Zenon
<1>14. Joined(header, f[3], 18, header \o p1 \o p2 \o p3)
  BY <1>6, <1>9, <1>11, <1>13, SixMore, Zenon
<1>15. Joined(header, f[4], 24, header \o p1 \o p2 \o p3 \o p4)
  BY <1>6, <1>9, <1>11, <1>14, SixMore, Zenon
<1>16. Joined(header, f[5], 30, words) BY <1>6, <1>9, <1>11, <1>15, SixMore, Zenon
<1>17. EncodedObject(TypeObjectFormat, ParamEnumFormat, body) = words
  <2>1. 8 + Written(body) = objBodySize BY <1>4, <1>7, <1>16 DEF Written, Joined
  <2>2. words = header \o body BY <1>4, <1>16 DEF Joined
  <2> QED BY <2>1, <2>2 DEF EncodedObject, header
<1> QED BY <1>1, <1>2, <1>17 DEF Means, p, kvs, body

-----------------------------------------------------------------------------
(* The builder of the specification says what was meant.                   *)

LEMMA InitMeans == Init => Means(b, meant)
BY LengthsAssumption, SaysNothing DEF Init

LEMMA CalledMeans ==
    ASSUME NEW q, NEW m, Called(q, m), Leaves(b, q, m) PROVE Means(b, meant)'
BY DEF Called, Leaves, Means

LEMMA CallMeans ==
    ASSUME InOrder(b), Means(b, meant), CallObject \/ CallProp \/ CallEnd \/ CallValue
    PROVE  Means(b, meant)'
<1>1. CASE CallObject
  <2>1. PICK t \in Arguments :
          Called(Object(b, t, t), Append(meant, [type |-> t, id |-> t, body |-> <<>>]))
    BY <1>1 DEF CallObject
  <2>2. t \in Nat BY ArgumentsAssumption
  <2>3. Leaves(b, Object(b, t, t), Append(meant, [type |-> t, id |-> t, body |-> <<>>]))
    BY <2>2, ObjectLeaves
  <2> QED BY <2>1, <2>3, CalledMeans
<1>2. CASE CallProp
  <2>1. PICK key \in Arguments : Called(Prop(b, key), Inside(<<key, 0>>)) BY <1>2 DEF CallProp
  <2>2. key \in Nat BY ArgumentsAssumption
  <2>3. Leaves(b, Prop(b, key), Into(meant, <<key, 0>>)) BY <2>2, PropLeaves
  <2>4. Inside(<<key, 0>>) = Into(meant, <<key, 0>>) BY DEF Inside, Into
  <2> QED BY <2>1, <2>3, <2>4, CalledMeans
<1>3. CASE CallEnd
  <2> DEFINE top == meant[Len(meant)]
             rest == SubSeq(meant, 1, Len(meant) - 1)
             enc == EncodedObject(top.type, top.id, top.body)
             m == IF rest = <<>> THEN meant ELSE Into(rest, enc)
  <2>1. Called(End(b), m) BY <1>3 DEF CallEnd, Into
  <2>2. Leaves(b, End(b), Into(rest, enc)) BY EndLeaves
  <2>3. Leaves(b, End(b), m)
    <3>1. CASE rest # <<>> BY <2>2, <3>1
    <3>2. CASE rest = <<>> /\ b.err # "none" BY <3>2 DEF End, Leaves, Means
    <3>3. CASE rest = <<>> /\ b.err = "none"
      <4>1. /\ meant \in Seq(Meanings) /\ Len(meant) = Len(b.stack) + 1 /\ Len(meant) \in Nat
            /\ b.stack \in Seq(Nat \ {0}) /\ Len(b.stack) \in Nat
        BY <3>3, Facts DEF Means, Says
      <4>2. b.stack = <<>>
        <5>1. CASE Len(b.stack) = 0 BY <4>1, <5>1, EmptySeq
        <5>2. CASE Len(b.stack) # 0
          <6>1. 1 \in 1 .. Len(meant) + 1 /\ Len(meant) - 1 \in 1 - 1 .. Len(meant)
            BY <4>1, <5>2
          <6>2. Len(rest) = Len(meant) - 1 BY <4>1, <5>2, <6>1, SubSeqProperties
          <6>3. Len(rest) = 0 BY <3>3, EmptySeq
          <6> QED BY <4>1, <5>2, <6>2, <6>3
        <5> QED BY <5>1, <5>2
      <4>3. End(b) = Fail(b, "state") BY <3>3, <4>2 DEF End
      <4> HIDE DEF m
      <4> QED BY <4>3, FailLeaves
    <3> QED BY <3>1, <3>2, <3>3
  <2> HIDE DEF m
  <2> QED BY <2>1, <2>3, CalledMeans
<1>4. CASE CallValue
  <2>1. PICK v \in Values : Called(Value(b, v), Inside(Encoded(v))) BY <1>4 DEF CallValue
  <2>2. Proper(v) BY ValuesAssumption DEF Proper, Plain
  <2>3. Leaves(b, Value(b, v), Into(meant, Encoded(v))) BY <2>2, ValueLeaves
  <2>4. Inside(Encoded(v)) = Into(meant, Encoded(v)) BY DEF Inside, Into
  <2> QED BY <2>1, <2>3, <2>4, CalledMeans
<1> QED BY <1>1, <1>2, <1>3, <1>4

LEMMA MadeMeans ==
    ASSUME Fresh, NEW p, NEW type, NEW id, NEW props, Made(p, type, id, props),
           Means(p, OnePod(EncodedObject(type, id, EncodedProps(props))))
    PROVE  Means(b, meant)'
<1> DEFINE ws == EncodedObject(type, id, EncodedProps(props))
           m == [meant EXCEPT ![1].body = ws]
<1>1. Called(p, m) BY DEF Made
<1>2. m = OnePod(ws)
  <2> HIDE DEF ws
  <2>1. meant = <<Outermost>> BY DEF Fresh
  <2>2. <<Outermost>>[1] = Outermost OBVIOUS
  <2> DEFINE all == [Outermost EXCEPT !.body = ws]
  <2>3. m = [<<Outermost>> EXCEPT ![1] = all] BY <2>1, <2>2
  <2> HIDE DEF all
  <2>4. [<<Outermost>> EXCEPT ![1] = all] = <<all>> OBVIOUS
  <2> QED BY <2>3, <2>4 DEF OnePod, all
<1>3. b.err = "none" BY DEF Fresh, NewPodBuilder
<1> HIDE DEF m, ws
<1>4. Leaves(b, p, m) BY <1>2, <1>3 DEF Leaves, ws
<1> QED BY <1>1, <1>4, CalledMeans

LEMMA MakeMeans ==
    ASSUME InOrder(b), MakeEnumFormat \/ MakeBuffers \/ MakeMeta \/ MakeRawAudio
    PROVE  Means(b, meant)'
<1>1. b.len \in Nat BY Facts
<1>2. CASE MakeEnumFormat
  <2> DEFINE Offer(w, h, fps, formats) == VideoEnumFormat(b.len, w, h, fps, formats)
  <2>1. PICK w, h, fps \in Ints, formats \in OfferedFormats :
          IF formats = <<>> THEN Called(Offer(w, h, fps, formats), meant)
          ELSE Made(Offer(w, h, fps, formats), TypeObjectFormat, ParamEnumFormat,
                    EnumFormatProps(w, h, fps, formats))
    BY <1>2, Zenon DEF MakeEnumFormat
  <2>2. w \in Int /\ h \in Int /\ fps \in Int BY ArgumentsAssumption
  <2>3. Fresh BY <1>2 DEF MakeEnumFormat
  <2>4. CASE formats = <<>>
    <3>1. Offer(w, h, fps, formats) = Fail(b, "state")
      BY <2>3, <2>4 DEF VideoEnumFormat, Refused, Fresh
    <3>2. Leaves(b, Offer(w, h, fps, formats), meant) BY <3>1, FailLeaves
    <3> HIDE DEF Offer
    <3> QED BY <2>1, <2>4, <3>2, CalledMeans
  <2>5. CASE formats # <<>>
    <3>1. formats \in Seq(Nat) BY OfferedSeq
    <3> QED BY <1>1, <2>1, <2>2, <2>3, <2>5, <3>1, EnumFormatMeans, MadeMeans
  <2> QED BY <2>4, <2>5
<1>3. CASE MakeBuffers
  <2>1. PICK size, stride, least, most \in Ints :
          Made(VideoBuffers(b.len, size, stride, least, 2, most, 4),
               TypeObjectParamBuffers, ParamBuffers, BuffersProps(size, stride, least, 2, most, 4))
    BY <1>3 DEF MakeBuffers
  <2>2. size \in Int /\ stride \in Int /\ least \in Int /\ most \in Int BY ArgumentsAssumption
  <2>3. Fresh BY <1>3 DEF MakeBuffers
  <2>4. Means(VideoBuffers(b.len, size, stride, least, 2, most, 4),
              OnePod(EncodedObject(TypeObjectParamBuffers, ParamBuffers,
                       EncodedProps(BuffersProps(size, stride, least, 2, most, 4)))))
    <3>1. 2 \in Int /\ 4 \in Nat OBVIOUS
    <3> QED BY <1>1, <2>2, <3>1, BuffersMeans
  <2> QED BY <2>1, <2>3, <2>4, MadeMeans
<1>4. CASE MakeMeta BY <1>1, <1>4, MetaMeans, MadeMeans DEF MakeMeta
<1>5. CASE MakeRawAudio
  <2>1. PICK rate, channels \in Ints :
          Made(RawAudioParams(rate, channels), TypeObjectFormat, ParamEnumFormat,
               RawAudioProps(rate, channels))
    BY <1>5 DEF MakeRawAudio
  <2>2. rate \in Int /\ channels \in Int BY ArgumentsAssumption
  <2>3. Fresh BY <1>5 DEF MakeRawAudio
  <2> QED BY <2>1, <2>2, <2>3, RawAudioMeans, MadeMeans
<1> QED BY <1>2, <1>3, <1>4, <1>5

LEMMA NextMeans ==
    InOrder(b) /\ Means(b, meant) /\ [Next]_vars => Means(b, meant)'
<1> SUFFICES ASSUME InOrder(b), Means(b, meant), [Next]_vars PROVE Means(b, meant)'
  OBVIOUS
<1>1. CASE UNCHANGED <<b, meant>> BY <1>1
<1> QED BY <1>1, CallMeans, MakeMeans DEF Next, vars, ReceiveProp, CutShort, Damage

\* A builder with nothing open says one body, its words.
LEMMA SaidIsWritten ==
    ASSUME NEW p, InOrder(p), p.stack = <<>>, NEW m, Says(p, m)
    PROVE  m = <<[Outermost EXCEPT !.body = p.words]>>
<1> DEFINE all == [Outermost EXCEPT !.body = p.words]
<1>1. p.words \in Seq(Int) /\ Len(p.words) \in Nat /\ Len(p.stack) = 0 BY Facts, EmptySeq
<1>2. m \in Seq(Meanings) /\ Len(m) = 1 BY <1>1 DEF Says
<1>3. m[1] \in Meanings /\ m[1].type = 0 /\ m[1].id = 0 BY <1>2 DEF Says
<1>4. m[1].body \in Seq(Int) BY <1>3 DEF Meanings
<1>5. BodyMeant(p, 1, m[1].body) BY <1>2 DEF Says
<1>6. m[1].body = p.words
  <2>1. /\ 0 + Len(m[1].body) = Len(p.words)
        /\ \A k \in 1 .. Len(m[1].body) : p.words[0 + k] = m[1].body[k]
    BY <1>1, <1>5 DEF BodyMeant, Start, Stop
  <2> DEFINE body == m[1].body
             words == p.words
  <2>2. body \in Seq(Int) /\ words \in Seq(Int) BY <1>1, <1>4
  <2>3. Len(body) = Len(words) /\ \A k \in 1 .. Len(body) : body[k] = words[k]
    BY <1>1, <1>4, <2>1
  <2> HIDE DEF body, words
  <2>4. body = words BY <2>2, <2>3, SeqEqual
  <2> QED BY <2>4 DEF body, words
<1>7. m[1] = all BY <1>3, <1>6 DEF Meanings, Outermost
<1>8. all \in Meanings BY <1>3, <1>7
<1> HIDE DEF all
<1>9. m = <<all>>
  <2> DEFINE one == <<all>>
  <2>1. one \in Seq(Meanings) /\ Len(one) = 1 /\ one[1] = all BY <1>8
  <2> HIDE DEF one
  <2>2. Len(m) = Len(one) /\ \A i \in 1 .. Len(m) : m[i] = one[i] BY <1>2, <1>7, <2>1
  <2>3. m = one BY <1>2, <2>1, <2>2, SeqEqual
  <2> QED BY <2>3 DEF one
<1> QED BY <1>9 DEF all

\* Whatever is called in whatever order, into whatever buffer: when Bytes
\* succeeds, the buffer holds exactly what the calls said, each object with the
\* size of its contents, and no call was lost.
THEOREM WritesWhatWasMeant == Spec => []BytesAsMeant
<1> DEFINE Inv == InOrder(b) /\ Means(b, meant)
<1>1. Init => Inv BY InitInOrder, InitMeans
<1>2. Inv /\ [Next]_vars => Inv' BY NextInOrder, NextMeans
<1>3. Inv => BytesAsMeant BY SaidIsWritten DEF BytesAsMeant, BytesOK, Means
<1> QED BY <1>1, <1>2, <1>3, PTL DEF Spec

=============================================================================
