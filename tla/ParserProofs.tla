---------------------------- MODULE ParserProofs ----------------------------
(***************************************************************************)
(* Theorems about the parser of Pods: it reads inside of whatever arrives, *)
(* and it gets out of a format what was said in it.                        *)
(***************************************************************************)
EXTENDS PodProofs

IsPod(pod) == pod.words \in Seq(Nat) /\ pod.len \in Nat

LEMMA AtNat ==
    ASSUME NEW pod, IsPod(pod), NEW off \in Nat PROVE At(pod, off) \in Nat
<1> DEFINE i == off \div 4
<1>1. i \in Nat OBVIOUS
<1> HIDE DEF i
<1>2. pod.words \in Seq(Nat) /\ Len(pod.words) \in Nat BY DEF IsPod
<1>3. CASE i < Len(pod.words)
  <2>1. i + 1 \in 1 .. Len(pod.words) BY <1>1, <1>2, <1>3
  <2>2. pod.words[i + 1] \in Nat BY <1>2, <2>1, ElementOfSeq
  <2> QED BY <1>3, <2>2 DEF At, i
<1>4. CASE ~(i < Len(pod.words)) BY <1>4 DEF At, i
<1> QED BY <1>3, <1>4

-----------------------------------------------------------------------------
(* The loop over the properties.  Every property is behind the one before, *)
(* so the recursion of Visited goes down in what is left of the pod.       *)

NextProp(pod, off) == Align8(off + 16 + At(pod, off + 8))

LEMMA NextBehind ==
    ASSUME NEW pod, IsPod(pod), NEW off \in Nat
    PROVE  NextProp(pod, off) \in Nat /\ NextProp(pod, off) > off
<1> DEFINE size == At(pod, off + 8)
<1>1. size \in Nat BY AtNat
<1> HIDE DEF size
<1>2. Align8(off + 16 + size) \in Nat /\ Align8(off + 16 + size) > off BY <1>1 DEF Align8
<1> QED BY <1>2 DEF NextProp, size

\* The offsets visited from off on, when f has those visited from later ones.
From(f, pod, off) ==
    IF off + 16 > PodEnd(pod) THEN {}
    ELSE {off} \cup IF Accepted(pod, off) /\ NextProp(pod, off) <= PodEnd(pod)
                    THEN f[NextProp(pod, off)] ELSE {}

Walk(f, k, pod) == f = [off \in k .. PodEnd(pod) |-> From(f, pod, off)]

LEMMA WalkExists ==
    ASSUME NEW pod, IsPod(pod), NEW end \in Nat, PodEnd(pod) = end
    PROVE  \E f : Walk(f, 0, pod)
<1> DEFINE S == {n \in Nat : n <= end => \E f : Walk(f, end - n, pod)}
<1>1. 0 \in S
  <2> DEFINE f == [off \in end .. end |-> {}]
  <2>1. \A off \in end .. end : From(f, pod, off) = {}
    <3>1. end + 16 > end /\ \A off \in end .. end : off = end OBVIOUS
    <3> QED BY <3>1 DEF From
  <2>2. f = [off \in end .. end |-> From(f, pod, off)]
    <3> QED BY <2>1, Zenon
  <2> HIDE DEF f
  <2>3. end - 0 = end OBVIOUS
  <2> QED BY <2>2, <2>3 DEF Walk
<1>2. ASSUME NEW n \in Nat, n \in S PROVE n + 1 \in S
  <2> SUFFICES ASSUME n + 1 <= end PROVE \E f : Walk(f, end - (n + 1), pod)
    OBVIOUS
  <2> DEFINE k == end - (n + 1)
  <2>1. k \in Nat /\ end - n = k + 1 /\ n <= end /\ k <= end OBVIOUS
  <2>2. PICK f : Walk(f, k + 1, pod) BY <1>2, <2>1
  <2> HIDE DEF k
  <2> DEFINE g == [off \in k .. end |-> IF off = k THEN From(f, pod, k) ELSE f[off]]
  <2>3. ASSUME NEW off \in k .. end PROVE g[off] = From(g, pod, off)
    <3>1. From(g, pod, off) = From(f, pod, off)
      <4> DEFINE next == NextProp(pod, off)
      <4>1. off \in Nat BY <2>1
      <4>2. next \in Nat /\ next > off BY <4>1, NextBehind
      <4>3. ASSUME next <= end PROVE g[next] = f[next]
        <5> HIDE DEF next
        <5>1. next \in k .. end /\ next # k BY <2>1, <4>1, <4>2, <4>3
        <5> QED BY <5>1
      <4> HIDE DEF g
      <4> QED BY <4>3 DEF From
    <3>2. CASE off = k BY <3>1, <3>2
    <3>3. CASE off # k
      <4>1. off \in k + 1 .. end BY <2>1, <3>3
      <4>2. f[off] = From(f, pod, off) BY <2>2, <4>1 DEF Walk
      <4> QED BY <3>1, <3>3, <4>2
    <3> QED BY <3>2, <3>3
  <2>4. Walk(g, k, pod)
    <3>1. g = [off \in k .. end |-> g[off]] OBVIOUS
    <3> HIDE DEF g
    <3> QED BY <2>3, <3>1 DEF Walk
  <2> HIDE DEF g
  <2> QED BY <2>4 DEF k
<1> HIDE DEF S
<1>3. end \in S BY <1>1, <1>2, SetInduction
<1> USE DEF S
<1>4. end <= end /\ end - end = 0 OBVIOUS
<1> QED BY <1>3, <1>4

LEMMA VisitedWalk ==
    ASSUME NEW pod, IsPod(pod), IsFormat(pod)
    PROVE  \E f : Walk(f, 0, pod) /\ Visited(pod) = f[16]
<1>1. PodEnd(pod) \in Nat /\ PodEnd(pod) >= 16 BY AtNat DEF IsFormat, PodEnd
<1> DEFINE f == CHOOSE f : Walk(f, 0, pod)
<1>2. Walk(f, 0, pod) BY <1>1, WalkExists
<1>3. Visited(pod) = f[16] BY <1>1, Zenon DEF Visited, Walk, From, NextProp
<1> QED BY <1>2, <1>3

\* The loop visits a property only if the header of one is left of the pod.
LEMMA VisitedInside ==
    ASSUME NEW pod, IsPod(pod), NEW off \in Visited(pod)
    PROVE  off \in Nat /\ off + 16 <= PodEnd(pod) /\ PodEnd(pod) <= pod.len
<1>1. IsFormat(pod) BY DEF Visited
<1>2. PodEnd(pod) \in Nat /\ PodEnd(pod) >= 16 /\ PodEnd(pod) <= pod.len
  BY <1>1, AtNat DEF IsFormat, PodEnd
<1>3. PICK f : Walk(f, 0, pod) /\ Visited(pod) = f[16] BY <1>1, VisitedWalk
<1> DEFINE end == PodEnd(pod)
           Inner(k) == \A o \in f[k] : o \in Nat /\ o + 16 <= end
           S == {n \in Nat : \A k \in 0 .. end : k + n >= end => Inner(k)}
<1>4. ASSUME NEW k \in 0 .. end,
             NextProp(pod, k) <= end => Inner(NextProp(pod, k))
      PROVE  Inner(k)
  <2>1. f[k] = From(f, pod, k) BY <1>3 DEF Walk
  <2> QED BY <1>2, <1>4, <2>1 DEF From
<1>5. ASSUME NEW k \in 0 .. end PROVE NextProp(pod, k) \in Nat /\ NextProp(pod, k) > k
  BY <1>2, NextBehind
<1> HIDE DEF Inner
<1>6. 0 \in S
  <2> SUFFICES ASSUME NEW k \in 0 .. end, k + 0 >= end PROVE Inner(k)
    OBVIOUS
  <2>1. ~(NextProp(pod, k) <= end) BY <1>2, <1>5
  <2> QED BY <1>4, <2>1
<1>7. ASSUME NEW n \in Nat, n \in S PROVE n + 1 \in S
  <2> SUFFICES ASSUME NEW k \in 0 .. end, k + (n + 1) >= end PROVE Inner(k)
    OBVIOUS
  <2>1. ASSUME NextProp(pod, k) <= end PROVE Inner(NextProp(pod, k))
    <3>1. NextProp(pod, k) \in 0 .. end /\ NextProp(pod, k) + n >= end BY <1>2, <1>5, <2>1
    <3> QED BY <1>7, <3>1
  <2> QED BY <1>4, <2>1
<1> HIDE DEF S
<1>8. end \in S BY <1>2, <1>6, <1>7, SetInduction
<1>9. Inner(16) BY <1>2, <1>8 DEF S
<1> QED BY <1>2, <1>3, <1>9 DEF Inner

-----------------------------------------------------------------------------
(* What is read of a property that is visited.                             *)

LEMMA HeadersFit ==
    ASSUME NEW end \in Int, NEW off \in Nat, NEW size \in Nat, off + 16 + size <= end
    PROVE  /\ size >= 16 => off + 32 <= end
           /\ \A inner, bytes \in Nat :
                 bytes <= inner =>
                    /\ size >= 16 /\ inner <= size - 16 => off + 32 + bytes <= end
                    /\ inner = size => off + 16 + bytes <= end
OBVIOUS

LEMMA ReadsOfProperty ==
    ASSUME NEW pod, IsPod(pod), NEW off \in Visited(pod), BodyFits(pod, off)
    PROVE  /\ ChoiceHeaderFits(pod, off) => off + 32 <= pod.len
           /\ Fixed(pod, off) /\ Matches(pod, off) =>
                ValueBody(pod, off) + CaseSize(At(pod, off), ValueType(pod, off)) <= pod.len
<1> DEFINE size == At(pod, off + 8)
           inner == At(pod, off + 24)
           bytes == CaseSize(At(pod, off), ValueType(pod, off))
<1>1. off \in Nat /\ PodEnd(pod) <= pod.len BY VisitedInside
<1>2. size \in Nat /\ inner \in Nat /\ PodEnd(pod) \in Nat
  BY <1>1, AtNat DEF PodEnd
<1>3. bytes \in Nat BY DEF CaseSize
<1>4. pod.len \in Nat BY DEF IsPod
<1> HIDE DEF size, inner, bytes
<1>5. off + 16 + size <= PodEnd(pod) BY DEF BodyFits, size
<1>6. off + 16 + size <= pod.len BY <1>1, <1>2, <1>4, <1>5
<1>7. ChoiceHeaderFits(pod, off) <=> size >= 16 BY DEF ChoiceHeaderFits, size
<1>8. ASSUME Fixed(pod, off), Matches(pod, off)
      PROVE  ValueBody(pod, off) + bytes <= pod.len
  <2>1. ValueSize(pod, off) >= bytes BY <1>8 DEF Matches, bytes
  <2>2. CASE IsChoice(pod, off)
    <3>1. size >= 16 /\ inner <= size - 16 BY <1>7, <1>8, <2>2 DEF Fixed, inner, size
    <3>2. bytes <= inner BY <1>2, <1>3, <2>1, <2>2 DEF ValueSize, inner
    <3>3. off + 32 + bytes <= pod.len
      BY <1>1, <1>2, <1>3, <1>4, <1>6, <3>1, <3>2, HeadersFit
    <3> QED BY <2>2, <3>3 DEF ValueBody
  <2>3. CASE ~IsChoice(pod, off)
    <3>1. bytes <= size BY <1>2, <1>3, <2>1, <2>3 DEF ValueSize, size
    <3>2. off + 16 + bytes <= pod.len
      BY <1>1, <1>2, <1>3, <1>4, <1>6, <3>1, HeadersFit
    <3> QED BY <2>3, <3>2 DEF ValueBody
  <2> QED BY <2>2, <2>3
<1>9. size >= 16 => off + 32 <= pod.len BY <1>1, <1>2, <1>4, <1>6, HeadersFit
<1> QED BY <1>7, <1>8, <1>9 DEF bytes

LEMMA ReadsInPod ==
    ASSUME NEW pod, IsPod(pod), NEW e \in ReadEnds(pod) PROVE e <= pod.len
<1>1. pod.len \in Nat BY DEF IsPod
<1>2. CASE pod.len >= 16 /\ e = 12 BY <1>1, <1>2
<1>3. CASE ~(pod.len >= 16 /\ e = 12)
  <2>1. PICK off \in Visited(pod) :
          \/ e = off + 16
          \/ BodyFits(pod, off) /\ ChoiceHeaderFits(pod, off) /\ e = off + 32
          \/ /\ BodyFits(pod, off) /\ Fixed(pod, off) /\ Matches(pod, off)
             /\ e = ValueBody(pod, off) + CaseSize(At(pod, off), ValueType(pod, off))
    BY <1>3, Zenon DEF ReadEnds
  <2>2. off \in Nat /\ off + 16 <= PodEnd(pod) /\ PodEnd(pod) <= pod.len BY VisitedInside
  <2>3. PodEnd(pod) \in Nat BY AtNat DEF PodEnd
  <2>4. CASE e = off + 16 BY <1>1, <2>2, <2>3, <2>4
  <2>5. CASE e # off + 16 BY <2>1, <2>5, ReadsOfProperty
  <2> QED BY <2>4, <2>5
<1> QED BY <1>2, <1>3

-----------------------------------------------------------------------------
(* What is received is a pod.                                              *)

\* The values of the properties that are received.
Sendable(kv) ==
    /\ kv.key \in Nat
    /\ kv.val.choice \in Nat \cup {Plain} /\ kv.val.type \in Nat \ {TypeChoice}
    /\ kv.val.size \in {4, 8} /\ kv.val.vals \in Seq(Nat)
    /\ kv.val.choice = Plain => Len(kv.val.vals) = 2
    /\ kv.val.choice = ChoiceNone => kv.val.size <= 4 * Len(kv.val.vals)

SendableProps(kvs) == Len(kvs) \in Nat /\ \A i \in 1 .. Len(kvs) : Sendable(kvs[i])

LEMMA ConcatNats ==
    ASSUME NEW v \in Seq(Nat), NEW w \in Seq(Nat) PROVE v \o w \in Seq(Nat)
BY ConcatProperties

LEMMA EncodedPropNats ==
    ASSUME NEW kv, Sendable(kv) PROVE EncodedProp(kv) \in Seq(Nat)
<1> DEFINE v == kv.val
           head == <<kv.key, 0>>
<1>1. /\ v.vals \in Seq(Nat) /\ v.size \in Nat /\ v.type \in Nat
      /\ v.choice \in Nat \cup {Plain} /\ Len(v.vals) \in Nat
  BY DEF Sendable
<1>2. head \in Seq(Nat) BY DEF Sendable
<1> HIDE DEF v, head
<1>3. Encoded(v) \in Seq(Nat)
  <2>1. CASE v.choice = Plain
    <3> DEFINE first == <<v.size, v.type>>
    <3>1. first \in Seq(Nat) BY <1>1
    <3> HIDE DEF first
    <3>2. first \o v.vals \in Seq(Nat) BY <1>1, <3>1, ConcatNats
    <3> QED BY <2>1, <3>2 DEF Encoded, first
  <2>2. CASE v.choice # Plain
    <3> DEFINE first == <<16 + Written(v.vals), TypeChoice, v.choice, 0, v.size, v.type>>
               enc == first \o v.vals
    <3>1. v.choice \in Nat BY <1>1, <2>2
    <3>2. first \in Seq(Nat) BY <1>1, <3>1 DEF Written, TypeChoice
    <3> HIDE DEF first
    <3>3. enc \in Seq(Nat) BY <1>1, <3>2, ConcatNats
    <3> HIDE DEF enc
    <3>4. Padded(enc) \in Seq(Nat)
      <4>1. <<0>> \in Seq(Nat) OBVIOUS
      <4>2. enc \o <<0>> \in Seq(Nat) BY <3>3, <4>1, ConcatNats
      <4> QED BY <3>3, <4>2 DEF Padded
    <3> QED BY <2>2, <3>4 DEF Encoded, first, enc
  <2> QED BY <2>1, <2>2
<1>4. head \o Encoded(v) \in Seq(Nat) BY <1>2, <1>3, ConcatNats
<1> QED BY <1>4 DEF EncodedProp, head, v

LEMMA UpToNats ==
    ASSUME NEW kvs, NEW n \in Nat, NEW f, UpTo(f, n, kvs),
           \A i \in 1 .. n : EncodedProp(kvs[i]) \in Seq(Nat)
    PROVE  \A i \in 0 .. n : f[i] \in Seq(Nat)
<1> DEFINE S == {i \in Nat : i <= n => f[i] \in Seq(Nat)}
<1>1. f[0] = <<>> /\ \A i \in 1 .. n : f[i] = f[i - 1] \o EncodedProp(kvs[i]) BY UpToStep
<1>2. 0 \in S BY <1>1, EmptySeq
<1>3. ASSUME NEW i \in Nat, i \in S PROVE i + 1 \in S
  <2> SUFFICES ASSUME i + 1 <= n PROVE f[i + 1] \in Seq(Nat)
    OBVIOUS
  <2>1. i + 1 \in 1 .. n /\ i <= n OBVIOUS
  <2>2. f[i + 1] = f[i] \o EncodedProp(kvs[i + 1])
    <3>1. PICK k \in 1 .. n : k = i + 1 BY <2>1
    <3>2. k - 1 = i BY <3>1
    <3> QED BY <1>1, <3>1, <3>2
  <2>3. f[i] \in Seq(Nat) BY <1>3, <2>1
  <2>4. EncodedProp(kvs[i + 1]) \in Seq(Nat) BY <2>1
  <2> QED BY <2>2, <2>3, <2>4, ConcatNats
<1> HIDE DEF S
<1>4. \A i \in Nat : i \in S BY <1>2, <1>3, SetInduction
<1> QED BY <1>4 DEF S

LEMMA FormatWords ==
    ASSUME NEW kvs, SendableProps(kvs), NEW id \in Nat
    PROVE  EncodedObject(TypeObjectFormat, id, EncodedProps(kvs)) \in Seq(Nat)
<1> DEFINE n == Len(kvs)
           body == EncodedProps(kvs)
           head == <<8 + Written(body), TypeObject, TypeObjectFormat, id>>
<1>1. n \in Nat /\ \A i \in 1 .. n : EncodedProp(kvs[i]) \in Seq(Nat)
  BY EncodedPropNats DEF SendableProps
<1>2. PICK f : UpTo(f, n, kvs) /\ body = f[n] BY <1>1, EncodedPropsUpTo
<1> HIDE DEF n, body
<1>3. body \in Seq(Nat)
  <2>1. n \in 0 .. n BY <1>1
  <2> QED BY <1>1, <1>2, <2>1, UpToNats
<1>4. head \in Seq(Nat) BY <1>3 DEF Written, TypeObject, TypeObjectFormat
<1> HIDE DEF head
<1>5. head \o body \in Seq(Nat) BY <1>3, <1>4, ConcatNats
<1> QED BY <1>5 DEF EncodedObject, head, body

LEMMA ReceivedPod ==
    ASSUME NEW kvs, SendableProps(kvs)
    PROVE  /\ IsPod(Received(kvs))
           /\ Received(kvs).words =
                EncodedObject(TypeObjectFormat, ParamFormat, EncodedProps(kvs))
           /\ Received(kvs).len = Written(Received(kvs).words)
<1> DEFINE words == EncodedObject(TypeObjectFormat, ParamFormat, EncodedProps(kvs))
<1>1. words \in Seq(Nat) BY FormatWords DEF ParamFormat
<1>2. Received(kvs) = [words |-> words, len |-> Written(words)] BY DEF Received
<1> HIDE DEF words
<1>3. Written(words) \in Nat BY <1>1 DEF Written
<1> QED BY <1>1, <1>2, <1>3 DEF IsPod, words

Extents == {n \in Nat : n <= 1048576}

\* The values of the properties the parser knows have their types.
Known(kv) ==
    /\ Sendable(kv)
    /\ kv.key \in {FormatKeyMediaType, FormatKeyMediaSubtype, FormatKeyVideoFormat} =>
         kv.val.type = TypeId /\ kv.val.size = 4
    /\ kv.key = FormatKeyVideoSize =>
         /\ kv.val.type = TypeRectangle /\ kv.val.size = 8
         /\ \A i \in 1 .. 2 : kv.val.vals[i] \in Extents

LEMMA FirstOfTwo ==
    ASSUME NEW x \in Nat, NEW y \in Nat
    PROVE  /\ SubSeq(<<x, y>>, 1, 1) \in Seq(Nat) /\ Len(SubSeq(<<x, y>>, 1, 1)) = 1
           /\ SubSeq(<<x, y>>, 1, 2) \in Seq(Nat) /\ Len(SubSeq(<<x, y>>, 1, 2)) = 2
           /\ SubSeq(<<x, y>>, 1, 2)[1] = x /\ SubSeq(<<x, y>>, 1, 2)[2] = y
<1> DEFINE two == <<x, y>>
<1>1. two \in Seq(Nat) /\ Len(two) = 2 /\ two[1] = x /\ two[2] = y OBVIOUS
<1> HIDE DEF two
<1>2. SubSeq(two, 1, 1) \in Seq(Nat) /\ Len(SubSeq(two, 1, 1)) = 1 BY <1>1, SubSeqProperties
<1>3. /\ SubSeq(two, 1, 2) \in Seq(Nat) /\ Len(SubSeq(two, 1, 2)) = 2
      /\ SubSeq(two, 1, 2)[1] = two[1] /\ SubSeq(two, 1, 2)[2] = two[2]
  BY <1>1, SubSeqProperties
<1> QED BY <1>1, <1>2, <1>3 DEF two

\* What makes a property known, from what its value has.
LEMMA KnownProp ==
    ASSUME NEW key \in Nat, NEW choice \in Nat \cup {Plain}, NEW type \in Nat \ {TypeChoice},
           NEW size \in {4, 8}, NEW vals \in Seq(Nat),
           choice = Plain => Len(vals) = 2,
           choice = ChoiceNone => size <= 4 * Len(vals),
           key \in {FormatKeyMediaType, FormatKeyMediaSubtype, FormatKeyVideoFormat} =>
             type = TypeId /\ size = 4,
           key = FormatKeyVideoSize =>
             /\ type = TypeRectangle /\ size = 8
             /\ vals[1] \in Extents /\ vals[2] \in Extents
    PROVE  Known([key |-> key, val |-> [choice |-> choice, type |-> type, size |-> size,
                                        vals |-> vals]])
<1> DEFINE v == [choice |-> choice, type |-> type, size |-> size, vals |-> vals]
           kv == [key |-> key, val |-> v]
<1>1. v.choice = choice /\ v.type = type /\ v.size = size /\ v.vals = vals OBVIOUS
<1> HIDE DEF v
<1>2. kv.key = key /\ kv.val = v OBVIOUS
<1> HIDE DEF kv
<1>3. Sendable(kv) BY <1>1, <1>2 DEF Sendable
<1>4. key = FormatKeyVideoSize => \A i \in 1 .. 2 : vals[i] \in Extents
  <2>1. \A i \in 1 .. 2 : i = 1 \/ i = 2 OBVIOUS
  <2> QED BY <2>1
<1>5. Known(kv) BY <1>1, <1>2, <1>3, <1>4, Zenon DEF Known
<1> QED BY <1>5 DEF kv, v

LEMMA KnownTypes ==
    /\ TypeId \in Nat \ {TypeChoice} /\ TypeRectangle \in Nat \ {TypeChoice}
    /\ TypeFraction \in Nat \ {TypeChoice}
    /\ ChoiceNone \in Nat /\ ChoiceEnum \in Nat
    /\ ChoiceNone # Plain /\ ChoiceEnum # Plain /\ ChoiceEnum # ChoiceNone
BY SMT DEF TypeId, TypeRectangle, TypeFraction, TypeChoice, ChoiceNone, ChoiceEnum, Plain

\* A value by itself, and the choice of that one value.
LEMMA KnownId ==
    ASSUME NEW key \in Nat, key # FormatKeyVideoSize, NEW x \in Nat
    PROVE  Known([key |-> key, val |-> Id(x)]) /\ Known([key |-> key, val |-> None(Id(x))])
<1> DEFINE two == <<x, 0>>
           first == SubSeq(two, 1, 1)
<1>1. two \in Seq(Nat) /\ Len(two) = 2 OBVIOUS
<1>2. first \in Seq(Nat) /\ Len(first) = 1 BY FirstOfTwo
<1>3. Id(x) = [choice |-> Plain, type |-> TypeId, size |-> 4, vals |-> two] BY DEF Id
<1>4. None(Id(x)) = [choice |-> ChoiceNone, type |-> TypeId, size |-> 4, vals |-> first]
  <2>1. 4 \div 4 = 1 OBVIOUS
  <2> HIDE DEF two
  <2> QED BY <1>3, <2>1 DEF None
<1> HIDE DEF first, two
<1>5. Plain # ChoiceNone /\ 4 <= 4 * 1 BY KnownTypes
<1>6. Known([key |-> key, val |-> Id(x)]) BY <1>1, <1>3, <1>5, KnownProp, KnownTypes
<1>7. Known([key |-> key, val |-> None(Id(x))]) BY <1>2, <1>4, <1>5, KnownProp, KnownTypes
<1> QED BY <1>6, <1>7

LEMMA KnownRectangle ==
    ASSUME NEW x \in Extents, NEW y \in Extents
    PROVE  /\ Known([key |-> FormatKeyVideoSize, val |-> Rectangle(x, y)])
           /\ Known([key |-> FormatKeyVideoSize, val |-> None(Rectangle(x, y))])
<1> DEFINE two == <<x, y>>
           copy == SubSeq(two, 1, 2)
<1>1. x \in Nat /\ y \in Nat BY SMT DEF Extents
<1>2. /\ two \in Seq(Nat) /\ Len(two) = 2
      /\ two[1] \in Extents /\ two[2] \in Extents
  BY <1>1
<1>3. FormatKeyVideoSize \in Nat
      /\ FormatKeyVideoSize \notin
           {FormatKeyMediaType, FormatKeyMediaSubtype, FormatKeyVideoFormat}
  BY SMT DEF FormatKeyMediaType, FormatKeyMediaSubtype, FormatKeyVideoFormat,
     FormatKeyVideoSize
<1>4. Rectangle(x, y) = [choice |-> Plain, type |-> TypeRectangle, size |-> 8, vals |-> two]
  BY DEF Rectangle
<1>5. /\ copy \in Seq(Nat) /\ Len(copy) = 2
      /\ copy[1] \in Extents /\ copy[2] \in Extents
  BY <1>1, FirstOfTwo
<1>6. None(Rectangle(x, y)) =
        [choice |-> ChoiceNone, type |-> TypeRectangle, size |-> 8, vals |-> copy]
  <2>1. 8 \div 4 = 2 OBVIOUS
  <2> HIDE DEF two
  <2> QED BY <1>4, <2>1 DEF None
<1> HIDE DEF copy, two
<1>7. Plain # ChoiceNone /\ 8 <= 4 * 2 BY KnownTypes
<1>8. Known([key |-> FormatKeyVideoSize, val |-> Rectangle(x, y)])
  BY <1>2, <1>3, <1>4, <1>7, KnownProp, KnownTypes
<1>9. Known([key |-> FormatKeyVideoSize, val |-> None(Rectangle(x, y))])
  BY <1>3, <1>5, <1>6, <1>7, KnownProp, KnownTypes
<1> QED BY <1>8, <1>9

LEMMA SentKnown ==
    \A kv \in SentProps : Known(kv)
<1>1. /\ FormatKeyMediaType \in Nat /\ FormatKeyMediaType # FormatKeyVideoSize
      /\ FormatKeyMediaSubtype \in Nat /\ FormatKeyMediaSubtype # FormatKeyVideoSize
      /\ FormatKeyVideoFormat \in Nat /\ FormatKeyVideoFormat # FormatKeyVideoSize
  BY SMT DEF FormatKeyMediaType, FormatKeyMediaSubtype, FormatKeyVideoFormat,
     FormatKeyVideoSize
<1>2. \A v \in {None(Id(MediaTypeVideo)), Id(MediaTypeVideo), Id(MediaTypeAudio)} :
        Known([key |-> FormatKeyMediaType, val |-> v])
  <2>1. MediaTypeVideo \in Nat /\ MediaTypeAudio \in Nat BY DEF MediaTypeVideo, MediaTypeAudio
  <2> QED BY <1>1, <2>1, KnownId
<1>3. Known([key |-> FormatKeyMediaSubtype, val |-> None(Id(1))]) BY <1>1, KnownId
<1>4. \A v \in {None(Id(8)), Id(12)} : Known([key |-> FormatKeyVideoFormat, val |-> v])
  BY <1>1, KnownId
<1>5. Known([key |-> FormatKeyVideoFormat, val |-> ChoiceEnumId(<<8, 12>>)])
  <2>1. <<8, 12>> \in Seq(Nat) OBVIOUS
  <2>2. ChoiceEnumId(<<8, 12>>) =
          [choice |-> ChoiceEnum, type |-> TypeId, size |-> 4, vals |-> <<8, 12>>]
    BY DEF ChoiceEnumId
  <2> QED BY <1>1, <2>1, <2>2, KnownProp, KnownTypes
<1>6. \A v \in {None(Rectangle(3, 2)), Rectangle(2, 0)} :
        Known([key |-> FormatKeyVideoSize, val |-> v])
  <2>1. 0 \in Extents /\ 2 \in Extents /\ 3 \in Extents BY SMT DEF Extents
  <2> QED BY <2>1, KnownRectangle
<1> DEFINE rates == ChoiceRangeFraction(<<60, 1>>, <<1, 1>>, <<60, 1>>)
           rate == [rates EXCEPT !.choice = ChoiceNone]
<1>7. Known([key |-> FormatKeyVideoMaxRate, val |-> rate])
  <2> DEFINE vals == <<60, 1>> \o <<1, 1>> \o <<60, 1>>
  <2>1. vals \in Seq(Nat) /\ Len(vals) = 6
    <3>1. \A v, w \in Seq(Nat) : v \o w \in Seq(Nat) /\ Len(v \o w) = Len(v) + Len(w)
      BY ConcatProperties
    <3>2. <<60, 1>> \in Seq(Nat) /\ <<1, 1>> \in Seq(Nat) OBVIOUS
    <3>3. Len(<<60, 1>>) = 2 /\ Len(<<1, 1>>) = 2 OBVIOUS
    <3> QED BY <3>1, <3>2, <3>3
  <2> HIDE DEF vals
  <2>2. rate = [choice |-> ChoiceNone, type |-> TypeFraction, size |-> 8, vals |-> vals]
    BY DEF ChoiceRangeFraction, vals
  <2>3. /\ FormatKeyVideoMaxRate \in Nat /\ FormatKeyVideoMaxRate # FormatKeyVideoSize
        /\ FormatKeyVideoMaxRate \notin
             {FormatKeyMediaType, FormatKeyMediaSubtype, FormatKeyVideoFormat}
    BY SMT DEF FormatKeyMediaType, FormatKeyMediaSubtype, FormatKeyVideoFormat,
       FormatKeyVideoSize, FormatKeyVideoMaxRate
  <2> HIDE DEF rate
  <2>4. 8 <= 4 * Len(vals) BY <2>1
  <2> QED BY <2>1, <2>2, <2>3, <2>4, KnownProp, KnownTypes
<1> QED BY <1>2, <1>3, <1>4, <1>5, <1>6, <1>7 DEF SentProps

-----------------------------------------------------------------------------
(* The pod of the specification: as it was sent, cut short, or damaged.    *)

Arrived ==
    /\ said \in Seq(SentProps) /\ IsPod(param)
    /\ intact => param = IF said = <<>> THEN [words |-> <<>>, len |-> 0] ELSE Received(said)
    /\ param.len < Written(param.words) => param.words = Received(said).words

LEMMA SentSeq ==
    ASSUME NEW kvs \in Seq(SentProps)
    PROVE  SendableProps(kvs) /\ \A i \in 1 .. Len(kvs) : Known(kvs[i])
<1>1. Len(kvs) \in Nat /\ \A i \in 1 .. Len(kvs) : kvs[i] \in SentProps BY ElementOfSeq
<1>2. \A i \in 1 .. Len(kvs) : Known(kvs[i]) BY <1>1, SentKnown
<1> QED BY <1>1, <1>2 DEF SendableProps, Known

LEMMA InitArrived == Init => Arrived
<1> SUFFICES ASSUME Init PROVE Arrived
  OBVIOUS
<1> DEFINE nothing == [words |-> <<>>, len |-> 0]
<1>1. param = nothing /\ said = <<>> BY DEF Init
<1>2. /\ said \in Seq(SentProps) /\ nothing.words \in Seq(Nat)
      /\ Len(nothing.words) = 0 /\ nothing.len = 0
  BY <1>1, EmptySeq
<1> QED BY <1>1, <1>2 DEF Arrived, IsPod, Written

LEMMA ReceiveArrived == ASSUME Arrived, ReceiveProp PROVE Arrived'
<1>1. PICK kv \in SentProps : said' = Append(said, kv) BY DEF ReceiveProp
<1>2. said \in Seq(SentProps) BY DEF Arrived
<1>3. said' \in Seq(SentProps) /\ said' # <<>>
  <2>1. said' \in Seq(SentProps) /\ Len(said') = Len(said) + 1 BY <1>1, <1>2, AppendProperties
  <2>2. Len(said) \in Nat BY <1>2
  <2> QED BY <2>1, <2>2, EmptySeq
<1>4. param' = Received(said') BY DEF ReceiveProp
<1>5. IsPod(Received(said')) /\ Received(said').len = Written(Received(said').words)
  BY <1>3, SentSeq, ReceivedPod
<1>6. ~(param'.len < Written(param'.words)) BY <1>4, <1>5 DEF IsPod
<1> QED BY <1>3, <1>4, <1>5, <1>6 DEF Arrived

LEMMA CutArrived == ASSUME Arrived, CutShort PROVE Arrived'
<1>1. PICK len \in 1 .. param.len - 1 : param' = [param EXCEPT !.len = len] BY DEF CutShort
<1>2. /\ intact /\ param.len > 0 /\ ~intact' /\ said' = said BY DEF CutShort
<1>3. said # <<>> /\ param = Received(said) BY <1>2 DEF Arrived
<1>4. param'.words = param.words /\ param'.len = len BY <1>1, <1>3 DEF Received
<1>5. len \in Nat BY DEF Arrived, IsPod
<1>6. IsPod(param') BY <1>4, <1>5 DEF Arrived, IsPod
<1> QED BY <1>2, <1>3, <1>4, <1>6 DEF Arrived

LEMMA DamageArrived == ASSUME Arrived, Damage PROVE Arrived'
<1>1. PICK i \in DOMAIN param.words, v \in {0, 4, 8, 15, 16, 24, TypeChoice} :
        param' = [param EXCEPT !.words[i] = v]
  BY DEF Damage
<1>2. /\ intact /\ param.len > 0 /\ ~intact' /\ said' = said BY DEF Damage
<1>3. said # <<>> /\ param = Received(said) BY <1>2 DEF Arrived
<1>4. param.words \in Seq(Nat) /\ param.len = Written(param.words) /\ param.len \in Nat
  BY <1>2, <1>3, SentSeq, ReceivedPod DEF Arrived, IsPod
<1> DEFINE words == [param.words EXCEPT ![i] = v]
<1>5. words \in Seq(Nat) /\ Len(words) = Len(param.words)
  <2>1. v \in Nat BY DEF TypeChoice
  <2>2. i \in 1 .. Len(param.words) BY <1>4
  <2> QED BY <1>4, <2>1, <2>2, ExceptSeq
<1> HIDE DEF words
<1>6. param'.words = words /\ param'.len = param.len BY <1>1, <1>3 DEF Received, words
<1>7. ~(param'.len < Written(param'.words)) BY <1>4, <1>5, <1>6 DEF Written
<1> QED BY <1>2, <1>4, <1>5, <1>6, <1>7 DEF Arrived, IsPod

LEMMA NextArrived == Arrived /\ [Next]_vars => Arrived'
<1> SUFFICES ASSUME Arrived, [Next]_vars PROVE Arrived'
  OBVIOUS
<1>1. CASE UNCHANGED <<param, said, intact>> BY <1>1 DEF Arrived
<1>2. CASE ReceiveProp BY <1>2, ReceiveArrived
<1>3. CASE CutShort BY <1>3, CutArrived
<1>4. CASE Damage BY <1>4, DamageArrived
<1> QED BY <1>1, <1>2, <1>3, <1>4 DEF Next, vars, CallObject, CallProp, CallEnd, CallValue,
        MakeEnumFormat, MakeBuffers, MakeMeta, MakeRawAudio, Made, Called

\* Whatever arrives, whole, cut short or damaged, the parser reads inside of it.
THEOREM ReadsNothingOutside == Spec => []ReadsInside
<1>1. Arrived => ReadsInside BY ReadsInPod DEF Arrived, ReadsInside
<1> QED BY <1>1, InitArrived, NextArrived, PTL DEF Spec

-----------------------------------------------------------------------------
(* Where the properties of a pod are.                                      *)

\* The words of one property: its key, its size and type, and its value.
Padding(n) == n % 2

LEMMA PlainWords ==
    ASSUME NEW kv, Sendable(kv), kv.val.choice = Plain, NEW e, e = EncodedProp(kv)
    PROVE  /\ e \in Seq(Nat) /\ Len(e) = 6
           /\ e[1] = kv.key /\ e[3] = kv.val.size /\ e[4] = kv.val.type
           /\ e[5] = kv.val.vals[1] /\ e[6] = kv.val.vals[2]
<1> DEFINE v == kv.val
           head == <<kv.key, 0>>
           first == <<v.size, v.type>>
           enc == first \o v.vals
<1>1. v.vals \in Seq(Int) /\ Len(v.vals) = 2 /\ v.size \in Int /\ v.type \in Int /\ kv.key \in Int
  BY DEF Sendable
<1>2. enc = Encoded(v) BY DEF Encoded
<1>3. head \in Seq(Int) /\ Len(head) = 2 /\ head[1] = kv.key BY <1>1
<1>4. first \in Seq(Int) /\ Len(first) = 2 /\ first[1] = v.size /\ first[2] = v.type BY <1>1
<1> HIDE DEF head, first, v
<1>5. /\ enc \in Seq(Int) /\ Len(enc) = Len(first) + Len(v.vals)
      /\ \A k \in 1 .. Len(first) : enc[k] = first[k]
      /\ \A k \in 1 .. Len(v.vals) : enc[Len(first) + k] = v.vals[k]
  BY <1>1, <1>4, ConcatElements
<1> HIDE DEF enc
<1>6. 1 \in 1 .. 2 /\ 2 \in 1 .. 2 /\ 2 + 1 = 3 /\ 2 + 2 = 4 OBVIOUS
<1>7. /\ enc \in Seq(Int) /\ Len(enc) = 4 /\ enc[1] = v.size /\ enc[2] = v.type
      /\ enc[3] = v.vals[1] /\ enc[4] = v.vals[2]
  BY <1>1, <1>4, <1>5, <1>6, Zenon
<1>8. /\ head \o enc \in Seq(Int) /\ Len(head \o enc) = Len(head) + Len(enc)
      /\ \A k \in 1 .. Len(head) : (head \o enc)[k] = head[k]
      /\ \A k \in 1 .. Len(enc) : (head \o enc)[Len(head) + k] = enc[k]
  BY <1>3, <1>7, ConcatElements
<1>9. e = head \o enc BY <1>2 DEF EncodedProp, head, v
<1>10. /\ Len(e) = 2 + 4 /\ e[1] = head[1]
       /\ \A k \in 1 .. 4 : e[2 + k] = enc[k]
  BY <1>3, <1>6, <1>7, <1>8, <1>9, Zenon
<1>11. /\ 1 \in 1 .. 4 /\ 2 \in 1 .. 4 /\ 3 \in 1 .. 4 /\ 4 \in 1 .. 4
       /\ 2 + 1 = 3 /\ 2 + 2 = 4 /\ 2 + 3 = 5 /\ 2 + 4 = 6
  OBVIOUS
<1>12. e[3] = enc[1] /\ e[4] = enc[2] /\ e[5] = enc[3] /\ e[6] = enc[4] /\ Len(e) = 6
  BY <1>10, <1>11, Zenon
<1>13. e \in Seq(Nat) BY EncodedPropNats
<1> QED BY <1>3, <1>7, <1>10, <1>12, <1>13 DEF v

LEMMA ModTwo ==
    ASSUME NEW n \in Nat
    PROVE  (6 + n) % 2 = n % 2 /\ (n % 2 = 0 \/ n % 2 = 1) /\ Padding(n) \in {0, 1}
BY DEF Padding

WordsOfChoice(kv, e, n) ==
    /\ e \in Seq(Nat) /\ n \in Nat /\ Len(e) = 8 + n + Padding(n)
    /\ e[1] = kv.key /\ e[3] = 16 + 4 * n /\ e[4] = TypeChoice
    /\ e[5] = kv.val.choice /\ e[7] = kv.val.size /\ e[8] = kv.val.type
    /\ \A k \in 1 .. n : e[8 + k] = kv.val.vals[k]

LEMMA ChoicePropWords ==
    ASSUME NEW kv, Sendable(kv), kv.val.choice # Plain
    PROVE  WordsOfChoice(kv, EncodedProp(kv), Len(kv.val.vals))
<1> DEFINE e == EncodedProp(kv)
           n == Len(kv.val.vals)
<1>16. e = EncodedProp(kv) /\ n = Len(kv.val.vals) OBVIOUS
<1> HIDE DEF e, n
<1> DEFINE v == kv.val
           head == <<kv.key, 0>>
           size == 16 + Written(v.vals)
           first == <<size, TypeChoice, v.choice, 0, v.size, v.type>>
           enc == first \o v.vals
           all == head \o Padded(enc)
<1>1. /\ v.vals \in Seq(Int) /\ v.size \in Int /\ v.type \in Int /\ v.choice \in Int
      /\ kv.key \in Int /\ n \in Nat /\ Len(v.vals) = n
  BY <1>16 DEF Sendable, Plain
<1>2. Encoded(v) = Padded(enc) BY DEF Encoded
<1>3. size = 16 + 4 * n /\ size \in Int BY <1>1 DEF Written
<1> HIDE DEF size
<1>4. head \in Seq(Int) /\ Len(head) = 2 /\ head[1] = kv.key BY <1>1
<1>5. /\ first \in Seq(Int) /\ Len(first) = 6 /\ first[1] = size /\ first[2] = TypeChoice
      /\ first[3] = v.choice /\ first[5] = v.size /\ first[6] = v.type
  BY <1>1, <1>3 DEF TypeChoice
<1> HIDE DEF head, first, v
<1>6. /\ enc \in Seq(Int) /\ Len(enc) = Len(first) + Len(v.vals)
      /\ \A k \in 1 .. Len(first) : enc[k] = first[k]
      /\ \A k \in 1 .. Len(v.vals) : enc[Len(first) + k] = v.vals[k]
  BY <1>1, <1>5, ConcatElements
<1> HIDE DEF enc
<1>7. /\ enc \in Seq(Int) /\ Len(enc) = 6 + n
      /\ \A k \in 1 .. 6 : enc[k] = first[k]
      /\ \A k \in 1 .. n : enc[6 + k] = v.vals[k]
  BY <1>1, <1>5, <1>6, Zenon
<1>8. /\ Padded(enc) \in Seq(Int) /\ Len(Padded(enc)) = 6 + n + Padding(n)
      /\ \A k \in 1 .. 6 + n : Padded(enc)[k] = enc[k]
  <2>1. (6 + n) % 2 = n % 2 /\ (n % 2 = 0 \/ n % 2 = 1) BY <1>1, ModTwo
  <2>2. CASE Len(enc) % 2 = 0
    <3>1. n % 2 = 0 BY <1>7, <2>1, <2>2
    <3>2. 6 + n + 0 = 6 + n BY <1>1
    <3> QED BY <1>7, <2>2, <3>1, <3>2 DEF Padded, Padding
  <2>3. CASE Len(enc) % 2 # 0
    <3>1. n % 2 = 1 BY <1>7, <2>1, <2>3
    <3> DEFINE zero == <<0>>
    <3>2. zero \in Seq(Int) /\ Len(zero) = 1 OBVIOUS
    <3> HIDE DEF zero
    <3>3. /\ enc \o zero \in Seq(Int) /\ Len(enc \o zero) = Len(enc) + Len(zero)
          /\ \A k \in 1 .. Len(enc) : (enc \o zero)[k] = enc[k]
      BY <1>7, <3>2, ConcatElements
    <3>4. Padded(enc) = enc \o zero BY <2>3 DEF Padded, zero
    <3> QED BY <1>7, <3>1, <3>2, <3>3, <3>4 DEF Padding
  <2> QED BY <2>2, <2>3
<1>9. /\ Padded(enc) \in Seq(Int) /\ Padding(n) \in Nat
      /\ Len(all) = 2 + Len(Padded(enc)) /\ all[1] = head[1]
      /\ \A k \in 1 .. Len(Padded(enc)) : all[2 + k] = Padded(enc)[k]
  <2>1. 1 \in 1 .. 2 OBVIOUS
  <2>2. /\ Len(all) = Len(head) + Len(Padded(enc))
        /\ \A k \in 1 .. Len(head) : all[k] = head[k]
        /\ \A k \in 1 .. Len(Padded(enc)) : all[Len(head) + k] = Padded(enc)[k]
    BY <1>4, <1>8, ConcatElements
  <2> HIDE DEF all
  <2>3. Padding(n) \in {0, 1} BY <1>1, ModTwo, Zenon
  <2>4. Padding(n) \in Nat BY <2>3
  <2> QED BY <1>4, <1>8, <2>1, <2>2, <2>4, Zenon
<1>10. e = all BY <1>2, <1>16 DEF EncodedProp, head, v
<1> HIDE DEF all
<1>11. \A k \in 1 .. 6 + n : all[2 + k] = enc[k]
  <2> SUFFICES ASSUME NEW k \in 1 .. 6 + n PROVE all[2 + k] = enc[k]
    OBVIOUS
  <2>1. k \in 1 .. 6 + n + Padding(n) BY <1>1, <1>9
  <2> QED BY <1>8, <1>9, <2>1, Zenon
<1>12. /\ all[3] = first[1] /\ all[4] = first[2] /\ all[5] = first[3]
       /\ all[7] = first[5] /\ all[8] = first[6]
  <2>1. \A k \in 1 .. 6 : k \in 1 .. 6 + n BY <1>1
  <2>2. \A k \in 1 .. 6 : all[2 + k] = first[k] BY <1>7, <1>11, <2>1, Zenon
  <2>3. /\ 1 \in 1 .. 6 /\ 2 \in 1 .. 6 /\ 3 \in 1 .. 6 /\ 5 \in 1 .. 6 /\ 6 \in 1 .. 6
        /\ 2 + 1 = 3 /\ 2 + 2 = 4 /\ 2 + 3 = 5 /\ 2 + 5 = 7 /\ 2 + 6 = 8
    OBVIOUS
  <2> QED BY <2>2, <2>3, Zenon
<1>13. \A k \in 1 .. n : all[8 + k] = v.vals[k]
  <2> SUFFICES ASSUME NEW k \in 1 .. n PROVE all[8 + k] = v.vals[k]
    OBVIOUS
  <2>1. 6 + k \in 1 .. 6 + n /\ 2 + (6 + k) = 8 + k BY <1>1
  <2> QED BY <1>7, <1>11, <2>1, Zenon
<1>14. Len(all) = 8 + n + Padding(n) BY <1>1, <1>8, <1>9
<1>15. e \in Seq(Nat) BY <1>16, EncodedPropNats
<1>17. WordsOfChoice(kv, e, n)
  BY <1>1, <1>3, <1>4, <1>5, <1>9, <1>10, <1>12, <1>13, <1>14, <1>15 DEF WordsOfChoice, v
<1> QED BY <1>16, <1>17

LEMMA NatsAreInts == ASSUME NEW s \in Seq(Nat) PROVE s \in Seq(Int) /\ Len(s) \in Nat
OBVIOUS

\* What is encoded of the first properties stays where it is.
Starts(u, v) == Len(u) <= Len(v) /\ \A k \in 1 .. Len(u) : v[k] = u[k]

LEMMA StartsSelf == ASSUME NEW u \in Seq(Nat) PROVE Starts(u, u)
<1>1. Len(u) \in Nat OBVIOUS
<1> QED BY <1>1 DEF Starts

LEMMA StartsLonger ==
    ASSUME NEW u \in Seq(Nat), NEW v \in Seq(Nat), NEW e \in Seq(Nat), Starts(u, v)
    PROVE  Starts(u, v \o e)
<1>1. Len(u) \in Nat /\ Len(v) \in Nat /\ Len(e) \in Nat OBVIOUS
<1>2. /\ Len(v \o e) = Len(v) + Len(e) /\ \A k \in 1 .. Len(v) : (v \o e)[k] = v[k]
  BY NatsAreInts, ConcatElements
<1> DEFINE ve == v \o e
<1> HIDE DEF ve
<1>3. Len(u) <= Len(v) /\ \A k \in 1 .. Len(u) : v[k] = u[k] BY DEF Starts
<1>4. Len(ve) = Len(v) + Len(e) /\ \A k \in 1 .. Len(v) : ve[k] = v[k] BY <1>2 DEF ve
<1>5. ASSUME NEW k \in 1 .. Len(u) PROVE ve[k] = u[k]
  <2>1. k \in 1 .. Len(v) BY <1>1, <1>3
  <2> QED BY <1>3, <1>4, <2>1
<1>6. Starts(u, ve) BY <1>1, <1>3, <1>4, <1>5 DEF Starts
<1> QED BY <1>6 DEF ve

LEMMA UpToStarts ==
    ASSUME NEW kvs, NEW n \in Nat, NEW f, UpTo(f, n, kvs),
           \A i \in 1 .. n : EncodedProp(kvs[i]) \in Seq(Nat)
    PROVE  \A j \in 0 .. n : \A i \in 0 .. j : Starts(f[i], f[j])
<1> DEFINE S == {j \in Nat : j <= n => \A i \in 0 .. j : Starts(f[i], f[j])}
<1>1. \A i \in 1 .. n : f[i] = f[i - 1] \o EncodedProp(kvs[i]) BY UpToStep
<1>2. \A i \in 0 .. n : f[i] \in Seq(Nat) BY UpToNats
<1>3. 0 \in S
  <2>1. 0 \in 0 .. n /\ \A i \in 0 .. 0 : i = 0 OBVIOUS
  <2> QED BY <1>2, <2>1, StartsSelf
<1>4. ASSUME NEW j \in Nat, j \in S PROVE j + 1 \in S
  <2> SUFFICES ASSUME j + 1 <= n, NEW i \in 0 .. j + 1 PROVE Starts(f[i], f[j + 1])
    OBVIOUS
  <2>1. PICK k \in 1 .. n : k = j + 1 OBVIOUS
  <2>2. k - 1 = j /\ j \in 0 .. n /\ k \in 0 .. n /\ i \in 0 .. n BY <2>1
  <2>3. f[k] = f[j] \o EncodedProp(kvs[k]) BY <1>1, <2>2
  <2>4. CASE i = k BY <1>2, <2>1, <2>2, <2>4, StartsSelf
  <2>5. CASE i # k
    <3>1. i \in 0 .. j /\ j <= n BY <2>1, <2>2, <2>5
    <3>2. Starts(f[i], f[j]) BY <1>4, <3>1
    <3>3. EncodedProp(kvs[k]) \in Seq(Nat) OBVIOUS
    <3> QED BY <1>2, <2>1, <2>2, <2>3, <3>2, <3>3, StartsLonger
  <2> QED BY <2>4, <2>5
<1> HIDE DEF S
<1>5. \A j \in Nat : j \in S BY <1>3, <1>4, SetInduction
<1> QED BY <1>5 DEF S

\* The words e of property i inside of the body of the pod.
PropNats(kvs, n) == \A i \in 1 .. n : EncodedProp(kvs[i]) \in Seq(Nat)
InBody(f, n, i, e) ==
    /\ f[i - 1] \in Seq(Nat) /\ f[i] \in Seq(Nat) /\ f[n] \in Seq(Nat)
    /\ Len(f[i]) = Len(f[i - 1]) + Len(e) /\ Len(f[i]) <= Len(f[n])
    /\ \A k \in 1 .. Len(e) : f[n][Len(f[i - 1]) + k] = e[k]

LEMMA PropInBody ==
    ASSUME NEW kvs, NEW n \in Nat, NEW f, UpTo(f, n, kvs), PropNats(kvs, n)
    PROVE  \A i \in 1 .. n : InBody(f, n, i, EncodedProp(kvs[i]))
<1> SUFFICES ASSUME NEW i \in 1 .. n PROVE InBody(f, n, i, EncodedProp(kvs[i]))
  OBVIOUS
<1> DEFINE e == EncodedProp(kvs[i])
<1>0. \A k \in 1 .. n : EncodedProp(kvs[k]) \in Seq(Nat) BY DEF PropNats
<1>1. \A j \in 1 .. n : f[j] = f[j - 1] \o EncodedProp(kvs[j]) BY UpToStep
<1>2. i - 1 \in 0 .. n /\ i \in 0 .. n /\ n \in 0 .. n OBVIOUS
<1>3. f[i - 1] \in Seq(Nat) /\ f[i] \in Seq(Nat) /\ f[n] \in Seq(Nat) BY <1>0, <1>2, UpToNats
<1>4. Starts(f[i], f[n])
  <2>1. \A j \in 0 .. n : \A k \in 0 .. j : Starts(f[k], f[j]) BY <1>0, UpToStarts
  <2> QED BY <1>2, <2>1
<1> DEFINE u == f[i - 1]
           v == f[i]
           w == f[n]
<1>5. e \in Seq(Nat) /\ v = u \o e BY <1>0, <1>1
<1> HIDE DEF e, u, v, w
<1>6. /\ Len(u) \in Nat /\ Len(e) \in Nat /\ Len(v) = Len(u) + Len(e)
      /\ \A k \in 1 .. Len(e) : v[Len(u) + k] = e[k]
  <2>1. u \in Seq(Int) /\ e \in Seq(Int) BY <1>3, <1>5, NatsAreInts DEF u
  <2>2. /\ Len(u) \in Nat /\ Len(e) \in Nat /\ Len(u \o e) = Len(u) + Len(e)
        /\ \A k \in 1 .. Len(e) : (u \o e)[Len(u) + k] = e[k]
    BY <2>1, ConcatElements
  <2> QED BY <1>5, <2>2, Zenon
<1>7. Len(v) <= Len(w) /\ \A k \in 1 .. Len(v) : w[k] = v[k] BY <1>4 DEF Starts, v, w
<1>8. ASSUME NEW k \in 1 .. Len(e) PROVE w[Len(u) + k] = e[k]
  <2>1. Len(u) + k \in 1 .. Len(v) BY <1>6
  <2> QED BY <1>6, <1>7, <2>1
<1> QED BY <1>3, <1>6, <1>7, <1>8 DEF InBody, e, u, v, w

-----------------------------------------------------------------------------
(* A whole format, which holds the properties kvs.                         *)

Whole(pod, kvs, n, f) ==
    /\ IsPod(pod) /\ SendableProps(kvs) /\ n = Len(kvs) /\ UpTo(f, n, kvs)
    /\ \E id \in Nat : pod.words = EncodedObject(TypeObjectFormat, id, f[n])
    /\ pod.len = Written(pod.words)

\* The place of the property after the first i.
Place(f, i) == 16 + 4 * Len(f[i])

LEMMA AtWord ==
    ASSUME NEW pod, IsPod(pod), NEW i \in Nat, i < Len(pod.words)
    PROVE  At(pod, 4 * i) = pod.words[i + 1]
<1>1. (4 * i) \div 4 = i OBVIOUS
<1> QED BY <1>1 DEF At

LEMMA WholePod ==
    ASSUME NEW pod, NEW kvs, NEW n, NEW f, Whole(pod, kvs, n, f)
    PROVE  /\ n \in Nat /\ UpTo(f, n, kvs)
           /\ \A i \in 1 .. n : Sendable(kvs[i]) /\ EncodedProp(kvs[i]) \in Seq(Nat)
           /\ f[n] \in Seq(Nat) /\ IsFormat(pod)
           /\ PodEnd(pod) = Place(f, n) /\ pod.len = Place(f, n)
           /\ \A k \in 1 .. Len(f[n]) : At(pod, 16 + 4 * (k - 1)) = f[n][k]
<1>1. n \in Nat /\ UpTo(f, n, kvs) BY DEF Whole, SendableProps
<1>2. \A i \in 1 .. n : Sendable(kvs[i]) /\ EncodedProp(kvs[i]) \in Seq(Nat)
  BY EncodedPropNats DEF Whole, SendableProps
<1>3. f[n] \in Seq(Nat)
  <2>1. n \in 0 .. n BY <1>1
  <2> QED BY <1>1, <1>2, <2>1, UpToNats
<1> DEFINE body == f[n]
           words == pod.words
<1>4. PICK id \in Nat : words = EncodedObject(TypeObjectFormat, id, body) BY DEF Whole
<1>5. words \in Seq(Nat) /\ pod.len = 4 * Len(words) BY DEF Whole, IsPod, Written
<1>6. body \in Seq(Int) /\ Len(body) \in Nat BY <1>3, NatsAreInts
<1> HIDE DEF body
<1>7. /\ Len(words) = 4 + Len(body)
      /\ words[1] = 8 + 4 * Len(body) /\ words[2] = TypeObject /\ words[3] = TypeObjectFormat
      /\ \A k \in 1 .. Len(body) : words[4 + k] = body[k]
  <2> DEFINE obj == [type |-> TypeObjectFormat, id |-> id, body |-> body]
  <2>1. TypeObjectFormat \in Int BY SMT DEF TypeObjectFormat
  <2>2. /\ obj \in Meanings /\ obj.type = TypeObjectFormat /\ obj.id = id /\ obj.body = body
    BY <1>6, <2>1 DEF Meanings
  <2> HIDE DEF obj, words
  <2>3. words = EncodedObject(obj.type, obj.id, obj.body) BY <1>4, <2>2
  <2> QED BY <2>2, <2>3, EncodedObjectElements, Zenon
<1> HIDE DEF words
<1>8. IsPod(pod) BY DEF Whole
<1>9. \A i \in 0 .. 3 + Len(body) : At(pod, 4 * i) = words[i + 1]
  <2> SUFFICES ASSUME NEW i \in 0 .. 3 + Len(body) PROVE At(pod, 4 * i) = words[i + 1]
    OBVIOUS
  <2>1. i \in Nat /\ i < Len(words) BY <1>6, <1>7
  <2> QED BY <1>8, <2>1, AtWord DEF words
<1>10. /\ At(pod, 0) = 8 + 4 * Len(body) /\ At(pod, 4) = TypeObject
       /\ At(pod, 8) = TypeObjectFormat
  <2>1. /\ 0 \in 0 .. 3 + Len(body) /\ 1 \in 0 .. 3 + Len(body) /\ 2 \in 0 .. 3 + Len(body)
        /\ 4 * 0 = 0 /\ 4 * 1 = 4 /\ 4 * 2 = 8 /\ 0 + 1 = 1 /\ 1 + 1 = 2 /\ 2 + 1 = 3
    BY <1>6
  <2>2. /\ At(pod, 4 * 0) = words[0 + 1] /\ At(pod, 4 * 1) = words[1 + 1]
        /\ At(pod, 4 * 2) = words[2 + 1]
    BY <1>9, <2>1, Zenon
  <2> QED BY <1>7, <2>1, <2>2, Zenon
<1>11. PodEnd(pod) = 16 + 4 * Len(body) /\ pod.len = 16 + 4 * Len(body)
  BY <1>5, <1>6, <1>7, <1>10 DEF PodEnd
<1>12. IsFormat(pod)
  <2>1. pod.len >= 16 /\ At(pod, 0) >= 8 /\ PodEnd(pod) <= pod.len BY <1>6, <1>10, <1>11
  <2> QED BY <1>10, <2>1 DEF IsFormat
<1>13. ASSUME NEW k \in 1 .. Len(body) PROVE At(pod, 16 + 4 * (k - 1)) = body[k]
  <2>1. /\ k + 3 \in 0 .. 3 + Len(body) /\ 4 * (k + 3) = 16 + 4 * (k - 1)
        /\ (k + 3) + 1 = 4 + k
    BY <1>6
  <2>2. At(pod, 4 * (k + 3)) = words[(k + 3) + 1] BY <1>9, <2>1, Zenon
  <2> QED BY <1>7, <2>1, <2>2, Zenon
<1> QED BY <1>1, <1>2, <1>3, <1>11, <1>12, <1>13 DEF body, Place

LEMMA PaddedLength ==
    ASSUME NEW n \in Nat
    PROVE  /\ 8 + n + Padding(n) \in Nat /\ 8 + n + Padding(n) >= 6
           /\ Even(8 + n + Padding(n))
<1>1. CASE n % 2 = 0 BY <1>1 DEF Padding, Even
<1>2. CASE n % 2 = 1 BY <1>2 DEF Padding, Even
<1> QED BY <1>1, <1>2, ModTwo

\* Every property takes an even number of words.
LEMMA PropEven ==
    ASSUME NEW kv, Sendable(kv)
    PROVE  Len(EncodedProp(kv)) \in Nat /\ Len(EncodedProp(kv)) >= 6 /\ Even(Len(EncodedProp(kv)))
<1> DEFINE e == EncodedProp(kv)
<1> HIDE DEF e
<1>1. CASE kv.val.choice = Plain
  <2>1. Len(e) = 6 BY <1>1, PlainWords DEF e
  <2> QED BY <2>1 DEF Even, e
<1>2. CASE kv.val.choice # Plain
  <2> DEFINE n == Len(kv.val.vals)
  <2>1. n \in Nat BY DEF Sendable
  <2>2. Len(e) = 8 + n + Padding(n) BY <1>2, ChoicePropWords DEF WordsOfChoice, e
  <2> HIDE DEF n
  <2> QED BY <2>1, <2>2, PaddedLength DEF e
<1> QED BY <1>1, <1>2

LEMMA UpToEven ==
    ASSUME NEW pod, NEW kvs, NEW n \in Nat, NEW f, Whole(pod, kvs, n, f)
    PROVE  \A i \in 0 .. n : Len(f[i]) \in Nat /\ Even(Len(f[i]))
<1> DEFINE S == {i \in Nat : i <= n => Even(Len(f[i]))}
<1>1. /\ n \in Nat /\ UpTo(f, n, kvs)
      /\ \A i \in 1 .. n : Sendable(kvs[i]) /\ EncodedProp(kvs[i]) \in Seq(Nat)
  BY WholePod
<1>0. \A i \in 1 .. n : InBody(f, n, i, EncodedProp(kvs[i]))
  <2>1. PropNats(kvs, n) BY <1>1 DEF PropNats
  <2> QED BY <1>1, <2>1, PropInBody
<1>2. \A i \in 0 .. n : f[i] \in Seq(Nat) /\ Len(f[i]) \in Nat
  BY <1>1, UpToNats, NatsAreInts
<1>3. 0 \in S
  <2>1. f[0] = <<>> BY <1>1, UpToStep
  <2>2. Len(f[0]) = 0 BY <2>1, EmptySeq
  <2> QED BY <2>2, EvenNumbers
<1>4. ASSUME NEW i \in Nat, i \in S PROVE i + 1 \in S
  <2> SUFFICES ASSUME i + 1 <= n PROVE Even(Len(f[i + 1]))
    OBVIOUS
  <2>1. PICK k \in 1 .. n : k = i + 1 BY <1>1
  <2>2. k - 1 = i /\ i <= n /\ i \in 0 .. n BY <1>1, <2>1
  <2>3. Len(f[k]) = Len(f[k - 1]) + Len(EncodedProp(kvs[k]))
    BY <1>0 DEF InBody
  <2>4. Len(EncodedProp(kvs[k])) \in Nat /\ Even(Len(EncodedProp(kvs[k]))) BY <1>1, PropEven
  <2>5. Even(Len(f[i])) BY <1>4, <2>2
  <2> QED BY <1>2, <2>1, <2>2, <2>3, <2>4, <2>5, EvenNumbers
<1> HIDE DEF S
<1>5. \A i \in Nat : i \in S BY <1>3, <1>4, SetInduction
<1>6. \A i \in 0 .. n : i \in Nat /\ i <= n BY <1>1
<1> QED BY <1>2, <1>5, <1>6 DEF S

LEMMA WordPlace ==
    ASSUME NEW lu \in Nat, NEW l \in Nat, NEW lv, NEW lw \in Nat, NEW off,
           lv = lu + l, lv <= lw, off = 16 + 4 * lu, NEW k \in 1 .. l
    PROVE  lu + k \in 1 .. lw /\ 16 + 4 * ((lu + k) - 1) = off + 4 * (k - 1)
OBVIOUS

\* A property is at its place, and what the parser finds there is its words.
HasWords(pod, off, next, e) ==
    /\ off \in Nat /\ off % 8 = 0 /\ off >= 16
    /\ Len(e) \in Nat /\ next = off + 4 * Len(e) /\ next <= PodEnd(pod)
    /\ PodEnd(pod) \in Nat
    /\ \A k \in 1 .. Len(e) : At(pod, off + 4 * (k - 1)) = e[k]

LEMMA PropAt ==
    ASSUME NEW pod, NEW kvs, NEW n \in Nat, NEW f, Whole(pod, kvs, n, f)
    PROVE  \A i \in 1 .. n :
             HasWords(pod, Place(f, i - 1), Place(f, i), EncodedProp(kvs[i]))
<1> SUFFICES ASSUME NEW i \in 1 .. n
             PROVE  HasWords(pod, Place(f, i - 1), Place(f, i), EncodedProp(kvs[i]))
  OBVIOUS
<1> DEFINE e == EncodedProp(kvs[i])
           off == Place(f, i - 1)
<1>9. e = EncodedProp(kvs[i]) /\ off = Place(f, i - 1) OBVIOUS
<1> HIDE DEF e, off
<1>1. /\ n \in Nat /\ UpTo(f, n, kvs) /\ PodEnd(pod) = 16 + 4 * Len(f[n])
      /\ \A k \in 1 .. n : EncodedProp(kvs[k]) \in Seq(Nat)
      /\ \A k \in 1 .. Len(f[n]) : At(pod, 16 + 4 * (k - 1)) = f[n][k]
  BY WholePod DEF Place
<1> DEFINE lu == Len(f[i - 1])
           lv == Len(f[i])
           lw == Len(f[n])
<1>2. /\ lv = lu + Len(e) /\ lv <= lw
      /\ \A k \in 1 .. Len(e) : f[n][lu + k] = e[k]
  <2>1. PropNats(kvs, n) BY <1>1 DEF PropNats
  <2>2. InBody(f, n, i, e) BY <1>1, <1>9, <2>1, PropInBody
  <2> QED BY <2>2 DEF InBody, lu, lv, lw
<1>3. lu \in Nat /\ lv \in Nat /\ lw \in Nat /\ lu % 2 = 0
  <2>1. i - 1 \in 0 .. n /\ i \in 0 .. n /\ n \in 0 .. n BY <1>1
  <2> QED BY <2>1, UpToEven DEF Even
<1>4. Len(e) \in Nat
  <2>1. e \in Seq(Nat) BY <1>1, <1>9
  <2> QED BY <2>1
<1> HIDE DEF lu, lv, lw
<1>5. off = 16 + 4 * lu /\ Place(f, i) = 16 + 4 * lv /\ PodEnd(pod) = 16 + 4 * lw
  BY <1>1, <1>9 DEF Place, lu, lv, lw
<1>6. off \in Nat /\ off % 8 = 0 /\ off >= 16 BY <1>3, <1>5
<1>7. ASSUME NEW k \in 1 .. Len(e) PROVE At(pod, off + 4 * (k - 1)) = e[k]
  <2>0. lv = lu + Len(e) /\ lv <= lw /\ off = 16 + 4 * lu BY <1>2, <1>5
  <2>1. lu + k \in 1 .. lw /\ 16 + 4 * ((lu + k) - 1) = off + 4 * (k - 1)
    BY <1>3, <1>4, <2>0, WordPlace
  <2>2. At(pod, 16 + 4 * ((lu + k) - 1)) = f[n][lu + k] BY <1>1, <2>1, Zenon DEF lw
  <2> QED BY <1>2, <2>1, <2>2
<1>8. Place(f, i) = off + 4 * Len(e) /\ Place(f, i) <= PodEnd(pod) /\ PodEnd(pod) \in Nat
  BY <1>2, <1>3, <1>4, <1>5
<1>10. HasWords(pod, off, Place(f, i), e) BY <1>4, <1>6, <1>7, <1>8 DEF HasWords
<1> QED BY <1>9, <1>10

-----------------------------------------------------------------------------
(* What the parser makes of a property of a whole format.                  *)

FixedChoice == {Plain, ChoiceNone}

Parsed(pod, off, next, kv) ==
    /\ At(pod, off) = kv.key /\ BodyFits(pod, off) /\ NextProp(pod, off) = next
    /\ Fixed(pod, off) <=> kv.val.choice \in FixedChoice
    /\ kv.val.choice \in FixedChoice =>
         /\ ValueType(pod, off) = kv.val.type /\ ValueSize(pod, off) = kv.val.size
         /\ At(pod, ValueBody(pod, off)) = kv.val.vals[1]
         /\ kv.val.size = 8 => At(pod, ValueBody(pod, off) + 4) = kv.val.vals[2]

LEMMA AlignPlain ==
    ASSUME NEW off \in Nat, off % 8 = 0, NEW size \in {4, 8}
    PROVE  Align8(off + 16 + size) = off + 24
BY DEF Align8

LEMMA AlignChoice ==
    ASSUME NEW off \in Nat, off % 8 = 0, NEW n \in Nat
    PROVE  Align8(off + 16 + (16 + 4 * n)) = off + 4 * (8 + n + Padding(n))
<1>1. CASE n % 2 = 0 BY <1>1 DEF Align8, Padding
<1>2. CASE n % 2 = 1 BY <1>2 DEF Align8, Padding
<1> QED BY <1>1, <1>2, ModTwo

LEMMA PlainParsed ==
    ASSUME NEW pod, NEW kv, Sendable(kv), kv.val.choice = Plain, NEW off, NEW next,
           HasWords(pod, off, next, EncodedProp(kv))
    PROVE  Parsed(pod, off, next, kv)
<1> DEFINE e == EncodedProp(kv)
<1>0. /\ off \in Nat /\ off % 8 = 0 /\ next = off + 4 * Len(e) /\ next <= PodEnd(pod)
      /\ PodEnd(pod) \in Nat
      /\ \A k \in 1 .. Len(e) : At(pod, off + 4 * (k - 1)) = e[k]
  BY DEF HasWords
<1> DEFINE v == kv.val
<1>1. /\ Len(e) = 6 /\ e[1] = kv.key /\ e[3] = v.size /\ e[4] = v.type
      /\ e[5] = v.vals[1] /\ e[6] = v.vals[2]
  BY PlainWords
<1>2. v.size \in {4, 8} /\ v.type # TypeChoice BY DEF Sendable
<1> HIDE DEF v, e
<1>3. /\ 1 \in 1 .. 6 /\ 3 \in 1 .. 6 /\ 4 \in 1 .. 6 /\ 5 \in 1 .. 6 /\ 6 \in 1 .. 6
      /\ off + 4 * (1 - 1) = off /\ off + 4 * (3 - 1) = off + 8
      /\ off + 4 * (4 - 1) = off + 12 /\ off + 4 * (5 - 1) = off + 16
      /\ off + 4 * (6 - 1) = (off + 16) + 4
  BY <1>0
<1>4. /\ At(pod, off) = kv.key /\ At(pod, off + 8) = v.size /\ At(pod, off + 12) = v.type
      /\ At(pod, off + 16) = v.vals[1] /\ At(pod, (off + 16) + 4) = v.vals[2]
  BY <1>0, <1>1, <1>3, Zenon
<1>5. NextProp(pod, off) = next
  <2>1. Align8(off + 16 + v.size) = off + 24 BY <1>0, <1>2, AlignPlain
  <2>2. next = off + 24 BY <1>0, <1>1
  <2> QED BY <1>4, <2>1, <2>2 DEF NextProp
<1>6. BodyFits(pod, off)
  <2>1. off + 16 + v.size <= off + 4 * 6 BY <1>0, <1>2
  <2>2. off + 4 * 6 <= PodEnd(pod) BY <1>0, <1>1
  <2>3. off + 16 + v.size <= PodEnd(pod) BY <1>0, <1>2, <2>1, <2>2
  <2> QED BY <1>4, <2>3 DEF BodyFits
<1>7. ~IsChoice(pod, off) BY <1>2, <1>4 DEF IsChoice
<1>8. /\ Fixed(pod, off) /\ ValueType(pod, off) = v.type /\ ValueSize(pod, off) = v.size
      /\ ValueBody(pod, off) = off + 16
  BY <1>4, <1>7 DEF Fixed, ValueType, ValueSize, ValueBody
<1>9. v.choice \in FixedChoice BY DEF FixedChoice, v
<1> QED BY <1>4, <1>5, <1>6, <1>8, <1>9, Zenon DEF Parsed, v

LEMMA ChoiceParsed ==
    ASSUME NEW pod, NEW kv, Sendable(kv), kv.val.choice # Plain, NEW off, NEW next,
           HasWords(pod, off, next, EncodedProp(kv))
    PROVE  Parsed(pod, off, next, kv)
<1> DEFINE e == EncodedProp(kv)
<1>0. /\ off \in Nat /\ off % 8 = 0 /\ next = off + 4 * Len(e) /\ next <= PodEnd(pod)
      /\ PodEnd(pod) \in Nat
      /\ \A k \in 1 .. Len(e) : At(pod, off + 4 * (k - 1)) = e[k]
  BY DEF HasWords
<1> DEFINE v == kv.val
           n == Len(v.vals)
           pad == Padding(n)
<1>1. /\ n \in Nat /\ Len(e) = 8 + n + pad
      /\ e[1] = kv.key /\ e[3] = 16 + 4 * n /\ e[4] = TypeChoice
      /\ e[5] = v.choice /\ e[7] = v.size /\ e[8] = v.type
      /\ \A k \in 1 .. n : e[8 + k] = v.vals[k]
  BY ChoicePropWords DEF WordsOfChoice
<1>2. /\ v.size \in {4, 8} /\ v.choice # Plain
      /\ v.choice = ChoiceNone => v.size <= 4 * n
  BY DEF Sendable
<1>3. next = off + 4 * (8 + n + pad) BY <1>0, <1>1
<1>4. pad \in {0, 1} /\ Align8(off + 16 + (16 + 4 * n)) = next
  BY <1>0, <1>1, <1>3, ModTwo, AlignChoice
<1> HIDE DEF v, e, n, pad
<1>5. \A k \in 1 .. 8 + n : At(pod, off + 4 * (k - 1)) = e[k]
  <2> SUFFICES ASSUME NEW k \in 1 .. 8 + n PROVE At(pod, off + 4 * (k - 1)) = e[k]
    OBVIOUS
  <2>1. k \in 1 .. 8 + n + pad BY <1>1, <1>4
  <2> QED BY <1>0, <1>1, <2>1, Zenon
<1>6. /\ 1 \in 1 .. 8 + n /\ 3 \in 1 .. 8 + n /\ 4 \in 1 .. 8 + n /\ 5 \in 1 .. 8 + n
      /\ 7 \in 1 .. 8 + n /\ 8 \in 1 .. 8 + n
      /\ off + 4 * (1 - 1) = off /\ off + 4 * (3 - 1) = off + 8
      /\ off + 4 * (4 - 1) = off + 12 /\ off + 4 * (5 - 1) = off + 16
      /\ off + 4 * (7 - 1) = off + 24 /\ off + 4 * (8 - 1) = off + 28
  BY <1>0, <1>1
<1>7. /\ At(pod, off) = kv.key /\ At(pod, off + 8) = 16 + 4 * n
      /\ At(pod, off + 12) = TypeChoice /\ At(pod, off + 16) = v.choice
      /\ At(pod, off + 24) = v.size /\ At(pod, off + 28) = v.type
  <2>1. /\ At(pod, off + 4 * (1 - 1)) = e[1] /\ At(pod, off + 4 * (3 - 1)) = e[3]
        /\ At(pod, off + 4 * (4 - 1)) = e[4] /\ At(pod, off + 4 * (5 - 1)) = e[5]
        /\ At(pod, off + 4 * (7 - 1)) = e[7] /\ At(pod, off + 4 * (8 - 1)) = e[8]
    BY <1>5, <1>6, Zenon
  <2> QED BY <1>1, <1>6, <2>1, Zenon
<1>8. \A k \in 1 .. n : At(pod, (off + 32) + 4 * (k - 1)) = v.vals[k]
  <2> SUFFICES ASSUME NEW k \in 1 .. n PROVE At(pod, (off + 32) + 4 * (k - 1)) = v.vals[k]
    OBVIOUS
  <2>1. 8 + k \in 1 .. 8 + n /\ off + 4 * ((8 + k) - 1) = (off + 32) + 4 * (k - 1) BY <1>0, <1>1
  <2>2. At(pod, off + 4 * ((8 + k) - 1)) = e[8 + k] BY <1>5, <2>1, Zenon
  <2> QED BY <1>1, <2>1, <2>2
<1>9. NextProp(pod, off) = next BY <1>4, <1>7 DEF NextProp
<1>10. BodyFits(pod, off)
  <2>1. off + 16 + (16 + 4 * n) <= PodEnd(pod) BY <1>0, <1>1, <1>3, <1>4
  <2> QED BY <1>7, <2>1 DEF BodyFits
<1>11. IsChoice(pod, off) BY <1>7 DEF IsChoice
<1>12. /\ ValueType(pod, off) = v.type /\ ValueSize(pod, off) = v.size
       /\ ValueBody(pod, off) = off + 32
  BY <1>7, <1>11 DEF ValueType, ValueSize, ValueBody
<1>13. v.choice \in FixedChoice <=> v.choice = ChoiceNone BY <1>2 DEF FixedChoice
<1>14. Fixed(pod, off) <=> v.choice = ChoiceNone
  <2>0. n \in Nat BY <1>1
  <2>1. 16 + 4 * n >= 16 /\ (16 + 4 * n) - 16 = 4 * n BY <2>0
  <2>2. ChoiceHeaderFits(pod, off) BY <1>7, <2>1 DEF ChoiceHeaderFits
  <2>3. v.choice = ChoiceNone => At(pod, off + 24) <= At(pod, off + 8) - 16
    BY <1>2, <1>7, <2>1
  <2> QED BY <1>7, <1>11, <2>2, <2>3 DEF Fixed
<1>15. ASSUME v.choice = ChoiceNone
       PROVE  /\ At(pod, off + 32) = v.vals[1]
              /\ v.size = 8 => At(pod, (off + 32) + 4) = v.vals[2]
  <2>1. 1 \in 1 .. n /\ (off + 32) + 4 * (1 - 1) = off + 32 BY <1>0, <1>1, <1>2, <1>15
  <2>2. At(pod, off + 32) = v.vals[1] BY <1>8, <2>1
  <2>3. ASSUME v.size = 8 PROVE At(pod, (off + 32) + 4) = v.vals[2]
    <3>1. 2 \in 1 .. n /\ (off + 32) + 4 * (2 - 1) = (off + 32) + 4 BY <1>0, <1>1, <1>2, <1>15, <2>3
    <3> QED BY <1>8, <3>1
  <2> QED BY <2>2, <2>3
<1> QED BY <1>7, <1>9, <1>10, <1>12, <1>13, <1>14, <1>15, Zenon DEF Parsed, v

LEMMA PropParsed ==
    ASSUME NEW pod, NEW kvs, NEW n \in Nat, NEW f, Whole(pod, kvs, n, f)
    PROVE  \A i \in 1 .. n : Parsed(pod, Place(f, i - 1), Place(f, i), kvs[i])
<1> SUFFICES ASSUME NEW i \in 1 .. n
             PROVE  Parsed(pod, Place(f, i - 1), Place(f, i), kvs[i])
  OBVIOUS
<1> DEFINE kv == kvs[i]
           off == Place(f, i - 1)
           next == Place(f, i)
<1>1. Sendable(kv) BY DEF Whole, SendableProps
<1>2. HasWords(pod, off, next, EncodedProp(kv)) BY PropAt
<1> HIDE DEF kv, off, next
<1>3. Parsed(pod, off, next, kv) BY <1>1, <1>2, PlainParsed, ChoiceParsed
<1> QED BY <1>3 DEF kv, off, next

\* Whether the parser goes on behind a property.
Acceptable(kv) ==
    /\ kv.val.choice \in FixedChoice
    /\ kv.key = FormatKeyVideoSize => kv.val.vals[1] > 0 /\ kv.val.vals[2] > 0

Keys == {FormatKeyMediaType, FormatKeyMediaSubtype, FormatKeyVideoFormat, FormatKeyVideoSize}

LEMMA KnownCase ==
    ASSUME NEW kv, Known(kv), kv.key \in Keys
    PROVE  /\ CaseSize(kv.key, kv.val.type) \in Nat
           /\ CaseSize(kv.key, kv.val.type) > 0
           /\ kv.val.size >= CaseSize(kv.key, kv.val.type)
<1>1. CASE kv.key = FormatKeyVideoSize
  <2>1. kv.val.type = TypeRectangle /\ kv.val.size = 8 BY <1>1 DEF Known
  <2>2. CaseSize(FormatKeyVideoSize, TypeRectangle) = 8
    BY SMT DEF CaseSize, FormatKeyMediaType, FormatKeyMediaSubtype, FormatKeyVideoFormat,
       FormatKeyVideoSize, TypeRectangle, TypeId
  <2> QED BY <1>1, <2>1, <2>2
<1>2. CASE kv.key # FormatKeyVideoSize
  <2>1. kv.key \in {FormatKeyMediaType, FormatKeyMediaSubtype, FormatKeyVideoFormat}
    BY <1>2 DEF Keys
  <2>2. kv.val.type = TypeId /\ kv.val.size = 4 BY <2>1 DEF Known
  <2>3. \A key \in {FormatKeyMediaType, FormatKeyMediaSubtype, FormatKeyVideoFormat} :
          CaseSize(key, TypeId) = 4
    BY SMT DEF CaseSize, FormatKeyMediaType, FormatKeyMediaSubtype, FormatKeyVideoFormat,
       FormatKeyVideoSize, TypeRectangle, TypeId
  <2> QED BY <2>1, <2>2, <2>3
<1> QED BY <1>1, <1>2

LEMMA MatchesParsed ==
    ASSUME NEW pod, NEW off, NEW next, NEW kv, Known(kv), Parsed(pod, off, next, kv),
           kv.val.choice \in FixedChoice, kv.key \in Keys
    PROVE  Matches(pod, off)
<1>1. /\ At(pod, off) = kv.key
      /\ ValueType(pod, off) = kv.val.type /\ ValueSize(pod, off) = kv.val.size
  BY DEF Parsed
<1> QED BY <1>1, KnownCase DEF Matches

LEMMA ExtentValid == ASSUME NEW z \in Extents PROVE ValidExtent(z) <=> z > 0
BY SMT DEF Extents, ValidExtent

LEMMA AcceptedParsed ==
    ASSUME NEW pod, NEW off, NEW next, NEW kv, Known(kv), Parsed(pod, off, next, kv)
    PROVE  Accepted(pod, off) <=> Acceptable(kv)
<1>1. /\ At(pod, off) = kv.key /\ BodyFits(pod, off)
      /\ Fixed(pod, off) <=> kv.val.choice \in FixedChoice
  BY DEF Parsed
<1>2. CASE kv.val.choice \notin FixedChoice BY <1>1, <1>2 DEF Accepted, Acceptable
<1>3. CASE kv.val.choice \in FixedChoice /\ kv.key # FormatKeyVideoSize
  BY <1>1, <1>3 DEF Accepted, Acceptable, SizeValid
<1>4. CASE kv.val.choice \in FixedChoice /\ kv.key = FormatKeyVideoSize
  <2>1. Matches(pod, off) BY <1>4, MatchesParsed DEF Keys
  <2>2. kv.val.size = 8 /\ \A i \in 1 .. 2 : kv.val.vals[i] \in Extents BY <1>4 DEF Known
  <2> DEFINE x == kv.val.vals[1]
             y == kv.val.vals[2]
  <2>3. At(pod, ValueBody(pod, off)) = x /\ At(pod, ValueBody(pod, off) + 4) = y
    BY <1>4, <2>2 DEF Parsed
  <2>4. x \in Extents /\ y \in Extents
    <3>1. 1 \in 1 .. 2 /\ 2 \in 1 .. 2 OBVIOUS
    <3> QED BY <2>2, <3>1
  <2>5. Acceptable(kv) <=> x > 0 /\ y > 0 BY <1>4 DEF Acceptable
  <2> HIDE DEF x, y
  <2>7. SizeValid(pod, off) <=> x > 0 /\ y > 0
    BY <1>1, <1>4, <2>1, <2>3, <2>4, ExtentValid DEF SizeValid
  <2> QED BY <1>1, <1>4, <2>5, <2>7 DEF Accepted
<1> QED BY <1>2, <1>3, <1>4

-----------------------------------------------------------------------------
(* The loop comes to every property of a whole format, unless one is not   *)
(* accepted.                                                               *)

LEMMA PlacesOrdered ==
    ASSUME NEW pod, NEW kvs, NEW n \in Nat, NEW f, Whole(pod, kvs, n, f)
    PROVE  /\ Place(f, 0) = 16 /\ Place(f, n) = PodEnd(pod) /\ PodEnd(pod) \in Nat
           /\ \A i \in 0 .. n : Place(f, i) \in 0 .. PodEnd(pod)
           /\ \A i \in 1 .. n : Place(f, i - 1) + 24 <= Place(f, i)
<1>1. UpTo(f, n, kvs) /\ f[n] \in Seq(Nat) /\ PodEnd(pod) = Place(f, n) BY WholePod
<1>2. Place(f, 0) = 16
  <2>1. f[0] = <<>> BY <1>1, UpToStep
  <2>2. Len(f[0]) = 0 BY <2>1, EmptySeq
  <2> QED BY <2>2 DEF Place
<1>3. PodEnd(pod) \in Nat /\ PodEnd(pod) >= 16
  <2>1. Len(f[n]) \in Nat BY <1>1
  <2> QED BY <1>1, <2>1 DEF Place
<1>4. ASSUME NEW i \in 1 .. n
      PROVE  Place(f, i) \in 0 .. PodEnd(pod) /\ Place(f, i - 1) + 24 <= Place(f, i)
  <2> DEFINE e == EncodedProp(kvs[i])
             off == Place(f, i - 1)
             next == Place(f, i)
  <2>1. HasWords(pod, off, next, e) BY PropAt
  <2>2. Len(e) >= 6
    <3>1. Sendable(kvs[i]) BY DEF Whole, SendableProps
    <3> QED BY <3>1, PropEven
  <2> HIDE DEF e, off, next
  <2>3. /\ off \in Nat /\ Len(e) \in Nat /\ next = off + 4 * Len(e) /\ next <= PodEnd(pod)
    BY <2>1 DEF HasWords
  <2>4. next \in 0 .. PodEnd(pod) /\ off + 24 <= next BY <1>3, <2>2, <2>3
  <2> QED BY <2>4 DEF off, next
<1>5. ASSUME NEW i \in 0 .. n PROVE Place(f, i) \in 0 .. PodEnd(pod)
  <2>1. CASE i = 0 BY <1>2, <1>3, <2>1
  <2>2. CASE i # 0
    <3>1. i \in 1 .. n BY <2>2
    <3> QED BY <1>4, <3>1
  <2> QED BY <2>1, <2>2
<1> QED BY <1>1, <1>2, <1>3, <1>4, <1>5

\* The places of the properties behind the first i.
PlacesFrom(f, n, i) == {Place(f, j - 1) : j \in i + 1 .. n}

AllAccepted(pod, S) == \A off \in S : Accepted(pod, off)

Reaches(pod, f, n, V, i) ==
    V \subseteq PlacesFrom(f, n, i) /\ (AllAccepted(pod, V) => V = PlacesFrom(f, n, i))

LEMMA PlacesStep ==
    ASSUME NEW f, NEW n \in Nat, NEW i \in 1 .. n
    PROVE  PlacesFrom(f, n, i - 1) = {Place(f, i - 1)} \cup PlacesFrom(f, n, i)
<1>1. \A j : j \in (i - 1) + 1 .. n <=> j = i \/ j \in i + 1 .. n OBVIOUS
<1> QED BY <1>1, Zenon DEF PlacesFrom

LEMMA VisitedWhole ==
    ASSUME NEW pod, NEW kvs, NEW n \in Nat, NEW f, Whole(pod, kvs, n, f)
    PROVE  Reaches(pod, f, n, Visited(pod), 0)
<1>1. IsPod(pod) /\ IsFormat(pod) BY WholePod DEF Whole
<1>2. PICK g : Walk(g, 0, pod) /\ Visited(pod) = g[16] BY <1>1, VisitedWalk
<1> DEFINE end == PodEnd(pod)
           W(i) == Reaches(pod, f, n, g[Place(f, i)], i)
           S == {d \in Nat : \A i \in 0 .. n : i + d = n => W(i)}
<1>3. /\ Place(f, 0) = 16 /\ Place(f, n) = end /\ end \in Nat
      /\ \A i \in 0 .. n : Place(f, i) \in 0 .. end
      /\ \A i \in 1 .. n : Place(f, i - 1) + 24 <= Place(f, i)
  BY PlacesOrdered
<1>4. \A off \in 0 .. end : g[off] = From(g, pod, off) BY <1>2 DEF Walk
<1> HIDE DEF end
<1>5. W(n)
  <2>1. g[end] = From(g, pod, end) BY <1>3, <1>4
  <2>2. end + 16 > end BY <1>3
  <2>3. g[Place(f, n)] = {} BY <1>3, <2>1, <2>2 DEF From, end
  <2>4. PlacesFrom(f, n, n) = {}
    <3>1. n + 1 .. n = {} OBVIOUS
    <3> QED BY <3>1 DEF PlacesFrom
  <2> QED BY <2>3, <2>4 DEF Reaches
<1>6. ASSUME NEW i \in 1 .. n, W(i) PROVE W(i - 1)
  <2> DEFINE off == Place(f, i - 1)
             next == Place(f, i)
             later == PlacesFrom(f, n, i)
  <2>1. NextProp(pod, off) = next
    <3>1. Parsed(pod, off, next, kvs[i]) BY PropParsed
    <3> QED BY <3>1 DEF Parsed
  <2>2. off \in 0 .. end /\ next \in 0 .. end /\ off + 24 <= next
    <3>1. i - 1 \in 0 .. n /\ i \in 0 .. n OBVIOUS
    <3> QED BY <1>3, <3>1
  <2>3. PlacesFrom(f, n, i - 1) = {off} \cup later BY PlacesStep
  <2>4. Reaches(pod, f, n, g[next], i) BY <1>6
  <2>5. g[off] = From(g, pod, off) BY <1>4, <2>2
  <2> HIDE DEF off, next
  <2>6. ~(off + 16 > end) /\ next <= end
    <3>1. end \in Nat BY <1>3
    <3> QED BY <2>2, <3>1
  <2>7. g[off] = {off} \cup IF Accepted(pod, off) THEN g[next] ELSE {}
    BY <2>1, <2>5, <2>6 DEF From, end
  <2>8. g[next] \subseteq later /\ (AllAccepted(pod, g[next]) => g[next] = later)
    BY <2>4 DEF Reaches
  <2> HIDE DEF later
  <2>9. g[off] \subseteq {off} \cup later BY <2>7, <2>8
  <2>10. ASSUME AllAccepted(pod, g[off]) PROVE g[off] = {off} \cup later
    <3>1. Accepted(pod, off) BY <2>7, <2>10 DEF AllAccepted
    <3>2. AllAccepted(pod, g[next]) BY <2>7, <2>10, <3>1 DEF AllAccepted
    <3> QED BY <2>7, <2>8, <3>1, <3>2
  <2>11. Reaches(pod, f, n, g[off], i - 1) BY <2>3, <2>9, <2>10 DEF Reaches, later
  <2> QED BY <2>11 DEF off
<1> HIDE DEF W
<1>7. 0 \in S
  <2>1. \A i \in 0 .. n : i + 0 = n => i = n OBVIOUS
  <2> QED BY <1>5, <2>1
<1>8. ASSUME NEW d \in Nat, d \in S PROVE d + 1 \in S
  <2> SUFFICES ASSUME NEW i \in 0 .. n, i + (d + 1) = n PROVE W(i)
    OBVIOUS
  <2>1. PICK k \in 1 .. n : k = i + 1 OBVIOUS
  <2>2. k \in 0 .. n /\ k + d = n /\ k - 1 = i BY <2>1
  <2>3. W(k) BY <1>8, <2>2
  <2> QED BY <1>6, <2>2, <2>3
<1> HIDE DEF S
<1>9. n \in S BY <1>7, <1>8, SetInduction
<1>10. W(0)
  <2>1. 0 \in 0 .. n /\ 0 + n = n OBVIOUS
  <2> QED BY <1>9, <2>1 DEF S
<1> QED BY <1>2, <1>3, <1>10 DEF W

-----------------------------------------------------------------------------
(* The value of a key is that of the last property which has it.           *)

FoundIn(pod, key) == {off \in Visited(pod) : At(pod, off) = key /\ Matches(pod, off)}
LastIn(pod, key) == CHOOSE off \in FoundIn(pod, key) : \A o \in FoundIn(pod, key) : o <= off
ValIn(pod, key, i) == At(pod, ValueBody(pod, LastIn(pod, key)) + i)

OfKey(kvs, key) == {i \in DOMAIN kvs : kvs[i].key = key}
LastOf(kvs, key) == CHOOSE i \in OfKey(kvs, key) : \A j \in OfKey(kvs, key) : j <= i
ValOf(kvs, key) == kvs[LastOf(kvs, key)].val.vals

LEMMA GreatestNumber ==
    ASSUME NEW n \in Nat, NEW S, S \subseteq 1 .. n, S # {}
    PROVE  \E m \in S : \A j \in S : j <= m
<1> DEFINE T == {d \in Nat : n - d \in S}
<1>1. T \subseteq Nat /\ T # {}
  <2>1. PICK j \in S : TRUE OBVIOUS
  <2>2. n - j \in Nat /\ n - (n - j) = j OBVIOUS
  <2>3. n - j \in T BY <2>1, <2>2
  <2> QED BY <2>3
<1>2. PICK d \in T : \A e \in T : d <= e BY <1>1, LeastNumber
<1>3. d \in Nat /\ n - d \in S OBVIOUS
<1>4. ASSUME NEW j \in S PROVE j <= n - d
  <2>1. n - j \in Nat /\ n - (n - j) = j OBVIOUS
  <2>2. n - j \in T BY <2>1
  <2>3. d <= n - j BY <1>2, <2>2
  <2>4. j \in Nat OBVIOUS
  <2> QED BY <1>3, <2>3, <2>4
<1> QED BY <1>3, <1>4

LEMMA PlacesGrow ==
    ASSUME NEW pod, NEW kvs, NEW n \in Nat, NEW f, Whole(pod, kvs, n, f)
    PROVE  \A j \in 0 .. n : \A i \in 0 .. j : Place(f, i) <= Place(f, j)
<1>1. /\ UpTo(f, n, kvs) /\ \A i \in 1 .. n : EncodedProp(kvs[i]) \in Seq(Nat)
  BY WholePod
<1>2. \A j \in 0 .. n : \A i \in 0 .. j : Starts(f[i], f[j]) BY <1>1, UpToStarts
<1>3. \A i \in 0 .. n : Len(f[i]) \in Nat BY UpToEven
<1> SUFFICES ASSUME NEW j \in 0 .. n, NEW i \in 0 .. j PROVE Place(f, i) <= Place(f, j)
  OBVIOUS
<1>4. i \in 0 .. n OBVIOUS
<1>5. Len(f[i]) <= Len(f[j]) BY <1>2 DEF Starts
<1>6. Len(f[i]) \in Nat /\ Len(f[j]) \in Nat BY <1>3, <1>4
<1> DEFINE li == Len(f[i])
           lj == Len(f[j])
<1>7. Place(f, i) = 16 + 4 * li /\ Place(f, j) = 16 + 4 * lj BY DEF Place
<1> HIDE DEF li, lj
<1> QED BY <1>5, <1>6, <1>7 DEF li, lj

\* A whole format of properties the parser knows, all of which it accepts.
Taken(pod, kvs, n, f) ==
    /\ Whole(pod, kvs, n, f) /\ DOMAIN kvs = 1 .. n
    /\ \A i \in 1 .. n : Known(kvs[i]) /\ Acceptable(kvs[i])
    /\ Visited(pod) = PlacesFrom(f, n, 0)

LEMMA FoundWhole ==
    ASSUME NEW pod, NEW kvs, NEW n \in Nat, NEW f, Taken(pod, kvs, n, f), NEW key \in Keys
    PROVE  FoundIn(pod, key) = {Place(f, i - 1) : i \in OfKey(kvs, key)}
<1>1. /\ Visited(pod) = {Place(f, j - 1) : j \in 1 .. n} /\ DOMAIN kvs = 1 .. n
  <2>1. 0 + 1 = 1 OBVIOUS
  <2> QED BY <2>1 DEF Taken, PlacesFrom
<1>2. ASSUME NEW i \in 1 .. n
      PROVE  /\ At(pod, Place(f, i - 1)) = kvs[i].key
             /\ kvs[i].key = key => Matches(pod, Place(f, i - 1))
  <2>1. Parsed(pod, Place(f, i - 1), Place(f, i), kvs[i]) BY PropParsed DEF Taken
  <2>2. Known(kvs[i]) /\ kvs[i].val.choice \in FixedChoice BY DEF Taken, Acceptable
  <2>3. At(pod, Place(f, i - 1)) = kvs[i].key BY <2>1 DEF Parsed
  <2>4. ASSUME kvs[i].key = key PROVE Matches(pod, Place(f, i - 1))
    <3>1. kvs[i].key \in Keys BY <2>4
    <3> QED BY <2>1, <2>2, <3>1, MatchesParsed
  <2> QED BY <2>3, <2>4
<1> QED BY <1>1, <1>2, Zenon DEF FoundIn, OfKey

LEMMA LastWhole ==
    ASSUME NEW pod, NEW kvs, NEW n \in Nat, NEW f, Taken(pod, kvs, n, f), NEW key \in Keys,
           NEW m \in OfKey(kvs, key), \A j \in OfKey(kvs, key) : j <= m
    PROVE  LastIn(pod, key) = Place(f, m - 1)
<1> DEFINE found == FoundIn(pod, key)
           of == OfKey(kvs, key)
           top == Place(f, m - 1)
           Top(off) == \A o \in found : o <= off
<1>1. found = {Place(f, i - 1) : i \in of} BY FoundWhole
<1>2. of \subseteq 1 .. n BY DEF OfKey, Taken
<1>3. /\ \A i \in 1 .. n : Place(f, i - 1) \in Nat
      /\ \A j \in 1 .. n : \A i \in 1 .. j : Place(f, i - 1) <= Place(f, j - 1)
  <2>1. PodEnd(pod) \in Nat /\ \A i \in 0 .. n : Place(f, i) \in 0 .. PodEnd(pod)
    BY PlacesOrdered DEF Taken
  <2>2. \A j \in 0 .. n : \A i \in 0 .. j : Place(f, i) <= Place(f, j)
    BY PlacesGrow DEF Taken
  <2>3. ASSUME NEW j \in 1 .. n, NEW i \in 1 .. j PROVE Place(f, i - 1) <= Place(f, j - 1)
    <3>1. j - 1 \in 0 .. n /\ i - 1 \in 0 .. j - 1 OBVIOUS
    <3> QED BY <2>2, <3>1
  <2>4. ASSUME NEW i \in 1 .. n PROVE Place(f, i - 1) \in Nat
    <3>1. i - 1 \in 0 .. n OBVIOUS
    <3> QED BY <2>1, <3>1
  <2> QED BY <2>3, <2>4
<1> HIDE DEF found, of
<1>4. m \in 1 .. n /\ \A i \in of : i \in 1 .. m
  <2>1. m \in 1 .. n /\ \A i \in of : i \in 1 .. n /\ i <= m BY <1>2 DEF of
  <2>2. \A i \in 1 .. n : i <= m => i \in 1 .. m BY <2>1
  <2> QED BY <2>1, <2>2
<1>5. top \in found /\ Top(top)
  <2>1. \A i \in of : Place(f, i - 1) <= top BY <1>3, <1>4
  <2>2. m \in of BY DEF of
  <2> HIDE DEF top
  <2>3. Top(top) BY <1>1, <2>1
  <2>4. top \in found BY <1>1, <2>2 DEF top
  <2> QED BY <2>3, <2>4
<1>6. \A off \in found : off \in Nat BY <1>1, <1>2, <1>3
<1> DEFINE last == CHOOSE off \in found : Top(off)
<1> HIDE DEF Top, top
<1>7. last \in found /\ Top(last) BY <1>5
<1> HIDE DEF last
<1>8. last <= top /\ top <= last BY <1>5, <1>7 DEF Top
<1>9. last = top BY <1>5, <1>6, <1>7, <1>8
<1> QED BY <1>9 DEF LastIn, last, Top, found, top

LEMMA ValWhole ==
    ASSUME NEW pod, NEW kvs, NEW n \in Nat, NEW f, Taken(pod, kvs, n, f), NEW key \in Keys,
           OfKey(kvs, key) # {}
    PROVE  /\ ValIn(pod, key, 0) = ValOf(kvs, key)[1]
           /\ key = FormatKeyVideoSize => ValIn(pod, key, 4) = ValOf(kvs, key)[2]
<1> DEFINE of == OfKey(kvs, key)
           m == LastOf(kvs, key)
           off == Place(f, m - 1)
<1>1. of \subseteq 1 .. n BY DEF OfKey, Taken
<1>2. m \in of /\ \A j \in of : j <= m
  <2>1. \E i \in of : \A j \in of : j <= i BY <1>1, GreatestNumber
  <2> HIDE DEF of
  <2> QED BY <2>1 DEF LastOf, of
<1>3. LastIn(pod, key) = off BY <1>2, LastWhole
<1>4. m \in 1 .. n /\ kvs[m].key = key
  <2>1. m \in 1 .. n BY <1>1, <1>2
  <2> QED BY <1>2, <2>1 DEF OfKey
<1> HIDE DEF of, m
<1>5. off \in Nat
  <2>1. m - 1 \in 0 .. n BY <1>4
  <2>2. PodEnd(pod) \in Nat /\ off \in 0 .. PodEnd(pod) BY <2>1, PlacesOrdered DEF Taken
  <2> QED BY <2>2
<1>6. Parsed(pod, off, Place(f, m), kvs[m]) BY <1>4, PropParsed DEF Taken
<1> HIDE DEF off
<1>7. Known(kvs[m]) /\ kvs[m].val.choice \in FixedChoice BY <1>4 DEF Taken, Acceptable
<1>8. ValueBody(pod, off) + 0 = ValueBody(pod, off) BY <1>5 DEF ValueBody
<1>9. /\ At(pod, ValueBody(pod, off)) = kvs[m].val.vals[1]
      /\ kvs[m].val.size = 8 => At(pod, ValueBody(pod, off) + 4) = kvs[m].val.vals[2]
  BY <1>6, <1>7 DEF Parsed
<1>10. key = FormatKeyVideoSize => kvs[m].val.size = 8 BY <1>4, <1>7 DEF Known
<1> QED BY <1>3, <1>8, <1>9, <1>10 DEF ValIn, ValOf, m, off

-----------------------------------------------------------------------------
(* Parsing gives back what was said.                                       *)

FormatOf(kvs) ==
    IF /\ \A i \in DOMAIN kvs : Acceptable(kvs[i])
       /\ \A key \in Keys : OfKey(kvs, key) # {}
       /\ ValOf(kvs, FormatKeyMediaType)[1] = MediaTypeVideo
       /\ ValOf(kvs, FormatKeyMediaSubtype)[1] = MediaSubtypeRaw
    THEN [ok |-> TRUE, format |-> ValOf(kvs, FormatKeyVideoFormat)[1],
          w |-> ValOf(kvs, FormatKeyVideoSize)[1], h |-> ValOf(kvs, FormatKeyVideoSize)[2]]
    ELSE NotAFormat

LEMMA SaidFormatOf == SaidFormat = FormatOf(said)
<1>1. /\ \A i \in DOMAIN said : said[i].val.choice \in {Plain, ChoiceNone}
      /\ \A i \in OfKey(said, FormatKeyVideoSize) :
            said[i].val.vals[1] > 0 /\ said[i].val.vals[2] > 0
      <=> \A i \in DOMAIN said : Acceptable(said[i])
  BY Zenon DEF Acceptable, FixedChoice, OfKey
<1> QED BY <1>1, Zenon DEF SaidFormat, FormatOf, OfKey, ValOf, LastOf, Keys

LEMMA ParsedAs ==
    ASSUME NEW pod
    PROVE  ParseVideoFormat(pod) =
             IF /\ IsFormat(pod) /\ AllAccepted(pod, Visited(pod))
                /\ \A key \in Keys : FoundIn(pod, key) # {}
                /\ ValIn(pod, FormatKeyMediaType, 0) = MediaTypeVideo
                /\ ValIn(pod, FormatKeyMediaSubtype, 0) = MediaSubtypeRaw
             THEN [ok |-> TRUE, format |-> ValIn(pod, FormatKeyVideoFormat, 0),
                   w |-> ValIn(pod, FormatKeyVideoSize, 0),
                   h |-> ValIn(pod, FormatKeyVideoSize, 4)]
             ELSE NotAFormat
BY Zenon DEF ParseVideoFormat, AllAccepted, FoundIn, LastIn, ValIn, Keys

LEMMA WholeParsed ==
    ASSUME NEW pod, NEW kvs, NEW n \in Nat, NEW f, Whole(pod, kvs, n, f), DOMAIN kvs = 1 .. n,
           \A i \in 1 .. n : Known(kvs[i])
    PROVE  ParseVideoFormat(pod) = FormatOf(kvs)
<1>1. Reaches(pod, f, n, Visited(pod), 0) BY VisitedWhole
<1>2. PlacesFrom(f, n, 0) = {Place(f, j - 1) : j \in 1 .. n}
  <2>1. 0 + 1 = 1 OBVIOUS
  <2> QED BY <2>1 DEF PlacesFrom
<1>3. \A i \in 1 .. n : Accepted(pod, Place(f, i - 1)) <=> Acceptable(kvs[i])
  BY PropParsed, AcceptedParsed
<1>4. CASE ~(\A i \in 1 .. n : Acceptable(kvs[i]))
  <2>1. ~AllAccepted(pod, Visited(pod))
    <3> SUFFICES ASSUME AllAccepted(pod, Visited(pod)) PROVE FALSE
      OBVIOUS
    <3>1. AllAccepted(pod, PlacesFrom(f, n, 0)) BY <1>1 DEF Reaches
    <3> QED BY <1>2, <1>3, <1>4, <3>1 DEF AllAccepted
  <2>2. ParseVideoFormat(pod) = NotAFormat BY <2>1, ParsedAs
  <2> QED BY <1>4, <2>2 DEF FormatOf
<1>5. CASE \A i \in 1 .. n : Acceptable(kvs[i])
  <2>1. AllAccepted(pod, PlacesFrom(f, n, 0)) BY <1>2, <1>3, <1>5 DEF AllAccepted
  <2>2. AllAccepted(pod, Visited(pod)) /\ Visited(pod) = PlacesFrom(f, n, 0)
    BY <1>1, <2>1 DEF Reaches, AllAccepted
  <2>3. Taken(pod, kvs, n, f) BY <1>5, <2>2 DEF Taken
  <2>4. IsFormat(pod) BY WholePod
  <2>5. ASSUME NEW key \in Keys PROVE FoundIn(pod, key) # {} <=> OfKey(kvs, key) # {}
    <3>1. FoundIn(pod, key) = {Place(f, i - 1) : i \in OfKey(kvs, key)} BY <2>3, FoundWhole
    <3> QED BY <3>1, Zenon
  <2>6. CASE ~(\A key \in Keys : OfKey(kvs, key) # {})
    <3>1. ParseVideoFormat(pod) = NotAFormat BY <2>5, <2>6, ParsedAs
    <3> QED BY <2>6, <3>1 DEF FormatOf
  <2>7. CASE \A key \in Keys : OfKey(kvs, key) # {}
    <3>1. /\ \A key \in Keys : ValIn(pod, key, 0) = ValOf(kvs, key)[1]
          /\ ValIn(pod, FormatKeyVideoSize, 4) = ValOf(kvs, FormatKeyVideoSize)[2]
      <4>1. FormatKeyVideoSize \in Keys BY DEF Keys
      <4> QED BY <2>3, <2>7, <4>1, ValWhole
    <3>2. /\ FormatKeyMediaType \in Keys /\ FormatKeyMediaSubtype \in Keys
          /\ FormatKeyVideoFormat \in Keys /\ FormatKeyVideoSize \in Keys
      BY DEF Keys
    <3>3. /\ ValIn(pod, FormatKeyMediaType, 0) = ValOf(kvs, FormatKeyMediaType)[1]
          /\ ValIn(pod, FormatKeyMediaSubtype, 0) = ValOf(kvs, FormatKeyMediaSubtype)[1]
          /\ ValIn(pod, FormatKeyVideoFormat, 0) = ValOf(kvs, FormatKeyVideoFormat)[1]
          /\ ValIn(pod, FormatKeyVideoSize, 0) = ValOf(kvs, FormatKeyVideoSize)[1]
      BY <3>1, <3>2, Zenon
    <3> QED BY <1>5, <2>2, <2>4, <2>5, <2>7, <3>1, <3>3, ParsedAs, Zenon DEF FormatOf
  <2> QED BY <2>6, <2>7
<1> QED BY <1>4, <1>5

LEMMA IsWhole ==
    ASSUME NEW pod, IsPod(pod), pod.len = Written(pod.words), NEW kvs, SendableProps(kvs),
           NEW id \in Nat,
           pod.words = EncodedObject(TypeObjectFormat, id, EncodedProps(kvs))
    PROVE  \E f : Whole(pod, kvs, Len(kvs), f)
<1>1. Len(kvs) \in Nat BY DEF SendableProps
<1>2. PICK f : UpTo(f, Len(kvs), kvs) /\ EncodedProps(kvs) = f[Len(kvs)]
  BY <1>1, EncodedPropsUpTo
<1>3. Whole(pod, kvs, Len(kvs), f) BY <1>2 DEF Whole
<1> QED BY <1>3

LEMMA WholeReceived ==
    ASSUME NEW kvs \in Seq(SentProps) PROVE \E f : Whole(Received(kvs), kvs, Len(kvs), f)
<1>1. SendableProps(kvs) BY SentSeq
<1>2. ParamFormat \in Nat BY DEF ParamFormat
<1> QED BY <1>1, <1>2, ReceivedPod, IsWhole

LEMMA ParsedWhole ==
    ASSUME Arrived, intact, said # <<>> PROVE ParseVideoFormat(param) = SaidFormat
<1>1. said \in Seq(SentProps) /\ param = Received(said) BY DEF Arrived
<1>2. PICK f : Whole(param, said, Len(said), f) BY <1>1, WholeReceived
<1>3. /\ Len(said) \in Nat /\ DOMAIN said = 1 .. Len(said)
      /\ \A i \in 1 .. Len(said) : Known(said[i])
  BY <1>1, SentSeq
<1>4. ParseVideoFormat(param) = FormatOf(said) BY <1>2, <1>3, WholeParsed
<1> QED BY <1>4, SaidFormatOf

\* What is left of a pod that was cut short is less than its header says.
LEMMA ParsedCut ==
    ASSUME Arrived, param.len < Written(param.words)
    PROVE  ParseVideoFormat(param) = NotAFormat
<1> DEFINE pod == Received(said)
<1>1. said \in Seq(SentProps) /\ param.words = pod.words BY DEF Arrived
<1>2. PICK f : Whole(pod, said, Len(said), f) BY <1>1, WholeReceived
<1>3. Len(said) \in Nat BY <1>1
<1>4. PodEnd(pod) = Written(pod.words)
  <2>1. PodEnd(pod) = pod.len BY <1>2, <1>3, WholePod
  <2> QED BY <1>2, <2>1 DEF Whole
<1>5. PodEnd(param) = PodEnd(pod) BY <1>1 DEF PodEnd, At
<1>6. PodEnd(param) \in Nat /\ param.len \in Nat
  <2>1. IsPod(param) BY DEF Arrived
  <2>2. At(param, 0) \in Nat BY <2>1, AtNat
  <2> QED BY <2>1, <2>2 DEF IsPod, PodEnd
<1>7. ~(PodEnd(param) <= param.len) BY <1>1, <1>4, <1>5, <1>6
<1>8. ~IsFormat(param) BY <1>7 DEF IsFormat
<1> QED BY <1>8, ParsedAs

-----------------------------------------------------------------------------
(* The library's own offer.                                                *)

\* One value that still offers alternatives is enough for a refusal.
LEMMA OpenRefused ==
    ASSUME NEW pod, NEW kvs, NEW n \in Nat, NEW f, Whole(pod, kvs, n, f),
           NEW i \in 1 .. n, kvs[i].val.choice \notin FixedChoice
    PROVE  ParseVideoFormat(pod) = NotAFormat
<1>1. Reaches(pod, f, n, Visited(pod), 0) BY VisitedWhole
<1>2. Place(f, i - 1) \in PlacesFrom(f, n, 0)
  <2>1. i \in 0 + 1 .. n OBVIOUS
  <2> QED BY <2>1 DEF PlacesFrom
<1>3. ~Accepted(pod, Place(f, i - 1))
  <2>1. Parsed(pod, Place(f, i - 1), Place(f, i), kvs[i]) BY PropParsed
  <2> QED BY <2>1 DEF Parsed, Accepted
<1>4. ~AllAccepted(pod, Visited(pod)) BY <1>1, <1>2, <1>3 DEF Reaches, AllAccepted
<1> QED BY <1>4, ParsedAs

LEMMA SendableProper ==
    ASSUME NEW kv, kv.key \in Nat, Proper(kv.val), kv.val.choice \in Nat \cup {Plain},
           kv.val.choice # ChoiceNone, kv.val.type # TypeChoice, kv.val.size \in {4, 8}
    PROVE  Sendable(kv)
BY DEF Sendable, Proper

LEMMA OfferSendable ==
    ASSUME NEW w \in Int, NEW h \in Int, NEW fps \in Int, NEW formats \in Seq(Nat), formats # <<>>
    PROVE  /\ SendableProps(EnumFormatProps(w, h, fps, formats))
           /\ Len(EnumFormatProps(w, h, fps, formats)) = 6
           /\ EnumFormatProps(w, h, fps, formats)[6].val.choice \notin FixedChoice
<1> DEFINE kvs == EnumFormatProps(w, h, fps, formats)
           Fine(v) == /\ v.choice \in Nat \cup {Plain} /\ v.choice # ChoiceNone
                      /\ v.type # TypeChoice /\ v.size \in {4, 8}
<1>1. Len(kvs) = 6 /\ ProperProps(kvs) BY EnumFormatProper
<1>2. /\ ChoiceEnum \in Nat /\ ChoiceRange \in Nat
      /\ ChoiceEnum # ChoiceNone /\ ChoiceRange # ChoiceNone /\ Plain # ChoiceNone
      /\ ChoiceRange # Plain
      /\ TypeId # TypeChoice /\ TypeRectangle # TypeChoice /\ TypeFraction # TypeChoice
  BY SMT DEF ChoiceEnum, ChoiceRange, ChoiceNone, Plain, TypeId, TypeRectangle, TypeFraction,
     TypeChoice
<1>3. \A x : Fine(Id(x)) BY <1>2 DEF Id
<1>4. /\ Fine(Rectangle(Word(w), Word(h))) /\ Fine(Fraction(0, 1)) /\ Fine(EnumFormats(formats))
      /\ Fine(ChoiceRangeFraction(<<Word(fps), 1>>, <<1, 1>>, <<Word(fps), 1>>))
  BY <1>2, <1>3 DEF Rectangle, Fraction, EnumFormats, ChoiceEnumId, ChoiceRangeFraction
<1> HIDE DEF Fine
<1>5. \A i \in 1 .. 6 : Fine(kvs[i].val) BY <1>3, <1>4 DEF EnumFormatProps
<1>6. kvs[6].val.choice = ChoiceRange BY DEF EnumFormatProps, ChoiceRangeFraction
<1> HIDE DEF kvs
<1>7. \A i \in 1 .. 6 : Sendable(kvs[i])
  <2> SUFFICES ASSUME NEW i \in 1 .. 6 PROVE Sendable(kvs[i])
    OBVIOUS
  <2>1. kvs[i].key \in Nat /\ Proper(kvs[i].val) BY <1>1 DEF ProperProps
  <2> QED BY <1>5, <2>1, SendableProper DEF Fine
<1>8. SendableProps(kvs) BY <1>1, <1>7 DEF SendableProps
<1>9. ChoiceRange \notin FixedChoice BY <1>2 DEF FixedChoice
<1> QED BY <1>1, <1>6, <1>8, <1>9 DEF kvs

LEMMA ParsedOffer ==
    ASSUME InOrder(b), BytesOK(b), Offered
    PROVE  ParseVideoFormat([words |-> b.words, len |-> Written(b.words)]) = NotAFormat
<1>1. PICK w, h, fps \in Ints, formats \in OfferedFormats :
        b = VideoEnumFormat(b.len, w, h, fps, formats)
  BY DEF Offered
<1>2. w \in Int /\ h \in Int /\ fps \in Int BY ArgumentsAssumption
<1>3. formats \in Seq(Nat) BY OfferedSeq
<1>4. formats # <<>>
  <2> SUFFICES ASSUME formats = <<>> PROVE FALSE
    OBVIOUS
  <2>1. b = Fail(NewPodBuilder(b.len), "state") BY <1>1 DEF VideoEnumFormat, Refused
  <2>2. b.err = "state" BY <2>1 DEF Fail, NewPodBuilder
  <2> QED BY <2>2 DEF BytesOK
<1> DEFINE kvs == EnumFormatProps(w, h, fps, formats)
           words == EncodedObject(TypeObjectFormat, ParamEnumFormat, EncodedProps(kvs))
           pod == [words |-> b.words, len |-> Written(b.words)]
<1>5. b.words = words
  <2>1. b.len \in Nat BY Facts
  <2>2. Means(b, OnePod(words)) BY <1>1, <1>2, <1>3, <1>4, <2>1, EnumFormatMeans
  <2>3. OnePod(words) = <<[Outermost EXCEPT !.body = b.words]>>
    BY <2>2, SaidIsWritten DEF Means, BytesOK
  <2>4. [Outermost EXCEPT !.body = words] = [Outermost EXCEPT !.body = b.words]
    BY <2>3 DEF OnePod
  <2> QED BY <2>4 DEF Outermost
<1>6. SendableProps(kvs) /\ Len(kvs) = 6 /\ kvs[6].val.choice \notin FixedChoice
  BY <1>2, <1>3, <1>4, OfferSendable
<1> HIDE DEF kvs
<1>7. ParamEnumFormat \in Nat BY DEF ParamEnumFormat
<1>8. words \in Seq(Nat) BY <1>6, <1>7, FormatWords
<1> HIDE DEF words
<1>9. pod.words = words /\ pod.len = Written(words) BY <1>5
<1>10. IsPod(pod) BY <1>8, <1>9 DEF IsPod, Written
<1> HIDE DEF pod
<1>11. PICK f : Whole(pod, kvs, Len(kvs), f) BY <1>6, <1>7, <1>9, <1>10, IsWhole DEF words
<1>12. 6 \in Nat /\ 6 \in 1 .. 6 OBVIOUS
<1>13. ParseVideoFormat(pod) = NotAFormat BY <1>6, <1>11, <1>12, OpenRefused
<1> QED BY <1>13 DEF pod

\* The parser gets out of every format that arrives whole what was said in it: the
\* last value of each key, unless a value still offers alternatives, a size is absurd
\* or something is missing.  It takes nothing that was cut short for a format, nor the
\* library's own offer.
THEOREM ParsesWhatWasSaid == Spec => []ParsesAsSaid
<1> DEFINE Inv == Arrived /\ InOrder(b)
<1>1. Init => Inv BY InitArrived, InitInOrder
<1>2. Inv /\ [Next]_vars => Inv' BY NextArrived, NextInOrder
<1>3. Inv => ParsesAsSaid BY ParsedWhole, ParsedCut, ParsedOffer DEF ParsesAsSaid
<1> QED BY <1>1, <1>2, <1>3, PTL DEF Spec

=============================================================================
