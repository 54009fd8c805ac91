-------------------------------- MODULE Pods --------------------------------
(***************************************************************************)
(* spa/pod.go: the builder that writes SPA pods into a caller's buffer and *)
(* the parser of the formats PipeWire sends, with the parameters the       *)
(* library makes (spa/pod.go, internal/capi/stream_params.go).             *)
(*                                                                         *)
(* Memory is a sequence of 32-bit words; an offset counts bytes, as in the *)
(* code, and is a multiple of four.  Buffers and received pods have any    *)
(* number of bytes.  A Go int is written as the word its conversion to     *)
(* int32 or uint32 makes of it.                                            *)
(*                                                                         *)
(* A behaviour either drives a builder with calls in any order or receives *)
(* a format, whole, cut short or with a damaged word.                      *)
(***************************************************************************)
EXTENDS Integers, Sequences

CONSTANTS
    Lengths,        \* lengths of destination buffers, in bytes
    podMaxDepth,
    MaxInt32,       \* math.MaxInt32
    Arguments,      \* words passed as types and keys
    Ints,           \* Go ints passed as sizes, rates and numbers
    Values,         \* values passed to the builder
    MaxWritten,     \* bound on the bytes written before a call
    MaxProps,       \* bound on the properties of a received format
    MaxDamaged      \* bound on the properties of one that is damaged

ASSUME LengthsAssumption == Lengths \subseteq Nat
ASSUME DepthAssumption == podMaxDepth \in Nat
ASSUME WidthAssumption == MaxInt32 \in Nat
ASSUME ArgumentsAssumption == Arguments \subseteq Nat /\ Ints \subseteq Int
ASSUME ValuesAssumption ==
    \A v \in Values :
        /\ v \in [choice : Int, type : Nat, size : Nat, vals : Seq(Nat)]
        /\ v.choice = -1 => Len(v.vals) = 2

VARIABLES
    b,          \* the PodBuilder
    meant,      \* history: the objects open, each with the words of its body
    param,      \* the pod received
    said,       \* history: the properties of the format received
    intact      \* it was received as it was sent

vars == <<b, meant, param, said, intact>>

\* spa/constants.go, and the audio constants of capi/stream_params.go.
TypeId == 3
TypeInt == 4
TypeRectangle == 10
TypeFraction == 11
TypeObject == 15
TypeChoice == 19
TypeObjectFormat == 262147
TypeObjectParamBuffers == 262148
TypeObjectParamMeta == 262149
ChoiceNone == 0
ChoiceRange == 1
ChoiceEnum == 3
ChoiceFlags == 4
ParamEnumFormat == 3
ParamFormat == 4
ParamBuffers == 5
ParamMeta == 6
MediaTypeAudio == 1
MediaTypeVideo == 2
MediaSubtypeRaw == 1
FormatKeyMediaType == 1
FormatKeyMediaSubtype == 2
FormatKeyAudioFormat == 65537
FormatKeyAudioRate == 65539
FormatKeyAudioChannels == 65540
FormatKeyVideoFormat == 131073
FormatKeyVideoSize == 131075
FormatKeyVideoFramerate == 131076
FormatKeyVideoMaxRate == 131077
BuffersKeyBuffers == 1
BuffersKeyBlocks == 2
BuffersKeySize == 3
BuffersKeyStride == 4
BuffersKeyAlign == 5
BuffersKeyDataType == 6
MetaKeyType == 1
MetaKeySize == 2
MetaTypeHeader == 1
MetaHeaderSize == 32
AudioFormatF32P == 518

\* The word of int32(n) and of uint32(n).
Word(n) == n % (2 * (MaxInt32 + 1))

Align8(n) == ((n + 7) \div 8) * 8

-----------------------------------------------------------------------------
(* The builder.  n is the number of bytes written, depth is Len(stack).    *)

NewPodBuilder(len) == [len |-> len, words |-> <<>>, err |-> "none", stack |-> <<>>]

Written(w) == 4 * Len(w)

\* Only the first error is kept.
Fail(p, err) == IF p.err = "none" THEN [p EXCEPT !.err = err] ELSE p

Room(p, n) == p.err = "none" /\ Written(p.words) + n <= p.len

Put(p, ws) == [p EXCEPT !.words = @ \o ws]

Pad8(p) == IF Len(p.words) % 2 = 0 THEN p ELSE Put(p, <<0>>)

\* The size of the pod whose header is word i, once all of it is written.
Patch(p, i) == [p EXCEPT !.words[i] = Written(p.words) - 4 * (i - 1) - 8]

Object(p, type, id) ==
    CASE ~Room(p, 16) -> Fail(p, "full")
      [] Room(p, 16) /\ Len(p.stack) = podMaxDepth -> Fail(p, "state")
      [] OTHER -> [Put(p, <<0, TypeObject, type, id>>) EXCEPT
                     !.stack = Append(p.stack, Len(p.words) + 1)]

Prop(p, key) ==
    CASE p.stack = <<>> -> Fail(p, "state")
      [] p.stack # <<>> /\ ~Room(p, 8) -> Fail(p, "full")
      [] OTHER -> Put(p, <<key, 0>>)

\* Faulty variant: the size is that of the pod with its header.
EndWithHeader(p) ==
    CASE p.err # "none" -> p
      [] p.err = "none" /\ p.stack = <<>> -> Fail(p, "state")
      [] OTHER -> LET start == p.stack[Len(p.stack)]
                  IN [p EXCEPT !.words[start] = Written(p.words) - 4 * (start - 1),
                               !.stack = SubSeq(@, 1, Len(@) - 1)]

End(p) ==
    CASE p.err # "none" -> p
      [] p.err = "none" /\ p.stack = <<>> -> Fail(p, "state")
      [] OTHER -> Pad8(Patch([p EXCEPT !.stack = SubSeq(@, 1, Len(@) - 1)],
                             p.stack[Len(p.stack)]))

\* A value: one word or two of a scalar type (choice is Plain), or a choice
\* of words of that type.
Plain == -1
Id(v) == [choice |-> Plain, type |-> TypeId, size |-> 4, vals |-> <<v, 0>>]
IntPod(v) == [choice |-> Plain, type |-> TypeInt, size |-> 4, vals |-> <<v, 0>>]
Rectangle(w, h) == [choice |-> Plain, type |-> TypeRectangle, size |-> 8, vals |-> <<w, h>>]
Fraction(n, d) == [choice |-> Plain, type |-> TypeFraction, size |-> 8, vals |-> <<n, d>>]
ChoiceEnumId(vals) == [choice |-> ChoiceEnum, type |-> TypeId, size |-> 4, vals |-> vals]
ChoiceRangeInt(d, lo, hi) ==
    [choice |-> ChoiceRange, type |-> TypeInt, size |-> 4, vals |-> <<d, lo, hi>>]
ChoiceRangeFraction(d, lo, hi) ==
    [choice |-> ChoiceRange, type |-> TypeFraction, size |-> 8, vals |-> d \o lo \o hi]
ChoiceFlagsInt(flags) ==
    [choice |-> ChoiceFlags, type |-> TypeInt, size |-> 4, vals |-> <<flags>>]

Scalar(p, v) ==
    IF Room(p, 16) THEN Put(p, <<v.size, v.type>> \o v.vals) ELSE Fail(p, "full")

\* Faulty variant: no room is kept for the padding.
ChoiceUnpadded(p, v) ==
    CASE v.vals = <<>> -> Fail(p, "state")
      [] v.vals # <<>> /\ ~Room(p, 24 + Written(v.vals)) -> Fail(p, "full")
      [] OTHER -> Pad8(Patch(Put(p, <<0, TypeChoice, v.choice, 0, v.size, v.type>> \o v.vals),
                             Len(p.words) + 1))

\* choiceBegin, the values, choiceEnd.
Choice(p, v) ==
    LET n == Written(p.words)
    IN CASE v.vals = <<>> -> Fail(p, "state")
         [] v.vals # <<>> /\ ~Room(p, Align8(n + 24 + Written(v.vals)) - n) -> Fail(p, "full")
         [] OTHER -> Pad8(Patch(Put(p, <<0, TypeChoice, v.choice, 0, v.size, v.type>> \o v.vals),
                                Len(p.words) + 1))

Value(p, v) == IF v.choice = Plain THEN Scalar(p, v) ELSE Choice(p, v)

BytesOK(p) == p.err = "none" /\ p.stack = <<>>

-----------------------------------------------------------------------------
(* The parameters the library makes.  A property is a key and a value.     *)

p ++ kv == Value(Prop(p, kv.key), kv.val)

Open(len, type, id) == Object(NewPodBuilder(len), type, id)

SixProps(p, kvs) == p ++ kvs[1] ++ kvs[2] ++ kvs[3] ++ kvs[4] ++ kvs[5] ++ kvs[6]

Refused(len) == Fail(NewPodBuilder(len), "state")

\* podEnumFormats: the default is also the first of the alternatives.
EnumFormats(formats) ==
    IF Len(formats) = 1 THEN Id(formats[1]) ELSE ChoiceEnumId(<<formats[1]>> \o formats)

EnumFormatProps(w, h, maxFPS, formats) == <<
    [key |-> FormatKeyMediaType, val |-> Id(MediaTypeVideo)],
    [key |-> FormatKeyMediaSubtype, val |-> Id(MediaSubtypeRaw)],
    [key |-> FormatKeyVideoFormat, val |-> EnumFormats(formats)],
    [key |-> FormatKeyVideoSize, val |-> Rectangle(Word(w), Word(h))],
    [key |-> FormatKeyVideoFramerate, val |-> Fraction(0, 1)],
    [key |-> FormatKeyVideoMaxRate,
     val |-> ChoiceRangeFraction(<<Word(maxFPS), 1>>, <<1, 1>>, <<Word(maxFPS), 1>>)]>>

VideoEnumFormat(len, w, h, maxFPS, formats) ==
    IF formats = <<>> \/ w <= 0 \/ h <= 0 \/ maxFPS <= 0
    THEN Refused(len)
    ELSE End(SixProps(Open(len, TypeObjectFormat, ParamEnumFormat),
                      EnumFormatProps(w, h, maxFPS, formats)))

BuffersProps(size, stride, minBuf, defBuf, maxBuf, dataTypes) == <<
    [key |-> BuffersKeyBuffers, val |-> ChoiceRangeInt(defBuf, minBuf, maxBuf)],
    [key |-> BuffersKeyBlocks, val |-> IntPod(1)],
    [key |-> BuffersKeySize, val |-> IntPod(size)],
    [key |-> BuffersKeyStride, val |-> IntPod(stride)],
    [key |-> BuffersKeyAlign, val |-> IntPod(16)],
    [key |-> BuffersKeyDataType, val |-> ChoiceFlagsInt(dataTypes)]>>

\* What is not refused is its own word.
VideoBuffers(len, size, stride, minBuf, defBuf, maxBuf, dataTypes) ==
    IF \/ size <= 0 \/ stride <= 0 \/ minBuf <= 0 \/ defBuf < minBuf \/ maxBuf < defBuf
       \/ size > MaxInt32 \/ stride > MaxInt32 \/ maxBuf > MaxInt32
    THEN Refused(len)
    ELSE End(SixProps(Open(len, TypeObjectParamBuffers, ParamBuffers),
                      BuffersProps(size, stride, minBuf, defBuf, maxBuf, dataTypes)))

MetaProps == <<
    [key |-> MetaKeyType, val |-> Id(MetaTypeHeader)],
    [key |-> MetaKeySize, val |-> IntPod(MetaHeaderSize)]>>

MetaHeader(len) == End(Open(len, TypeObjectParamMeta, ParamMeta) ++ MetaProps[1] ++ MetaProps[2])

\* buildRawAudioParams writes its one pod without a builder: the sizes are
\* constants, and a property takes 24 bytes.
propSize == 24
objBodySize == 8 + 5 * propSize
writeIdProp(key, v) == <<key, 0, 4, TypeId, v, 0>>
writeIntProp(key, v) == <<key, 0, 4, TypeInt, v, 0>>

RawAudioParams(rate, channels) ==
    [NewPodBuilder(8 + objBodySize) EXCEPT !.words =
       <<objBodySize, TypeObject, TypeObjectFormat, ParamEnumFormat>>
       \o writeIdProp(FormatKeyMediaType, MediaTypeAudio)
       \o writeIdProp(FormatKeyMediaSubtype, MediaSubtypeRaw)
       \o writeIdProp(FormatKeyAudioFormat, AudioFormatF32P)
       \o writeIntProp(FormatKeyAudioRate, Word(rate))
       \o writeIntProp(FormatKeyAudioChannels, Word(channels))]

\* What it means by them.
RawAudioProps(rate, channels) == <<
    [key |-> FormatKeyMediaType, val |-> Id(MediaTypeAudio)],
    [key |-> FormatKeyMediaSubtype, val |-> Id(MediaSubtypeRaw)],
    [key |-> FormatKeyAudioFormat, val |-> Id(AudioFormatF32P)],
    [key |-> FormatKeyAudioRate, val |-> IntPod(Word(rate))],
    [key |-> FormatKeyAudioChannels, val |-> IntPod(Word(channels))]>>

-----------------------------------------------------------------------------
(* ParseVideoFormat.  A pod is its words and its length in bytes.          *)

At(pod, off) == IF off \div 4 < Len(pod.words) THEN pod.words[off \div 4 + 1] ELSE 0

PodEnd(pod) == 8 + At(pod, 0)

IsFormat(pod) ==
    /\ pod.len >= 16
    /\ At(pod, 4) = TypeObject /\ At(pod, 0) >= 8 /\ PodEnd(pod) <= pod.len
    /\ At(pod, 8) = TypeObjectFormat

\* The property at off has its key there, its value's size at off + 8, the
\* type at off + 12 and the body at off + 16.
BodyFits(pod, off) == off + 16 + At(pod, off + 8) <= PodEnd(pod)
IsChoice(pod, off) == At(pod, off + 12) = TypeChoice

\* Faulty variant: the header of a choice is taken to be there.
ChoiceHeaderAssumed(pod, off) == TRUE

\* The body of a choice has its type, flags and the header of its values.
ChoiceHeaderFits(pod, off) == At(pod, off + 8) >= 16

\* Faulty variant: any choice stands for its first value.
FixedByDefault(pod, off) ==
    IsChoice(pod, off) =>
        /\ ChoiceHeaderFits(pod, off)
        /\ At(pod, off + 24) <= At(pod, off + 8) - 16

\* A choice is a fixed value only if its type is None.
Fixed(pod, off) ==
    IsChoice(pod, off) =>
        /\ ChoiceHeaderFits(pod, off)
        /\ At(pod, off + 16) = ChoiceNone
        /\ At(pod, off + 24) <= At(pod, off + 8) - 16

ValueType(pod, off) == IF IsChoice(pod, off) THEN At(pod, off + 28) ELSE At(pod, off + 12)
ValueSize(pod, off) == IF IsChoice(pod, off) THEN At(pod, off + 24) ELSE At(pod, off + 8)
ValueBody(pod, off) == IF IsChoice(pod, off) THEN off + 32 ELSE off + 16

\* The cases of the switch, with the bytes each reads.
CaseSize(key, type) ==
    CASE key \in {FormatKeyMediaType, FormatKeyMediaSubtype, FormatKeyVideoFormat} /\ type = TypeId -> 4
      [] key = FormatKeyVideoSize /\ type = TypeRectangle -> 8
      [] OTHER -> 0
Matches(pod, off) ==
    LET bytes == CaseSize(At(pod, off), ValueType(pod, off))
    IN bytes > 0 /\ ValueSize(pod, off) >= bytes

ValidExtent(n) == n # 0 /\ n <= 1048576
SizeValid(pod, off) ==
    At(pod, off) = FormatKeyVideoSize /\ Matches(pod, off) =>
        ValidExtent(At(pod, ValueBody(pod, off))) /\ ValidExtent(At(pod, ValueBody(pod, off) + 4))

Accepted(pod, off) == BodyFits(pod, off) /\ Fixed(pod, off) /\ SizeValid(pod, off)

\* The offsets of the properties the loop comes to.
Visited(pod) ==
    LET next(off) == Align8(off + 16 + At(pod, off + 8))
        walk[off \in 0 .. PodEnd(pod)] ==
            IF off + 16 > PodEnd(pod) THEN {}
            ELSE {off} \cup IF Accepted(pod, off) /\ next(off) <= PodEnd(pod)
                            THEN walk[next(off)] ELSE {}
    IN IF IsFormat(pod) /\ PodEnd(pod) >= 16 THEN walk[16] ELSE {}

NotAFormat == [ok |-> FALSE, format |-> 0, w |-> 0, h |-> 0]

ParseVideoFormat(pod) ==
    LET found(key) == {off \in Visited(pod) : At(pod, off) = key /\ Matches(pod, off)}
        last(key) == CHOOSE off \in found(key) : \A o \in found(key) : o <= off
        val(key, i) == At(pod, ValueBody(pod, last(key)) + i)
    IN IF /\ IsFormat(pod)
          /\ \A off \in Visited(pod) : Accepted(pod, off)
          /\ \A key \in {FormatKeyMediaType, FormatKeyMediaSubtype, FormatKeyVideoFormat, FormatKeyVideoSize} :
                found(key) # {}
          /\ val(FormatKeyMediaType, 0) = MediaTypeVideo
          /\ val(FormatKeyMediaSubtype, 0) = MediaSubtypeRaw
       THEN [ok |-> TRUE, format |-> val(FormatKeyVideoFormat, 0),
             w |-> val(FormatKeyVideoSize, 0), h |-> val(FormatKeyVideoSize, 4)]
       ELSE NotAFormat

\* How far into the pod the parser reads.
ReadEnds(pod) ==
    (IF pod.len >= 16 THEN {12} ELSE {})
    \cup UNION {
        {off + 16}
        \cup (IF BodyFits(pod, off) /\ IsChoice(pod, off) /\ ChoiceHeaderFits(pod, off)
              THEN {off + 32} ELSE {})
        \cup (IF BodyFits(pod, off) /\ Fixed(pod, off) /\ Matches(pod, off)
              THEN {ValueBody(pod, off) + CaseSize(At(pod, off), ValueType(pod, off))} ELSE {})
        : off \in Visited(pod)}

-----------------------------------------------------------------------------
(* What pods mean: a value by itself, and a body inside an object.  The    *)
(* sizes are those of what is inside.                                      *)

Padded(ws) == IF Len(ws) % 2 = 0 THEN ws ELSE ws \o <<0>>

Encoded(v) ==
    IF v.choice = Plain THEN <<v.size, v.type>> \o v.vals
    ELSE Padded(<<16 + Written(v.vals), TypeChoice, v.choice, 0, v.size, v.type>> \o v.vals)

EncodedObject(type, id, body) == <<8 + Written(body), TypeObject, type, id>> \o body

EncodedProp(kv) == <<kv.key, 0>> \o Encoded(kv.val)

EncodedProps(props) ==
    LET upTo[i \in 0 .. Len(props)] ==
          IF i = 0 THEN <<>> ELSE upTo[i - 1] \o EncodedProp(props[i])
    IN upTo[Len(props)]

\* The body of the innermost object that is open, or what is outside of all.
Inside(ws) == [meant EXCEPT ![Len(meant)].body = @ \o ws]

Outermost == [type |-> 0, id |-> 0, body |-> <<>>]

-----------------------------------------------------------------------------

Init ==
    /\ b \in {NewPodBuilder(len) : len \in Lengths}
    /\ meant = <<Outermost>>
    /\ param = [words |-> <<>>, len |-> 0]
    /\ said = <<>> /\ intact = TRUE

\* A call of a builder's method; after an error it has no effect.
Calling == param.len = 0 /\ Written(b.words) <= MaxWritten
Called(p, m) ==
    /\ b' = p
    /\ meant' = IF b.err = "none" THEN m ELSE meant
    /\ UNCHANGED <<param, said, intact>>

CallObject ==
    Calling /\ \E t \in Arguments :
        Called(Object(b, t, t), Append(meant, [type |-> t, id |-> t, body |-> <<>>]))

CallProp == Calling /\ \E key \in Arguments : Called(Prop(b, key), Inside(<<key, 0>>))

CallEnd ==
    /\ Calling
    /\ LET top == meant[Len(meant)]
           rest == SubSeq(meant, 1, Len(meant) - 1)
       IN Called(End(b),
                 IF rest = <<>> THEN meant
                 ELSE [rest EXCEPT ![Len(rest)].body =
                         @ \o EncodedObject(top.type, top.id, top.body)])

CallValue == Calling /\ \E val \in Values : Called(Value(b, val), Inside(Encoded(val)))

\* A function that makes a whole parameter, into a buffer of the same length.
Fresh == Calling /\ b = NewPodBuilder(b.len) /\ meant = <<Outermost>>
Made(p, type, id, props) ==
    Called(p, [meant EXCEPT ![1].body = EncodedObject(type, id, EncodedProps(props))])

OfferedFormats == {<<>>, <<8>>, <<8, 12>>, <<12, 8, 12, 8>>}

MakeEnumFormat ==
    Fresh /\ \E w, h, fps \in Ints, formats \in OfferedFormats :
        LET p == VideoEnumFormat(b.len, w, h, fps, formats)
        IN IF formats = <<>> THEN Called(p, meant)
           ELSE Made(p, TypeObjectFormat, ParamEnumFormat, EnumFormatProps(w, h, fps, formats))

MakeBuffers ==
    Fresh /\ \E size, stride, least, most \in Ints :
        Made(VideoBuffers(b.len, size, stride, least, 2, most, 4),
             TypeObjectParamBuffers, ParamBuffers, BuffersProps(size, stride, least, 2, most, 4))

MakeMeta == Fresh /\ Made(MetaHeader(b.len), TypeObjectParamMeta, ParamMeta, MetaProps)

MakeRawAudio ==
    Fresh /\ \E rate, channels \in Ints :
        /\ rate > 0 /\ channels > 0
        /\ Made(RawAudioParams(rate, channels), TypeObjectFormat, ParamEnumFormat,
                RawAudioProps(rate, channels))

-----------------------------------------------------------------------------
(* PipeWire sends a format, property by property.                          *)

None(v) == [choice |-> ChoiceNone, type |-> v.type, size |-> v.size,
            vals |-> SubSeq(v.vals, 1, v.size \div 4)]

SentProps ==
    {[key |-> FormatKeyMediaType, val |-> v] : v \in {None(Id(MediaTypeVideo)), Id(MediaTypeVideo), Id(MediaTypeAudio)}}
    \cup {[key |-> FormatKeyMediaSubtype, val |-> None(Id(1))]}
    \cup {[key |-> FormatKeyVideoFormat, val |-> v] : v \in {None(Id(8)), Id(12), ChoiceEnumId(<<8, 12>>)}}
    \cup {[key |-> FormatKeyVideoSize, val |-> v] : v \in {None(Rectangle(3, 2)), Rectangle(2, 0)}}
    \cup {[key |-> FormatKeyVideoMaxRate,
           val |-> [ChoiceRangeFraction(<<60, 1>>, <<1, 1>>, <<60, 1>>)
                    EXCEPT !.choice = ChoiceNone]]}

\* Only a builder that was not used makes way for a received format.
Idle == b = NewPodBuilder(b.len) /\ meant = <<Outermost>> /\ \A l \in Lengths : b.len <= l

Received(props) ==
    LET ws == EncodedObject(TypeObjectFormat, ParamFormat, EncodedProps(props))
    IN [words |-> ws, len |-> Written(ws)]

ReceiveProp ==
    /\ Idle /\ intact /\ Len(said) < MaxProps
    /\ \E kv \in SentProps : said' = Append(said, kv)
    /\ param' = Received(said')
    /\ UNCHANGED <<b, meant, intact>>

CutShort ==
    /\ intact /\ param.len > 0 /\ Len(said) <= MaxDamaged
    /\ \E len \in 1 .. param.len - 1 : param' = [param EXCEPT !.len = len]
    /\ intact' = FALSE
    /\ UNCHANGED <<b, meant, said>>

Damage ==
    /\ intact /\ param.len > 0 /\ Len(said) <= MaxDamaged
    /\ \E i \in DOMAIN param.words, v \in {0, 4, 8, 15, 16, 24, TypeChoice} :
          param' = [param EXCEPT !.words[i] = v]
    /\ intact' = FALSE
    /\ UNCHANGED <<b, meant, said>>

Next ==
    \/ CallObject \/ CallProp \/ CallEnd \/ CallValue
    \/ MakeEnumFormat \/ MakeBuffers \/ MakeMeta \/ MakeRawAudio
    \/ ReceiveProp \/ CutShort \/ Damage

Spec == Init /\ [][Next]_vars

-----------------------------------------------------------------------------
(* Properties.                                                             *)

\* Nothing is written past the end of the caller's buffer, where the code would
\* panic, although End and choiceEnd pad without asking for room: "Padding was
\* already room-checked by the last value; objects always end on an 8-byte
\* boundary because every value is padded."  The headers to patch lie inside.
BuilderOK ==
    /\ Written(b.words) <= b.len /\ Len(b.words) % 2 = 0
    /\ Len(b.stack) <= podMaxDepth
    /\ \A i \in DOMAIN b.stack : b.stack[i] + 3 <= Len(b.words)

\* When Bytes succeeds, the buffer holds exactly what the calls said, each pod
\* with the size of its contents, however objects were nested and padded, and no
\* call was lost.  Numbers are the words of what was asked for.
BytesAsMeant == BytesOK(b) => meant = <<[Outermost EXCEPT !.body = b.words]>>

\* What was said in a format that arrived whole: the last value of each key, and
\* nothing when a value still offers alternatives, a size is absurd, or
\* something is missing.
SaidFormat ==
    LET of(key) == {i \in DOMAIN said : said[i].key = key}
        val(key) == said[CHOOSE i \in of(key) : \A j \in of(key) : j <= i].val.vals
    IN IF /\ \A i \in DOMAIN said : said[i].val.choice \in {Plain, ChoiceNone}
          /\ \A i \in of(FormatKeyVideoSize) : said[i].val.vals[1] > 0 /\ said[i].val.vals[2] > 0
          /\ \A key \in {FormatKeyMediaType, FormatKeyMediaSubtype, FormatKeyVideoFormat, FormatKeyVideoSize} :
                of(key) # {}
          /\ val(FormatKeyMediaType)[1] = MediaTypeVideo
          /\ val(FormatKeyMediaSubtype)[1] = MediaSubtypeRaw
       THEN [ok |-> TRUE, format |-> val(FormatKeyVideoFormat)[1],
             w |-> val(FormatKeyVideoSize)[1], h |-> val(FormatKeyVideoSize)[2]]
       ELSE NotAFormat

\* The library's own offer of a video format, as it was written.
Offered ==
    \E w, h, fps \in Ints, formats \in OfferedFormats :
        b = VideoEnumFormat(b.len, w, h, fps, formats)

\* The parser gets out of a format what was said in it, accepts nothing that was
\* cut short, and does not take the library's own offer for a format ("Choices
\* that still offer alternatives ... are rejected").
ParsesAsSaid ==
    /\ intact /\ said # <<>> => ParseVideoFormat(param) = SaidFormat
    /\ param.len < Written(param.words) => ParseVideoFormat(param) = NotAFormat
    /\ BytesOK(b) /\ ParseVideoFormat([words |-> b.words, len |-> Written(b.words)]) # NotAFormat
         => ~Offered

\* Whatever arrives, the parser reads inside of it.
ReadsInside == \A e \in ReadEnds(param) : e <= param.len

=============================================================================
