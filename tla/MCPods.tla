------------------------------- MODULE MCPods -------------------------------
(***************************************************************************)
(* A small instance of Pods for TLC.                                       *)
(***************************************************************************)
EXTENDS Pods

\* Around the sizes at which an object, a property, a scalar and a choice just
\* fit, and the lengths of the buffers of VideoSource.
SmallLengths == {16, 39, 40, 44, 47, 48, 63, 64, 68, 72, 76, 80, 128, 512}

\* Around the bounds of int32 and of uint32, which are scaled down to 2^20 and 2^21
\* so that TLC can count past them; every constant of Pods is below.
SmallInts == {0, 1, MaxInt32, MaxInt32 + 1, 2 * MaxInt32 + 3}

\* Every method, with every remainder of the sizes of choices.
SmallValues == {
    Id(1), IntPod(1), Rectangle(1, 2), Fraction(1, 2),
    ChoiceEnumId(<<>>), ChoiceEnumId(<<1>>), ChoiceEnumId(<<1, 2>>),
    ChoiceRangeInt(2, 1, 3), ChoiceRangeFraction(<<2, 1>>, <<1, 1>>, <<3, 1>>), ChoiceFlagsInt(1)}

=============================================================================
