---- MODULE MC_Encoding ----
\* The library's pure conversions, called one at a time by one caller: the
\* encoders of Encoding and the QuantizationEngine of Quantization share the
\* record of the most recent call.
\*
\* Bounds for Encoding: one 5-byte group of the fingerprint (to_5bits
\* handles each 5-byte group alike, since 40 bits leave no bit pending) over
\* bytes that set the top bit, the low bit, alternate bits and all bits; up
\* to five AddArg calls, more than the endpoint methods' four optionals in a
\* row; base64 strings of up to 4 bytes (a whole and a partial group); and
\* base64 texts of 0, 4 or 8 characters mixing two alphabet values, '=',
\* whitespace and an invalid character.
EXTENDS Encoding, Integers

MC_ByteValues == {0, 1, 90, 165, 255}
MC_FingerprintLen == 5
MC_MaxArgs == 5
MC_DecodeChars == {0, 63, Pad, Ws, Bad}

\* Bounds for Quantization: decimals with up to two places cover exact and
\* inexact doubles, halves and exact multiples of each step; the
\* instruments mix exponents below, at and above zero, and steps of 1 and
\* 10, so that ties, exact multiples and the one-step floor occur.
MC_Decimals == [mantissa : 0..25, scale : 0..2]

MC_Instruments ==
    [atomic_resolution : {-2, -1}, quantum_conversion_exponent : {4, 5},
     step_base_quantums : {1, 10}, subticks_per_tick : {1, 10}]

\* The USDC conversion takes its error signs from MC_Quantization's table.
MC_UsdcProductError ==
    [d \in [mantissa : {5, 201, 403}, scale : {2}] |->
       CASE d.mantissa = 201 -> -1 [] d.mantissa = 403 -> 1 [] OTHER -> 0]
Q == INSTANCE Quantization WITH Decimals <- MC_Decimals, Instruments <- MC_Instruments,
                                UsdcProductError <- MC_UsdcProductError

PureNext == Next \/ Q!Next

PureSpec == Init /\ [][PureNext]_vars

\* ToProtoQuantums returns the multiple of step_base_quantums nearest to
\* the size in quantums, and at least one step (Quantization).
QuantumsNearestStep == Q!QuantumsNearestStep

\* ToProtoSubticks returns the multiple of subticks_per_tick nearest to the
\* price in subticks, and at least one tick (Quantization).
SubticksNearestTick == Q!SubticksNearestTick
====
