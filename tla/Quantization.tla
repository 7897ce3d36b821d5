---- MODULE Quantization ----
\* The QuantizationEngine of encoding/proto.cpp: ToProtoQuantums,
\* ToProtoSubticks and ToProtoQuantumsUSDC turn a human price, size or USDC
\* amount (a double) into the chain's integer units.
\*
\* A caller's decimal d is [mantissa |-> m, scale |-> s], the number m * 10^-s.
\* A double computation is modelled by its exact rational result and an error
\* sign err: -1 when the double lies just below the exact value, 1 just above,
\* 0 when it is exact. The error is far smaller than any step, so it only
\* matters where the exact value sits on a rounding boundary: a half for
\* std::round, an integer for the truncating static_cast.
EXTENDS Integers

CONSTANTS
    Decimals,         \* the prices and sizes callers pass
    Instruments,      \* InstrumentInfo records from the ExchangeInfo
    UsdcProductError  \* USDC amount -> the error sign of its double
                      \* product amount * 1e6 in IEEE-754 binary64

\* proto.h: the quote asset (USDC) has atomic resolution -6.
QUOTE_QUANTUMS_ATOMIC_RESOLUTION == -6

VARIABLES
    last          \* the most recent conversion call: its inputs and result

vars == <<last>>


NoInfo == [atomic_resolution |-> 0, quantum_conversion_exponent |-> 0,
           step_base_quantums |-> 1, subticks_per_tick |-> 1]

NoCall == [call |-> "none", input |-> [mantissa |-> 0, scale |-> 0],
           info |-> NoInfo, err |-> 0, out |-> 0]

\* The exact value of d * 10^e, as a rational [num, den].
Scaled(d, e) ==
    IF e >= d.scale
    THEN [num |-> d.mantissa * 10^(e - d.scale), den |-> 1]
    ELSE [num |-> d.mantissa, den |-> 10^(d.scale - e)]

\* v / k for a positive integer k (the division by the step or tick).
Divided(v, k) == [num |-> v.num, den |-> v.den * k]

\* The error signs the double result of d * std::pow(10, e) can carry. The
\* product is exact when d is a dyadic rational (m divisible by 5^s) and
\* 10^e is an integer; otherwise it is rounded to the nearest double, which
\* may lie on either side of the exact value, or hit it.
DoubleErrors(d, e) ==
    IF d.mantissa % (5^d.scale) = 0 /\ e >= 0 THEN {0} ELSE {-1, 0, 1}

\* std::round of a non-negative double whose exact value is v: half away
\* from zero. A double just below a half rounds down.
RoundHalfAway(v, err) ==
    LET f == v.num \div v.den
        r == v.num % v.den
    IN IF 2 * r > v.den \/ (2 * r = v.den /\ err # -1) THEN f + 1 ELSE f

\* static_cast<uint64_t> of a non-negative double whose exact value is v:
\* truncation. A double just below an integer truncates to the one below.
Truncate(v, err) ==
    LET f == v.num \div v.den
        r == v.num % v.den
    IN IF r = 0 /\ err = -1 THEN f - 1 ELSE f

MaxOf(a, b) == IF a >= b THEN a ELSE b

\* A mutant: the cast without std::round, as in static_cast<uint64_t>(x).
ToProtoQuantumsTruncating(size, info, err) ==
    LET raw == Scaled(size, -1 * info.atomic_resolution)
        quantums == info.step_base_quantums *
                      Truncate(Divided(raw, info.step_base_quantums), err)
    IN MaxOf(quantums, info.step_base_quantums)

\* proto.cpp ToProtoQuantums: scale by 10^-atomic_resolution, round to a
\* multiple of the step, and never return less than one step.
ToProtoQuantums(size, info, err) ==
    LET raw == Scaled(size, -1 * info.atomic_resolution)
        quantums == info.step_base_quantums *
                      RoundHalfAway(Divided(raw, info.step_base_quantums), err)
    IN MaxOf(quantums, info.step_base_quantums)

\* proto.cpp ToProtoSubticks, line 111.
SubticksExponent(info) ==
    info.atomic_resolution - info.quantum_conversion_exponent
        - QUOTE_QUANTUMS_ATOMIC_RESOLUTION

\* A mutant: the subticks without the std::max floor at one tick.
ToProtoSubticksUnfloored(price, info, err) ==
    LET raw == Scaled(price, SubticksExponent(info))
    IN info.subticks_per_tick *
         RoundHalfAway(Divided(raw, info.subticks_per_tick), err)

\* proto.cpp ToProtoSubticks: the same policy with the tick size.
ToProtoSubticks(price, info, err) ==
    LET raw == Scaled(price, SubticksExponent(info))
        subticks == info.subticks_per_tick *
                      RoundHalfAway(Divided(raw, info.subticks_per_tick), err)
    IN MaxOf(subticks, info.subticks_per_tick)

\* proto.cpp ToProtoQuantumsUSDC: scale by 10^6 and truncate.
ToProtoQuantumsUSDC(size, err) ==
    Truncate(Scaled(size, -1 * QUOTE_QUANTUMS_ATOMIC_RESOLUTION), err)

Init == last = NoCall

\* CreatePlaceOrderMessage (both overloads) converts the order size.
CallToProtoQuantums ==
    /\ last.call = "none"
    /\ \E size \in Decimals, info \in Instruments :
      \E err \in DoubleErrors(size, -1 * info.atomic_resolution) :
        last' = [call |-> "quantums", input |-> size, info |-> info,
                 err |-> err, out |-> ToProtoQuantums(size, info, err)]

\* CreatePlaceOrderMessage (both overloads) converts the order price.
CallToProtoSubticks ==
    /\ last.call = "none"
    /\ \E price \in Decimals, info \in Instruments :
      \E err \in DoubleErrors(price, SubticksExponent(info)) :
        last' = [call |-> "subticks", input |-> price, info |-> info,
                 err |-> err, out |-> ToProtoSubticks(price, info, err)]

\* CreateTransferMessage, CreateDepositToSubaccountMessage and
\* CreateWithdrawFromSubaccountMessage convert the USDC amount. std::pow(10,
\* 6) is exactly 1e6, so the one rounding is that of the product, whose
\* side is a fixed fact of binary64 for each amount: the constant
\* UsdcProductError, rather than the over-approximation DoubleErrors.
CallToProtoQuantumsUSDC ==
    /\ last.call = "none"
    /\ \E amount \in DOMAIN UsdcProductError :
        last' = [call |-> "usdc", input |-> amount, info |-> NoInfo,
                 err |-> UsdcProductError[amount],
                 out |-> ToProtoQuantumsUSDC(amount, UsdcProductError[amount])]

\* The caller uses the result (builds the message) and makes its next call.
Return ==
    /\ last.call # "none"
    /\ last' = NoCall

Next ==
    \/ CallToProtoQuantums
    \/ CallToProtoSubticks
    \/ CallToProtoQuantumsUSDC
    \/ Return

Spec == Init /\ [][Next]_vars

\* Reference definitions, from the contract of the QuantizationEngine.

\* |a - v| scaled by v's denominator.
Distance(a, v) == LET d == a * v.den - v.num IN IF d >= 0 THEN d ELSE -d

\* q is a multiple of step, at least one step, and no multiple of step of
\* at least one step is strictly closer to v.
IsNearestStep(q, step, v) ==
    /\ q % step = 0
    /\ q >= step
    /\ \A k \in 1..(q \div step + 1) : Distance(q, v) <= Distance(k * step, v)

\* The subticks exponent as the contract states it: atomic_resolution minus
\* quantum_conversion_exponent minus the quote resolution -6.
ContractSubticksExponent(info) ==
    info.atomic_resolution - info.quantum_conversion_exponent + 6

\* Properties.

\* ToProtoQuantums returns a nearest multiple of the step to the exact
\* size * 10^-atomic_resolution, and at least one step, whatever side of the
\* exact value the double products fall on.
QuantumsNearestStep ==
    last.call = "quantums" =>
      IsNearestStep(last.out, last.info.step_base_quantums,
                    Scaled(last.input, -1 * last.info.atomic_resolution))

\* ToProtoSubticks returns a nearest multiple of the tick to the exact
\* price * 10^(atomic_resolution - quantum_conversion_exponent + 6), and at
\* least one tick.
SubticksNearestTick ==
    last.call = "subticks" =>
      IsNearestStep(last.out, last.info.subticks_per_tick,
                    Scaled(last.input, ContractSubticksExponent(last.info)))

\* ToProtoQuantumsUSDC, used for every transfer, deposit and withdrawal,
\* returns the amount times 10^6 truncated: for an amount with at most six
\* decimals, exactly amount * 10^6.
QuoteQuantumsExact ==
    last.call = "usdc" =>
      last.out = (Scaled(last.input, 6).num \div Scaled(last.input, 6).den)
====
