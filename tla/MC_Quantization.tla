---- MODULE MC_Quantization ----
\* Inputs for model checking the QuantizationEngine. Decimals with up to two
\* places cover exact and inexact doubles, halves and exact multiples of each
\* step. The instruments mix exponents below, at and above zero, and steps
\* of 1 and 10, so that ties, exact multiples and the one-step floor occur.
EXTENDS Quantization

MC_Decimals == [mantissa : 0..25, scale : 0..2]

MC_Instruments ==
    [atomic_resolution : {-2, -1}, quantum_conversion_exponent : {4, 5},
     step_base_quantums : {1, 10}, subticks_per_tick : {1, 10}]

\* Every USDC amount from 0.01 to 9.99. The error sign of the double
\* (m / 100.0) * 1e6 against the exact m * 10^4, as binary64 arithmetic
\* computes it (the same on every IEEE-754 target): 20 of these products lie
\* just below the exact value, 14 just above, the rest are exact.
MC_UsdcBelow == {201, 203, 205, 207, 209, 402, 406, 410, 414, 418,
                 803, 804, 811, 812, 819, 820, 828, 829, 836, 837}
MC_UsdcAbove == {403, 407, 411, 415, 419, 805, 806, 813, 814, 821, 822,
                 830, 831, 838}
MC_UsdcProductError ==
    [d \in [mantissa : 1..999, scale : {2}] |->
       IF d.mantissa \in MC_UsdcBelow THEN -1
       ELSE IF d.mantissa \in MC_UsdcAbove THEN 1 ELSE 0]
====
