CONSTANTS
    Decimals <- MC_Decimals
    Instruments <- MC_Instruments
    UsdcProductError <- MC_UsdcProductError
SPECIFICATION Spec
INVARIANT
    QuoteQuantumsExact
