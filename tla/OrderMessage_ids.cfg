CONSTANTS
    ClobPairIdOf <- MC_ClobPairIdOf
    Symbols <- MC_Symbols
    Cids <- MC_Cids
    GoodTillBlocks <- MC_GoodTillBlocks
    GoodTillTimes <- MC_GoodTillTimes
    LatestHeights <- MC_LatestHeights
    Now <- MC_Now
    ClientMetadatas <- MC_ClientMetadatas
    MaxMessages <- MC_MaxMessages
    Me <- MC_Me
    Recipients <- MC_Recipients
    AssetIds <- MC_AssetIds
    Amounts <- MC_Amounts
    NDEBUG <- MC_NDEBUG
SPECIFICATION Spec
INVARIANTS
    TypeOK
    GoodTillMatchesFlags
    CancelMatchesPlacement
    BalanceMovesOwnFunds
\* A failed assert ends the process: the state after it has no successor.
CHECK_DEADLOCK FALSE
