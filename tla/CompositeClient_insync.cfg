\* An existing, synchronised account; the node may reject a transaction for
\* a reason other than its sequence (insufficient funds, invalid order).
CONSTANTS
    ChainAccountNumber <- MC_ChainAccountNumber
    UnknownAccountNumber = UnknownAccountNumber
    MaxSequence <- MC_MaxSequence
    MayRejectOther = TRUE
    MayLoseResponse = FALSE
    InitialExists = {TRUE}
SPECIFICATION Spec
INVARIANTS
    InSync
