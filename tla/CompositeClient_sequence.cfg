\* The sequence protocol under every environment behaviour: rejections for
\* any reason, lost responses, and an account that may not exist yet.
CONSTANTS
    ChainAccountNumber <- MC_ChainAccountNumber
    UnknownAccountNumber = UnknownAccountNumber
    MaxSequence <- MC_MaxSequence
    MayRejectOther = TRUE
    MayLoseResponse = TRUE
    InitialExists = {TRUE, FALSE}
SPECIFICATION Spec
INVARIANTS
    TypeOK
    NoSequenceReuse
    RunsAheadOnlyAfterRejection
PROPERTIES
    AcceptedKeepsSync
    SignsAtomically
