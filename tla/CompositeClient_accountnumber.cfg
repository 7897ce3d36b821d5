\* The caller retrieves its AccountInfo before the address is funded; the
\* node is otherwise reliable.
CONSTANTS
    ChainAccountNumber <- MC_ChainAccountNumber
    UnknownAccountNumber = UnknownAccountNumber
    MaxSequence <- MC_MaxSequence
    MayRejectOther = FALSE
    MayLoseResponse = FALSE
    InitialExists = {FALSE}
SPECIFICATION Spec
PROPERTY
    SignsWithAssignedNumber
