CONSTANTS
    BodyKinds <- MC_BodyKinds
    TlsModes <- MC_TlsModes
SPECIFICATION Spec
PROPERTY RequestReturns
