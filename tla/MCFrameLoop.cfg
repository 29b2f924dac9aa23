\* DAPClient.read_message against a server that segments and may close.
CONSTANTS
    Variant = "DAPClient"
    HeaderLen = 2
    BodyLens = {1, 2, 3, 4}
    ServerMayClose = TRUE
SPECIFICATION Spec
INVARIANT BodyComplete
PROPERTY ReadReturns ReadRefinement
CHECK_DEADLOCK FALSE
