\* test_dap_simple.py read_messages against a server that may close.
CONSTANTS
    Variant = "reader_thread"
    HeaderLen = 2
    BodyLens = {1, 2, 3, 4}
    ServerMayClose = TRUE
SPECIFICATION Spec
PROPERTY ThreadReturns
CHECK_DEADLOCK FALSE
