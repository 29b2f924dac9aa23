\* test_dap_simple.py read_messages: one recv for the body.
CONSTANTS
    Variant = "reader_thread"
    HeaderLen = 2
    BodyLens = {1, 2, 3}
    ServerMayClose = FALSE
SPECIFICATION Spec
INVARIANT BodyComplete
CHECK_DEADLOCK FALSE
