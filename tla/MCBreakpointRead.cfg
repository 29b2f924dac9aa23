\* test_dap_breakpoint.py: is the message read after a send its response? (expected violation)
CONSTANTS
    Commands <- MCCommands
    EventNames <- MCEventNames
    Trigger <- MCTrigger
    Script <- BreakpointScript
    MaxEvents = 2
    ServerMayCrash = FALSE
INIT Init
NEXT Next
PROPERTY ReadIsResponse
CHECK_DEADLOCK FALSE
