\* test_dap_breakpoint.py, no crash: does every wait end? (expected violation)
CONSTANTS
    Commands <- MCCommands
    EventNames <- MCEventNames
    Trigger <- MCTrigger
    Script <- BreakpointScript
    MaxEvents = 2
    ServerMayCrash = FALSE
SPECIFICATION Spec
PROPERTY Termination
CHECK_DEADLOCK FALSE
