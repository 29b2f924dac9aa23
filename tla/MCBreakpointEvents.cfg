\* test_dap_breakpoint.py: does wait_for_event see events that came early? (expected violation)
CONSTANTS
    Commands <- MCCommands
    EventNames <- MCEventNames
    Trigger <- MCTrigger
    Script <- BreakpointScript
    MaxEvents = 2
    ServerMayCrash = FALSE
INIT Init
NEXT Next
PROPERTY EventNotLost
CHECK_DEADLOCK FALSE
