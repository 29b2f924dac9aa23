\* test_dap_breakpoint.py: the read_message-driven script; seq numbering.
CONSTANTS
    Commands <- MCCommands
    EventNames <- MCEventNames
    Trigger <- MCTrigger
    Script <- BreakpointScript
    MaxEvents = 2
    ServerMayCrash = TRUE
INIT Init
NEXT Next
INVARIANT SeqConsecutive
CHECK_DEADLOCK FALSE
PROPERTY ImplementsAPI
