\* test_dap_attach.py: is disconnect always sent before close()? (expected violation)
CONSTANTS
    Commands <- MCCommands
    EventNames <- MCEventNames
    Trigger <- MCTrigger
    Script <- AttachScript
    MaxEvents = 2
    ServerMayCrash = FALSE
INIT Init
NEXT Next
INVARIANT DisconnectBeforeClose
CHECK_DEADLOCK FALSE
