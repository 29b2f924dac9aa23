\* test_dap_attach.py, server may crash: does the script end after end-of-file? (expected violation)
CONSTANTS
    Commands <- MCCommands
    EventNames <- MCEventNames
    Trigger <- MCTrigger
    Script <- AttachScript
    MaxEvents = 2
    ServerMayCrash = TRUE
SPECIFICATION Spec
PROPERTY Termination
CHECK_DEADLOCK FALSE
