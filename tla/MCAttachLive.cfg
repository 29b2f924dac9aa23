\* test_dap_attach.py against a server that never crashes: the script reaches close().
CONSTANTS
    Commands <- MCCommands
    EventNames <- MCEventNames
    Trigger <- MCTrigger
    Script <- AttachScript
    MaxEvents = 2
    ServerMayCrash = FALSE
SPECIFICATION Spec
PROPERTY Termination
CHECK_DEADLOCK FALSE
