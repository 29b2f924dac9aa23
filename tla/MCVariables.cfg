\* test_dap_variables.py against a server that may crash: response correlation.
CONSTANTS
    Commands <- MCCommands
    EventNames <- MCEventNames
    Trigger <- MCTrigger
    Script <- VariablesScript
    MaxEvents = 2
    ServerMayCrash = TRUE
INIT Init
NEXT Next
INVARIANT TypeOK WireCorrelated
PROPERTY ResponseCorrelated
CHECK_DEADLOCK FALSE
