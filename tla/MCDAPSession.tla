---------------------------- MODULE MCDAPSession ----------------------------
(* Model-checking instances of DAPSession: the DAP commands and events the  *)
(* scripts use, and the scripts of DAPScripts.                             *)
EXTENDS DAPSession, DAPScripts

MCCommands == {"initialize", "launch", "attach", "setBreakpoints",
               "configurationDone", "continue", "threads", "stackTrace",
               "scopes", "variables", "disconnect"}
MCEventNames == {"initialized", "stopped", "output"}
\* initialized follows launch/attach; the program runs, stops and prints
\* after configurationDone and after each continue.
MCTrigger == [e \in MCEventNames |->
                IF e = "initialized" THEN {"launch", "attach"}
                ELSE {"configurationDone", "continue"}]
=============================================================================
