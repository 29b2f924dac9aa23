----------------------------- MODULE DAPScripts -----------------------------
(***************************************************************************)
(* The main() functions of the DAP test scripts, as scripts of DAPSession: *)
(* one step per DAPClient call or per if statement on what a call          *)
(* returned.  time.sleep and print are left out: they change no state the  *)
(* session depends on (sleep gives no ordering guarantee).  A for loop     *)
(* over a response body is one iteration: the Locals scope, one variable   *)
(* with a nonzero variablesReference.                                       *)
(***************************************************************************)
EXTENDS Naturals, Sequences

Do(op, name) == [op |-> op, name |-> name, to |-> 1]
Send(c) == Do("send", c)
WaitResp == Do("waitResp", "-")
Check == Do("check", "-")
Read == Do("read", "-")
WaitEvent(e) == Do("waitEvent", e)
\* An if statement that continues at step n when its test is false.
IfFound(n) == [op |-> "ifFound", name |-> "-", to |-> n]
IfBody(c, n) == [op |-> "ifBody", name |-> c, to |-> n]
CloseStep == Do("close", "-")

\* tests/integ/dap/test_dap_attach.py, test_attach_mode()
AttachScript ==
    << Send("initialize"), WaitResp, Check,           \* 1-3
       Send("attach"), WaitResp, Check,               \* 4-6
       Send("setBreakpoints"), WaitResp, Check,       \* 7-9
       Send("configurationDone"), WaitResp, Check,    \* 10-12
       Send("continue"), WaitResp,                    \* 13-14
       Send("disconnect"), WaitResp,                  \* 15-16
       CloseStep >>                                   \* 17

\* tests/integ/dap/test_dap_variables.py, test_variable_expansion()
VariablesScript ==
    << Send("initialize"), WaitResp, Check,           \* 1-3
       Send("launch"), WaitResp, Check,               \* 4-6
       Send("setBreakpoints"), WaitResp, Check,       \* 7-9
       Send("configurationDone"), WaitResp,           \* 10-11
       Send("continue"), WaitResp,                    \* 12-13
       Send("threads"), WaitResp,                     \* 14-15
       Send("stackTrace"), WaitResp,                  \* 16-17
       IfBody("stackTrace", 27),                      \* 18
       Send("scopes"), WaitResp,                      \* 19-20
       IfBody("scopes", 27),                          \* 21
       Send("variables"), WaitResp,                   \* 22-23
       IfBody("variables", 27),                       \* 24
       Send("variables"), WaitResp,                   \* 25-26
       Send("disconnect"), WaitResp,                  \* 27-28
       CloseStep >>                                   \* 29

\* pkg/gnolang/testdata/dap_tests/test_dap_breakpoint.py, main()
BreakpointScript ==
    << Send("initialize"), Read,                      \* 1-2
       Send("launch"), Read,                          \* 3-4
       WaitEvent("initialized"),                      \* 5
       Send("setBreakpoints"), Read,                  \* 6-7
       Send("configurationDone"), Read,               \* 8-9
       Send("continue"), Read,                        \* 10-11
       WaitEvent("stopped"),                          \* 12
       IfFound(25),                                   \* 13
       Send("stackTrace"), Read,                      \* 14-15
       IfBody("stackTrace", 22),                      \* 16
       Send("scopes"), Read,                          \* 17-18
       IfBody("scopes", 22),                          \* 19
       Send("variables"), Read,                       \* 20-21
       Send("continue"), Read,                        \* 22-23
       WaitEvent("stopped"),                          \* 24
       Send("disconnect"), Read,                      \* 25-26
       CloseStep >>                                   \* 27

=============================================================================
