----------------------------- MODULE FrameRead -----------------------------
(***************************************************************************)
(* What a frame reader promises, with the bytes it has read abstracted     *)
(* away: the server writes a frame of HeaderLen + bodyLen bytes in         *)
(* segments and may close; the reader's call returns the decoded message   *)
(* ("ok") once the whole frame has arrived, and fails ("bad") only when    *)
(* the server closed before finishing it.  DAPFrame's DAPClient reader is  *)
(* shown to implement it.                                                  *)
(***************************************************************************)
EXTENDS Naturals

CONSTANTS HeaderLen, BodyLens, ServerMayClose

VARIABLES bodyLen, written, srvClosed, outcome

avars == <<bodyLen, written, srvClosed, outcome>>

Total == HeaderLen + bodyLen

Init ==
    /\ bodyLen \in BodyLens
    /\ written = 0
    /\ srvClosed = FALSE
    /\ outcome = "pending"

Write ==
    /\ ~srvClosed
    /\ written < Total
    /\ \E k \in 1..(Total - written) : written' = written + k
    /\ UNCHANGED <<bodyLen, srvClosed, outcome>>

Close ==
    /\ ~srvClosed
    /\ written = Total \/ ServerMayClose
    /\ srvClosed' = TRUE
    /\ UNCHANGED <<bodyLen, written, outcome>>

\* read_message returns the message: the whole frame is there.
Deliver ==
    /\ outcome = "pending"
    /\ written = Total
    /\ outcome' = "ok"
    /\ UNCHANGED <<bodyLen, written, srvClosed>>

\* read_message raises: the peer closed with the frame unfinished.
Fail ==
    /\ outcome = "pending"
    /\ srvClosed /\ written < Total
    /\ outcome' = "bad"
    /\ UNCHANGED <<bodyLen, written, srvClosed>>

Next == Write \/ Close \/ Deliver \/ Fail

\* A complete frame is always delivered; an unfinished one may leave the
\* reader waiting (no fairness on Fail).
Spec == Init /\ [][Next]_avars /\ WF_avars(Deliver) /\ WF_avars(Write)
=============================================================================
