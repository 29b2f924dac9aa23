---------------------------- MODULE DAPClientAPI ----------------------------
(***************************************************************************)
(* What the DAPClient class promises a script, with the connection and the *)
(* server hidden: every call is one atomic step.  send_request numbers its *)
(* request; read_message returns some answer to a request written so far,  *)
(* or an event; wait_for_response returns the answer to the request just   *)
(* sent, or None; wait_for_event(e) an e event, or None.  Any of the      *)
(* three may instead raise (a frame cut by the server), and the script     *)
(* goes to its finally clause.  No call is promised to return (a wait     *)
(* loop may block), so there is no fairness.                               *)
(* DAPSession, with its wait loops, channels and server, implements it.   *)
(***************************************************************************)
EXTENDS Naturals, Sequences

CONSTANTS Commands, EventNames, Script

VARIABLES pc, seq, result, cclosed, sent

avars == <<pc, seq, result, cclosed, sent>>

None == [type |-> "none", seq |-> 0, name |-> "-", body |-> FALSE]
Response(r, b) == [type |-> "response", seq |-> r.seq, name |-> r.cmd, body |-> b]
EventMsg(e) == [type |-> "event", seq |-> 0, name |-> e, body |-> TRUE]

Finally == Len(Script)
Cur == Script[pc]
Running == pc \in 1..Len(Script)

\* The answers to the requests of the history, and the events.
Answers == {Response(sent[i], b) : i \in 1..Len(sent), b \in BOOLEAN}
Events == {EventMsg(e) : e \in EventNames}

Holds(st) ==
    \/ st.op = "ifFound" /\ result # None
    \/ st.op = "ifBody" /\ result.type = "response"
                        /\ result.name = st.name /\ result.body

Init ==
    /\ pc = 1
    /\ seq = 0
    /\ result = None
    /\ cclosed = FALSE
    /\ sent = <<>>

SendRequest ==
    /\ Running /\ Cur.op = "send"
    /\ seq' = seq + 1
    /\ sent' = Append(sent, [seq |-> seq + 1, cmd |-> Cur.name])
    /\ pc' = pc + 1
    /\ UNCHANGED <<result, cclosed>>

\* sendall raises: the request is numbered, not written, and the script
\* goes to its finally clause.
SendRaises ==
    /\ Running /\ Cur.op = "send"
    /\ seq' = seq + 1
    /\ pc' = Finally
    /\ UNCHANGED <<result, cclosed, sent>>

ReadMessage ==
    /\ Running /\ Cur.op = "read"
    /\ result' \in Answers \cup Events
    /\ pc' = pc + 1
    /\ UNCHANGED <<seq, cclosed, sent>>

WaitForResponse ==
    /\ Running /\ Cur.op = "waitResp"
    /\ \/ result' = None
       \/ sent # <<>> /\ \E b \in BOOLEAN : result' = Response(sent[Len(sent)], b)
    /\ pc' = pc + 1
    /\ UNCHANGED <<seq, cclosed, sent>>

WaitForEvent ==
    /\ Running /\ Cur.op = "waitEvent"
    /\ result' \in {None, EventMsg(Cur.name)}
    /\ pc' = pc + 1
    /\ UNCHANGED <<seq, cclosed, sent>>

\* read_message raises (also inside a wait): except, then finally.
ReadRaises ==
    /\ Running /\ Cur.op \in {"read", "waitResp", "waitEvent"}
    /\ result' = None
    /\ pc' = Finally
    /\ UNCHANGED <<seq, cclosed, sent>>

CheckPasses ==
    /\ Running /\ Cur.op = "check" /\ result # None
    /\ pc' = pc + 1
    /\ UNCHANGED <<seq, result, cclosed, sent>>

CheckRaises ==
    /\ Running /\ Cur.op = "check" /\ result = None
    /\ pc' = Finally
    /\ UNCHANGED <<seq, result, cclosed, sent>>

Branch ==
    /\ Running /\ Cur.op \in {"ifFound", "ifBody"}
    /\ pc' = IF Holds(Cur) THEN pc + 1 ELSE Cur.to
    /\ UNCHANGED <<seq, result, cclosed, sent>>

Close ==
    /\ Running /\ Cur.op = "close"
    /\ cclosed' = TRUE
    /\ pc' = pc + 1
    /\ UNCHANGED <<seq, result, sent>>

Next ==
    \/ SendRequest \/ SendRaises \/ ReadMessage \/ WaitForResponse
    \/ WaitForEvent \/ ReadRaises \/ CheckPasses \/ CheckRaises \/ Branch \/ Close

Spec == Init /\ [][Next]_avars
=============================================================================
