----------------------------- MODULE DAPSession -----------------------------
(***************************************************************************)
(* One debugging session of the DAPClient class of the gno DAP test        *)
(* scripts (tests/integ/dap/*.py, pkg/gnolang/testdata/dap_tests/*.py)      *)
(* against a DAP server, over one TCP connection.                          *)
(*                                                                         *)
(* The client is a single thread that runs a script: a sequence of steps   *)
(* translated from the script's main() (see DAPScripts).  Each step is one *)
(* call of the class: send_request, read_message, wait_for_response,       *)
(* wait_for_event, the script's own tests on what they return, and the     *)
(* close() of the finally clause.  The connection is two FIFO channels     *)
(* (TCP).  Frames are whole messages here; the byte-level framing of       *)
(* read_message is the subject of a separate module.                      *)
(*                                                                         *)
(* The server is not code of this repository: it is modelled from the     *)
(* spec's contract (every request it reads is answered once, with the      *)
(* request's seq and command; events at any time after the command that    *)
(* triggers them).                                                         *)
(***************************************************************************)
EXTENDS Naturals, Sequences

CONSTANTS
    Commands,       \* DAP command names the scripts send
    EventNames,     \* DAP event names the server may emit
    Trigger,        \* Trigger[e]: the commands after which event e may come
    Script,         \* the client's script, a sequence of Step records
    MaxEvents,      \* bound on the number of events the server emits
    ServerMayCrash  \* TRUE: the server may close the connection at any time

Ops == {"send", "read", "waitResp", "waitEvent", "check",
        "ifFound", "ifBody", "close"}
Waits    == {"waitResp", "waitEvent"}
Branches == {"ifFound", "ifBody"}

\* A step of a script: op, the command or event it names, and for a branch
\* the step the script goes to when the test is false.
Step == [op : Ops, name : Commands \cup EventNames \cup {"-"}, to : Nat]

ASSUME ConstantsAssumption ==
    /\ Commands \cap EventNames = {}
    /\ "disconnect" \in Commands
    /\ Trigger \in [EventNames -> SUBSET Commands]
    /\ MaxEvents \in Nat
    /\ ServerMayCrash \in BOOLEAN
    /\ Script \in Seq(Step)
    /\ Len(Script) > 0
    /\ Script[Len(Script)].op = "close"
    /\ \A i \in 1..Len(Script) : Script[i].to \in 1..Len(Script)
    /\ \A i \in 1..Len(Script) : Script[i].op = "send" => Script[i].name \in Commands
    \* the scripts' if statements only skip forward
    /\ \A i \in 1..Len(Script) : Script[i].op \in Branches => Script[i].to > i

\* The finally clause of every script: client.close().
Finally == Len(Script)
\* seq values never exceed the number of send steps of the script.
MaxSeq == Len(Script)

Req == [seq : 0..MaxSeq, cmd : Commands]
\* A frame the server died in the middle of the body of: its header
\* announced more bytes than ever arrive.
Cut == [type |-> "cut", seq |-> 0, name |-> "-", body |-> FALSE]
Msg == [type : {"response"}, seq : 0..MaxSeq, name : Commands, body : BOOLEAN]
       \cup [type : {"event"}, seq : {0}, name : EventNames, body : BOOLEAN]
       \cup {Cut}
\* What wait_for_response and wait_for_event return on timeout.
None == [type |-> "none", seq |-> 0, name |-> "-", body |-> FALSE]

\* The server's answer to request r, carrying r's seq and command.
Response(r, b) == [type |-> "response", seq |-> r.seq, name |-> r.cmd, body |-> b]
EventMsg(e) == [type |-> "event", seq |-> 0, name |-> e, body |-> TRUE]

VARIABLES
    pc,        \* index of the script step the client executes
    iter,      \* inside a wait loop: "recv" (in read_message) or "head"
               \* (at the loop test of the deadline)
    seq,       \* self.seq of DAPClient
    result,    \* the message the last read or wait returned, or None
    cclosed,   \* the client has called sock.close()
    toServer,  \* bytes in flight client -> server, as requests
    toClient,  \* bytes in flight server -> client, as messages
    pending,   \* requests the server has read and not yet answered
    recvd,     \* commands the server has read
    srvOpen,   \* the server's side of the connection is open
    nEvents,   \* events emitted so far
    sent,      \* history: the requests the client wrote, in order
    dropped    \* history: event names the client read and threw away

clientVars == <<pc, iter, seq, result, cclosed>>
serverVars == <<pending, recvd, srvOpen, nEvents>>
vars == <<pc, iter, seq, result, cclosed, toServer, toClient,
          pending, recvd, srvOpen, nEvents, sent, dropped>>

Cur == Script[pc]
Running == pc \in 1..Len(Script)

\* Move to step n, leaving any wait loop.
Goto(n) == pc' = n /\ iter' = "recv"

\* Event names lost when message m is consumed and not handed to the script.
DropOf(m) == IF m.type = "event" THEN {m.name} ELSE {}

\* Mutant: the loop test only checks the message type, not request_seq.
MatchesAnyResponse(st, m) ==
    \/ st.op = "waitResp" /\ m.type = "response"
    \/ st.op = "waitEvent" /\ m.type = "event" /\ m.name = st.name

\* Mutant: the loop test compares request_seq with seq - 1.
MatchesPrevSeq(st, m) ==
    \/ st.op = "waitResp" /\ m.type = "response" /\ m.seq = seq - 1
    \/ st.op = "waitEvent" /\ m.type = "event" /\ m.name = st.name

\* Mutant: wait_for_event tests only msg.get("type") == "event".
MatchesAnyEvent(st, m) ==
    \/ st.op = "waitResp" /\ m.type = "response" /\ m.seq = seq
    \/ st.op = "waitEvent" /\ m.type = "event"

\* The test of the wait loops: wait_for_response(seq) compares
\* request_seq with the seq returned by the last send_request,
\* wait_for_event(e) the event name.
Matches(st, m) ==
    \/ st.op = "waitResp" /\ m.type = "response" /\ m.seq = seq
    \/ st.op = "waitEvent" /\ m.type = "event" /\ m.name = st.name

\* The script's tests on what the last call returned: "if stopped:" and
\* "if resp.get('body', {}).get(<field>)", a field only the response to
\* command st.name has.
Holds(st) ==
    \/ st.op = "ifFound" /\ result # None
    \/ st.op = "ifBody" /\ result.type = "response"
                        /\ result.name = st.name /\ result.body

Init ==
    /\ pc = 1
    /\ iter = "recv"
    /\ seq = 0
    /\ result = None
    /\ cclosed = FALSE
    /\ toServer = <<>>
    /\ toClient = <<>>
    /\ pending = {}
    /\ recvd = {}
    /\ srvOpen = TRUE
    /\ nEvents = 0
    /\ sent = <<>>
    /\ dropped = {}

-----------------------------------------------------------------------------
(* Client: the DAPClient methods and the script's own steps.               *)

\* Mutant: every request carries seq 1, as in test_dap_client.py.
SendRequestFixedSeq ==
    /\ Running /\ Cur.op = "send"
    /\ seq' = 1
    /\ toServer' = Append(toServer, [seq |-> 1, cmd |-> Cur.name])
    /\ sent' = Append(sent, [seq |-> 1, cmd |-> Cur.name])
    /\ Goto(pc + 1)
    /\ UNCHANGED <<result, cclosed, toClient, serverVars, dropped>>

\* send_request: self.seq += 1, then sock.sendall of the framed request.
\* A write to a peer that has closed may still succeed; the bytes are lost.
SendRequest ==
    /\ Running /\ Cur.op = "send"
    /\ seq' = seq + 1
    /\ toServer' = Append(toServer, [seq |-> seq + 1, cmd |-> Cur.name])
    /\ sent' = Append(sent, [seq |-> seq + 1, cmd |-> Cur.name])
    /\ Goto(pc + 1)
    /\ UNCHANGED <<result, cclosed, toClient, serverVars, dropped>>

\* Mutant: a sendall that raises is retried instead of leaving for finally.
SendFailsRetry ==
    /\ Running /\ Cur.op = "send"
    /\ ~srvOpen
    /\ seq' = seq + 1
    /\ UNCHANGED <<pc, iter, result, cclosed, toServer, toClient, serverVars,
                   sent, dropped>>

\* sendall raises (broken pipe) once the server has closed: the exception
\* leaves the try block for the finally clause.
SendFails ==
    /\ Running /\ Cur.op = "send"
    /\ ~srvOpen
    /\ seq' = seq + 1
    /\ Goto(Finally)
    /\ UNCHANGED <<result, cclosed, toServer, toClient, serverVars, sent, dropped>>

\* read_message: blocks until a whole message is there and returns it,
\* whatever it is.  With nothing to read it blocks (open connection) or
\* loops forever on recv returning b"" (closed connection).
ReadMessage ==
    /\ Running /\ Cur.op = "read"
    /\ toClient # <<>> /\ Head(toClient) # Cut
    /\ result' = Head(toClient)
    /\ toClient' = Tail(toClient)
    /\ dropped' = dropped \cup DropOf(Head(toClient))
    /\ Goto(pc + 1)
    /\ UNCHANGED <<seq, cclosed, toServer, serverVars, sent>>

\* The loop body of wait_for_response / wait_for_event: read_message, and
\* return the message if it is the one waited for ...
WaitMatch ==
    /\ Running /\ Cur.op \in Waits /\ iter = "recv"
    /\ toClient # <<>>
    /\ Matches(Cur, Head(toClient))
    /\ result' = Head(toClient)
    /\ toClient' = Tail(toClient)
    /\ Goto(pc + 1)
    /\ UNCHANGED <<seq, cclosed, toServer, serverVars, sent, dropped>>

\* ... or throw it away and go back to the loop test.
WaitSkip ==
    /\ Running /\ Cur.op \in Waits /\ iter = "recv"
    /\ toClient # <<>> /\ Head(toClient) # Cut
    /\ ~Matches(Cur, Head(toClient))
    /\ toClient' = Tail(toClient)
    /\ dropped' = dropped \cup DropOf(Head(toClient))
    /\ iter' = "head"
    /\ UNCHANGED <<pc, seq, result, cclosed, toServer, serverVars, sent>>

\* read_message, called directly or inside a wait loop, on a cut frame:
\* the body loop breaks on the empty chunk and json.loads raises on the
\* truncated body.  The script's "except Exception" goes to finally;
\* the call returns nothing (result is None).
ReadRaises ==
    /\ Running /\ Cur.op \in {"read"} \cup Waits /\ iter = "recv"
    /\ toClient # <<>> /\ Head(toClient) = Cut
    /\ result' = None
    /\ toClient' = Tail(toClient)
    /\ Goto(Finally)
    /\ UNCHANGED <<seq, cclosed, toServer, serverVars, sent, dropped>>

\* The loop test "time.time() - start_time < timeout" is only evaluated
\* between messages.  Elapsed time is not modelled: after the first
\* message either outcome is possible (the first test always passes).
WaitInTime ==
    /\ Running /\ Cur.op \in Waits /\ iter = "head"
    /\ iter' = "recv"
    /\ UNCHANGED <<pc, seq, result, cclosed, toServer, toClient, serverVars,
                   sent, dropped>>

WaitTimeout ==
    /\ Running /\ Cur.op \in Waits /\ iter = "head"
    /\ result' = None
    /\ Goto(pc + 1)
    /\ UNCHANGED <<seq, cclosed, toServer, toClient, serverVars, sent, dropped>>

\* resp['success'] on what wait_for_response returned: a TypeError on None
\* is caught by the script's "except Exception" and goes to finally.
CheckSuccess ==
    /\ Running /\ Cur.op = "check"
    /\ result # None
    /\ Goto(pc + 1)
    /\ UNCHANGED <<seq, result, cclosed, toServer, toClient, serverVars,
                   sent, dropped>>

CheckRaises ==
    /\ Running /\ Cur.op = "check"
    /\ result = None
    /\ Goto(Finally)
    /\ UNCHANGED <<seq, result, cclosed, toServer, toClient, serverVars,
                   sent, dropped>>

\* An if statement of the script on what the last call returned.
BranchEnter ==
    /\ Running /\ Cur.op \in Branches
    /\ Holds(Cur)
    /\ Goto(pc + 1)
    /\ UNCHANGED <<seq, result, cclosed, toServer, toClient, serverVars,
                   sent, dropped>>

BranchSkip ==
    /\ Running /\ Cur.op \in Branches
    /\ ~Holds(Cur)
    /\ Goto(Cur.to)
    /\ UNCHANGED <<seq, result, cclosed, toServer, toClient, serverVars,
                   sent, dropped>>

\* finally: client.close().
Close ==
    /\ Running /\ Cur.op = "close"
    /\ cclosed' = TRUE
    /\ Goto(pc + 1)
    /\ UNCHANGED <<seq, result, toServer, toClient, serverVars, sent, dropped>>

ClientStep ==
    \/ SendRequest \/ SendFails \/ ReadMessage \/ ReadRaises
    \/ WaitMatch \/ WaitSkip \/ WaitInTime \/ WaitTimeout
    \/ CheckSuccess \/ CheckRaises \/ BranchEnter \/ BranchSkip \/ Close

-----------------------------------------------------------------------------
(* Server (spec section 6).  Once the client has closed, nothing the        *)
(* server does can be observed, so the server stops too.                   *)

ServerUp == srvOpen /\ ~cclosed

ServerReceive ==
    /\ ServerUp
    /\ toServer # <<>>
    /\ pending' = pending \cup {Head(toServer)}
    /\ recvd' = recvd \cup {Head(toServer).cmd}
    /\ toServer' = Tail(toServer)
    /\ UNCHANGED <<clientVars, toClient, srvOpen, nEvents, sent, dropped>>

\* Requests are answered once each, in any order; b: whether the body has
\* the data the script looks for (stackFrames, scopes, variables).
ServerRespond(r, b) ==
    /\ ServerUp
    /\ r \in pending
    /\ toClient' = Append(toClient, Response(r, b))
    /\ pending' = pending \ {r}
    /\ UNCHANGED <<clientVars, toServer, recvd, srvOpen, nEvents, sent, dropped>>

ServerEmit(e) ==
    /\ ServerUp
    /\ nEvents < MaxEvents
    /\ Trigger[e] \cap recvd # {}
    /\ toClient' = Append(toClient, EventMsg(e))
    /\ nEvents' = nEvents + 1
    /\ UNCHANGED <<clientVars, toServer, pending, recvd, srvOpen, sent, dropped>>

\* The server ends the session once it has answered disconnect ...
ServerHangUp ==
    /\ ServerUp
    /\ "disconnect" \in recvd
    /\ \A r \in pending : r.cmd # "disconnect"
    /\ srvOpen' = FALSE
    /\ UNCHANGED <<clientVars, toServer, toClient, pending, recvd, nEvents,
                   sent, dropped>>

\* ... or, where allowed, dies at any time.  Bytes already sent stay
\* readable; after them the client reads end-of-file.
ServerCrash ==
    /\ ServerUp
    /\ ServerMayCrash
    /\ srvOpen' = FALSE
    /\ UNCHANGED <<clientVars, toServer, toClient, pending, recvd, nEvents,
                   sent, dropped>>

\* ... or dies in the middle of the body of its next frame (a response to
\* a pending request or an event): the client reads the header and part
\* of the body, then end-of-file.  (A death inside a header leaves the
\* client spinning on recv(1), as after ServerCrash.)
ServerCrashMidFrame ==
    /\ ServerUp
    /\ ServerMayCrash
    /\ srvOpen' = FALSE
    /\ toClient' = Append(toClient, Cut)
    /\ UNCHANGED <<clientVars, toServer, pending, recvd, nEvents, sent, dropped>>

ServerStep ==
    \/ ServerReceive
    \/ \E r \in pending, b \in BOOLEAN : ServerRespond(r, b)
    \/ \E e \in EventNames : ServerEmit(e)
    \/ ServerHangUp
    \/ ServerCrash
    \/ ServerCrashMidFrame

Next == ClientStep \/ ServerStep

\* The client thread runs whenever it can; the server reads and answers
\* every request (spec section 6).  Events, hang-up and crash are not
\* forced.
Fairness ==
    /\ WF_vars(ClientStep)
    /\ WF_vars(ServerReceive)
    /\ WF_vars(\E r \in pending, b \in BOOLEAN : ServerRespond(r, b))

Spec == Init /\ [][Next]_vars /\ Fairness

\* The refinement mapping to the class's promise: the script's state (pc,
\* seq, result, cclosed) and the send history are kept; the wait loops'
\* iter, the two channels and the server are hidden.
API == INSTANCE DAPClientAPI

-----------------------------------------------------------------------------
(* Properties.                                                             *)

TypeOK ==
    /\ pc \in 1..Len(Script) + 1
    /\ iter \in {"recv", "head"}
    /\ seq \in 0..MaxSeq
    /\ result \in Msg \cup {None}
    /\ cclosed \in BOOLEAN
    /\ toServer \in Seq(Req)
    /\ toClient \in Seq(Msg)
    /\ pending \in SUBSET Req
    /\ recvd \in SUBSET Commands
    /\ srvOpen \in BOOLEAN
    /\ nEvents \in 0..MaxEvents
    /\ sent \in Seq(Req)
    /\ dropped \in SUBSET EventNames


\* Spec section 3: seq values are unique and increasing within a session.
\* send_request numbers the requests it writes 1, 2, 3, ... in order, so
\* no two requests on the wire share a request_seq.
SeqConsecutive == \A i \in 1..Len(sent) : sent[i].seq = i

\* The wire carries nothing but what the client wrote and the answers to
\* it: every request in flight or awaiting an answer is the one the client
\* wrote with that seq, every response in flight is the answer to it, and
\* self.seq is the seq of the last request written (one more when the
\* last sendall raised and the script is in its finally clause).
\* A channel of requests each of which is the one the client wrote with
\* its seq, and a channel of messages whose responses answer such requests.
RequestsWritten(q) ==
    \A i \in 1..Len(q) : q[i].seq \in 1..Len(sent) /\ q[i] = sent[q[i].seq]
ResponsesAnswer(q) ==
    \A i \in 1..Len(q) : q[i].type = "response" =>
        /\ q[i].seq \in 1..Len(sent)
        /\ q[i] = Response(sent[q[i].seq], q[i].body)

\* The wire carries nothing but what the client wrote and the answers to
\* it (the invariant behind ResponseCorrelated): requests in flight or
\* awaiting an answer are the ones the client wrote with their seq,
\* responses in flight answer them, and self.seq is the seq of the last
\* request written (one more once a sendall raised and the script is in
\* its finally clause).
WireCorrelated ==
    /\ SeqConsecutive
    /\ \/ seq = Len(sent)
       \/ seq = Len(sent) + 1 /\ pc >= Finally
    /\ RequestsWritten(toServer)
    /\ \A r \in pending : r.seq \in 1..Len(sent) /\ r = sent[r.seq]
    /\ ResponsesAnswer(toClient)

\* A step in which wait_for_response returns a message.
RespReturned == Running /\ Cur.op = "waitResp" /\ pc' = pc + 1 /\ result' # None

\* wait_for_response(seq) hands the script only the server's answer to the
\* request the script has just sent, never a late answer to an earlier
\* request that timed out: when it returns a message, that message is the
\* response to the last request written.
ResponseCorrelatedStep ==
    RespReturned => /\ sent # <<>>
                    /\ result' = Response(sent[Len(sent)], result'.body)

ResponseCorrelated == [][ResponseCorrelatedStep]_vars

\* The scripts treat what read_message returns right after send_request
\* as that request's response ("stack_resp = client.read_message()").
ReadIsResponse ==
    [][(Running /\ Cur.op = "read" /\ pc' # pc)
         => /\ result'.type = "response"
            /\ result'.seq = seq]_vars

\* Spec sections 3 and 4.3: an event that arrived before its wait is still
\* observed by it.  A wait_for_event(e) gives up only when no e event has
\* been read and thrown away by the client.
EventNotLost ==
    [][(Running /\ Cur.op = "waitEvent" /\ pc' = pc + 1 /\ result' = None)
         => Cur.name \notin dropped']_vars

\* Spec section 7: on every exit path the script attempts a final
\* disconnect before it closes the stream.
DisconnectBeforeClose ==
    cclosed => \E i \in 1..Len(sent) : sent[i].cmd = "disconnect"

\* The client implements DAPClientAPI: seen from the script, every
\* DAPClient call is atomic, read_message returns only answers to requests
\* written or events, wait_for_response only the answer to the request
\* just sent (or None), wait_for_event(e) only an e event (or None), and
\* a read that raises on a cut frame sends the script to finally.
ImplementsAPI == API!Spec

\* Spec section 8: every wait returns (a message or a timeout), so the
\* script runs to its close() in the finally clause.
Termination == <>cclosed

=============================================================================
