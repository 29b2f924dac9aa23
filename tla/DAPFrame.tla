------------------------------ MODULE DAPFrame ------------------------------
(***************************************************************************)
(* Reading one Content-Length frame from the TCP stream, byte counts only. *)
(* The server writes the frame (HeaderLen header bytes, then the body) in  *)
(* segments of any size, and may close the connection.  The three readers *)
(* of the repository differ in two places:                                 *)
(*   "DAPClient"     DAPClient.read_message: recv(1) header loop with no  *)
(*                   EOF test; body loop "while len(body) < n" that stops *)
(*                   on an empty chunk.                                    *)
(*   "reader_thread" test_dap_simple.py read_messages: header loop        *)
(*                   returns on EOF; one sock.recv(content_length).       *)
(*   "single_shot"   test_dap_client.py read_dap_response: no EOF test;   *)
(*                   one sock.recv(content_length).                       *)
(* Each ends in json.loads(body): "ok" when the whole body was read,      *)
(* "bad" (JSONDecodeError) otherwise.                                      *)
(***************************************************************************)
EXTENDS Naturals

CONSTANTS Variant, HeaderLen, BodyLens, ServerMayClose

ASSUME FrameAssumption ==
    /\ Variant \in {"DAPClient", "reader_thread", "single_shot"}
    /\ HeaderLen \in Nat \ {0}
    /\ BodyLens \subseteq Nat \ {0}
    /\ ServerMayClose \in BOOLEAN

VARIABLES
    bodyLen,    \* Content-Length of the frame the server sends
    written,    \* bytes of the frame the server has written
    srvClosed,  \* the server has closed its end
    consumed,   \* bytes of the frame the reader has taken from the socket
    got,        \* len(body) in the reader
    phase       \* "header", "body", or the outcome: "ok", "bad", "eof"

vars == <<bodyLen, written, srvClosed, consumed, got, phase>>

Total == HeaderLen + bodyLen

\* Bytes received by the socket and not yet read.
Avail == written - consumed

\* json.loads(body) on the bytes read.
Loads(n) == IF n = bodyLen THEN "ok" ELSE "bad"

LoopsOnBody == Variant = "DAPClient"

Init ==
    /\ bodyLen \in BodyLens
    /\ written = 0
    /\ srvClosed = FALSE
    /\ consumed = 0
    /\ got = 0
    /\ phase = "header"

\* data = sock.recv(1); headers += data; stop at the blank line.  The
\* Content-Length line is parsed once the header is complete.
RecvHeaderByte ==
    /\ phase = "header"
    /\ Avail > 0
    /\ consumed' = consumed + 1
    /\ phase' = IF consumed + 1 = HeaderLen THEN "body" ELSE "header"
    /\ UNCHANGED <<bodyLen, written, srvClosed, got>>

\* Mutant: the reader thread's header loop without "if not data: return".
RecvHeaderEOFSpin ==
    /\ phase = "header"
    /\ Variant = "reader_thread"
    /\ Avail = 0 /\ srvClosed
    /\ UNCHANGED vars

\* reader_thread only: "if not data: return".  The other two readers
\* have no such test and spin on recv returning b''.
RecvHeaderEOF ==
    /\ phase = "header"
    /\ Variant = "reader_thread"
    /\ Avail = 0 /\ srvClosed
    /\ phase' = "eof"
    /\ UNCHANGED <<bodyLen, written, srvClosed, consumed, got>>

\* Mutant: the body is read with a single recv even in DAPClient.
RecvBodyNoLoop ==
    /\ phase = "body"
    /\ Avail > 0
    /\ \E k \in 1..(bodyLen - got) :
        /\ k <= Avail
        /\ consumed' = consumed + k
        /\ got' = got + k
        /\ phase' = Loads(got + k)
    /\ UNCHANGED <<bodyLen, written, srvClosed>>

\* chunk = sock.recv(n - len(body)) returns k bytes, 1 <= k <= what has
\* arrived.  The single-recv readers go straight to json.loads; DAPClient
\* goes round its loop until the body is complete.
RecvBody ==
    /\ phase = "body"
    /\ Avail > 0
    /\ \E k \in 1..(bodyLen - got) :
        /\ k <= Avail
        /\ consumed' = consumed + k
        /\ got' = got + k
        /\ phase' = IF LoopsOnBody /\ got + k < bodyLen
                    THEN "body" ELSE Loads(got + k)
    /\ UNCHANGED <<bodyLen, written, srvClosed>>

\* Mutant: the "if not chunk: break" test is missing; recv keeps
\* returning b'' and the loop never ends.
RecvBodyEOFSpin ==
    /\ phase = "body"
    /\ Avail = 0 /\ srvClosed
    /\ UNCHANGED vars

\* Mutant: on EOF the partial body is taken as the message.
RecvBodyEOFKeepsPartial ==
    /\ phase = "body"
    /\ Avail = 0 /\ srvClosed
    /\ phase' = "ok"
    /\ UNCHANGED <<bodyLen, written, srvClosed, consumed, got>>

\* recv returns b'' because the peer closed: DAPClient breaks out of its
\* loop, a single-recv reader has an empty body; json.loads follows.
RecvBodyEOF ==
    /\ phase = "body"
    /\ Avail = 0 /\ srvClosed
    /\ phase' = Loads(got)
    /\ UNCHANGED <<bodyLen, written, srvClosed, consumed, got>>

ReaderStep == RecvHeaderByte \/ RecvHeaderEOF \/ RecvBody \/ RecvBodyEOF

\* The server's write of the frame arrives in segments of any size.
ServerWrite ==
    /\ ~srvClosed
    /\ written < Total
    /\ \E k \in 1..(Total - written) : written' = written + k
    /\ UNCHANGED <<bodyLen, srvClosed, consumed, got, phase>>

\* The server closes after the frame, or (ServerMayClose) at any time.
ServerClose ==
    /\ ~srvClosed
    /\ written = Total \/ ServerMayClose
    /\ srvClosed' = TRUE
    /\ UNCHANGED <<bodyLen, written, consumed, got, phase>>

Next == ReaderStep \/ ServerWrite \/ ServerClose

\* The reading thread runs whenever it can; TCP delivers a frame that the
\* server has started to write.
Spec == Init /\ [][Next]_vars /\ WF_vars(ReaderStep) /\ WF_vars(ServerWrite)

\* The refinement mapping to the reader's promise: the call is pending
\* until the reader reaches json.loads, and its outcome is then that of
\* json.loads.
Read == INSTANCE FrameRead
    WITH outcome <- IF phase \in {"ok", "bad"} THEN phase ELSE "pending"

-----------------------------------------------------------------------------
(* Properties.                                                             *)

Returned == {"ok", "bad", "eof"}

TypeOK ==
    /\ bodyLen \in BodyLens
    /\ written \in 0..Total
    /\ srvClosed \in BOOLEAN
    /\ consumed \in 0..written
    /\ got \in 0..bodyLen
    /\ phase \in {"header", "body"} \cup Returned

\* json.loads fails only on a frame the server did not finish: a short
\* read of a frame that is being delivered in several TCP segments never
\* makes read_message throw the frame away (spec section 4.1: "looping on
\* short reads").
BodyComplete == phase = "bad" => srvClosed /\ written < Total

\* read_message returns (a message or an error) once the whole frame has
\* arrived, and once the peer closed in the middle of the body.
ReadReturns ==
    (written = Total \/ (srvClosed /\ phase = "body")) ~> phase \in Returned

\* The reader thread of test_dap_simple.py ends its read whenever the
\* peer closes, in the header as well (DAPClient spins there instead):
\* once the frame is in or the server has closed, it returns.
ThreadReturns == (written = Total \/ srvClosed) ~> phase \in Returned

\* read_message implements FrameRead: it returns the message exactly when
\* the whole frame has arrived (and always does then), and raises only
\* after the server closed in the middle of the frame.
ReadRefinement == Read!Spec
=============================================================================
