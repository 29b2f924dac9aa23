--------------------------- MODULE DAPFrameProofs ---------------------------
(* Proofs about reading a frame, for every header and body length.       *)
EXTENDS DAPFrame, TLAPS

\* What the reader has consumed, by phase.  A "bad" outcome of
\* DAPClient.read_message comes only from the empty chunk after the peer
\* closed, with everything that arrived already read.
FInv ==
    /\ TypeOK
    /\ phase = "header" => consumed < HeaderLen /\ got = 0
    /\ phase \in {"body", "ok", "bad"} => consumed = HeaderLen + got
    /\ phase = "ok" => got = bodyLen
    /\ phase = "bad" /\ LoopsOnBody => srvClosed /\ consumed = written
                                       /\ got < bodyLen

LEMMA Consts == HeaderLen \in Nat \ {0} /\ BodyLens \subseteq Nat \ {0}
BY FrameAssumption

LEMMA FInvInit == Init => FInv
<1>. SUFFICES ASSUME Init PROVE FInv  OBVIOUS
<1>1. bodyLen \in Nat \ {0} /\ HeaderLen \in Nat \ {0}  BY Consts DEF Init
<1>2. written \in 0..Total /\ consumed \in 0..written /\ got \in 0..bodyLen
  BY <1>1 DEF Init, Total
<1>3. srvClosed \in BOOLEAN /\ phase \in {"header", "body"} \cup Returned
  BY DEF Init, Returned
<1>. QED  BY <1>1, <1>2, <1>3 DEF Init, FInv, TypeOK

LEMMA FInvStep == FInv /\ [Next]_vars => FInv'
<1>. SUFFICES ASSUME FInv, [Next]_vars PROVE FInv'  OBVIOUS
<1>1. bodyLen \in Nat \ {0} /\ HeaderLen \in Nat \ {0}
  BY Consts DEF FInv, TypeOK
<1>2. CASE RecvHeaderByte
  BY <1>1, <1>2 DEF RecvHeaderByte, FInv, TypeOK, Avail, Total
<1>3. CASE RecvHeaderEOF
  BY <1>1, <1>3 DEF RecvHeaderEOF, FInv, TypeOK, Total, LoopsOnBody, Returned
<1>4. CASE RecvBody
  <2>. PICK k \in 1..(bodyLen - got) :
          /\ k <= Avail
          /\ consumed' = consumed + k
          /\ got' = got + k
          /\ phase' = IF LoopsOnBody /\ got + k < bodyLen
                      THEN "body" ELSE Loads(got + k)
    BY <1>4 DEF RecvBody
  <2>. QED  BY <1>1, <1>4 DEF RecvBody, FInv, TypeOK, Avail, Total, Loads,
                              Returned
<1>5. CASE RecvBodyEOF
  BY <1>1, <1>5 DEF RecvBodyEOF, FInv, TypeOK, Avail, Total, Loads, Returned
<1>6. CASE ServerWrite
  BY <1>1, <1>6 DEF ServerWrite, FInv, TypeOK, Total
<1>7. CASE ServerClose
  BY <1>1, <1>7 DEF ServerClose, FInv, TypeOK, Total
<1>8. CASE UNCHANGED vars
  BY <1>8 DEF vars, FInv, TypeOK, Total
<1>. QED  BY <1>2, <1>3, <1>4, <1>5, <1>6, <1>7, <1>8 DEF Next, ReaderStep

\* DAPClient.read_message, for any header and body length and any TCP
\* segmentation, fails to decode a frame only when the server closed the
\* connection before finishing it.
THEOREM LoopReadsWholeBody == LoopsOnBody => (Spec => []BodyComplete)
<1>. SUFFICES ASSUME LoopsOnBody PROVE Spec => []BodyComplete  OBVIOUS
<1>1. FInv => BodyComplete
  BY Consts DEF FInv, BodyComplete, TypeOK, Total
<1>. QED  BY <1>1, FInvInit, FInvStep, PTL DEF Spec
-----------------------------------------------------------------------------
(* DAPClient.read_message implements FrameRead.                           *)

\* The outcome the refinement mapping gives a state.
Outcome == IF phase \in {"ok", "bad"} THEN phase ELSE "pending"

\* A reader step that leaves the call pending is a stuttering step of
\* FrameRead.
LEMMA ReaderStutter ==
    ASSUME phase \in {"header", "body"}, phase' \in {"header", "body"},
           UNCHANGED <<bodyLen, written, srvClosed>>
    PROVE  UNCHANGED Read!avars
BY DEF Read!avars

\* Every step of DAPClient.read_message and of the server is a step of
\* FrameRead or leaves its variables unchanged.
LEMMA LoopStep ==
    ASSUME LoopsOnBody, FInv, [Next]_vars
    PROVE  [Read!Next]_Read!avars
<1>1. bodyLen \in Nat \ {0} /\ HeaderLen \in Nat \ {0}
  BY Consts DEF FInv, TypeOK
<1>2. CASE RecvHeaderByte
  BY <1>2, ReaderStutter DEF RecvHeaderByte
<1>3. CASE RecvHeaderEOF
  BY <1>3, FrameAssumption DEF RecvHeaderEOF, LoopsOnBody
<1>4. CASE RecvBody
  <2>. PICK k \in 1..(bodyLen - got) :
          /\ k <= Avail
          /\ consumed' = consumed + k
          /\ got' = got + k
          /\ phase' = IF LoopsOnBody /\ got + k < bodyLen
                      THEN "body" ELSE Loads(got + k)
    BY <1>4 DEF RecvBody
  <2>1. CASE got + k < bodyLen
    BY <1>4, <2>1, ReaderStutter DEF RecvBody
  <2>2. CASE got + k = bodyLen
    <3>1. phase' = "ok"  BY <2>2 DEF Loads
    <3>2. written = Total
      BY <1>1, <1>4, <2>2 DEF RecvBody, FInv, TypeOK, Avail, Total
    <3>. QED  BY <1>4, <3>1, <3>2
              DEF RecvBody, Read!Next, Read!Deliver, Read!Total, Total
  <2>. QED  BY <1>1, <2>1, <2>2 DEF FInv, TypeOK
<1>5. CASE RecvBodyEOF
  <2>1. consumed = written /\ consumed = HeaderLen + got /\ got \in 0..bodyLen
    BY <1>5 DEF RecvBodyEOF, FInv, TypeOK, Avail
  <2>2. CASE got = bodyLen
    BY <1>5, <2>1, <2>2
       DEF RecvBodyEOF, Loads, Read!Next, Read!Deliver, Read!Total, Total
  <2>3. CASE got < bodyLen
    BY <1>1, <1>5, <2>1, <2>3
       DEF RecvBodyEOF, Loads, Read!Next, Read!Fail, Read!Total, Total
  <2>. QED  BY <1>1, <2>1, <2>2, <2>3
<1>6. CASE ServerWrite
  BY <1>6 DEF ServerWrite, Read!Next, Read!Write, Read!Total, Total
<1>7. CASE ServerClose
  BY <1>7 DEF ServerClose, Read!Next, Read!Close, Read!Total, Total
<1>8. CASE UNCHANGED vars
  BY <1>8 DEF vars, Read!avars
<1>. QED  BY <1>2, <1>3, <1>4, <1>5, <1>6, <1>7, <1>8 DEF Next, ReaderStep

\* For any header and body length and any segmentation of the frame,
\* DAPClient.read_message implements the safety part of FrameRead
\* (ReadRefinement): it returns a message only after the whole frame has
\* arrived and raises only after the server closed in mid-frame.
THEOREM LoopRefinesRead ==
    LoopsOnBody => (Spec => Read!Init /\ [][Read!Next]_Read!avars)
<1>. SUFFICES ASSUME LoopsOnBody
              PROVE  Spec => Read!Init /\ [][Read!Next]_Read!avars
  OBVIOUS
<1>1. Init => Read!Init
  BY DEF Init, Read!Init
<1>2. FInv /\ [Next]_vars => [Read!Next]_Read!avars
  BY LoopStep
<1>. QED  BY <1>1, <1>2, FInvInit, FInvStep, PTL DEF Spec
=============================================================================
