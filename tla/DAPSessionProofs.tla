------------------------- MODULE DAPSessionProofs -------------------------
(***************************************************************************)
(* Proofs about DAPSession for every value of its constants.               *)
(***************************************************************************)
EXTENDS DAPSession, SequenceTheorems, TLAPS

\* The facts about the constants the proofs use.
LEMMA ScriptLen == Len(Script) \in Nat \ {0} /\ MaxEvents \in Nat
BY ConstantsAssumption

LEMMA ScriptFacts ==
    /\ Script \in Seq(Step)
    /\ Len(Script) \in Nat \ {0}
    /\ Script[Len(Script)].op = "close"
    /\ \A i \in 1..Len(Script) : Script[i].to \in 1..Len(Script)
    /\ \A i \in 1..Len(Script) : Script[i].op = "send" => Script[i].name \in Commands
    /\ \A i \in 1..Len(Script) : Script[i].op \in Branches => Script[i].to > i
BY ConstantsAssumption

\* What a client step may rely on about the step it executes.
LEMMA CurType ==
    ASSUME pc \in 1..Len(Script)
    PROVE  /\ Cur.to \in 1..Len(Script)
           /\ Cur.op \in Branches => Cur.to > pc
           /\ Cur.op # "close" => pc < Finally
           /\ Cur.op = "send" => Cur.name \in Commands
<1>1. Cur.op # "close" => pc # Len(Script)
  BY ScriptFacts DEF Cur
<1>. QED
  BY <1>1, ScriptFacts DEF Cur, Finally

(***************************************************************************)
(* Type correctness.  TypeOK alone is not inductive: seq stays within      *)
(* 0..MaxSeq only because the script counter moves forward on every client *)
(* step (branches skip forward, errors go to the finally step at the end)  *)
(* and seq grows by at most one per step, so seq < pc.                     *)
(***************************************************************************)
TypeInv == TypeOK /\ seq < pc

\* The control part of TypeInv after a client step that leaves seq alone
\* and moves pc forward to a step of the script or just past the last.
LEMMA ForwardStep ==
    ASSUME TypeInv, pc \in 1..Len(Script),
           NEW n \in (pc + 1)..(Len(Script) + 1),
           pc' = n, seq' = seq
    PROVE  pc' \in 1..Len(Script) + 1 /\ seq' \in 0..MaxSeq /\ seq' < pc'
BY ScriptLen DEF TypeInv, TypeOK, MaxSeq

LEMMA TypeInit == Init => TypeInv
<1> SUFFICES ASSUME Init PROVE TypeInv
  OBVIOUS
<1>1. pc \in 1..Len(Script) + 1 /\ seq \in 0..MaxSeq /\ seq < pc
  BY ScriptLen DEF Init, MaxSeq
<1>2. result \in Msg \cup {None}
  BY DEF Init
<1>3. toServer \in Seq(Req) /\ sent \in Seq(Req) /\ toClient \in Seq(Msg)
  BY DEF Init
<1>4. nEvents \in 0..MaxEvents
  BY ScriptLen DEF Init
<1>. QED
  BY <1>1, <1>2, <1>3, <1>4 DEF Init, TypeInv, TypeOK

LEMMA TypeStep == TypeInv /\ [Next]_vars => TypeInv'
<1> SUFFICES ASSUME TypeInv, [Next]_vars PROVE TypeInv'
  OBVIOUS
<1> TypeOK
  BY DEF TypeInv
<1> USE DEF serverVars, clientVars
<1>1. CASE SendRequest
  <2>1. pc \in 1..Len(Script) /\ Cur.op = "send"
    BY <1>1 DEF SendRequest, Running
  <2>2. Cur.name \in Commands /\ pc < Finally
    BY <2>1, CurType
  <2>3. [seq |-> seq + 1, cmd |-> Cur.name] \in Req
    BY <2>2, ScriptLen DEF Req, MaxSeq, Finally, TypeInv, TypeOK
  <2>4. toServer' \in Seq(Req) /\ sent' \in Seq(Req)
    BY <2>3, <1>1, AppendProperties DEF SendRequest, TypeOK
  <2>5. pc' \in 1..Len(Script) + 1 /\ seq' \in 0..MaxSeq /\ seq' < pc'
    BY <2>1, <2>2, <1>1, ScriptLen DEF SendRequest, Goto, MaxSeq, Finally, TypeInv, TypeOK
  <2>. QED
    BY <2>4, <2>5, <1>1 DEF SendRequest, Goto, TypeInv, TypeOK
<1>2. CASE SendFails
  <2>1. pc \in 1..Len(Script) /\ Cur.op = "send"
    BY <1>2 DEF SendFails, Running
  <2>2. pc < Finally
    BY <2>1, CurType
  <2>3. pc' \in 1..Len(Script) + 1 /\ seq' \in 0..MaxSeq /\ seq' < pc'
    BY <2>2, <1>2, ScriptLen DEF SendFails, Goto, MaxSeq, Finally, TypeInv, TypeOK
  <2>. QED
    BY <2>3, <1>2 DEF SendFails, Goto, TypeInv, TypeOK
<1>3. CASE ReadMessage
  <2>1. pc \in 1..Len(Script) /\ toClient # <<>>
    BY <1>3 DEF ReadMessage, Running
  <2>2. Head(toClient) \in Msg /\ Tail(toClient) \in Seq(Msg)
    BY <2>1, HeadTailProperties DEF TypeOK
  <2>3. DropOf(Head(toClient)) \subseteq EventNames
    BY <2>2 DEF DropOf, Msg, Cut
  <2>4. pc' \in 1..Len(Script) + 1 /\ seq' \in 0..MaxSeq /\ seq' < pc'
    BY <2>1, <1>3, ForwardStep DEF ReadMessage, Goto
  <2>. QED
    BY <2>2, <2>3, <2>4, <1>3 DEF ReadMessage, Goto, TypeInv, TypeOK
<1>4. CASE WaitMatch
  <2>1. pc \in 1..Len(Script) /\ toClient # <<>>
    BY <1>4 DEF WaitMatch, Running
  <2>2. Head(toClient) \in Msg /\ Tail(toClient) \in Seq(Msg)
    BY <2>1, HeadTailProperties DEF TypeOK
  <2>3. pc' \in 1..Len(Script) + 1 /\ seq' \in 0..MaxSeq /\ seq' < pc'
    BY <2>1, <1>4, ForwardStep DEF WaitMatch, Goto
  <2>. QED
    BY <2>2, <2>3, <1>4 DEF WaitMatch, Goto, TypeInv, TypeOK
<1>5. CASE WaitSkip
  <2>1. toClient # <<>>
    BY <1>5 DEF WaitSkip
  <2>2. Head(toClient) \in Msg /\ Tail(toClient) \in Seq(Msg)
    BY <2>1, HeadTailProperties DEF TypeOK
  <2>3. DropOf(Head(toClient)) \subseteq EventNames
    BY <2>2 DEF DropOf, Msg, Cut
  <2>. QED
    BY <2>2, <2>3, <1>5 DEF WaitSkip, TypeInv, TypeOK
<1>6. CASE WaitInTime
  BY <1>6 DEF WaitInTime, TypeInv, TypeOK
<1>7. CASE WaitTimeout
  <2>1. pc' \in 1..Len(Script) + 1 /\ seq' \in 0..MaxSeq /\ seq' < pc'
    BY <1>7, ForwardStep DEF WaitTimeout, Goto, Running
  <2>. QED
    BY <2>1, <1>7 DEF WaitTimeout, Goto, TypeInv, TypeOK
<1>8. CASE CheckSuccess
  <2>1. pc' \in 1..Len(Script) + 1 /\ seq' \in 0..MaxSeq /\ seq' < pc'
    BY <1>8, ForwardStep DEF CheckSuccess, Goto, Running
  <2>. QED
    BY <2>1, <1>8 DEF CheckSuccess, Goto, TypeInv, TypeOK
<1>9. CASE CheckRaises
  <2>1. pc \in 1..Len(Script) /\ Cur.op = "check"
    BY <1>9 DEF CheckRaises, Running
  <2>2. pc < Finally
    BY <2>1, CurType
  <2>3. pc' \in 1..Len(Script) + 1 /\ seq' \in 0..MaxSeq /\ seq' < pc'
    BY <2>1, <2>2, <1>9, ForwardStep DEF CheckRaises, Goto, Finally
  <2>. QED
    BY <2>3, <1>9 DEF CheckRaises, Goto, TypeInv, TypeOK
<1>19. CASE ReadRaises
  <2>1. pc \in 1..Len(Script) /\ Cur.op # "close" /\ toClient # <<>>
    BY <1>19 DEF ReadRaises, Running, Waits
  <2>2. pc < Finally
    BY <2>1, CurType
  <2>3. pc' \in 1..Len(Script) + 1 /\ seq' \in 0..MaxSeq /\ seq' < pc'
    BY <2>1, <2>2, <1>19, ForwardStep DEF ReadRaises, Goto, Finally
  <2>4. Tail(toClient) \in Seq(Msg)
    BY <2>1, HeadTailProperties DEF TypeOK
  <2>. QED
    BY <2>3, <2>4, <1>19 DEF ReadRaises, Goto, TypeInv, TypeOK
<1>10. CASE BranchEnter
  <2>1. pc' \in 1..Len(Script) + 1 /\ seq' \in 0..MaxSeq /\ seq' < pc'
    BY <1>10, ForwardStep DEF BranchEnter, Goto, Running
  <2>. QED
    BY <2>1, <1>10 DEF BranchEnter, Goto, TypeInv, TypeOK
<1>11. CASE BranchSkip
  <2>1. pc \in 1..Len(Script) /\ Cur.op \in Branches
    BY <1>11 DEF BranchSkip, Running
  <2>2. Cur.to \in (pc + 1)..(Len(Script) + 1)
    BY <2>1, CurType
  <2>3. pc' \in 1..Len(Script) + 1 /\ seq' \in 0..MaxSeq /\ seq' < pc'
    BY <2>1, <2>2, <1>11, ForwardStep DEF BranchSkip, Goto
  <2>. QED
    BY <2>3, <1>11 DEF BranchSkip, Goto, TypeInv, TypeOK
<1>12. CASE Close
  <2>1. pc' \in 1..Len(Script) + 1 /\ seq' \in 0..MaxSeq /\ seq' < pc'
    BY <1>12, ForwardStep DEF Close, Goto, Running
  <2>. QED
    BY <2>1, <1>12 DEF Close, Goto, TypeInv, TypeOK
<1>13. CASE ServerReceive
  <2>1. toServer # <<>>
    BY <1>13 DEF ServerReceive
  <2>2. Head(toServer) \in Req /\ Tail(toServer) \in Seq(Req)
    BY <2>1, HeadTailProperties DEF TypeOK
  <2>3. Head(toServer).cmd \in Commands
    BY <2>2 DEF Req
  <2>. QED
    BY <2>2, <2>3, <1>13 DEF ServerReceive, clientVars, TypeInv, TypeOK
<1>14. CASE \E r \in pending, b \in BOOLEAN : ServerRespond(r, b)
  <2>1. PICK r \in pending, b \in BOOLEAN : ServerRespond(r, b)
    BY <1>14
  <2>2. Response(r, b) \in Msg
    BY DEF Response, Msg, Req, TypeOK
  <2>3. toClient' \in Seq(Msg)
    BY <2>1, <2>2, AppendProperties DEF ServerRespond, TypeOK
  <2>. QED
    BY <2>1, <2>3 DEF ServerRespond, clientVars, TypeInv, TypeOK
<1>15. CASE \E e \in EventNames : ServerEmit(e)
  <2>1. PICK e \in EventNames : ServerEmit(e)
    BY <1>15
  <2>2. EventMsg(e) \in Msg
    BY DEF EventMsg, Msg
  <2>3. toClient' \in Seq(Msg)
    BY <2>1, <2>2, AppendProperties DEF ServerEmit, TypeOK
  <2>4. nEvents' \in 0..MaxEvents
    BY <2>1, ScriptLen DEF ServerEmit, TypeOK
  <2>. QED
    BY <2>1, <2>3, <2>4 DEF ServerEmit, clientVars, TypeInv, TypeOK
<1>16. CASE ServerHangUp
  BY <1>16 DEF ServerHangUp, clientVars, TypeInv, TypeOK
<1>17. CASE ServerCrash
  BY <1>17 DEF ServerCrash, clientVars, TypeInv, TypeOK
<1>20. CASE ServerCrashMidFrame
  <2>1. Cut \in Msg
    BY DEF Cut, Msg
  <2>2. toClient' \in Seq(Msg)
    BY <1>20, <2>1, AppendProperties DEF ServerCrashMidFrame, TypeOK
  <2>. QED
    BY <1>20, <2>2 DEF ServerCrashMidFrame, clientVars, TypeInv, TypeOK
<1>18. CASE UNCHANGED vars
  BY <1>18 DEF vars, TypeInv, TypeOK
<1>. QED
  BY <1>1, <1>2, <1>3, <1>4, <1>5, <1>6, <1>7, <1>8, <1>9, <1>10,
     <1>11, <1>12, <1>13, <1>14, <1>15, <1>16, <1>17, <1>18, <1>19, <1>20
  DEF Next, ClientStep, ServerStep

\* The state of the session always has the types TypeOK gives it.
THEOREM TypeCorrect == Spec => []TypeOK
<1>1. Spec => []TypeInv
  BY TypeInit, TypeStep, PTL DEF Spec
<1>. QED
  BY <1>1, PTL DEF TypeInv

(***************************************************************************)
(* Response correlation.  wait_for_response compares request_seq with the  *)
(* seq send_request returned; that this picks the answer to the last       *)
(* request rests on WireCorrelated: seq numbers are the positions of the   *)
(* requests in the send history, and every response on the wire answers    *)
(* the request of the history with its seq.                                *)
(***************************************************************************)
IInv == TypeInv /\ WireCorrelated

LEMMA RequestsTail ==
    ASSUME NEW q \in Seq(Req), q # <<>>, RequestsWritten(q)
    PROVE  /\ RequestsWritten(Tail(q))
           /\ Head(q).seq \in 1..Len(sent) /\ Head(q) = sent[Head(q).seq]
BY HeadTailProperties DEF RequestsWritten

LEMMA ResponsesTail ==
    ASSUME NEW q \in Seq(Msg), q # <<>>, ResponsesAnswer(q)
    PROVE  /\ ResponsesAnswer(Tail(q))
           /\ Head(q).type = "response" =>
                 /\ Head(q).seq \in 1..Len(sent)
                 /\ Head(q) = Response(sent[Head(q).seq], Head(q).body)
BY HeadTailProperties DEF ResponsesAnswer

\* Every client step other than WaitInTime and WaitSkip moves pc forward;
\* none moves it back.
LEMMA PcForward ==
    ASSUME TypeInv, ClientStep
    PROVE  pc' >= pc
<1> pc \in 1..Len(Script)
  BY DEF ClientStep, SendRequest, SendFails, ReadMessage, WaitMatch, WaitSkip,
         WaitInTime, WaitTimeout, CheckSuccess, CheckRaises, BranchEnter,
         BranchSkip, Close, ReadRaises, Running
<1>1. CASE CheckRaises \/ SendFails \/ ReadRaises
  <2>1. Cur.op # "close" /\ pc' = Finally
    BY <1>1 DEF CheckRaises, SendFails, ReadRaises, Goto, Waits
  <2>2. pc < Finally
    BY <2>1, CurType
  <2>. QED
    BY <2>1, <2>2, ScriptLen DEF Finally
<1>2. CASE BranchSkip
  BY <1>2, CurType DEF BranchSkip, Goto
<1>. QED
  BY <1>1, <1>2, ScriptLen DEF ClientStep, SendRequest, ReadMessage, WaitMatch,
     WaitSkip, WaitInTime, WaitTimeout, CheckSuccess, BranchEnter, Close, Goto

\* The second conjunct of WireCorrelated survives a step that moves pc
\* forward and writes nothing.
LEMMA SeqFrame ==
    ASSUME TypeOK, TypeOK', WireCorrelated, pc' >= pc, seq' = seq, sent' = sent
    PROVE  \/ seq' = Len(sent')
           \/ seq' = Len(sent') + 1 /\ pc' >= Finally
BY ScriptLen DEF TypeOK, WireCorrelated, Finally

\* The parts of WireCorrelated about the requests survive a step that
\* leaves the send history, toServer and pending alone.
LEMMA RequestFrame ==
    ASSUME WireCorrelated, UNCHANGED <<sent, toServer, pending>>
    PROVE  /\ SeqConsecutive'
           /\ RequestsWritten(toServer)'
           /\ \A r \in pending' : r.seq \in 1..Len(sent') /\ r = sent'[r.seq]
BY DEF WireCorrelated, SeqConsecutive, RequestsWritten

LEMMA WireStep == IInv /\ [Next]_vars => WireCorrelated'
<1> SUFFICES ASSUME IInv, [Next]_vars PROVE WireCorrelated'
  OBVIOUS
<1> USE DEF serverVars, clientVars
<1>0. TypeOK /\ TypeOK' /\ WireCorrelated
  BY TypeStep DEF IInv, TypeInv
<1>1. CASE SendRequest
  <2> DEFINE new == [seq |-> seq + 1, cmd |-> Cur.name]
  <2>1. pc \in 1..Len(Script) /\ Cur.op = "send"
    BY <1>1 DEF SendRequest, Running
  <2>2. pc < Finally /\ Cur.name \in Commands
    BY <2>1, CurType
  <2>3. seq = Len(sent)
    BY <2>2, <1>0, ScriptLen DEF WireCorrelated, TypeOK, Finally
  <2>4. new \in Req
    BY <2>2, <1>0, ScriptLen DEF IInv, TypeInv, TypeOK, Req, MaxSeq, Finally
  <2>5. /\ sent' = Append(sent, new)
        /\ Len(sent') = Len(sent) + 1
        /\ \A i \in 1..Len(sent) : sent'[i] = sent[i]
        /\ sent'[Len(sent) + 1] = new
    BY <1>1, <1>0, <2>4, AppendProperties DEF SendRequest, TypeOK
  <2>6. SeqConsecutive'
    BY <2>3, <2>5, <1>0 DEF WireCorrelated, SeqConsecutive
  <2>7. seq' = Len(sent')
    BY <1>1, <2>3, <2>5 DEF SendRequest
  <2>8. RequestsWritten(toServer)'
    <3>1. toServer' = Append(toServer, new)
      BY <1>1 DEF SendRequest
    <3>. QED
      BY <3>1, <2>3, <2>4, <2>5, <1>0, AppendProperties
      DEF WireCorrelated, RequestsWritten, TypeOK
  <2>9. \A r \in pending' : r.seq \in 1..Len(sent') /\ r = sent'[r.seq]
    BY <1>1, <2>5, <1>0 DEF SendRequest, WireCorrelated
  <2>10. ResponsesAnswer(toClient)'
    BY <1>1, <2>5, <1>0 DEF SendRequest, WireCorrelated, ResponsesAnswer
  <2>. QED
    BY <2>6, <2>7, <2>8, <2>9, <2>10 DEF WireCorrelated
<1>2. CASE SendFails
  <2>1. pc \in 1..Len(Script) /\ Cur.op = "send"
    BY <1>2 DEF SendFails, Running
  <2>2. pc < Finally
    BY <2>1, CurType
  <2>3. seq = Len(sent)
    BY <2>2, <1>0, ScriptLen DEF WireCorrelated, TypeOK, Finally
  <2>4. seq' = Len(sent') + 1 /\ pc' >= Finally
    BY <1>2, <2>3, <1>0 DEF SendFails, Goto, TypeOK
  <2>5. UNCHANGED <<sent, toServer, pending, toClient>>
    BY <1>2 DEF SendFails
  <2>6. ResponsesAnswer(toClient)'
    BY <2>5, <1>0 DEF WireCorrelated, ResponsesAnswer
  <2>. QED
    BY <2>4, <2>5, <2>6, <1>0, RequestFrame DEF WireCorrelated
<1>3. CASE ReadMessage \/ WaitMatch \/ WaitSkip \/ ReadRaises
  <2>1. toClient # <<>> /\ toClient' = Tail(toClient)
    BY <1>3 DEF ReadMessage, WaitMatch, WaitSkip, ReadRaises
  <2>2. ResponsesAnswer(Tail(toClient))
    BY <2>1, <1>0, ResponsesTail DEF WireCorrelated, TypeOK
  <2>3. pc' >= pc
    BY <1>3, PcForward DEF IInv, ClientStep
  <2>4. UNCHANGED <<seq, sent, toServer, pending>>
    BY <1>3 DEF ReadMessage, WaitMatch, WaitSkip, ReadRaises
  <2>5. \/ seq' = Len(sent')
        \/ seq' = Len(sent') + 1 /\ pc' >= Finally
    BY <2>3, <2>4, <1>0, SeqFrame
  <2>6. ResponsesAnswer(toClient)'
    BY <2>1, <2>2, <2>4 DEF ResponsesAnswer
  <2>7. /\ SeqConsecutive'
        /\ RequestsWritten(toServer)'
        /\ \A r \in pending' : r.seq \in 1..Len(sent') /\ r = sent'[r.seq]
    BY <2>4, <1>0, RequestFrame
  <2>. QED
    BY <2>5, <2>6, <2>7 DEF WireCorrelated
<1>4. CASE WaitInTime \/ WaitTimeout \/ CheckSuccess \/ CheckRaises
           \/ BranchEnter \/ BranchSkip \/ Close
  <2>1. pc' >= pc
    BY <1>4, PcForward DEF IInv, ClientStep
  <2>2. UNCHANGED <<seq, sent, toServer, pending, toClient>>
    BY <1>4 DEF WaitInTime, WaitTimeout, CheckSuccess, CheckRaises,
       BranchEnter, BranchSkip, Close
  <2>3. \/ seq' = Len(sent')
        \/ seq' = Len(sent') + 1 /\ pc' >= Finally
    BY <2>1, <2>2, <1>0, SeqFrame
  <2>4. ResponsesAnswer(toClient)'
    BY <2>2, <1>0 DEF WireCorrelated, ResponsesAnswer
  <2>. QED
    BY <2>2, <2>3, <2>4, <1>0, RequestFrame DEF WireCorrelated
<1>5. CASE ServerReceive
  <2>1. toServer # <<>> /\ toServer' = Tail(toServer)
        /\ pending' = pending \cup {Head(toServer)}
    BY <1>5 DEF ServerReceive
  <2>2. /\ RequestsWritten(Tail(toServer))
        /\ Head(toServer).seq \in 1..Len(sent)
        /\ Head(toServer) = sent[Head(toServer).seq]
    BY <2>1, <1>0, RequestsTail DEF WireCorrelated, TypeOK
  <2>3. UNCHANGED <<seq, pc, sent, toClient>>
    BY <1>5 DEF ServerReceive
  <2>. QED
    BY <2>1, <2>2, <2>3, <1>0 DEF WireCorrelated, SeqConsecutive,
       RequestsWritten, ResponsesAnswer
<1>6. CASE \E r \in pending, b \in BOOLEAN : ServerRespond(r, b)
  <2>1. PICK r \in pending, b \in BOOLEAN : ServerRespond(r, b)
    BY <1>6
  <2>2. r.seq \in 1..Len(sent) /\ r = sent[r.seq]
    BY <1>0 DEF WireCorrelated
  <2>3. Response(r, b) \in Msg
    BY <1>0 DEF Response, Msg, Req, TypeOK
  <2>4. /\ toClient' = Append(toClient, Response(r, b))
        /\ Len(toClient') = Len(toClient) + 1
        /\ \A i \in 1..Len(toClient) : toClient'[i] = toClient[i]
        /\ toClient'[Len(toClient) + 1] = Response(r, b)
    BY <2>1, <2>3, <1>0, AppendProperties DEF ServerRespond, TypeOK
  <2>5. ResponsesAnswer(toClient)'
    <3>1. Response(r, b).seq \in 1..Len(sent)
          /\ Response(r, b) = Response(sent[Response(r, b).seq], Response(r, b).body)
      BY <2>2 DEF Response
    <3>2. UNCHANGED sent
      BY <2>1 DEF ServerRespond
    <3>. QED
      BY <2>4, <3>1, <3>2, <1>0 DEF WireCorrelated, ResponsesAnswer
  <2>6. UNCHANGED <<seq, pc, sent, toServer>> /\ pending' = pending \ {r}
    BY <2>1 DEF ServerRespond
  <2>. QED
    BY <2>5, <2>6, <1>0 DEF WireCorrelated, SeqConsecutive, RequestsWritten
<1>7. CASE \E e \in EventNames : ServerEmit(e)
  <2>1. PICK e \in EventNames : ServerEmit(e)
    BY <1>7
  <2>2. EventMsg(e) \in Msg
    BY DEF EventMsg, Msg
  <2>3. /\ toClient' = Append(toClient, EventMsg(e))
        /\ Len(toClient') = Len(toClient) + 1
        /\ \A i \in 1..Len(toClient) : toClient'[i] = toClient[i]
        /\ toClient'[Len(toClient) + 1] = EventMsg(e)
    BY <2>1, <2>2, <1>0, AppendProperties DEF ServerEmit, TypeOK
  <2>4. UNCHANGED <<seq, pc, sent, toServer, pending>>
    BY <2>1 DEF ServerEmit
  <2>5. ResponsesAnswer(toClient)'
    <3> SUFFICES ASSUME NEW i \in 1..Len(toClient'), toClient'[i].type = "response"
                 PROVE  /\ toClient'[i].seq \in 1..Len(sent')
                        /\ toClient'[i] = Response(sent'[toClient'[i].seq], toClient'[i].body)
      BY DEF ResponsesAnswer
    <3>1. i \in 1..Len(toClient)
      BY <2>3, <1>0 DEF EventMsg, TypeOK
    <3>. QED
      BY <3>1, <2>3, <2>4, <1>0 DEF WireCorrelated, ResponsesAnswer
  <2>. QED
    BY <2>4, <2>5, <1>0 DEF WireCorrelated, SeqConsecutive, RequestsWritten
<1>9. CASE ServerCrashMidFrame
  <2>1. Cut \in Msg
    BY DEF Cut, Msg
  <2>2. /\ Len(toClient') = Len(toClient) + 1
        /\ \A i \in 1..Len(toClient) : toClient'[i] = toClient[i]
        /\ toClient'[Len(toClient) + 1] = Cut
    BY <1>9, <2>1, <1>0, AppendProperties DEF ServerCrashMidFrame, TypeOK
  <2>3. UNCHANGED <<seq, pc, sent, toServer, pending>>
    BY <1>9 DEF ServerCrashMidFrame
  <2>4. ResponsesAnswer(toClient)'
    <3> SUFFICES ASSUME NEW i \in 1..Len(toClient'), toClient'[i].type = "response"
                 PROVE  /\ toClient'[i].seq \in 1..Len(sent')
                        /\ toClient'[i] = Response(sent'[toClient'[i].seq], toClient'[i].body)
      BY DEF ResponsesAnswer
    <3>1. i \in 1..Len(toClient)
      BY <2>2, <1>0 DEF Cut, TypeOK
    <3>. QED
      BY <3>1, <2>2, <2>3, <1>0 DEF WireCorrelated, ResponsesAnswer
  <2>. QED
    BY <2>3, <2>4, <1>0 DEF WireCorrelated, SeqConsecutive, RequestsWritten
<1>8. CASE ServerHangUp \/ ServerCrash \/ UNCHANGED vars
  <2>1. UNCHANGED <<seq, pc, sent, toServer, pending, toClient>>
    BY <1>8 DEF ServerHangUp, ServerCrash, vars
  <2>. QED
    BY <2>1, <1>0 DEF WireCorrelated, SeqConsecutive, RequestsWritten,
       ResponsesAnswer
<1>. QED
  BY <1>1, <1>2, <1>3, <1>4, <1>5, <1>6, <1>7, <1>8, <1>9
  DEF Next, ClientStep, ServerStep

LEMMA IInvInit == Init => IInv
BY TypeInit DEF Init, IInv, WireCorrelated, SeqConsecutive, RequestsWritten,
   ResponsesAnswer

LEMMA IInvStep == IInv /\ [Next]_vars => IInv'
BY TypeStep, WireStep DEF IInv

\* On the wire, the i-th request carries seq i, seq counts the requests
\* written (one more after a failed sendall), every request queued or
\* pending at the server was written, and every response in flight
\* answers a written request: for every script and every server
\* behaviour, including crashes and timed-out waits.
THEOREM WireInvariant == Spec => []WireCorrelated
<1>1. IInv => WireCorrelated  BY DEF IInv
<1>. QED  BY <1>1, IInvInit, IInvStep, PTL DEF Spec

\* send_request numbers the requests of a session 1, 2, 3, ... in the
\* order they are written, whatever path the script takes.
THEOREM SeqNumbering == Spec => []SeqConsecutive
<1>1. WireCorrelated => SeqConsecutive  BY DEF WireCorrelated
<1>. QED  BY <1>1, WireInvariant, PTL

\* wait_for_response(seq) returns only the response to the request the
\* script has just sent (the late answer to a timed-out request is never
\* taken for the answer to the next one).
THEOREM ResponseCorrelation == Spec => ResponseCorrelated
<1>1. IInv /\ [Next]_vars => IInv'
  BY TypeStep, WireStep DEF IInv
<1>2. IInv /\ [Next]_vars => [ResponseCorrelatedStep]_vars
  <2> SUFFICES ASSUME IInv, [Next]_vars, RespReturned
               PROVE  /\ sent # <<>>
                      /\ result' = Response(sent[Len(sent)], result'.body)
    BY DEF ResponseCorrelatedStep
  <2>1. Cur.op = "waitResp" /\ pc' = pc + 1 /\ result' # None
    BY DEF RespReturned
  <2>2. CASE WaitMatch
    <3> DEFINE m == Head(toClient)
    <3>1. toClient # <<>> /\ m.type = "response" /\ m.seq = seq /\ result' = m
      BY <2>1, <2>2 DEF WaitMatch, Matches
    <3>2. m.seq \in 1..Len(sent) /\ m = Response(sent[m.seq], m.body)
      BY <3>1, ResponsesTail DEF IInv, TypeInv, TypeOK, WireCorrelated
    <3>3. seq = Len(sent)
      BY <3>1, <3>2 DEF IInv, WireCorrelated
    <3>. QED
      BY <3>1, <3>2, <3>3
  <2>3. CASE SendRequest \/ SendFails \/ ReadMessage \/ CheckSuccess
             \/ CheckRaises \/ BranchEnter \/ BranchSkip \/ Close
    BY <2>1, <2>3 DEF SendRequest, SendFails, ReadMessage, CheckSuccess,
       CheckRaises, BranchEnter, BranchSkip, Close, Branches
  <2>6. CASE ReadRaises
    BY <2>1, <2>6 DEF ReadRaises
  <2>4. CASE WaitTimeout
    BY <2>1, <2>4 DEF WaitTimeout
  <2>5. CASE WaitSkip \/ WaitInTime \/ ServerStep \/ UNCHANGED vars
    <3>1. pc' = pc
      BY <2>5 DEF WaitSkip, WaitInTime, ServerStep, ServerReceive, ServerRespond,
         ServerEmit, ServerHangUp, ServerCrash, ServerCrashMidFrame, clientVars,
         vars
    <3>. QED
      BY <3>1, <2>1 DEF IInv, TypeInv, TypeOK
  <2>. QED
    BY <2>2, <2>3, <2>4, <2>5, <2>6 DEF Next, ClientStep
<1>. QED
  BY <1>1, <1>2, IInvInit, PTL DEF Spec, ResponseCorrelated

(***************************************************************************)
(* Refinement of DAPClientAPI.  Seen from the script, each DAPClient call  *)
(* is one step: the wait loops' WaitSkip and WaitInTime steps and every    *)
(* server step leave the script's state alone, and the step that ends a   *)
(* call returns what DAPClientAPI allows.  Besides WireCorrelated, this   *)
(* needs that every event on the wire is EventMsg of its name: the         *)
(* message wait_for_event(e) returns is then EventMsg(e).                  *)
(***************************************************************************)
EventsFormed ==
    \A i \in 1..Len(toClient) :
        toClient[i].type = "event" => toClient[i] = EventMsg(toClient[i].name)

LEMMA EventsInit == Init => EventsFormed
BY DEF Init, EventsFormed

LEMMA EventsStep == TypeInv /\ EventsFormed /\ [Next]_vars => EventsFormed'
<1> SUFFICES ASSUME TypeInv, EventsFormed, [Next]_vars PROVE EventsFormed'
  OBVIOUS
<1>0. toClient \in Seq(Msg)
  BY DEF TypeInv, TypeOK
<1>1. CASE ReadMessage \/ WaitMatch \/ WaitSkip \/ ReadRaises
  <2>1. toClient # <<>> /\ toClient' = Tail(toClient)
    BY <1>1 DEF ReadMessage, WaitMatch, WaitSkip, ReadRaises
  <2>. QED  BY <2>1, <1>0, HeadTailProperties DEF EventsFormed
<1>5. CASE ServerCrashMidFrame
  <2>1. toClient' = Append(toClient, Cut)
    BY <1>5 DEF ServerCrashMidFrame
  <2>. QED  BY <2>1, <1>0, AppendProperties DEF EventsFormed, Cut
<1>2. CASE \E r \in pending, b \in BOOLEAN : ServerRespond(r, b)
  <2>1. PICK r \in pending, b \in BOOLEAN : ServerRespond(r, b)
    BY <1>2
  <2>2. toClient' = Append(toClient, Response(r, b))
    BY <2>1 DEF ServerRespond
  <2>. QED  BY <2>2, <1>0, AppendProperties DEF EventsFormed, Response
<1>3. CASE \E e \in EventNames : ServerEmit(e)
  <2>1. PICK e \in EventNames : ServerEmit(e)
    BY <1>3
  <2>2. /\ Len(toClient') = Len(toClient) + 1
        /\ \A i \in 1..Len(toClient) : toClient'[i] = toClient[i]
        /\ toClient'[Len(toClient) + 1] = EventMsg(e)
    BY <2>1, <1>0, AppendProperties DEF ServerEmit
  <2>3. EventMsg(e) = EventMsg(EventMsg(e).name)
    BY DEF EventMsg
  <2>. SUFFICES ASSUME NEW i \in 1..Len(toClient'), toClient'[i].type = "event"
                PROVE  toClient'[i] = EventMsg(toClient'[i].name)
    BY DEF EventsFormed
  <2>4. CASE i \in 1..Len(toClient)
    BY <2>2, <2>4 DEF EventsFormed
  <2>5. CASE i = Len(toClient) + 1
    BY <2>2, <2>3, <2>5
  <2>. QED  BY <2>2, <2>4, <2>5, <1>0
<1>4. CASE UNCHANGED toClient
  BY <1>4 DEF EventsFormed
<1>. QED
  BY <1>1, <1>2, <1>3, <1>4, <1>5
  DEF Next, ClientStep, ServerStep, SendRequest, SendFails, WaitInTime,
      WaitTimeout, CheckSuccess, CheckRaises, BranchEnter, BranchSkip, Close,
      ServerReceive, ServerHangUp, ServerCrash, vars

RInv == IInv /\ EventsFormed

LEMMA RInvInit == Init => RInv
BY IInvInit, EventsInit DEF RInv

LEMMA RInvStep == RInv /\ [Next]_vars => RInv'
BY IInvStep, EventsStep DEF RInv, IInv

\* The message at the head of the wire is an answer to a request of the
\* history or an event: what read_message may return.
LEMMA HeadIsAnswerOrEvent ==
    ASSUME RInv, toClient # <<>>, Head(toClient) # Cut
    PROVE  Head(toClient) \in API!Answers \cup API!Events
<1> DEFINE m == Head(toClient)
<1>1. toClient \in Seq(Msg) /\ m \in Msg
  BY HeadTailProperties DEF RInv, IInv, TypeInv, TypeOK
<1>2. CASE m.type = "response"
  <2>1. m.seq \in 1..Len(sent) /\ m = Response(sent[m.seq], m.body)
    BY <1>1, <1>2, ResponsesTail DEF RInv, IInv, WireCorrelated
  <2>2. m.body \in BOOLEAN
    BY <1>1, <1>2 DEF Msg
  <2>3. m = API!Response(sent[m.seq], m.body)
    BY <2>1 DEF API!Response, Response
  <2>. QED  BY <2>1, <2>2, <2>3 DEF API!Answers
<1>3. CASE m.type = "event"
  <2>1. m = EventMsg(m.name) /\ m.name \in EventNames
    BY <1>1, <1>3 DEF RInv, EventsFormed, Msg
  <2>. QED  BY <2>1 DEF API!Events, API!EventMsg, EventMsg
<1>4. m.type \in {"response", "event"}
  BY <1>1 DEF Msg, Cut
<1>. QED  BY <1>2, <1>3, <1>4

\* Every step of the session is a step of DAPClientAPI or leaves the
\* script's state and the send history alone.
LEMMA APIStep == RInv /\ [Next]_vars => [API!Next]_API!avars
<1> SUFFICES ASSUME RInv, [Next]_vars PROVE [API!Next]_API!avars
  OBVIOUS
<1> USE DEF serverVars, clientVars
<1>1. CASE SendRequest
  BY <1>1 DEF SendRequest, Goto, API!Next, API!SendRequest, API!Running,
     API!Cur, Running, Cur
<1>2. CASE SendFails
  BY <1>2 DEF SendFails, Goto, API!Next, API!SendRaises, API!Running,
     API!Cur, API!Finally, Running, Cur, Finally
<1>3. CASE ReadMessage
  <2>1. Head(toClient) \in API!Answers \cup API!Events
    BY <1>3, HeadIsAnswerOrEvent DEF ReadMessage
  <2>. QED  BY <1>3, <2>1 DEF ReadMessage, Goto, API!Next, API!ReadMessage,
            API!Running, API!Cur, Running, Cur
<1>4. CASE WaitMatch
  <2> DEFINE m == Head(toClient)
  <2>1. toClient # <<>> /\ Matches(Cur, m) /\ result' = m
        /\ pc \in 1..Len(Script) /\ Cur.op \in Waits
        /\ pc' = pc + 1 /\ UNCHANGED <<seq, cclosed, sent>>
    BY <1>4 DEF WaitMatch, Goto, Running
  <2>2. m \in Msg
    BY <2>1, HeadTailProperties DEF RInv, IInv, TypeInv, TypeOK
  <2>3. CASE Cur.op = "waitResp"
    <3>1. m.type = "response" /\ m.seq = seq
      BY <2>1, <2>3 DEF Matches
    <3>2. m.seq \in 1..Len(sent) /\ m = Response(sent[m.seq], m.body)
      BY <2>1, <3>1, ResponsesTail DEF RInv, IInv, TypeInv, TypeOK,
         WireCorrelated
    <3>3. seq = Len(sent) /\ sent # <<>> /\ m.body \in BOOLEAN
      BY <2>2, <3>1, <3>2 DEF RInv, IInv, WireCorrelated, Msg, Cut
    <3>4. result' = API!Response(sent[Len(sent)], m.body)
      BY <2>1, <3>1, <3>2, <3>3 DEF API!Response, Response
    <3>5. API!WaitForResponse
      BY <2>1, <2>3, <3>3, <3>4 DEF API!WaitForResponse, API!Running, API!Cur,
         Cur
    <3>. QED  BY <3>5 DEF API!Next
  <2>4. CASE Cur.op = "waitEvent"
    <3>1. m.type = "event" /\ m.name = Cur.name
      BY <2>1, <2>4 DEF Matches
    <3>2. m = EventMsg(m.name)
      BY <2>1, <3>1, HeadTailProperties DEF RInv, EventsFormed, IInv, TypeInv,
         TypeOK
    <3>3. API!WaitForEvent
      BY <2>1, <2>4, <3>1, <3>2 DEF API!WaitForEvent, API!Running, API!Cur,
         API!EventMsg, EventMsg, Cur
    <3>. QED  BY <3>3 DEF API!Next
  <2>. QED  BY <2>1, <2>3, <2>4 DEF Waits
<1>5. CASE WaitTimeout
  <2>1. pc \in 1..Len(Script) /\ Cur.op \in Waits /\ result' = None
        /\ pc' = pc + 1 /\ UNCHANGED <<seq, cclosed, sent>>
    BY <1>5 DEF WaitTimeout, Goto, Running
  <2>2. CASE Cur.op = "waitResp"
    BY <2>1, <2>2 DEF API!Next, API!WaitForResponse, API!Running, API!Cur,
       API!None, None, Cur
  <2>3. CASE Cur.op = "waitEvent"
    BY <2>1, <2>3 DEF API!Next, API!WaitForEvent, API!Running, API!Cur,
       API!None, None, Cur
  <2>. QED  BY <2>1, <2>2, <2>3 DEF Waits
<1>11. CASE ReadRaises
  BY <1>11 DEF ReadRaises, Goto, Waits, API!Next, API!ReadRaises, API!Running,
     API!Cur, API!None, API!Finally, Running, Cur, None, Finally
<1>6. CASE CheckSuccess
  BY <1>6 DEF CheckSuccess, Goto, API!Next, API!CheckPasses, API!Running,
     API!Cur, API!None, Running, Cur, None
<1>7. CASE CheckRaises
  BY <1>7 DEF CheckRaises, Goto, API!Next, API!CheckRaises, API!Running,
     API!Cur, API!None, API!Finally, Running, Cur, None, Finally
<1>8. CASE BranchEnter \/ BranchSkip
  BY <1>8 DEF BranchEnter, BranchSkip, Goto, API!Next, API!Branch,
     API!Running, API!Cur, API!Holds, API!None, Running, Cur, Holds, None,
     Branches
<1>9. CASE Close
  BY <1>9 DEF Close, Goto, API!Next, API!Close, API!Running, API!Cur,
     Running, Cur
<1>10. CASE WaitSkip \/ WaitInTime \/ ServerStep \/ UNCHANGED vars
  BY <1>10 DEF WaitSkip, WaitInTime, ServerStep, ServerReceive, ServerRespond,
     ServerEmit, ServerHangUp, ServerCrash, ServerCrashMidFrame, vars, API!avars
<1>. QED
  BY <1>1, <1>2, <1>3, <1>4, <1>5, <1>6, <1>7, <1>8, <1>9, <1>10, <1>11
  DEF Next, ClientStep

\* For every script and every server behaviour (crashes included), the
\* session implements DAPClientAPI (ImplementsAPI): each DAPClient call
\* acts atomically on the script's state, read_message returns only an
\* answer to a written request or an event, wait_for_response only the
\* answer to the request just sent or None, wait_for_event(e) only an e
\* event or None.
THEOREM ClientRefinesAPI == Spec => ImplementsAPI
<1>1. Init => API!Init
  BY DEF Init, API!Init, API!None, None
<1>. QED
  BY <1>1, RInvInit, RInvStep, APIStep, PTL
  DEF Spec, ImplementsAPI, API!Spec
=============================================================================
