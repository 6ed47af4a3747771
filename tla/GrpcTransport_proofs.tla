------------------------ MODULE GrpcTransport_proofs -------------------------
(***************************************************************************)
(* Proofs about GrpcTransport, for any set of clients, workloads, block    *)
(* counts and contents, window, number of operations and of servers.       *)
(*                                                                         *)
(* IInv is inductive.  Its parts for one client (OneInv) speak of that     *)
(* client's variables only, so that a step of a client or its handler need *)
(* be looked at for that client alone; the end of the server process is    *)
(* the one step that touches every client.                                 *)
(*                                                                         *)
(* FlatbuffersTransport is GrpcTransport with builders.  Its proofs are at *)
(* the end: every step of it is a step of the gRPC transport, or one that  *)
(* only builds a message and that the gRPC transport does not see.  The    *)
(* invariant of that transport is kept by its own proof; what is left is   *)
(* that of the builders.                                                   *)
(***************************************************************************)
EXTENDS FlatbuffersTransport, RtPayload_proofs

\* The part of IInv about one client.
OneInv(c) ==
    /\ RequestInv(c) /\ CallInv(c) /\ StreamInv(c) /\ ServedInv(c)
    /\ pc[c] = "check" =>
          /\ rcvMsg[c] = req[c]
          /\ reply[c] = sndMsg[c]
          /\ ~Rejects(req[c]) /\ reply[c] \in Responses(req[c])
    /\ pc[c] = "invalid" => Workload[c] = "read" /\ BlockCount[c] < 0

\* A step that leaves client c and its call alone.
Same(c) ==
    /\ pc'[c] = pc[c] /\ ops'[c] = ops[c]
    /\ req'[c] = req[c] /\ reply'[c] = reply[c]
    /\ stage'[c] = stage[c] /\ link'[c] = link[c]
    /\ c2s'[c] = c2s[c] /\ s2c'[c] = s2c[c]
    /\ h'[c] = h[c]
    /\ rcvMsg'[c] = rcvMsg[c] /\ sndMsg'[c] = sndMsg[c]

\* IInv, client by client.
LEMMA IInvSplit == IInv <=> TypeOK /\ CallbackInv /\ \A c \in Client : OneInv(c)
BY DEF IInv, OneInv, CompleteReply, NoInvalidReply

LEMMA SameInv ==
    ASSUME NEW c \in Client, OneInv(c), Same(c)
    PROVE  OneInv(c)'
BY DEF OneInv, Same, RequestInv, CallInv, StreamInv, ServedInv

\* The variables of a client that is not the one that moves.
LEMMA TypeOKDomains ==
    ASSUME TypeOK, NEW c \in Client
    PROVE  /\ req[c] \in Msg /\ reply[c] \in Msg
           /\ c2s[c] \in Msg /\ s2c[c] \in Msg
           /\ rcvMsg[c] \in Msg /\ sndMsg[c] \in Msg
           /\ ops[c] \in 0..OpCount[c]
BY DEF TypeOK, ClientTypeOK

-----------------------------------------------------------------------------
(* Type correctness                                                        *)

\* A step keeps the types: what is appended to a stream is a buffer of a
\* message, and what a handler makes of a message is a message.
LEMMA TypeStep ==
    ASSUME IInv, [Next]_vars
    PROVE  TypeOK'
<1> USE DEF TypeOK, ClientTypeOK, ServerTypeOK
<1>0. TypeOK
  BY DEF IInv
<1>1. ASSUME NEW c \in Client, StartCall(c)
      PROVE  TypeOK'
  <2>1. \A m \in Requests(c) : m \in Msg
    BY ClientAssumption, FillReqMsg DEF Requests
  <2>2. <<>> \in Msg
    BY EmptySeq DEF Msg
  <2> QED
    BY <1>0, <1>1, <2>1, <2>2
    DEF StartCall, FillRequest, serverVars, RcvFns
<1>17. ASSUME NEW c \in Client, FillFails(c)
       PROVE  TypeOK'
  BY <1>0, <1>17 DEF FillFails, FillThrows, serverVars, callVars, handlerVars, Ended
<1>2. ASSUME NEW c \in Client, Write(c)
      PROVE  TypeOK'
  BY <1>0, <1>2, NextMsg, TypeOKDomains
  DEF Write, clientVars, serverVars, handlerVars
<1>3. ASSUME NEW c \in Client, WritesDone(c) \/ WritesDropped(c)
      PROVE  TypeOK'
  BY <1>0, <1>3
  DEF WritesDone, WritesDropped, clientVars, serverVars, handlerVars
<1>4. ASSUME NEW c \in Client, Read(c)
      PROVE  TypeOK'
  BY <1>0, <1>4, NextMsg, TypeOKDomains
  DEF Read, serverVars, callVars, handlerVars
<1>5. ASSUME NEW c \in Client, FinishOK(c) \/ FinishError(c)
      PROVE  TypeOK'
  BY <1>0, <1>5
  DEF FinishOK, FinishError, SendReqReturns, SendReqThrows, serverVars, handlerVars, Ended
<1>6. ASSUME NEW c \in Client, Check(c)
      PROVE  TypeOK'
  <2>1. ops[c] \in Int /\ 0 <= ops[c] /\ ops[c] < OpCount[c] /\ OpCount[c] \in Int
    BY <1>0, <1>6, ClientAssumption DEF Check, CheckReply, IInv, CallInv
  <2>2. ops[c] + 1 \in Nat /\ ops[c] + 1 <= OpCount[c]
    BY <2>1
  <2> QED BY <1>0, <1>6, <2>2 DEF Check, CheckReply, serverVars, callVars, handlerVars, Ended
<1>7. ASSUME NEW c \in Client, End(c)
      PROVE  TypeOK'
  BY <1>0, <1>7 DEF End, Pass, serverVars, callVars, handlerVars, Ended
<1>8. ASSUME NEW c \in Client, HandlerStart(c) \/ HandlerDrop(c)
      PROVE  TypeOK'
  BY <1>0, <1>8 DEF HandlerStart, HandlerDrop, clientVars, serverVars
<1>9. ASSUME NEW c \in Client, HandlerRead(c)
      PROVE  TypeOK'
  BY <1>0, <1>9, NextMsg, TypeOKDomains DEF HandlerRead, clientVars, serverVars
<1>10. ASSUME NEW c \in Client, HandlerServe(c)
       PROVE  TypeOK'
  <2>1. \A rsp \in Responses(rcvMsg[c]) : rsp \in Msg
    BY <1>0, <1>10, ResponsesMsg, TypeOKDomains DEF HandlerServe
  <2> QED BY <1>0, <1>10, <2>1 DEF HandlerServe, clientVars, serverVars
<1>11. ASSUME CallsDie, Abort \/ Exit
       PROVE  TypeOK'
  BY <1>0, <1>11 DEF CallsDie, Abort, Exit, clientVars
<1>12. ASSUME NEW c \in Client, HandlerWrite(c)
       PROVE  TypeOK'
  BY <1>0, <1>12, NextMsg, TypeOKDomains
  DEF HandlerWrite, clientVars, serverVars, handlerVars
<1>13. ASSUME NEW c \in Client, HandlerReturn(c)
       PROVE  TypeOK'
  BY <1>0, <1>13 DEF HandlerReturn, clientVars, serverVars
<1>14. ASSUME NEW c \in Client, Break(c) \/ Stall(c)
       PROVE  TypeOK'
  BY <1>0, <1>14
  DEF Break, Stall, clientVars, serverVars, handlerVars
<1>15. ASSUME ServerStart
       PROVE  TypeOK'
  BY <1>0, <1>15, MaxBootsAssumption
  DEF ServerStart, Boot, SetRcvFn, Listen, RcvFns, clientVars, callVars, handlerVars
<1>16. ASSUME UNCHANGED vars
       PROVE  TypeOK'
  BY <1>0, <1>16 DEF vars, clientVars, serverVars, callVars, handlerVars
<1> QED
  BY <1>1, <1>2, <1>3, <1>4, <1>5, <1>6, <1>7, <1>8, <1>9, <1>10, <1>11,
     <1>12, <1>13, <1>14, <1>15, <1>16, <1>17
  DEF Next, ClientStep, HandlerStep, HandlerAbort, ServerExit, AllEnded

-----------------------------------------------------------------------------
(* The callback                                                            *)

LEMMA CallbackStep ==
    ASSUME IInv, [Next]_vars
    PROVE  CallbackInv'
<1> USE DEF CallbackInv
<1>0. TypeOK /\ CallbackInv
  BY DEF IInv
<1>1. ASSUME NEW c \in Client, StartCall(c)
      PROVE  CallbackInv'
  BY <1>0, <1>1 DEF StartCall, serverVars, TypeOK
<1>2. ASSUME NEW c \in Client, HandlerStart(c)
      PROVE  CallbackInv'
  BY <1>0, <1>2 DEF HandlerStart, serverVars, TypeOK
<1>3. ASSUME NEW c \in Client,
             HandlerDrop(c) \/ HandlerServe(c) \/ HandlerReturn(c)
      PROVE  CallbackInv'
  BY <1>0, <1>3 DEF HandlerDrop, HandlerServe, HandlerReturn, serverVars, TypeOK
<1>4. ASSUME CallsDie, Abort \/ Exit
      PROVE  CallbackInv'
  BY <1>4 DEF CallsDie, Abort, Exit
<1>5. ASSUME ServerStart
      PROVE  CallbackInv'
  BY <1>0, <1>5
  DEF ServerStart, Boot, SetRcvFn, Listen, callVars, handlerVars
<1>6. ASSUME UNCHANGED <<serverVars, h, fn>>
      PROVE  CallbackInv'
  BY <1>0, <1>6 DEF serverVars
<1> QED
  BY <1>1, <1>2, <1>3, <1>4, <1>5, <1>6
  DEF Next, ClientStep, HandlerStep, HandlerAbort, ServerExit, AllEnded,
      FillFails, Write, WritesDone, WritesDropped, Read, FinishOK, FinishError,
      Check, End, HandlerRead, HandlerWrite, Break, Stall,
      vars, callVars, handlerVars

-----------------------------------------------------------------------------
(* The invariant of the client that moves                                  *)

\* A stream is created: nothing has been written or read.
LEMMA StartCallInv ==
    ASSUME IInv, NEW c \in Client, StartCall(c), TypeOK'
    PROVE  OneInv(c)'
<1>1. /\ req'[c] \in Requests(c)
      /\ pc[c] = "fill" /\ pc'[c] = "send" /\ ops'[c] = ops[c] /\ ops[c] < OpCount[c]
      /\ stage'[c] = "writing"
      /\ link'[c] \in {"open", "broken"} /\ h'[c] \in {"pending", "none"}
      /\ reply'[c] = <<>> /\ c2s'[c] = <<>> /\ rcvMsg'[c] = <<>>
      /\ sndMsg'[c] = <<>> /\ s2c'[c] = <<>>
  BY DEF StartCall, FillRequest, IInv, TypeOK, ClientTypeOK
<1>2. req'[c] \in Seq(Buf) /\ <<>> \in Seq(Buf)
  BY EmptySeq DEF TypeOK, ClientTypeOK, Msg
<1>3. IsPrefix(<<>>, req'[c]) /\ IsPrefix(<<>>, <<>>)
  BY <1>2, PrefixEmpty
<1> QED
  BY <1>1, <1>3 DEF OneInv, RequestInv, CallInv, StreamInv, ServedInv

\* One more message is written or read, on either side.
LEMMA WriteInv ==
    ASSUME IInv, NEW c \in Client, Write(c)
    PROVE  OneInv(c)'
<1>1. TypeOK /\ OneInv(c)
  BY IInvSplit
<1>2. /\ pc' = pc /\ ops' = ops /\ req' = req /\ reply' = reply
      /\ stage' = stage /\ link' = link /\ s2c' = s2c
      /\ h' = h /\ rcvMsg' = rcvMsg /\ sndMsg' = sndMsg
      /\ stage[c] = "writing"
      /\ c2s'[c] = Append(c2s[c], req[c][Len(c2s[c]) + 1])
      /\ Len(c2s[c]) < Len(req[c])
  BY <1>1 DEF Write, TypeOK, clientVars, handlerVars
<1>3. req[c] \in Seq(Buf) /\ c2s[c] \in Seq(Buf) /\ rcvMsg[c] \in Seq(Buf)
  BY <1>1, TypeOKDomains DEF Msg
<1>4. req[c][Len(c2s[c]) + 1] \in Buf
  BY <1>2, <1>3, LenProperties, ElementOfSeq
<1>5. IsPrefix(c2s[c], req[c]) /\ IsPrefix(rcvMsg[c], c2s[c])
  BY <1>1 DEF OneInv, StreamInv
<1>6. IsPrefix(c2s'[c], req[c])
  BY <1>2, <1>3, <1>5, PrefixNext
<1>7. IsPrefix(rcvMsg[c], c2s'[c])
  BY <1>2, <1>3, <1>4, <1>5, PrefixGrows
<1> QED
  BY <1>1, <1>2, <1>6, <1>7
  DEF OneInv, RequestInv, CallInv, StreamInv, ServedInv

LEMMA HandlerWriteInv ==
    ASSUME IInv, NEW c \in Client, HandlerWrite(c)
    PROVE  OneInv(c)'
<1>1. TypeOK /\ OneInv(c)
  BY IInvSplit
<1>2. /\ pc' = pc /\ ops' = ops /\ req' = req /\ reply' = reply
      /\ stage' = stage /\ link' = link /\ c2s' = c2s
      /\ h' = h /\ rcvMsg' = rcvMsg /\ sndMsg' = sndMsg
      /\ h[c] = "writing"
      /\ s2c'[c] = Append(s2c[c], sndMsg[c][Len(s2c[c]) + 1])
      /\ Len(s2c[c]) < Len(sndMsg[c])
  BY <1>1 DEF HandlerWrite, TypeOK, clientVars, handlerVars
<1>3. sndMsg[c] \in Seq(Buf) /\ s2c[c] \in Seq(Buf) /\ reply[c] \in Seq(Buf)
  BY <1>1, TypeOKDomains DEF Msg
<1>4. sndMsg[c][Len(s2c[c]) + 1] \in Buf
  BY <1>2, <1>3, LenProperties, ElementOfSeq
<1>5. IsPrefix(s2c[c], sndMsg[c]) /\ IsPrefix(reply[c], s2c[c])
  BY <1>1 DEF OneInv, StreamInv
<1>6. IsPrefix(s2c'[c], sndMsg[c])
  BY <1>2, <1>3, <1>5, PrefixNext
<1>7. IsPrefix(reply[c], s2c'[c])
  BY <1>2, <1>3, <1>4, <1>5, PrefixGrows
<1> QED
  BY <1>1, <1>2, <1>6, <1>7
  DEF OneInv, RequestInv, CallInv, StreamInv, ServedInv

LEMMA ReadInv ==
    ASSUME IInv, NEW c \in Client, Read(c)
    PROVE  OneInv(c)'
<1>1. TypeOK /\ OneInv(c)
  BY IInvSplit
<1>2. /\ pc' = pc /\ ops' = ops /\ req' = req /\ s2c' = s2c
      /\ stage' = stage /\ link' = link /\ c2s' = c2s
      /\ h' = h /\ rcvMsg' = rcvMsg /\ sndMsg' = sndMsg
      /\ stage[c] = "reading"
      /\ reply'[c] = Append(reply[c], s2c[c][Len(reply[c]) + 1])
      /\ Len(reply[c]) < Len(s2c[c])
  BY <1>1 DEF Read, TypeOK, ClientTypeOK, callVars, handlerVars
<1>3. s2c[c] \in Seq(Buf) /\ reply[c] \in Seq(Buf)
  BY <1>1, TypeOKDomains DEF Msg
<1>4. IsPrefix(reply'[c], s2c[c])
  BY <1>1, <1>2, <1>3, PrefixNext DEF OneInv, StreamInv
<1> QED
  BY <1>1, <1>2, <1>4 DEF OneInv, RequestInv, CallInv, StreamInv, ServedInv

LEMMA HandlerReadInv ==
    ASSUME IInv, NEW c \in Client, HandlerRead(c)
    PROVE  OneInv(c)'
<1>1. TypeOK /\ OneInv(c)
  BY IInvSplit
<1>2. /\ pc' = pc /\ ops' = ops /\ req' = req /\ reply' = reply
      /\ stage' = stage /\ link' = link /\ c2s' = c2s /\ s2c' = s2c
      /\ h' = h /\ sndMsg' = sndMsg
      /\ h[c] = "reading"
      /\ rcvMsg'[c] = Append(rcvMsg[c], c2s[c][Len(rcvMsg[c]) + 1])
      /\ Len(rcvMsg[c]) < Len(c2s[c])
  BY <1>1 DEF HandlerRead, TypeOK, clientVars
<1>3. c2s[c] \in Seq(Buf) /\ rcvMsg[c] \in Seq(Buf)
  BY <1>1, TypeOKDomains DEF Msg
<1>4. IsPrefix(rcvMsg'[c], c2s[c])
  BY <1>1, <1>2, <1>3, PrefixNext DEF OneInv, StreamInv
<1> QED
  BY <1>1, <1>2, <1>4 DEF OneInv, RequestInv, CallInv, StreamInv, ServedInv

\* The client half-closes, or goes on on a broken stream.
LEMMA WritesDoneInv ==
    ASSUME IInv, NEW c \in Client, WritesDone(c) \/ WritesDropped(c)
    PROVE  OneInv(c)'
<1>1. TypeOK /\ OneInv(c)
  BY IInvSplit
<1>2. /\ pc' = pc /\ ops' = ops /\ req' = req /\ reply' = reply
      /\ link' = link /\ c2s' = c2s /\ s2c' = s2c
      /\ h' = h /\ rcvMsg' = rcvMsg /\ sndMsg' = sndMsg
      /\ stage[c] = "writing"
      /\ \/ stage'[c] = "dropped"
         \/ stage'[c] = "reading" /\ Len(c2s[c]) = Len(req[c])
  BY <1>1 DEF WritesDone, WritesDropped, TypeOK, clientVars, handlerVars
<1>3. req[c] \in Seq(Buf) /\ c2s[c] \in Seq(Buf) /\ IsPrefix(c2s[c], req[c])
  BY <1>1, TypeOKDomains DEF Msg, OneInv, StreamInv
<1>4. stage'[c] = "reading" => c2s[c] = req[c]
  BY <1>2, <1>3, PrefixWhole
<1> QED
  BY <1>1, <1>2, <1>4 DEF OneInv, RequestInv, CallInv, StreamInv, ServedInv

\* sendReq returns: the status says that the handler returned on a stream
\* that did not break, so everything it wrote is what it had to write.
LEMMA FinishOKInv ==
    ASSUME IInv, NEW c \in Client, FinishOK(c)
    PROVE  OneInv(c)'
<1>1. TypeOK /\ OneInv(c)
  BY IInvSplit
<1>2. /\ pc[c] = "send" /\ pc'[c] = "check"
      /\ stage'[c] = "idle" /\ link[c] = "open" /\ link'[c] = "none"
      /\ h[c] = "done" /\ Len(reply[c]) = Len(s2c[c])
      /\ ops' = ops /\ req' = req /\ reply' = reply /\ c2s' = c2s /\ s2c' = s2c
      /\ h' = h /\ rcvMsg' = rcvMsg /\ sndMsg' = sndMsg
  BY <1>1 DEF FinishOK, SendReqReturns, TypeOK, ClientTypeOK, handlerVars
<1>3. s2c[c] \in Seq(Buf) /\ reply[c] \in Seq(Buf) /\ IsPrefix(reply[c], s2c[c])
  BY <1>1, TypeOKDomains DEF Msg, OneInv, StreamInv
<1>4. reply[c] = s2c[c]
  BY <1>2, <1>3, PrefixWhole
<1>5. /\ s2c[c] = sndMsg[c] /\ rcvMsg[c] = req[c]
      /\ ~Rejects(rcvMsg[c]) /\ sndMsg[c] \in Responses(rcvMsg[c])
  BY <1>1, <1>2 DEF OneInv, ServedInv
<1> QED
  BY <1>1, <1>2, <1>4, <1>5
  DEF OneInv, RequestInv, CallInv, StreamInv, ServedInv

LEMMA FinishErrorInv ==
    ASSUME IInv, NEW c \in Client, FinishError(c)
    PROVE  OneInv(c)'
<1>1. TypeOK /\ OneInv(c)
  BY IInvSplit
<1>2. /\ pc[c] = "send" /\ pc'[c] = "send_failed"
      /\ stage'[c] = "idle" /\ link[c] = "broken" /\ link' = link
      /\ ops' = ops /\ req' = req /\ reply' = reply /\ c2s' = c2s /\ s2c' = s2c
      /\ h' = h /\ rcvMsg' = rcvMsg /\ sndMsg' = sndMsg
  BY <1>1 DEF FinishError, SendReqThrows, TypeOK, ClientTypeOK, handlerVars
<1> QED
  BY <1>1, <1>2 DEF OneInv, RequestInv, CallInv, StreamInv, ServedInv

\* The checks: a reply that is a response to the request is refused only in
\* the case NoInvalidReply allows.
LEMMA CheckInv ==
    ASSUME IInv, NEW c \in Client, Check(c)
    PROVE  OneInv(c)'
<1>1. TypeOK /\ OneInv(c)
  BY IInvSplit
<1>2. /\ pc[c] = "check"
      /\ \/ pc'[c] = "fill"
         \/ pc'[c] = "invalid" /\ ~Accepts(Workload[c], req[c], reply[c])
      /\ stage' = stage /\ link' = link
      /\ req' = req /\ reply' = reply /\ c2s' = c2s /\ s2c' = s2c
      /\ h' = h /\ rcvMsg' = rcvMsg /\ sndMsg' = sndMsg
  BY <1>1 DEF Check, CheckReply, TypeOK, ClientTypeOK, callVars, handlerVars
<1>3. /\ ~Rejects(req[c]) /\ reply[c] \in Responses(req[c])
      /\ req[c] \in Requests(c)
  BY <1>1, <1>2 DEF OneInv, RequestInv, Rejects, Refuses
<1>4. \/ Accepts(Workload[c], req[c], reply[c])
      \/ Workload[c] = "read" /\ BlockCount[c] < 0
  BY <1>3, ClientAssumption, ResponsesAccepted DEF Requests
<1> QED
  BY <1>1, <1>2, <1>4 DEF OneInv, RequestInv, CallInv, StreamInv, ServedInv

\* A run ends before its first operation, or behind its last.
LEMMA EndInv ==
    ASSUME IInv, NEW c \in Client, End(c) \/ FillFails(c)
    PROVE  OneInv(c)'
<1>1. TypeOK /\ OneInv(c)
  BY IInvSplit
<1>2. /\ pc[c] = "fill" /\ pc'[c] \in {"passed", "fill_failed"}
      /\ stage' = stage /\ link' = link /\ ops' = ops
      /\ req' = req /\ reply' = reply /\ c2s' = c2s /\ s2c' = s2c
      /\ h' = h /\ rcvMsg' = rcvMsg /\ sndMsg' = sndMsg
  BY <1>1 DEF End, Pass, FillFails, FillThrows, TypeOK, ClientTypeOK, callVars,
              handlerVars
<1> QED
  BY <1>1, <1>2 DEF OneInv, RequestInv, CallInv, StreamInv, ServedInv

\* The handler is entered, or its call forgotten, before it has made anything.
LEMMA HandlerStartInv ==
    ASSUME IInv, NEW c \in Client, HandlerStart(c) \/ HandlerDrop(c)
    PROVE  OneInv(c)'
<1>1. TypeOK /\ OneInv(c)
  BY IInvSplit
<1>2. /\ pc' = pc /\ ops' = ops /\ stage' = stage /\ link' = link
      /\ req' = req /\ reply' = reply /\ c2s' = c2s /\ s2c' = s2c
      /\ rcvMsg' = rcvMsg /\ sndMsg' = sndMsg
      /\ h[c] = "pending" /\ h'[c] \in {"reading", "none"}
  BY <1>1 DEF HandlerStart, HandlerDrop, TypeOK, clientVars
<1> QED
  BY <1>1, <1>2 DEF OneInv, RequestInv, CallInv, StreamInv, ServedInv

\* The response is made, from the whole request unless the stream broke:
\* a half-close comes behind the whole request.
LEMMA HandlerServeInv ==
    ASSUME IInv, NEW c \in Client, HandlerServe(c)
    PROVE  OneInv(c)'
<1>1. TypeOK /\ OneInv(c)
  BY IInvSplit
<1>2. /\ pc' = pc /\ ops' = ops /\ stage' = stage /\ link' = link
      /\ req' = req /\ reply' = reply /\ c2s' = c2s /\ s2c' = s2c
      /\ rcvMsg' = rcvMsg
      /\ h[c] = "reading" /\ h'[c] = "writing"
      /\ ~Rejects(rcvMsg[c]) /\ sndMsg'[c] \in Responses(rcvMsg[c])
      /\ ReadEnds(c)
  BY <1>1 DEF HandlerServe, TypeOK, clientVars
<1>3. /\ rcvMsg[c] \in Seq(Buf) /\ c2s[c] \in Seq(Buf)
      /\ sndMsg'[c] \in Seq(Buf)
      /\ IsPrefix(rcvMsg[c], c2s[c])
  BY <1>1, <1>2, TypeOKDomains, ResponsesMsg DEF Msg, OneInv, StreamInv
<1>4. rcvMsg[c] = req[c] \/ link[c] = "broken"
  BY <1>1, <1>2, <1>3, PrefixWhole DEF ReadEnds, OneInv, StreamInv
<1>5. s2c[c] = <<>> /\ IsPrefix(<<>>, sndMsg'[c])
  BY <1>1, <1>2, <1>3, PrefixEmpty DEF OneInv, ServedInv
<1>6. pc[c] # "check"
  BY <1>1, <1>2 DEF OneInv, CallInv
<1> QED
  BY <1>1, <1>2, <1>4, <1>5, <1>6
  DEF OneInv, RequestInv, CallInv, StreamInv, ServedInv

LEMMA HandlerReturnInv ==
    ASSUME IInv, NEW c \in Client, HandlerReturn(c)
    PROVE  OneInv(c)'
<1>1. TypeOK /\ OneInv(c)
  BY IInvSplit
<1>2. /\ pc' = pc /\ ops' = ops /\ stage' = stage /\ link' = link
      /\ req' = req /\ reply' = reply /\ c2s' = c2s /\ s2c' = s2c
      /\ rcvMsg' = rcvMsg /\ sndMsg' = sndMsg
      /\ h[c] = "writing" /\ h'[c] = "done"
      /\ Len(s2c[c]) = Len(sndMsg[c]) \/ link[c] = "broken"
  BY <1>1 DEF HandlerReturn, TypeOK, clientVars
<1>3. /\ s2c[c] \in Seq(Buf) /\ sndMsg[c] \in Seq(Buf)
      /\ IsPrefix(s2c[c], sndMsg[c])
  BY <1>1, TypeOKDomains DEF Msg, OneInv, StreamInv
<1>4. s2c[c] = sndMsg[c] \/ link[c] = "broken"
  BY <1>2, <1>3, PrefixWhole
<1> QED
  BY <1>1, <1>2, <1>4 DEF OneInv, RequestInv, CallInv, StreamInv, ServedInv

\* A stream breaks, or goes silent.
LEMMA LinkInv ==
    ASSUME IInv, NEW c \in Client, Break(c) \/ Stall(c)
    PROVE  OneInv(c)'
<1>1. TypeOK /\ OneInv(c)
  BY IInvSplit
<1>2. /\ pc' = pc /\ ops' = ops /\ stage' = stage /\ h' = h
      /\ req' = req /\ reply' = reply /\ c2s' = c2s /\ s2c' = s2c
      /\ rcvMsg' = rcvMsg /\ sndMsg' = sndMsg
      /\ pc[c] = "send" /\ link[c] \in {"open", "stalled"}
      /\ \/ link'[c] = "broken"
         \/ link'[c] = "stalled" /\ link[c] = "open"
  BY <1>1 DEF Break, Stall, TypeOK, clientVars, handlerVars
<1> QED
  BY <1>1, <1>2 DEF OneInv, RequestInv, CallInv, StreamInv, ServedInv

\* The server process ends, for every client.
LEMMA CallsDieInv ==
    ASSUME IInv, NEW c \in Client, CallsDie
    PROVE  OneInv(c)'
<1>1. TypeOK /\ OneInv(c)
  BY IInvSplit
<1>2. /\ pc' = pc /\ ops' = ops /\ stage' = stage
      /\ req' = req /\ reply' = reply /\ c2s' = c2s /\ s2c' = s2c
      /\ rcvMsg' = rcvMsg /\ sndMsg' = sndMsg
      /\ link'[c] = IF link[c] = "open" THEN "broken" ELSE link[c]
      /\ h'[c] = IF h[c] \in {"writing", "done"} THEN "done" ELSE "none"
      /\ link[c] \in {"none", "open", "stalled", "broken"}
      /\ h[c] \in {"none", "pending", "reading", "writing", "done"}
  BY <1>1 DEF CallsDie, clientVars, TypeOK
<1> QED
  BY <1>1, <1>2 DEF OneInv, RequestInv, CallInv, StreamInv, ServedInv

-----------------------------------------------------------------------------
(* The inductive invariant                                                 *)

LEMMA InitInv == Init => IInv
<1> SUFFICES ASSUME Init PROVE IInv
  OBVIOUS
<1>1. <<>> \in Msg /\ <<>> \in Seq(Buf)
  BY EmptySeq DEF Msg
<1>2. TypeOK
  BY <1>1, ClientAssumption, MaxBootsAssumption
  DEF Init, ClientInit, ServerInit, TypeOK, ClientTypeOK, ServerTypeOK, RcvFns
<1>3. CallbackInv
  BY DEF Init, ServerInit, CallbackInv
<1>4. ASSUME NEW c \in Client
      PROVE  OneInv(c)
  <2>1. IsPrefix(<<>>, <<>>)
    BY <1>1, PrefixEmpty
  <2> QED
    BY <2>1
    DEF Init, ClientInit, OneInv, RequestInv, CallInv, StreamInv, ServedInv
<1> QED BY <1>2, <1>3, <1>4, IInvSplit

\* A step of one client, or for one client's call, leaves the others alone.
LEMMA OthersSame ==
    ASSUME TypeOK, NEW c \in Client, NEW d \in Client, d # c,
           \/ ClientStep(c) \/ (HandlerStep(c) /\ ~HandlerAbort(c))
           \/ Break(c) \/ Stall(c)
    PROVE  Same(d)
<1> USE DEF TypeOK, ClientTypeOK, Same, clientVars, handlerVars
<1>1. CASE StartCall(c)
  BY <1>1 DEF StartCall, FillRequest
<1>2. CASE Write(c) \/ WritesDone(c) \/ WritesDropped(c) \/ Read(c)
  BY <1>2 DEF Write, WritesDone, WritesDropped, Read, callVars
<1>3. CASE FinishOK(c) \/ FinishError(c)
  BY <1>3 DEF FinishOK, FinishError, SendReqReturns, SendReqThrows
<1>4. CASE Check(c) \/ End(c) \/ FillFails(c)
  BY <1>4 DEF Check, CheckReply, End, Pass, FillFails, FillThrows, callVars
<1>5. CASE HandlerStart(c) \/ HandlerDrop(c) \/ HandlerRead(c)
  BY <1>5 DEF HandlerStart, HandlerDrop, HandlerRead
<1>6. CASE HandlerServe(c) \/ HandlerWrite(c) \/ HandlerReturn(c)
  BY <1>6 DEF HandlerServe, HandlerWrite, HandlerReturn
<1>7. CASE Break(c) \/ Stall(c)
  BY <1>7 DEF Break, Stall
<1> QED
  BY <1>1, <1>2, <1>3, <1>4, <1>5, <1>6, <1>7 DEF ClientStep, HandlerStep

\* Every step keeps the invariant: the client that moves by the lemma on its
\* action, the others because they stay the same.
LEMMA StepInv == IInv /\ [Next]_vars => IInv'
<1> SUFFICES ASSUME IInv, [Next]_vars PROVE IInv'
  OBVIOUS
<1>1. TypeOK /\ \A c \in Client : OneInv(c)
  BY IInvSplit
<1>2. TypeOK' /\ CallbackInv'
  BY TypeStep, CallbackStep
<1>3. ASSUME NEW c \in Client,
             \/ ClientStep(c) \/ (HandlerStep(c) /\ ~HandlerAbort(c))
             \/ Break(c) \/ Stall(c)
      PROVE  \A d \in Client : OneInv(d)'
  <2>1. OneInv(c)'
    BY <1>2, <1>3, StartCallInv, WriteInv, WritesDoneInv, ReadInv,
       FinishOKInv, FinishErrorInv, CheckInv, EndInv, HandlerStartInv,
       HandlerReadInv, HandlerServeInv, HandlerWriteInv, HandlerReturnInv, LinkInv
    DEF ClientStep, HandlerStep
  <2>2. ASSUME NEW d \in Client, d # c PROVE OneInv(d)'
    BY <1>1, <1>3, <2>2, OthersSame, SameInv
  <2> QED BY <2>1, <2>2
<1>4. ASSUME CallsDie
      PROVE  \A d \in Client : OneInv(d)'
  BY <1>4, CallsDieInv
<1>5. ASSUME UNCHANGED <<clientVars, callVars>>
      PROVE  \A d \in Client : OneInv(d)'
  <2>1. \A d \in Client : Same(d)
    BY <1>5 DEF Same, clientVars, callVars, handlerVars
  <2> QED BY <1>1, <2>1, SameInv
<1>6. \A d \in Client : OneInv(d)'
  BY <1>3, <1>4, <1>5
  DEF Next, HandlerAbort, ServerStart, ServerExit, AllEnded, vars, HandlerStep
<1>7. QED
  <2>1. IInv' <=> TypeOK' /\ CallbackInv' /\ (\A c \in Client : OneInv(c))'
    BY IInvSplit, PTL
  <2> QED BY <1>2, <1>6, <2>1

\* IInv holds in every reachable state, TypeOK with it.
THEOREM Invariance == Spec => []IInv
<1>1. Init => IInv
  BY InitInv
<1>2. IInv /\ [Next]_vars => IInv'
  BY StepInv
<1> QED BY <1>1, <1>2, PTL DEF Spec

\* The variables of both programs keep their types.
THEOREM TypeCorrect == Spec => []TypeOK
<1>1. IInv => TypeOK
  BY DEF IInv
<1> QED BY <1>1, Invariance, PTL

-----------------------------------------------------------------------------
(* What the transport guarantees                                           *)

\* A sendReq that returns has executed its request, all of it, and has
\* brought the whole response of that execution back.
THEOREM RepliesComplete == Spec => []CompleteReply
<1>1. IInv => CompleteReply
  BY DEF IInv
<1> QED BY <1>1, Invariance, PTL

\* The client's checks fail on nothing but a read of a negative count.
THEOREM RepliesValid == Spec => []NoInvalidReply
<1>1. IInv => NoInvalidReply
  BY DEF IInv
<1> QED BY <1>1, Invariance, PTL

\* A request is executed in part only for a client that will be told it failed.
THEOREM TruncationSeen == Spec => []TruncatedOnlyIfBroken
<1>1. IInv => TruncatedOnlyIfBroken
  BY DEF IInv, ServedInv, TruncatedOnlyIfBroken
<1> QED BY <1>1, Invariance, PTL

\* The server aborts only for a call none of whose buffers was delivered,
\* because its stream broke or its request has none, or for one that asks for
\* blocks that cannot be made or may not be.
THEOREM AbortsExplained == Spec => AbortsOnlyWithCause
<1> DEFINE Cause(c) ==
               /\ h[c] = "reading" /\ fn[c] = "ServerRcvFn"
               /\ \/ rcvMsg[c] = <<>> /\ (link[c] = "broken" \/ req[c] = <<>>)
                  \/ rcvMsg[c] # <<>> /\ AsksTooMuch(c)
           A == srv' = "aborted" /\ srv # "aborted" => \E c \in Client : Cause(c)
<1>1. ASSUME IInv, NEW c \in Client, HandlerAbort(c)
      PROVE  Cause(c)
  <2>1. /\ TypeOK /\ OneInv(c)
        /\ h[c] = "reading" /\ fn[c] = "ServerRcvFn" /\ MayReject(rcvMsg[c])
    BY <1>1, IInvSplit DEF HandlerAbort, CallbackInv, RcvFns
  <2>2. /\ rcvMsg[c] \in Seq(Buf) /\ c2s[c] \in Seq(Buf) /\ req[c] \in Seq(Buf)
        /\ IsPrefix(rcvMsg[c], c2s[c]) /\ IsPrefix(c2s[c], req[c])
    BY <2>1, TypeOKDomains DEF Msg, OneInv, StreamInv
  <2>3. CASE rcvMsg[c] = <<>>
    <3>1. CASE stage[c] = "reading" /\ Len(rcvMsg[c]) = Len(c2s[c])
      <4>1. c2s[c] = req[c] /\ rcvMsg[c] = c2s[c]
        BY <2>1, <2>2, <3>1, PrefixWhole DEF OneInv, StreamInv
      <4> QED BY <2>1, <2>3, <4>1
    <3> QED BY <1>1, <2>1, <2>3, <3>1 DEF HandlerAbort, ReadEnds
  <2>4. CASE rcvMsg[c] # <<>>
    <3>1. IsPrefix(rcvMsg[c], req[c])
      BY <2>2, PrefixOfPrefix
    <3>2. req[c] \in Requests(c)
      BY <2>1, <2>2, <2>4, <3>1, PrefixFirst DEF OneInv, RequestInv
    <3>3. AsksTooMuch(c)
      BY <2>1, <2>2, <2>4, <3>1, <3>2, ClientAssumption, MayRejectCause
      DEF Requests, AsksTooMuch, Msg
    <3> QED BY <2>1, <2>4, <3>3
  <2> QED BY <2>3, <2>4
<1>2. ASSUME IInv, [Next]_vars
      PROVE  A
  <2>1. SUFFICES ASSUME srv' = "aborted", srv # "aborted"
                 PROVE  \E c \in Client : HandlerAbort(c)
    BY <1>1, <1>2
  <2> QED
    BY <1>2, <2>1
    DEF Next, ClientStep, HandlerStep, StartCall, FillFails, Write, WritesDone,
        WritesDropped, Read, FinishOK, FinishError, Check, End, HandlerStart,
        HandlerDrop, HandlerRead, HandlerServe, HandlerWrite, HandlerReturn,
        Break, Stall, ServerStart, Boot, SetRcvFn, Listen,
        ServerExit, Exit, AllEnded, serverVars, vars
<1>3. IInv /\ [Next]_vars => [A]_vars
  BY <1>2
<1> QED BY <1>3, Invariance, PTL DEF Spec, AbortsOnlyWithCause

-----------------------------------------------------------------------------
(* The transport implements the abstract request/reply service             *)

\* What a client sees of its call depends on its own variables only.
LEMMA SameBar ==
    ASSUME NEW c \in Client, Same(c)
    PROVE  ReplyOf(c)' = ReplyOf(c) /\ ServedOf(c)' = ServedOf(c)
BY DEF Same, ReplyOf, ServedOf

\* A step that shows nothing to any client is a stutter of the service.
LEMMA Stutter ==
    ASSUME pc' = pc, ops' = ops, req' = req,
           \A c \in Client : ReplyOf(c)' = ReplyOf(c) /\ ServedOf(c)' = ServedOf(c)
    PROVE  UNCHANGED RR!vars
BY DEF RR!vars, RR!clientVars, ReplyBar, ServedBar

\* The initial states are initial states of the service.
LEMMA InitRefines == Init => RR!Init
BY DEF Init, ClientInit, RR!Init, RR!ClientInit, ReplyBar, ServedBar, ReplyOf, ServedOf

\* The service speaks of the same messages.
LEMMA SameMessages ==
    /\ \A d \in Client : RR!Requests(d) = Requests(d)
    /\ \A w, n, s : RR!MayNotMake(RR!ReqBlocks(w, n), s) <=> MayNotMake(ReqBlocks(w, n), s)
    /\ \A w, n, s : RR!CannotMake(RR!ReqBlocks(w, n), s) <=> CannotMake(ReqBlocks(w, n), s)
    /\ \A r : RR!Rejects(r) = Rejects(r) /\ RR!Responses(r) = Responses(r)
    /\ \A w, r, p : RR!Accepts(w, r, p) = Accepts(w, r, p)
<1> USE DEF RR!Hdr, Hdr, RR!Framed, Framed, RR!Data, Data, RR!BufCount, BufCount,
            RR!ReqTags, ReqTags, RR!RspTags, RspTags
<1>1. \A w, n, s : RR!FillReq(w, n, s) = FillReq(w, n, s)
  BY DEF RR!FillReq, FillReq, RR!ReqTag, ReqTag
<1>5. \A d \in Client : RR!Requests(d) = Requests(d)
  BY <1>1 DEF RR!Requests, Requests
<1>6. \A w, n, s :
         /\ RR!MayNotMake(RR!ReqBlocks(w, n), s) <=> MayNotMake(ReqBlocks(w, n), s)
         /\ RR!CannotMake(RR!ReqBlocks(w, n), s) <=> CannotMake(ReqBlocks(w, n), s)
  BY DEF RR!MayNotMake, MayNotMake, RR!CannotMake, CannotMake, RR!ReqBlocks, ReqBlocks
<1>2. \A r : RR!Rejects(r) = Rejects(r)
  BY DEF RR!Rejects, Rejects, RR!Refuses, Refuses, RR!CannotMake, CannotMake
<1>3. \A r : RR!Responses(r) = Responses(r)
  BY DEF RR!Responses, Responses
<1>4. \A w, r, p : RR!Accepts(w, r, p) = Accepts(w, r, p)
  BY DEF RR!Accepts, Accepts, RR!HasRspHdr, HasRspHdr, RR!EchoIsValid, EchoIsValid
<1> QED BY <1>2, <1>3, <1>4, <1>5, <1>6

\* Creating the stream begins an exchange.
LEMMA StartCallRefines ==
    ASSUME IInv, NEW c \in Client, StartCall(c)
    PROVE  RR!Begin(c)
<1>1. TypeOK /\ \A d \in Client : d # c => Same(d)
  BY OthersSame DEF IInv, ClientStep
<1>2. /\ pc[c] = "fill" /\ ops[c] < OpCount[c] /\ UNCHANGED ops
      /\ \E m \in Requests(c) : req' = [req EXCEPT ![c] = m]
      /\ ~CannotMake(ReqBlocks(Workload[c], BlockCount[c]), BlockSize[c])
      /\ pc' = [pc EXCEPT ![c] = "send"] /\ pc'[c] = "send"
      /\ h'[c] \in {"pending", "none"}
  BY <1>1 DEF StartCall, FillRequest, TypeOK, ClientTypeOK
<1>3. ReplyOf(c)' = <<>> /\ ServedOf(c)' = {}
  BY <1>2 DEF ReplyOf, ServedOf
<1>4. ReplyBar' = [ReplyBar EXCEPT ![c] = <<>>] /\ ServedBar' = [ServedBar EXCEPT ![c] = {}]
  BY <1>1, <1>3, SameBar DEF ReplyBar, ServedBar
<1> QED BY <1>2, <1>4, SameMessages DEF RR!Begin, RR!FillRequest

\* The callback executes the request, if it has the whole of it.
LEMMA HandlerServeRefines ==
    ASSUME IInv, NEW c \in Client, HandlerServe(c)
    PROVE  RR!Execute(c) \/ UNCHANGED RR!vars
<1>1. TypeOK /\ OneInv(c) /\ \A d \in Client : d # c => Same(d)
  <2>1. TypeOK /\ OneInv(c) /\ ~HandlerAbort(c)
    BY IInvSplit DEF HandlerServe, HandlerAbort, Abort, serverVars
  <2> QED BY <2>1, OthersSame DEF HandlerStep
<1>2. /\ pc' = pc /\ ops' = ops /\ req' = req /\ reply' = reply
      /\ h[c] = "reading" /\ h'[c] = "writing" /\ rcvMsg' = rcvMsg
      /\ ~Rejects(rcvMsg[c])
      /\ sndMsg'[c] \in Responses(rcvMsg[c])
  BY <1>1 DEF HandlerServe, TypeOK, clientVars
<1>3. ReplyOf(c)' = ReplyOf(c) /\ ServedOf(c) = {}
  BY <1>2 DEF ReplyOf, ServedOf
<1>4. CASE rcvMsg[c] # req[c]
  <2>1. ServedOf(c)' = {}
    BY <1>2, <1>4 DEF ServedOf
  <2>2. \A d \in Client : ReplyOf(d)' = ReplyOf(d) /\ ServedOf(d)' = ServedOf(d)
    BY <1>1, <1>3, <2>1, SameBar
  <2> QED BY <1>2, <2>2, Stutter
<1>5. CASE rcvMsg[c] = req[c]
  <2>1. pc[c] \in {"send", "send_failed"}
    BY <1>1 DEF HandlerServe, ReadEnds, OneInv, CallInv
  <2>2. ServedOf(c)' = {sndMsg'[c]}
    BY <1>2, <1>5 DEF ServedOf
  <2>3. ServedBar' = [ServedBar EXCEPT ![c] = {sndMsg'[c]}] /\ ReplyBar' = ReplyBar
    BY <1>1, <1>3, <2>2, SameBar DEF ReplyBar, ServedBar
  <2>4. ServedBar[c] = {}
    BY <1>3 DEF ServedBar
  <2>5. ~RR!Rejects(req[c]) /\ sndMsg'[c] \in RR!Responses(req[c])
    BY <1>2, <1>5, SameMessages
  <2> QED BY <1>2, <2>1, <2>3, <2>4, <2>5 DEF RR!Execute, RR!clientVars
<1> QED BY <1>4, <1>5

\* sendReq returns the response of the execution.
LEMMA FinishOKRefines ==
    ASSUME IInv, NEW c \in Client, FinishOK(c)
    PROVE  RR!Return(c)
<1>1. TypeOK /\ OneInv(c) /\ OneInv(c)' /\ \A d \in Client : d # c => Same(d)
  BY OthersSame, IInvSplit, FinishOKInv DEF ClientStep
<1>2. /\ pc[c] = "send" /\ pc' = [pc EXCEPT ![c] = "check"] /\ pc'[c] = "check"
      /\ ops' = ops /\ req' = req /\ reply' = reply
      /\ h[c] = "done" /\ h' = h /\ rcvMsg' = rcvMsg /\ sndMsg' = sndMsg
  BY <1>1 DEF FinishOK, SendReqReturns, TypeOK, ClientTypeOK, handlerVars
<1>3. reply[c] = sndMsg[c] /\ rcvMsg[c] = req[c]
  BY <1>1, <1>2 DEF OneInv
<1>4. ReplyOf(c)' = sndMsg[c] /\ ServedOf(c) = {sndMsg[c]} /\ ServedOf(c)' = ServedOf(c)
  BY <1>2, <1>3 DEF ReplyOf, ServedOf
<1>5. /\ ReplyBar' = [ReplyBar EXCEPT ![c] = sndMsg[c]]
      /\ ServedBar' = ServedBar /\ sndMsg[c] \in ServedBar[c]
  BY <1>1, <1>4, SameBar DEF ReplyBar, ServedBar
<1> QED BY <1>2, <1>5 DEF RR!Return, RR!SendReqReturns

\* sendReq throws, the check and the end of a run: the client's own steps.
LEMMA ClientEndRefines ==
    ASSUME IInv, NEW c \in Client,
           FillFails(c) \/ FinishError(c) \/ Check(c) \/ End(c)
    PROVE  RR!FillFails(c) \/ RR!Fail(c) \/ RR!Check(c) \/ RR!End(c)
<1>1. TypeOK /\ \A d \in Client : d # c => Same(d)
  BY OthersSame DEF IInv, ClientStep
<1>2. /\ req' = req /\ reply' = reply
      /\ h' = h /\ rcvMsg' = rcvMsg /\ sndMsg' = sndMsg
      /\ pc'[c] \in {"send", "send_failed"} <=> pc[c] \in {"send", "send_failed"}
  BY <1>1
  DEF FillFails, FillThrows, FinishError, SendReqThrows, Check, CheckReply,
      End, Pass, TypeOK, ClientTypeOK, callVars, handlerVars
<1>3. ReplyOf(c)' = ReplyOf(c) /\ ServedOf(c)' = ServedOf(c)
  BY <1>2 DEF ReplyOf, ServedOf
<1>4. ReplyBar' = ReplyBar /\ ServedBar' = ServedBar
  BY <1>1, <1>3, SameBar DEF ReplyBar, ServedBar
<1>5. pc[c] = "check" => ReplyBar[c] = reply[c]
  BY DEF ReplyBar, ReplyOf
<1>6. CASE FinishError(c)
  BY <1>4, <1>6 DEF FinishError, SendReqThrows, RR!Fail, RR!SendReqThrows
<1>7. CASE Check(c)
  BY <1>4, <1>5, <1>7, SameMessages DEF Check, CheckReply, RR!Check, RR!CheckReply
<1>8. CASE End(c)
  BY <1>4, <1>8 DEF End, Pass, RR!End, RR!Pass
<1>9. CASE FillFails(c)
  BY <1>4, <1>9, SameMessages DEF FillFails, FillThrows, RR!FillFails, RR!FillThrows
<1> QED BY <1>6, <1>7, <1>8, <1>9

\* The rest of a call, and the fate of streams, is hidden.
LEMMA CallRefines ==
    ASSUME IInv, NEW c \in Client,
           \/ Write(c) \/ WritesDone(c) \/ WritesDropped(c) \/ Read(c)
           \/ HandlerStart(c) \/ HandlerDrop(c) \/ HandlerRead(c)
           \/ HandlerWrite(c) \/ HandlerReturn(c)
           \/ Break(c) \/ Stall(c)
    PROVE  UNCHANGED RR!vars
<1>1. TypeOK /\ OneInv(c)
  BY IInvSplit
<1>2. ~HandlerAbort(c) => \A d \in Client : d # c => Same(d)
  BY <1>1, OthersSame DEF ClientStep, HandlerStep
<1>3. /\ pc' = pc /\ ops' = ops /\ req' = req /\ sndMsg' = sndMsg
      /\ \A d \in Client : d # c => Same(d)
  BY <1>1, <1>2
  DEF Write, WritesDone, WritesDropped, Read, HandlerStart, HandlerDrop,
      HandlerRead, HandlerWrite, HandlerReturn, Break, Stall,
      HandlerAbort, Abort, serverVars, clientVars, callVars, handlerVars
<1>4. ReplyOf(c)' = ReplyOf(c)
  <2>1. reply' = reply \/ Read(c)
    BY DEF Write, WritesDone, WritesDropped, HandlerStart, HandlerDrop,
           HandlerRead, HandlerWrite, HandlerReturn, Break, Stall, clientVars
  <2>2. Read(c) => pc[c] = "send"
    BY <1>1 DEF Read, OneInv, CallInv
  <2> QED BY <1>3, <2>1, <2>2 DEF ReplyOf
<1>5. ServedOf(c)' = ServedOf(c)
  <2>1. \/ h' = h /\ rcvMsg' = rcvMsg
        \/ h[c] \in {"pending", "reading"} /\ h'[c] \in {"none", "reading"}
        \/ h[c] = "writing" /\ h'[c] = "done" /\ rcvMsg' = rcvMsg
    BY <1>1
    DEF Write, WritesDone, WritesDropped, Read, HandlerStart, HandlerDrop,
        HandlerRead, HandlerWrite, HandlerReturn, Break, Stall,
        TypeOK, callVars, handlerVars
  <2> QED BY <1>3, <2>1 DEF ServedOf
<1> QED BY <1>3, <1>4, <1>5, SameBar, Stutter

\* So is the end of the server: what was executed stays so.
LEMMA CallsDieRefines ==
    ASSUME IInv, CallsDie
    PROVE  UNCHANGED RR!vars
<1>1. /\ pc' = pc /\ ops' = ops /\ req' = req /\ reply' = reply
      /\ rcvMsg' = rcvMsg /\ sndMsg' = sndMsg
      /\ \A c \in Client :
            h'[c] = IF h[c] \in {"writing", "done"} THEN "done" ELSE "none"
  BY DEF CallsDie, clientVars
<1>2. \A c \in Client : ReplyOf(c)' = ReplyOf(c) /\ ServedOf(c)' = ServedOf(c)
  BY <1>1 DEF ReplyOf, ServedOf
<1> QED BY <1>1, <1>2, Stutter

\* Every step of the transport is a step of the service or a stutter.
LEMMA StepRefines == IInv /\ [Next]_vars => [RR!Next]_(RR!vars)
<1> SUFFICES ASSUME IInv, [Next]_vars PROVE RR!Next \/ UNCHANGED RR!vars
  OBVIOUS
<1>1. ASSUME NEW c \in Client, ClientStep(c)
      PROVE  RR!Next \/ UNCHANGED RR!vars
  BY <1>1, StartCallRefines, FinishOKRefines, ClientEndRefines, CallRefines
  DEF ClientStep, RR!Next
<1>2. ASSUME NEW c \in Client, HandlerStep(c)
      PROVE  RR!Next \/ UNCHANGED RR!vars
  BY <1>2, HandlerServeRefines, CallRefines, CallsDieRefines
  DEF HandlerStep, HandlerAbort, RR!Next
<1>3. ASSUME UNCHANGED <<clientVars, callVars>>
      PROVE  UNCHANGED RR!vars
  BY <1>3, Stutter
  DEF clientVars, callVars, handlerVars, ReplyOf, ServedOf
<1>4. ServerStart \/ AllEnded \/ UNCHANGED vars => UNCHANGED <<clientVars, callVars>>
  BY DEF ServerStart, AllEnded, vars
<1> QED
  BY <1>1, <1>2, <1>3, <1>4, CallRefines, CallsDieRefines DEF Next, ServerExit

\* The gRPC transport implements the abstract request/reply service: at most
\* one execution of each request, and no reply but that execution's response.
THEOREM Refinement == Spec => ImplementsReqReply
<1>1. Init => RR!Init
  BY InitRefines
<1>2. IInv /\ [Next]_vars => [RR!Next]_(RR!vars)
  BY StepRefines
<1> QED BY <1>1, <1>2, Invariance, PTL DEF Spec, ImplementsReqReply, RR!Spec

-----------------------------------------------------------------------------
(* FlatbuffersTransport: the builders                                      *)

\* The part of the invariant about the builders of one client.
OneBuilders(c) ==
    /\ h[c] \notin {"writing", "done"} => mbRsp[c] = NewBuilder
    /\ \/ mb[c] = NewBuilder
       \/ /\ Len(c2s[c]) < Len(req[c])
          /\ mb[c] = [bufs |-> <<req[c][Len(c2s[c]) + 1]>>, finished |-> TRUE]
    /\ \/ mbRsp[c] = NewBuilder
       \/ /\ Len(s2c[c]) < Len(sndMsg[c])
          /\ mbRsp[c] = [bufs |-> <<sndMsg[c][Len(s2c[c]) + 1]>>, finished |-> TRUE]

LEMMA FbIInvSplit ==
    FbIInv <=> IInv /\ FbTypeOK /\ \A c \in Client : OneBuilders(c)
BY DEF FbIInv, BuilderInv, EachMessageAlone, OneBuilders

\* What a builder has in it when its message is handed over.
LEMMA BuilderRoot ==
    ASSUME NEW buf
    PROVE  /\ Root([bufs |-> <<buf>>, finished |-> TRUE]) = buf
           /\ Built(NewBuilder, buf) = [bufs |-> <<buf>>, finished |-> TRUE]
<1>1. Append(<<>>, buf) = <<buf>>
  OBVIOUS
<1>2. Len(<<buf>>) = 1 /\ <<buf>>[1] = buf
  OBVIOUS
<1> QED BY <1>1, <1>2 DEF Root, Built, NewBuilder

\* A new builder has no message to hand over.
LEMMA NewBuilderUnfinished == \A b : b.finished => b # NewBuilder
<1>1. NewBuilder.finished = FALSE
  BY SMT DEF NewBuilder
<1> QED BY <1>1, Zenon

-----------------------------------------------------------------------------
(* Every step is a step of the gRPC transport                              *)

\* The message handed over is the next buffer, so that handing it over is
\* the Write of GrpcTransport.
LEMMA WriteReqIsWrite ==
    ASSUME FbIInv, NEW c \in Client, WriteReq(c)
    PROVE  Write(c)
<1>1. /\ mb[c].finished
      /\ c2s' = [c2s EXCEPT ![c] = Append(@, Root(mb[c]))]
  BY DEF WriteReq
<1>2. /\ Len(c2s[c]) < Len(req[c])
      /\ mb[c] = [bufs |-> <<req[c][Len(c2s[c]) + 1]>>, finished |-> TRUE]
  BY <1>1, NewBuilderUnfinished DEF FbIInv, EachMessageAlone
<1>3. Root(mb[c]) = req[c][Len(c2s[c]) + 1]
  BY <1>2, BuilderRoot
<1> QED BY <1>1, <1>2, <1>3 DEF WriteReq, Write

LEMMA WriteRspIsHandlerWrite ==
    ASSUME FbIInv, NEW c \in Client, WriteRsp(c)
    PROVE  HandlerWrite(c)
<1>1. /\ mbRsp[c].finished
      /\ s2c' = [s2c EXCEPT ![c] = Append(@, Root(mbRsp[c]))]
  BY DEF WriteRsp
<1>2. /\ Len(s2c[c]) < Len(sndMsg[c])
      /\ mbRsp[c] = [bufs |-> <<sndMsg[c][Len(s2c[c]) + 1]>>, finished |-> TRUE]
  BY <1>1, NewBuilderUnfinished DEF FbIInv, EachMessageAlone
<1>3. Root(mbRsp[c]) = sndMsg[c][Len(s2c[c]) + 1]
  BY <1>2, BuilderRoot
<1> QED BY <1>1, <1>2, <1>3 DEF WriteRsp, HandlerWrite

LEMMA StepIsGrpcStep ==
    ASSUME FbIInv, [FbNext]_fbVars
    PROVE  [Next]_vars
<1>1. ASSUME NEW c \in Client, FbClientStep(c)
      PROVE  [Next]_vars
  BY <1>1, WriteReqIsWrite
  DEF FbClientStep, FbStartCall, BuildReq, Next, ClientStep
<1>2. ASSUME NEW c \in Client, FbHandlerStep(c)
      PROVE  [Next]_vars
  BY <1>2, WriteRspIsHandlerWrite DEF FbHandlerStep, BuildRsp, Next, HandlerStep
<1>3. ASSUME FbEnvironment
      PROVE  [Next]_vars
  BY <1>3 DEF FbEnvironment, Next
<1> QED BY <1>1, <1>2, <1>3 DEF FbNext, fbVars

-----------------------------------------------------------------------------
(* The builders                                                            *)

\* A step that leaves the builders of client c, and what they are filled
\* from, alone.
SameBuilders(c) ==
    /\ mb'[c] = mb[c] /\ mbRsp'[c] = mbRsp[c]
    /\ req'[c] = req[c] /\ c2s'[c] = c2s[c]
    /\ sndMsg'[c] = sndMsg[c] /\ s2c'[c] = s2c[c]
    /\ h'[c] \notin {"writing", "done"} => h[c] \notin {"writing", "done"}

LEMMA SameBuildersInv ==
    ASSUME NEW c \in Client, OneBuilders(c), SameBuilders(c)
    PROVE  OneBuilders(c)'
BY DEF OneBuilders, SameBuilders

LEMMA FbTypeStep ==
    ASSUME FbTypeOK, [FbNext]_fbVars
    PROVE  FbTypeOK'
BY DEF FbTypeOK, FbNext, FbClientStep, FbHandlerStep, FbEnvironment, FbStartCall,
       BuildReq, WriteReq, BuildRsp, WriteRsp, builders, fbVars

\* A step of a client or of its handler keeps the invariant of every client.
LEMMA ClientBuildersStep ==
    ASSUME FbIInv, NEW c \in Client, FbClientStep(c), NEW d \in Client
    PROVE  OneBuilders(d)'
<1>0. TypeOK /\ FbTypeOK /\ OneBuilders(d) /\ OneBuilders(c)
  BY FbIInvSplit DEF IInv
<1>1. CASE FbStartCall(c)
  <2>1. CASE d = c
    BY <1>0, <1>1, <2>1 DEF FbStartCall, FbTypeOK, OneBuilders
  <2>2. CASE d # c
    <3>1. SameBuilders(d)
      BY <1>0, <1>1, <2>2
      DEF FbStartCall, StartCall, FillRequest, SameBuilders, TypeOK, ClientTypeOK, FbTypeOK
    <3> QED BY <1>0, <3>1, SameBuildersInv
  <2> QED BY <2>1, <2>2
<1>2. CASE BuildReq(c)
  <2>1. CASE d = c
    <3>1. mb[c] = NewBuilder /\ Len(c2s[c]) < Len(req[c])
      BY <1>0, <1>2 DEF BuildReq, OneBuilders
    <3>2. mb'[c] = [bufs |-> <<req[c][Len(c2s[c]) + 1]>>, finished |-> TRUE]
      BY <1>0, <1>2, <3>1, BuilderRoot DEF BuildReq, FbTypeOK
    <3> QED
      BY <1>0, <1>2, <2>1, <3>1, <3>2
      DEF BuildReq, OneBuilders, vars, clientVars, callVars, handlerVars
  <2>2. CASE d # c
    <3>1. SameBuilders(d)
      BY <1>0, <1>2, <2>2
      DEF BuildReq, SameBuilders, FbTypeOK, vars, clientVars, callVars, handlerVars
    <3> QED BY <1>0, <3>1, SameBuildersInv
  <2> QED BY <2>1, <2>2
<1>3. CASE WriteReq(c)
  <2>1. CASE d = c
    BY <1>0, <1>3, <2>1
    DEF WriteReq, FbTypeOK, OneBuilders, clientVars, handlerVars
  <2>2. CASE d # c
    <3>1. SameBuilders(d)
      BY <1>0, <1>3, <2>2
      DEF WriteReq, SameBuilders, TypeOK, FbTypeOK, clientVars, handlerVars
    <3> QED BY <1>0, <3>1, SameBuildersInv
  <2> QED BY <2>1, <2>2
<1>4. ASSUME \/ FillFails(c) \/ WritesDone(c) \/ WritesDropped(c) \/ Read(c)
             \/ FinishOK(c) \/ FinishError(c) \/ Check(c) \/ End(c),
             UNCHANGED builders
      PROVE  SameBuilders(d)
  BY <1>4
  DEF FillFails, FillThrows, WritesDone, WritesDropped, Read, FinishOK,
      FinishError, SendReqReturns, SendReqThrows, Check, CheckReply, End, Pass, SameBuilders,
      builders, clientVars, callVars, handlerVars
<1> QED
  BY <1>0, <1>1, <1>2, <1>3, <1>4, SameBuildersInv DEF FbClientStep

LEMMA HandlerBuildersStep ==
    ASSUME FbIInv, NEW c \in Client, FbHandlerStep(c), NEW d \in Client
    PROVE  OneBuilders(d)'
<1>0. TypeOK /\ FbTypeOK /\ OneBuilders(d) /\ OneBuilders(c)
  BY FbIInvSplit DEF IInv
<1>1. CASE BuildRsp(c)
  <2>1. CASE d = c
    <3>1. mbRsp[c] = NewBuilder /\ h[c] = "writing" /\ Len(s2c[c]) < Len(sndMsg[c])
      BY <1>0, <1>1 DEF BuildRsp, OneBuilders
    <3>2. mbRsp'[c] = [bufs |-> <<sndMsg[c][Len(s2c[c]) + 1]>>, finished |-> TRUE]
      BY <1>0, <1>1, <3>1, BuilderRoot DEF BuildRsp, FbTypeOK
    <3> QED
      BY <1>0, <1>1, <2>1, <3>1, <3>2
      DEF BuildRsp, OneBuilders, vars, clientVars, callVars, handlerVars
  <2>2. CASE d # c
    <3>1. SameBuilders(d)
      BY <1>0, <1>1, <2>2
      DEF BuildRsp, SameBuilders, FbTypeOK, vars, clientVars, callVars, handlerVars
    <3> QED BY <1>0, <3>1, SameBuildersInv
  <2> QED BY <2>1, <2>2
<1>2. CASE WriteRsp(c)
  <2>1. CASE d = c
    BY <1>0, <1>2, <2>1
    DEF WriteRsp, FbTypeOK, OneBuilders, clientVars, handlerVars
  <2>2. CASE d # c
    <3>1. SameBuilders(d)
      BY <1>0, <1>2, <2>2
      DEF WriteRsp, SameBuilders, TypeOK, FbTypeOK, clientVars, handlerVars
    <3> QED BY <1>0, <3>1, SameBuildersInv
  <2> QED BY <2>1, <2>2
<1>3. CASE HandlerServe(c) /\ UNCHANGED builders
  <2>1. CASE d = c
    BY <1>0, <1>3, <2>1
    DEF HandlerServe, OneBuilders, TypeOK, builders, clientVars
  <2>2. CASE d # c
    <3>1. SameBuilders(d)
      BY <1>0, <1>3, <2>2
      DEF HandlerServe, SameBuilders, TypeOK, builders, clientVars
    <3> QED BY <1>0, <3>1, SameBuildersInv
  <2> QED BY <2>1, <2>2
<1>4. ASSUME \/ HandlerStart(c) \/ HandlerDrop(c) \/ HandlerRead(c)
             \/ HandlerAbort(c) \/ HandlerReturn(c),
             UNCHANGED builders
      PROVE  SameBuilders(d)
  BY <1>0, <1>4
  DEF HandlerStart, HandlerDrop, HandlerRead, HandlerAbort, CallsDie,
      HandlerReturn, SameBuilders, TypeOK, builders, clientVars
<1> QED
  BY <1>0, <1>1, <1>2, <1>3, <1>4, SameBuildersInv DEF FbHandlerStep

LEMMA EnvironmentBuildersStep ==
    ASSUME FbIInv, FbEnvironment \/ UNCHANGED fbVars, NEW d \in Client
    PROVE  OneBuilders(d)'
<1>0. OneBuilders(d)
  BY FbIInvSplit
<1>1. SameBuilders(d)
  BY DEF FbEnvironment, Break, Stall, ServerStart, Boot, SetRcvFn,
         Listen, ServerExit, Exit, CallsDie, AllEnded, SameBuilders,
         fbVars, vars, builders, clientVars, callVars, handlerVars
<1> QED BY <1>0, <1>1, SameBuildersInv

-----------------------------------------------------------------------------
(* The theorems                                                            *)

\* The invariant of the builders, together with that of the gRPC transport,
\* is inductive.
THEOREM BuildersInvariant == FbSpec => []FbIInv
<1>1. FbInit => FbIInv
  <2> SUFFICES ASSUME FbInit
               PROVE  FbIInv
    OBVIOUS
  <2>1. IInv
    BY InitInv DEF FbInit
  <2>2. FbTypeOK /\ \A c \in Client : OneBuilders(c)
    BY DEF FbInit, FbTypeOK, OneBuilders
  <2> QED BY <2>1, <2>2, FbIInvSplit
<1>2. FbIInv /\ [FbNext]_fbVars => FbIInv'
  <2> SUFFICES ASSUME FbIInv, [FbNext]_fbVars
               PROVE  FbIInv'
    OBVIOUS
  <2>1. IInv'
    BY StepIsGrpcStep, StepInv DEF FbIInv
  <2>2. FbTypeOK'
    BY FbTypeStep DEF FbIInv
  <2>3. ASSUME NEW d \in Client
        PROVE  OneBuilders(d)'
    BY ClientBuildersStep, HandlerBuildersStep, EnvironmentBuildersStep DEF FbNext
  <2>4. (IInv /\ FbTypeOK /\ \A c \in Client : OneBuilders(c))'
    BY <2>1, <2>2, <2>3
  <2> QED BY <2>4, FbIInvSplit, PTL
<1> QED BY <1>1, <1>2, PTL DEF FbSpec

\* Whatever breaks, a message has in it its own buffer and no other.
THEOREM MessagesAlone == FbSpec => []EachMessageAlone
<1>1. FbIInv => EachMessageAlone
  BY DEF FbIInv
<1> QED BY <1>1, BuildersInvariant, PTL

\* Every behaviour of the FlatBuffers transport is one of the gRPC transport.
THEOREM GrpcImplemented == FbSpec => ImplementsGrpc
<1>1. FbInit => Init
  BY DEF FbInit
<1>2. FbIInv /\ [FbNext]_fbVars => [Next]_vars
  BY StepIsGrpcStep
<1> QED BY <1>1, <1>2, BuildersInvariant, PTL DEF FbSpec, ImplementsGrpc, Spec

=============================================================================
