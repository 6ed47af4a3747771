---------------------- MODULE CapnprotoTransport_proofs ----------------------
(***************************************************************************)
(* Proofs about CapnprotoTransport, for any set of clients, workloads,     *)
(* block counts and contents, window, number of operations and of servers. *)
(* They follow those about GrpcTransport: IInv is inductive, and its part  *)
(* about one client (OneInv) is disturbed by that client's calls and by    *)
(* the end of the server process only.                                     *)
(***************************************************************************)
EXTENDS CapnprotoTransport, RtPayload_proofs

\* The part of IInv about one client.
OneInv(c) ==
    /\ RequestInv(c) /\ CallInv(c) /\ StreamInv(c) /\ ServedInv(c)
    /\ pc[c] = "check" =>
          /\ rcvMsg[c] = req[c]
          /\ reply[c] = sndMsg[c]
          /\ ~Rejects(req[c]) /\ reply[c] \in Responses(req[c])

\* A step that leaves client c and its call alone.
Same(c) ==
    /\ pc'[c] = pc[c] /\ ops'[c] = ops[c]
    /\ req'[c] = req[c] /\ reply'[c] = reply[c]
    /\ stage'[c] = stage[c]
    /\ c2s'[c] = c2s[c] /\ s2c'[c] = s2c[c]
    /\ svc'[c] = svc[c] /\ (conn'[c] = "none" <=> conn[c] = "none")
    /\ rcvMsg'[c] = rcvMsg[c] /\ sndMsg'[c] = sndMsg[c]

\* IInv, client by client.
LEMMA IInvSplit == IInv <=> TypeOK /\ CallbackInv /\ \A c \in Client : OneInv(c)
BY DEF IInv, OneInv, CompleteReply

LEMMA SameInv ==
    ASSUME NEW c \in Client, OneInv(c), Same(c)
    PROVE  OneInv(c)'
BY DEF OneInv, Same, RequestInv, CallInv, StreamInv, ServedInv

\* The messages of a client's call.
LEMMA TypeOKDomains ==
    ASSUME TypeOK, NEW c \in Client
    PROVE  /\ req[c] \in Msg /\ reply[c] \in Msg
           /\ c2s[c] \in Msg /\ s2c[c] \in Msg
           /\ rcvMsg[c] \in Msg /\ sndMsg[c] \in Msg
           /\ ops[c] \in 0..OpCount[c]
BY DEF TypeOK, ClientTypeOK

\* What a step of sendRequestStream or sendReplyStream sends of a message is
\* still a beginning of it, and the other side has a beginning of that.
LEMMA NextChunkPrefix ==
    ASSUME NEW s \in Msg, NEW t \in Msg, IsPrefix(s, t)
    PROVE  /\ NextChunk(t, s) \in Msg
           /\ IsPrefix(NextChunk(t, s), t)
           /\ \A r \in Msg : IsPrefix(r, s) => IsPrefix(r, NextChunk(t, s))
           /\ Len(s) = Len(t) => NextChunk(t, s) = s /\ s = t
<1>1. Len(s) \in Nat /\ Len(t) \in Nat /\ Len(s) <= Len(t)
  BY PrefixPointwise, LenProperties DEF Msg
<1>2. CASE Len(s) < Len(t)
  <2>1. NextChunk(t, s) = Append(s, t[Len(s) + 1])
    BY <1>2 DEF NextChunk
  <2>2. NextChunk(t, s) \in Msg /\ IsPrefix(NextChunk(t, s), t)
    BY <1>2, <2>1, PrefixNext DEF Msg
  <2>3. t[Len(s) + 1] \in Buf
    BY <1>1, <1>2, ElementOfSeq DEF Msg
  <2>4. \A r \in Msg : IsPrefix(r, s) => IsPrefix(r, NextChunk(t, s))
    BY <2>1, <2>3, PrefixGrows DEF Msg
  <2> QED BY <1>1, <1>2, <2>2, <2>4
<1>3. CASE Len(s) = Len(t)
  <2>1. NextChunk(t, s) = s
    BY <1>1, <1>3 DEF NextChunk
  <2>2. s = t
    BY <1>3, PrefixWhole DEF Msg
  <2> QED BY <2>1, <2>2
<1> QED BY <1>1, <1>2, <1>3

\* The same for the first step, before which nothing has been sent.
LEMMA FirstChunkPrefix ==
    ASSUME NEW t \in Msg
    PROVE  /\ NextChunk(t, <<>>) \in Msg
           /\ IsPrefix(NextChunk(t, <<>>), t)
           /\ t = <<>> => NextChunk(t, <<>>) = <<>>
<1>1. <<>> \in Msg /\ IsPrefix(<<>>, t)
  BY EmptySeq, PrefixEmpty DEF Msg
<1>2. t = <<>> => Len(<<>>) = Len(t)
  OBVIOUS
<1> QED BY <1>1, <1>2, NextChunkPrefix

-----------------------------------------------------------------------------
(* Type correctness and the callback                                       *)

\* A step keeps the types: what is sent of a message are its own buffers.
LEMMA TypeStep ==
    ASSUME IInv, [Next]_vars
    PROVE  TypeOK'
<1> USE DEF TypeOK, ClientTypeOK, ServerTypeOK, Executed
<1>0. TypeOK /\ \A c \in Client : OneInv(c)
  BY IInvSplit
<1>1. ASSUME NEW c \in Client, StartCall(c)
      PROVE  TypeOK'
  <2>1. PICK m \in Requests(c) :
            req' = [req EXCEPT ![c] = m]
    BY <1>1 DEF StartCall, FillRequest
  <2>2. <<>> \in Msg /\ m \in Msg
    BY EmptySeq, ClientAssumption, FillReqMsg DEF Msg, Requests
  <2>3. req'[c] = m
    BY <1>0, <2>1
  <2>4. NextChunk(req'[c], <<>>) \in Msg
    BY <2>2, <2>3, FirstChunkPrefix
  <2>5. /\ pc' \in [Client -> {"fill", "send", "check"} \cup Ended]
        /\ ops' = ops
        /\ req' \in [Client -> Msg] /\ reply' \in [Client -> Msg]
    BY <1>0, <1>1, <2>1, <2>2 DEF StartCall, FillRequest
  <2>6. /\ conn' \in [Client -> {"none", "open", "broken"}]
        /\ svc' \in [Client -> {"none", "collecting", "cancelled"} \cup Executed]
        /\ stage' \in [Client -> {"idle", "sending", "awaiting"}]
    BY <1>0, <1>1 DEF StartCall
  <2>7. /\ c2s' \in [Client -> Msg] /\ rcvMsg' \in [Client -> Msg]
        /\ sndMsg' \in [Client -> Msg] /\ s2c' \in [Client -> Msg]
    BY <1>0, <1>1, <2>2, <2>4 DEF StartCall
  <2> QED BY <1>0, <1>1, <2>5, <2>6, <2>7 DEF StartCall, serverVars
<1>2. ASSUME NEW c \in Client, SendRequestStream(c)
      PROVE  TypeOK'
  <2>1. NextChunk(req[c], c2s[c]) \in Msg
    BY <1>0, TypeOKDomains, NextChunkPrefix DEF OneInv, StreamInv
  <2> QED BY <1>0, <1>2, <2>1 DEF SendRequestStream, clientVars, serverVars
<1>3. ASSUME NEW c \in Client, ReplyChunk(c)
      PROVE  TypeOK'
  BY <1>0, <1>3, NextMsg, TypeOKDomains DEF ReplyChunk, serverVars, callVars
<1>4. ASSUME NEW c \in Client, FillFails(c) \/ WaitReturns(c) \/ WaitThrows(c) \/ End(c)
      PROVE  TypeOK'
  BY <1>0, <1>4
  DEF FillFails, FillThrows, WaitReturns, WaitThrows, End, Pass, SendReqReturns,
      SendReqThrows, serverVars, callVars, Ended
<1>5. ASSUME NEW c \in Client, Check(c)
      PROVE  TypeOK'
  <2>1. ops[c] \in Int /\ 0 <= ops[c] /\ ops[c] < OpCount[c] /\ OpCount[c] \in Int
    BY <1>0, <1>5, ClientAssumption DEF Check, CheckReply, OneInv, CallInv
  <2>2. ops[c] + 1 \in Nat /\ ops[c] + 1 <= OpCount[c]
    BY <2>1
  <2> QED BY <1>0, <1>5, <2>2 DEF Check, CheckReply, serverVars, callVars, Ended
<1>6. ASSUME NEW c \in Client,
             ReplyDone(c) \/ ReqReply(c) \/ DoneReturns(c) \/ Cancel(c) \/ Break(c)
      PROVE  TypeOK'
  BY <1>0, <1>6
  DEF ReplyDone, ReqReply, DoneReturns, Cancel, Break, clientVars, serverVars
<1>7. ASSUME NEW c \in Client, SendChunk(c)
      PROVE  TypeOK'
  BY <1>0, <1>7, NextMsg, TypeOKDomains DEF SendChunk, clientVars, serverVars
<1>8. ASSUME NEW c \in Client, Done(c)
      PROVE  TypeOK'
  <2>1. PICK rsp \in Responses(rcvMsg[c]) :
            /\ sndMsg' = [sndMsg EXCEPT ![c] = rsp]
            /\ s2c' = [s2c EXCEPT ![c] = NextChunk(rsp, <<>>)]
            /\ svc' = [svc EXCEPT ![c] =
                         IF rsp = <<>> THEN "finishing" ELSE "replying"]
    BY <1>8 DEF Done
  <2>2. rsp \in Msg /\ NextChunk(rsp, <<>>) \in Msg
    BY <1>0, <1>8, TypeOKDomains, ResponsesMsg, FirstChunkPrefix DEF Done
  <2> QED BY <1>0, <1>8, <2>1, <2>2 DEF Done, clientVars, serverVars
<1>9. ASSUME NEW c \in Client, SendReplyStream(c)
      PROVE  TypeOK'
  <2>1. NextChunk(sndMsg[c], s2c[c]) \in Msg
    BY <1>0, TypeOKDomains, NextChunkPrefix DEF OneInv, StreamInv
  <2> QED BY <1>0, <1>9, <2>1 DEF SendReplyStream, clientVars, serverVars
<1>10. ASSUME CallsDie, Abort \/ Exit
       PROVE  TypeOK'
  BY <1>0, <1>10 DEF CallsDie, Abort, Exit, clientVars
<1>11. ASSUME ServerStart
       PROVE  TypeOK'
  BY <1>0, <1>11, MaxBootsAssumption
  DEF ServerStart, Boot, SetRcvFn, Listen, RcvFns, clientVars, callVars
<1>12. ASSUME UNCHANGED vars
       PROVE  TypeOK'
  BY <1>0, <1>12 DEF vars, clientVars, serverVars, callVars
<1> QED
  BY <1>1, <1>2, <1>3, <1>4, <1>5, <1>6, <1>7, <1>8, <1>9, <1>10, <1>11, <1>12
  DEF Next, ClientStep, ServerStep, DoneAborts, ServerExit, AllEnded

\* The callback is registered before the transport is constructed.
LEMMA CallbackStep ==
    ASSUME IInv, [Next]_vars
    PROVE  CallbackInv'
<1> USE DEF CallbackInv
<1>0. CallbackInv
  BY DEF IInv
<1>1. ASSUME Abort \/ Exit
      PROVE  CallbackInv'
  BY <1>1 DEF Abort, Exit
<1>2. ASSUME ServerStart
      PROVE  CallbackInv'
  BY <1>0, <1>2 DEF ServerStart, Boot, SetRcvFn, Listen
<1>3. ASSUME UNCHANGED serverVars
      PROVE  CallbackInv'
  BY <1>0, <1>3 DEF serverVars
<1> QED
  BY <1>1, <1>2, <1>3
  DEF Next, ClientStep, ServerStep, DoneAborts, ServerExit, AllEnded,
      StartCall, FillFails, SendRequestStream, ReplyChunk, ReplyDone, WaitReturns,
      WaitThrows, Check, End, ReqReply, SendChunk, Done, SendReplyStream,
      DoneReturns, Cancel, Break, vars

-----------------------------------------------------------------------------
(* The invariant of the client whose call moves                            *)

\* The first step of sendRequestStream: nothing has arrived yet.
LEMMA StartCallInv ==
    ASSUME IInv, NEW c \in Client, StartCall(c), TypeOK'
    PROVE  OneInv(c)'
<1>1. TypeOK
  BY DEF IInv
<1>2. /\ req'[c] \in Requests(c)
      /\ pc'[c] = "send" /\ ops'[c] = ops[c] /\ ops[c] < OpCount[c]
      /\ stage'[c] = IF req'[c] = <<>> THEN "awaiting" ELSE "sending"
      /\ svc'[c] \in {"none", "cancelled"}
      /\ reply'[c] = <<>> /\ c2s'[c] = NextChunk(req'[c], <<>>)
      /\ rcvMsg'[c] = <<>> /\ sndMsg'[c] = <<>> /\ s2c'[c] = <<>>
  BY <1>1 DEF StartCall, FillRequest, TypeOK, ClientTypeOK
<1>3. req'[c] \in Msg /\ c2s'[c] \in Msg /\ <<>> \in Msg
  BY EmptySeq DEF TypeOK, ClientTypeOK, Msg
<1>4. /\ IsPrefix(c2s'[c], req'[c]) /\ IsPrefix(<<>>, c2s'[c]) /\ IsPrefix(<<>>, <<>>)
      /\ stage'[c] = "awaiting" => c2s'[c] = req'[c]
  BY <1>2, <1>3, FirstChunkPrefix, PrefixEmpty DEF Msg
<1> QED
  BY <1>2, <1>4 DEF OneInv, RequestInv, CallInv, StreamInv, ServedInv, Executed

LEMMA SendRequestStreamInv ==
    ASSUME IInv, NEW c \in Client, SendRequestStream(c)
    PROVE  OneInv(c)'
<1>1. TypeOK /\ OneInv(c)
  BY IInvSplit
<1>2. /\ pc' = pc /\ ops' = ops /\ req' = req /\ reply' = reply
      /\ svc' = svc /\ rcvMsg' = rcvMsg /\ sndMsg' = sndMsg /\ s2c' = s2c
      /\ conn' = conn
      /\ c2s'[c] = NextChunk(req[c], c2s[c])
      /\ stage[c] = "sending"
      /\ stage'[c] = IF Len(c2s[c]) = Len(req[c]) THEN "awaiting" ELSE stage[c]
  BY <1>1 DEF SendRequestStream, TypeOK, clientVars
<1>3. /\ req[c] \in Msg /\ c2s[c] \in Msg /\ rcvMsg[c] \in Msg
      /\ IsPrefix(c2s[c], req[c]) /\ IsPrefix(rcvMsg[c], c2s[c])
  BY <1>1, TypeOKDomains DEF OneInv, StreamInv
<1>4. /\ IsPrefix(c2s'[c], req[c]) /\ IsPrefix(rcvMsg[c], c2s'[c])
      /\ stage'[c] = "awaiting" => c2s'[c] = req[c]
  BY <1>2, <1>3, NextChunkPrefix
<1> QED
  BY <1>1, <1>2, <1>4
  DEF OneInv, RequestInv, CallInv, StreamInv, ServedInv

\* A chunk arrives at either side.
LEMMA ReplyChunkInv ==
    ASSUME IInv, NEW c \in Client, ReplyChunk(c)
    PROVE  OneInv(c)'
<1>1. TypeOK /\ OneInv(c)
  BY IInvSplit
<1>2. /\ pc' = pc /\ ops' = ops /\ req' = req /\ stage' = stage /\ c2s' = c2s
      /\ svc' = svc /\ rcvMsg' = rcvMsg /\ sndMsg' = sndMsg /\ s2c' = s2c
      /\ conn' = conn
      /\ Len(reply[c]) < Len(s2c[c])
      /\ reply'[c] = Append(reply[c], s2c[c][Len(reply[c]) + 1])
  BY <1>1 DEF ReplyChunk, TypeOK, ClientTypeOK, callVars
<1>3. reply[c] \in Seq(Buf) /\ s2c[c] \in Seq(Buf) /\ IsPrefix(reply[c], s2c[c])
  BY <1>1, TypeOKDomains DEF Msg, OneInv, StreamInv
<1>4. IsPrefix(reply'[c], s2c[c])
  BY <1>2, <1>3, PrefixNext
<1>5. reply[c] # s2c[c]
  BY <1>2, <1>3, LenProperties
<1>6. svc[c] \notin {"finished", "returned"}
  BY <1>1, <1>5 DEF OneInv, ServedInv
<1>7. pc[c] # "check"
  <2>1. SUFFICES ASSUME pc[c] = "check" PROVE FALSE
    OBVIOUS
  <2>2. reply[c] = sndMsg[c] /\ IsPrefix(s2c[c], sndMsg[c])
    BY <1>1, <2>1 DEF OneInv, StreamInv
  <2>3. sndMsg[c] \in Seq(Buf)
    BY <1>1, TypeOKDomains DEF Msg
  <2>4. Len(s2c[c]) <= Len(reply[c])
    BY <1>3, <2>2, <2>3, PrefixPointwise
  <2> QED BY <1>2, <1>3, <2>4, LenProperties
<1> QED
  BY <1>1, <1>2, <1>4, <1>6, <1>7
  DEF OneInv, RequestInv, CallInv, StreamInv, ServedInv

LEMMA SendChunkInv ==
    ASSUME IInv, NEW c \in Client, SendChunk(c)
    PROVE  OneInv(c)'
<1>1. TypeOK /\ OneInv(c)
  BY IInvSplit
<1>2. /\ pc' = pc /\ ops' = ops /\ req' = req /\ stage' = stage /\ c2s' = c2s
      /\ svc' = svc /\ reply' = reply /\ sndMsg' = sndMsg /\ s2c' = s2c
      /\ conn' = conn
      /\ svc[c] = "collecting"
      /\ Len(rcvMsg[c]) < Len(c2s[c])
      /\ rcvMsg'[c] = Append(rcvMsg[c], c2s[c][Len(rcvMsg[c]) + 1])
  BY <1>1 DEF SendChunk, TypeOK, clientVars
<1>3. rcvMsg[c] \in Seq(Buf) /\ c2s[c] \in Seq(Buf) /\ IsPrefix(rcvMsg[c], c2s[c])
  BY <1>1, TypeOKDomains DEF Msg, OneInv, StreamInv
<1>4. IsPrefix(rcvMsg'[c], c2s[c])
  BY <1>2, <1>3, PrefixNext
<1> QED
  BY <1>1, <1>2, <1>4
  DEF OneInv, RequestInv, CallInv, StreamInv, ServedInv, Executed

\* done runs the callback: behind the chunks, so on the whole request.
LEMMA DoneInv ==
    ASSUME IInv, NEW c \in Client, Done(c)
    PROVE  OneInv(c)'
<1>1. TypeOK /\ OneInv(c)
  BY IInvSplit
<1>2. PICK rsp \in Responses(rcvMsg[c]) :
          /\ sndMsg'[c] = rsp
          /\ s2c'[c] = NextChunk(rsp, <<>>)
          /\ svc'[c] = IF rsp = <<>> THEN "finishing" ELSE "replying"
  BY <1>1 DEF Done, TypeOK
<1>3. /\ pc' = pc /\ ops' = ops /\ req' = req /\ stage' = stage /\ c2s' = c2s
      /\ reply' = reply /\ rcvMsg' = rcvMsg
      /\ svc[c] = "collecting" /\ stage[c] = "awaiting" /\ rcvMsg[c] = c2s[c]
      /\ ~Rejects(rcvMsg[c])
  BY DEF Done, DoneArrives, clientVars
<1>4. rsp \in Msg /\ reply[c] \in Msg /\ <<>> \in Msg
  BY <1>1, <1>3, TypeOKDomains, ResponsesMsg, EmptySeq DEF Msg
<1>5. rcvMsg[c] = req[c] /\ s2c[c] = <<>> /\ pc[c] # "check"
  BY <1>1, <1>3 DEF OneInv, StreamInv, ServedInv, CallInv, Executed
<1>6. reply[c] = <<>>
  BY <1>1, <1>4, <1>5, PrefixFirst DEF Msg, OneInv, StreamInv
<1>7. /\ IsPrefix(s2c'[c], rsp) /\ IsPrefix(reply[c], s2c'[c])
      /\ svc'[c] = "finishing" => s2c'[c] = rsp
  BY <1>2, <1>4, <1>6, FirstChunkPrefix, PrefixEmpty DEF Msg
<1> QED
  BY <1>1, <1>2, <1>3, <1>5, <1>7
  DEF OneInv, RequestInv, CallInv, StreamInv, ServedInv, Executed

LEMMA SendReplyStreamInv ==
    ASSUME IInv, NEW c \in Client, SendReplyStream(c)
    PROVE  OneInv(c)'
<1>1. TypeOK /\ OneInv(c)
  BY IInvSplit
<1>2. /\ pc' = pc /\ ops' = ops /\ req' = req /\ reply' = reply
      /\ stage' = stage /\ c2s' = c2s /\ rcvMsg' = rcvMsg /\ sndMsg' = sndMsg
      /\ svc[c] = "replying"
      /\ s2c'[c] = NextChunk(sndMsg[c], s2c[c])
      /\ svc'[c] = IF Len(s2c[c]) = Len(sndMsg[c]) THEN "finishing" ELSE svc[c]
  BY <1>1 DEF SendReplyStream, TypeOK, clientVars
<1>3. /\ sndMsg[c] \in Msg /\ s2c[c] \in Msg /\ reply[c] \in Msg
      /\ IsPrefix(s2c[c], sndMsg[c]) /\ IsPrefix(reply[c], s2c[c])
  BY <1>1, TypeOKDomains DEF OneInv, StreamInv
<1>4. /\ IsPrefix(s2c'[c], sndMsg[c]) /\ IsPrefix(reply[c], s2c'[c])
      /\ svc'[c] = "finishing" => s2c'[c] = sndMsg[c]
  BY <1>2, <1>3, NextChunkPrefix
<1> QED
  BY <1>1, <1>2, <1>4
  DEF OneInv, RequestInv, CallInv, StreamInv, ServedInv, Executed

\* The reply's done is answered behind the last chunk.
LEMMA ReplyDoneInv ==
    ASSUME IInv, NEW c \in Client, ReplyDone(c)
    PROVE  OneInv(c)'
<1>1. TypeOK /\ OneInv(c)
  BY IInvSplit
<1>2. /\ pc' = pc /\ ops' = ops /\ req' = req /\ reply' = reply
      /\ stage' = stage /\ c2s' = c2s /\ rcvMsg' = rcvMsg /\ sndMsg' = sndMsg
      /\ s2c' = s2c
      /\ svc[c] = "finishing" /\ svc'[c] = "finished"
      /\ Len(reply[c]) = Len(s2c[c])
  BY <1>1 DEF ReplyDone, TypeOK, clientVars
<1>3. reply[c] \in Seq(Buf) /\ s2c[c] \in Seq(Buf) /\ IsPrefix(reply[c], s2c[c])
  BY <1>1, TypeOKDomains DEF Msg, OneInv, StreamInv
<1>4. reply[c] = s2c[c]
  BY <1>2, <1>3, PrefixWhole
<1> QED
  BY <1>1, <1>2, <1>4
  DEF OneInv, RequestInv, CallInv, StreamInv, ServedInv, Executed

\* sendReq returns with what ReplySvcImpl collected.
LEMMA WaitReturnsInv ==
    ASSUME IInv, NEW c \in Client, WaitReturns(c)
    PROVE  OneInv(c)'
<1>1. TypeOK /\ OneInv(c)
  BY IInvSplit
<1>2. /\ pc[c] = "send" /\ pc'[c] = "check" /\ ops' = ops /\ req' = req
      /\ reply' = reply /\ stage'[c] = "idle" /\ c2s' = c2s
      /\ rcvMsg' = rcvMsg /\ sndMsg' = sndMsg /\ s2c' = s2c
      /\ svc[c] = "returned" /\ svc' = svc
  BY <1>1 DEF WaitReturns, SendReqReturns, TypeOK, ClientTypeOK
<1> QED
  BY <1>1, <1>2
  DEF OneInv, RequestInv, CallInv, StreamInv, ServedInv, Executed

\* The end of a sendReq, a check or a run at the client leaves the call alone.
LEMMA ClientEndInv ==
    ASSUME IInv, NEW c \in Client,
           FillFails(c) \/ WaitThrows(c) \/ Check(c) \/ End(c)
    PROVE  OneInv(c)'
<1>1. TypeOK /\ OneInv(c)
  BY IInvSplit
<1>2. /\ pc'[c] \notin {"send", "check"} /\ req' = req /\ conn' = conn
      /\ pc'[c] = "send_failed" \/ pc[c] \notin {"send", "send_failed"}
      /\ reply' = reply /\ stage' = stage /\ c2s' = c2s
      /\ rcvMsg' = rcvMsg /\ sndMsg' = sndMsg /\ s2c' = s2c /\ svc' = svc
  BY <1>1
  DEF FillFails, FillThrows, WaitThrows, SendReqThrows, Check, CheckReply, End,
      Pass, TypeOK, ClientTypeOK, callVars
<1> QED
  BY <1>1, <1>2
  DEF OneInv, RequestInv, CallInv, StreamInv, ServedInv

\* The server's other callbacks only move its call on.
LEMMA ServerStepInv ==
    ASSUME IInv, NEW c \in Client, ReqReply(c) \/ DoneReturns(c) \/ Cancel(c)
    PROVE  OneInv(c)'
<1>1. TypeOK /\ OneInv(c)
  BY IInvSplit
<1>2. /\ pc' = pc /\ ops' = ops /\ req' = req /\ reply' = reply
      /\ stage' = stage /\ c2s' = c2s
      /\ rcvMsg' = rcvMsg /\ sndMsg' = sndMsg /\ s2c' = s2c
      /\ \/ /\ svc[c] = "none" /\ svc'[c] = "collecting"
            /\ conn[c] # "none" /\ conn' = conn
         \/ svc[c] = "finished" /\ svc'[c] = "returned"
         \/ svc'[c] = IF svc[c] \in Executed THEN "lost" ELSE "cancelled"
  BY <1>1 DEF ReqReply, DoneReturns, Cancel, TypeOK, clientVars
<1> QED
  BY <1>1, <1>2
  DEF OneInv, RequestInv, CallInv, StreamInv, ServedInv, Executed

\* The server process ends, for every client.
LEMMA CallsDieInv ==
    ASSUME IInv, NEW c \in Client, CallsDie
    PROVE  OneInv(c)'
<1>1. TypeOK /\ OneInv(c)
  BY IInvSplit
<1>2. /\ pc' = pc /\ ops' = ops /\ req' = req /\ reply' = reply
      /\ stage' = stage /\ c2s' = c2s
      /\ rcvMsg' = rcvMsg /\ sndMsg' = sndMsg /\ s2c' = s2c
      /\ svc'[c] = IF svc[c] \in Executed THEN "lost" ELSE "cancelled"
  BY DEF CallsDie, clientVars
<1> QED
  BY <1>1, <1>2
  DEF OneInv, RequestInv, CallInv, StreamInv, ServedInv, Executed

-----------------------------------------------------------------------------
(* The inductive invariant                                                 *)

LEMMA InitInv == Init => IInv
<1> SUFFICES ASSUME Init PROVE IInv
  OBVIOUS
<1>1. <<>> \in Msg /\ <<>> \in Seq(Buf)
  BY EmptySeq DEF Msg
<1>2. TypeOK
  BY <1>1, ClientAssumption, MaxBootsAssumption
  DEF Init, ClientInit, ServerInit, TypeOK, ClientTypeOK, ServerTypeOK, RcvFns
<1>3. CallbackInv
  BY DEF Init, ServerInit, CallbackInv
<1>4. ASSUME NEW c \in Client
      PROVE  OneInv(c)
  <2>1. IsPrefix(<<>>, <<>>)
    BY <1>1, PrefixEmpty
  <2> QED
    BY <2>1
    DEF Init, ClientInit, OneInv, RequestInv, CallInv, StreamInv, ServedInv, Executed
<1> QED BY <1>2, <1>3, <1>4, IInvSplit

\* A step of one client's call leaves the others alone.
LEMMA OthersSame ==
    ASSUME TypeOK, NEW c \in Client, NEW d \in Client, d # c,
           ClientStep(c) \/ (ServerStep(c) /\ ~DoneAborts(c)) \/ Break(c)
    PROVE  Same(d)
<1> USE DEF TypeOK, ClientTypeOK, Same, clientVars, callVars
<1>1. CASE StartCall(c)
  BY <1>1 DEF StartCall, FillRequest
<1>2. CASE SendRequestStream(c) \/ ReplyChunk(c) \/ ReplyDone(c)
  BY <1>2 DEF SendRequestStream, ReplyChunk, ReplyDone
<1>3. CASE WaitReturns(c) \/ WaitThrows(c)
  BY <1>3 DEF WaitReturns, WaitThrows, SendReqReturns, SendReqThrows
<1>4. CASE Check(c) \/ End(c) \/ FillFails(c)
  BY <1>4 DEF Check, CheckReply, End, Pass, FillFails, FillThrows
<1>5. CASE ReqReply(c) \/ SendChunk(c) \/ SendReplyStream(c)
  BY <1>5 DEF ReqReply, SendChunk, SendReplyStream
<1>6. CASE Done(c)
  BY <1>6 DEF Done
<1>7. CASE DoneReturns(c) \/ Cancel(c) \/ Break(c)
  BY <1>7 DEF DoneReturns, Cancel, Break
<1> QED
  BY <1>1, <1>2, <1>3, <1>4, <1>5, <1>6, <1>7 DEF ClientStep, ServerStep

\* Every step keeps the invariant.
LEMMA StepInv == IInv /\ [Next]_vars => IInv'
<1> SUFFICES ASSUME IInv, [Next]_vars PROVE IInv'
  OBVIOUS
<1>1. TypeOK /\ \A c \in Client : OneInv(c)
  BY IInvSplit
<1>2. TypeOK' /\ CallbackInv'
  BY TypeStep, CallbackStep
<1>3. ASSUME NEW c \in Client,
             ClientStep(c) \/ (ServerStep(c) /\ ~DoneAborts(c))
      PROVE  \A d \in Client : OneInv(d)'
  <2>1. OneInv(c)'
    BY <1>2, <1>3, StartCallInv, SendRequestStreamInv, ReplyChunkInv,
       ReplyDoneInv, WaitReturnsInv, ClientEndInv, ServerStepInv, SendChunkInv,
       DoneInv, SendReplyStreamInv
    DEF ClientStep, ServerStep
  <2>2. ASSUME NEW d \in Client, d # c PROVE OneInv(d)'
    BY <1>1, <1>3, <2>2, OthersSame, SameInv
  <2> QED BY <2>1, <2>2
<1>4. ASSUME CallsDie
      PROVE  \A d \in Client : OneInv(d)'
  BY <1>4, CallsDieInv
<1>5. ASSUME UNCHANGED <<clientVars, callVars>> \/ \E c \in Client : Break(c)
      PROVE  \A d \in Client : OneInv(d)'
  <2>1. \A d \in Client : Same(d)
    BY <1>1, <1>5 DEF Same, Break, TypeOK, clientVars, callVars
  <2> QED BY <1>1, <2>1, SameInv
<1>6. \A d \in Client : OneInv(d)'
  BY <1>3, <1>4, <1>5
  DEF Next, DoneAborts, ServerStart, ServerExit, AllEnded, vars, ServerStep
<1>7. IInv' <=> TypeOK' /\ CallbackInv' /\ (\A c \in Client : OneInv(c))'
  BY IInvSplit, PTL
<1> QED BY <1>2, <1>6, <1>7

\* IInv holds in every reachable state.
THEOREM Invariance == Spec => []IInv
<1>1. Init => IInv
  BY InitInv
<1>2. IInv /\ [Next]_vars => IInv'
  BY StepInv
<1> QED BY <1>1, <1>2, PTL DEF Spec

\* The variables of both programs keep their types.
THEOREM TypeCorrect == Spec => []TypeOK
<1>1. IInv => TypeOK
  BY DEF IInv
<1> QED BY <1>1, Invariance, PTL

-----------------------------------------------------------------------------
(* What the transport guarantees                                           *)

\* A sendReq that returns has executed its request and has brought the whole
\* response back.
THEOREM RepliesComplete == Spec => []CompleteReply
<1>1. IInv => CompleteReply
  BY DEF IInv
<1> QED BY <1>1, Invariance, PTL

\* ServerRcvFn is run on whole requests only.
THEOREM NoTruncation == Spec => []NeverTruncated
<1>1. IInv => NeverTruncated
  BY DEF IInv, ServedInv, NeverTruncated
<1> QED BY <1>1, Invariance, PTL

\* The server aborts only for a request without any buffer, or for one that asks
\* for blocks that cannot be made or may not be.
THEOREM AbortsExplained == Spec => AbortsOnlyWithCause
<1> DEFINE Cause(c) == svc[c] = "collecting" /\ (req[c] = <<>> \/ AsksTooMuch(c))
           A == srv' = "aborted" /\ srv # "aborted" => \E c \in Client : Cause(c)
<1>1. ASSUME IInv, NEW c \in Client, DoneAborts(c)
      PROVE  Cause(c)
  <2>1. /\ TypeOK /\ OneInv(c)
        /\ svc[c] = "collecting" /\ stage[c] = "awaiting" /\ rcvMsg[c] = c2s[c]
        /\ MayReject(rcvMsg[c])
    BY <1>1, IInvSplit DEF DoneAborts, DoneArrives, Abort, CallbackInv
  <2>2. rcvMsg[c] = req[c] /\ req[c] \in Msg /\ IsPrefix(req[c], req[c])
    BY <2>1, TypeOKDomains DEF OneInv, StreamInv
  <2>3. CASE req[c] # <<>>
    <3>1. req[c] \in Requests(c)
      BY <2>1, <2>3 DEF OneInv, RequestInv
    <3>2. AsksTooMuch(c)
      BY <2>1, <2>2, <2>3, <3>1, ClientAssumption, MayRejectCause
      DEF Requests, AsksTooMuch
    <3> QED BY <2>1, <3>2
  <2> QED BY <2>1, <2>3
<1>2. ASSUME IInv, [Next]_vars
      PROVE  A
  <2>1. SUFFICES ASSUME srv' = "aborted", srv # "aborted"
                 PROVE  \E c \in Client : DoneAborts(c)
    BY <1>1, <1>2
  <2> QED
    BY <1>2, <2>1
    DEF Next, ClientStep, ServerStep, StartCall, FillFails, SendRequestStream, ReplyChunk,
        ReplyDone, WaitReturns, WaitThrows, Check, End, ReqReply, SendChunk,
        Done, SendReplyStream, DoneReturns, Cancel, Break, ServerStart, Boot,
        SetRcvFn, Listen, ServerExit, Exit, AllEnded, serverVars, vars
<1>3. IInv /\ [Next]_vars => [A]_vars
  BY <1>2
<1> QED BY <1>3, Invariance, PTL DEF Spec, AbortsOnlyWithCause

-----------------------------------------------------------------------------
(* The transport implements the abstract request/reply service             *)

\* What a client sees of its call depends on its own variables only.
LEMMA SameBar ==
    ASSUME NEW c \in Client, Same(c)
    PROVE  ReplyOf(c)' = ReplyOf(c) /\ ServedOf(c)' = ServedOf(c)
BY DEF Same, ReplyOf, ServedOf

\* A step that shows nothing to any client is a stutter of the service.
LEMMA Stutter ==
    ASSUME pc' = pc, ops' = ops, req' = req,
           \A c \in Client : ReplyOf(c)' = ReplyOf(c) /\ ServedOf(c)' = ServedOf(c)
    PROVE  UNCHANGED RR!vars
BY DEF RR!vars, RR!clientVars, ReplyBar, ServedBar

\* The initial states are initial states of the service.
LEMMA InitRefines == Init => RR!Init
BY DEF Init, ClientInit, RR!Init, RR!ClientInit, ReplyBar, ServedBar, ReplyOf,
       ServedOf, Executed

\* The service speaks of the same messages.
LEMMA SameMessages ==
    /\ \A d \in Client : RR!Requests(d) = Requests(d)
    /\ \A w, n, s : RR!MayNotMake(RR!ReqBlocks(w, n), s) <=> MayNotMake(ReqBlocks(w, n), s)
    /\ \A w, n, s : RR!CannotMake(RR!ReqBlocks(w, n), s) <=> CannotMake(ReqBlocks(w, n), s)
    /\ \A r : RR!Rejects(r) = Rejects(r) /\ RR!Responses(r) = Responses(r)
    /\ \A w, r, p : RR!Accepts(w, r, p) = Accepts(w, r, p)
<1> USE DEF RR!Hdr, Hdr, RR!Framed, Framed, RR!Data, Data, RR!BufCount, BufCount,
            RR!ReqTags, ReqTags, RR!RspTags, RspTags
<1>1. \A w, n, s : RR!FillReq(w, n, s) = FillReq(w, n, s)
  BY DEF RR!FillReq, FillReq, RR!ReqTag, ReqTag
<1>5. \A d \in Client : RR!Requests(d) = Requests(d)
  BY <1>1 DEF RR!Requests, Requests
<1>6. \A w, n, s :
         /\ RR!MayNotMake(RR!ReqBlocks(w, n), s) <=> MayNotMake(ReqBlocks(w, n), s)
         /\ RR!CannotMake(RR!ReqBlocks(w, n), s) <=> CannotMake(ReqBlocks(w, n), s)
  BY DEF RR!MayNotMake, MayNotMake, RR!CannotMake, CannotMake, RR!ReqBlocks, ReqBlocks
<1>2. \A r : RR!Rejects(r) = Rejects(r)
  BY DEF RR!Rejects, Rejects, RR!Refuses, Refuses, RR!CannotMake, CannotMake
<1>3. \A r : RR!Responses(r) = Responses(r)
  BY DEF RR!Responses, Responses
<1>4. \A w, r, p : RR!Accepts(w, r, p) = Accepts(w, r, p)
  BY DEF RR!Accepts, Accepts, RR!HasRspHdr, HasRspHdr, RR!EchoIsValid, EchoIsValid
<1> QED BY <1>2, <1>3, <1>4, <1>5, <1>6

\* The call of reqReply begins an exchange.
LEMMA StartCallRefines ==
    ASSUME IInv, NEW c \in Client, StartCall(c)
    PROVE  RR!Begin(c)
<1>1. TypeOK /\ \A d \in Client : d # c => Same(d)
  BY OthersSame DEF IInv, ClientStep
<1>2. /\ pc[c] = "fill" /\ ops[c] < OpCount[c] /\ UNCHANGED ops
      /\ \E m \in Requests(c) : req' = [req EXCEPT ![c] = m]
      /\ ~CannotMake(ReqBlocks(Workload[c], BlockCount[c]), BlockSize[c])
      /\ pc' = [pc EXCEPT ![c] = "send"] /\ pc'[c] = "send"
      /\ svc'[c] \in {"none", "cancelled"}
  BY <1>1 DEF StartCall, FillRequest, TypeOK, ClientTypeOK
<1>3. ReplyOf(c)' = <<>> /\ ServedOf(c)' = {}
  BY <1>2 DEF ReplyOf, ServedOf, Executed
<1>4. ReplyBar' = [ReplyBar EXCEPT ![c] = <<>>] /\ ServedBar' = [ServedBar EXCEPT ![c] = {}]
  BY <1>1, <1>3, SameBar DEF ReplyBar, ServedBar
<1> QED BY <1>2, <1>4, SameMessages DEF RR!Begin, RR!FillRequest

\* done executes the request: the client is still waiting, or has given up.
LEMMA DoneRefines ==
    ASSUME IInv, NEW c \in Client, Done(c)
    PROVE  RR!Execute(c)
<1>1. TypeOK /\ OneInv(c) /\ \A d \in Client : d # c => Same(d)
  <2>1. TypeOK /\ OneInv(c) /\ ~DoneAborts(c)
    BY IInvSplit DEF Done, DoneAborts, Abort, serverVars
  <2> QED BY <2>1, OthersSame DEF ServerStep
<1>2. /\ pc' = pc /\ ops' = ops /\ req' = req /\ reply' = reply
      /\ svc[c] = "collecting" /\ svc'[c] \in {"finishing", "replying"}
      /\ stage[c] = "awaiting" /\ rcvMsg[c] = c2s[c]
      /\ ~Rejects(rcvMsg[c])
      /\ sndMsg'[c] \in Responses(rcvMsg[c])
  BY <1>1 DEF Done, DoneArrives, TypeOK, clientVars
<1>3. rcvMsg[c] = req[c]
  BY <1>1, <1>2 DEF OneInv, StreamInv
<1>4. pc[c] \in {"send", "send_failed"}
  BY <1>1, <1>2 DEF OneInv, CallInv
<1>5. ReplyOf(c)' = ReplyOf(c) /\ ServedOf(c) = {} /\ ServedOf(c)' = {sndMsg'[c]}
  BY <1>2 DEF ReplyOf, ServedOf, Executed
<1>6. /\ ServedBar' = [ServedBar EXCEPT ![c] = {sndMsg'[c]}] /\ ReplyBar' = ReplyBar
      /\ ServedBar[c] = {}
  BY <1>1, <1>5, SameBar DEF ReplyBar, ServedBar
<1>7. ~RR!Rejects(req[c]) /\ sndMsg'[c] \in RR!Responses(req[c])
  BY <1>2, <1>3, SameMessages
<1> QED BY <1>2, <1>4, <1>6, <1>7 DEF RR!Execute, RR!clientVars

\* sendReq returns the response of the execution.
LEMMA WaitReturnsRefines ==
    ASSUME IInv, NEW c \in Client, WaitReturns(c)
    PROVE  RR!Return(c)
<1>1. TypeOK /\ OneInv(c)' /\ \A d \in Client : d # c => Same(d)
  BY OthersSame, IInvSplit, WaitReturnsInv DEF ClientStep
<1>2. /\ pc[c] = "send" /\ pc' = [pc EXCEPT ![c] = "check"] /\ pc'[c] = "check"
      /\ ops' = ops /\ req' = req /\ reply' = reply
      /\ svc[c] = "returned" /\ svc' = svc /\ sndMsg' = sndMsg
  BY <1>1 DEF WaitReturns, SendReqReturns, TypeOK, ClientTypeOK
<1>3. reply[c] = sndMsg[c]
  BY <1>1, <1>2 DEF OneInv
<1>4. ReplyOf(c)' = sndMsg[c] /\ ServedOf(c) = {sndMsg[c]} /\ ServedOf(c)' = ServedOf(c)
  BY <1>2, <1>3 DEF ReplyOf, ServedOf, Executed
<1>5. /\ ReplyBar' = [ReplyBar EXCEPT ![c] = sndMsg[c]]
      /\ ServedBar' = ServedBar /\ sndMsg[c] \in ServedBar[c]
  BY <1>1, <1>4, SameBar DEF ReplyBar, ServedBar
<1> QED BY <1>2, <1>5 DEF RR!Return, RR!SendReqReturns

\* sendReq throws, the check and the end of a run: the client's own steps.
LEMMA ClientEndRefines ==
    ASSUME IInv, NEW c \in Client,
           FillFails(c) \/ WaitThrows(c) \/ Check(c) \/ End(c)
    PROVE  RR!FillFails(c) \/ RR!Fail(c) \/ RR!Check(c) \/ RR!End(c)
<1>1. TypeOK /\ \A d \in Client : d # c => Same(d)
  BY OthersSame DEF IInv, ClientStep
<1>2. /\ req' = req /\ reply' = reply /\ svc' = svc /\ sndMsg' = sndMsg
      /\ pc'[c] \in {"send", "send_failed"} <=> pc[c] \in {"send", "send_failed"}
  BY <1>1
  DEF FillFails, FillThrows, WaitThrows, SendReqThrows, Check, CheckReply, End,
      Pass, TypeOK, ClientTypeOK, callVars
<1>3. ReplyOf(c)' = ReplyOf(c) /\ ServedOf(c)' = ServedOf(c)
  BY <1>2 DEF ReplyOf, ServedOf
<1>4. ReplyBar' = ReplyBar /\ ServedBar' = ServedBar
  BY <1>1, <1>3, SameBar DEF ReplyBar, ServedBar
<1>5. pc[c] = "check" => ReplyBar[c] = reply[c]
  BY DEF ReplyBar, ReplyOf
<1>6. CASE WaitThrows(c)
  BY <1>4, <1>6 DEF WaitThrows, SendReqThrows, RR!Fail, RR!SendReqThrows
<1>7. CASE Check(c)
  BY <1>4, <1>5, <1>7, SameMessages DEF Check, CheckReply, RR!Check, RR!CheckReply
<1>8. CASE End(c)
  BY <1>4, <1>8 DEF End, Pass, RR!End, RR!Pass
<1>9. CASE FillFails(c)
  BY <1>4, <1>9, SameMessages DEF FillFails, FillThrows, RR!FillFails, RR!FillThrows
<1> QED BY <1>6, <1>7, <1>8, <1>9

\* The rest of a call is hidden: chunks, answers, and what is lost.
LEMMA CallRefines ==
    ASSUME IInv, NEW c \in Client,
           \/ SendRequestStream(c) \/ ReplyChunk(c) \/ ReplyDone(c)
           \/ ReqReply(c) \/ SendChunk(c) \/ SendReplyStream(c)
           \/ DoneReturns(c) \/ Cancel(c) \/ Break(c)
    PROVE  UNCHANGED RR!vars
<1>1. TypeOK /\ OneInv(c)
  BY IInvSplit
<1>2. /\ pc' = pc /\ ops' = ops /\ req' = req /\ sndMsg' = sndMsg
      /\ srv' = srv
  BY DEF SendRequestStream, ReplyChunk, ReplyDone, ReqReply, SendChunk,
         SendReplyStream, DoneReturns, Cancel, Break, clientVars, callVars, serverVars
<1>3. \A d \in Client : d # c => Same(d)
  BY <1>1, <1>2, OthersSame DEF ClientStep, ServerStep, DoneAborts, Abort
<1>4. ReplyOf(c)' = ReplyOf(c)
  <2>1. reply' = reply \/ ReplyChunk(c)
    BY DEF SendRequestStream, ReplyDone, ReqReply, SendChunk, SendReplyStream,
           DoneReturns, Cancel, Break, clientVars
  <2>2. ReplyChunk(c) => pc[c] \in {"send", "send_failed"}
    BY <1>1 DEF ReplyChunk, OneInv, CallInv
  <2> QED BY <1>2, <2>1, <2>2 DEF ReplyOf
<1>5. svc'[c] \in Executed <=> svc[c] \in Executed
  BY <1>1
  DEF SendRequestStream, ReplyChunk, ReplyDone, ReqReply, SendChunk,
      SendReplyStream, DoneReturns, Cancel, Break, TypeOK, Executed, callVars
<1>6. ServedOf(c)' = ServedOf(c)
  BY <1>2, <1>5 DEF ServedOf
<1> QED BY <1>2, <1>3, <1>4, <1>6, SameBar, Stutter

\* So is the end of the server: what was executed stays so.
LEMMA CallsDieRefines ==
    ASSUME IInv, CallsDie
    PROVE  UNCHANGED RR!vars
<1>1. /\ pc' = pc /\ ops' = ops /\ req' = req /\ reply' = reply /\ sndMsg' = sndMsg
      /\ \A c \in Client :
            svc'[c] = IF svc[c] \in Executed THEN "lost" ELSE "cancelled"
  BY DEF CallsDie, clientVars
<1>2. \A c \in Client : ReplyOf(c)' = ReplyOf(c) /\ ServedOf(c)' = ServedOf(c)
  BY <1>1 DEF ReplyOf, ServedOf, Executed
<1> QED BY <1>1, <1>2, Stutter

\* Every step of the transport is a step of the service or a stutter.
LEMMA StepRefines == IInv /\ [Next]_vars => [RR!Next]_(RR!vars)
<1> SUFFICES ASSUME IInv, [Next]_vars PROVE RR!Next \/ UNCHANGED RR!vars
  OBVIOUS
<1>1. ASSUME NEW c \in Client, ClientStep(c)
      PROVE  RR!Next \/ UNCHANGED RR!vars
  BY <1>1, StartCallRefines, WaitReturnsRefines, ClientEndRefines, CallRefines
  DEF ClientStep, RR!Next
<1>2. ASSUME NEW c \in Client, ServerStep(c)
      PROVE  RR!Next \/ UNCHANGED RR!vars
  BY <1>2, DoneRefines, CallRefines, CallsDieRefines
  DEF ServerStep, DoneAborts, RR!Next
<1>3. ASSUME UNCHANGED <<clientVars, callVars>>
      PROVE  UNCHANGED RR!vars
  BY <1>3, Stutter DEF clientVars, callVars, ReplyOf, ServedOf
<1>4. ServerStart \/ AllEnded \/ UNCHANGED vars => UNCHANGED <<clientVars, callVars>>
  BY DEF ServerStart, AllEnded, vars
<1> QED
  BY <1>1, <1>2, <1>3, <1>4, CallRefines, CallsDieRefines DEF Next, ServerExit

\* The Cap'n Proto transport implements the abstract request/reply service: at
\* most one execution of each request, and no reply but that execution's
\* response, although the calls of an exchange are pipelined.
THEOREM Refinement == Spec => ImplementsReqReply
<1>1. Init => RR!Init
  BY InitRefines
<1>2. IInv /\ [Next]_vars => [RR!Next]_(RR!vars)
  BY StepRefines
<1> QED BY <1>1, <1>2, Invariance, PTL DEF Spec, ImplementsReqReply, RR!Spec

=============================================================================
