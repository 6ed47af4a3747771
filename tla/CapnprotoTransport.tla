------------------------- MODULE CapnprotoTransport --------------------------
(***************************************************************************)
(* rt_client and rt_server over the Cap'n Proto transport.  A client has   *)
(* one connection for its whole run.  A sendReq asks the server for an     *)
(* object that collects a request (reqReply), streams the buffers to it    *)
(* (sendChunk) and says that they are all there (done), handing over an    *)
(* object of its own that collects the reply in the same way.  The calls   *)
(* are pipelined: none but the last is waited for.                         *)
(*                                                                         *)
(* The server is one thread that runs one callback at a time; what is      *)
(* interleaved are the callbacks of the clients' calls.  A lost connection *)
(* makes every call on it fail, for ever: it is not made again.            *)
(*                                                                         *)
(* Cap'n Proto itself is modelled by what the code relies on: the calls on *)
(* an object arrive in order, and the promise of a streaming call resolves *)
(* while less than Window chunks are unanswered.                           *)
(***************************************************************************)
EXTENDS RtClient, RtServer, SequencesExt

CONSTANT Window     \* chunks unanswered before the next one waits

ASSUME CapnpAssumption == Window \in Nat \ {0}

VARIABLES
    stage,  \* how far each client got in sendRequestStream
    conn,   \* each client's connection, made by its first call
    c2s,    \* the chunks of the current request that were sent
    svc,    \* the server's ReqSvcImpl of each client's current call
    rcvMsg, \* ReqSvcImpl::_rcvMsg
    sndMsg, \* ReqSvcImpl::_sndMsg
    s2c     \* the chunks of the reply that were sent

callVars == <<stage, conn, c2s, svc, rcvMsg, sndMsg, s2c>>
vars == <<clientVars, serverVars, callVars>>

\* The states of a call whose request ServerRcvFn has executed.
Executed == {"replying", "finishing", "finished", "returned", "lost"}

TypeOK ==
    /\ ClientTypeOK
    /\ ServerTypeOK
    /\ stage \in [Client -> {"idle", "sending", "awaiting"}]
    /\ conn \in [Client -> {"none", "open", "broken"}]
    /\ c2s \in [Client -> Msg]
    /\ svc \in [Client -> {"none", "collecting", "cancelled"} \cup Executed]
    /\ rcvMsg \in [Client -> Msg]
    /\ sndMsg \in [Client -> Msg]
    /\ s2c \in [Client -> Msg]

Init ==
    /\ ClientInit
    /\ ServerInit
    /\ stage = [c \in Client |-> "idle"]
    /\ conn = [c \in Client |-> "none"]
    /\ c2s = [c \in Client |-> <<>>]
    /\ svc = [c \in Client |-> "none"]
    /\ rcvMsg = [c \in Client |-> <<>>]
    /\ sndMsg = [c \in Client |-> <<>>]
    /\ s2c = [c \in Client |-> <<>>]

\* What sendRequestStream and sendReplyStream do in one go for a message of
\* which sent has been sent: the next chunk, if there is one.
NextChunk(msg, sent) ==
    IF Len(sent) < Len(msg) THEN Append(sent, msg[Len(sent) + 1]) ELSE sent

-----------------------------------------------------------------------------
(* CapnprotoClient::sendReq                                                *)

\* The request is filled, reqReply called and the first chunk sent, or done
\* called at once if there is none. The first call connects.
StartCall(c) ==
    /\ FillRequest(c)
    /\ conn' = [conn EXCEPT ![c] =
                  IF @ = "none" THEN IF srv = "up" THEN "open" ELSE "broken"
                                ELSE @]
    /\ svc' = [svc EXCEPT ![c] = IF conn'[c] = "open" THEN "none" ELSE "cancelled"]
    /\ c2s' = [c2s EXCEPT ![c] = NextChunk(req'[c], <<>>)]
    /\ stage' = [stage EXCEPT ![c] =
                   IF req'[c] = <<>> THEN "awaiting" ELSE "sending"]
    /\ rcvMsg' = [rcvMsg EXCEPT ![c] = <<>>]
    /\ sndMsg' = [sndMsg EXCEPT ![c] = <<>>]
    /\ s2c' = [s2c EXCEPT ![c] = <<>>]
    /\ UNCHANGED serverVars

\* The request cannot be filled.
FillFails(c) == FillThrows(c) /\ UNCHANGED <<serverVars, callVars>>

\* The promise of the last chunk resolves: the next chunk, or done.
SendRequestStream(c) ==
    /\ stage[c] = "sending"
    /\ conn[c] = "open"
    /\ Len(c2s[c]) - Len(rcvMsg[c]) < Window
    /\ c2s' = [c2s EXCEPT ![c] = NextChunk(req[c], @)]
    /\ stage' = [stage EXCEPT ![c] =
                   IF Len(c2s[c]) = Len(req[c]) THEN "awaiting" ELSE @]
    /\ UNCHANGED <<clientVars, serverVars, conn, svc, rcvMsg, sndMsg, s2c>>

\* ReplySvcImpl::sendChunk: a chunk of the reply arrives.
ReplyChunk(c) ==
    /\ stage[c] = "awaiting"
    /\ conn[c] = "open"
    /\ Len(reply[c]) < Len(s2c[c])
    /\ reply' = [reply EXCEPT ![c] = Append(@, s2c[c][Len(@) + 1])]
    /\ UNCHANGED <<pc, ops, req, serverVars, callVars>>

\* ReplySvcImpl::done: arrives behind the chunks and is answered.
ReplyDone(c) ==
    /\ stage[c] = "awaiting"
    /\ conn[c] = "open"
    /\ svc[c] = "finishing"
    /\ Len(reply[c]) = Len(s2c[c])
    /\ svc' = [svc EXCEPT ![c] = "finished"]
    /\ UNCHANGED <<clientVars, serverVars, stage, conn, c2s, rcvMsg, sndMsg, s2c>>

\* The promise of done resolves, and promise.wait returns.
WaitReturns(c) ==
    /\ stage[c] = "awaiting"
    /\ conn[c] = "open"
    /\ svc[c] = "returned"
    /\ SendReqReturns(c)
    /\ stage' = [stage EXCEPT ![c] = "idle"]
    /\ UNCHANGED <<reply, serverVars, conn, c2s, svc, rcvMsg, sndMsg, s2c>>

\* Seeded bug: the rejection is caught and logged, and sendReq returns.
WaitThrowsSwallowed(c) ==
    /\ conn[c] = "broken"
    /\ SendReqReturns(c)
    /\ UNCHANGED <<reply, serverVars, callVars>>

\* A promise of the chain is rejected, and promise.wait throws. What the
\* server has received of the call may still be executed.
WaitThrows(c) ==
    /\ conn[c] = "broken"
    /\ SendReqThrows(c)
    /\ UNCHANGED <<serverVars, callVars>>

Check(c) == CheckReply(c) /\ UNCHANGED <<serverVars, callVars>>

End(c) == Pass(c) /\ UNCHANGED <<serverVars, callVars>>

-----------------------------------------------------------------------------
(* The server's callbacks. Those for what had arrived can still run after  *)
(* the connection was lost.                                                *)

\* StreamServiceImpl::reqReply: a new ReqSvcImpl.
ReqReply(c) ==
    /\ conn[c] # "none"
    /\ svc[c] = "none"
    /\ svc' = [svc EXCEPT ![c] = "collecting"]
    /\ UNCHANGED <<clientVars, serverVars, stage, conn, c2s, rcvMsg, sndMsg, s2c>>

\* ReqSvcImpl::sendChunk.
SendChunk(c) ==
    /\ svc[c] = "collecting"
    /\ Len(rcvMsg[c]) < Len(c2s[c])
    /\ rcvMsg' = [rcvMsg EXCEPT ![c] = Append(@, c2s[c][Len(@) + 1])]
    /\ UNCHANGED <<clientVars, serverVars, stage, conn, c2s, svc, sndMsg, s2c>>

\* Seeded bug: done overtakes the chunks, whose promises nobody waited for.
DoneOvertakes(c) ==
    /\ svc[c] = "collecting"
    /\ stage[c] = "awaiting"

\* The client's done has been sent, and has arrived behind its chunks.
DoneArrives(c) ==
    /\ svc[c] = "collecting"
    /\ stage[c] = "awaiting"
    /\ rcvMsg[c] = c2s[c]

\* ReqSvcImpl::done: the callback is run on the request collected, and the
\* first chunk of the response sent, or done if it has none.
Done(c) ==
    /\ DoneArrives(c)
    /\ rcvFn = "ServerRcvFn"
    /\ ~Rejects(rcvMsg[c])
    /\ \E rsp \in Responses(rcvMsg[c]) :
          /\ sndMsg' = [sndMsg EXCEPT ![c] = rsp]
          /\ s2c' = [s2c EXCEPT ![c] = NextChunk(rsp, <<>>)]
          /\ svc' = [svc EXCEPT ![c] =
                       IF rsp = <<>> THEN "finishing" ELSE "replying"]
    /\ UNCHANGED <<clientVars, serverVars, stage, conn, c2s, rcvMsg>>

\* The end of the server process: its calls are gone and every connection lost.
CallsDie ==
    /\ conn' = [c \in Client |-> IF conn[c] = "open" THEN "broken" ELSE conn[c]]
    /\ svc' = [c \in Client |-> IF svc[c] \in Executed THEN "lost" ELSE "cancelled"]
    /\ UNCHANGED <<clientVars, stage, c2s, rcvMsg, sndMsg, s2c>>

\* ReqSvcImpl::done when the callback throws or is empty: std::abort.
DoneAborts(c) ==
    /\ DoneArrives(c)
    /\ rcvFn = "null" \/ MayReject(rcvMsg[c])
    /\ Abort
    /\ CallsDie

\* Seeded bug: bufIdx + 1 is compared with the number of buffers.
SendReplyStreamShort(c) ==
    /\ svc[c] = "replying"
    /\ conn[c] = "open"
    /\ Len(s2c[c]) - Len(reply[c]) < Window
    /\ IF Len(s2c[c]) + 1 >= Len(sndMsg[c])
       THEN svc' = [svc EXCEPT ![c] = "finishing"] /\ UNCHANGED s2c
       ELSE s2c' = [s2c EXCEPT ![c] = NextChunk(sndMsg[c], @)] /\ UNCHANGED svc
    /\ UNCHANGED <<clientVars, serverVars, stage, conn, c2s, rcvMsg, sndMsg>>

\* Seeded bug: the stream ends without the reply's done.
SendReplyStreamEndless(c) ==
    /\ svc[c] = "replying"
    /\ conn[c] = "open"
    /\ Len(s2c[c]) - Len(reply[c]) < Window
    /\ s2c' = [s2c EXCEPT ![c] = NextChunk(sndMsg[c], @)]
    /\ UNCHANGED <<clientVars, serverVars, stage, conn, c2s, svc, rcvMsg, sndMsg>>

\* The promise of the last chunk resolves: the next chunk, or done.
SendReplyStream(c) ==
    /\ svc[c] = "replying"
    /\ conn[c] = "open"
    /\ Len(s2c[c]) - Len(reply[c]) < Window
    /\ s2c' = [s2c EXCEPT ![c] = NextChunk(sndMsg[c], @)]
    /\ svc' = [svc EXCEPT ![c] =
                 IF Len(s2c[c]) = Len(sndMsg[c]) THEN "finishing" ELSE @]
    /\ UNCHANGED <<clientVars, serverVars, stage, conn, c2s, rcvMsg, sndMsg>>

\* The reply's done was answered: the call of ReqSvcImpl::done returns.
DoneReturns(c) ==
    /\ svc[c] = "finished"
    /\ conn[c] = "open"
    /\ svc' = [svc EXCEPT ![c] = "returned"]
    /\ UNCHANGED <<clientVars, serverVars, stage, conn, c2s, rcvMsg, sndMsg, s2c>>

\* The server sees that the connection is lost: it drops the objects and the
\* promises of the call.
Cancel(c) ==
    /\ conn[c] = "broken"
    /\ svc[c] \notin {"cancelled", "lost"}
    /\ svc' = [svc EXCEPT ![c] = IF @ \in Executed THEN "lost" ELSE "cancelled"]
    /\ UNCHANGED <<clientVars, serverVars, stage, conn, c2s, rcvMsg, sndMsg, s2c>>

-----------------------------------------------------------------------------
(* The environment                                                         *)

\* The connection is lost, between two calls or in the middle of one.
Break(c) ==
    /\ pc[c] \notin Ended
    /\ conn[c] = "open"
    /\ conn' = [conn EXCEPT ![c] = "broken"]
    /\ UNCHANGED <<clientVars, serverVars, stage, c2s, svc, rcvMsg, sndMsg, s2c>>

ServerStart == (Boot \/ SetRcvFn \/ Listen) /\ UNCHANGED <<clientVars, callVars>>

ServerExit == Exit /\ CallsDie

\* Every client has ended: only the server is left.
AllEnded == (\A c \in Client : pc[c] \in Ended) /\ UNCHANGED vars

-----------------------------------------------------------------------------

ClientStep(c) ==
    \/ StartCall(c) \/ FillFails(c)
    \/ SendRequestStream(c) \/ ReplyChunk(c) \/ ReplyDone(c)
    \/ WaitReturns(c) \/ WaitThrows(c) \/ Check(c) \/ End(c)

ServerStep(c) ==
    \/ ReqReply(c) \/ SendChunk(c) \/ Done(c) \/ DoneAborts(c)
    \/ SendReplyStream(c) \/ DoneReturns(c) \/ Cancel(c)

Next ==
    \/ \E c \in Client : ClientStep(c) \/ ServerStep(c) \/ Break(c)
    \/ ServerStart
    \/ ServerExit
    \/ AllEnded

Spec == Init /\ [][Next]_vars

\* Both event loops run the callbacks that are ready. The network delivers what
\* is written or breaks; it is not assumed that a server is ever started.
Fairness == \A c \in Client : WF_vars(ClientStep(c)) /\ WF_vars(ServerStep(c))

FairSpec == Spec /\ Fairness

-----------------------------------------------------------------------------
(* Safety                                                                  *)

\* When sendReq has returned, the reply is the whole response of the one
\* execution of the whole request, although the chunks were sent without
\* waiting for their answers.
CompleteReply ==
    \A c \in Client : pc[c] = "check" =>
        /\ rcvMsg[c] = req[c]
        /\ reply[c] = sndMsg[c]
        /\ ~Rejects(req[c]) /\ reply[c] \in Responses(req[c])

\* A request is executed as a whole or not at all, whenever the connection or
\* the client is lost: nothing but the client's done runs the callback.
NeverTruncated ==
    \A c \in Client : svc[c] \in Executed => rcvMsg[c] = req[c]

\* Only a request without any buffer, or one that asks for blocks the server
\* cannot make or has no memory for, takes the server down; no loss of a
\* connection does, and no order of the calls of several clients.
AbortsOnlyWithCause ==
    [][srv' = "aborted" /\ srv # "aborted" =>
        \E c \in Client :
            svc[c] = "collecting" /\ (req[c] = <<>> \/ AsksTooMuch(c))]_vars

\* What a client can see of its reply: nothing until sendReq has returned.
ReplyOf(c) == IF pc[c] \in {"send", "send_failed"} THEN <<>> ELSE reply[c]

\* The execution of a client's request.
ServedOf(c) == IF svc[c] \in Executed THEN {sndMsg[c]} ELSE {}

ReplyBar == [c \in Client |-> ReplyOf(c)]
ServedBar == [c \in Client |-> ServedOf(c)]

RR == INSTANCE ReqReply WITH reply <- ReplyBar, served <- ServedBar

\* The calls implement the abstract request/reply service: at most one
\* execution of a request, and a return only with its response.
ImplementsReqReply == RR!Spec

-----------------------------------------------------------------------------
(* Liveness                                                                *)

\* Every client's run comes to an end on a network that delivers what it is
\* given or breaks the connection: no two promise chains wait for each other.
EveryRunEnds == \A c \in Client : <>(pc[c] \in Ended)

-----------------------------------------------------------------------------
(* The inductive invariant behind the safety properties                    *)

\* The request of an operation is one its workload can fill.
RequestInv(c) ==
    req[c] = <<>> \/ req[c] \in Requests(c)

\* A server has its callback before it listens.
CallbackInv == srv \in {"configured", "up"} => rcvFn = "ServerRcvFn"

\* The call of a client whose sendReq returned is over at the server too; one
\* that is not is that of a client inside sendReq, or whose sendReq threw.
CallInv(c) ==
    /\ pc[c] = "check" => svc[c] \in {"returned", "lost"}
    /\ \/ stage[c] # "idle" \/ svc[c] = "collecting"
       \/ conn[c] # "none" /\ svc[c] = "none"
       => pc[c] \in {"send", "send_failed"}
    /\ pc[c] \in {"send", "check"} => ops[c] < OpCount[c]

\* What has been sent, and received of it, are the beginnings of what the
\* sender has; the client sends done behind the whole request.
StreamInv(c) ==
    /\ IsPrefix(c2s[c], req[c])
    /\ IsPrefix(rcvMsg[c], c2s[c])
    /\ IsPrefix(s2c[c], sndMsg[c])
    /\ IsPrefix(reply[c], s2c[c])
    /\ stage[c] = "awaiting" => c2s[c] = req[c]

\* A response is that to the whole request; the reply's done comes behind
\* the whole response, and is answered behind its last chunk.
ServedInv(c) ==
    /\ svc[c] \notin Executed => s2c[c] = <<>>
    /\ svc[c] \in Executed =>
        /\ rcvMsg[c] = req[c]
        /\ ~Rejects(rcvMsg[c]) /\ sndMsg[c] \in Responses(rcvMsg[c])
    /\ svc[c] \in {"finishing", "finished", "returned"} => s2c[c] = sndMsg[c]
    /\ svc[c] \in {"finished", "returned"} => reply[c] = s2c[c]

IInv ==
    /\ TypeOK
    /\ CallbackInv
    /\ \A c \in Client :
          RequestInv(c) /\ CallInv(c) /\ StreamInv(c) /\ ServedInv(c)
    /\ CompleteReply

=============================================================================
