---------------------------- MODULE GrpcTransport ----------------------------
(***************************************************************************)
(* rt_client and rt_server over the gRPC transport.  One sendReq is one    *)
(* bidirectional streaming call: the client writes the buffers of its      *)
(* request, half-closes, reads the buffers of the reply and takes the      *)
(* status; on the server a thread per call reads until the stream ends,    *)
(* calls the registered function on what it has, and writes the response.  *)
(*                                                                         *)
(* Neither side looks at the result of a Write, and the server's Read      *)
(* loop ends in the same way on a half-close and on a broken stream: what  *)
(* protects a client from a truncated exchange is only the final status.   *)
(*                                                                         *)
(* gRPC itself is modelled by what the code relies on: a call's messages   *)
(* arrive in order, a Write waits while Window messages are unread, and    *)
(* the status is OK only if the handler returned and everything it wrote   *)
(* was delivered.  c2s and s2c hold everything written to a call; how much *)
(* the other side has read of it is the length of what it has received.    *)
(***************************************************************************)
EXTENDS RtClient, RtServer, SequencesExt

CONSTANTS
    Window,     \* messages in flight before a Write waits
    Stalls      \* whether a stream can go silent without breaking

ASSUME GrpcAssumption ==
    /\ Window \in Nat \ {0}
    /\ Stalls \in BOOLEAN

VARIABLES
    stage,  \* where each client is in sendReq
    link,   \* the state of each client's current stream
    c2s,    \* the messages each client wrote to its stream
    h,      \* where the handler of each client's call is
    fn,     \* the callback the handler took from getRcvFn
    rcvMsg, \* the request as the handler has read it
    sndMsg, \* the response as ServerRcvFn made it
    s2c     \* the messages the handler wrote to the stream

handlerVars == <<h, fn, rcvMsg, sndMsg>>
callVars == <<stage, link, c2s, handlerVars, s2c>>
vars == <<clientVars, serverVars, callVars>>

TypeOK ==
    /\ ClientTypeOK
    /\ ServerTypeOK
    /\ stage \in [Client -> {"idle", "writing", "reading", "dropped"}]
    /\ link \in [Client -> {"none", "open", "stalled", "broken"}]
    /\ c2s \in [Client -> Msg]
    /\ h \in [Client -> {"none", "pending", "reading", "writing", "done"}]
    /\ fn \in [Client -> RcvFns]
    /\ rcvMsg \in [Client -> Msg]
    /\ sndMsg \in [Client -> Msg]
    /\ s2c \in [Client -> Msg]

Init ==
    /\ ClientInit
    /\ ServerInit
    /\ stage = [c \in Client |-> "idle"]
    /\ link = [c \in Client |-> "none"]
    /\ c2s = [c \in Client |-> <<>>]
    /\ h = [c \in Client |-> "none"]
    /\ fn = [c \in Client |-> "null"]
    /\ rcvMsg = [c \in Client |-> <<>>]
    /\ sndMsg = [c \in Client |-> <<>>]
    /\ s2c = [c \in Client |-> <<>>]

-----------------------------------------------------------------------------
(* GrpcClient::sendReq                                                     *)

\* The request is filled and the stream created: a new call on the server
\* if one is listening, a stream that has failed already otherwise.
StartCall(c) ==
    /\ FillRequest(c)
    /\ stage' = [stage EXCEPT ![c] = "writing"]
    /\ \/ /\ srv = "up"
          /\ link' = [link EXCEPT ![c] = "open"]
          /\ h' = [h EXCEPT ![c] = "pending"]
       \/ /\ srv # "up"
          /\ link' = [link EXCEPT ![c] = "broken"]
          /\ h' = [h EXCEPT ![c] = "none"]
    /\ c2s' = [c2s EXCEPT ![c] = <<>>]
    /\ fn' = [fn EXCEPT ![c] = "null"]
    /\ rcvMsg' = [rcvMsg EXCEPT ![c] = <<>>]
    /\ sndMsg' = [sndMsg EXCEPT ![c] = <<>>]
    /\ s2c' = [s2c EXCEPT ![c] = <<>>]
    /\ UNCHANGED serverVars

\* The request cannot be filled.
FillFails(c) == FillThrows(c) /\ UNCHANGED <<serverVars, callVars>>

\* stream->Write of the next buffer of the request.
Write(c) ==
    /\ stage[c] = "writing"
    /\ link[c] # "broken"
    /\ Len(c2s[c]) < Len(req[c])
    /\ Len(c2s[c]) - Len(rcvMsg[c]) < Window
    /\ c2s' = [c2s EXCEPT ![c] = Append(@, req[c][Len(@) + 1])]
    /\ UNCHANGED <<clientVars, serverVars, stage, link, handlerVars, s2c>>

\* Seeded bug: sendReq goes on to read without WritesDone.
WritesDoneOmitted(c) ==
    /\ stage[c] = "writing"
    /\ link[c] # "broken"
    /\ Len(c2s[c]) = Len(req[c])
    /\ stage' = [stage EXCEPT ![c] = "dropped"]
    /\ UNCHANGED <<clientVars, serverVars, link, c2s, handlerVars, s2c>>

\* stream->WritesDone after the last buffer.
WritesDone(c) ==
    /\ stage[c] = "writing"
    /\ link[c] # "broken"
    /\ Len(c2s[c]) = Len(req[c])
    /\ stage' = [stage EXCEPT ![c] = "reading"]
    /\ UNCHANGED <<clientVars, serverVars, link, c2s, handlerVars, s2c>>

\* Seeded bug: a Write that fails is tried again, for ever.
WritesRetried(c) ==
    /\ stage[c] = "writing"
    /\ link[c] = "broken"
    /\ UNCHANGED vars

\* On a broken stream the remaining Writes and the WritesDone fail; their
\* results are ignored and sendReq goes on to its Read loop.
WritesDropped(c) ==
    /\ stage[c] = "writing"
    /\ link[c] = "broken"
    /\ stage' = [stage EXCEPT ![c] = "dropped"]
    /\ UNCHANGED <<clientVars, serverVars, link, c2s, handlerVars, s2c>>

\* stream->Read returns a message. Those that had arrived can still be read
\* from a stream that has broken.
Read(c) ==
    /\ stage[c] = "reading"
    /\ link[c] \in {"open", "broken"}
    /\ Len(reply[c]) < Len(s2c[c])
    /\ reply' = [reply EXCEPT ![c] = Append(@, s2c[c][Len(@) + 1])]
    /\ UNCHANGED <<pc, ops, req, serverVars, callVars>>

\* Seeded bug: the end of the Read loop is taken for success.
FinishUnchecked(c) ==
    /\ stage[c] = "reading"
    /\ link[c] \in {"open", "broken"}
    /\ link[c] = "open" => h[c] = "done" /\ Len(reply[c]) = Len(s2c[c])
    /\ SendReqReturns(c)
    /\ stage' = [stage EXCEPT ![c] = "idle"]
    /\ link' = [link EXCEPT ![c] = "none"]
    /\ UNCHANGED <<reply, serverVars, c2s, handlerVars, s2c>>

\* Read returns false and Finish returns OK.
FinishOK(c) ==
    /\ stage[c] = "reading"
    /\ link[c] = "open"
    /\ h[c] = "done"
    /\ Len(reply[c]) = Len(s2c[c])
    /\ SendReqReturns(c)
    /\ stage' = [stage EXCEPT ![c] = "idle"]
    /\ link' = [link EXCEPT ![c] = "none"]
    /\ UNCHANGED <<reply, serverVars, c2s, handlerVars, s2c>>

\* Seeded bug: the error status is logged and sendReq returns.
FinishErrorSwallowed(c) ==
    /\ stage[c] \in {"reading", "dropped"}
    /\ link[c] = "broken"
    /\ SendReqReturns(c)
    /\ stage' = [stage EXCEPT ![c] = "idle"]
    /\ UNCHANGED <<reply, serverVars, link, c2s, handlerVars, s2c>>

\* Read returns false and Finish an error: "send failed".
FinishError(c) ==
    /\ stage[c] \in {"reading", "dropped"}
    /\ link[c] = "broken"
    /\ SendReqThrows(c)
    /\ stage' = [stage EXCEPT ![c] = "idle"]
    /\ UNCHANGED <<serverVars, link, c2s, handlerVars, s2c>>

Check(c) == CheckReply(c) /\ UNCHANGED <<serverVars, callVars>>

End(c) == Pass(c) /\ UNCHANGED <<serverVars, callVars>>

-----------------------------------------------------------------------------
(* ReqReplyServiceImpl::ReqReply, one thread per call                      *)

\* The handler is entered and takes the registered callback.
HandlerStart(c) ==
    /\ srv = "up"
    /\ h[c] = "pending"
    /\ h' = [h EXCEPT ![c] = "reading"]
    /\ fn' = [fn EXCEPT ![c] = rcvFn]
    /\ UNCHANGED <<clientVars, serverVars, stage, link, c2s, rcvMsg, sndMsg, s2c>>

\* The stream of a call broke before its handler was entered.
HandlerDrop(c) ==
    /\ h[c] = "pending"
    /\ link[c] = "broken"
    /\ h' = [h EXCEPT ![c] = "none"]
    /\ UNCHANGED <<clientVars, serverVars, stage, link, c2s, fn, rcvMsg, sndMsg, s2c>>

\* stream->Read returns a message.
HandlerRead(c) ==
    /\ h[c] = "reading"
    /\ link[c] \in {"open", "broken"}
    /\ Len(rcvMsg[c]) < Len(c2s[c])
    /\ rcvMsg' = [rcvMsg EXCEPT ![c] = Append(@, c2s[c][Len(@) + 1])]
    /\ UNCHANGED <<clientVars, serverVars, stage, link, c2s, h, fn, sndMsg, s2c>>

\* Seeded bug: an empty stream is taken for the end of the request.
ReadEndsEarly(c) ==
    \/ Len(rcvMsg[c]) = Len(c2s[c])
    \/ link[c] = "broken"

\* stream->Read returns false: the client half-closed and everything was
\* read, or the stream broke, with any part of the request read.
ReadEnds(c) ==
    \/ stage[c] = "reading" /\ Len(rcvMsg[c]) = Len(c2s[c])
    \/ link[c] = "broken"

\* The end of the server process breaks the streams it had; a response that
\* was made stays made, every other call is forgotten.
CallsDie ==
    /\ link' = [c \in Client |-> IF link[c] = "open" THEN "broken" ELSE link[c]]
    /\ h' = [c \in Client |-> IF h[c] \in {"writing", "done"} THEN "done" ELSE "none"]
    /\ UNCHANGED <<clientVars, stage, c2s, fn, rcvMsg, sndMsg, s2c>>

\* The handler calls the callback on what it has read.
HandlerServe(c) ==
    /\ h[c] = "reading"
    /\ ReadEnds(c)
    /\ fn[c] = "ServerRcvFn"
    /\ ~Rejects(rcvMsg[c])
    /\ \E rsp \in Responses(rcvMsg[c]) : sndMsg' = [sndMsg EXCEPT ![c] = rsp]
    /\ h' = [h EXCEPT ![c] = "writing"]
    /\ UNCHANGED <<clientVars, serverVars, stage, link, c2s, fn, rcvMsg, s2c>>

\* The callback throws, or is empty: the handler aborts the whole server.
HandlerAbort(c) ==
    /\ h[c] = "reading"
    /\ ReadEnds(c)
    /\ fn[c] = "null" \/ MayReject(rcvMsg[c])
    /\ Abort
    /\ CallsDie

\* stream->Write of the next buffer of the response.
HandlerWrite(c) ==
    /\ h[c] = "writing"
    /\ link[c] # "broken"
    /\ Len(s2c[c]) < Len(sndMsg[c])
    /\ Len(s2c[c]) - Len(reply[c]) < Window
    /\ s2c' = [s2c EXCEPT ![c] = Append(@, sndMsg[c][Len(@) + 1])]
    /\ UNCHANGED <<clientVars, serverVars, stage, link, c2s, handlerVars>>

\* The handler returns OK after its last Write. On a broken stream the
\* remaining Writes fail, which it does not notice.
HandlerReturn(c) ==
    /\ h[c] = "writing"
    /\ Len(s2c[c]) = Len(sndMsg[c]) \/ link[c] = "broken"
    /\ h' = [h EXCEPT ![c] = "done"]
    /\ UNCHANGED <<clientVars, serverVars, stage, link, c2s, fn, rcvMsg, sndMsg, s2c>>

-----------------------------------------------------------------------------
(* The environment: streams and the server process                         *)

\* The connection is lost, or the client's process dies.
Break(c) ==
    /\ pc[c] = "send"
    /\ link[c] = "open"
    /\ link' = [link EXCEPT ![c] = "broken"]
    /\ UNCHANGED <<clientVars, serverVars, stage, c2s, handlerVars, s2c>>

\* The network goes silent: nothing arrives any more and nothing fails. The
\* 10 s sendReq sets as a deadline do not end the call: they are set on a
\* context whose call was created before, without a deadline.
Stall(c) ==
    /\ Stalls
    /\ pc[c] = "send"
    /\ link[c] = "open"
    /\ link' = [link EXCEPT ![c] = "stalled"]
    /\ UNCHANGED <<clientVars, serverVars, stage, c2s, handlerVars, s2c>>

ServerStart == (Boot \/ SetRcvFn \/ Listen) /\ UNCHANGED <<clientVars, callVars>>

ServerExit == Exit /\ CallsDie

\* Every client has ended, or waits on a silent stream: only the server is left.
AllEnded ==
    /\ \A c \in Client : pc[c] \in Ended \/ link[c] = "stalled"
    /\ UNCHANGED vars

-----------------------------------------------------------------------------

ClientStep(c) ==
    \/ StartCall(c) \/ FillFails(c)
    \/ Write(c) \/ WritesDone(c) \/ WritesDropped(c)
    \/ Read(c) \/ FinishOK(c) \/ FinishError(c) \/ Check(c) \/ End(c)

HandlerStep(c) ==
    \/ HandlerStart(c) \/ HandlerDrop(c) \/ HandlerRead(c) \/ HandlerServe(c)
    \/ HandlerAbort(c) \/ HandlerWrite(c) \/ HandlerReturn(c)

Next ==
    \/ \E c \in Client :
           \/ ClientStep(c) \/ HandlerStep(c)
           \/ Break(c) \/ Stall(c)
    \/ ServerStart
    \/ ServerExit
    \/ AllEnded

Spec == Init /\ [][Next]_vars

\* The threads of both programs run. That a stream which is neither silent nor
\* broken delivers is part of their steps; nothing says that one does not go
\* silent, nor that a server is ever started.
Fairness ==
    \A c \in Client : WF_vars(ClientStep(c)) /\ WF_vars(HandlerStep(c))

FairSpec == Spec /\ Fairness

-----------------------------------------------------------------------------
(* Safety                                                                  *)

\* When sendReq has returned, the server executed exactly the request that
\* was sent and the reply is the response of that execution to the last
\* buffer, although no result of a Write was looked at on either side and
\* both Read loops take a broken stream for the end of the message.
CompleteReply ==
    \A c \in Client : pc[c] = "check" =>
        /\ rcvMsg[c] = req[c]
        /\ reply[c] = sndMsg[c]
        /\ ~Rejects(req[c]) /\ reply[c] \in Responses(req[c])

\* The checks on the reply never fail, whatever breaks or restarts, but for
\* a read of a negative number of blocks, whose reply has not even a header.
NoInvalidReply ==
    \A c \in Client :
        pc[c] = "invalid" => Workload[c] = "read" /\ BlockCount[c] < 0

\* ServerRcvFn may be run on part of a request (a write of fewer blocks than
\* its header says is not refused), but only when the stream broke, so that
\* the client is never told that it succeeded.
TruncatedOnlyIfBroken ==
    \A c \in Client :
        h[c] \in {"writing", "done"} /\ rcvMsg[c] # req[c] => link[c] = "broken"

\* One client's call takes the whole server down only if no buffer of it was
\* delivered, because its stream broke that early or because the request has
\* none, or if what was delivered asks the server for blocks that it cannot
\* make or has no memory for; never because the callback was not registered
\* yet, and never because the stream broke further on.
AbortsOnlyWithCause ==
    [][srv' = "aborted" /\ srv # "aborted" =>
        \E c \in Client :
            /\ h[c] = "reading" /\ fn[c] = "ServerRcvFn"
            /\ \/ rcvMsg[c] = <<>> /\ (link[c] = "broken" \/ req[c] = <<>>)
               \/ rcvMsg[c] # <<>> /\ AsksTooMuch(c)]_vars

\* What a client can see of its reply: nothing until sendReq has returned.
ReplyOf(c) == IF pc[c] \in {"send", "send_failed"} THEN <<>> ELSE reply[c]

\* The execution of a client's request. One on part of a request is none.
ServedOf(c) ==
    IF h[c] \in {"writing", "done"} /\ rcvMsg[c] = req[c] THEN {sndMsg[c]} ELSE {}

ReplyBar == [c \in Client |-> ReplyOf(c)]
ServedBar == [c \in Client |-> ServedOf(c)]

RR == INSTANCE ReqReply WITH reply <- ReplyBar, served <- ServedBar

\* The calls implement the abstract request/reply service: at most one
\* execution of a request, of the whole request, and a return only with
\* its response.
ImplementsReqReply == RR!Spec

-----------------------------------------------------------------------------
(* Liveness                                                                *)

\* Every client's run comes to an end: neither the write-all-then-read
\* order of both sides under flow control, nor a lost server or stream,
\* leaves a client waiting for ever. So it is where no stream goes silent.
EveryRunEnds == \A c \in Client : <>(pc[c] \in Ended)

\* Where streams can go silent only a client whose own stream did may wait for
\* ever: no other client's silence, and nothing the server makes of it, does.
EveryRunEndsUnlessSilent ==
    \A c \in Client : <>(pc[c] \in Ended \/ link[c] = "stalled")

-----------------------------------------------------------------------------
(* The inductive invariant behind the safety properties                    *)

\* The request of an operation is one its workload can fill.
RequestInv(c) ==
    req[c] = <<>> \/ req[c] \in Requests(c)

\* A server has its callback before it listens, and so has a handler that reads.
CallbackInv ==
    /\ srv \in {"configured", "up"} => rcvFn = "ServerRcvFn"
    /\ \A c \in Client : h[c] = "reading" => fn[c] = "ServerRcvFn"

\* A live stream belongs to a client inside sendReq; the handler of a call
\* that returned is over.
CallInv(c) ==
    /\ pc[c] = "send" <=> stage[c] # "idle"
    /\ link[c] \in {"open", "stalled"} => pc[c] = "send"
    /\ link[c] = "broken" => pc[c] \in {"send", "send_failed"}
    /\ pc[c] = "send" => link[c] # "none"
    /\ pc[c] = "check" => h[c] = "done"
    /\ link[c] = "none" => h[c] \in {"none", "done"}
    /\ pc[c] \in {"send", "check"} => ops[c] < OpCount[c]

\* What has been written to a stream, and read from it, are the beginnings
\* of what the writer has; the client half-closes behind the whole request.
StreamInv(c) ==
    /\ IsPrefix(c2s[c], req[c])
    /\ IsPrefix(rcvMsg[c], c2s[c])
    /\ IsPrefix(s2c[c], sndMsg[c])
    /\ IsPrefix(reply[c], s2c[c])
    /\ stage[c] = "reading" => c2s[c] = req[c]

\* A response was made from what the handler read, and from the whole
\* request unless the stream broke; nothing is written before it is made.
ServedInv(c) ==
    /\ h[c] \in {"none", "pending", "reading"} => s2c[c] = <<>>
    /\ h[c] \in {"writing", "done"} =>
        /\ ~Rejects(rcvMsg[c]) /\ sndMsg[c] \in Responses(rcvMsg[c])
        /\ rcvMsg[c] = req[c] \/ link[c] = "broken"
    /\ h[c] = "done" => s2c[c] = sndMsg[c] \/ link[c] \in {"stalled", "broken"}

IInv ==
    /\ TypeOK
    /\ CallbackInv
    /\ \A c \in Client :
          RequestInv(c) /\ CallInv(c) /\ StreamInv(c) /\ ServedInv(c)
    /\ CompleteReply
    /\ NoInvalidReply

=============================================================================
