------------------------ MODULE FlatbuffersTransport -------------------------
(***************************************************************************)
(* rt_client and rt_server over the FlatBuffers transport.  It makes the   *)
(* same gRPC calls as GrpcTransport, in the same order, but the messages   *)
(* are built in a FlatBuffers builder: sendReq has one for all messages of *)
(* its request, and a handler has one for all messages of its response.    *)
(* Building a message and handing it to gRPC are two steps here, and what  *)
(* is handed over is what the builder has in it.                           *)
(*                                                                         *)
(* ReleaseMessage detaches the memory from the builder and resets it; this *)
(* is what the code relies on to begin every message afresh.               *)
(***************************************************************************)
EXTENDS GrpcTransport

VARIABLES
    mb,     \* the builder of each client's sendReq
    mbRsp   \* the builder of the handler of each client's call

builders == <<mb, mbRsp>>
fbVars == <<vars, builders>>

\* A builder: the buffers copied into it, and whether Finish was called.
NewBuilder == [bufs |-> <<>>, finished |-> FALSE]

\* CreateString, CreateMsg and Finish: one more buffer, which is the root.
Built(b, buf) == [bufs |-> Append(b.bufs, buf), finished |-> TRUE]

\* What the receiver's GetRoot finds in the message.
Root(b) == b.bufs[Len(b.bufs)]

FbInit ==
    /\ Init
    /\ mb = [c \in Client |-> NewBuilder]
    /\ mbRsp = [c \in Client |-> NewBuilder]

-----------------------------------------------------------------------------
(* FlatbuffersClient::sendReq                                              *)

\* A new sendReq, and for its call a new handler, have new builders.
FbStartCall(c) ==
    /\ StartCall(c)
    /\ mb' = [mb EXCEPT ![c] = NewBuilder]
    /\ mbRsp' = [mbRsp EXCEPT ![c] = NewBuilder]

\* The next buffer of the request is copied into the builder.
BuildReq(c) ==
    /\ stage[c] = "writing"
    /\ link[c] # "broken"
    /\ ~mb[c].finished
    /\ Len(c2s[c]) < Len(req[c])
    /\ mb' = [mb EXCEPT ![c] = Built(@, req[c][Len(c2s[c]) + 1])]
    /\ UNCHANGED <<vars, mbRsp>>

\* Seeded bug: GetMessage instead of ReleaseMessage, the builder keeps it all.
WriteReqKept(c) ==
    /\ stage[c] = "writing"
    /\ link[c] # "broken"
    /\ mb[c].finished
    /\ Len(c2s[c]) - Len(rcvMsg[c]) < Window
    /\ c2s' = [c2s EXCEPT ![c] = Append(@, Root(mb[c]))]
    /\ mb' = [mb EXCEPT ![c].finished = FALSE]
    /\ UNCHANGED <<clientVars, serverVars, stage, link, handlerVars, s2c, mbRsp>>

\* stream->Write of the message released from the builder.
WriteReq(c) ==
    /\ stage[c] = "writing"
    /\ link[c] # "broken"
    /\ mb[c].finished
    /\ Len(c2s[c]) - Len(rcvMsg[c]) < Window
    /\ c2s' = [c2s EXCEPT ![c] = Append(@, Root(mb[c]))]
    /\ mb' = [mb EXCEPT ![c] = NewBuilder]
    /\ UNCHANGED <<clientVars, serverVars, stage, link, handlerVars, s2c, mbRsp>>

-----------------------------------------------------------------------------
(* ReqReplyServiceImpl::ReqReply                                           *)

\* Seeded bug: the buffer before the next one is built again.
BuildRspBehind(c) ==
    /\ h[c] = "writing"
    /\ link[c] # "broken"
    /\ ~mbRsp[c].finished
    /\ Len(s2c[c]) < Len(sndMsg[c])
    /\ mbRsp' = [mbRsp EXCEPT ![c] =
                   Built(@, sndMsg[c][IF s2c[c] = <<>> THEN 1 ELSE Len(s2c[c])])]
    /\ UNCHANGED <<vars, mb>>

\* The next buffer of the response is copied into the handler's builder.
BuildRsp(c) ==
    /\ h[c] = "writing"
    /\ link[c] # "broken"
    /\ ~mbRsp[c].finished
    /\ Len(s2c[c]) < Len(sndMsg[c])
    /\ mbRsp' = [mbRsp EXCEPT ![c] = Built(@, sndMsg[c][Len(s2c[c]) + 1])]
    /\ UNCHANGED <<vars, mb>>

\* stream->Write of the message released from the handler's builder.
WriteRsp(c) ==
    /\ h[c] = "writing"
    /\ link[c] # "broken"
    /\ mbRsp[c].finished
    /\ Len(s2c[c]) - Len(reply[c]) < Window
    /\ s2c' = [s2c EXCEPT ![c] = Append(@, Root(mbRsp[c]))]
    /\ mbRsp' = [mbRsp EXCEPT ![c] = NewBuilder]
    /\ UNCHANGED <<clientVars, serverVars, stage, link, c2s, handlerVars, mb>>

-----------------------------------------------------------------------------
(* Everything but the writing is as in GrpcTransport.                      *)

FbClientStep(c) ==
    \/ FbStartCall(c) \/ BuildReq(c) \/ WriteReq(c)
    \/ /\ \/ FillFails(c) \/ WritesDone(c) \/ WritesDropped(c) \/ Read(c)
          \/ FinishOK(c) \/ FinishError(c) \/ Check(c) \/ End(c)
       /\ UNCHANGED builders

FbHandlerStep(c) ==
    \/ BuildRsp(c) \/ WriteRsp(c)
    \/ /\ \/ HandlerStart(c) \/ HandlerDrop(c) \/ HandlerRead(c)
          \/ HandlerServe(c) \/ HandlerAbort(c) \/ HandlerReturn(c)
       /\ UNCHANGED builders

FbEnvironment ==
    /\ \/ \E c \in Client : Break(c) \/ Stall(c)
       \/ ServerStart \/ ServerExit \/ AllEnded
    /\ UNCHANGED builders

FbNext ==
    \/ \E c \in Client : FbClientStep(c) \/ FbHandlerStep(c)
    \/ FbEnvironment

FbSpec == FbInit /\ [][FbNext]_fbVars

\* The threads of both programs run.
FbFairSpec ==
    FbSpec /\ \A c \in Client : WF_fbVars(FbClientStep(c)) /\ WF_fbVars(FbHandlerStep(c))

-----------------------------------------------------------------------------
(* Properties                                                              *)

\* A message has in it the buffer it is for and nothing else, although all
\* messages of a request, and all of a response, are built in one builder.
EachMessageAlone ==
    \A c \in Client :
        /\ \/ mb[c] = NewBuilder
           \/ /\ Len(c2s[c]) < Len(req[c])
              /\ mb[c] = [bufs |-> <<req[c][Len(c2s[c]) + 1]>>, finished |-> TRUE]
        /\ \/ mbRsp[c] = NewBuilder
           \/ /\ Len(s2c[c]) < Len(sndMsg[c])
              /\ mbRsp[c] = [bufs |-> <<sndMsg[c][Len(s2c[c]) + 1]>>, finished |-> TRUE]

\* But for its builders the transport behaves as the gRPC transport does, so
\* all that is proved of that holds of this.
ImplementsGrpc == Spec

-----------------------------------------------------------------------------
(* The inductive invariant behind them                                     *)

FbTypeOK == DOMAIN mb = Client /\ DOMAIN mbRsp = Client

\* A handler that writes nothing yet has nothing in its builder.
BuilderInv ==
    \A c \in Client : h[c] \notin {"writing", "done"} => mbRsp[c] = NewBuilder

FbIInv == IInv /\ FbTypeOK /\ BuilderInv /\ EachMessageAlone

=============================================================================
