-------------------------- MODULE RsocketTransport ---------------------------
(***************************************************************************)
(* rt_client and rt_server over the RSocket transport, as far as it is     *)
(* written.  sendReq opens a channel whose payloads, the buffers of the    *)
(* request, a worker thread sends on demand, and returns at once: it has   *)
(* only subscribed to the reply.  On the server the handler subscribes to  *)
(* the request, runs the callback on what the subscriber has collected by  *)
(* then, and returns a flow that will map the response.                    *)
(*                                                                         *)
(* Nothing closes a channel when its operation is over, and what is run    *)
(* for it then refers to objects that are gone: the locals of the handler, *)
(* the request and the reply of the loop's last round.  The client's       *)
(* lambda also dereferences a pointer it has moved away, each time.  All   *)
(* this is undefined: what a build does there is one of the end of the     *)
(* process and going on, with any data of Garbage where data is read, in   *)
(* the reply of the round now running or in none where data is written.    *)
(*                                                                         *)
(* RSocket itself is modelled by what the code relies on: the first        *)
(* payload opens the channel at the server, the others are sent only when  *)
(* the server asks for them, which it does while the handler subscribes,   *)
(* and a response is mapped after the handler.  Whether the first payload  *)
(* is part of the flow, or is only the initialPayload, which the code does *)
(* not use, is left open.                                                  *)
(***************************************************************************)
EXTENDS RtClient, RtServer, SequencesExt

CONSTANT Garbage    \* what can be read where an object was: any buffers

ASSUME GarbageAssumption == Garbage \subseteq Buf

VARIABLES
    link,   \* the connection of each client, made by its constructor
    chan    \* the channels of each client, one per operation begun

callVars == <<link, chan>>
vars == <<clientVars, serverVars, callVars>>

\* A channel: the length of the request flow, what was sent of it, whether the
\* handler has returned, the request as the callback got it, the payloads the
\* flow it returned has still to map, and those that are on the way.
Channel == [size : Nat, c2s : Msg, h : {"none", "returned"}, rcvMsg : Msg,
            left : Nat, s2c : Nat]

NewChannel(size) == [size |-> size, c2s |-> <<>>, h |-> "none", rcvMsg |-> <<>>,
                     left |-> 0, s2c |-> 0]

TypeOK ==
    /\ ClientTypeOK
    /\ ServerTypeOK
    /\ link \in [Client -> {"none", "open", "broken"}]
    /\ chan \in [Client -> Seq(Channel)]

Init ==
    /\ ClientInit
    /\ ServerInit
    /\ link = [c \in Client |-> "none"]
    /\ chan = [c \in Client |-> <<>>]

\* The request and the reply of a client's channel i still exist.
Current(c, i) == i = Len(chan[c]) /\ pc[c] \in {"send", "check"}

\* The program ends by a signal, or because something was thrown.
Dies(c) ==
    /\ pc' = [pc EXCEPT ![c] = "send_failed"]
    /\ UNCHANGED <<ops, req, reply>>

-----------------------------------------------------------------------------
(* The client                                                              *)

\* The constructor waits for the connection.
Connect(c) ==
    /\ pc[c] = "fill"
    /\ link[c] = "none"
    /\ srv = "up"
    /\ link' = [link EXCEPT ![c] = "open"]
    /\ UNCHANGED <<clientVars, serverVars, chan>>

\* There is no connection to be had: the constructor throws.
ConnectFails(c) ==
    /\ pc[c] = "fill"
    /\ link[c] = "none"
    /\ Dies(c)
    /\ UNCHANGED <<serverVars, callVars>>

\* A fresh request; sendReq subscribes to the reply of a new channel.
StartCall(c) ==
    /\ link[c] # "none"
    /\ FillRequest(c)
    /\ chan' = [chan EXCEPT ![c] = Append(@, NewChannel(Len(req'[c])))]
    /\ UNCHANGED <<serverVars, link>>

\* The request cannot be filled.
FillFails(c) ==
    /\ link[c] # "none"
    /\ FillThrows(c)
    /\ UNCHANGED <<serverVars, callVars>>

\* The worker thread maps and sends the next payload: the first one at once,
\* the others when the server asks for them. A request without any buffer
\* opens no channel. The lambda refers to the request, which may be gone.
SendPayload(c, i) ==
    /\ pc[c] \notin Ended
    /\ link[c] = "open"
    /\ chan[c][i].c2s = <<>> \/ chan[c][i].h # "none"
    /\ Len(chan[c][i].c2s) < chan[c][i].size
    /\ \/ /\ Current(c, i)
          /\ chan' = [chan EXCEPT ![c][i].c2s = Append(@, req[c][Len(@) + 1])]
          /\ UNCHANGED clientVars
       \/ /\ ~Current(c, i)
          /\ \E buf \in Garbage :
                chan' = [chan EXCEPT ![c][i].c2s = Append(@, buf)]
          /\ UNCHANGED clientVars
       \/ ~Current(c, i) /\ Dies(c) /\ UNCHANGED chan
    /\ UNCHANGED <<serverVars, link>>

\* sendReq returns, whatever has become of the channel by then.
SendReq(c) ==
    /\ SendReqReturns(c)
    /\ UNCHANGED <<reply, serverVars, callVars>>

\* The lambda of sendReq's subscription, on the worker thread. It takes address
\* and length of the buffer from the null pointer that strP has become, and
\* adds the buffer to the reply; that of an earlier operation adds it to what is
\* where its reply was.
RcvReply(c, i) ==
    /\ pc[c] \notin Ended
    /\ chan[c][i].s2c > 0
    /\ chan' = [chan EXCEPT ![c][i].s2c = @ - 1]
    /\ \/ Dies(c)
       \/ /\ pc[c] \in {"send", "check"}
          /\ \E buf \in Garbage : reply' = [reply EXCEPT ![c] = Append(@, buf)]
          /\ UNCHANGED <<pc, ops, req>>
       \/ ~Current(c, i) /\ UNCHANGED clientVars
    /\ UNCHANGED <<serverVars, link>>

Check(c) == CheckReply(c) /\ UNCHANGED <<serverVars, callVars>>

End(c) == link[c] # "none" /\ Pass(c) /\ UNCHANGED <<serverVars, callVars>>

-----------------------------------------------------------------------------
(* The server                                                              *)

\* The server process is gone, and with it every connection.
LinksBreak ==
    link' = [c \in Client |-> IF link[c] = "open" THEN "broken" ELSE link[c]]

ServerDies == Abort /\ LinksBreak /\ UNCHANGED <<clientVars, chan>>

\* The first payload opens the channel: the handler takes the callback,
\* subscribes, and runs it on what has been collected at that moment. The flow
\* it returns has as many payloads as the response has buffers.
HandleRequestChannel(c, i) ==
    /\ srv = "up"
    /\ link[c] = "open"
    /\ chan[c][i].h = "none"
    /\ chan[c][i].c2s # <<>>
    /\ \E k \in {0, 1} :
          LET msg == SubSeq(chan[c][i].c2s, 1, k) IN
          \/ (rcvFn = "null" \/ MayReject(msg)) /\ ServerDies
          \/ /\ rcvFn # "null" /\ ~Rejects(msg)
             /\ \E rsp \in Responses(msg) :
                   chan' = [chan EXCEPT ![c][i].h = "returned",
                                        ![c][i].rcvMsg = msg,
                                        ![c][i].left = Len(rsp)]
             /\ UNCHANGED <<clientVars, serverVars, link>>

\* The flow that was returned maps a buffer of a response sndMsg no longer
\* holds: something is sent, or the process ends.
Respond(c, i) ==
    /\ srv = "up"
    /\ link[c] = "open"
    /\ chan[c][i].left > 0
    /\ \/ /\ chan' = [chan EXCEPT ![c][i].left = @ - 1, ![c][i].s2c = @ + 1]
          /\ UNCHANGED <<clientVars, serverVars, link>>
       \/ ServerDies

\* The subscriber gets the rest of the request and adds it to locals that are
\* gone: when it is lucky, nothing happens that anyone would see.
ReceiveLate(c, i) ==
    /\ srv = "up"
    /\ link[c] = "open"
    /\ chan[c][i].h # "none"
    /\ Len(chan[c][i].c2s) > 1
    /\ ServerDies

-----------------------------------------------------------------------------
(* The environment                                                         *)

\* The connection is lost, or goes with the client.
Break(c) ==
    /\ link[c] = "open"
    /\ link' = [link EXCEPT ![c] = "broken"]
    /\ UNCHANGED <<clientVars, serverVars, chan>>

ServerStart == (Boot \/ SetRcvFn \/ Listen) /\ UNCHANGED <<clientVars, callVars>>

ServerExit == Exit /\ LinksBreak /\ UNCHANGED <<clientVars, chan>>

\* Every client has ended: only the server is left.
AllEnded == (\A c \in Client : pc[c] \in Ended) /\ UNCHANGED vars

-----------------------------------------------------------------------------

MainStep(c) ==
    \/ Connect(c) \/ ConnectFails(c) \/ StartCall(c) \/ FillFails(c)
    \/ SendReq(c) \/ Check(c) \/ End(c)

WorkerStep(c) == \E i \in 1..Len(chan[c]) : SendPayload(c, i) \/ RcvReply(c, i)

ServerStep(c) ==
    \E i \in 1..Len(chan[c]) :
        HandleRequestChannel(c, i) \/ Respond(c, i) \/ ReceiveLate(c, i)

Next ==
    \/ \E c \in Client : MainStep(c) \/ WorkerStep(c) \/ ServerStep(c) \/ Break(c)
    \/ ServerStart
    \/ ServerExit
    \/ AllEnded

Spec == Init /\ [][Next]_vars

-----------------------------------------------------------------------------
(* Properties                                                              *)

\* A client that echoes blocks.
EchoesBlocks(c) == Workload[c] = "echo" /\ BlockCount[c] > 0

\* An echo of one block or more is never verified, whatever the undefined steps
\* make of the reply: the callback gets one buffer of the request at most, so
\* that the server answers with one at most, while the client compares as many
\* as it sent. Such a client ends in its first operation.
EchoNeverVerified ==
    \A c \in Client : EchoesBlocks(c) =>
        ops[c] = 0 /\ (pc[c] = "passed" => OpCount[c] = 0)

-----------------------------------------------------------------------------
(* The inductive invariant behind them                                     *)

\* While an operation is under way, the last channel is its own.
OperationInv(c) ==
    pc[c] \in {"send", "check"} =>
        /\ ops[c] < OpCount[c]
        /\ chan[c] # <<>>
        /\ chan[c][Len(chan[c])].size = Len(req[c])

\* A client that echoes blocks gets no further than its first operation. What
\* opens its one channel is the header of its request, and the buffers of the
\* reply, those on the way and those to be mapped are those of a response to it.
EchoInv(c) ==
    /\ ops[c] = 0
    /\ pc[c] = "passed" => OpCount[c] = 0
    /\ Len(chan[c]) <= 1
    /\ pc[c] = "fill" => Len(chan[c]) = 0
    /\ Len(chan[c]) = 1 =>
          LET ch == chan[c][1] IN
          /\ req[c] \in Requests(c)
          /\ ch.c2s # <<>> => ch.c2s[1] = req[c][1]
          /\ ch.h = "none" => ch.left = 0 /\ ch.s2c = 0 /\ reply[c] = <<>>
          /\ Len(reply[c]) + ch.s2c + ch.left <= 1

IInv ==
    /\ TypeOK
    /\ \A c \in Client : OperationInv(c) /\ (EchoesBlocks(c) => EchoInv(c))

=============================================================================
