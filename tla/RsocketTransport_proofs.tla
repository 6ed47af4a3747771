----------------------- MODULE RsocketTransport_proofs ------------------------
(***************************************************************************)
(* Proofs about RsocketTransport: an echo of blocks is never verified.     *)
(* The callback gets one buffer of the request at most; the response then  *)
(* has one at most, and whatever the undefined steps put into the reply,   *)
(* they do it once for each buffer of the response, so that the reply is   *)
(* shorter than the request.                                               *)
(***************************************************************************)
EXTENDS RsocketTransport, RtPayload_proofs

\* There is one at most, and there is some: there is one.
LEMMA OnlyOne ==
    ASSUME NEW n \in Nat, n <= 1
    PROVE  /\ n # 0 => n = 1
           /\ \A i \in 1..n : n = 1 /\ i = 1
OBVIOUS

-----------------------------------------------------------------------------
(* The channels of one client                                              *)

\* A step that changes one channel.
LEMMA ChannelChanged ==
    ASSUME TypeOK, NEW c \in Client, NEW i \in 1..Len(chan[c]), NEW ch \in Channel,
           chan' = [chan EXCEPT ![c] = [chan[c] EXCEPT ![i] = ch]]
    PROVE  /\ chan' \in [Client -> Seq(Channel)]
           /\ Len(chan'[c]) = Len(chan[c])
           /\ chan'[c][i] = ch
           /\ \A j \in 1..Len(chan[c]) : j # i => chan'[c][j] = chan[c][j]
           /\ \A d \in Client : d # c => chan'[d] = chan[d]
<1>1. chan[c] \in Seq(Channel)
  BY DEF TypeOK
<1>2. /\ [chan[c] EXCEPT ![i] = ch] \in Seq(Channel)
      /\ Len([chan[c] EXCEPT ![i] = ch]) = Len(chan[c])
      /\ \A j \in 1..Len(chan[c]) :
            [chan[c] EXCEPT ![i] = ch][j] = IF j = i THEN ch ELSE chan[c][j]
  BY <1>1, ExceptSeq
<1> QED BY <1>2 DEF TypeOK

\* What a channel is made of.
LEMMA ChannelFields ==
    ASSUME TypeOK, NEW c \in Client, NEW i \in 1..Len(chan[c])
    PROVE  /\ chan[c][i] \in Channel
           /\ chan[c][i].c2s \in Msg /\ chan[c][i].rcvMsg \in Msg
           /\ chan[c][i].h \in {"none", "returned"}
           /\ chan[c][i].left \in Nat /\ chan[c][i].s2c \in Nat
<1>1. chan[c] \in Seq(Channel)
  BY DEF TypeOK
<1>2. chan[c][i] \in Channel
  BY <1>1, ElementOfSeq
<1> QED BY <1>2 DEF Channel

\* What IInv says of one client.
ClientInv(c) == OperationInv(c) /\ (EchoesBlocks(c) => EchoInv(c))

\* A step that leaves a client alone.
LEMMA Untouched ==
    ASSUME NEW c \in Client, ClientInv(c),
           pc'[c] = pc[c], ops'[c] = ops[c], req'[c] = req[c],
           reply'[c] = reply[c], chan'[c] = chan[c]
    PROVE  ClientInv(c)'
BY DEF ClientInv, OperationInv, EchoInv, EchoesBlocks, Requests

\* A step that ends a client, which has passed only if it has run its operations.
LEMMA ClientEnds ==
    ASSUME NEW c \in Client, ClientInv(c),
           pc'[c] \in Ended, pc'[c] = "passed" => ops[c] = OpCount[c],
           ops'[c] = ops[c], req'[c] = req[c], reply'[c] = reply[c],
           chan'[c] = chan[c]
    PROVE  ClientInv(c)'
BY DEF ClientInv, OperationInv, EchoInv, EchoesBlocks, Requests, Ended

\* Steps of the server and the network leave every client alone.
LEMMA ClientsUntouched ==
    ASSUME IInv, UNCHANGED <<clientVars, chan>>, TypeOK'
    PROVE  IInv'
<1>1. ASSUME NEW c \in Client PROVE ClientInv(c)'
  BY Untouched DEF IInv, ClientInv, clientVars
<1> QED BY <1>1 DEF IInv, ClientInv

-----------------------------------------------------------------------------
(* The reply                                                               *)

\* A request for an echo of blocks is longer than its header.
LEMMA EchoRequest ==
    ASSUME NEW c \in Client, EchoesBlocks(c), NEW m \in Requests(c)
    PROVE  /\ m \in Msg /\ Len(m) > 1
           /\ m[1].tag = "e_req"
<1>1. /\ BlockCount[c] \in Int /\ BlockSize[c] \in Int /\ BlockCount[c] > 0
      /\ Workload[c] = "echo"
  BY ClientAssumption DEF EchoesBlocks
<1> DEFINE hdr == Hdr("e_req", BlockCount[c], BlockSize[c])
<1>2. hdr \in Buf
  BY <1>1 DEF Hdr, Buf, ReqTags
<1>3. m \in Framed(hdr, BlockCount[c])
  BY <1>1 DEF Requests, FillReq, ReqTag
<1>4. hdr.tag = "e_req"
  BY DEF Hdr
<1> HIDE DEF hdr
<1> QED BY <1>1, <1>2, <1>3, <1>4, FramedMsg DEF BufCount

\* What the callback gets of it is nothing, or a message of one buffer.
LEMMA FirstBuffer ==
    ASSUME NEW m \in Msg, m # <<>>, NEW k \in {0, 1}
    PROVE  /\ SubSeq(m, 1, k) \in Msg
           /\ Len(SubSeq(m, 1, k)) = k
           /\ k = 1 => SubSeq(m, 1, k)[1] = m[1]
<1>1. Len(m) \in Nat /\ Len(m) # 0
  BY LenProperties, EmptySeq DEF Msg
<1>2. 1 \in 1..Len(m)+1 /\ k \in 0..Len(m) /\ k \in Nat
  BY <1>1
<1>3. \A i \in 1..k : m[i] \in Buf
  BY <1>1, ElementOfSeq DEF Msg
<1>4. k \in Int /\ k - 1 + 1 = k /\ (1 <= k <=> k = 1) /\ (~(1 <= k) <=> k = 0)
  OBVIOUS
<1> DEFINE s == SubSeq(m, 1, k)
<1>5. /\ s \in Seq(Buf)
      /\ Len(s) = IF 1 <= k THEN k - 1 + 1 ELSE 0
      /\ \A i \in 1..k - 1 + 1 : s[i] = m[1 + i - 1]
  BY <1>3, <1>4, SubSeqProperties
<1> HIDE DEF s
<1>6. Len(s) = k /\ (k = 1 => s[1] = m[1])
  BY <1>4, <1>5
<1> QED BY <1>5, <1>6 DEF Msg, s

\* The response to the header of an echo alone is a header alone.
LEMMA EchoOfHeader ==
    ASSUME NEW m \in Msg, Len(m) = 1, m[1].tag = "e_req", NEW rsp \in Responses(m)
    PROVE  Len(rsp) = 1
<1>1. rsp = [i \in 1..Len(m) |-> IF i = 1 THEN Hdr("e_rsp", 0, 0) ELSE m[i]]
  BY DEF Responses
<1>2. m # <<>> /\ Len(m) \in Nat
  BY LenProperties, EmptySeq DEF Msg
<1>3. ~Rejects(m)
  BY <1>2 DEF Rejects, Refuses, ReqTags
<1>4. rsp \in Msg
  BY <1>3, ResponsesMsg
<1>5. Len(rsp) = Len(m)
  BY <1>1, <1>2, <1>4, LenProperties DEF Msg
<1> QED BY <1>5

\* A reply of one buffer at most is not that of an echo of blocks.
LEMMA NotAccepted ==
    ASSUME IInv, NEW c \in Client, EchoesBlocks(c), pc[c] = "check"
    PROVE  ~Accepts(Workload[c], req[c], reply[c])
<1>1. TypeOK /\ OperationInv(c) /\ EchoInv(c)
  BY DEF IInv
<1>2. Len(chan[c]) = 1
  <2>1. chan[c] \in Seq(Channel) /\ chan[c] # <<>> /\ Len(chan[c]) <= 1
    BY <1>1 DEF TypeOK, OperationInv, EchoInv
  <2>2. Len(chan[c]) \in Nat /\ Len(chan[c]) # 0
    BY <2>1, LenProperties, EmptySeq
  <2> QED BY <2>1, <2>2, OnlyOne
<1>3. /\ Len(reply[c]) + chan[c][1].s2c + chan[c][1].left <= 1
      /\ req[c] \in Requests(c)
  BY <1>1, <1>2 DEF EchoInv
<1>4. Len(req[c]) > 1
  BY <1>3, EchoRequest
<1>5. /\ chan[c][1].s2c \in Nat /\ chan[c][1].left \in Nat
      /\ Len(reply[c]) \in Nat
  BY <1>1, <1>2, ChannelFields, LenProperties DEF TypeOK, ClientTypeOK, Msg
<1>6. Len(reply[c]) # Len(req[c])
  BY <1>3, <1>4, <1>5
<1> QED BY <1>6 DEF Accepts, EchoIsValid, EchoesBlocks

-----------------------------------------------------------------------------
(* The steps                                                               *)

LEMMA InitIInv == Init => IInv
<1>1. ASSUME Init PROVE TypeOK
  BY <1>1, ClientAssumption, MaxBootsAssumption, EmptySeq
  DEF Init, ClientInit, ServerInit, TypeOK, ClientTypeOK, ServerTypeOK, RcvFns, Msg
<1>2. ASSUME Init, NEW c \in Client PROVE ClientInv(c)
  <2>1. pc[c] = "fill" /\ ops[c] = 0 /\ Len(chan[c]) = 0
    BY <1>2, EmptySeq DEF Init, ClientInit
  <2> QED BY <2>1 DEF ClientInv, OperationInv, EchoInv
<1> QED BY <1>1, <1>2 DEF IInv, ClientInv

\* Steps of main that only move the client on, or end it.
LEMMA MainIInv ==
    ASSUME IInv, NEW c \in Client,
           Connect(c) \/ ConnectFails(c) \/ FillFails(c) \/ End(c)
    PROVE  IInv'
<1>1. TypeOK'
  BY DEF IInv, TypeOK, ClientTypeOK, ServerTypeOK, Ended, Connect, ConnectFails,
         FillFails, FillThrows, Dies, End, Pass, clientVars, serverVars, callVars
<1>2. ASSUME NEW d \in Client PROVE ClientInv(d)'
  <2>1. UNCHANGED <<chan, ops, req, reply>> /\ ClientInv(d)
    BY DEF IInv, ClientInv, Connect, ConnectFails, FillFails, FillThrows, Dies,
           End, Pass, clientVars, callVars
  <2>2. \/ pc'[d] = pc[d]
        \/ pc'[d] \in Ended /\ (pc'[d] = "passed" => ops[d] = OpCount[d])
    BY DEF IInv, TypeOK, ClientTypeOK, Ended, Connect, ConnectFails, FillFails,
           FillThrows, Dies, End, Pass, clientVars
  <2> QED BY <2>1, <2>2, Untouched, ClientEnds
<1> QED BY <1>1, <1>2 DEF IInv, ClientInv

\* A new channel.
LEMMA StartCallIInv ==
    ASSUME IInv, NEW c \in Client, StartCall(c)
    PROVE  IInv'
<1> DEFINE m == req'[c]
           n == NewChannel(Len(m))
<1>1. /\ m \in Requests(c) /\ m \in Msg
      /\ req' = [req EXCEPT ![c] = m]
  <2>1. PICK r \in Requests(c) : req' = [req EXCEPT ![c] = r]
    BY DEF StartCall, FillRequest
  <2>2. r \in Msg
    BY ClientAssumption, FillReqMsg DEF Requests
  <2> QED BY <2>1, <2>2 DEF IInv, TypeOK, ClientTypeOK
<1>2. /\ pc[c] = "fill" /\ ops[c] < OpCount[c]
      /\ pc' = [pc EXCEPT ![c] = "send"] /\ reply' = [reply EXCEPT ![c] = <<>>]
      /\ chan' = [chan EXCEPT ![c] = Append(chan[c], n)]
      /\ UNCHANGED <<ops, link, serverVars>>
  BY DEF StartCall, FillRequest
<1>3. /\ n \in Channel /\ n.size = Len(m) /\ n.c2s = <<>>
      /\ n.left = 0 /\ n.s2c = 0
      /\ <<>> \in Msg /\ Len(<<>>) = 0
  BY <1>1, LenProperties, EmptySeq DEF NewChannel, Channel, Msg
<1> HIDE DEF n
<1>4. chan[c] \in Seq(Channel) /\ Len(chan[c]) \in Nat
  BY LenProperties DEF IInv, TypeOK
<1>5. /\ chan'[c] \in Seq(Channel) /\ Len(chan'[c]) = Len(chan[c]) + 1
      /\ chan'[c] # <<>> /\ chan'[c][Len(chan[c]) + 1] = n
  <2>1. chan'[c] = Append(chan[c], n)
    BY <1>2 DEF IInv, TypeOK
  <2> QED BY <1>3, <1>4, <2>1, AppendProperties
<1> HIDE DEF m
<1>6. TypeOK'
  BY <1>1, <1>2, <1>3, <1>5
  DEF IInv, TypeOK, ClientTypeOK, ServerTypeOK, serverVars
<1>7. ASSUME NEW d \in Client, d # c PROVE ClientInv(d)'
  BY <1>1, <1>2, <1>7, Untouched DEF IInv, ClientInv, TypeOK, ClientTypeOK
<1>8. /\ req'[c] = m /\ reply'[c] = <<>> /\ pc'[c] = "send" /\ ops'[c] = ops[c]
  BY <1>1, <1>2, <1>3 DEF IInv, TypeOK, ClientTypeOK
<1>9. OperationInv(c)'
  BY <1>2, <1>3, <1>5, <1>8 DEF OperationInv
<1>10. ASSUME EchoesBlocks(c) PROVE EchoInv(c)'
  <2>1. EchoInv(c) /\ Len(chan[c]) = 0
    BY <1>2, <1>10 DEF IInv, EchoInv
  <2>2. Len(chan'[c]) = 1 /\ chan'[c][1] = n
    BY <1>5, <2>1
  <2>3. m \in Requests(c)'
    BY <1>1 DEF Requests
  <2> QED BY <1>3, <1>8, <2>1, <2>2, <2>3 DEF EchoInv
<1>11. EchoesBlocks(c)' <=> EchoesBlocks(c)
  BY DEF EchoesBlocks
<1> QED BY <1>6, <1>7, <1>9, <1>10, <1>11 DEF IInv, ClientInv

LEMMA SendReqIInv ==
    ASSUME IInv, NEW c \in Client, SendReq(c)
    PROVE  IInv'
<1>1. /\ pc[c] = "send" /\ pc' = [pc EXCEPT ![c] = "check"]
      /\ UNCHANGED <<ops, req, reply, callVars, serverVars>>
  BY DEF SendReq, SendReqReturns
<1>2. TypeOK'
  BY <1>1 DEF IInv, TypeOK, ClientTypeOK, ServerTypeOK, callVars, serverVars
<1>3. ASSUME NEW d \in Client PROVE ClientInv(d)'
  <2>1. CASE d = c
    <3>1. ClientInv(c) /\ pc'[c] = "check"
      BY <1>1 DEF IInv, ClientInv, TypeOK, ClientTypeOK
    <3> QED
      BY <1>1, <2>1, <3>1
      DEF ClientInv, OperationInv, EchoInv, EchoesBlocks, Requests, callVars
  <2>2. CASE d # c
    BY <1>1, <2>2, Untouched DEF IInv, ClientInv, TypeOK, ClientTypeOK, callVars
  <2> QED BY <2>1, <2>2
<1> QED BY <1>2, <1>3 DEF IInv, ClientInv

\* The check, which an echo of blocks does not pass.
LEMMA CheckIInv ==
    ASSUME IInv, NEW c \in Client, Check(c)
    PROVE  IInv'
<1>1. /\ pc[c] = "check" /\ ops[c] \in Nat /\ OpCount[c] \in Nat
      /\ ops[c] < OpCount[c] /\ ClientInv(c)
      /\ UNCHANGED <<req, reply, link, chan, serverVars>>
  BY ClientAssumption
  DEF IInv, ClientInv, OperationInv, TypeOK, ClientTypeOK, Check, CheckReply, callVars
<1>2. CASE Accepts(Workload[c], req[c], reply[c])
  <2>1. pc' = [pc EXCEPT ![c] = "fill"] /\ ops' = [ops EXCEPT ![c] = ops[c] + 1]
    BY <1>2 DEF Check, CheckReply
  <2>2. TypeOK'
    BY <1>1, <2>1 DEF IInv, TypeOK, ClientTypeOK, ServerTypeOK, serverVars
  <2>3. ~EchoesBlocks(c)
    BY <1>1, <1>2, NotAccepted
  <2>4. ASSUME NEW d \in Client PROVE ClientInv(d)'
    <3>1. CASE d # c
      BY <1>1, <2>1, <3>1, Untouched DEF IInv, ClientInv, TypeOK, ClientTypeOK
    <3>2. CASE d = c
      BY <2>1, <2>3, <3>2
      DEF ClientInv, OperationInv, EchoesBlocks, IInv, TypeOK, ClientTypeOK
    <3> QED BY <3>1, <3>2
  <2> QED BY <2>2, <2>4 DEF IInv, ClientInv
<1>3. CASE ~Accepts(Workload[c], req[c], reply[c])
  <2>1. pc' = [pc EXCEPT ![c] = "invalid"] /\ ops' = ops
    BY <1>3 DEF Check, CheckReply
  <2>2. TypeOK'
    BY <1>1, <2>1 DEF IInv, TypeOK, ClientTypeOK, ServerTypeOK, serverVars, Ended
  <2>3. ASSUME NEW d \in Client PROVE ClientInv(d)'
    BY <1>1, <2>1, Untouched, ClientEnds
    DEF IInv, ClientInv, TypeOK, ClientTypeOK, Ended
  <2> QED BY <2>2, <2>3 DEF IInv, ClientInv
<1> QED BY <1>2, <1>3

\* The program ends in one of the undefined steps.
LEMMA DiesIInv ==
    ASSUME IInv, NEW c \in Client, Dies(c), TypeOK', UNCHANGED chan
    PROVE  IInv'
<1>1. ASSUME NEW d \in Client PROVE ClientInv(d)'
  BY Untouched, ClientEnds DEF IInv, ClientInv, Dies, Ended, TypeOK, ClientTypeOK
<1> QED BY <1>1 DEF IInv, ClientInv

\* A step that changes one channel, at most adds to the reply, and leaves the
\* client where it is or ends it: what it must keep of an echo of blocks.
LEMMA ChannelStep ==
    ASSUME IInv, NEW c \in Client, NEW i \in 1..Len(chan[c]), NEW new \in Channel,
           chan' = [chan EXCEPT ![c] = [chan[c] EXCEPT ![i] = new]],
           new.size = chan[c][i].size,
           TypeOK', UNCHANGED <<ops, req>>,
           pc' = pc \/ (pc' = [pc EXCEPT ![c] = "send_failed"]),
           \A d \in Client : d # c => reply'[d] = reply[d],
           EchoesBlocks(c) /\ Len(chan[c]) = 1 =>
               /\ new.c2s # <<>> => new.c2s[1] = req[c][1]
               /\ new.h = "none" => new.left = 0 /\ new.s2c = 0 /\ reply'[c] = <<>>
               /\ Len(reply'[c]) + new.s2c + new.left <= 1
    PROVE  IInv'
<1>1. TypeOK
  BY DEF IInv
<1>2. /\ chan' \in [Client -> Seq(Channel)]
      /\ Len(chan'[c]) = Len(chan[c])
      /\ chan'[c][i] = new
      /\ \A j \in 1..Len(chan[c]) : j # i => chan'[c][j] = chan[c][j]
      /\ \A d \in Client : d # c => chan'[d] = chan[d]
  BY <1>1, ChannelChanged
<1>3. ASSUME NEW d \in Client, d # c PROVE ClientInv(d)'
  BY <1>1, <1>2, <1>3, Untouched DEF IInv, ClientInv, TypeOK, ClientTypeOK
<1>4. ClientInv(c) /\ (pc'[c] = pc[c] \/ pc'[c] = "send_failed")
  BY DEF IInv, ClientInv, TypeOK, ClientTypeOK
<1>5. OperationInv(c)'
  <2>1. Len(chan[c]) \in Nat /\ Len(chan[c]) # 0 /\ Len(chan[c]) \in 1..Len(chan[c])
    BY <1>1, LenProperties DEF TypeOK
  <2>2. chan'[c] # <<>>
    BY <1>2, <2>1, EmptySeq
  <2>3. chan'[c][Len(chan[c])].size = chan[c][Len(chan[c])].size
    BY <1>2, <2>1
  <2> QED BY <1>2, <1>4, <2>2, <2>3 DEF ClientInv, OperationInv
<1>6. ASSUME EchoesBlocks(c) PROVE EchoInv(c)'
  <2>1. EchoInv(c) /\ Len(chan[c]) = 1 /\ i = 1
    <3>1. EchoInv(c) /\ Len(chan[c]) <= 1 /\ Len(chan[c]) \in Nat
      BY <1>1, <1>4, <1>6, LenProperties DEF ClientInv, EchoInv, TypeOK
    <3> QED BY <3>1, OnlyOne
  <2>2. chan'[c][1] = new /\ Len(chan'[c]) = 1
    BY <1>2, <2>1
  <2> QED BY <1>4, <1>6, <2>1, <2>2 DEF EchoInv, Requests
<1>7. EchoesBlocks(c)' <=> EchoesBlocks(c)
  BY DEF EchoesBlocks
<1> QED BY <1>3, <1>5, <1>6, <1>7 DEF IInv, ClientInv

\* What is known of the one channel of a client that echoes blocks.
LEMMA EchoChannel ==
    ASSUME IInv, NEW c \in Client, EchoesBlocks(c), NEW i \in 1..Len(chan[c])
    PROVE  /\ Len(chan[c]) = 1 /\ i = 1
           /\ pc[c] # "fill" /\ req[c] \in Requests(c)
           /\ chan[c][i].c2s # <<>> => chan[c][i].c2s[1] = req[c][1]
           /\ chan[c][i].h = "none" =>
                 chan[c][i].left = 0 /\ chan[c][i].s2c = 0 /\ reply[c] = <<>>
           /\ Len(reply[c]) + chan[c][i].s2c + chan[c][i].left <= 1
<1>1. EchoInv(c) /\ Len(chan[c]) <= 1 /\ Len(chan[c]) \in Nat
  BY LenProperties DEF IInv, EchoInv, TypeOK
<1>2. Len(chan[c]) = 1 /\ i = 1
  BY <1>1, OnlyOne
<1> QED BY <1>1, <1>2 DEF EchoInv

\* The worker thread sends a payload: it changes the channel's c2s alone, and
\* begins it with the request's header.
LEMMA SendPayloadIInv ==
    ASSUME IInv, NEW c \in Client, NEW i \in 1..Len(chan[c]), SendPayload(c, i)
    PROVE  IInv'
<1> DEFINE ch == chan[c][i]
<1>1. TypeOK /\ ch \in Channel /\ ch.c2s \in Msg /\ Len(ch.c2s) \in Nat
  BY ChannelFields, LenProperties DEF IInv, Msg
<1>2. CASE Dies(c) /\ UNCHANGED chan
  <2>1. TypeOK'
    BY <1>2 DEF SendPayload, Dies, IInv, TypeOK, ClientTypeOK, ServerTypeOK,
                serverVars, Ended
  <2> QED BY <1>2, <2>1, DiesIInv
<1>3. ASSUME NEW buf \in Buf, UNCHANGED clientVars,
             EchoesBlocks(c) /\ ch.c2s = <<>> => buf = req[c][1],
             chan' = [chan EXCEPT ![c][i].c2s = Append(ch.c2s, buf)]
      PROVE  IInv'
  <2> DEFINE new == [ch EXCEPT !.c2s = Append(ch.c2s, buf)]
  <2>1. /\ Append(ch.c2s, buf) \in Msg
        /\ ch.c2s = <<>> => Append(ch.c2s, buf)[1] = buf
        /\ ch.c2s # <<>> => Append(ch.c2s, buf)[1] = ch.c2s[1]
    <3>1. Len(ch.c2s) = 0 <=> ch.c2s = <<>>
      BY <1>1, EmptySeq DEF Msg
    <3> QED BY <1>1, <3>1, AppendProperties DEF Msg
  <2>2. new \in Channel
    BY <1>1, <2>1 DEF Channel
  <2>3. chan' = [chan EXCEPT ![c] = [chan[c] EXCEPT ![i] = new]]
    BY <1>3
  <2>4. /\ new.c2s = Append(ch.c2s, buf) /\ new.h = ch.h /\ new.size = ch.size
        /\ new.left = ch.left /\ new.s2c = ch.s2c
    BY <1>1 DEF Channel
  <2> HIDE DEF new
  <2>5. TypeOK'
    <3>1. chan' \in [Client -> Seq(Channel)]
      BY <1>1, <2>2, <2>3, ChannelChanged
    <3> QED
      BY <1>1, <1>3, <3>1
      DEF SendPayload, TypeOK, ClientTypeOK, ServerTypeOK, clientVars, serverVars
  <2>6. ASSUME EchoesBlocks(c)
        PROVE  /\ new.c2s[1] = req[c][1]
               /\ new.h = "none" => new.left = 0 /\ new.s2c = 0 /\ reply[c] = <<>>
               /\ Len(reply[c]) + new.s2c + new.left <= 1
    BY <1>3, <2>1, <2>4, <2>6, EchoChannel
  <2>7. UNCHANGED <<pc, ops, req, reply>> /\ new.size = chan[c][i].size
    BY <1>3, <2>4 DEF clientVars
  <2> HIDE DEF ch
  <2> QED BY <2>2, <2>3, <2>5, <2>6, <2>7, ChannelStep
<1>4. CASE /\ Current(c, i)
           /\ chan' = [chan EXCEPT ![c][i].c2s = Append(@, req[c][Len(@) + 1])]
           /\ UNCHANGED clientVars
  <2>1. ch.size = Len(req[c]) /\ Len(ch.c2s) < ch.size
    BY <1>4 DEF Current, SendPayload, IInv, OperationInv
  <2>2. req[c] \in Seq(Buf) /\ Len(ch.c2s) + 1 \in 1..Len(req[c])
    BY <1>1, <2>1, LenProperties DEF TypeOK, ClientTypeOK, Msg
  <2>3. req[c][Len(ch.c2s) + 1] \in Buf
    BY <2>2, ElementOfSeq
  <2>4. ch.c2s = <<>> => Len(ch.c2s) + 1 = 1
    BY EmptySeq
  <2> QED BY <1>3, <1>4, <2>3, <2>4
<1>5. CASE /\ ~Current(c, i)
           /\ \E buf \in Garbage :
                 chan' = [chan EXCEPT ![c][i].c2s = Append(@, buf)]
           /\ UNCHANGED clientVars
  <2>1. ~EchoesBlocks(c)
    BY <1>1, <1>5, EchoChannel
    DEF Current, SendPayload, Ended, TypeOK, ClientTypeOK
  <2> QED BY <1>3, <1>5, <2>1, GarbageAssumption
<1> QED BY <1>2, <1>4, <1>5 DEF SendPayload

\* The worker thread gets a buffer of the reply: whatever it makes of it, it is
\* one less on its way.
LEMMA RcvReplyIInv ==
    ASSUME IInv, NEW c \in Client, NEW i \in 1..Len(chan[c]), RcvReply(c, i)
    PROVE  IInv'
<1> DEFINE ch == chan[c][i]
           new == [ch EXCEPT !.s2c = ch.s2c - 1]
<1>1. TypeOK /\ ch \in Channel /\ ch.s2c \in Nat /\ ch.left \in Nat /\ ch.s2c > 0
  BY ChannelFields DEF IInv, RcvReply
<1>2. ch.s2c - 1 \in Nat
  BY <1>1
<1>3. /\ new \in Channel
      /\ new.c2s = ch.c2s /\ new.h = ch.h /\ new.size = ch.size
      /\ new.left = ch.left /\ new.s2c = ch.s2c - 1
  BY <1>1, <1>2 DEF Channel
<1>4. chan' = [chan EXCEPT ![c] = [chan[c] EXCEPT ![i] = new]]
  BY DEF RcvReply
<1> HIDE DEF new
<1>5. /\ UNCHANGED <<ops, req, serverVars, link>>
      /\ \/ pc' = [pc EXCEPT ![c] = "send_failed"] /\ reply' = reply
         \/ /\ pc' = pc
            /\ \E buf \in Garbage : reply' = [reply EXCEPT ![c] = Append(@, buf)]
         \/ pc' = pc /\ reply' = reply
  BY DEF RcvReply, Dies, clientVars
<1>6. /\ reply' \in [Client -> Msg]
      /\ Len(reply'[c]) <= Len(reply[c]) + 1 /\ Len(reply'[c]) \in Nat
      /\ \A d \in Client : d # c => reply'[d] = reply[d]
  <2>1. reply \in [Client -> Msg] /\ reply[c] \in Msg /\ Len(reply[c]) \in Nat
    BY <1>1, LenProperties DEF TypeOK, ClientTypeOK, Msg
  <2>2. CASE reply' = reply
    BY <2>1, <2>2
  <2>3. ASSUME NEW buf \in Garbage,
               reply' = [reply EXCEPT ![c] = Append(reply[c], buf)]
        PROVE  /\ reply' \in [Client -> Msg]
               /\ Len(reply'[c]) <= Len(reply[c]) + 1 /\ Len(reply'[c]) \in Nat
               /\ \A d \in Client : d # c => reply'[d] = reply[d]
    <3>1. Append(reply[c], buf) \in Msg /\ Len(Append(reply[c], buf)) = Len(reply[c]) + 1
      BY <2>1, <2>3, GarbageAssumption, AppendProperties DEF Msg
    <3>2. reply'[c] = Append(reply[c], buf)
      BY <2>1, <2>3
    <3> QED BY <2>1, <2>3, <3>1, <3>2
  <2> QED BY <1>5, <2>2, <2>3
<1>7. TypeOK'
  <2>1. chan' \in [Client -> Seq(Channel)]
    BY <1>1, <1>3, <1>4, ChannelChanged
  <2> QED
    BY <1>1, <1>5, <1>6, <2>1
    DEF TypeOK, ClientTypeOK, ServerTypeOK, Ended, serverVars
<1>8. ASSUME EchoesBlocks(c)
      PROVE  /\ new.c2s # <<>> => new.c2s[1] = req[c][1]
             /\ new.h # "none"
             /\ Len(reply'[c]) + new.s2c + new.left <= 1
  <2>1. /\ ch.c2s # <<>> => ch.c2s[1] = req[c][1]
        /\ ch.h = "none" => ch.s2c = 0
        /\ Len(reply[c]) + ch.s2c + ch.left <= 1
    BY <1>8, EchoChannel
  <2>2. Len(reply[c]) \in Nat
    BY <1>1, LenProperties DEF TypeOK, ClientTypeOK, Msg
  <2> HIDE DEF ch
  <2>3. new.h # "none"
    BY <1>1, <1>3, <2>1
  <2>4. Len(reply'[c]) + new.s2c + new.left <= 1
    BY <1>1, <1>3, <1>6, <2>1, <2>2
  <2> QED BY <1>3, <2>1, <2>3, <2>4
<1>9. UNCHANGED <<ops, req>> /\ (pc' = pc \/ pc' = [pc EXCEPT ![c] = "send_failed"])
  BY <1>5
<1>10. new.size = chan[c][i].size
  BY <1>3
<1> HIDE DEF ch
<1> QED BY <1>3, <1>4, <1>6, <1>7, <1>8, <1>9, <1>10, ChannelStep

\* The server process is gone: every client is left alone.
LEMMA ServerDiesIInv == IInv /\ ServerDies => IInv'
<1> SUFFICES ASSUME IInv, ServerDies PROVE IInv'
  OBVIOUS
<1>1. TypeOK' /\ UNCHANGED <<clientVars, chan>>
  BY DEF IInv, TypeOK, ClientTypeOK, ServerTypeOK, ServerDies, Abort, LinksBreak,
         clientVars
<1> QED BY <1>1, ClientsUntouched

\* The handler: of an echo the callback gets the header at most, and the
\* response has no more buffers than it got.
LEMMA HandleIInv ==
    ASSUME IInv, NEW c \in Client, NEW i \in 1..Len(chan[c]), HandleRequestChannel(c, i)
    PROVE  IInv'
<1> DEFINE ch == chan[c][i]
<1>1. TypeOK /\ ch \in Channel /\ ch.c2s \in Msg /\ ch.h = "none" /\ ch.c2s # <<>>
  BY ChannelFields DEF IInv, HandleRequestChannel
<1>2. ASSUME NEW k \in {0, 1}, ~Rejects(SubSeq(ch.c2s, 1, k)),
             NEW rsp \in Responses(SubSeq(ch.c2s, 1, k)),
             chan' = [chan EXCEPT ![c][i].h = "returned",
                                  ![c][i].rcvMsg = SubSeq(ch.c2s, 1, k),
                                  ![c][i].left = Len(rsp)],
             UNCHANGED <<clientVars, serverVars, link>>
      PROVE  IInv'
  <2> DEFINE msg == SubSeq(ch.c2s, 1, k)
             new == [ch EXCEPT !.h = "returned", !.rcvMsg = msg, !.left = Len(rsp)]
  <2>1. /\ msg \in Msg /\ Len(msg) = k
        /\ k = 1 => msg[1] = ch.c2s[1]
    BY <1>1, FirstBuffer
  <2>2. rsp \in Msg /\ Len(rsp) \in Nat
    BY <1>2, <2>1, ResponsesMsg, LenProperties DEF Msg
  <2>3. /\ new \in Channel
        /\ new.c2s = ch.c2s /\ new.h = "returned" /\ new.size = ch.size
        /\ new.left = Len(rsp) /\ new.s2c = ch.s2c
    BY <1>1, <2>1, <2>2 DEF Channel
  <2>4. chan' = [chan EXCEPT ![c] = [chan[c] EXCEPT ![i] = new]]
    <3>1. chan[c] \in Seq(Channel)
      BY <1>1 DEF TypeOK
    <3> QED BY <1>1, <1>2, <3>1 DEF TypeOK, Channel
  <2>5. k = 1
    <3>1. msg # <<>>
      BY <1>2 DEF Rejects, Refuses
    <3> QED BY <2>1, <3>1, EmptySeq DEF Msg
  <2> HIDE DEF new
  <2>6. TypeOK'
    <3>1. chan' \in [Client -> Seq(Channel)]
      BY <1>1, <2>3, <2>4, ChannelChanged
    <3> QED
      BY <1>1, <1>2, <3>1
      DEF TypeOK, ClientTypeOK, ServerTypeOK, clientVars, serverVars
  <2>7. ASSUME EchoesBlocks(c)
        PROVE  /\ new.c2s[1] = req[c][1]
               /\ new.h # "none"
               /\ Len(reply[c]) + new.s2c + new.left <= 1
    <3>1. /\ ch.c2s[1] = req[c][1] /\ req[c] \in Requests(c)
          /\ ch.s2c = 0 /\ reply[c] = <<>>
      BY <1>1, <2>7, EchoChannel
    <3>2. msg[1].tag = "e_req" /\ Len(msg) = 1
      BY <2>1, <2>5, <2>7, <3>1, EchoRequest
    <3>3. Len(rsp) = 1
      BY <1>2, <2>1, <3>2, EchoOfHeader
    <3>4. Len(reply[c]) = 0
      BY <3>1, EmptySeq
    <3> HIDE DEF ch
    <3> QED BY <2>3, <3>1, <3>3, <3>4
  <2>8. UNCHANGED <<pc, ops, req, reply>> /\ new.size = chan[c][i].size
    BY <1>2, <2>3 DEF clientVars
  <2> HIDE DEF ch
  <2> QED BY <2>3, <2>4, <2>6, <2>7, <2>8, ChannelStep
<1>3. CASE ServerDies
  BY <1>3, ServerDiesIInv
<1> QED BY <1>2, <1>3 DEF HandleRequestChannel

\* A buffer of the response is mapped: one less to be mapped, one on its way.
LEMMA RespondIInv ==
    ASSUME IInv, NEW c \in Client, NEW i \in 1..Len(chan[c]), Respond(c, i)
    PROVE  IInv'
<1> DEFINE ch == chan[c][i]
           new == [ch EXCEPT !.left = ch.left - 1, !.s2c = ch.s2c + 1]
<1>1. TypeOK /\ ch \in Channel /\ ch.s2c \in Nat /\ ch.left \in Nat /\ ch.left > 0
  BY ChannelFields DEF IInv, Respond
<1>2. CASE /\ chan' = [chan EXCEPT ![c][i].left = @ - 1, ![c][i].s2c = @ + 1]
           /\ UNCHANGED <<clientVars, serverVars, link>>
  <2>1. ch.left - 1 \in Nat /\ ch.s2c + 1 \in Nat
    BY <1>1
  <2>2. /\ new \in Channel
        /\ new.c2s = ch.c2s /\ new.h = ch.h /\ new.size = ch.size
        /\ new.left = ch.left - 1 /\ new.s2c = ch.s2c + 1
    BY <1>1, <2>1 DEF Channel
  <2>3. chan' = [chan EXCEPT ![c] = [chan[c] EXCEPT ![i] = new]]
    <3>1. chan[c] \in Seq(Channel)
      BY <1>1 DEF TypeOK
    <3> QED BY <1>1, <1>2, <3>1 DEF TypeOK, Channel
  <2> HIDE DEF new
  <2>4. TypeOK'
    <3>1. chan' \in [Client -> Seq(Channel)]
      BY <1>1, <2>2, <2>3, ChannelChanged
    <3> QED
      BY <1>1, <1>2, <3>1
      DEF TypeOK, ClientTypeOK, ServerTypeOK, clientVars, serverVars
  <2>5. ASSUME EchoesBlocks(c)
        PROVE  /\ new.c2s # <<>> => new.c2s[1] = req[c][1]
               /\ new.h # "none"
               /\ Len(reply[c]) + new.s2c + new.left <= 1
    <3>1. /\ ch.c2s # <<>> => ch.c2s[1] = req[c][1]
          /\ ch.h = "none" => ch.left = 0
          /\ Len(reply[c]) + ch.s2c + ch.left <= 1
      BY <2>5, EchoChannel
    <3>2. Len(reply[c]) \in Nat
      BY <1>1, LenProperties DEF TypeOK, ClientTypeOK, Msg
    <3> HIDE DEF ch
    <3>3. Len(reply[c]) + new.s2c + new.left <= 1
      BY <1>1, <2>2, <3>1, <3>2
    <3> QED BY <1>1, <2>2, <3>1, <3>3
  <2>6. UNCHANGED <<pc, ops, req, reply>> /\ new.size = chan[c][i].size
    BY <1>2, <2>2 DEF clientVars
  <2> HIDE DEF ch
  <2> QED BY <2>2, <2>3, <2>4, <2>5, <2>6, ChannelStep
<1>3. CASE ServerDies
  BY <1>3, ServerDiesIInv
<1> QED BY <1>2, <1>3 DEF Respond

LEMMA EnvironmentIInv ==
    ASSUME IInv,
           \/ \E c \in Client : Break(c)
           \/ ServerStart \/ ServerExit \/ AllEnded \/ UNCHANGED vars
    PROVE  IInv'
<1>1. UNCHANGED <<clientVars, chan>>
  BY DEF Break, ServerStart, ServerExit, AllEnded, vars, callVars
<1>2. ASSUME NEW c \in Client, Break(c)
      PROVE  TypeOK'
  BY <1>2 DEF Break, IInv, TypeOK, ClientTypeOK, ServerTypeOK, clientVars, serverVars
<1>3. ASSUME ServerStart
      PROVE  TypeOK'
  BY <1>3, MaxBootsAssumption
  DEF ServerStart, Boot, SetRcvFn, Listen, RcvFns, IInv, TypeOK, ClientTypeOK,
      ServerTypeOK, clientVars, callVars
<1>4. ASSUME ServerExit
      PROVE  TypeOK'
  BY <1>4 DEF ServerExit, Exit, LinksBreak, IInv, TypeOK, ClientTypeOK,
              ServerTypeOK, clientVars
<1>5. ASSUME AllEnded \/ UNCHANGED vars
      PROVE  TypeOK'
  BY <1>5 DEF AllEnded, vars, clientVars, serverVars, callVars, IInv, TypeOK,
              ClientTypeOK, ServerTypeOK
<1> QED BY <1>1, <1>2, <1>3, <1>4, <1>5, ClientsUntouched

LEMMA StepIInv == IInv /\ [Next]_vars => IInv'
<1> SUFFICES ASSUME IInv, [Next]_vars PROVE IInv'
  OBVIOUS
<1>1. ASSUME NEW c \in Client, MainStep(c) PROVE IInv'
  BY <1>1, MainIInv, StartCallIInv, SendReqIInv, CheckIInv DEF MainStep
<1>2. ASSUME NEW c \in Client, WorkerStep(c) PROVE IInv'
  BY <1>2, SendPayloadIInv, RcvReplyIInv DEF WorkerStep
<1>3. ASSUME NEW c \in Client, ServerStep(c) PROVE IInv'
  BY <1>3, HandleIInv, RespondIInv, ServerDiesIInv DEF ServerStep, ReceiveLate
<1> QED BY <1>1, <1>2, <1>3, EnvironmentIInv DEF Next

-----------------------------------------------------------------------------
(* The theorems                                                            *)

\* Every reachable state is of its type, whatever the undefined steps do.
THEOREM TypeCorrect == Spec => []TypeOK
<1>1. IInv => TypeOK
  BY DEF IInv
<1> QED BY <1>1, InitIInv, StepIInv, PTL DEF Spec

\* However many clients there are, whatever they are to do, and whatever is read
\* where an object was: a client that echoes blocks never completes an operation,
\* and does not pass if it has one to do.
THEOREM EchoesAreNeverVerified == Spec => []EchoNeverVerified
<1>1. IInv => EchoNeverVerified
  BY DEF IInv, EchoNeverVerified, EchoInv
<1> QED BY <1>1, InitIInv, StepIInv, PTL DEF Spec

=============================================================================
