--------------------------- MODULE StandAlone_proofs ---------------------------
(***************************************************************************)
(* Proofs about the small programs that stand alone: rt_client's way to    *)
(* measure (RtTiming), the synchronous greeter and its two clients         *)
(* (GrpcGreeter), the Cap'n Proto streaming sample (CapnpStream) and the   *)
(* Cap'n Proto calculator (Calculator).                                    *)
(*                                                                         *)
(* They share no state, and no theorem is about two of them; the modules   *)
(* RtTiming, CapnpStream and Calculator have names of their own throughout.*)
(***************************************************************************)
EXTENDS RtTiming, GrpcGreeter, CapnpStream, Calculator, SequenceTheorems,
        WellFoundedInduction, TLAPS

-----------------------------------------------------------------------------
(* RtTiming                                                                *)

\* What duration_cast cuts off is less than a microsecond.
LEMMA CutOff ==
    ASSUME NEW d \in Nat
    PROVE  /\ d \div TicksPerUs \in Nat
           /\ d - TicksPerUs * (d \div TicksPerUs) \in 0..(TicksPerUs - 1)
BY TimingAssumption

LEMMA TimingStarts == TimingInit => TimingIInv
BY TimingAssumption DEF TimingInit, TimingIInv, TimingTypeOK, OperationInv,
       LatencyIsTransport

\* An operation begins: outside gets an entry of its own.
LEMMA TimingSendReq ==
    ASSUME TimingIInv, SendReq
    PROVE  TimingIInv'
<1>1. /\ at = "loop" /\ at' = "request" /\ start' = now /\ Len(latAcc) < OpCount
      /\ UNCHANGED <<workload, now, fillStart, processUs, latAcc>>
      /\ outside \in Seq(Nat) /\ latAcc \in Seq(Int)
      /\ now \in Nat /\ Len(outside) = Len(latAcc)
  BY TimingAssumption DEF SendReq, TimingIInv, TimingTypeOK, OperationInv
<1>2. /\ outside' \in Seq(Nat) /\ Len(outside') = Len(outside) + 1
      /\ outside'[Len(outside')] = 0
      /\ \A i \in 1..Len(outside) : outside'[i] = outside[i]
  BY <1>1 DEF SendReq
<1>3. TimingTypeOK'
  BY <1>1, <1>2 DEF TimingIInv, TimingTypeOK
<1>4. OperationInv'
  BY <1>1, <1>2 DEF OperationInv
<1>5. LatencyIsTransport'
  <2>1. latAcc' = latAcc /\ DOMAIN latAcc = 1..Len(outside)
    BY <1>1
  <2>2. \A i \in DOMAIN latAcc : outside'[i] = outside[i]
    BY <1>2, <2>1
  <2> QED BY <2>1, <2>2, Zenon DEF TimingIInv, LatencyIsTransport
<1> QED BY <1>3, <1>4, <1>5 DEF TimingIInv

\* The server's measurement ends: of the time since it began, what is no whole
\* microsecond stays with the latency.
LEMMA TimingFillEnd ==
    ASSUME TimingIInv, FillEnd
    PROVE  TimingIInv'
<1> DEFINE d == ServerNow - fillStart
           passed == outside[Len(outside)]
           processed == TicksPerUs * processUs'
<1>1. /\ at = "fill" /\ at' = "response" /\ processUs' = d \div TicksPerUs
      /\ UNCHANGED <<workload, now, start, fillStart, latAcc, outside>>
      /\ now \in Nat /\ start \in Nat /\ fillStart \in Int /\ Offset \in Int
      /\ TicksPerUs \in Nat \ {0}
  BY TimingAssumption DEF FillEnd, TimingIInv, TimingTypeOK
<1>2. /\ (fillStart - Offset) - start = passed /\ passed > 0
      /\ fillStart <= now + Offset
  BY <1>1 DEF TimingIInv, OperationInv, ServerNow
<1>3. d \in Nat /\ passed \in Int /\ (now - start) - passed = d
  BY <1>1, <1>2 DEF ServerNow
<1> HIDE DEF d
<1>4. /\ processUs' \in Nat /\ processed \in Int
      /\ d - processed \in 0..(TicksPerUs - 1)
  <2>1. /\ d \div TicksPerUs \in Nat
        /\ d - TicksPerUs * (d \div TicksPerUs) \in 0..(TicksPerUs - 1)
    BY <1>3, CutOff
  <2>2. processUs' \in Nat /\ d - TicksPerUs * processUs' \in 0..(TicksPerUs - 1)
    BY <1>1, <2>1, Zenon
  <2>3. processed \in Int
    BY <1>1, <2>2
  <2> QED BY <2>2, <2>3
<1> HIDE DEF processed
<1>5. (now - start) - processed - passed \in 0..(TicksPerUs - 1)
  BY <1>1, <1>3, <1>4
<1>6. TimingTypeOK'
  BY <1>1, <1>4 DEF TimingIInv, TimingTypeOK
<1>7. OperationInv'
  <2>1. Len(outside') = Len(latAcc') + 1 /\ Len(latAcc') < OpCount /\ passed' = passed
    BY <1>1 DEF TimingIInv, OperationInv
  <2>2. (now' - start') - TicksPerUs * processUs' - passed' \in 0..(TicksPerUs - 1)
    BY <1>1, <1>5, <2>1 DEF processed
  <2> HIDE DEF passed
  <2> QED BY <1>1, <1>2, <2>1, <2>2 DEF passed, OperationInv
<1>8. LatencyIsTransport'
  BY <1>1 DEF TimingIInv, LatencyIsTransport
<1> QED BY <1>6, <1>7, <1>8 DEF TimingIInv

\* An operation ends: what is added to latAcc is what OperationInv says of it.
LEMMA TimingMeasure ==
    ASSUME TimingIInv, Measure
    PROVE  TimingIInv'
<1> DEFINE lat == (now - start) - TicksPerUs * processUs
<1>1. /\ at = "response" /\ at' = "loop"
      /\ UNCHANGED <<workload, now, start, fillStart, processUs, outside>>
      /\ outside \in Seq(Nat) /\ latAcc \in Seq(Int)
      /\ Len(latAcc) < OpCount /\ Len(outside) = Len(latAcc) + 1
  BY DEF Measure, TimingIInv, TimingTypeOK, OperationInv
<1>2. /\ lat \in Int
      /\ lat - outside[Len(outside)] \in 0..(TicksPerUs - 1)
      /\ outside[Len(outside)] > 0
  BY <1>1, TimingAssumption DEF TimingIInv, TimingTypeOK, OperationInv
<1>3. latAcc' = Append(latAcc, lat)
  BY DEF Measure
<1> HIDE DEF lat
<1>4. /\ latAcc' \in Seq(Int) /\ Len(latAcc') = Len(latAcc) + 1
      /\ latAcc'[Len(latAcc) + 1] = lat
      /\ \A i \in 1..Len(latAcc) : latAcc'[i] = latAcc[i]
  BY <1>1, <1>2, <1>3
<1>5. TimingTypeOK'
  BY <1>1, <1>4, TimingAssumption DEF TimingIInv, TimingTypeOK
<1>6. OperationInv'
  BY <1>1, <1>4 DEF OperationInv
<1>7. LatencyIsTransport'
  <2> SUFFICES ASSUME NEW i \in 1..(Len(latAcc) + 1)
               PROVE  /\ latAcc'[i] - outside[i] \in 0..(TicksPerUs - 1)
                      /\ latAcc'[i] > 0
    BY <1>1, <1>4 DEF LatencyIsTransport
  <2>1. CASE i = Len(latAcc) + 1
    <3>1. outside[Len(outside)] \in Nat
      BY <1>1
    <3> QED BY <1>1, <1>2, <1>4, <2>1, <3>1, TimingAssumption
  <2>2. CASE i \in 1..Len(latAcc)
    BY <1>4, <2>2 DEF TimingIInv, LatencyIsTransport
  <2> QED BY <1>1, <2>1, <2>2
<1> QED BY <1>5, <1>6, <1>7 DEF TimingIInv

\* Time passes: it is counted in the last entry of outside, or not at all.
LEMMA TimingTick ==
    ASSUME TimingIInv, Tick
    PROVE  TimingIInv'
<1>1. /\ now' = now + 1 /\ now < MaxTime
      /\ UNCHANGED <<workload, at, start, fillStart, processUs, latAcc>>
      /\ outside \in Seq(Nat) /\ latAcc \in Seq(Int) /\ now \in Nat /\ start \in 0..now
      /\ fillStart \in Int /\ processUs \in Nat
  BY TimingAssumption DEF Tick, TimingIInv, TimingTypeOK
<1>2. CASE at \in {"request", "response"}
  <2>1. /\ outside' \in Seq(Nat) /\ Len(outside') = Len(outside)
        /\ outside'[Len(outside)] = outside[Len(outside)] + 1
        /\ \A i \in 1..(Len(outside) - 1) : outside'[i] = outside[i]
        /\ outside[Len(outside)] \in Nat
        /\ Len(outside) = Len(latAcc) + 1
    <3>1. Len(outside) = Len(latAcc) + 1 /\ Len(outside) \in 1..Len(outside)
      BY <1>1, <1>2 DEF TimingIInv, OperationInv
    <3>2. outside' = [outside EXCEPT ![Len(outside)] = @ + 1]
      BY <1>2 DEF Tick
    <3> QED BY <1>1, <3>1, <3>2
  <2>2. TimingTypeOK'
    BY <1>1, <2>1, TimingAssumption DEF TimingIInv, TimingTypeOK
  <2>3. OperationInv'
    BY <1>1, <1>2, <2>1, TimingAssumption DEF TimingIInv, OperationInv
  <2>4. LatencyIsTransport'
    <3>1. DOMAIN latAcc = 1..(Len(outside) - 1) /\ latAcc' = latAcc
      BY <1>1, <2>1
    <3> QED BY <2>1, <3>1 DEF TimingIInv, LatencyIsTransport
  <2> QED BY <2>2, <2>3, <2>4 DEF TimingIInv
<1>3. CASE at \notin {"request", "response"}
  <2>1. outside' = outside
    BY <1>3 DEF Tick
  <2>2. TimingTypeOK'
    BY <1>1, <2>1, TimingAssumption DEF TimingIInv, TimingTypeOK
  <2>3. OperationInv'
    BY <1>1, <1>3, <2>1, TimingAssumption
    DEF TimingIInv, OperationInv, ServerNow
  <2>4. LatencyIsTransport'
    BY <1>1, <2>1 DEF TimingIInv, LatencyIsTransport
  <2> QED BY <2>2, <2>3, <2>4 DEF TimingIInv
<1> QED BY <1>2, <1>3

LEMMA TimingStep == TimingIInv /\ [TimingNext]_timingVars => TimingIInv'
<1> SUFFICES ASSUME TimingIInv, [TimingNext]_timingVars
             PROVE  TimingIInv'
  OBVIOUS
<1> USE TimingAssumption DEF TimingIInv, TimingTypeOK, OperationInv,
            LatencyIsTransport
<1>1. CASE FillWrite
  <2>1. /\ at = "request" /\ at' = "response" /\ processUs' = 0
        /\ outside[Len(outside)] > 0
        /\ UNCHANGED <<workload, now, start, fillStart, latAcc, outside>>
    BY <1>1 DEF FillWrite
  <2>2. TimingTypeOK' /\ LatencyIsTransport'
    BY <2>1
  <2>3. OperationInv'
    BY <2>1
  <2> QED BY <2>2, <2>3
<1>2. CASE FillStart
  BY <1>2 DEF FillStart, ServerNow
<1>3. CASE PrintStats
  BY <1>3 DEF PrintStats
<1>4. CASE UNCHANGED timingVars
  BY <1>4 DEF timingVars, ServerNow
<1> QED BY <1>1, <1>2, <1>3, <1>4, TimingTick, TimingSendReq, TimingFillEnd, TimingMeasure
        DEF TimingNext

\* Whatever the clocks' offset and resolution and however the time is spread
\* over an operation, main counts as its latency what passed outside of the
\* server's measured processing, and less than a microsecond more.
THEOREM LatencyMeasured == TimingSpec => []LatencyIsTransport
<1>1. TimingIInv => LatencyIsTransport
  BY DEF TimingIInv
<1> QED BY <1>1, TimingStarts, TimingStep, PTL DEF TimingSpec

\* The variables of the measurement keep their types.
THEOREM TimingTypeCorrect == TimingSpec => []TimingTypeOK
<1>1. TimingIInv => TimingTypeOK
  BY DEF TimingIInv
<1> QED BY <1>1, TimingStarts, TimingStep, PTL DEF TimingSpec

-----------------------------------------------------------------------------
(* GrpcGreeter                                                             *)

LEMMA GreeterStarts == Init => IInv
<1> SUFFICES ASSUME Init
             PROVE  IInv
  OBVIOUS
<1>1. TypeOK
  <2>1. srv \in BOOLEAN
    BY Zenon DEF Init
  <2>2. MaxBoots \in Nat /\ boots = 0
    BY GrpcGreeterAssumption DEF Init
  <2>3. boots \in 0..MaxBoots
    BY <2>2
  <2>4. cq \in [Client -> SUBSET {1}]
    BY DEF Init
  <2> QED BY <2>1, <2>3, <2>4 DEF Init, TypeOK
<1>2. PlaceInv
  BY DEF Init, PlaceInv, Completed
<1>3. FrameInv
  BY DEF Init, FrameInv
<1>4. LineIsResult
  BY DEF Init, LineIsResult
<1> QED BY <1>1, <1>2, <1>3, <1>4 DEF IInv

\* The call is made.
LEMMA GreeterMakes ==
    ASSUME IInv, NEW c \in Client,
           SayHello(c) \/ StartCall(c)
    PROVE  IInv'
<1> USE DEF IInv, SayHello, StartCall, Makes,
            Goes, serverVars, frameVars
<1>1. TypeOK'
  BY DEF TypeOK, Client
<1>2. PlaceInv'
  BY DEF TypeOK, PlaceInv, Completed
<1>3. FrameInv'
  BY DEF TypeOK, PlaceInv, FrameInv
<1>4. LineIsResult'
  BY DEF TypeOK, LineIsResult
<1> QED BY <1>1, <1>2, <1>3, <1>4

LEMMA GreeterFinish ==
    ASSUME IInv, NEW c \in Client, Finish(c)
    PROVE  IInv'
<1> USE DEF IInv, Finish, Goes, serverVars, frameVars
<1>1. TypeOK'
  BY DEF TypeOK
<1>2. PlaceInv'
  BY DEF TypeOK, PlaceInv, Completed
<1>3. FrameInv' /\ LineIsResult'
  BY DEF TypeOK, FrameInv, LineIsResult
<1> QED BY <1>1, <1>2, <1>3

\* The tag that comes out of the queue is the one of Finish.
LEMMA GreeterCqNext ==
    ASSUME IInv, NEW c \in Client, CqNext(c)
    PROVE  IInv'
<1>1. /\ c \in AsyncClient /\ pc[c] = "wait" /\ cq[c] = {1}
      /\ cq' = [cq EXCEPT ![c] = {}]
      /\ pc' = [pc EXCEPT ![c] = "back"]
      /\ UNCHANGED <<srv, boots, call, asked, reply, status, line>>
  <2>1. PICK tag \in cq[c] :
            /\ cq' = [cq EXCEPT ![c] = @ \ {tag}]
            /\ pc' = [pc EXCEPT ![c] = IF tag = 1 THEN "back" ELSE "aborted"]
    BY DEF CqNext, Goes
  <2>2. cq[c] \in SUBSET {1}
    BY DEF IInv, TypeOK
  <2>3. tag = 1 /\ cq[c] = {1} /\ cq[c] \ {tag} = {}
    BY <2>1, <2>2
  <2> QED BY <2>1, <2>3 DEF CqNext, serverVars, frameVars
<1>2. TypeOK'
  BY <1>1 DEF IInv, TypeOK
<1>3. PlaceInv'
  BY <1>1 DEF IInv, TypeOK, PlaceInv, Completed
<1>4. FrameInv' /\ LineIsResult'
  BY <1>1 DEF IInv, TypeOK, FrameInv, LineIsResult
<1> QED BY <1>2, <1>3, <1>4 DEF IInv

\* SayHello is back: its status is that of the call, and so is what is printed.
LEMMA GreeterReturn ==
    ASSUME IInv, NEW c \in Client, Return(c)
    PROVE  IInv'
<1>1. /\ pc[c] = "back" /\ pc' = [pc EXCEPT ![c] = "ended"]
      /\ UNCHANGED <<srv, boots, call, asked, cq, reply, status>>
  BY DEF Return, Goes, serverVars, frameVars
<1>2. line' = [line EXCEPT ![c] = IF call[c] = "answered" THEN c ELSE Failed]
  <2>1. call[c] \in {"answered", "failed"}
    BY <1>1 DEF IInv, PlaceInv, Completed
  <2>2. /\ reply[c] = IF call[c] = "answered" THEN c ELSE NoName
        /\ status[c] = IF call[c] = "failed" THEN "error" ELSE "OK"
    BY DEF IInv, FrameInv
  <2> QED BY <2>1, <2>2 DEF Return
<1>3. TypeOK'
  BY <1>1, <1>2 DEF IInv, TypeOK
<1>4. PlaceInv'
  BY <1>1 DEF IInv, TypeOK, PlaceInv, Completed
<1>5. FrameInv'
  BY <1>1 DEF IInv, FrameInv
<1>6. LineIsResult'
  BY <1>1, <1>2 DEF IInv, TypeOK, LineIsResult
<1> QED BY <1>3, <1>4, <1>5, <1>6 DEF IInv

\* gRPC writes the result, and only then lets the client go on.
LEMMA GreeterComplete ==
    ASSUME IInv, NEW c \in Client, Complete(c)
    PROVE  IInv'
<1>1. /\ asked[c] /\ call[c] \in {"served", "lost"}
      /\ call' = [call EXCEPT ![c] = IF call[c] = "served" THEN "answered" ELSE "failed"]
      /\ reply' = IF call[c] = "served" THEN [reply EXCEPT ![c] = c] ELSE reply
      /\ status' = IF call[c] = "served" THEN status ELSE [status EXCEPT ![c] = "error"]
      /\ UNCHANGED <<srv, boots, asked, line>>
  BY DEF Complete, serverVars
<1>2. IF c \in AsyncClient
      THEN cq' = [cq EXCEPT ![c] = {1}] /\ pc' = pc
      ELSE cq' = cq /\ pc' = [pc EXCEPT ![c] = "back"]
  BY DEF Complete, Goes
<1>3. pc[c] = "wait" /\ ~Completed(c) /\ cq[c] \in SUBSET {1}
  BY <1>1 DEF IInv, TypeOK, PlaceInv, Completed
<1>4. TypeOK'
  BY <1>1, <1>2 DEF IInv, TypeOK
<1>5. PlaceInv'
  <2>1. \A d \in Client : d # c =>
            /\ pc'[d] = pc[d] /\ call'[d] = call[d] /\ cq'[d] = cq[d]
    BY <1>1, <1>2 DEF IInv, TypeOK
  <2>2. call'[c] \in {"answered", "failed"}
    BY <1>1 DEF IInv, TypeOK
  <2>3. CASE c \in AsyncClient
    <3>1. pc'[c] = "wait" /\ cq'[c] = {1}
      BY <1>2, <1>3, <2>3 DEF IInv, TypeOK
    <3>2. asked' = asked /\ asked[c] /\ Completed(c)'
      BY <1>1, <2>2 DEF Completed
    <3> SUFFICES ASSUME NEW d \in Client
                 PROVE  PlaceInv!(d)'
      BY DEF PlaceInv
    <3>3. CASE d = c
      BY <2>3, <3>1, <3>2, <3>3
    <3>4. CASE d # c
      BY <2>1, <3>2, <3>4 DEF IInv, PlaceInv, Completed
    <3> QED BY <3>3, <3>4
  <2>4. CASE c \notin AsyncClient
    <3>1. pc'[c] = "back" /\ cq'[c] = {}
      BY <1>2, <1>3, <2>4 DEF IInv, TypeOK, PlaceInv
    <3> QED BY <1>1, <1>3, <2>1, <2>2, <2>4, <3>1
            DEF IInv, PlaceInv, Completed
  <2> QED BY <2>3, <2>4
<1>6. FrameInv'
  BY <1>1 DEF IInv, TypeOK, FrameInv
<1>7. LineIsResult'
  BY <1>1, <1>2, <1>3 DEF IInv, TypeOK, LineIsResult
<1> QED BY <1>4, <1>5, <1>6, <1>7 DEF IInv

\* The state of calls that gRPC has not completed changes.
LEMMA GreeterCalls ==
    ASSUME IInv,
           call' \in [Client ->
                 {"none", "sent", "served", "silent", "lost", "answered", "failed"}],
           \A c \in Client :
               call'[c] # call[c] => call[c] \in {"sent", "served", "silent"}
                                     /\ call'[c] \in {"served", "silent", "lost"},
           UNCHANGED <<pc, asked, cq, reply, status, line>>,
           srv' \in BOOLEAN, boots' = boots
    PROVE  IInv'
<1>1. TypeOK'
  BY DEF IInv, TypeOK
<1>2. PlaceInv'
  BY DEF IInv, PlaceInv, Completed
<1>3. FrameInv'
  BY DEF IInv, FrameInv
<1>4. LineIsResult'
  <2>1. \A c \in Client : pc[c] = "ended" => call[c] \in {"answered", "failed"}
    BY DEF IInv, PlaceInv, Completed
  <2> QED BY <2>1 DEF IInv, LineIsResult
<1> QED BY <1>1, <1>2, <1>3, <1>4 DEF IInv

LEMMA GreeterServerAndNetwork ==
    ASSUME IInv,
           \/ Kill
           \/ \E c \in Client : Serve(c) \/ Stall(c) \/ Break(c)
    PROVE  IInv'
<1> USE DEF serverVars, frameVars
<1>1. CASE Kill
  <2>1. call' = [c \in Client |-> IF call[c] = "sent" THEN "lost" ELSE call[c]]
        /\ srv' \in BOOLEAN /\ boots' = boots
        /\ UNCHANGED <<pc, asked, cq, reply, status, line>>
    BY <1>1 DEF Kill
  <2>2. call \in [Client ->
              {"none", "sent", "served", "silent", "lost", "answered", "failed"}]
    BY DEF IInv, TypeOK
  <2> QED BY <2>1, <2>2, GreeterCalls
<1>2. CASE \E c \in Client : Serve(c) \/ Stall(c) \/ Break(c)
  <2>1. PICK c \in Client, st \in {"served", "silent", "lost"} :
            call[c] \in {"sent", "served", "silent"} /\ call' = [call EXCEPT ![c] = st]
    BY <1>2 DEF Serve, Stall, Break
  <2>2. srv' \in BOOLEAN /\ boots' = boots
        /\ UNCHANGED <<pc, asked, cq, reply, status, line>>
    BY <1>2 DEF Serve, Stall, Break, IInv, TypeOK
  <2>3. call \in [Client ->
              {"none", "sent", "served", "silent", "lost", "answered", "failed"}]
    BY DEF IInv, TypeOK
  <2> QED BY <2>1, <2>2, <2>3, GreeterCalls
<1> QED BY <1>1, <1>2

LEMMA GreeterStep == IInv /\ [Next]_vars => IInv'
<1> SUFFICES ASSUME IInv, [Next]_vars
             PROVE  IInv'
  OBVIOUS
<1>1. CASE RunServer
  <2>1. TypeOK'
    BY <1>1, GrpcGreeterAssumption DEF RunServer, IInv, TypeOK,
                frameVars
  <2> QED BY <1>1, <2>1
          DEF RunServer, IInv, PlaceInv, FrameInv,
              LineIsResult, Completed, frameVars
<1>2. CASE UNCHANGED vars
  BY <1>2 DEF vars, serverVars, frameVars, IInv,
              TypeOK, PlaceInv, FrameInv, LineIsResult,
              Completed
<1> QED BY <1>1, <1>2, GreeterMakes, GreeterFinish, GreeterCqNext, GreeterReturn,
           GreeterComplete, GreeterServerAndNetwork
        DEF Next, ClientStep, AllEnded

\* However calls, losses and the server's end interleave, gRPC writes into
\* the frame of SayHello only while that waits.
THEOREM GreeterFrames == Spec => []FrameIsThere
<1>1. IInv => FrameIsThere
  BY DEF IInv, TypeOK, PlaceInv, Completed,
         FrameIsThere
<1> QED BY <1>1, GreeterStarts, GreeterStep, PTL DEF Spec

\* A client of either kind prints its own greeting if its call was answered,
\* and otherwise that it failed, for any clients and server processes.
THEOREM GreeterLines == Spec => []LineIsResult
<1>1. IInv => LineIsResult
  BY DEF IInv
<1> QED BY <1>1, GreeterStarts, GreeterStep, PTL DEF Spec

\* The variables of the greeter keep their types.
THEOREM GreeterTypeCorrect == Spec => []TypeOK
<1>1. IInv => TypeOK
  BY DEF IInv
<1> QED BY <1>1, GreeterStarts, GreeterStep, PTL DEF Spec

-----------------------------------------------------------------------------
(* CapnpStream                                                             *)

\* The first strings and the next one are the first strings again.
LEMMA NextString ==
    ASSUME NumStrings \in Nat, NEW s \in Seq(1..NumStrings),
           Len(s) < NumStrings, s = FirstStrings(Len(s))
    PROVE  /\ Append(s, Len(s) + 1) \in Seq(1..NumStrings)
           /\ Len(Append(s, Len(s) + 1)) = Len(s) + 1
           /\ Append(s, Len(s) + 1) = FirstStrings(Len(s) + 1)
<1>1. Len(s) \in Nat /\ Len(s) + 1 \in 1..NumStrings
  OBVIOUS
<1>2. /\ Append(s, Len(s) + 1) \in Seq(1..NumStrings)
      /\ Len(Append(s, Len(s) + 1)) = Len(s) + 1
  BY <1>1
<1>3. \A i \in 1..(Len(s) + 1) : Append(s, Len(s) + 1)[i] = i
  BY <1>1 DEF FirstStrings
<1>4. Append(s, Len(s) + 1) = [i \in 1..(Len(s) + 1) |-> Append(s, Len(s) + 1)[i]]
  BY <1>2
<1> QED BY <1>2, <1>3, <1>4 DEF FirstStrings

LEMMA StreamStarts == StreamInit => StreamIInv
<1> SUFFICES ASSUME StreamInit PROVE StreamIInv
  OBVIOUS
<1>1. StreamTypeOK
  BY CapnpStreamAssumption DEF StreamInit, StreamTypeOK, Ended
<1>2. ProgressInv
  BY DEF StreamInit, ProgressInv
<1>3. StringsInv
  BY DEF StreamInit, StringsInv, FirstStrings
<1> QED BY <1>1, <1>2, <1>3 DEF StreamIInv

\* Steps that move a program or the connection, and no string.
LEMMA StreamMoves ==
    ASSUME StreamIInv, NEW c \in StreamClient,
           \/ Main(c) \/ Wait(c) \/ ReqReply(c)
           \/ Done(c) \/ DoneAnswers(c) \/ ConnectionBreaks(c)
    PROVE  StreamIInv'
<1>1. UNCHANGED <<toSvc, svcVec, toReply, vec, printed>>
  BY DEF Main, Wait, ReqReply, Done, DoneAnswers,
         ConnectionBreaks
<1>2. StreamTypeOK' /\ ProgressInv'
  <2> USE DEF StreamIInv, StreamTypeOK, ProgressInv, Ended
  <2>1. CASE Main(c)
    BY <2>1 DEF Main
  <2>2. CASE Wait(c)
    BY <2>2 DEF Wait
  <2>3. CASE ReqReply(c)
    BY <2>3 DEF ReqReply
  <2>4. CASE Done(c)
    BY <2>4 DEF Done
  <2>5. CASE DoneAnswers(c)
    BY <2>5 DEF DoneAnswers
  <2>6. CASE ConnectionBreaks(c)
    BY <2>6 DEF ConnectionBreaks
  <2> QED BY <2>1, <2>2, <2>3, <2>4, <2>5, <2>6
<1>3. \A d \in StreamClient :
          svc'[d] \in {"finished", "answered"} <=> svc[d] \in {"finished", "answered"}
  BY DEF Main, Wait, ReqReply, Done, DoneAnswers,
         ConnectionBreaks, StreamIInv, StreamTypeOK
<1>4. StringsInv'
  BY <1>1, <1>3 DEF StreamIInv, StringsInv
<1> QED BY <1>2, <1>4 DEF StreamIInv

\* The client sends a string, or its done.
LEMMA StreamSendStrings ==
    ASSUME StreamIInv, NEW c \in StreamClient, SendStrings(c)
    PROVE  StreamIInv'
<1>1. /\ chain[c] = "sending" /\ conn[c] = "open"
      /\ UNCHANGED <<conn, svc, svcVec, toReply, vec, printed>>
      /\ toSvc \in [StreamClient -> 0..NumStrings] /\ NumStrings \in Nat
  BY CapnpStreamAssumption DEF StreamIInv, StreamTypeOK, SendStrings
<1>2. CASE toSvc[c] = NumStrings
  <2>1. chain' = [chain EXCEPT ![c] = "awaiting"] /\ toSvc' = toSvc
    BY <1>2 DEF SendStrings
  <2>2. StreamTypeOK'
    BY <1>1, <2>1 DEF StreamIInv, StreamTypeOK, Ended
  <2>3. ProgressInv'
    BY <1>1, <1>2, <2>1 DEF StreamIInv, StreamTypeOK, ProgressInv
  <2>4. StringsInv'
    BY <1>1, <2>1 DEF StreamIInv, StringsInv
  <2> QED BY <2>2, <2>3, <2>4 DEF StreamIInv
<1>3. CASE toSvc[c] # NumStrings
  <2>1. chain' = chain /\ toSvc' = [toSvc EXCEPT ![c] = toSvc[c] + 1]
    BY <1>3 DEF SendStrings
  <2>2. /\ toSvc' \in [StreamClient -> 0..NumStrings]
        /\ \A d \in StreamClient : toSvc'[d] >= toSvc[d] /\ (d # c => toSvc'[d] = toSvc[d])
    BY <1>1, <1>3, <2>1
  <2>3. StreamTypeOK'
    BY <1>1, <2>1, <2>2 DEF StreamIInv, StreamTypeOK
  <2>4. ProgressInv'
    BY <1>1, <2>1, <2>2 DEF StreamIInv, ProgressInv
  <2>5. \A d \in StreamClient : Len(svcVec'[d]) <= toSvc'[d]
    <3> SUFFICES ASSUME NEW d \in StreamClient
                 PROVE  Len(svcVec'[d]) <= toSvc'[d]
      OBVIOUS
    <3>1. /\ svcVec'[d] = svcVec[d] /\ Len(svcVec[d]) \in Nat
          /\ Len(svcVec[d]) <= toSvc[d]
      BY <1>1 DEF StreamIInv, StreamTypeOK, StringsInv
    <3>2. toSvc[d] \in Nat /\ toSvc'[d] \in Nat /\ toSvc'[d] >= toSvc[d]
      BY <1>1, <2>2
    <3> QED BY <3>1, <3>2
  <2>6. StringsInv'
    BY <1>1, <2>5 DEF StreamIInv, StringsInv
  <2> QED BY <2>3, <2>4, <2>6 DEF StreamIInv
<1> QED BY <1>2, <1>3

\* The server sends back a string, or its done.
LEMMA StreamSendReplyStrings ==
    ASSUME StreamIInv, NEW c \in StreamClient, SendReplyStrings(c)
    PROVE  StreamIInv'
<1>1. /\ svc[c] = "replying" /\ conn[c] = "open"
      /\ UNCHANGED <<chain, conn, toSvc, svcVec, vec, printed>>
      /\ toReply \in [StreamClient -> 0..NumStrings] /\ NumStrings \in Nat
      /\ Len(svcVec[c]) = NumStrings
  BY CapnpStreamAssumption DEF StreamIInv, StreamTypeOK, ProgressInv,
         SendReplyStrings
<1>2. CASE toReply[c] = NumStrings
  <2>1. svc' = [svc EXCEPT ![c] = "finishing"] /\ toReply' = toReply
    BY <1>1, <1>2 DEF SendReplyStrings
  <2>2. StreamTypeOK'
    BY <1>1, <2>1 DEF StreamIInv, StreamTypeOK
  <2>3. ProgressInv'
    BY <1>1, <1>2, <2>1 DEF StreamIInv, StreamTypeOK, ProgressInv
  <2>4. \A d \in StreamClient :
            svc'[d] \in {"finished", "answered"} <=> svc[d] \in {"finished", "answered"}
    BY <1>1, <2>1 DEF StreamIInv, StreamTypeOK
  <2>5. StringsInv'
    BY <1>1, <2>1, <2>4 DEF StreamIInv, StringsInv
  <2> QED BY <2>2, <2>3, <2>5 DEF StreamIInv
<1>3. CASE toReply[c] # NumStrings
  <2>1. svc' = svc /\ toReply' = [toReply EXCEPT ![c] = toReply[c] + 1]
    BY <1>1, <1>3 DEF SendReplyStrings
  <2>2. /\ toReply' \in [StreamClient -> 0..NumStrings]
        /\ toReply'[c] = toReply[c] + 1
        /\ \A d \in StreamClient : d # c => toReply'[d] = toReply[d]
    BY <1>1, <1>3, <2>1
  <2>3. StreamTypeOK'
    BY <1>1, <2>1, <2>2 DEF StreamIInv, StreamTypeOK
  <2>4. ProgressInv'
    BY <1>1, <2>1, <2>2 DEF StreamIInv, ProgressInv
  <2>5. toReply'[c] <= Len(svcVec[c]) /\ Len(vec[c]) <= toReply'[c]
    <3>1. /\ Len(vec[c]) \in Nat /\ Len(vec[c]) <= toReply[c]
          /\ toReply[c] \in 0..NumStrings
      BY DEF StreamIInv, StreamTypeOK, StringsInv
    <3> QED BY <1>1, <1>3, <2>2, <3>1
  <2>6. StringsInv'
    BY <1>1, <2>1, <2>2, <2>5 DEF StreamIInv, StringsInv
  <2> QED BY <2>3, <2>4, <2>6 DEF StreamIInv
<1> QED BY <1>2, <1>3

\* A string arrives at the server. It is the next one, and the server's done
\* has not been run.
LEMMA StreamSendChunk ==
    ASSUME StreamIInv, NEW c \in StreamClient, SendChunk(c)
    PROVE  StreamIInv' /\ svc[c] = "collecting"
<1>1. /\ svcVec[c] \in Seq(1..NumStrings) /\ Len(svcVec[c]) < NumStrings
      /\ svcVec[c] = FirstStrings(Len(svcVec[c])) /\ NumStrings \in Nat
      /\ toSvc[c] \in 0..NumStrings /\ Len(svcVec[c]) + 1 <= toSvc[c]
  BY CapnpStreamAssumption DEF StreamIInv, StreamTypeOK, StringsInv, SendChunk
<1>2. svc[c] = "collecting"
  BY <1>1 DEF StreamIInv, StreamTypeOK, ProgressInv, SendChunk
<1> DEFINE s == Append(svcVec[c], Len(svcVec[c]) + 1)
<1>3. /\ s \in Seq(1..NumStrings) /\ Len(s) = Len(svcVec[c]) + 1
      /\ s = FirstStrings(Len(s))
  BY <1>1, NextString
<1>4. /\ svcVec' = [svcVec EXCEPT ![c] = s]
      /\ UNCHANGED <<chain, conn, toSvc, svc, toReply, vec, printed>>
  BY DEF SendChunk
<1> HIDE DEF s
<1>5. /\ svcVec'[c] = s
      /\ \A d \in StreamClient : d # c => svcVec'[d] = svcVec[d]
  BY <1>4 DEF StreamIInv, StreamTypeOK
<1>6. StreamTypeOK'
  BY <1>3, <1>4 DEF StreamIInv, StreamTypeOK
<1>7. ProgressInv'
  BY <1>2, <1>4, <1>5 DEF StreamIInv, ProgressInv
<1>8. StringsInv'
  BY <1>1, <1>2, <1>3, <1>4, <1>5
  DEF StreamIInv, StreamTypeOK, ProgressInv, StringsInv
<1> QED BY <1>2, <1>6, <1>7, <1>8 DEF StreamIInv

\* A string arrives at the client: the one of the server's that is next.
LEMMA StreamReplyChunk ==
    ASSUME StreamIInv, NEW c \in StreamClient, ReplyChunk(c)
    PROVE  StreamIInv'
<1>1. /\ vec[c] \in Seq(1..NumStrings) /\ vec[c] = FirstStrings(Len(vec[c]))
      /\ svcVec[c] \in Seq(1..NumStrings)
      /\ svcVec[c] = FirstStrings(Len(svcVec[c]))
      /\ Len(vec[c]) < toReply[c] /\ toReply[c] <= Len(svcVec[c])
      /\ toReply[c] \in 0..NumStrings /\ NumStrings \in Nat
  BY CapnpStreamAssumption DEF StreamIInv, StreamTypeOK, StringsInv, ReplyChunk
<1>2. /\ svcVec[c][Len(vec[c]) + 1] = Len(vec[c]) + 1
      /\ Len(vec[c]) < NumStrings
  BY <1>1 DEF FirstStrings
<1>3. svc[c] \notin {"finished", "answered"}
  BY <1>1 DEF StreamIInv, ProgressInv
<1> DEFINE s == Append(vec[c], Len(vec[c]) + 1)
<1>4. /\ s \in Seq(1..NumStrings) /\ Len(s) = Len(vec[c]) + 1
      /\ s = FirstStrings(Len(s))
  BY <1>1, <1>2, NextString
<1>5. /\ vec' = [vec EXCEPT ![c] = s]
      /\ UNCHANGED <<chain, conn, toSvc, svc, svcVec, toReply, printed>>
  BY <1>2 DEF ReplyChunk
<1> HIDE DEF s
<1>6. /\ vec'[c] = s
      /\ \A d \in StreamClient : d # c => vec'[d] = vec[d]
  BY <1>5 DEF StreamIInv, StreamTypeOK
<1>7. StreamTypeOK'
  BY <1>4, <1>5 DEF StreamIInv, StreamTypeOK
<1>8. ProgressInv'
  BY <1>3, <1>5, <1>6 DEF StreamIInv, ProgressInv
<1>9. StringsInv'
  <2>1. Len(s) <= toReply[c]
    BY <1>1, <1>4
  <2> QED BY <1>1, <1>3, <1>4, <1>5, <1>6, <2>1 DEF StreamIInv, StringsInv
<1> QED BY <1>7, <1>8, <1>9 DEF StreamIInv

\* The strings that came back are printed, behind the last of them.
LEMMA StreamReplyDone ==
    ASSUME StreamIInv, NEW c \in StreamClient, ReplyDone(c)
    PROVE  StreamIInv'
<1>1. /\ svc[c] = "finishing" /\ chain[c] = "awaiting" /\ Len(vec[c]) = NumStrings
      /\ svc' = [svc EXCEPT ![c] = "finished"]
      /\ UNCHANGED <<chain, conn, toSvc, svcVec, toReply, vec>>
  BY DEF StreamIInv, ProgressInv, ReplyDone
<1>2. printed' = [printed EXCEPT ![c] = <<vec[c]>>]
  <2>1. printed[c] = <<>>
    BY <1>1 DEF StreamIInv, StringsInv
  <2>2. Append(printed[c], vec[c]) = <<vec[c]>>
    BY <2>1
  <2> QED BY <2>2 DEF ReplyDone
<1>3. StreamTypeOK'
  <2>1. vec[c] \in Seq(1..NumStrings)
    BY DEF StreamIInv, StreamTypeOK
  <2>2. <<vec[c]>> \in Seq(Seq(1..NumStrings))
    BY <2>1
  <2> QED BY <1>1, <1>2, <2>2 DEF StreamIInv, StreamTypeOK
<1>4. ProgressInv'
  BY <1>1 DEF StreamIInv, StreamTypeOK, ProgressInv
<1>5. StringsInv'
  BY <1>1, <1>2 DEF StreamIInv, StreamTypeOK, StringsInv
<1> QED BY <1>3, <1>4, <1>5 DEF StreamIInv

LEMMA StreamStep == StreamIInv /\ [StreamNext]_streamVars => StreamIInv'
<1> SUFFICES ASSUME StreamIInv, [StreamNext]_streamVars
             PROVE  StreamIInv'
  OBVIOUS
<1>1. CASE \E c \in StreamClient :
               StreamClientStep(c) \/ StreamServerStep(c) \/ ConnectionBreaks(c)
  <2>1. PICK c \in StreamClient :
            StreamClientStep(c) \/ StreamServerStep(c) \/ ConnectionBreaks(c)
    BY <1>1
  <2> QED BY <2>1, StreamMoves, StreamSendStrings, StreamSendReplyStrings,
             StreamSendChunk, StreamReplyChunk, StreamReplyDone
          DEF StreamClientStep, StreamServerStep
<1>2. CASE UNCHANGED streamVars
  BY <1>2 DEF streamVars, StreamIInv, StreamTypeOK, ProgressInv,
              StringsInv
<1> QED BY <1>1, <1>2 DEF StreamNext, StreamsEnded

\* When main's wait has returned, every string has been to the server and
\* back, in order, and what came back has been printed, once: for any number
\* of strings and whatever the flow control lets through at a time.
THEOREM StreamReturnsAll == StreamSpec => []ReturnsAll
<1>1. StreamIInv => ReturnsAll
  <2> SUFFICES ASSUME StreamIInv, NEW c \in StreamClient, chain[c] = "returned"
               PROVE  printed[c] = <<AllStrings>> /\ svcVec[c] = AllStrings
    BY DEF ReturnsAll
  <2>1. svc[c] = "answered" /\ Len(svcVec[c]) = NumStrings /\ Len(vec[c]) = NumStrings
    BY DEF StreamIInv, ProgressInv
  <2>2. svcVec[c] = AllStrings /\ vec[c] = AllStrings
    BY <2>1 DEF StreamIInv, StringsInv, FirstStrings, AllStrings
  <2> QED BY <2>1, <2>2 DEF StreamIInv, StringsInv
<1> QED BY <1>1, StreamStarts, StreamStep, PTL DEF StreamSpec

\* Nothing is added to the server's _vec as long as its chain of promises,
\* which has a reference to it, is running.
THEOREM StreamVecIsStable == StreamSpec => VecIsStable
<1> DEFINE Stable == \A c \in StreamClient : svc[c] = "replying" => svcVec'[c] = svcVec[c]
<1>1. StreamIInv /\ [StreamNext]_streamVars => [Stable]_streamVars
  <2> SUFFICES ASSUME StreamIInv, StreamNext, NEW d \in StreamClient, svc[d] = "replying"
               PROVE  svcVec'[d] = svcVec[d]
    OBVIOUS
  <2>1. CASE svcVec' = svcVec
    BY <2>1
  <2>2. CASE svcVec' # svcVec
    <3>1. PICK c \in StreamClient : SendChunk(c)
      BY <2>2 DEF StreamNext, StreamsEnded, streamVars, StreamClientStep,
         StreamServerStep, Main, SendStrings, ReplyChunk,
         ReplyDone, Wait, ReqReply, Done,
         SendReplyStrings, DoneAnswers, ConnectionBreaks
    <3>2. c # d
      BY <3>1, StreamSendChunk
    <3> QED BY <3>1, <3>2 DEF SendChunk, StreamIInv, StreamTypeOK
  <2> QED BY <2>1, <2>2
<1> QED BY <1>1, StreamStarts, StreamStep, PTL DEF StreamSpec, VecIsStable

\* The variables of the streaming sample keep their types.
THEOREM StreamTypeCorrect == StreamSpec => []StreamTypeOK
<1>1. StreamIInv => StreamTypeOK
  BY DEF StreamIInv
<1> QED BY <1>1, StreamStarts, StreamStep, PTL DEF StreamSpec

-----------------------------------------------------------------------------
(* Calculator.  The reference is a recursive function: that it is what its *)
(* definition says has to be shown first, by a first node of which it is   *)
(* not.  Then, step by step: what there is of a promise is its value.      *)

-----------------------------------------------------------------------------
(* The occurrences of expressions, and the order they are evaluated in.    *)

\* A node comes before those of later steps, and before those behind it.
Before(p, o) == p.of < o.of \/ (p.of = o.of /\ p.node < o.node)

Outcome == {Broken} \cup {Fulfilled(x) : x \in Number}

\* A promise is one of three kinds.
LEMMA Promises ==
    /\ Broken # Pending /\ Broken.st = "broken" /\ Pending.st = "pending"
    /\ \A x : /\ Fulfilled(x) # Broken /\ Fulfilled(x) # Pending
             /\ Fulfilled(x).val = x /\ Fulfilled(x).st = "fulfilled"
BY DEF Broken, Pending, Fulfilled

\* A set of numbers has a least one.
LEMMA LeastNumber ==
    ASSUME NEW S \in SUBSET Nat, S # {}
    PROVE  \E n \in S : \A m \in S : n <= m
<1> DEFINE Smaller == {ss \in Nat \X Nat : ss[1] < ss[2]}
<1>1. IsWellFoundedOn(Smaller, Nat)
  BY NatLessThanWellFounded DEF OpToRel
<1>2. PICK n \in S : \A m \in S : <<m, n>> \notin Smaller
  BY <1>1, WFMin
<1>3. ASSUME NEW m \in S, m < n PROVE FALSE
  <2>1. <<m, n>> \in Smaller
    BY <1>3
  <2> QED BY <1>2, <2>1
<1> HIDE DEF Smaller
<1> QED BY <1>3

\* Of some occurrences one is the first: what is wrong of any is wrong of a first one.
LEMMA FirstOccurrence ==
    ASSUME NEW sc, NEW S \in SUBSET Occurrence(sc), S # {}
    PROVE  \E o \in S : \A p \in S : ~Before(p, o)
<1>1. \A o \in S : o.of \in Nat /\ o.node \in Nat
  BY DEF Occurrence
<1> DEFINE Q == {o.of : o \in S}
<1>2. PICK q \in Q : \A r \in Q : q <= r
  <2> Q \in SUBSET Nat /\ Q # {}
    BY <1>1
  <2> HIDE DEF Q
  <2> QED BY LeastNumber
<1> DEFINE N == {o.node : o \in {p \in S : p.of = q}}
<1>3. PICK n \in N : \A m \in N : n <= m
  <2> N \in SUBSET Nat /\ N # {}
    BY <1>1
  <2> HIDE DEF N
  <2> QED BY LeastNumber
<1>4. PICK o \in S : o.of = q /\ o.node = n
  OBVIOUS
<1>5. ASSUME NEW p \in S PROVE ~Before(p, o)
  <2>1. q <= p.of
    BY <1>2
  <2>2. p.of = q => n <= p.node
    BY <1>3
  <2> QED BY <1>1, <1>4, <2>1, <2>2 DEF Before
<1> QED BY <1>5

\* A function on 1..n is a sequence.
LEMMA IsSequence ==
    ASSUME NEW n \in Nat, NEW S, NEW s, s = [k \in 1..n |-> s[k]], \A k \in 1..n : s[k] \in S
    PROVE  s \in Seq(S) /\ Len(s) = n
OBVIOUS

\* The steps of a script, of which the earlier ones are steps, too.
LEMMA StepFacts ==
    ASSUME NEW sc \in Scripts, NEW q \in DOMAIN sc
    PROVE  /\ q \in Nat \ {0}
           /\ 1..q \subseteq DOMAIN sc
           /\ IsStep(sc, q)
           /\ sc[q].do \in {"evaluate", "defFunction"} => IsExpression(sc, q)
BY ScriptAssumption DEF IsStep

\* The whole of an expression is an occurrence.
LEMMA RootFacts ==
    ASSUME NEW sc \in Scripts, NEW q \in DOMAIN sc, NEW xs \in Seq(Number),
           sc[q].do \in {"evaluate", "defFunction"}
    PROVE  /\ Root(sc, q, xs) \in Occurrence(sc)
           /\ Root(sc, q, xs).of = q
           /\ Root(sc, q, xs).params = xs
BY StepFacts DEF IsExpression, Root, At, Occurrence

\* A node refers only to nodes before it.
LEMMA NodeFacts ==
    ASSUME NEW sc \in Scripts, NEW o \in Occurrence(sc), NEW e, e = sc[o.of].code[o.node]
    PROVE  /\ IsNode(sc, o.of, o.node)
           /\ o.params \in Seq(Number)
           /\ e.kind = "previousResult" =>
                /\ Root(sc, e.of, << >>) \in Occurrence(sc)
                /\ Before(Root(sc, e.of, << >>), o)
           /\ e.kind = "call" =>
                /\ Len(e.params) \in Nat
                /\ \A k \in 1..Len(e.params) :
                     /\ At(o.of, e.params[k], o.params) \in Occurrence(sc)
                     /\ Before(At(o.of, e.params[k], o.params), o)
                /\ \A xs \in Seq(Number) :
                     e.fn \in DOMAIN sc /\ sc[e.fn].do = "defFunction" =>
                        /\ Root(sc, e.fn, xs) \in Occurrence(sc)
                        /\ Before(Root(sc, e.fn, xs), o)
<1>1. /\ o.of \in DOMAIN sc
      /\ sc[o.of].do \in {"evaluate", "defFunction"}
      /\ o.node \in DOMAIN sc[o.of].code
      /\ o.of \in Nat /\ o.node \in Nat /\ o.params \in Seq(Number)
  BY DEF Occurrence
<1>2. /\ IsExpression(sc, o.of)
      /\ o.of \in Nat \ {0} /\ 1..o.of \subseteq DOMAIN sc
  BY <1>1, StepFacts
<1>3. IsNode(sc, o.of, o.node)
  BY <1>1, <1>2 DEF IsExpression
<1>4. ASSUME e.kind = "previousResult"
      PROVE  Root(sc, e.of, << >>) \in Occurrence(sc) /\ Before(Root(sc, e.of, << >>), o)
  <2>1. e.of \in 1..(o.of - 1) /\ sc[e.of].do = "evaluate"
    BY <1>3, <1>4 DEF IsNode, Earlier
  <2>2. e.of \in DOMAIN sc /\ e.of < o.of
    BY <1>2, <2>1
  <2>3. << >> \in Seq(Number)
    OBVIOUS
  <2>4. Root(sc, e.of, << >>) \in Occurrence(sc) /\ Root(sc, e.of, << >>).of = e.of
    BY <2>1, <2>2, <2>3, RootFacts
  <2> QED BY <2>2, <2>4 DEF Before
<1>5. ASSUME e.kind = "call"
      PROVE  /\ Len(e.params) \in Nat
             /\ \A k \in 1..Len(e.params) :
                   /\ At(o.of, e.params[k], o.params) \in Occurrence(sc)
                   /\ Before(At(o.of, e.params[k], o.params), o)
  <2>1. e.params \in Seq(1..(o.node - 1))
    BY <1>3, <1>5 DEF IsNode
  <2>2. Len(e.params) \in Nat
    BY <2>1
  <2>3. ASSUME NEW k \in 1..Len(e.params)
        PROVE  e.params[k] \in 1..(o.node - 1) /\ e.params[k] \in DOMAIN sc[o.of].code
    <3>1. DOMAIN sc[o.of].code = 1..Len(sc[o.of].code) /\ Len(sc[o.of].code) \in Nat
      BY <1>2 DEF IsExpression
    <3>2. e.params[k] \in 1..(o.node - 1)
      BY <2>1, ElementOfSeq
    <3> QED BY <1>1, <3>1, <3>2
  <2> QED BY <1>1, <2>2, <2>3 DEF Before, At, Occurrence
<1>6. ASSUME e.kind = "call", e.fn \in DOMAIN sc, sc[e.fn].do = "defFunction",
             NEW xs \in Seq(Number)
      PROVE  Root(sc, e.fn, xs) \in Occurrence(sc) /\ Before(Root(sc, e.fn, xs), o)
  <2>1. e.fn # Power
    BY <1>6, StepFacts DEF Power
  <2>2. e.fn \in 1..(o.of - 1)
    BY <1>3, <1>6, <2>1 DEF IsNode, Earlier
  <2>3. Root(sc, e.fn, xs) \in Occurrence(sc) /\ Root(sc, e.fn, xs).of = e.fn
    BY <1>6, RootFacts
  <2> QED BY <1>2, <2>2, <2>3 DEF Before
<1> QED BY <1>1, <1>3, <1>4, <1>5, <1>6

\* OperatorImpl and PowerFunction compute doubles.
LEMMA ArithIsNumber ==
    ASSUME NEW op \in {"ADD", "SUBTRACT", "MULTIPLY", "DIVIDE"}, NEW x \in Number, NEW y \in Number
    PROVE  Arith(op, x, y) \in Number
<1>1. CASE Untracked \in {x, y}
  BY <1>1 DEF Arith, Number
<1>2. CASE Untracked \notin {x, y}
  <2>1. x \in Int /\ y \in Int
    BY <1>2 DEF Number
  <2>2. Quotient(x, y) \in Number
    <3> DEFINE wholes == {z \in ((-x)..x) \cup (x..(-x)) : x = y * z}
    <3>1. wholes \subseteq Int
      BY <2>1
    <3>2. wholes # {} => (CHOOSE z \in wholes : TRUE) \in wholes
      OBVIOUS
    <3>3. Quotient(x, y) = IF y # 0 /\ wholes # {} THEN CHOOSE z \in wholes : TRUE ELSE Untracked
      BY DEF Quotient
    <3> HIDE DEF wholes
    <3> QED BY <3>1, <3>2, <3>3 DEF Number
  <2>3. x + y \in Int /\ x - y \in Int /\ x * y \in Int
    BY <2>1
  <2> QED BY <1>2, <2>2, <2>3 DEF Arith, Number
<1> QED BY <1>1, <1>2

LEMMA PowIsNumber ==
    ASSUME NEW x, NEW y
    PROVE  Pow(x, y) \in Number
<1>1. 1 \in Number
  BY DEF Number
<1>2. \A z : Whole(z) \in Number
  BY DEF Whole, Number
<1>3. Untracked \in Number
  BY DEF Number
<1> QED BY <1>1, <1>2, <1>3, Zenon DEF Pow

-----------------------------------------------------------------------------
(* The reference, one step of it: what a node is worth, given the others.  *)

\* ValueBy, unfolded at node e.
IsValue(sc, f, o, e) ==
    /\ e.kind = "literal" => ValueBy(sc, f, o) = Fulfilled(e.val)
    /\ e.kind = "previousResult" => ValueBy(sc, f, o) = f[Root(sc, e.of, << >>)]
    /\ e.kind = "parameter" =>
         ValueBy(sc, f, o) =
             IF e.idx < Len(o.params) THEN Fulfilled(o.params[e.idx + 1]) ELSE Broken
    /\ e.kind = "call" =>
         ValueBy(sc, f, o) =
             CallBy(sc, f, e.fn,
                    [k \in 1..Len(e.params) |-> f[At(o.of, e.params[k], o.params)]])

LEMMA Unfolded ==
    ASSUME NEW sc, NEW o, NEW f
    PROVE  IsValue(sc, f, o, sc[o.of].code[o.node])
BY DEF ValueBy, IsValue

Vals(args) == [k \in 1..Len(args) |-> args[k].val]

\* Parameters of which none is broken are numbers.
LEMMA ValsAreNumbers ==
    ASSUME NEW args \in Seq(Outcome), \A k \in 1..Len(args) : args[k] # Broken
    PROVE  /\ Vals(args) \in Seq(Number)
           /\ Len(Vals(args)) = Len(args)
           /\ \A k \in 1..Len(args) : Vals(args)[k] \in Number
<1>1. ASSUME NEW k \in 1..Len(args) PROVE args[k].val \in Number
  BY <1>1, ElementOfSeq DEF Outcome, Fulfilled
<1>2. Len(args) \in Nat
  OBVIOUS
<1>3. Vals(args) \in Seq(Number)
  BY <1>1, <1>2 DEF Vals
<1> QED BY <1>1, <1>2, <1>3 DEF Vals

\* CallBy, unfolded: none of the parameters is broken, and xs are their values.
IsCall(sc, f, q, args, xs) ==
    CallBy(sc, f, q, args) =
        IF q # Power /\ sc[q].do = "defFunction"
        THEN IF Len(xs) = sc[q].paramCount THEN f[Root(sc, q, xs)] ELSE Broken
        ELSE IF Len(xs) # 2 THEN Broken
        ELSE Fulfilled(IF q = Power THEN Pow(xs[1], xs[2]) ELSE Arith(sc[q].op, xs[1], xs[2]))

LEMMA CallUnfolded ==
    ASSUME NEW sc, NEW f, NEW q, NEW args, \A k \in 1..Len(args) : args[k] # Broken
    PROVE  IsCall(sc, f, q, args, Vals(args))
<1>1. ~\E k \in 1..Len(args) : args[k] = Broken
  OBVIOUS
<1> QED BY <1>1, Zenon DEF CallBy, Vals, IsCall

\* A call has an outcome if what it calls has.
LEMMA CallByTyped ==
    ASSUME NEW sc \in Scripts, NEW q, NEW f, NEW args \in Seq(Outcome),
           q = Power \/ (q \in DOMAIN sc /\ sc[q].do \in {"getOperator", "defFunction"}),
           \A xs \in Seq(Number) : q # Power /\ sc[q].do = "defFunction" =>
                f[Root(sc, q, xs)] \in Outcome
    PROVE  CallBy(sc, f, q, args) \in Outcome
<1>1. Broken \in Outcome
  BY DEF Outcome
<1>2. CASE \E k \in 1..Len(args) : args[k] = Broken
  BY <1>1, <1>2 DEF CallBy
<1>3. CASE ~\E k \in 1..Len(args) : args[k] = Broken
  <2>1. /\ Vals(args) \in Seq(Number)
        /\ Len(Vals(args)) = Len(args)
        /\ \A k \in 1..Len(args) : Vals(args)[k] \in Number
    BY <1>3, ValsAreNumbers
  <2>2. IsCall(sc, f, q, args, Vals(args))
    BY <1>3, CallUnfolded
  <2>3. CASE q # Power /\ sc[q].do = "defFunction"
    BY <1>1, <2>1, <2>2, <2>3 DEF IsCall
  <2>4. CASE ~(q # Power /\ sc[q].do = "defFunction") /\ Len(args) # 2
    BY <1>1, <2>1, <2>2, <2>4 DEF IsCall
  <2>5. CASE ~(q # Power /\ sc[q].do = "defFunction") /\ Len(args) = 2
    <3>1. Vals(args)[1] \in Number /\ Vals(args)[2] \in Number
      BY <2>1, <2>5
    <3>2. q # Power => sc[q].op \in {"ADD", "SUBTRACT", "MULTIPLY", "DIVIDE"}
      BY <2>5, StepFacts DEF IsStep
    <3>3. (IF q = Power THEN Pow(Vals(args)[1], Vals(args)[2])
                        ELSE Arith(sc[q].op, Vals(args)[1], Vals(args)[2])) \in Number
      BY <3>1, <3>2, ArithIsNumber, PowIsNumber
    <3> QED BY <2>1, <2>2, <2>5, <3>3 DEF IsCall, Outcome
  <2> QED BY <2>3, <2>4, <2>5
<1> QED BY <1>2, <1>3

\* A node's value is an outcome if those of what it refers to are.
LEMMA ValueByTyped ==
    ASSUME NEW sc \in Scripts, NEW o \in Occurrence(sc), NEW f,
           \A p \in Occurrence(sc) : Before(p, o) => f[p] \in Outcome
    PROVE  ValueBy(sc, f, o) \in Outcome
<1>1. PICK e : e = sc[o.of].code[o.node]
  OBVIOUS
<1>2. IsValue(sc, f, o, e)
  BY <1>1, Unfolded
<1>3. IsNode(sc, o.of, o.node) /\ o.params \in Seq(Number) /\ o.of \in DOMAIN sc
  BY NodeFacts DEF Occurrence
<1>4. CASE e.kind = "literal"
  <2>1. e.val \in Number
    BY <1>1, <1>3, <1>4 DEF IsNode
  <2> QED BY <1>4, <1>2, <2>1 DEF IsValue, Outcome
<1>5. CASE e.kind = "previousResult"
  <2>1. f[Root(sc, e.of, << >>)] \in Outcome
    BY <1>1, <1>5, NodeFacts
  <2> QED BY <1>1, <1>5, <2>1, <1>2 DEF IsValue
<1>6. CASE e.kind = "parameter"
  <2>1. e.idx \in Nat
    BY <1>1, <1>3, <1>6 DEF IsNode
  <2>2. e.idx < Len(o.params) => o.params[e.idx + 1] \in Number
    BY <1>3, <2>1, ElementOfSeq
  <2> QED BY <1>1, <1>6, <2>2, <1>2 DEF IsValue, Outcome
<1>7. CASE e.kind = "call"
  <2> DEFINE args == [k \in 1..Len(e.params) |-> f[At(o.of, e.params[k], o.params)]]
  <2>1. /\ Len(e.params) \in Nat
        /\ \A k \in 1..Len(e.params) : f[At(o.of, e.params[k], o.params)] \in Outcome
        /\ \A xs \in Seq(Number) : e.fn \in DOMAIN sc /\ sc[e.fn].do = "defFunction" =>
                f[Root(sc, e.fn, xs)] \in Outcome
    BY <1>1, <1>7, NodeFacts
  <2>2. args \in Seq(Outcome)
    BY <2>1
  <2>3. e.fn = Power \/ (e.fn \in DOMAIN sc /\ sc[e.fn].do \in {"getOperator", "defFunction"})
    BY <1>1, <1>3, <1>7, StepFacts DEF IsNode, Earlier
  <2>4. ValueBy(sc, f, o) = CallBy(sc, f, e.fn, args)
    BY <1>1, <1>7, <1>2 DEF IsValue
  <2> HIDE DEF args
  <2> QED BY <2>1, <2>2, <2>3, <2>4, CallByTyped
<1> QED BY <1>1, <1>3, <1>4, <1>5, <1>6, <1>7 DEF IsNode

-----------------------------------------------------------------------------
(* The recursion of the reference ends: there is one function that is what *)
(* each node makes of those before it.                                     *)

\* Up to o, a is what the values are.
AreValues(sc, a, o) ==
    \A p \in Occurrence(sc) : Before(p, o) => a[p] \in Outcome /\ a[p] = ValueBy(sc, a, p)

LEMMA BeforeTransitive ==
    ASSUME NEW sc, NEW o \in Occurrence(sc), NEW p \in Occurrence(sc), NEW r \in Occurrence(sc),
           Before(r, p), Before(p, o)
    PROVE  Before(r, o)
BY DEF Before, Occurrence

\* A node's value depends only on those of nodes before it.
LEMMA CallByLocal ==
    ASSUME NEW sc \in Scripts, NEW q, NEW f, NEW g, NEW args \in Seq(Outcome),
           \A xs \in Seq(Number) : q # Power /\ sc[q].do = "defFunction" =>
                f[Root(sc, q, xs)] = g[Root(sc, q, xs)]
    PROVE  CallBy(sc, f, q, args) = CallBy(sc, g, q, args)
<1>1. CASE \E k \in 1..Len(args) : args[k] = Broken
  BY <1>1 DEF CallBy
<1>2. CASE ~\E k \in 1..Len(args) : args[k] = Broken
  <2>1. Vals(args) \in Seq(Number)
    BY <1>2, ValsAreNumbers
  <2>2. q # Power /\ sc[q].do = "defFunction" =>
            f[Root(sc, q, Vals(args))] = g[Root(sc, q, Vals(args))]
    BY <2>1
  <2>3. IsCall(sc, f, q, args, Vals(args)) /\ IsCall(sc, g, q, args, Vals(args))
    BY <1>2, CallUnfolded
  <2> QED BY <2>2, <2>3 DEF IsCall
<1> QED BY <1>1, <1>2

LEMMA ValueByLocal ==
    ASSUME NEW sc \in Scripts, NEW o \in Occurrence(sc), NEW f, NEW g,
           \A p \in Occurrence(sc) : Before(p, o) => f[p] \in Outcome /\ f[p] = g[p]
    PROVE  ValueBy(sc, f, o) = ValueBy(sc, g, o)
<1>1. PICK e : e = sc[o.of].code[o.node]
  OBVIOUS
<1>2. IsValue(sc, f, o, e) /\ IsValue(sc, g, o, e)
  BY <1>1, Unfolded
<1>3. IsNode(sc, o.of, o.node) /\ o.params \in Seq(Number) /\ o.of \in DOMAIN sc
  BY NodeFacts DEF Occurrence
<1>4. CASE e.kind \in {"literal", "parameter"}
  BY <1>2, <1>4 DEF IsValue
<1>5. CASE e.kind = "previousResult"
  <2>1. f[Root(sc, e.of, << >>)] = g[Root(sc, e.of, << >>)]
    BY <1>1, <1>5, NodeFacts
  <2>2. /\ ValueBy(sc, f, o) = f[Root(sc, e.of, << >>)]
        /\ ValueBy(sc, g, o) = g[Root(sc, e.of, << >>)]
    BY <1>2, <1>5 DEF IsValue
  <2> QED BY <2>1, <2>2
<1>6. CASE e.kind = "call"
  <2> DEFINE Args(h) == [k \in 1..Len(e.params) |-> h[At(o.of, e.params[k], o.params)]]
  <2>1. /\ Len(e.params) \in Nat
        /\ \A k \in 1..Len(e.params) :
              /\ f[At(o.of, e.params[k], o.params)] \in Outcome
              /\ f[At(o.of, e.params[k], o.params)] = g[At(o.of, e.params[k], o.params)]
        /\ \A xs \in Seq(Number) : e.fn \in DOMAIN sc /\ sc[e.fn].do = "defFunction" =>
                f[Root(sc, e.fn, xs)] = g[Root(sc, e.fn, xs)]
    BY <1>1, <1>6, NodeFacts
  <2>2. Args(f) \in Seq(Outcome)
    BY <2>1
  <2>3. Args(f) = Args(g)
    BY <2>1
  <2>4. e.fn = Power \/ e.fn \in DOMAIN sc
    BY <1>1, <1>3, <1>6, StepFacts DEF IsNode, Earlier
  <2>5. ValueBy(sc, f, o) = CallBy(sc, f, e.fn, Args(f))
    BY <1>2, <1>6, Zenon DEF IsValue
  <2>6. ValueBy(sc, g, o) = CallBy(sc, g, e.fn, Args(g))
    BY <1>2, <1>6, Zenon DEF IsValue
  <2>7. CallBy(sc, f, e.fn, Args(f)) = CallBy(sc, g, e.fn, Args(f))
    <3> HIDE DEF Args
    <3> QED BY <2>1, <2>2, <2>4, CallByLocal
  <2> HIDE DEF Args
  <2> QED BY <2>3, <2>5, <2>6, <2>7
<1> QED BY <1>1, <1>3, <1>4, <1>5, <1>6 DEF IsNode

\* There is only one such function, as far as it goes.
LEMMA ValuesAgree ==
    ASSUME NEW sc \in Scripts, NEW o \in Occurrence(sc), NEW p \in Occurrence(sc),
           NEW a, NEW b, AreValues(sc, a, o), AreValues(sc, b, p)
    PROVE  \A r \in Occurrence(sc) : Before(r, o) /\ Before(r, p) => a[r] = b[r]
<1> DEFINE S == {r \in Occurrence(sc) : Before(r, o) /\ Before(r, p) /\ a[r] # b[r]}
<1>1. SUFFICES ASSUME S # {} PROVE FALSE
  OBVIOUS
<1>2. PICK r \in S : \A s \in S : ~Before(s, r)
  <2>1. S \in SUBSET Occurrence(sc)
    OBVIOUS
  <2> HIDE DEF S
  <2> QED BY <1>1, <2>1, FirstOccurrence
<1>3. r \in Occurrence(sc) /\ Before(r, o) /\ Before(r, p) /\ a[r] # b[r]
  OBVIOUS
<1>4. ASSUME NEW s \in Occurrence(sc), Before(s, r) PROVE a[s] \in Outcome /\ a[s] = b[s]
  <2>1. Before(s, o) /\ Before(s, p)
    BY <1>3, <1>4, BeforeTransitive
  <2> QED BY <1>2, <1>4, <2>1 DEF AreValues
<1>5. ValueBy(sc, a, r) = ValueBy(sc, b, r)
  BY <1>3, <1>4, ValueByLocal
<1> QED BY <1>3, <1>5 DEF AreValues

\* Those up to each node are glued together.
Glued(sc) == [p \in Occurrence(sc) |-> ValueBy(sc, CHOOSE a : AreValues(sc, a, p), p)]

\* Glued together, they are still what the values are.
LEMMA GluedValues ==
    ASSUME NEW sc \in Scripts, NEW S \in SUBSET Occurrence(sc),
           \A p \in S : \E a : AreValues(sc, a, p),
           \A p \in S, r \in Occurrence(sc) : Before(r, p) => r \in S
    PROVE  \A p \in S : /\ Glued(sc)[p] \in Outcome
                         /\ Glued(sc)[p] = ValueBy(sc, Glued(sc), p)
<1> DEFINE c(p) == CHOOSE a : AreValues(sc, a, p)
<1>1. \A p \in S : AreValues(sc, c(p), p)
  OBVIOUS
<1>2. \A p \in S : Glued(sc)[p] = ValueBy(sc, c(p), p)
  BY DEF Glued
<1> HIDE DEF c
<1>3. \A p \in S : Glued(sc)[p] \in Outcome
  BY <1>1, <1>2, ValueByTyped DEF AreValues
<1>4. ASSUME NEW p \in S, NEW r \in Occurrence(sc), Before(r, p)
      PROVE  c(p)[r] \in Outcome /\ c(p)[r] = Glued(sc)[r]
  <2>1. c(p)[r] \in Outcome /\ c(p)[r] = ValueBy(sc, c(p), r)
    BY <1>1, <1>4 DEF AreValues
  <2>2. r \in S
    BY <1>4
  <2>3. ASSUME NEW s \in Occurrence(sc), Before(s, r)
        PROVE  c(p)[s] \in Outcome /\ c(p)[s] = c(r)[s]
    <3>1. Before(s, p)
      BY <1>4, <2>3, BeforeTransitive
    <3> QED BY <1>1, <2>2, <2>3, <3>1, ValuesAgree DEF AreValues
  <2>4. ValueBy(sc, c(p), r) = ValueBy(sc, c(r), r)
    BY <2>3, ValueByLocal
  <2> QED BY <1>2, <2>1, <2>2, <2>4
<1>5. ASSUME NEW p \in S PROVE ValueBy(sc, c(p), p) = ValueBy(sc, Glued(sc), p)
  BY <1>4, ValueByLocal
<1> QED BY <1>2, <1>3, <1>5

\* Up to every node there are values: else there would be a first node with none,
\* and those of the nodes before it, glued together, are values up to it.
LEMMA ValuesExist ==
    ASSUME NEW sc \in Scripts
    PROVE  \A o \in Occurrence(sc) : \E a : AreValues(sc, a, o)
<1> DEFINE S == {o \in Occurrence(sc) : ~\E a : AreValues(sc, a, o)}
<1>1. SUFFICES ASSUME S # {} PROVE FALSE
  OBVIOUS
<1>2. PICK o \in S : \A s \in S : ~Before(s, o)
  <2>1. S \in SUBSET Occurrence(sc)
    OBVIOUS
  <2> HIDE DEF S
  <2> QED BY <1>1, <2>1, FirstOccurrence
<1> DEFINE T == {p \in Occurrence(sc) : Before(p, o)}
<1>3. \A p \in T : \E a : AreValues(sc, a, p)
  BY <1>2
<1>4. \A p \in T, r \in Occurrence(sc) : Before(r, p) => r \in T
  BY BeforeTransitive
<1>5. \A p \in T : Glued(sc)[p] \in Outcome /\ Glued(sc)[p] = ValueBy(sc, Glued(sc), p)
  <2>1. T \in SUBSET Occurrence(sc)
    OBVIOUS
  <2> HIDE DEF T
  <2> QED BY <1>3, <1>4, <2>1, GluedValues
<1>6. AreValues(sc, Glued(sc), o)
  BY <1>5 DEF AreValues
<1> QED BY <1>6

\* The reference is what its definition says it is.
LEMMA ValueEquation ==
    ASSUME NEW sc \in Scripts
    PROVE  \E value :
             /\ \A o \in Occurrence(sc) : ValueOf(sc, o) = value[o]
             /\ \A o \in Occurrence(sc) : value[o] = ValueBy(sc, value, o)
             /\ \A o \in Occurrence(sc) : value[o] \in Outcome
<1> DEFINE Eq(f) == f = [o \in Occurrence(sc) |-> ValueBy(sc, f, o)]
           value == CHOOSE f : Eq(f)
<1>1. \A o \in Occurrence(sc) : Glued(sc)[o] = ValueBy(sc, Glued(sc), o)
  BY ValuesExist, GluedValues
<1>2. Eq(Glued(sc))
  BY <1>1 DEF Glued
<1>3. Eq(value)
  BY <1>2
<1>4. \A o \in Occurrence(sc) : ValueOf(sc, o) = value[o]
  BY DEF ValueOf
<1> HIDE DEF value
<1>5. \A o \in Occurrence(sc) : value[o] = ValueBy(sc, value, o)
  BY <1>3
<1>6. \A o \in Occurrence(sc) : value[o] \in Outcome
  <2> DEFINE S == {o \in Occurrence(sc) : value[o] \notin Outcome}
  <2>1. SUFFICES ASSUME S # {} PROVE FALSE
    OBVIOUS
  <2>2. PICK o \in S : \A s \in S : ~Before(s, o)
    <3>1. S \in SUBSET Occurrence(sc)
      OBVIOUS
    <3> HIDE DEF S
    <3> QED BY <2>1, <3>1, FirstOccurrence
  <2>3. \A p \in Occurrence(sc) : Before(p, o) => value[p] \in Outcome
    BY <2>2
  <2>4. ValueBy(sc, value, o) \in Outcome
    BY <2>3, ValueByTyped
  <2> QED BY <1>5, <2>4
<1> QED BY <1>4, <1>5, <1>6

\* The value of a node, in those of what it refers to.
Meaning(sc) == [o \in Occurrence(sc) |-> ValueOf(sc, o)]

LEMMA MeaningFacts ==
    ASSUME NEW sc \in Scripts, NEW o \in Occurrence(sc)
    PROVE  /\ ValueOf(sc, o) \in Outcome
           /\ Meaning(sc)[o] = ValueOf(sc, o)
           /\ ValueOf(sc, o) = ValueBy(sc, Meaning(sc), o)
<1>1. PICK value :
             /\ \A p \in Occurrence(sc) : ValueOf(sc, p) = value[p]
             /\ \A p \in Occurrence(sc) : value[p] = ValueBy(sc, value, p)
             /\ \A p \in Occurrence(sc) : value[p] \in Outcome
  BY ValueEquation
<1>2. \A p \in Occurrence(sc) : Meaning(sc)[p] = value[p]
  BY <1>1 DEF Meaning
<1>3. ValueBy(sc, value, o) = ValueBy(sc, Meaning(sc), o)
  BY <1>1, <1>2, ValueByLocal
<1> QED BY <1>1, <1>2, <1>3

LEMMA MeaningByKind ==
    ASSUME NEW sc \in Scripts, NEW o \in Occurrence(sc), NEW e, e = sc[o.of].code[o.node]
    PROVE  /\ e.kind = "literal" => ValueOf(sc, o) = Fulfilled(e.val)
           /\ e.kind = "previousResult" => ValueOf(sc, o) = ValueOf(sc, Root(sc, e.of, << >>))
           /\ e.kind = "parameter" =>
                ValueOf(sc, o) =
                    IF e.idx < Len(o.params) THEN Fulfilled(o.params[e.idx + 1]) ELSE Broken
<1>1. IsValue(sc, Meaning(sc), o, e)
  BY Unfolded
<1>2. ValueOf(sc, o) = ValueBy(sc, Meaning(sc), o)
  BY MeaningFacts
<1>3. e.kind = "previousResult" =>
        Meaning(sc)[Root(sc, e.of, << >>)] = ValueOf(sc, Root(sc, e.of, << >>))
  BY NodeFacts, MeaningFacts
<1> QED BY <1>1, <1>2, <1>3 DEF IsValue

\* What the parameters of the call e at o are worth.
Worths(sc, o, e) == [k \in 1..Len(e.params) |-> ValueOf(sc, At(o.of, e.params[k], o.params))]

LEMMA MeaningOfCall ==
    ASSUME NEW sc \in Scripts, NEW o \in Occurrence(sc), NEW e, e = sc[o.of].code[o.node],
           e.kind = "call"
    PROVE  /\ Worths(sc, o, e) \in Seq(Outcome)
           /\ Len(Worths(sc, o, e)) = Len(e.params)
           /\ ValueOf(sc, o) = CallBy(sc, Meaning(sc), e.fn, Worths(sc, o, e))
<1> DEFINE args == [k \in 1..Len(e.params) |-> Meaning(sc)[At(o.of, e.params[k], o.params)]]
<1>1. /\ Len(e.params) \in Nat
      /\ \A k \in 1..Len(e.params) : At(o.of, e.params[k], o.params) \in Occurrence(sc)
  BY NodeFacts
<1>2. \A k \in 1..Len(e.params) :
        /\ args[k] = ValueOf(sc, At(o.of, e.params[k], o.params))
        /\ args[k] \in Outcome
  BY <1>1, MeaningFacts
<1>3. args = Worths(sc, o, e)
  BY <1>2 DEF Worths
<1>4. args \in Seq(Outcome) /\ Len(args) = Len(e.params)
  <2>1. args = [k \in 1..Len(e.params) |-> args[k]]
    OBVIOUS
  <2> HIDE DEF args
  <2> QED BY <1>1, <1>2, <2>1, IsSequence
<1>5. ValueOf(sc, o) = CallBy(sc, Meaning(sc), e.fn, args)
  <2>1. IsValue(sc, Meaning(sc), o, e)
    BY Unfolded
  <2> QED BY <2>1, MeaningFacts, Zenon DEF IsValue
<1> HIDE DEF args
<1> QED BY <1>3, <1>4, <1>5

\* A call is worth nothing if a parameter is.
LEMMA BrokenCall ==
    ASSUME NEW sc \in Scripts, NEW o \in Occurrence(sc), NEW e, e = sc[o.of].code[o.node],
           e.kind = "call",
           NEW k \in 1..Len(e.params), ValueOf(sc, At(o.of, e.params[k], o.params)) = Broken
    PROVE  ValueOf(sc, o) = Broken
<1>1. Worths(sc, o, e)[k] = Broken
  BY DEF Worths
<1>2. \E j \in 1..Len(Worths(sc, o, e)) : Worths(sc, o, e)[j] = Broken
  BY <1>1, MeaningOfCall
<1>3. CallBy(sc, Meaning(sc), e.fn, Worths(sc, o, e)) = Broken
  BY <1>2 DEF CallBy
<1> QED BY <1>3, MeaningOfCall

\* Otherwise it is worth what its function makes of theirs.
LEMMA WholeCall ==
    ASSUME NEW sc \in Scripts, NEW o \in Occurrence(sc), NEW e, e = sc[o.of].code[o.node],
           e.kind = "call",
           NEW xs \in Seq(Number), Len(xs) = Len(e.params),
           \A k \in 1..Len(xs) : ValueOf(sc, At(o.of, e.params[k], o.params)) = Fulfilled(xs[k])
    PROVE  /\ e.fn # Power /\ sc[e.fn].do = "defFunction" =>
                ValueOf(sc, o) = IF Len(xs) = sc[e.fn].paramCount
                                 THEN ValueOf(sc, Root(sc, e.fn, xs)) ELSE Broken
           /\ ~(e.fn # Power /\ sc[e.fn].do = "defFunction") =>
                ValueOf(sc, o) = IF Len(xs) # 2 THEN Broken
                                 ELSE Fulfilled(IF e.fn = Power THEN Pow(xs[1], xs[2])
                                                ELSE Arith(sc[e.fn].op, xs[1], xs[2]))
<1>1. PICK args \in Seq(Outcome) :
        /\ Len(args) = Len(xs)
        /\ args = Worths(sc, o, e)
        /\ ValueOf(sc, o) = CallBy(sc, Meaning(sc), e.fn, args)
  BY MeaningOfCall
<1>2. \A k \in 1..Len(args) : args[k] = Fulfilled(xs[k])
  BY <1>1 DEF Worths
<1>3. \A k \in 1..Len(args) : args[k] # Broken /\ args[k].val = xs[k]
  BY <1>2, Promises
<1>4. Vals(args) = xs
  <2>1. Len(args) \in Nat /\ xs = [k \in 1..Len(args) |-> xs[k]]
    BY <1>1
  <2> QED BY <1>3, <2>1 DEF Vals
<1>5. IsCall(sc, Meaning(sc), e.fn, args, Vals(args))
  BY <1>3, CallUnfolded
<1>6. IsCall(sc, Meaning(sc), e.fn, args, xs)
  BY <1>4, <1>5
<1>7. e.fn # Power => e.fn \in DOMAIN sc
  <2>1. IsNode(sc, o.of, o.node) /\ o.of \in DOMAIN sc
    BY NodeFacts DEF Occurrence
  <2> QED BY <2>1, StepFacts DEF IsNode, Earlier
<1>8. e.fn # Power /\ sc[e.fn].do = "defFunction" =>
         Meaning(sc)[Root(sc, e.fn, xs)] = ValueOf(sc, Root(sc, e.fn, xs))
  BY <1>7, NodeFacts, MeaningFacts
<1> QED BY <1>1, <1>6, <1>8 DEF IsCall

\* An expression with a parameter its function does not have is worth nothing,
\* wherever it has it.
LEMMA OutOfRangeIsBroken ==
    ASSUME NEW sc \in Scripts, NEW q \in DOMAIN sc, NEW xs \in Seq(Number),
           sc[q].do \in {"evaluate", "defFunction"}, OutOfRange(sc, q, Len(xs))
    PROVE  ValueOf(sc, Root(sc, q, xs)) = Broken
<1> DEFINE n == Len(sc[q].code)
           B == {m \in 0..(n - 1) : ValueOf(sc, At(q, n - m, xs)) = Broken}
<1>1. IsExpression(sc, q) /\ n \in Nat \ {0} /\ DOMAIN sc[q].code = 1..n
  BY StepFacts DEF IsExpression
<1>2. \A i \in 1..n : At(q, i, xs) \in Occurrence(sc)
  BY <1>1, StepFacts DEF At, Occurrence
<1>3. B # {}
  <2>1. PICK i \in 1..n : sc[q].code[i].kind = "parameter" /\ sc[q].code[i].idx >= Len(xs)
    BY <1>1 DEF OutOfRange
  <2>2. PICK e : e = sc[q].code[i]
    OBVIOUS
  <2>3. e.idx \in Nat
    BY <1>1, <2>1, <2>2 DEF IsExpression, IsNode
  <2>4. PICK o \in Occurrence(sc) : o = At(q, i, xs)
    BY <1>2
  <2>5. o.of = q /\ o.node = i /\ o.params = xs
    BY <2>4 DEF At
  <2>6. ValueOf(sc, o) = Broken
    BY <2>1, <2>2, <2>3, <2>5, MeaningByKind
  <2>7. n - i \in 0..(n - 1) /\ n - (n - i) = i
    BY <1>1
  <2> QED BY <2>4, <2>6, <2>7
<1>4. PICK m \in B : \A k \in B : m <= k
  <2>1. B \in SUBSET Nat
    BY <1>1
  <2> HIDE DEF B
  <2> QED BY <1>3, <2>1, LeastNumber
<1>5. m = 0
  <2>1. SUFFICES ASSUME m # 0 PROVE FALSE
    OBVIOUS
  <2>2. n - m \in 1..(n - 1)
    BY <1>1, <1>4, <2>1
  <2>3. PICK j \in 1..n : /\ sc[q].code[j].kind = "call"
                           /\ \E k \in DOMAIN sc[q].code[j].params : sc[q].code[j].params[k] = n - m
    BY <1>1, <2>2 DEF IsExpression
  <2>4. PICK k \in DOMAIN sc[q].code[j].params : sc[q].code[j].params[k] = n - m
    BY <2>3
  <2>5. PICK e : e = sc[q].code[j]
    OBVIOUS
  <2>6. e.params \in Seq(1..(j - 1))
    BY <1>1, <2>3, <2>5 DEF IsExpression, IsNode
  <2>7. k \in 1..Len(e.params) /\ e.params[k] = n - m /\ e.params[k] \in 1..(j - 1)
    <3>1. k \in 1..Len(e.params)
      BY <2>4, <2>5, <2>6
    <3> QED BY <2>4, <2>5, <2>6, <3>1, ElementOfSeq
  <2>8. PICK o \in Occurrence(sc) : o = At(q, j, xs)
    BY <1>2
  <2>9. o.of = q /\ o.node = j /\ o.params = xs
    BY <2>8 DEF At
  <2>10. ValueOf(sc, At(o.of, e.params[k], o.params)) = Broken
    BY <2>7, <2>9
  <2>11. ValueOf(sc, o) = Broken
    BY <2>3, <2>5, <2>7, <2>9, <2>10, BrokenCall
  <2>12. n - j \in 0..(n - 1) /\ n - (n - j) = j /\ n - j < m
    <3>1. m \in Nat /\ n \in Nat /\ n - m \in 1..(j - 1) /\ j \in 1..n
      BY <1>1, <1>4, <2>3, <2>7
    <3> HIDE DEF n
    <3> QED BY <3>1
  <2>13. n - j \in B
    BY <2>8, <2>11, <2>12
  <2> QED BY <1>4, <2>12, <2>13
<1> QED BY <1>4, <1>5 DEF Root

-----------------------------------------------------------------------------
(* The promises of the server are right.                                   *)

\* What is known of a tree.
LEMMA TreeFacts ==
    ASSUME StepsInv, TreesInv, NEW t \in DOMAIN trees
    PROVE  /\ trees[t].of \in Steps
           /\ script[trees[t].of].do \in {"evaluate", "defFunction"}
           /\ Given(t) \in Seq(Number)
           /\ t[1] \in Calls("evaluate")
           /\ \A i \in Nodes(t) :
                 /\ At(trees[t].of, i, Given(t)) \in Occurrence(script)
                 /\ i \in 1..Len(script[trees[t].of].code)
                 /\ Node(t, i) = script[trees[t].of].code[i]
           /\ Len(script[trees[t].of].code) \in Nodes(t)
<1> DEFINE q == trees[t].of
<1>1. TreeOK(t)
  BY DEF TreesInv
<1>2. t[1] \in Calls("evaluate")
  <2>1. t[1] \in 1..Len(script) /\ DOMAIN script = 1..Len(script)
    BY <1>1, ScriptAssumption DEF TreeOK, StepsInv
  <2> QED BY <1>1, <2>1 DEF TreeOK, Calls, Steps
<1>3. q \in Steps /\ script[q].do \in {"evaluate", "defFunction"}
  BY <1>1, <1>2 DEF TreeOK, Calls
<1>4. Nodes(t) = 1..Len(script[q].code) /\ Len(script[q].code) \in Nat \ {0} /\ q \in Nat
  BY <1>1, <1>3, StepFacts DEF TreeOK, IsExpression, StepsInv, Steps
<1>5. Given(t) \in Seq(Number)
  BY <1>1 DEF TreeOK
<1>6. \A i \in Nodes(t) : At(q, i, Given(t)) \in Occurrence(script)
  <2>1. DOMAIN script[q].code = Nodes(t)
    BY <1>1 DEF TreeOK
  <2> HIDE DEF q
  <2> QED BY <1>3, <1>4, <1>5, <2>1 DEF At, Occurrence, Steps
<1> QED BY <1>2, <1>3, <1>4, <1>5, <1>6 DEF Node

\* What is known of the parameters of a call.
LEMMA ParamFacts ==
    ASSUME StepsInv, TreesInv, NEW t \in DOMAIN trees, NEW i \in Nodes(t),
           Node(t, i).kind = "call"
    PROVE  /\ Len(Node(t, i).params) \in Nat
           /\ Node(t, i).fn \in Steps \cup {Power}
           /\ Len(Params(t, i)) = Len(Node(t, i).params)
           /\ DOMAIN Params(t, i) = 1..Len(Node(t, i).params)
           /\ \A k \in 1..Len(Node(t, i).params) :
                 /\ Node(t, i).params[k] \in Nodes(t)
                 /\ Params(t, i)[k] = trees[t].res[Node(t, i).params[k]]
                 /\ Params(t, i)[k] \in
                      {Pending, ValueOf(script, At(trees[t].of, Node(t, i).params[k], Given(t)))}
                 /\ ValueOf(script, At(trees[t].of, Node(t, i).params[k], Given(t))) \in Outcome
<1>1. PICK o \in Occurrence(script) : o = At(trees[t].of, i, Given(t))
  BY TreeFacts
<1>2. o.of = trees[t].of /\ o.node = i /\ o.params = Given(t)
  BY <1>1 DEF At
<1>3. PICK e : e = Node(t, i)
  OBVIOUS
<1>4. e = script[o.of].code[o.node]
  BY <1>2, <1>3 DEF Node
<1>5. /\ IsNode(script, o.of, o.node)
      /\ Len(e.params) \in Nat
      /\ \A k \in 1..Len(e.params) : At(o.of, e.params[k], o.params) \in Occurrence(script)
  BY <1>3, <1>4, NodeFacts DEF StepsInv
<1>6. \A k \in 1..Len(e.params) :
        /\ e.params[k] \in DOMAIN script[trees[t].of].code
        /\ ValueOf(script, At(trees[t].of, e.params[k], Given(t))) \in Outcome
  <2>1. ASSUME NEW k \in 1..Len(e.params) PROVE e.params[k] \in DOMAIN script[o.of].code
    BY <1>5 DEF Occurrence, At
  <2> QED BY <1>2, <1>5, <2>1, MeaningFacts DEF StepsInv
<1>7. /\ Nodes(t) = DOMAIN script[trees[t].of].code
      /\ \A j \in Nodes(t) :
            trees[t].res[j] \in {Pending, ValueOf(script, At(trees[t].of, j, Given(t)))}
  BY DEF TreesInv, TreeOK
<1>8. e.fn \in Steps \cup {Power}
  <2>1. o.of \in Steps
    BY DEF Occurrence, Steps
  <2>2. o.of \in Nat \ {0} /\ 1..o.of \subseteq Steps
    BY <2>1, StepFacts DEF StepsInv, Steps
  <2>3. e.fn \in Earlier(script, o.of, {"getOperator", "defFunction"}) \cup {Power}
    BY <1>3, <1>4, <1>5 DEF IsNode
  <2> QED BY <2>2, <2>3 DEF Earlier
<1> QED BY <1>3, <1>5, <1>6, <1>7, <1>8 DEF Params

\* A function is called with the values of its parameters.
LEMMA ValuesAreWorths ==
    ASSUME StepsInv, TreesInv, NEW t \in DOMAIN trees, NEW i, CanBeCalled(t, i)
    PROVE  /\ Values(t, i) \in Seq(Number)
           /\ Len(Values(t, i)) = Len(Node(t, i).params)
           /\ \A k \in 1..Len(Values(t, i)) :
                 ValueOf(script, At(trees[t].of, Node(t, i).params[k], Given(t)))
                    = Fulfilled(Values(t, i)[k])
<1> DEFINE n == Len(Node(t, i).params)
           v(k) == ValueOf(script, At(trees[t].of, Node(t, i).params[k], Given(t)))
<1>1. /\ i \in Nodes(t) /\ Node(t, i).kind = "call"
      /\ \A k \in 1..n : Params(t, i)[k].st = "fulfilled"
  BY DEF CanBeCalled
<1>2. /\ n \in Nat /\ DOMAIN Params(t, i) = 1..n
      /\ \A k \in 1..n : Params(t, i)[k] \in {Pending, v(k)} /\ v(k) \in Outcome
  BY <1>1, ParamFacts
<1> HIDE DEF n, v
<1>3. ASSUME NEW k \in 1..n
      PROVE  /\ Params(t, i)[k].val \in Number
             /\ v(k) = Fulfilled(Params(t, i)[k].val)
  <2>1. Params(t, i)[k] = v(k) /\ v(k) # Broken
    BY <1>1, <1>2, Promises
  <2>2. PICK x \in Number : v(k) = Fulfilled(x)
    BY <1>2, <2>1 DEF Outcome
  <2> QED BY <2>1, <2>2, Promises
<1>4. Values(t, i) = [k \in 1..n |-> Params(t, i)[k].val]
  BY <1>2 DEF Values
<1>5. Values(t, i) \in Seq(Number) /\ Len(Values(t, i)) = n
  BY <1>2, <1>3, <1>4
<1> QED BY <1>1, <1>3, <1>4, <1>5 DEF n, v

\* What the call is worth is what its function makes of them.
LEMMA CallIsWorth ==
    ASSUME StepsInv, TreesInv, NEW t \in DOMAIN trees, NEW i, CanBeCalled(t, i),
           NEW fn, fn = Node(t, i).fn, NEW xs, xs = Values(t, i),
           NEW worth, worth = ValueOf(script, At(trees[t].of, i, Given(t)))
    PROVE  /\ fn # Power /\ script[fn].do = "defFunction" =>
                worth = IF Len(xs) = script[fn].paramCount
                        THEN ValueOf(script, Root(script, fn, xs)) ELSE Broken
           /\ ~(fn # Power /\ script[fn].do = "defFunction") =>
                worth = IF Len(xs) # 2 THEN Broken
                        ELSE Fulfilled(IF fn = Power THEN Pow(xs[1], xs[2])
                                       ELSE Arith(script[fn].op, xs[1], xs[2]))
<1>1. PICK o \in Occurrence(script) : o = At(trees[t].of, i, Given(t))
  BY TreeFacts DEF CanBeCalled
<1>2. o.of = trees[t].of /\ o.node = i /\ o.params = Given(t)
  BY <1>1 DEF At
<1>3. PICK e : e = Node(t, i)
  OBVIOUS
<1>4. e = script[o.of].code[o.node] /\ e.kind = "call" /\ script \in Scripts
  BY <1>2, <1>3 DEF Node, CanBeCalled, StepsInv
<1>5. /\ xs \in Seq(Number) /\ Len(xs) = Len(e.params)
      /\ \A k \in 1..Len(xs) :
            ValueOf(script, At(o.of, e.params[k], o.params)) = Fulfilled(xs[k])
  BY <1>2, <1>3, ValuesAreWorths
<1>6. /\ fn = e.fn /\ worth = ValueOf(script, o)
  BY <1>1, <1>3
<1>7. /\ e.fn # Power /\ script[e.fn].do = "defFunction" =>
              ValueOf(script, o) = IF Len(xs) = script[e.fn].paramCount
                                   THEN ValueOf(script, Root(script, e.fn, xs)) ELSE Broken
      /\ ~(e.fn # Power /\ script[e.fn].do = "defFunction") =>
              ValueOf(script, o) = IF Len(xs) # 2 THEN Broken
                                   ELSE Fulfilled(IF e.fn = Power THEN Pow(xs[1], xs[2])
                                                  ELSE Arith(script[e.fn].op, xs[1], xs[2]))
  BY <1>4, <1>5, WholeCall
<1> QED BY <1>6, <1>7

\* A call whose parameters have all arrived can be made.
LEMMA JoinFacts ==
    ASSUME StepsInv, TreesInv, NEW t \in DOMAIN trees, NEW i \in Joined(t)
    PROVE  /\ i \in Nodes(t) /\ trees[t].res[i] = Pending /\ i \notin trees[t].called
           /\ CanBeCalled(t, i)
<1>1. /\ i \in Nodes(t) /\ trees[t].res[i] = Pending /\ i \notin trees[t].called
      /\ Node(t, i).kind = "call"
      /\ ~Some(t, i, "pending") /\ ~Some(t, i, "broken")
  BY DEF Joined, Joining, PendingOf
<1> DEFINE n == Len(Node(t, i).params)
           v(k) == ValueOf(script, At(trees[t].of, Node(t, i).params[k], Given(t)))
<1>2. /\ DOMAIN Params(t, i) = 1..n
      /\ \A k \in 1..n : Params(t, i)[k] \in {Pending, v(k)} /\ v(k) \in Outcome
  BY <1>1, ParamFacts
<1> HIDE DEF n, v
<1>3. ASSUME NEW k \in 1..n PROVE Params(t, i)[k].st = "fulfilled"
  <2>1. Params(t, i)[k].st # "pending" /\ Params(t, i)[k].st # "broken"
    BY <1>1, <1>2 DEF Some
  <2>2. Params(t, i)[k] = v(k) /\ v(k) # Broken
    BY <1>2, <2>1, Promises
  <2> QED BY <1>2, <2>2, Promises DEF Outcome
<1> QED BY <1>1, <1>3 DEF n, CanBeCalled

-----------------------------------------------------------------------------
(* The trees there are, from one step to the next.                         *)

\* The names of trees.
LEMMA NameFacts ==
    ASSUME NEW v \in Seq(Nat), v # << >>
    PROVE  /\ Len(v) \in Nat \ {0}
           /\ v[1] \in Nat
           /\ Len(v) # 1 => /\ Caller(v) \in Seq(Nat)
                            /\ Caller(v) # << >>
                            /\ Site(v) \in Nat
                            /\ Len(Caller(v)) = Len(v) - 1
                            /\ \A k \in 1..(Len(v) - 1) : Caller(v)[k] = v[k]
                            /\ Append(Caller(v), Site(v)) = v
<1>1. Len(v) \in Nat \ {0} /\ v[1] \in Nat
  OBVIOUS
<1>2. ASSUME Len(v) # 1
      PROVE  /\ Caller(v) \in Seq(Nat)
             /\ Site(v) \in Nat
             /\ Len(Caller(v)) = Len(v) - 1
             /\ \A k \in 1..(Len(v) - 1) : Caller(v)[k] = v[k]
  <2>1. Len(v) - 1 \in 0..Len(v) /\ Len(v) \in 1..Len(v)
    BY <1>1
  <2>2. Site(v) \in Nat
    BY <2>1 DEF Site
  <2>3. /\ SubSeq(v, 1, Len(v) - 1) \in Seq(Nat)
        /\ Len(SubSeq(v, 1, Len(v) - 1)) = Len(v) - 1
        /\ \A k \in 1..(Len(v) - 1) : SubSeq(v, 1, Len(v) - 1)[k] = v[k]
    <3> DEFINE n == Len(v) - 1
    <3>1. n \in Nat /\ \A k \in 1..n : v[k] \in Nat
      BY <1>1, <2>1
    <3> HIDE DEF n
    <3>2. /\ SubSeq(v, 1, n) \in Seq(Nat)
          /\ Len(SubSeq(v, 1, n)) = IF 1 <= n THEN n - 1 + 1 ELSE 0
          /\ \A k \in 1..(n - 1 + 1) : SubSeq(v, 1, n)[k] = v[1 + k - 1]
      BY <3>1, SubSeqProperties
    <3>3. /\ Len(SubSeq(v, 1, n)) = n
          /\ \A k \in 1..n : SubSeq(v, 1, n)[k] = v[k]
      BY <3>1, <3>2
    <3> QED BY <3>2, <3>3 DEF n
  <2> QED BY <2>2, <2>3 DEF Caller
<1>3. ASSUME Len(v) # 1 PROVE Caller(v) # << >>
  <2>1. Len(Caller(v)) # 0
    BY <1>1, <1>2, <1>3
  <2> QED BY <2>1, EmptySeq
<1>4. ASSUME Len(v) # 1 PROVE Append(Caller(v), Site(v)) = v
  <2>1. Append(Caller(v), Site(v)) \in Seq(Nat) /\ Len(Append(Caller(v), Site(v))) = Len(v)
    BY <1>1, <1>2, <1>4
  <2>2. \A k \in 1..Len(v) : Append(Caller(v), Site(v))[k] = v[k]
    BY <1>1, <1>2, <1>4 DEF Site
  <2> QED BY <2>1, <2>2, SeqEqual
<1> QED BY <1>1, <1>2, <1>3, <1>4

LEMMA NameOfCalled ==
    ASSUME NEW t \in Seq(Nat), NEW i \in Nat
    PROVE  /\ Append(t, i) \in Seq(Nat)
           /\ Append(t, i) # << >>
           /\ Len(Append(t, i)) = Len(t) + 1
           /\ Caller(Append(t, i)) = t
           /\ Site(Append(t, i)) = i
           /\ ~Below(t, Append(t, i))
           /\ t # << >> => Append(t, i)[1] = t[1]
<1>1. /\ Append(t, i) \in Seq(Nat) /\ Append(t, i) # << >>
      /\ Len(Append(t, i)) = Len(t) + 1 /\ Len(t) \in Nat
      /\ \A k \in 1..Len(t) : Append(t, i)[k] = t[k]
      /\ Append(t, i)[Len(t) + 1] = i
  OBVIOUS
<1>2. Caller(Append(t, i)) = t
  <2>1. Caller(Append(t, i)) \in Seq(Nat) /\ Len(Caller(Append(t, i))) = Len(t)
    BY <1>1 DEF Caller
  <2>2. \A k \in 1..Len(t) : Caller(Append(t, i))[k] = t[k]
    BY <1>1 DEF Caller
  <2> QED BY <2>1, <2>2, SeqEqual
<1> QED BY <1>1, <1>2 DEF Site, Below

\* What is called below is named below.
LEMMA NamedBelow ==
    ASSUME NEW v \in Seq(Nat), v # << >>, Len(v) # 1, NEW u \in Seq(Nat), ~Below(v, u)
    PROVE  ~Below(Caller(v), u)
<1>1. Len(u) \in Nat
  OBVIOUS
<1>2. /\ Len(v) \in Nat \ {0}
      /\ Len(Caller(v)) = Len(v) - 1
      /\ \A k \in 1..(Len(v) - 1) : Caller(v)[k] = v[k]
  BY NameFacts
<1> QED BY <1>1, <1>2 DEF Below

\* From one state to the next, a tree loses nothing of what is there of it.
Grows(u) ==
    /\ trees'[u] = [of |-> trees[u].of, res |-> trees'[u].res, called |-> trees'[u].called]
    /\ DOMAIN trees'[u].res = DOMAIN trees[u].res
    /\ trees[u].called \subseteq trees'[u].called
    /\ \A i \in DOMAIN trees[u].res :
          trees[u].res[i] # Pending => trees'[u].res[i] = trees[u].res[i]

\* What a function is called with stays what it is.
LEMMA CanBeCalledKept ==
    ASSUME StepsInv, TreesInv, script' = script, NEW t \in DOMAIN trees, t \in DOMAIN trees',
           Grows(t), NEW i, CanBeCalled(t, i)
    PROVE  /\ CanBeCalled(t, i)'
           /\ Node(t, i)' = Node(t, i)
           /\ Values(t, i)' = Values(t, i)
<1> DEFINE ps == Node(t, i).params
<1>1. i \in Nodes(t) /\ Node(t, i).kind = "call"
  BY DEF CanBeCalled
<1>2. Nodes(t)' = Nodes(t) /\ Node(t, i)' = Node(t, i)
  BY DEF Grows, Nodes, Node
<1>3. Params(t, i)' = Params(t, i)
  <2>1. ASSUME NEW k \in 1..Len(ps) PROVE trees'[t].res[ps[k]] = trees[t].res[ps[k]]
    <3>1. ps[k] \in DOMAIN trees[t].res /\ Params(t, i)[k] = trees[t].res[ps[k]]
      BY <1>1, <2>1, ParamFacts DEF Nodes
    <3>2. trees[t].res[ps[k]] # Pending
      BY <2>1, <3>1, Promises DEF CanBeCalled
    <3> QED BY <3>1, <3>2 DEF Grows
  <2>2. Params(t, i)' = [k \in 1..Len(ps) |-> trees'[t].res[ps[k]]]
    BY <1>2 DEF Params
  <2>3. Params(t, i) = [k \in 1..Len(ps) |-> trees[t].res[ps[k]]]
    BY DEF Params
  <2> HIDE DEF ps
  <2> QED BY <2>1, <2>2, <2>3
<1>4. Values(t, i)' = Values(t, i)
  BY <1>3 DEF Values
<1> QED BY <1>2, <1>3, <1>4 DEF CanBeCalled

\* A tree that only grows stays right if what it grows by is right.
LEMMA TreeKept ==
    ASSUME StepsInv, TreesInv, script' = script, delivered' \in Nat, delivered <= delivered',
           NEW v \in DOMAIN trees, v \in DOMAIN trees', Grows(v),
           Len(v) # 1 => Caller(v) \in DOMAIN trees' /\ Grows(Caller(v)),
           \A i \in trees'[v].called : CanBeCalled(v, i),
           \A i \in Nodes(v) : trees'[v].res[i] \in
                {Pending, ValueOf(script, At(trees[v].of, i, Given(v)))}
    PROVE  TreeOK(v)'
<1>1. TreeOK(v)
  BY DEF TreesInv
<1>2. /\ trees'[v].of = trees[v].of
      /\ trees'[v] = [of |-> trees'[v].of, res |-> trees'[v].res, called |-> trees'[v].called]
      /\ Nodes(v)' = Nodes(v)
  BY DEF Grows, Nodes
<1>3. v[1] \in 1..delivered'
  BY <1>1 DEF TreeOK, StepsInv
<1>4. \A i \in trees'[v].called : CanBeCalled(v, i)'
  BY CanBeCalledKept
<1>5. CASE Len(v) = 1
  <2>1. Given(v)' = Given(v)
    BY <1>5 DEF Given
  <2> QED BY <1>1, <1>2, <1>3, <1>4, <1>5, <2>1 DEF TreeOK
<1>6. CASE Len(v) # 1
  <2> DEFINE s == Caller(v)
             i == Site(v)
  <2>1. s \in DOMAIN trees /\ i \in trees[s].called
    BY <1>1, <1>6 DEF TreeOK
  <2>2. s \in DOMAIN trees' /\ Grows(s) /\ i \in trees'[s].called
    BY <1>6, <2>1 DEF Grows
  <2>3. CanBeCalled(s, i)
    BY <2>1 DEF TreesInv, TreeOK
  <2> HIDE DEF s, i
  <2>4. Node(s, i)' = Node(s, i) /\ Values(s, i)' = Values(s, i)
    BY <2>1, <2>2, <2>3, CanBeCalledKept
  <2>5. Given(v)' = Given(v)
    BY <1>6, <2>4 DEF Given, s, i
  <2>6. Calls("defFunction")' = Calls("defFunction")
    BY DEF Calls, Steps
  <2> QED BY <1>1, <1>2, <1>3, <1>4, <1>6, <2>2, <2>4, <2>5, <2>6 DEF TreeOK, s, i
<1> QED BY <1>5, <1>6

\* The tree in which the function was called is there.
LEMMA CallerFacts ==
    ASSUME TreesInv, NEW v \in DOMAIN trees, Len(v) # 1
    PROVE  /\ Caller(v) \in DOMAIN trees
           /\ CanBeCalled(Caller(v), Site(v))
BY DEF TreesInv, TreeOK

\* Calls that arrive leave the trees right.
LEMMA TreesUntouched ==
    ASSUME StepsInv, TreesInv, script' = script, delivered' \in Nat, delivered <= delivered',
           trees' = trees
    PROVE  TreesInv'
<1>1. \A u \in DOMAIN trees : Grows(u)
  BY DEF TreesInv, TreeOK, Grows
<1>2. ASSUME NEW v \in DOMAIN trees PROVE TreeOK(v)'
  <2>1. Len(v) # 1 => Caller(v) \in DOMAIN trees
    BY CallerFacts
  <2>2. /\ \A i \in trees'[v].called : CanBeCalled(v, i)
        /\ \A i \in Nodes(v) : trees'[v].res[i] \in
                {Pending, ValueOf(script, At(trees[v].of, i, Given(v)))}
    BY DEF TreesInv, TreeOK
  <2> QED BY <1>1, <2>1, <2>2, TreeKept
<1> QED BY <1>2 DEF TreesInv

\* Whatever gets a node its result, it is the right one.
LEMMA ResolveKeeps ==
    ASSUME CalcIInv, NEW t \in DOMAIN trees, NEW i \in Nodes(t), trees[t].res[i] = Pending,
           NEW r, Resolve(t, i, r), r = ValueOf(script, At(trees[t].of, i, Given(t)))
    PROVE  CalcIInv'
<1>1. StepsInv /\ TreesInv /\ AnswersInv /\ ReadsAreRight /\ AssertionsHold
  BY DEF CalcIInv
<1>2. UNCHANGED <<script, pos, client, link, delivered, answer>>
  BY DEF Resolve
<1>3. /\ t \in Seq(Nat) /\ t # << >> /\ i \in Nat
      /\ delivered \in Nat
  <2>1. i \in 1..Len(script[trees[t].of].code)
    BY <1>1, TreeFacts
  <2> QED BY <1>1, <2>1 DEF TreesInv, TreeOK, StepsInv
<1> DEFINE u == Append(t, i)
<1>4. /\ DOMAIN trees' = {v \in DOMAIN trees : ~Below(v, u)}
      /\ trees'[t] = [trees[t] EXCEPT !.res[i] = r]
      /\ \A v \in DOMAIN trees' : v # t => trees'[v] = trees[v]
      /\ u \in Seq(Nat)
  BY <1>3, NameOfCalled DEF Resolve
<1> HIDE DEF u
<1>5. ASSUME NEW v \in DOMAIN trees'
      PROVE  v \in DOMAIN trees /\ Grows(v) /\ trees'[v].called = trees[v].called
  <2>1. trees[v] = [of |-> trees[v].of, res |-> trees[v].res, called |-> trees[v].called]
    BY <1>1, <1>4 DEF TreesInv, TreeOK
  <2>2. CASE v = t
    <3>1. trees'[t] = [of |-> trees[t].of, res |-> [trees[t].res EXCEPT ![i] = r],
                       called |-> trees[t].called]
      BY <1>4, <2>1, <2>2
    <3> QED BY <1>4, <2>2, <3>1 DEF Grows
  <2>3. CASE v # t
    BY <1>4, <2>1, <2>3 DEF Grows
  <2> QED BY <1>4, <2>2, <2>3
<1>6. ASSUME NEW v \in DOMAIN trees' PROVE TreeOK(v)'
  <2>1. v \in DOMAIN trees /\ v \in Seq(Nat) /\ v # << >> /\ ~Below(v, u)
    BY <1>1, <1>4 DEF TreesInv, TreeOK
  <2>2. ASSUME Len(v) # 1 PROVE Caller(v) \in DOMAIN trees'
    <3>1. Caller(v) \in DOMAIN trees
      BY <1>1, <2>1, <2>2, CallerFacts
    <3>2. ~Below(Caller(v), u)
      BY <1>4, <2>1, <2>2, NamedBelow
    <3> QED BY <1>4, <3>1, <3>2
  <2>3. \A j \in Nodes(v) : trees'[v].res[j] \in
                {Pending, ValueOf(script, At(trees[v].of, j, Given(v)))}
    <3>1. \A j \in Nodes(v) : trees[v].res[j] \in
                {Pending, ValueOf(script, At(trees[v].of, j, Given(v)))}
      BY <1>1, <2>1 DEF TreesInv, TreeOK
    <3>2. CASE v = t
      <4>1. trees'[t].res = [trees[t].res EXCEPT ![i] = r]
        <5>1. trees[t] = [of |-> trees[t].of, res |-> trees[t].res, called |-> trees[t].called]
          BY <1>1 DEF TreesInv, TreeOK
        <5> QED BY <1>4, <5>1
      <4> QED BY <3>1, <3>2, <4>1 DEF Nodes
    <3>3. CASE v # t
      BY <1>4, <3>1, <3>3
    <3> QED BY <3>2, <3>3
  <2>4. \A j \in trees'[v].called : CanBeCalled(v, j)
    BY <1>1, <1>5, <2>1 DEF TreesInv, TreeOK
  <2>5. delivered' \in Nat /\ delivered <= delivered' /\ script' = script
    BY <1>2, <1>3
  <2> QED BY <1>1, <1>5, <2>1, <2>2, <2>3, <2>4, <2>5, TreeKept
<1>7. TreesInv'
  BY <1>6 DEF TreesInv
<1>8. StepsInv' /\ AnswersInv' /\ ReadsAreRight' /\ AssertionsHold'
  BY <1>1, <1>2 DEF StepsInv, AnswersInv, ReadsAreRight, AssertionsHold, Steps, Calls
<1> QED BY <1>7, <1>8 DEF CalcIInv

-----------------------------------------------------------------------------
(* The steps of evaluateImpl.                                              *)

\* Node i of t, as what the reference is about.
LEMMA NodeIsOccurrence ==
    ASSUME StepsInv, TreesInv, NEW t \in DOMAIN trees, NEW i \in Nodes(t)
    PROVE  \E o \in Occurrence(script) :
              /\ o = At(trees[t].of, i, Given(t))
              /\ o.of = trees[t].of /\ o.node = i /\ o.params = Given(t)
              /\ Node(t, i) = script[o.of].code[o.node]
<1>1. PICK o \in Occurrence(script) : o = At(trees[t].of, i, Given(t))
  BY TreeFacts
<1> QED BY <1>1 DEF At, Node

\* The result of an earlier evaluate is read: it is the value of that expression.
LEMMA ReadPreviousKeeps ==
    ASSUME CalcIInv, NEW t \in DOMAIN trees, NEW i \in Nodes(t), ReadPrevious(t, i)
    PROVE  CalcIInv'
<1>1. StepsInv /\ TreesInv /\ AnswersInv /\ script \in Scripts
  BY DEF CalcIInv, StepsInv
<1>2. PICK o \in Occurrence(script) :
              /\ o = At(trees[t].of, i, Given(t))
              /\ Node(t, i) = script[o.of].code[o.node]
  BY <1>1, NodeIsOccurrence
<1>3. PICK e : e = Node(t, i)
  OBVIOUS
<1>4. /\ e.kind = "previousResult" /\ trees[t].res[i] = Pending
      /\ answer[e.of] # Pending /\ Resolve(t, i, answer[e.of])
  BY <1>3 DEF ReadPrevious, PendingOf
<1>5. e.of \in Calls("evaluate")
  <2>1. IsNode(script, o.of, o.node) /\ o.of \in Steps
    BY <1>1, NodeFacts DEF Occurrence, Steps
  <2>2. e.of \in 1..(o.of - 1) /\ script[e.of].do = "evaluate"
    BY <1>2, <1>3, <1>4, <2>1 DEF IsNode, Earlier
  <2> QED BY <1>1, <2>1, <2>2, StepFacts DEF Calls, Steps
<1>6. answer[e.of] = ValueOf(script, Root(script, e.of, << >>))
  BY <1>1, <1>4, <1>5 DEF AnswersInv, Worth
<1>7. ValueOf(script, o) = ValueOf(script, Root(script, e.of, << >>))
  BY <1>1, <1>2, <1>3, <1>4, MeaningByKind
<1> QED BY <1>2, <1>4, <1>6, <1>7, ResolveKeeps

\* A call with a broken parameter is broken: so is its value.
LEMMA CallBreaksKeeps ==
    ASSUME CalcIInv, NEW t \in DOMAIN trees, NEW i \in Nodes(t), CallBreaks(t, i)
    PROVE  CalcIInv'
<1>1. StepsInv /\ TreesInv /\ script \in Scripts
  BY DEF CalcIInv, StepsInv
<1>2. PICK o \in Occurrence(script) :
              /\ o = At(trees[t].of, i, Given(t))
              /\ o.of = trees[t].of /\ o.node = i /\ o.params = Given(t)
              /\ Node(t, i) = script[o.of].code[o.node]
  BY <1>1, NodeIsOccurrence
<1>3. /\ Node(t, i).kind = "call" /\ trees[t].res[i] = Pending
      /\ Some(t, i, "broken") /\ Resolve(t, i, Broken)
  BY DEF CallBreaks, Joining, PendingOf
<1>4. PICK k \in 1..Len(Node(t, i).params) : Params(t, i)[k].st = "broken"
  BY <1>1, <1>3, ParamFacts DEF Some
<1> DEFINE v == ValueOf(script, At(trees[t].of, Node(t, i).params[k], Given(t)))
<1>5. Params(t, i)[k] \in {Pending, v} /\ v \in Outcome
  BY <1>1, <1>3, ParamFacts
<1>6. v = Broken
  <2> HIDE DEF v
  <2> QED BY <1>4, <1>5, Promises DEF Outcome
<1>7. ValueOf(script, o) = Broken
  <2>1. PICK e : e = Node(t, i)
    OBVIOUS
  <2> QED BY <1>1, <1>2, <1>3, <1>6, <2>1, BrokenCall
<1> QED BY <1>2, <1>3, <1>7, ResolveKeeps

\* An operator of the server's, or the client's own function, is called.
LEMMA CallOperatorKeeps ==
    ASSUME CalcIInv, NEW t \in DOMAIN trees, NEW i \in Nodes(t), CallOperator(t, i)
    PROVE  CalcIInv'
<1>1. StepsInv /\ TreesInv /\ script \in Scripts
  BY DEF CalcIInv, StepsInv
<1>2. trees[t].res[i] = Pending /\ CanBeCalled(t, i)
  BY <1>1, JoinFacts DEF CallOperator
<1> DEFINE fn == Node(t, i).fn
           xs == Values(t, i)
           r == IF Len(xs) = 2 THEN Fulfilled(Arith(script[fn].op, xs[1], xs[2])) ELSE Broken
<1>3. fn # Power /\ script[fn].do # "defFunction" /\ Resolve(t, i, r)
  BY <1>1, StepFacts DEF CallOperator, Calls, Steps, Power
<1> HIDE DEF fn, xs
<1>4. r = ValueOf(script, At(trees[t].of, i, Given(t)))
  BY <1>1, <1>2, <1>3, CallIsWorth DEF fn, xs
<1> QED BY <1>2, <1>3, <1>4, ResolveKeeps

LEMMA PowerFunctionKeeps ==
    ASSUME CalcIInv, NEW t \in DOMAIN trees, NEW i \in Nodes(t), PowerFunction(t, i)
    PROVE  CalcIInv'
<1>1. StepsInv /\ TreesInv
  BY DEF CalcIInv
<1>2. trees[t].res[i] = Pending /\ CanBeCalled(t, i) /\ Node(t, i).fn = Power
  BY <1>1 DEF PowerFunction, CalledBack, PendingOf, TreesInv, TreeOK
<1> DEFINE xs == Values(t, i)
           r == IF Len(xs) = 2 THEN Fulfilled(Pow(xs[1], xs[2])) ELSE Broken
<1>3. Resolve(t, i, r)
  BY DEF PowerFunction
<1> HIDE DEF xs
<1>4. r = ValueOf(script, At(trees[t].of, i, Given(t)))
  BY <1>1, <1>2, CallIsWorth DEF xs
<1> QED BY <1>2, <1>3, <1>4, ResolveKeeps

\* What a function returns is the value of its body.
LEMMA FunctionReturnsKeeps ==
    ASSUME CalcIInv, NEW t \in DOMAIN trees, NEW i \in Nodes(t), FunctionReturns(t, i)
    PROVE  CalcIInv'
<1>1. StepsInv /\ TreesInv /\ script \in Scripts
  BY DEF CalcIInv, StepsInv
<1> DEFINE u == Append(t, i)
           fn == Node(t, i).fn
           r == trees[u].res[Len(script[fn].code)]
<1>2. u \in DOMAIN trees /\ trees[t].res[i] = Pending /\ r # Pending /\ Resolve(t, i, r)
  BY DEF FunctionReturns, PendingOf
<1>3. Len(u) # 1 /\ Caller(u) = t /\ Site(u) = i
  <2>1. t \in Seq(Nat) /\ t # << >>
    BY <1>1 DEF TreesInv, TreeOK
  <2>2. i \in Nat
    BY <1>1, TreeFacts
  <2>3. Len(u) = Len(t) + 1 /\ Caller(u) = t /\ Site(u) = i
    BY <2>1, <2>2, NameOfCalled
  <2>4. Len(t) \in Nat \ {0}
    BY <2>1, EmptySeq
  <2> QED BY <2>3, <2>4
<1> HIDE DEF u
<1>4. TreeOK(u) /\ TreeOK(t)
  BY <1>1, <1>2 DEF TreesInv
<1>5. /\ fn = trees[u].of /\ fn \in Calls("defFunction")
      /\ CanBeCalled(t, i)
      /\ Given(u) = Values(t, i)
      /\ Len(Values(t, i)) = script[fn].paramCount
  BY <1>3, <1>4 DEF TreeOK, Given
<1>6. r = ValueOf(script, Root(script, fn, Values(t, i)))
  <2>1. Len(script[fn].code) \in Nodes(u)
    BY <1>1, <1>2, <1>5, TreeFacts
  <2> QED BY <1>2, <1>4, <1>5, <2>1 DEF TreeOK, Root
<1>7. fn # Power /\ script[fn].do = "defFunction"
  BY <1>1, <1>5, StepFacts DEF Calls, Steps, Power
<1> HIDE DEF fn, r
<1>8. r = ValueOf(script, At(trees[t].of, i, Given(t)))
  BY <1>1, <1>5, <1>6, <1>7, CallIsWorth DEF fn
<1> QED BY <1>2, <1>8, ResolveKeeps

\* An evaluation starts with what is right.
LEMMA FreshTree ==
    ASSUME script \in Scripts, NEW q \in Steps, script[q].do \in {"evaluate", "defFunction"},
           NEW xs \in Seq(Number), ~OutOfRange(script, q, Len(xs))
    PROVE  /\ EvaluateImpl(q, xs) = [of |-> q, res |-> EvaluateImpl(q, xs).res, called |-> {}]
           /\ DOMAIN EvaluateImpl(q, xs).res = DOMAIN script[q].code
           /\ \A i \in DOMAIN script[q].code :
                 EvaluateImpl(q, xs).res[i] \in {Pending, ValueOf(script, At(q, i, xs))}
<1> DEFINE code == script[q].code
           E == EvaluateImpl(q, xs)
<1>1. /\ E = [of |-> q, res |-> E.res, called |-> {}]
      /\ DOMAIN E.res = DOMAIN code
      /\ \A i \in DOMAIN code :
            /\ code[i].kind = "literal" => E.res[i] = Fulfilled(code[i].val)
            /\ code[i].kind = "parameter" => E.res[i] = Fulfilled(xs[code[i].idx + 1])
            /\ code[i].kind \notin {"literal", "parameter"} => E.res[i] = Pending
  BY DEF EvaluateImpl
<1>2. IsExpression(script, q) /\ q \in Nat
  BY StepFacts DEF Steps
<1> HIDE DEF code, E
<1>3. ASSUME NEW i \in DOMAIN code
      PROVE  E.res[i] \in {Pending, ValueOf(script, At(q, i, xs))}
  <2>1. PICK o \in Occurrence(script) : o = At(q, i, xs)
    <3>1. i \in Nat
      BY <1>2, <1>3 DEF IsExpression, code
    <3> QED BY <1>2, <1>3, <3>1 DEF At, Occurrence, Steps, code
  <2>2. o.of = q /\ o.node = i /\ o.params = xs
    BY <2>1 DEF At
  <2>3. PICK e : e = code[i]
    OBVIOUS
  <2>4. e = script[o.of].code[o.node]
    BY <2>2, <2>3 DEF code
  <2>5. IsNode(script, q, i)
    BY <1>2, <1>3 DEF IsExpression, code
  <2>6. CASE e.kind = "literal"
    <3>1. ValueOf(script, o) = Fulfilled(e.val)
      BY <2>4, <2>6, MeaningByKind
    <3> QED BY <1>1, <1>3, <2>1, <2>3, <2>6, <3>1
  <2>7. CASE e.kind = "parameter"
    <3>1. e.idx \in Nat /\ ~(e.idx >= Len(xs))
      BY <1>3, <2>3, <2>5, <2>7 DEF OutOfRange, IsNode, code
    <3>2. e.idx < Len(o.params)
      BY <2>2, <3>1
    <3>3. ValueOf(script, o) = Fulfilled(xs[e.idx + 1])
      BY <2>2, <2>4, <2>7, <3>2, MeaningByKind
    <3> QED BY <1>1, <1>3, <2>1, <2>3, <2>7, <3>3
  <2>8. CASE e.kind \notin {"literal", "parameter"}
    BY <1>1, <1>3, <2>3, <2>8
  <2> QED BY <2>6, <2>7, <2>8
<1> QED BY <1>1, <1>3 DEF code, E

\* A function is called at node i of t, which changes nothing else of the trees there are.
LEMMA CalledKept ==
    ASSUME CalcIInv, NEW t \in DOMAIN trees, NEW i \in Joined(t),
           script' = script, delivered' = delivered, DOMAIN trees \subseteq DOMAIN trees',
           \A v \in DOMAIN trees : trees'[v] = [trees EXCEPT ![t].called = @ \cup {i}][v]
    PROVE  \A v \in DOMAIN trees : Grows(v) /\ TreeOK(v)'
<1>1. StepsInv /\ TreesInv /\ delivered \in Nat
  BY DEF CalcIInv, StepsInv
<1>2. CanBeCalled(t, i)
  BY <1>1, JoinFacts
<1>3. ASSUME NEW v \in DOMAIN trees
      PROVE  /\ Grows(v)
             /\ \A j \in trees'[v].called : CanBeCalled(v, j)
             /\ trees'[v].res = trees[v].res
  <2>1. /\ trees[v] = [of |-> trees[v].of, res |-> trees[v].res, called |-> trees[v].called]
        /\ \A j \in trees[v].called : CanBeCalled(v, j)
    BY <1>1 DEF TreesInv, TreeOK
  <2>2. CASE v = t
    <3>1. trees'[t] = [of |-> trees[t].of, res |-> trees[t].res,
                       called |-> trees[t].called \cup {i}]
      BY <2>1, <2>2
    <3> QED BY <1>2, <2>1, <2>2, <3>1 DEF Grows
  <2>3. CASE v # t
    <3>1. trees'[v] = trees[v]
      BY <2>3
    <3> QED BY <2>1, <3>1 DEF Grows
  <2> QED BY <2>2, <2>3
<1>4. ASSUME NEW v \in DOMAIN trees PROVE TreeOK(v)'
  <2>1. Len(v) # 1 => Caller(v) \in DOMAIN trees
    BY <1>1, CallerFacts
  <2>2. \A j \in Nodes(v) : trees'[v].res[j] \in
                {Pending, ValueOf(script, At(trees[v].of, j, Given(v)))}
    BY <1>1, <1>3 DEF TreesInv, TreeOK
  <2> QED BY <1>1, <1>3, <2>1, <2>2, TreeKept
<1> QED BY <1>3, <1>4

LEMMA OthersKept ==
    ASSUME CalcIInv, UNCHANGED <<script, pos, client, link, delivered, answer>>
    PROVE  StepsInv' /\ AnswersInv' /\ ReadsAreRight' /\ AssertionsHold'
BY DEF CalcIInv, StepsInv, AnswersInv, ReadsAreRight, AssertionsHold, Steps, Calls

\* The call of the client's function goes out.
LEMMA CallBackKeeps ==
    ASSUME CalcIInv, NEW t \in DOMAIN trees, NEW i \in Nodes(t), CallBack(t, i)
    PROVE  CalcIInv'
<1>1. /\ UNCHANGED <<script, pos, client, link, delivered, answer>>
      /\ i \in Joined(t) /\ trees' = [trees EXCEPT ![t].called = @ \cup {i}]
  BY DEF CallBack
<1>2. DOMAIN trees' = DOMAIN trees
  BY <1>1
<1>3. \A v \in DOMAIN trees : TreeOK(v)'
  BY <1>1, <1>2, CalledKept
<1>4. TreesInv'
  BY <1>2, <1>3 DEF TreesInv
<1> QED BY <1>1, <1>4, OthersKept DEF CalcIInv

\* The body of a function is evaluated with what it was called with.
LEMMA FunctionCalled ==
    ASSUME CalcIInv, NEW t \in DOMAIN trees, NEW i \in Joined(t),
           UNCHANGED <<script, pos, client, link, delivered, answer>>,
           NEW q \in Calls("defFunction"), q = Node(t, i).fn,
           NEW xs, xs = Values(t, i),
           Len(xs) = script[q].paramCount, ~OutOfRange(script, q, Len(xs)),
           trees' = With([trees EXCEPT ![t].called = @ \cup {i}],
                         Append(t, i), EvaluateImpl(q, xs))
    PROVE  CalcIInv'
<1> DEFINE u == Append(t, i)
           E == EvaluateImpl(q, xs)
<1>1. StepsInv /\ TreesInv /\ script \in Scripts
  BY DEF CalcIInv, StepsInv
<1>2. CanBeCalled(t, i) /\ i \in Nodes(t) /\ i \notin trees[t].called
  BY <1>1, JoinFacts
<1>3. /\ u \in Seq(Nat) /\ u # << >> /\ Len(u) # 1
      /\ Caller(u) = t /\ Site(u) = i /\ u[1] = t[1]
  <2>1. t \in Seq(Nat) /\ t # << >>
    BY <1>1 DEF TreesInv, TreeOK
  <2>2. i \in Nat
    BY <1>1, <1>2, TreeFacts
  <2>3. /\ u \in Seq(Nat) /\ u # << >> /\ Len(u) = Len(t) + 1
        /\ Caller(u) = t /\ Site(u) = i /\ u[1] = t[1]
    BY <2>1, <2>2, NameOfCalled
  <2>4. Len(t) \in Nat \ {0}
    BY <2>1, EmptySeq
  <2> QED BY <2>3, <2>4
<1> HIDE DEF u
<1>4. u \notin DOMAIN trees
  BY <1>1, <1>2, <1>3 DEF TreesInv, TreeOK
<1> HIDE DEF E
<1>5. /\ DOMAIN trees' = DOMAIN trees \cup {u}
      /\ trees'[u] = E
      /\ \A v \in DOMAIN trees : trees'[v] = [trees EXCEPT ![t].called = @ \cup {i}][v]
  <2>1. trees' = With([trees EXCEPT ![t].called = @ \cup {i}], u, E)
    BY DEF u, E
  <2> QED BY <1>4, <2>1 DEF With
<1>6. \A v \in DOMAIN trees : Grows(v) /\ TreeOK(v)'
  BY <1>5, CalledKept
<1>7. q \in Steps /\ script[q].do = "defFunction" /\ xs \in Seq(Number)
  BY <1>1, <1>2, ValuesAreWorths DEF Calls
<1>8. /\ E = [of |-> q, res |-> E.res, called |-> {}]
      /\ DOMAIN E.res = DOMAIN script[q].code
      /\ \A j \in DOMAIN script[q].code :
            E.res[j] \in {Pending, ValueOf(script, At(q, j, xs))}
  BY <1>1, <1>7, FreshTree DEF E
<1>9. Node(t, i)' = Node(t, i) /\ Values(t, i)' = Values(t, i)
  BY <1>1, <1>2, <1>5, <1>6, CanBeCalledKept
<1>10. Given(u)' = xs
  BY <1>3, <1>9 DEF Given
<1>11. TreeOK(u)'
  <2>1. t[1] \in 1..delivered' /\ script'[t[1]].do = "evaluate"
    BY <1>1 DEF TreesInv, TreeOK
  <2>2. t \in DOMAIN trees' /\ i \in trees'[t].called
    <3>1. trees[t] = [of |-> trees[t].of, res |-> trees[t].res, called |-> trees[t].called]
      BY <1>1 DEF TreesInv, TreeOK
    <3> QED BY <1>5, <3>1
  <2>3. Calls("defFunction")' = Calls("defFunction")
    BY DEF Calls, Steps
  <2>4. trees'[u].of = q /\ trees'[u].called = {} /\ Nodes(u)' = DOMAIN script[q].code
    <3>1. E.of = q /\ E.called = {}
      BY <1>8
    <3> QED BY <1>5, <1>8, <3>1 DEF Nodes
  <2>5. trees'[u] = [of |-> trees'[u].of, res |-> trees'[u].res, called |-> trees'[u].called]
    BY <1>5, <1>8
  <2>6. \A j \in Nodes(u)' :
            trees'[u].res[j] \in {Pending, ValueOf(script, At(trees'[u].of, j, Given(u)'))}
    BY <1>5, <1>8, <1>10, <2>4
  <2>7. /\ Caller(u) \in DOMAIN trees' /\ Site(u) \in trees'[Caller(u)].called
        /\ Node(Caller(u), Site(u))' = Node(t, i)
    BY <1>3, <1>9, <2>2 DEF Node
  <2>8. /\ \A j \in trees'[u].called : CanBeCalled(u, j)'
        /\ u[1] \in 1..delivered' /\ script'[u[1]].do = "evaluate"
    BY <1>3, <2>1, <2>4
  <2>9. Len(Given(u)') = script'[trees'[u].of].paramCount /\ Given(u)' \in Seq(Number)
    BY <1>7, <1>10, <2>4
  <2>10. Nodes(u)' = DOMAIN script'[trees'[u].of].code
    BY <2>4
  <2>11. Node(Caller(u), Site(u))'.fn = trees'[u].of /\ trees'[u].of \in Calls("defFunction")'
    BY <2>3, <2>4, <2>7
  <2> QED BY <1>3, <2>5, <2>6, <2>7, <2>8, <2>9, <2>10, <2>11 DEF TreeOK
<1>12. TreesInv'
  BY <1>5, <1>6, <1>11 DEF TreesInv
<1> QED BY <1>12, OthersKept DEF CalcIInv

\* A function is called, with parameters its body can be evaluated with or not.
LEMMA CallFunctionKeeps ==
    ASSUME CalcIInv, NEW t \in DOMAIN trees, NEW i \in Nodes(t), CallFunction(t, i)
    PROVE  CalcIInv'
<1> DEFINE q == Node(t, i).fn
           xs == Values(t, i)
<1>1. StepsInv /\ TreesInv /\ script \in Scripts
  BY DEF CalcIInv, StepsInv
<1>2. i \in Joined(t) /\ q \in Calls("defFunction")
  BY DEF CallFunction
<1>3. trees[t].res[i] = Pending /\ CanBeCalled(t, i)
  BY <1>1, <1>2, JoinFacts
<1>4. CASE Len(xs) # script[q].paramCount \/ OutOfRange(script, q, Len(xs))
  <2>1. Resolve(t, i, Broken)
    BY <1>4 DEF CallFunction
  <2>2. q \in Steps /\ q # Power /\ script[q].do = "defFunction"
    BY <1>1, <1>2, StepFacts DEF Calls, Steps, Power
  <2>3. xs \in Seq(Number)
    BY <1>1, <1>3, ValuesAreWorths
  <2> HIDE DEF q, xs
  <2>4. OutOfRange(script, q, Len(xs)) => ValueOf(script, Root(script, q, xs)) = Broken
    BY <1>1, <2>2, <2>3, OutOfRangeIsBroken DEF Steps
  <2>5. ValueOf(script, At(trees[t].of, i, Given(t))) =
            IF Len(xs) = script[q].paramCount
            THEN ValueOf(script, Root(script, q, xs)) ELSE Broken
    BY <1>1, <1>3, <2>2, CallIsWorth DEF q, xs
  <2> QED BY <1>3, <1>4, <2>1, <2>4, <2>5, ResolveKeeps
<1>5. CASE ~(Len(xs) # script[q].paramCount \/ OutOfRange(script, q, Len(xs)))
  <2>1. /\ trees' = With([trees EXCEPT ![t].called = @ \cup {i}],
                         Append(t, i), EvaluateImpl(q, xs))
        /\ UNCHANGED <<script, pos, client, link, delivered, answer>>
    BY <1>5 DEF CallFunction
  <2> QED BY <1>2, <1>5, <2>1, FunctionCalled
<1> QED BY <1>4, <1>5

-----------------------------------------------------------------------------
(* The calls and what they return.                                         *)

\* A call returns what it should.
LEMMA AnswerKeeps ==
    ASSUME AnswersInv, ReadsAreRight, script' = script, NEW q \in Steps, NEW r,
           answer' = [answer EXCEPT ![q] = r],
           r.st \in {"pending", "fulfilled", "broken"},
           script[q].do = "evaluate" => r = Worth(script, q),
           script[q].do = "read" => r \in {Pending, Worth(script, script[q].of)}
    PROVE  AnswersInv' /\ ReadsAreRight'
<1>1. Steps' = Steps /\ DOMAIN answer = Steps
  BY DEF Steps, AnswersInv
<1>2. /\ DOMAIN answer' = Steps /\ answer'[q] = r
      /\ \A p \in Steps : p # q => answer'[p] = answer[p]
  BY <1>1
<1>3. AnswersInv'
  BY <1>1, <1>2 DEF AnswersInv, Calls
<1>4. ReadsAreRight'
  BY <1>1, <1>2 DEF ReadsAreRight, Calls
<1> QED BY <1>3, <1>4

LEMMA OutcomeFacts ==
    ASSUME NEW r \in Outcome
    PROVE  r.st \in {"fulfilled", "broken"} /\ r # Pending
BY Promises DEF Outcome

\* Calls arrive one by one, after they are made.
LEMMA ArrivesFacts ==
    ASSUME CalcIInv, NEW do, Arrives(do)
    PROVE  /\ StepsInv' /\ AssertionsHold'
           /\ delivered + 1 \in Steps /\ script[delivered + 1].do \in do
           /\ delivered \in Nat /\ delivered' = delivered + 1
           /\ UNCHANGED <<script, pos, client, link>>
<1>1. StepsInv /\ AssertionsHold /\ script \in Scripts
  BY DEF CalcIInv, StepsInv
<1>2. /\ script[delivered + 1].do \in do
      /\ delivered + 1 < pos /\ delivered' = delivered + 1
      /\ UNCHANGED <<script, pos, client, link>>
  BY DEF Arrives
<1>3. DOMAIN script = 1..Len(script) /\ Len(script) \in Nat
  BY <1>1, ScriptAssumption
<1>4. delivered + 1 \in Steps /\ delivered \in Nat /\ delivered + 1 \in 0..(pos - 1)
  BY <1>1, <1>2, <1>3 DEF StepsInv, Steps
<1>5. StepsInv'
  BY <1>1, <1>2, <1>4 DEF StepsInv
<1>6. AssertionsHold'
  BY <1>1, <1>2 DEF AssertionsHold
<1> QED BY <1>2, <1>4, <1>5, <1>6

\* One lemma for each of the calls that arrive.
LEMMA FunctionMadeKeeps ==
    ASSUME CalcIInv, FunctionMade
    PROVE  CalcIInv'
<1> DEFINE q == delivered + 1
<1>1. /\ Arrives({"getOperator", "defFunction"})
      /\ answer' = [answer EXCEPT ![q] = Fulfilled(q)] /\ trees' = trees
  BY DEF FunctionMade
<1>2. /\ StepsInv' /\ AssertionsHold' /\ script' = script
      /\ q \in Steps /\ script[q].do \in {"getOperator", "defFunction"}
      /\ delivered \in Nat /\ delivered' = delivered + 1
  BY <1>1, ArrivesFacts
<1>3. StepsInv /\ TreesInv /\ AnswersInv /\ ReadsAreRight
  BY DEF CalcIInv
<1>4. AnswersInv' /\ ReadsAreRight'
  <2> HIDE DEF q
  <2>1. Fulfilled(q).st = "fulfilled"
    BY Promises
  <2> QED BY <1>1, <1>2, <1>3, <2>1, AnswerKeeps
<1>5. TreesInv'
  BY <1>1, <1>2, <1>3, TreesUntouched
<1> QED BY <1>2, <1>4, <1>5 DEF CalcIInv

LEMMA ReadArrivesKeeps ==
    ASSUME CalcIInv, ReadArrives
    PROVE  CalcIInv'
<1>1. Arrives({"read", "wait"}) /\ answer' = answer /\ trees' = trees
  BY DEF ReadArrives
<1>2. /\ StepsInv' /\ AssertionsHold' /\ script' = script
      /\ delivered \in Nat /\ delivered' = delivered + 1
  BY <1>1, ArrivesFacts
<1>3. StepsInv /\ TreesInv /\ AnswersInv /\ ReadsAreRight
  BY DEF CalcIInv
<1>4. AnswersInv' /\ ReadsAreRight'
  BY <1>1, <1>2, <1>3 DEF AnswersInv, ReadsAreRight, Steps, Calls
<1>5. TreesInv'
  BY <1>1, <1>2, <1>3, TreesUntouched
<1> QED BY <1>2, <1>4, <1>5 DEF CalcIInv

LEMMA EvaluateArrivesKeeps ==
    ASSUME CalcIInv, EvaluateArrives
    PROVE  CalcIInv'
<1>1. PICK q : q = delivered + 1
  OBVIOUS
<1>2. PICK u : u = <<q>>
  OBVIOUS
<1> DEFINE E == EvaluateImpl(q, << >>)
<1>3. /\ Arrives({"evaluate"})
      /\ OutOfRange(script, q, 0) => answer' = [answer EXCEPT ![q] = Broken] /\ trees' = trees
      /\ ~OutOfRange(script, q, 0) => trees' = With(trees, u, E) /\ answer' = answer
  BY <1>1, <1>2 DEF EvaluateArrives
<1>4. /\ StepsInv' /\ AssertionsHold' /\ script' = script
      /\ q \in Steps /\ script[q].do = "evaluate"
      /\ delivered \in Nat /\ delivered' = q
  BY <1>1, <1>3, ArrivesFacts
<1>5. StepsInv /\ TreesInv /\ AnswersInv /\ ReadsAreRight /\ script \in Scripts
  BY DEF CalcIInv, StepsInv
<1>6. q \in Nat /\ delivered <= q /\ << >> \in Seq(Number) /\ Len(<< >>) = 0
  BY <1>1, <1>4, EmptySeq
<1>7. CASE OutOfRange(script, q, 0)
  <2>1. Worth(script, q) = Broken
    BY <1>4, <1>5, <1>6, <1>7, OutOfRangeIsBroken DEF Worth, Steps
  <2>2. Broken.st = "broken"
    BY Promises
  <2>3. AnswersInv' /\ ReadsAreRight'
    BY <1>3, <1>4, <1>5, <1>7, <2>1, <2>2, AnswerKeeps
  <2>4. TreesInv'
    BY <1>3, <1>4, <1>5, <1>6, <1>7, TreesUntouched
  <2> QED BY <1>4, <2>3, <2>4 DEF CalcIInv
<1>8. CASE ~OutOfRange(script, q, 0)
  <2>1. AnswersInv' /\ ReadsAreRight'
    BY <1>3, <1>4, <1>5, <1>8 DEF AnswersInv, ReadsAreRight, Steps, Calls
  <2>2. u[1] = q /\ q \notin 1..delivered
    BY <1>1, <1>2, <1>4
  <2>3. u \notin DOMAIN trees
    BY <1>1, <1>2, <1>4, <1>5 DEF TreesInv, TreeOK
  <2>4. /\ E = [of |-> q, res |-> E.res, called |-> {}]
        /\ DOMAIN E.res = DOMAIN script[q].code
        /\ \A i \in DOMAIN script[q].code :
              E.res[i] \in {Pending, ValueOf(script, At(q, i, << >>))}
    BY <1>4, <1>5, <1>6, <1>8, FreshTree
  <2>5. u \in Seq(Nat) /\ u # << >> /\ Len(u) = 1 /\ u[1] = q /\ q \in 1..q
    BY <1>1, <1>2, <1>4, <1>6
  <2> HIDE DEF E
  <2>6. /\ DOMAIN trees' = DOMAIN trees \cup {u} /\ trees'[u] = E
        /\ \A v \in DOMAIN trees : trees'[v] = trees[v]
    BY <1>3, <1>8, <2>3 DEF With
  <2>7. \A v \in DOMAIN trees : Grows(v)
    BY <1>5, <2>6 DEF TreesInv, TreeOK, Grows
  <2>8. ASSUME NEW v \in DOMAIN trees PROVE TreeOK(v)'
    <3>1. Len(v) # 1 => Caller(v) \in DOMAIN trees
      BY <1>5, CallerFacts
    <3>2. /\ \A i \in trees'[v].called : CanBeCalled(v, i)
          /\ \A i \in Nodes(v) : trees'[v].res[i] \in
                  {Pending, ValueOf(script, At(trees[v].of, i, Given(v)))}
      BY <1>5, <2>6 DEF TreesInv, TreeOK
    <3> QED BY <1>4, <1>5, <1>6, <2>6, <2>7, <3>1, <3>2, TreeKept
  <2>9. TreeOK(u)'
    <3>1. Given(u)' = << >>
      BY <2>5 DEF Given
    <3>2. trees'[u].of = q /\ trees'[u].called = {} /\ Nodes(u)' = DOMAIN script[q].code
      <4>1. E.of = q /\ E.called = {}
        BY <2>4
      <4> QED BY <2>4, <2>6, <4>1 DEF Nodes
    <3>3. trees'[u] = [of |-> trees'[u].of, res |-> trees'[u].res, called |-> trees'[u].called]
      BY <2>4, <2>6
    <3>4. \A i \in Nodes(u)' :
              trees'[u].res[i] \in {Pending, ValueOf(script, At(trees'[u].of, i, Given(u)'))}
      BY <2>4, <2>6, <3>1, <3>2
    <3> QED BY <1>4, <1>6, <2>5, <3>1, <3>2, <3>3, <3>4 DEF TreeOK
  <2>10. TreesInv'
    BY <2>6, <2>8, <2>9 DEF TreesInv
  <2> QED BY <1>4, <2>1, <2>10 DEF CalcIInv
<1> QED BY <1>7, <1>8

\* evaluate returns the value of its expression.
LEMMA EvaluateReturnsKeeps ==
    ASSUME CalcIInv, NEW q \in Steps, EvaluateReturns(q)
    PROVE  CalcIInv'
<1>1. PICK u : u = <<q>>
  OBVIOUS
<1>2. PICK r : r = trees[u].res[Len(script[q].code)]
  OBVIOUS
<1>3. /\ u \in DOMAIN trees /\ r # Pending /\ answer' = [answer EXCEPT ![q] = r]
      /\ trees' = [v \in {w \in DOMAIN trees : ~Below(w, u)} |-> trees[v]]
      /\ UNCHANGED <<script, pos, client, link, delivered>>
  BY <1>1, <1>2 DEF EvaluateReturns
<1>4. StepsInv /\ TreesInv /\ AnswersInv /\ ReadsAreRight /\ AssertionsHold /\ script \in Scripts
  BY DEF CalcIInv, StepsInv
<1>5. /\ trees[u].of = q /\ script[q].do = "evaluate" /\ Given(u) = << >>
      /\ u \in Seq(Nat)
  <2>1. TreeOK(u) /\ Len(u) = 1 /\ u[1] = q
    BY <1>1, <1>3, <1>4 DEF TreesInv
  <2> QED BY <2>1 DEF TreeOK, Given
<1>6. r = Worth(script, q) /\ r \in Outcome
  <2>1. Len(script[q].code) \in Nodes(u)
    BY <1>3, <1>4, <1>5, TreeFacts
  <2>2. /\ r = ValueOf(script, At(q, Len(script[q].code), << >>))
        /\ At(q, Len(script[q].code), << >>) \in Occurrence(script)
    BY <1>2, <1>3, <1>4, <1>5, <2>1, TreeFacts DEF TreesInv, TreeOK
  <2> QED BY <1>4, <2>2, MeaningFacts DEF Worth, Root
<1>7. AnswersInv' /\ ReadsAreRight'
  BY <1>3, <1>4, <1>5, <1>6, OutcomeFacts, AnswerKeeps
<1>8. TreesInv'
  <2>1. /\ DOMAIN trees' = {v \in DOMAIN trees : ~Below(v, u)}
        /\ \A v \in DOMAIN trees' : trees'[v] = trees[v]
    BY <1>3
  <2>2. \A v \in DOMAIN trees' : Grows(v)
    BY <1>4, <2>1 DEF TreesInv, TreeOK, Grows
  <2>3. ASSUME NEW v \in DOMAIN trees' PROVE TreeOK(v)'
    <3>1. v \in DOMAIN trees /\ v \in Seq(Nat) /\ v # << >> /\ ~Below(v, u)
      BY <1>4, <2>1 DEF TreesInv, TreeOK
    <3>2. ASSUME Len(v) # 1 PROVE Caller(v) \in DOMAIN trees'
      <4>1. Caller(v) \in DOMAIN trees
        BY <1>4, <3>1, <3>2, CallerFacts
      <4>2. ~Below(Caller(v), u)
        BY <1>5, <3>1, <3>2, NamedBelow
      <4> QED BY <2>1, <4>1, <4>2
    <3>3. /\ \A i \in trees'[v].called : CanBeCalled(v, i)
          /\ \A i \in Nodes(v) : trees'[v].res[i] \in
                  {Pending, ValueOf(script, At(trees[v].of, i, Given(v)))}
      BY <1>4, <2>1, <3>1 DEF TreesInv, TreeOK
    <3>4. delivered' \in Nat /\ delivered <= delivered' /\ script' = script
      BY <1>3, <1>4 DEF StepsInv
    <3> QED BY <1>4, <2>2, <3>1, <3>2, <3>3, <3>4, TreeKept
  <2> QED BY <2>3 DEF TreesInv
<1>9. StepsInv' /\ AssertionsHold'
  BY <1>3, <1>4 DEF StepsInv, AssertionsHold
<1> QED BY <1>7, <1>8, <1>9 DEF CalcIInv

\* The trees go on, or are dropped altogether.
LEMMA TreesStay ==
    ASSUME CalcIInv, UNCHANGED <<script, delivered>>, trees' = trees \/ trees' = << >>
    PROVE  TreesInv'
<1>1. StepsInv /\ TreesInv /\ delivered \in Nat
  BY DEF CalcIInv, StepsInv
<1>2. CASE trees' = trees
  BY <1>1, <1>2, TreesUntouched
<1>3. CASE trees' = << >>
  <2>1. DOMAIN trees' = {}
    BY <1>3
  <2> QED BY <2>1 DEF TreesInv
<1> QED BY <1>2, <1>3

\* A read returns what the evaluate it was called on has returned.
LEMMA ReadValueKeeps ==
    ASSUME CalcIInv, NEW q \in Steps, ReadValue(q)
    PROVE  CalcIInv'
<1>1. PICK r : r = answer[script[q].of]
  OBVIOUS
<1>2. /\ script[q].do = "read" /\ r # Pending /\ answer' = [answer EXCEPT ![q] = r]
      /\ UNCHANGED <<script, pos, client, link, delivered, trees>>
  BY <1>1 DEF ReadValue
<1>3. StepsInv /\ AnswersInv /\ ReadsAreRight /\ AssertionsHold /\ script \in Scripts
  BY DEF CalcIInv, StepsInv
<1>4. script[q].of \in Calls("evaluate")
  BY <1>2, <1>3, StepFacts DEF IsStep, Earlier, Calls, Steps
<1>5. r = Worth(script, script[q].of) /\ r.st \in {"pending", "fulfilled", "broken"}
  BY <1>1, <1>2, <1>3, <1>4 DEF AnswersInv, Calls
<1>6. AnswersInv' /\ ReadsAreRight'
  BY <1>2, <1>3, <1>5, AnswerKeeps
<1>7. StepsInv' /\ AssertionsHold'
  BY <1>2, <1>3 DEF StepsInv, AssertionsHold
<1> QED BY <1>2, <1>6, <1>7, TreesStay DEF CalcIInv

-----------------------------------------------------------------------------
(* The client.                                                             *)

\* What the client waits for is a read, the value of which it asserts.
LEMMA WaitFacts ==
    ASSUME CalcIInv, Waiting
    PROVE  LET w == script[pos] IN
           /\ answer[w.of] \in {Pending, Worth(script, script[w.of].of)}
           /\ Worth(script, script[w.of].of) \in {Broken, Fulfilled(w.is)}
<1>1. script \in Scripts /\ ReadsAreRight /\ pos \in DOMAIN script /\ script[pos].do = "wait"
  BY DEF CalcIInv, StepsInv, Waiting, Running, Steps
<1>2. script[pos].of \in Calls("read")
  BY <1>1, StepFacts DEF IsStep, Earlier, Calls, Steps
<1> QED BY <1>1, <1>2, ExpectationAssumption DEF ReadsAreRight

LEMMA AnswersStay ==
    ASSUME CalcIInv, UNCHANGED <<script, answer>>
    PROVE  AnswersInv' /\ ReadsAreRight'
BY DEF CalcIInv, AnswersInv, ReadsAreRight, Steps, Calls

\* The client's own steps: it fails on a wait only for a reason.
LEMMA ClientKeeps ==
    ASSUME CalcIInv, Send \/ WaitReturns \/ WaitThrows \/ MainReturns
    PROVE  CalcIInv'
<1>1. StepsInv /\ AssertionsHold /\ script \in Scripts
  BY DEF CalcIInv, StepsInv
<1>2. UNCHANGED <<script, link, delivered, answer, trees>>
  BY DEF Send, WaitReturns, WaitThrows, MainReturns
<1>3. pos \in DOMAIN script => pos + 1 \in 1..(Len(script) + 1)
  BY <1>1, ScriptAssumption
<1>4. CASE Send
  <2>1. pos' = pos + 1 /\ client' = client /\ client = "running" /\ pos \in DOMAIN script
    BY <1>4 DEF Send, Running, Steps
  <2>2. StepsInv'
    BY <1>1, <1>2, <1>3, <2>1 DEF StepsInv
  <2> QED BY <1>2, <2>1, <2>2, AnswersStay, TreesStay DEF CalcIInv, AssertionsHold
<1>5. CASE WaitReturns
  <2>1. Waiting /\ client = "running" /\ pos \in DOMAIN script
    BY <1>5 DEF WaitReturns, Waiting, Running, Steps
  <2>2. answer[script[pos].of].val = script[pos].is
    <3>1. answer[script[pos].of].st = "fulfilled"
      BY <1>5 DEF WaitReturns
    <3> QED BY <2>1, <3>1, WaitFacts, Promises
  <2>3. pos' = pos + 1 /\ client' = client
    BY <1>5, <2>2 DEF WaitReturns
  <2>4. StepsInv'
    BY <1>1, <1>2, <1>3, <2>1, <2>3 DEF StepsInv
  <2> QED BY <1>2, <2>1, <2>3, <2>4, AnswersStay, TreesStay DEF CalcIInv, AssertionsHold
<1>6. CASE WaitThrows
  <2>1. /\ Waiting /\ client' = "failed" /\ pos' = pos
        /\ answer[script[pos].of] = Broken \/ link = "down"
    BY <1>6 DEF WaitThrows
  <2>2. link = "down" \/ Worth(script, script[script[pos].of].of) = Broken
    BY <2>1, WaitFacts, Promises
  <2>3. StepsInv' /\ AssertionsHold'
    BY <1>1, <1>2, <2>1, <2>2 DEF StepsInv, AssertionsHold
  <2> QED BY <1>2, <2>3, AnswersStay, TreesStay DEF CalcIInv
<1>7. CASE MainReturns
  <2>1. StepsInv' /\ AssertionsHold'
    BY <1>1, <1>2, <1>7 DEF MainReturns, StepsInv, AssertionsHold
  <2> QED BY <1>2, <2>1, AnswersStay, TreesStay DEF CalcIInv
<1> QED BY <1>4, <1>5, <1>6, <1>7

\* The connection breaks, and the trees are gone.
LEMMA DisconnectKeeps ==
    ASSUME CalcIInv, Disconnect
    PROVE  CalcIInv'
<1>1. /\ link' = "down" /\ trees' = << >>
      /\ UNCHANGED <<script, pos, client, delivered, answer>>
  BY DEF Disconnect
<1>2. StepsInv' /\ AssertionsHold'
  BY <1>1 DEF CalcIInv, StepsInv, AssertionsHold
<1> QED BY <1>1, <1>2, AnswersStay, TreesStay DEF CalcIInv

LEMMA CalcStarts == CalcInit => CalcIInv
<1> SUFFICES ASSUME CalcInit PROVE CalcIInv
  OBVIOUS
<1>1. Len(script) \in Nat
  BY ScriptAssumption DEF CalcInit
<1>2. StepsInv
  BY <1>1 DEF CalcInit, StepsInv
<1>3. AnswersInv /\ ReadsAreRight
  BY Promises DEF CalcInit, AnswersInv, ReadsAreRight, Calls
<1>4. TreesInv
  <2>1. DOMAIN trees = {}
    BY DEF CalcInit
  <2> QED BY <2>1 DEF TreesInv
<1>5. AssertionsHold
  BY DEF CalcInit, AssertionsHold
<1> QED BY <1>2, <1>3, <1>4, <1>5 DEF CalcIInv

LEMMA CalcSteps == CalcIInv /\ [CalcNext]_calcVars => CalcIInv'
<1> SUFFICES ASSUME CalcIInv, [CalcNext]_calcVars PROVE CalcIInv'
  OBVIOUS
<1>1. CASE FunctionMade
  BY <1>1, FunctionMadeKeeps
<1>2. CASE EvaluateArrives
  BY <1>2, EvaluateArrivesKeeps
<1>3. CASE ReadArrives
  BY <1>3, ReadArrivesKeeps
<1>4. ASSUME NEW q \in Steps, EvaluateReturns(q) PROVE CalcIInv'
  BY <1>4, EvaluateReturnsKeeps
<1>5. ASSUME NEW q \in Steps, ReadValue(q) PROVE CalcIInv'
  BY <1>5, ReadValueKeeps
<1>6. ASSUME NEW t \in DOMAIN trees, NEW i \in Nodes(t),
             ReadPrevious(t, i) \/ CallBreaks(t, i) \/ CallOperator(t, i) \/ CallFunction(t, i)
                \/ FunctionReturns(t, i) \/ CallBack(t, i) \/ PowerFunction(t, i)
      PROVE  CalcIInv'
  BY <1>6, ReadPreviousKeeps, CallBreaksKeeps, CallOperatorKeeps, CallFunctionKeeps,
     FunctionReturnsKeeps, CallBackKeeps, PowerFunctionKeeps
<1>7. CASE Send \/ WaitReturns \/ WaitThrows \/ MainReturns
  BY <1>7, ClientKeeps
<1>8. CASE Disconnect
  BY <1>8, DisconnectKeeps
<1>9. CASE CalcEnded \/ UNCHANGED calcVars
  <2>1. UNCHANGED <<script, pos, client, link, delivered, answer>> /\ trees' = trees
    BY <1>9 DEF CalcEnded, calcVars
  <2> QED BY <2>1, OthersKept, TreesStay DEF CalcIInv
<1> QED BY <1>1, <1>2, <1>3, <1>4, <1>5, <1>6, <1>7, <1>8, <1>9
        DEF CalcNext, Server, ClientRuns

LEMMA CalcInductive == CalcSpec => []CalcIInv
BY CalcStarts, CalcSteps, PTL DEF CalcSpec

\* The reference is well defined: however deep a client's expressions refer to
\* each other, each node of them has a value or none, and it is what its kind
\* (calculator.capnp) makes of those it refers to.
THEOREM CalculatorReference ==
    \A sc \in Scripts : \A o \in Occurrence(sc) :
        /\ ValueOf(sc, o) \in Outcome
        /\ ValueOf(sc, o) = ValueBy(sc, [p \in Occurrence(sc) |-> ValueOf(sc, p)], o)
BY MeaningFacts DEF Meaning

\* Whatever expressions clients evaluate, in whatever order the promises of
\* evaluateImpl are resolved: a read returns the value of its expression, and is
\* broken only if that has none.
THEOREM CalculatorReadsAreRight == CalcSpec => []ReadsAreRight
<1>1. CalcIInv => ReadsAreRight
  BY DEF CalcIInv
<1> QED BY <1>1, CalcInductive, PTL

\* A KJ_ASSERT of a client that is right about its expressions never fails: the
\* client fails only if the connection breaks, or on an expression without a value.
THEOREM CalculatorAssertionsHold == CalcSpec => []AssertionsHold
<1>1. CalcIInv => AssertionsHold
  BY DEF CalcIInv
<1> QED BY <1>1, CalcInductive, PTL

\* Calls reach the server after they were made, and only they have evaluations.
THEOREM CalculatorTypeCorrect == CalcSpec => []CalcTypeOK
<1>1. CalcIInv => CalcTypeOK
  BY TreeFacts DEF CalcIInv, CalcTypeOK, StepsInv, AnswersInv
<1> QED BY <1>1, CalcInductive, PTL

=============================================================================
