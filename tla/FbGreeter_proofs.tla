--------------------------- MODULE FbGreeter_proofs ---------------------------
(***************************************************************************)
(* Proofs about FbGreeter: SayHello is answered right whatever happens to  *)
(* the shared builder, and with a single client, whose handlers have the   *)
(* builder to themselves, so is SayManyHellos.                             *)
(***************************************************************************)
EXTENDS FbGreeter, SequenceTheorems, TLAPS

\* Where the call of a client, its handler and its output stand together.
CallInv(c) ==
    /\ pc[c] \in {"main", "hello"} => lines[c] = <<>>
    /\ pc[c] \notin {"main", "hello"} => lines[c] # <<>> /\ lines[c][1] \in {c, Failed}
    /\ pc[c] = "hello" /\ h[c] = "returned" => sent[c] = <<c>>
    /\ h[c] = "many" => pc[c] \in {"many", "ended"}
    /\ part[c] # "none" => h[c] = "many" /\ Len(sent[c]) < NumGreetings

IInv == TypeOK /\ \A c \in Client : CallInv(c)

LEMMA InitIInv == Init => IInv
<1> SUFFICES ASSUME Init
             PROVE  IInv
  OBVIOUS
<1>1. <<>> \in Seq(Greeting) /\ <<>> \in Seq(Greeting \cup {Failed}) /\ Len(<<>>) = 0
  OBVIOUS
<1>2. TypeOK
  <2>1. /\ lines \in [Client -> Seq(Greeting \cup {Failed})]
        /\ sent \in [Client -> Seq(Greeting)]
    BY <1>1 DEF Init
  <2>2. \A c \in Client : Len(sent[c]) <= NumGreetings
    <3>1. \A c \in Client : sent[c] = <<>>
      BY DEF Init
    <3>2. 0 <= NumGreetings
      BY FbGreeterAssumption
    <3> QED BY <1>1, <3>1, <3>2
  <2>3. boots \in 0..MaxBoots
    <3>1. MaxBoots \in Nat /\ boots = 0
      BY FbGreeterAssumption DEF Init
    <3> QED BY <3>1
  <2>4. /\ pc \in [Client -> {"main", "hello", "between", "many", "ended"}]
        /\ link \in [Client -> {"open", "broken"}]
        /\ rd \in [Client -> Nat]
        /\ h \in [Client -> {"none", "many", "returned"}]
        /\ part \in [Client -> Parts]
        /\ mb \in {"clean", "raced"} /\ up \in BOOLEAN
    BY DEF Init, Parts
  <2> QED BY <2>1, <2>2, <2>3, <2>4 DEF TypeOK
<1>3. \A c \in Client : CallInv(c)
  BY DEF Init, CallInv
<1> QED BY <1>2, <1>3 DEF IInv

\* A line more leaves the first one what it was.
LEMMA LineMore ==
    ASSUME NEW L, NEW s \in Seq(L), NEW x \in L
    PROVE  /\ Append(s, x) \in Seq(L) /\ Append(s, x) # <<>>
           /\ s # <<>> => Append(s, x)[1] = s[1]
           /\ s = <<>> => Append(s, x)[1] = x
<1>1. Len(Append(s, x)) = Len(s) + 1 /\ Len(s) \in Nat
  OBVIOUS
<1>2. s # <<>> => 1 \in 1..Len(s)
  OBVIOUS
<1> QED BY <1>1, <1>2

\* A step that leaves a client's part of the state alone.
LEMMA SameCall ==
    ASSUME NEW c \in Client, CallInv(c),
           pc'[c] = pc[c], lines'[c] = lines[c], sent'[c] = sent[c],
           h'[c] = h[c], part'[c] = part[c]
    PROVE  CallInv(c)'
BY DEF CallInv

LEMMA ClientIInv ==
    ASSUME IInv, NEW c \in Client, ClientStep(c)
    PROVE  IInv'
<1>0. TypeOK /\ CallInv(c) /\ c \in Greeting /\ Failed \in Greeting \cup {Failed}
  BY DEF IInv, Greeting
<1>1. CASE CallSayHello(c)
  <2>1. TypeOK'
    BY <1>0, <1>1, FbGreeterAssumption DEF CallSayHello, NewCall, TypeOK, serverVars
  <2>2. ASSUME NEW d \in Client PROVE CallInv(d)'
    <3>1. CASE d = c
      BY <1>0, <1>1, <3>1 DEF CallSayHello, NewCall, TypeOK, CallInv, serverVars
    <3>2. CASE d # c
      BY <1>1, <3>2, SameCall DEF IInv, CallSayHello, NewCall, TypeOK, serverVars
    <3> QED BY <3>1, <3>2
  <2> QED BY <2>1, <2>2 DEF IInv
<1>2. CASE SayHelloReturns(c)
  <2>1. PICK line \in {c, Failed} : lines' = [lines EXCEPT ![c] = Append(@, line)]
    <3>1. h[c] = "returned" => sent[c][1] = c
      BY <1>0, <1>2 DEF SayHelloReturns, CallInv
    <3> QED BY <1>2, <3>1 DEF SayHelloReturns, Prints
  <2>2. /\ Append(lines[c], line) \in Seq(Greeting \cup {Failed})
        /\ Append(lines[c], line) # <<>> /\ Append(lines[c], line)[1] = line
    <3>1. lines[c] \in Seq(Greeting \cup {Failed}) /\ line \in Greeting \cup {Failed}
      BY <1>0 DEF TypeOK
    <3>2. lines[c] = <<>>
      BY <1>0, <1>2 DEF SayHelloReturns, CallInv
    <3> QED BY <3>1, <3>2, LineMore
  <2>3. TypeOK'
    BY <1>0, <1>2, <2>1, <2>2 DEF SayHelloReturns, TypeOK, callVars, serverVars
  <2>4. ASSUME NEW d \in Client PROVE CallInv(d)'
    <3>1. CASE d = c
      BY <1>0, <1>2, <2>1, <2>2, <3>1
      DEF SayHelloReturns, TypeOK, CallInv, callVars, serverVars
    <3>2. CASE d # c
      BY <1>2, <2>1, <3>2, SameCall DEF IInv, SayHelloReturns, TypeOK, callVars, serverVars
    <3> QED BY <3>1, <3>2
  <2> QED BY <2>3, <2>4 DEF IInv
<1>3. CASE CallSayManyHellos(c)
  <2>1. TypeOK'
    BY <1>0, <1>3, FbGreeterAssumption DEF CallSayManyHellos, NewCall, TypeOK, serverVars
  <2>2. ASSUME NEW d \in Client PROVE CallInv(d)'
    <3>1. CASE d = c
      BY <1>0, <1>3, <3>1 DEF CallSayManyHellos, NewCall, TypeOK, CallInv, serverVars
    <3>2. CASE d # c
      BY <1>3, <3>2, SameCall DEF IInv, CallSayManyHellos, NewCall, TypeOK, serverVars
    <3> QED BY <3>1, <3>2
  <2> QED BY <2>1, <2>2 DEF IInv
<1>4. CASE Read(c) \/ FinishOk(c) \/ FinishFails(c)
  <2>1. \/ lines' = lines
        \/ \E line \in Greeting \cup {Failed} : lines' = [lines EXCEPT ![c] = Append(@, line)]
    <3>1. CASE Read(c)
      <4>1. sent[c] \in Seq(Greeting) /\ rd[c] \in Nat /\ rd[c] < Len(sent[c])
        BY <1>0, <3>1 DEF Read, TypeOK
      <4>2. sent[c][rd[c] + 1] \in Greeting
        BY <4>1
      <4> QED BY <3>1, <4>2 DEF Read, Prints
    <3> QED BY <1>0, <1>4, <3>1 DEF FinishOk, FinishFails, Prints
  <2>2. /\ pc' \in {pc, [pc EXCEPT ![c] = "ended"]} /\ pc[c] = "many"
        /\ rd' \in {rd, [rd EXCEPT ![c] = @ + 1]}
        /\ UNCHANGED <<link, sent, h, serverVars>>
    BY <1>4 DEF Read, FinishOk, FinishFails, callVars
  <2>3. \A line \in Greeting \cup {Failed} :
            /\ Append(lines[c], line) \in Seq(Greeting \cup {Failed})
            /\ Append(lines[c], line) # <<>>
            /\ Append(lines[c], line)[1] = lines[c][1]
    <3>1. lines[c] \in Seq(Greeting \cup {Failed}) /\ lines[c] # <<>>
      BY <1>0, <2>2 DEF TypeOK, CallInv
    <3> QED BY <3>1, LineMore
  <2>4. TypeOK'
    <3>1. lines' \in [Client -> Seq(Greeting \cup {Failed})]
      BY <1>0, <2>1, <2>3 DEF TypeOK
    <3>2. /\ pc' \in [Client -> {"main", "hello", "between", "many", "ended"}]
          /\ rd' \in [Client -> Nat]
      <4>1. pc \in [Client -> {"main", "hello", "between", "many", "ended"}]
        BY <1>0 DEF TypeOK
      <4>2. rd \in [Client -> Nat]
        BY <1>0 DEF TypeOK
      <4> QED BY <2>2, <4>1, <4>2
    <3>3. \A d \in Client : Len(sent'[d]) <= NumGreetings \/ pc'[d] \in {"hello", "between"}
      BY <1>0, <2>2 DEF TypeOK
    <3> QED BY <1>0, <2>2, <3>1, <3>2, <3>3 DEF TypeOK, serverVars
  <2>5. ASSUME NEW d \in Client PROVE CallInv(d)'
    <3>1. CASE d = c
      <4>1. pc'[c] \in {"many", "ended"} /\ sent'[c] = sent[c] /\ h'[c] = h[c]
            /\ part'[c] = part[c]
        BY <1>0, <2>2 DEF TypeOK, serverVars
      <4>2. lines'[c] # <<>> /\ lines'[c][1] \in {c, Failed}
        <5>1. lines[c] # <<>> /\ lines[c][1] \in {c, Failed}
          BY <1>0, <2>2 DEF CallInv
        <5>2. DOMAIN lines = Client
          BY <1>0 DEF TypeOK
        <5> QED BY <2>1, <2>3, <5>1, <5>2
      <4> QED BY <1>0, <3>1, <4>1, <4>2 DEF CallInv
    <3>2. CASE d # c
      <4>1. pc'[d] = pc[d] /\ lines'[d] = lines[d]
        BY <1>0, <2>1, <2>2, <3>2 DEF TypeOK
      <4> QED BY <2>2, <4>1, SameCall DEF IInv, serverVars
    <3> QED BY <3>1, <3>2
  <2> QED BY <2>4, <2>5 DEF IInv
<1> QED BY <1>1, <1>2, <1>3, <1>4 DEF ClientStep

LEMMA HandlerIInv ==
    ASSUME IInv, NEW c \in Client, HandlerStep(c)
    PROVE  IInv'
<1>0. TypeOK /\ CallInv(c) /\ c \in Greeting
  BY DEF IInv, Greeting
<1>1. CASE SayHello(c)
  <2>1. <<c>> \in Seq(Greeting)
    BY <1>0
  <2>2. TypeOK'
    BY <1>0, <1>1, <2>1 DEF SayHello, TypeOK, serverVars
  <2>3. ASSUME NEW d \in Client PROVE CallInv(d)'
    BY <1>1 DEF IInv, SayHello, TypeOK, CallInv, serverVars
  <2> QED BY <2>2, <2>3 DEF IInv
<1>2. CASE SayManyHellos(c) \/ SayManyHellosReturns(c)
  <2>1. TypeOK'
    BY <1>0, <1>2 DEF SayManyHellos, SayManyHellosReturns, TypeOK, serverVars
  <2>2. ASSUME NEW d \in Client PROVE CallInv(d)'
    BY <1>2 DEF IInv, SayManyHellos, SayManyHellosReturns, TypeOK, CallInv, serverVars
  <2> QED BY <2>1, <2>2 DEF IInv
<1>3. CASE CreateString(c) \/ CreateHelloReply(c) \/ Finish(c)
  <2>1. /\ UNCHANGED <<pc, lines, link, sent, rd, h, up, boots>>
        /\ part' \in [Client -> Parts] /\ mb' \in {"clean", "raced"}
        /\ h[c] = "many" /\ \A d \in Client : d # c => part'[d] = part[d]
        /\ Len(sent[c]) < NumGreetings
    BY <1>0, <1>3
    DEF CreateString, CreateHelloReply, Finish, Builds, TypeOK, CallInv, Parts
  <2>2. TypeOK'
    BY <1>0, <2>1 DEF TypeOK
  <2>3. ASSUME NEW d \in Client PROVE CallInv(d)'
    BY <2>1 DEF IInv, CallInv
  <2> QED BY <2>2, <2>3 DEF IInv
<1>4. CASE ReleaseAndWrite(c)
  <2>1. PICK g \in FromShared(c) : sent' = [sent EXCEPT ![c] = Append(@, g)]
    BY <1>4 DEF ReleaseAndWrite
  <2>2. /\ Append(sent[c], g) \in Seq(Greeting)
        /\ Len(Append(sent[c], g)) <= NumGreetings
        /\ pc[c] \in {"many", "ended"} /\ h[c] = "many"
    <3>1. g \in Greeting
      BY <1>0 DEF FromShared
    <3>2. sent[c] \in Seq(Greeting) /\ Len(sent[c]) < NumGreetings /\ h[c] = "many"
      BY <1>0, <1>4 DEF ReleaseAndWrite, Builds, TypeOK, CallInv
    <3> QED BY <1>0, <3>1, <3>2, FbGreeterAssumption DEF CallInv
  <2>3. /\ UNCHANGED <<pc, lines, link, rd, h, up, boots>>
        /\ part' = [part EXCEPT ![c] = "none"] /\ mb' \in {"clean", "raced"}
    BY <1>0, <1>4 DEF ReleaseAndWrite, Builds, TypeOK
  <2>4. TypeOK'
    BY <1>0, <2>1, <2>2, <2>3 DEF TypeOK, Parts
  <2>5. ASSUME NEW d \in Client PROVE CallInv(d)'
    <3>1. CASE d = c
      BY <1>0, <2>1, <2>2, <2>3, <3>1 DEF CallInv, TypeOK
    <3>2. CASE d # c
      BY <2>1, <2>3, <3>2, SameCall DEF IInv, TypeOK
    <3> QED BY <3>1, <3>2
  <2> QED BY <2>4, <2>5 DEF IInv
<1> QED BY <1>1, <1>2, <1>3, <1>4 DEF HandlerStep

LEMMA EnvironmentIInv ==
    ASSUME IInv,
           \/ \E c \in Client : Break(c)
           \/ ServerStarts \/ ServerGoes \/ AllEnded \/ UNCHANGED vars
    PROVE  IInv'
<1>1. CASE \E c \in Client : Break(c)
  BY <1>1 DEF IInv, Break, TypeOK, CallInv, serverVars
<1>2. CASE ServerStarts
  BY <1>2, FbGreeterAssumption DEF IInv, ServerStarts, TypeOK, CallInv, callVars
<1>3. CASE ServerGoes
  BY <1>3 DEF IInv, ServerGoes, TypeOK, CallInv, Parts
<1>4. CASE AllEnded \/ UNCHANGED vars
  BY <1>4 DEF IInv, AllEnded, TypeOK, CallInv, vars, callVars, serverVars
<1> QED BY <1>1, <1>2, <1>3, <1>4

LEMMA StepIInv == IInv /\ [Next]_vars => IInv'
BY ClientIInv, HandlerIInv, EnvironmentIInv DEF Next

-----------------------------------------------------------------------------
(* A client that is alone with the server                                  *)

\* What a client has printed of its stream, which may end with it.
StreamSeen(c) ==
    /\ \A i \in 1..Len(sent[c]) : sent[c][i] = c
    /\ pc[c] = "between" => Len(lines[c]) = 1
    /\ pc[c] = "many" =>
        /\ Len(lines[c]) = rd[c] + 1 /\ rd[c] <= Len(sent[c])
        /\ \A i \in 2..Len(lines[c]) : lines[c][i] = c
        /\ h[c] = "returned" => Len(sent[c]) = NumGreetings

LoneInv == IInv /\ mb = "clean" /\ GreetsItsCaller /\ \A c \in Client : StreamSeen(c)

\* n times the same line.
Same(n, x) == [i \in 1..n |-> x]

\* The lines behind the first one, when they are all the same.
LEMMA TailOfSame ==
    ASSUME NEW L, NEW s \in Seq(L), NEW x, NEW n \in Nat, Len(s) = n + 1,
           \A i \in 2..Len(s) : s[i] = x
    PROVE  /\ Tail(s) = Same(n, x)
           /\ \A y \in L : Tail(Append(s, y)) = Append(Tail(s), y)
<1>1. Tail(s) = Same(n, x)
  <2> DEFINE T == L \cup {x}
             same == [i \in 1..n |-> x]
  <2>1. s \in Seq(T) /\ s # <<>>
    OBVIOUS
  <2>2. /\ Tail(s) \in Seq(T) /\ Len(Tail(s)) = n
        /\ \A i \in 1..Len(Tail(s)) : Tail(s)[i] = s[i + 1]
    BY <2>1, HeadTailProperties
  <2>3. same \in Seq(T) /\ Len(same) = n /\ \A i \in 1..n : same[i] = x
    OBVIOUS
  <2>4. \A i \in 1..Len(Tail(s)) : Tail(s)[i] = same[i]
    BY <2>2, <2>3
  <2> HIDE DEF T, same
  <2>5. Tail(s) = same
    BY <2>2, <2>3, <2>4, SeqEqual
  <2> QED BY <2>5 DEF same, Same
<1>2. \A y \in L : Tail(Append(s, y)) = Append(Tail(s), y)
  BY HeadTailAppend
<1> QED BY <1>1, <1>2

LEMMA InitLone == Init => LoneInv
<1> SUFFICES ASSUME Init
             PROVE  LoneInv
  OBVIOUS
<1>1. \A c \in Client : StreamSeen(c)
  <2>1. Len(<<>>) = 0
    OBVIOUS
  <2>2. \A c \in Client : sent[c] = <<>> /\ pc[c] = "main"
    BY DEF Init
  <2>3. ASSUME NEW c \in Client
        PROVE  StreamSeen(c)
    <3>1. sent[c] = <<>> /\ pc[c] = "main" /\ 1..Len(sent[c]) = {}
      BY <2>1, <2>2
    <3> QED BY <3>1, Zenon DEF StreamSeen
  <2> QED BY <2>3
<1> QED BY <1>1, InitIInv DEF Init, LoneInv, GreetsItsCaller

\* The end of the stream: all greetings and an OK status, or "RPC failed".
LEMMA FinishLone ==
    ASSUME LoneInv, NEW c \in Client, Client = {c}, FinishOk(c) \/ FinishFails(c)
    PROVE  GreetsItsCaller'
<1>1. /\ lines[c] \in Seq(Greeting \cup {Failed}) /\ Failed \in Greeting \cup {Failed}
      /\ rd[c] \in Nat /\ sent[c] \in Seq(Greeting)
      /\ pc[c] = "many" /\ DOMAIN lines = Client /\ StreamSeen(c)
      /\ Len(sent[c]) <= NumGreetings
  BY DEF LoneInv, IInv, TypeOK, FinishOk, FinishFails
<1>2. /\ Tail(lines[c]) = Same(rd[c], c)
      /\ Tail(Append(lines[c], Failed)) = Append(Tail(lines[c]), Failed)
  <2>1. Len(lines[c]) = rd[c] + 1 /\ \A i \in 2..Len(lines[c]) : lines[c][i] = c
    BY <1>1 DEF StreamSeen
  <2> QED BY <1>1, <2>1, TailOfSame
<1>3. rd[c] \in 0..NumGreetings
  BY <1>1, FbGreeterAssumption DEF StreamSeen
<1>4. CASE FinishOk(c)
  <2>1. rd[c] = NumGreetings /\ lines' = lines
    BY <1>1, <1>4 DEF FinishOk, StreamSeen
  <2> QED BY <1>2, <1>3, <2>1 DEF GreetsItsCaller, Same
<1>5. CASE FinishFails(c)
  <2>1. lines'[c] = Append(lines[c], Failed)
    BY <1>1, <1>5 DEF FinishFails, Prints
  <2> QED BY <1>2, <1>3, <2>1 DEF GreetsItsCaller, Same
<1> QED BY <1>4, <1>5

LEMMA ClientLone ==
    ASSUME LoneInv, NEW c \in Client, Client = {c}, ClientStep(c)
    PROVE  LoneInv'
<1>0. /\ TypeOK /\ CallInv(c) /\ StreamSeen(c) /\ IInv'
      /\ lines[c] \in Seq(Greeting \cup {Failed}) /\ sent[c] \in Seq(Greeting)
      /\ rd[c] \in Nat /\ mb = "clean"
  BY ClientIInv DEF LoneInv, IInv, TypeOK
<1>1. mb' = "clean"
  BY <1>0 DEF ClientStep, CallSayHello, SayHelloReturns, CallSayManyHellos, Read,
              FinishOk, FinishFails, serverVars
<1>2. CASE CallSayHello(c) \/ CallSayManyHellos(c)
  <2>1. /\ sent'[c] = <<>> /\ rd'[c] = 0 /\ h'[c] = "none" /\ lines' = lines
        /\ \/ pc[c] = "main" /\ pc'[c] = "hello"
           \/ pc[c] = "between" /\ pc'[c] = "many"
    BY <1>0, <1>2 DEF CallSayHello, CallSayManyHellos, NewCall, TypeOK
  <2>2. StreamSeen(c)'
    BY <1>0, <2>1 DEF StreamSeen
  <2>3. GreetsItsCaller'
    BY <2>1 DEF GreetsItsCaller
  <2> QED BY <1>0, <1>1, <2>2, <2>3 DEF LoneInv
<1>3. CASE SayHelloReturns(c)
  <2>1. PICK line : lines' = [lines EXCEPT ![c] = Append(@, line)]
    BY <1>3 DEF SayHelloReturns, Prints
  <2>2. lines[c] = <<>> /\ DOMAIN lines = Client
    BY <1>0, <1>3 DEF SayHelloReturns, CallInv, TypeOK
  <2>3. Len(lines'[c]) = 1 /\ pc'[c] = "between" /\ sent' = sent
    BY <1>0, <1>3, <2>1, <2>2 DEF SayHelloReturns, TypeOK, callVars
  <2>4. StreamSeen(c)' /\ GreetsItsCaller'
    BY <1>0, <2>3 DEF StreamSeen, GreetsItsCaller
  <2> QED BY <1>0, <1>1, <2>4 DEF LoneInv
<1>4. CASE Read(c)
  <2>1. /\ sent[c][rd[c] + 1] = c /\ rd[c] + 1 <= Len(sent[c])
        /\ pc[c] = "many" /\ c \in Greeting \cup {Failed}
    BY <1>0, <1>4 DEF Read, StreamSeen, Greeting
  <2>2. /\ lines'[c] = Append(lines[c], c) /\ rd'[c] = rd[c] + 1
        /\ UNCHANGED <<pc, sent, h>>
    BY <1>0, <1>4, <2>1 DEF Read, Prints, TypeOK
  <2>3. /\ Len(lines'[c]) = Len(lines[c]) + 1
        /\ \A i \in 2..Len(lines'[c]) : lines'[c][i] = c
    BY <1>0, <2>1, <2>2 DEF StreamSeen
  <2>4. StreamSeen(c)' /\ GreetsItsCaller'
    BY <1>0, <2>1, <2>2, <2>3 DEF StreamSeen, GreetsItsCaller
  <2> QED BY <1>0, <1>1, <2>4 DEF LoneInv
<1>5. CASE FinishOk(c) \/ FinishFails(c)
  <2>1. pc'[c] = "ended" /\ sent' = sent
    BY <1>0, <1>5 DEF FinishOk, FinishFails, TypeOK, callVars
  <2>2. StreamSeen(c)'
    BY <1>0, <2>1 DEF StreamSeen
  <2> QED BY <1>0, <1>1, <1>5, <2>2, FinishLone DEF LoneInv
<1> QED BY <1>2, <1>3, <1>4, <1>5 DEF ClientStep

\* Its handlers, of which one at most is in the middle of a message.
LEMMA HandlerLone ==
    ASSUME LoneInv, NEW c \in Client, Client = {c}, HandlerStep(c)
    PROVE  LoneInv'
<1>0. /\ TypeOK /\ CallInv(c) /\ StreamSeen(c) /\ IInv' /\ GreetsItsCaller
      /\ sent[c] \in Seq(Greeting) /\ mb = "clean"
  BY HandlerIInv DEF LoneInv, IInv, TypeOK
<1>1. mb' = "clean"
  BY <1>0 DEF HandlerStep, SayHello, SayManyHellos, CreateString, CreateHelloReply,
              Finish, ReleaseAndWrite, SayManyHellosReturns, Builds, serverVars
<1>2. UNCHANGED <<pc, lines, rd>>
  BY DEF HandlerStep, SayHello, SayManyHellos, CreateString, CreateHelloReply,
         Finish, ReleaseAndWrite, SayManyHellosReturns, Builds
<1>3. GreetsItsCaller'
  BY <1>0, <1>2 DEF GreetsItsCaller
<1>4. CASE SayHello(c)
  <2>1. sent'[c] = <<c>> /\ pc[c] = "hello"
    BY <1>0, <1>4 DEF SayHello, TypeOK
  <2>2. StreamSeen(c)'
    BY <1>2, <2>1 DEF StreamSeen
  <2> QED BY <1>0, <1>1, <1>3, <2>2 DEF LoneInv
<1>5. CASE ReleaseAndWrite(c)
  <2>1. sent'[c] = Append(sent[c], c) /\ h' = h /\ h[c] = "many"
    BY <1>0, <1>5 DEF ReleaseAndWrite, Builds, FromShared, TypeOK
  <2>2. /\ Len(sent'[c]) = Len(sent[c]) + 1
        /\ \A i \in 1..Len(sent'[c]) : sent'[c][i] = c
    <3>1. c \in Greeting
      BY DEF Greeting
    <3> QED BY <1>0, <2>1, <3>1 DEF StreamSeen
  <2>3. StreamSeen(c)'
    <3>1. pc[c] = "many" => rd[c] \in Nat /\ Len(sent[c]) \in Nat /\ rd[c] <= Len(sent'[c])
      BY <1>0, <2>2 DEF StreamSeen, TypeOK
    <3> QED BY <1>0, <1>2, <2>1, <2>2, <3>1 DEF StreamSeen
  <2> QED BY <1>0, <1>1, <1>3, <2>3 DEF LoneInv
<1>6. CASE \/ SayManyHellos(c) \/ CreateString(c) \/ CreateHelloReply(c)
           \/ Finish(c) \/ SayManyHellosReturns(c)
  <2>1. sent' = sent /\ (h'[c] = "returned" => h[c] = "returned" \/ Len(sent[c]) = NumGreetings)
    BY <1>0, <1>6 DEF SayManyHellos, CreateString, CreateHelloReply, Finish,
                      SayManyHellosReturns, Builds, TypeOK
  <2>2. StreamSeen(c)'
    BY <1>0, <1>2, <2>1 DEF StreamSeen
  <2> QED BY <1>0, <1>1, <1>3, <2>2 DEF LoneInv
<1> QED BY <1>4, <1>5, <1>6 DEF HandlerStep

LEMMA StepLone ==
    ASSUME LoneInv, NEW c \in Client, Client = {c}, [Next]_vars
    PROVE  LoneInv'
<1>1. ASSUME \/ Break(c) \/ ServerStarts \/ ServerGoes \/ AllEnded \/ UNCHANGED vars
      PROVE  LoneInv'
  <2>1. IInv'
    BY <1>1, EnvironmentIInv DEF LoneInv
  <2>2. /\ UNCHANGED <<pc, lines, sent, rd>> /\ mb' = "clean"
        /\ h'[c] = "returned" => h[c] = "returned"
    BY <1>1 DEF LoneInv, Break, ServerStarts, ServerGoes, AllEnded, vars, callVars, serverVars
  <2>3. StreamSeen(c)' /\ GreetsItsCaller'
    BY <2>2 DEF LoneInv, StreamSeen, GreetsItsCaller
  <2> QED BY <2>1, <2>2, <2>3 DEF LoneInv
<1> QED BY <1>1, ClientLone, HandlerLone DEF Next

-----------------------------------------------------------------------------
(* The theorems                                                            *)

\* Every reachable state is of its type: no stream has more messages than
\* were asked for.
THEOREM TypeCorrect == Spec => []TypeOK
<1>1. IInv => TypeOK
  BY DEF IInv
<1> QED BY <1>1, InitIInv, StepIInv, PTL DEF Spec

\* The local builder of SayHello keeps its answers right for any number of
\* clients, streams and races.
THEOREM HelloAnswered == Spec => []HelloIsOwn
<1>1. IInv => HelloIsOwn
  BY DEF IInv, CallInv, HelloIsOwn
<1> QED BY <1>1, InitIInv, StepIInv, PTL DEF Spec

\* With one client at a time the shared builder does what it should: every
\* greeting of the stream is there, or the client says that it failed.
THEOREM LoneClientGreeted ==
    ASSUME NEW c, Client = {c}
    PROVE  Spec => []GreetsItsCaller
<1>1. c \in Client
  OBVIOUS
<1>2. LoneInv /\ [Next]_vars => LoneInv'
  BY <1>1, StepLone
<1>3. LoneInv => GreetsItsCaller
  BY DEF LoneInv
<1> QED BY <1>2, <1>3, InitLone, PTL DEF Spec

=============================================================================
