------------------------------ MODULE FbGreeter -------------------------------
(***************************************************************************)
(* The FlatBuffers greeter: a client asks for one greeting (SayHello) and  *)
(* then for a stream of NumGreetings of them (SayManyHellos), and prints   *)
(* what comes back.  The server runs each call's handler on a thread of    *)
(* its own.  SayHello builds its reply with a builder of its own, but all  *)
(* the SayManyHellos handlers share the service's member mb_, which they   *)
(* use in four steps and without a lock.                                   *)
(*                                                                         *)
(* Two handlers in the middle of a message at once are a data race on mb_: *)
(* from then on what that process sends from it can be anything, and it    *)
(* can die of it.                                                          *)
(*                                                                         *)
(* gRPC is modelled by what the code relies on: the messages of a call     *)
(* arrive in order, the status is OK only if the handler returned and      *)
(* everything was delivered, and a handler can outlive its client.         *)
(***************************************************************************)
EXTENDS Naturals, Sequences

CONSTANTS
    Client,         \* the client programs, each with a name of its own
    NumGreetings,   \* num_greetings
    Failed,         \* the line "RPC failed"
    Garbage,        \* a message no builder was asked for
    MaxBoots        \* bound: how many times a server process is started

ASSUME FbGreeterAssumption ==
    /\ NumGreetings \in Nat
    /\ MaxBoots \in Nat
    /\ Failed \notin Client
    /\ Garbage \notin Client \cup {Failed}

VARIABLES
    pc,     \* where each client is in main
    lines,  \* what each client has printed, as the name that is greeted
    link,   \* the connection of each client's current call
    sent,   \* the replies written to that call
    rd,     \* how many of them the client has read
    h,      \* the handler of that call
    part,   \* how far the message is that the handler builds in mb_
    mb,     \* whether mb_ has been raced for in this process
    up,     \* whether a server process is running
    boots   \* the processes started so far (bounded by MaxBoots)

callVars == <<link, sent, rd, h>>
serverVars == <<part, mb, up, boots>>
vars == <<pc, lines, callVars, serverVars>>

Greeting == Client \cup {Garbage}

\* The steps of building a message: what has been done with mb_ so far.
Parts == {"none", "string", "reply", "finished"}

TypeOK ==
    /\ pc \in [Client -> {"main", "hello", "between", "many", "ended"}]
    /\ lines \in [Client -> Seq(Greeting \cup {Failed})]
    /\ link \in [Client -> {"open", "broken"}]
    /\ sent \in [Client -> Seq(Greeting)]
    /\ \A c \in Client : Len(sent[c]) <= NumGreetings \/ pc[c] \in {"hello", "between"}
    /\ rd \in [Client -> Nat]
    /\ h \in [Client -> {"none", "many", "returned"}]
    /\ part \in [Client -> Parts]
    /\ mb \in {"clean", "raced"}
    /\ up \in BOOLEAN
    /\ boots \in 0..MaxBoots

Init ==
    /\ pc = [c \in Client |-> "main"]
    /\ lines = [c \in Client |-> <<>>]
    /\ link = [c \in Client |-> "broken"]
    /\ sent = [c \in Client |-> <<>>]
    /\ rd = [c \in Client |-> 0]
    /\ h = [c \in Client |-> "none"]
    /\ part = [c \in Client |-> "none"]
    /\ mb = "clean"
    /\ up = FALSE
    /\ boots = 0

-----------------------------------------------------------------------------
(* The client                                                              *)

\* A new call; it fails when there is no server. The handler of the client's
\* last call has returned or is given up.
NewCall(c) ==
    /\ link' = [link EXCEPT ![c] = IF up THEN "open" ELSE "broken"]
    /\ sent' = [sent EXCEPT ![c] = <<>>]
    /\ rd' = [rd EXCEPT ![c] = 0]
    /\ h' = [h EXCEPT ![c] = "none"]

Prints(c, line) == lines' = [lines EXCEPT ![c] = Append(@, line)]

CallSayHello(c) ==
    /\ pc[c] = "main"
    /\ NewCall(c)
    /\ pc' = [pc EXCEPT ![c] = "hello"]
    /\ UNCHANGED <<lines, serverVars>>

\* SayHello returns the greeting, or "RPC failed", and main prints it.
SayHelloReturns(c) ==
    /\ pc[c] = "hello"
    /\ \/ link[c] = "open" /\ h[c] = "returned" /\ Prints(c, sent[c][1])
       \/ link[c] = "broken" /\ Prints(c, Failed)
    /\ pc' = [pc EXCEPT ![c] = "between"]
    /\ UNCHANGED <<callVars, serverVars>>

CallSayManyHellos(c) ==
    /\ pc[c] = "between"
    /\ NewCall(c)
    /\ pc' = [pc EXCEPT ![c] = "many"]
    /\ UNCHANGED <<lines, serverVars>>

\* stream->Read returns a message, and the callback prints it. A connection
\* counts as broken when the client has read what had arrived.
Read(c) ==
    /\ pc[c] = "many"
    /\ link[c] = "open"
    /\ rd[c] < Len(sent[c])
    /\ rd' = [rd EXCEPT ![c] = @ + 1]
    /\ Prints(c, sent[c][rd[c] + 1])
    /\ UNCHANGED <<pc, link, sent, h, serverVars>>

\* Read has returned false and Finish an OK status.
FinishOk(c) ==
    /\ pc[c] = "many"
    /\ link[c] = "open"
    /\ h[c] = "returned"
    /\ rd[c] = Len(sent[c])
    /\ pc' = [pc EXCEPT ![c] = "ended"]
    /\ UNCHANGED <<lines, callVars, serverVars>>

\* Seeded bug: Read is called again after it has returned false.
FinishNever(c) ==
    /\ pc[c] = "many"
    /\ link[c] = "broken"
    /\ UNCHANGED vars

\* Read has returned false, and Finish another status.
FinishFails(c) ==
    /\ pc[c] = "many"
    /\ link[c] = "broken"
    /\ Prints(c, Failed)
    /\ pc' = [pc EXCEPT ![c] = "ended"]
    /\ UNCHANGED <<callVars, serverVars>>

-----------------------------------------------------------------------------
(* The server's handlers. Their part of the call is lost, and not noticed, *)
(* when the connection is broken.                                          *)

\* What a message built in mb_ says: anything once mb_ has been raced for.
FromShared(c) == IF mb = "clean" THEN {c} ELSE Greeting

\* Seeded bug: SayHello builds its reply in mb_ too.
SayHelloShared(c) ==
    /\ up
    /\ pc[c] = "hello" /\ link[c] = "open" /\ h[c] = "none"
    /\ \E g \in IF \E d \in Client : part[d] # "none" THEN Greeting ELSE FromShared(c) :
           sent' = [sent EXCEPT ![c] = <<g>>]
    /\ h' = [h EXCEPT ![c] = "returned"]
    /\ UNCHANGED <<pc, lines, link, rd, serverVars>>

\* The handler builds the reply in a local builder.
SayHello(c) ==
    /\ up
    /\ pc[c] = "hello" /\ link[c] = "open" /\ h[c] = "none"
    /\ sent' = [sent EXCEPT ![c] = <<c>>]
    /\ h' = [h EXCEPT ![c] = "returned"]
    /\ UNCHANGED <<pc, lines, link, rd, serverVars>>

SayManyHellos(c) ==
    /\ up
    /\ pc[c] = "many" /\ link[c] = "open" /\ h[c] = "none"
    /\ h' = [h EXCEPT ![c] = "many"]
    /\ UNCHANGED <<pc, lines, link, sent, rd, serverVars>>

\* The handler takes the message in mb_ a step further; others in the middle
\* of theirs make it a race.
Builds(c, from, to) ==
    /\ h[c] = "many"
    /\ part[c] = from
    /\ part' = [part EXCEPT ![c] = to]
    /\ mb' = IF \E d \in Client \ {c} : part[d] # "none" THEN "raced" ELSE mb
    /\ UNCHANGED <<pc, lines, link, rd, h, up, boots>>

\* The head of the loop, and CreateString.
CreateString(c) ==
    /\ Len(sent[c]) < NumGreetings
    /\ Builds(c, "none", "string")
    /\ UNCHANGED sent

CreateHelloReply(c) == Builds(c, "string", "reply") /\ UNCHANGED sent

Finish(c) == Builds(c, "reply", "finished") /\ UNCHANGED sent

\* ReleaseMessage empties the builder, and Write takes the message.
ReleaseAndWrite(c) ==
    /\ Builds(c, "finished", "none")
    /\ \E g \in FromShared(c) : sent' = [sent EXCEPT ![c] = Append(@, g)]

SayManyHellosReturns(c) ==
    /\ h[c] = "many"
    /\ part[c] = "none"
    /\ Len(sent[c]) = NumGreetings
    /\ h' = [h EXCEPT ![c] = "returned"]
    /\ UNCHANGED <<pc, lines, link, sent, rd, serverVars>>

-----------------------------------------------------------------------------
(* The environment                                                         *)

ServerStarts ==
    /\ ~up
    /\ boots < MaxBoots
    /\ up' = TRUE
    /\ boots' = boots + 1
    /\ UNCHANGED <<pc, lines, callVars, part, mb>>

\* The process is stopped or dies, with its handlers and its mb_.
ServerGoes ==
    /\ up
    /\ up' = FALSE
    /\ link' = [c \in Client |-> "broken"]
    /\ h' = [c \in Client |-> IF h[c] = "many" THEN "none" ELSE h[c]]
    /\ part' = [c \in Client |-> "none"]
    /\ mb' = "clean"
    /\ UNCHANGED <<pc, lines, sent, rd, boots>>

Break(c) ==
    /\ link[c] = "open"
    /\ link' = [link EXCEPT ![c] = "broken"]
    /\ UNCHANGED <<pc, lines, sent, rd, h, serverVars>>

\* Every client has ended: only the server is left.
AllEnded == (\A c \in Client : pc[c] = "ended") /\ UNCHANGED vars

-----------------------------------------------------------------------------

ClientStep(c) ==
    \/ CallSayHello(c) \/ SayHelloReturns(c)
    \/ CallSayManyHellos(c) \/ Read(c) \/ FinishOk(c) \/ FinishFails(c)

HandlerStep(c) ==
    \/ SayHello(c) \/ SayManyHellos(c)
    \/ CreateString(c) \/ CreateHelloReply(c) \/ Finish(c) \/ ReleaseAndWrite(c)
    \/ SayManyHellosReturns(c)

Next ==
    \/ \E c \in Client : ClientStep(c) \/ HandlerStep(c) \/ Break(c)
    \/ ServerStarts
    \/ ServerGoes
    \/ AllEnded

Spec == Init /\ [][Next]_vars

\* The threads of both programs are scheduled. The network delivers what is
\* written or breaks; it is not assumed that a server is ever started.
FairSpec == Spec /\ \A c \in Client : WF_vars(ClientStep(c)) /\ WF_vars(HandlerStep(c))

-----------------------------------------------------------------------------
(* Properties                                                              *)

\* SayHello answers its caller by its name, or the client prints "RPC failed",
\* whatever the streams of other clients do to mb_ meanwhile.
HelloIsOwn == \A c \in Client : lines[c] # <<>> => lines[c][1] \in {c, Failed}

\* "The streaming usage below is simply a combination of standard gRPC
\* streaming with the FlatBuffers usage shown above": the stream of a client
\* greets that client NumGreetings times, or ends with "RPC failed".
GreetsItsCaller ==
    \A c \in Client :
        LET stream == Tail(lines[c])
        IN  pc[c] = "ended" =>
                \E n \in 0..NumGreetings :
                    \/ n = NumGreetings /\ stream = [i \in 1..n |-> c]
                    \/ stream = Append([i \in 1..n |-> c], Failed)

\* Every client comes to its end: each call is answered or breaks.
EveryClientEnds == \A c \in Client : <>(pc[c] = "ended")

=============================================================================
