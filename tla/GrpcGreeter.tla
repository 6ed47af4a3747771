------------------------------ MODULE GrpcGreeter ------------------------------
(***************************************************************************)
(* The synchronous gRPC greeter server, whose handler is one function with *)
(* no state, and the two clients that make a single call: greeter_client   *)
(* blocks in the stub, greeter_async_client starts the call, asks for its  *)
(* result with a tag and blocks on a completion queue of its own.          *)
(*                                                                         *)
(* The result is written to variables of SayHello's frame, the reply and a *)
(* Status that is OK from its construction on.  So the frame must be there *)
(* when gRPC writes, and SayHello must not look before that.               *)
(***************************************************************************)
EXTENDS Naturals, FiniteSets

CONSTANTS
    SyncClient,     \* the running greeter_client processes
    AsyncClient,    \* the running greeter_async_client processes
    NoName,         \* the empty string
    Failed,         \* "RPC failed"
    MaxBoots        \* bound: how many times a server process is started

Client == SyncClient \cup AsyncClient

ASSUME GrpcGreeterAssumption ==
    /\ SyncClient \cap AsyncClient = {}
    /\ {NoName, Failed} \cap Client = {}
    /\ MaxBoots \in Nat

VARIABLES
    srv,    \* whether a server process listens
    boots,  \* the processes started so far (bounded by MaxBoots)
    pc,     \* where each client is: "call" and "wait" are in SayHello
    call,   \* the state of its call
    asked,  \* whether gRPC has been told where to write the result
    cq,     \* the tags in the completion queue of an asynchronous client
    reply,  \* SayHello's reply
    status, \* SayHello's status
    line    \* what the client has printed, as the name that is greeted

serverVars == <<srv, boots>>
frameVars == <<reply, status>>
vars == <<serverVars, pc, call, asked, cq, frameVars, line>>

TypeOK ==
    /\ srv \in BOOLEAN
    /\ boots \in 0..MaxBoots
    /\ pc \in [Client -> {"main", "call", "wait", "back", "aborted", "ended"}]
    /\ call \in [Client ->
                  {"none", "sent", "served", "silent", "lost", "answered", "failed"}]
    /\ asked \in [Client -> BOOLEAN]
    /\ cq \in [Client -> SUBSET {1}]
    /\ reply \in [Client -> Client \cup {NoName}]
    /\ status \in [Client -> {"OK", "error"}]
    /\ line \in [Client -> Client \cup {NoName, Failed}]

Init ==
    /\ srv = FALSE
    /\ boots = 0
    /\ pc = [c \in Client |-> "main"]
    /\ call = [c \in Client |-> "none"]
    /\ asked = [c \in Client |-> FALSE]
    /\ cq = [c \in Client |-> {}]
    /\ reply = [c \in Client |-> NoName]
    /\ status = [c \in Client |-> "OK"]
    /\ line = [c \in Client |-> NoName]

Goes(c, place) == pc' = [pc EXCEPT ![c] = place]

-----------------------------------------------------------------------------
(* The server                                                              *)

\* RunServer, after which only a signal ends the process.
RunServer ==
    /\ ~srv
    /\ boots < MaxBoots
    /\ srv' = TRUE
    /\ boots' = boots + 1
    /\ UNCHANGED <<pc, call, asked, cq, frameVars, line>>

\* GreeterServiceImpl::SayHello.
Serve(c) ==
    /\ srv
    /\ call[c] = "sent"
    /\ call' = [call EXCEPT ![c] = "served"]
    /\ UNCHANGED <<serverVars, pc, asked, cq, frameVars, line>>

\* The process is ended; its calls are lost, but for replies on their way.
Kill ==
    /\ srv
    /\ srv' = FALSE
    /\ call' = [c \in Client |-> IF call[c] = "sent" THEN "lost" ELSE call[c]]
    /\ UNCHANGED <<boots, pc, asked, cq, frameVars, line>>

-----------------------------------------------------------------------------
(* The clients                                                             *)

\* The call is made; without a server it fails.
Makes(c) ==
    /\ pc[c] = "main"
    /\ call' = [call EXCEPT ![c] = IF srv THEN "sent" ELSE "lost"]
    /\ UNCHANGED <<serverVars, cq, frameVars, line>>

\* stub_->SayHello, which tells gRPC where to write and blocks.
SayHello(c) ==
    /\ c \in SyncClient
    /\ Makes(c)
    /\ asked' = [asked EXCEPT ![c] = TRUE]
    /\ Goes(c, "wait")

\* rpc->StartCall.
StartCall(c) ==
    /\ c \in AsyncClient
    /\ Makes(c)
    /\ Goes(c, "call")
    /\ UNCHANGED asked

\* rpc->Finish, with the tag 1.
Finish(c) ==
    /\ pc[c] = "call"
    /\ asked' = [asked EXCEPT ![c] = TRUE]
    /\ Goes(c, "wait")
    /\ UNCHANGED <<serverVars, call, cq, frameVars, line>>

\* Seeded bug: SayHello does not wait for its tag to come out of the queue.
NextPolls(c) ==
    /\ c \in AsyncClient
    /\ pc[c] = "wait"
    /\ cq' = [cq EXCEPT ![c] = {}]
    /\ Goes(c, "back")
    /\ UNCHANGED <<serverVars, call, asked, frameVars, line>>

\* cq.Next; the assertions on what comes out hold as gRPC is modelled here.
CqNext(c) ==
    /\ c \in AsyncClient
    /\ pc[c] = "wait"
    /\ cq[c] # {}
    /\ \E tag \in cq[c] :
          /\ cq' = [cq EXCEPT ![c] = @ \ {tag}]
          /\ Goes(c, IF tag = 1 THEN "back" ELSE "aborted")
    /\ UNCHANGED <<serverVars, call, asked, frameVars, line>>

\* Seeded bug: a failed call is made again, for as long as it fails.
ReturnRetries(c) ==
    /\ pc[c] = "back"
    /\ IF status[c] = "OK"
       THEN Goes(c, "ended") /\ UNCHANGED <<call, asked, status>>
       ELSE /\ Goes(c, "main")
            /\ call' = [call EXCEPT ![c] = "none"]
            /\ asked' = [asked EXCEPT ![c] = FALSE]
            /\ status' = [status EXCEPT ![c] = "OK"]
    /\ line' = [line EXCEPT ![c] = reply[c]]
    /\ UNCHANGED <<serverVars, cq, reply>>

\* Seeded bug: of a failed call the status is returned.
ReturnStatus(c) ==
    /\ pc[c] = "back"
    /\ line' = [line EXCEPT ![c] = IF status[c] = "OK" THEN reply[c] ELSE status[c]]
    /\ Goes(c, "ended")
    /\ UNCHANGED <<serverVars, call, asked, cq, frameVars>>

\* Seeded bug: main prints whatever the reply has in it.
ReturnUnchecked(c) ==
    /\ pc[c] = "back"
    /\ line' = [line EXCEPT ![c] = reply[c]]
    /\ Goes(c, "ended")
    /\ UNCHANGED <<serverVars, call, asked, cq, frameVars>>

\* SayHello looks at the status and returns, and main prints and ends.
Return(c) ==
    /\ pc[c] = "back"
    /\ line' = [line EXCEPT ![c] = IF status[c] = "OK" THEN reply[c] ELSE Failed]
    /\ Goes(c, "ended")
    /\ UNCHANGED <<serverVars, call, asked, cq, frameVars>>

-----------------------------------------------------------------------------
(* The gRPC runtime and the network                                        *)

\* The result is written where Finish or the stub said: the reply of a call
\* that was served, the status of one that was lost. A tag tells the client.
Complete(c) ==
    /\ asked[c]
    /\ \/ /\ call[c] = "served"
          /\ call' = [call EXCEPT ![c] = "answered"]
          /\ reply' = [reply EXCEPT ![c] = c]
          /\ UNCHANGED status
       \/ /\ call[c] = "lost"
          /\ call' = [call EXCEPT ![c] = "failed"]
          /\ status' = [status EXCEPT ![c] = "error"]
          /\ UNCHANGED reply
    /\ IF c \in AsyncClient
       THEN cq' = [cq EXCEPT ![c] = {1}] /\ UNCHANGED pc
       ELSE Goes(c, "back") /\ UNCHANGED cq
    /\ UNCHANGED <<serverVars, asked, line>>

\* Nothing more is heard of the request or of the reply. The clients set no
\* deadline, so that gRPC does not give the call up by itself.
Stall(c) ==
    /\ call[c] \in {"sent", "served"}
    /\ call' = [call EXCEPT ![c] = "silent"]
    /\ UNCHANGED <<serverVars, pc, asked, cq, frameVars, line>>

\* The connection is lost, with the request or with the reply.
Break(c) ==
    /\ call[c] \in {"sent", "served", "silent"}
    /\ call' = [call EXCEPT ![c] = "lost"]
    /\ UNCHANGED <<serverVars, pc, asked, cq, frameVars, line>>

-----------------------------------------------------------------------------

ClientStep(c) ==
    SayHello(c) \/ StartCall(c) \/ Finish(c) \/ CqNext(c) \/ Return(c) \/ Complete(c)

AllEnded == (\A c \in Client : pc[c] = "ended") /\ UNCHANGED vars

Next ==
    \/ \E c \in Client : ClientStep(c) \/ Serve(c) \/ Stall(c) \/ Break(c)
    \/ RunServer \/ Kill
    \/ AllEnded

Spec == Init /\ [][Next]_vars

\* The clients and a server that has a call run, and the network delivers or
\* loses what it does not keep to itself (Stall). It is not assumed that a
\* silent call is ever lost, nor that a server is ever started.
FairSpec == Spec /\ \A c \in Client : WF_vars(ClientStep(c)) /\ WF_vars(Serve(c))

-----------------------------------------------------------------------------
(* Properties                                                              *)

\* While gRPC may still write the result, SayHello has not returned, so what
\* it writes to is there.
FrameIsThere ==
    \A c \in Client :
        asked[c] /\ call[c] \notin {"answered", "failed"} => pc[c] = "wait"

\* What is printed is what became of the call: the greeting of the client's
\* own name if it was answered, otherwise that it failed; never the empty
\* reply that goes with a status no one has set.
LineIsResult ==
    \A c \in Client :
        pc[c] = "ended" => line[c] = IF call[c] = "answered" THEN c ELSE Failed

\* Every client ends, whatever becomes of the server, unless the network falls
\* silent under its call: then it may wait for ever.
EveryCallEnds == \A c \in Client : <>(pc[c] = "ended" \/ call[c] = "silent")

-----------------------------------------------------------------------------
(* The inductive invariant behind the safety properties                    *)

Completed(c) == call[c] \in {"answered", "failed"}

\* Where a client is goes with the state of its call: gRPC is asked when
\* SayHello begins to wait, and it goes on only when gRPC is done.
PlaceInv ==
    \A c \in Client :
        /\ pc[c] # "aborted"
        /\ pc[c] = "main" => call[c] = "none"
        /\ pc[c] = "call" => c \in AsyncClient
        /\ asked[c] <=> pc[c] \in {"wait", "back", "ended"}
        /\ pc[c] \in {"main", "call"} => ~Completed(c)
        /\ pc[c] = "wait" => (Completed(c) <=> c \in AsyncClient /\ cq[c] # {})
        /\ pc[c] \in {"back", "ended"} => Completed(c)
        /\ cq[c] # {} => pc[c] = "wait" /\ c \in AsyncClient

\* The frame has in it what gRPC wrote, or what it was made with.
FrameInv ==
    \A c \in Client :
        /\ reply[c] = IF call[c] = "answered" THEN c ELSE NoName
        /\ status[c] = IF call[c] = "failed" THEN "error" ELSE "OK"

IInv == TypeOK /\ PlaceInv /\ FrameInv /\ LineIsResult

=============================================================================
