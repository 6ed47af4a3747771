----------------------------- MODULE CapnpStream ------------------------------
(***************************************************************************)
(* The Cap'n Proto streaming hello world.  A client streams the strings 1  *)
(* to NumStrings to an object of the server (RequestCallback) and calls    *)
(* its done with an object of its own (ReplyCallback); the server streams  *)
(* the strings it has collected back to that object, calls the done of     *)
(* that one, and only then answers.  Each side sends a string when the     *)
(* promise of the one before is resolved; main waits for the whole chain.  *)
(*                                                                         *)
(* Cap'n Proto is modelled by what the code relies on: the calls on an     *)
(* object arrive in order, the promise of a streaming call resolves while  *)
(* fewer than Window are unanswered, and a lost connection rejects every   *)
(* promise and cancels every call.                                         *)
(***************************************************************************)
EXTENDS Naturals, Sequences

CONSTANTS
    StreamClient,   \* the client programs
    NumStrings,     \* main's stopNum - 1
    Window          \* strings unanswered before the next one waits

ASSUME CapnpStreamAssumption ==
    /\ NumStrings \in Nat
    /\ Window \in Nat \ {0}

VARIABLES
    chain,  \* where each client's main and its chain of promises are
    conn,   \* the connection of each client
    toSvc,  \* the strings sent to the server's object
    svc,    \* the server's object: collecting, and then where its done is
    svcVec, \* ReqSvcImpl::_vec
    toReply, \* the strings sent to the client's object
    vec,    \* ReplySvcImpl::_vec
    printed \* what each call of ReplySvcImpl::done has printed

streamVars == <<chain, conn, toSvc, svc, svcVec, toReply, vec, printed>>

Ended == {"returned", "failed"}

StreamTypeOK ==
    /\ chain \in [StreamClient -> {"main", "sending", "awaiting"} \cup Ended]
    /\ conn \in [StreamClient -> {"none", "open", "broken"}]
    /\ toSvc \in [StreamClient -> 0..NumStrings]
    /\ svc \in [StreamClient -> {"none", "collecting", "replying", "finishing",
                           "finished", "answered"}]
    /\ svcVec \in [StreamClient -> Seq(1..NumStrings)]
    /\ toReply \in [StreamClient -> 0..NumStrings]
    /\ vec \in [StreamClient -> Seq(1..NumStrings)]
    /\ printed \in [StreamClient -> Seq(Seq(1..NumStrings))]

StreamInit ==
    /\ chain = [c \in StreamClient |-> "main"]
    /\ conn = [c \in StreamClient |-> "none"]
    /\ toSvc = [c \in StreamClient |-> 0]
    /\ svc = [c \in StreamClient |-> "none"]
    /\ svcVec = [c \in StreamClient |-> <<>>]
    /\ toReply = [c \in StreamClient |-> 0]
    /\ vec = [c \in StreamClient |-> <<>>]
    /\ printed = [c \in StreamClient |-> <<>>]

-----------------------------------------------------------------------------
(* The client                                                              *)

\* main connects, asks for the server's object, and begins to send to it
\* without waiting for it.
Main(c) ==
    /\ chain[c] = "main"
    /\ chain' = [chain EXCEPT ![c] = "sending"]
    /\ \E n \in {"open", "broken"} : conn' = [conn EXCEPT ![c] = n]
    /\ UNCHANGED <<toSvc, svc, svcVec, toReply, vec, printed>>

\* Seeded bug: strNum is compared before it is sent, not after.
SendStringsShort(c) ==
    /\ chain[c] = "sending" /\ conn[c] = "open"
    /\ toSvc[c] - Len(svcVec[c]) < Window
    /\ IF toSvc[c] + 1 >= NumStrings
       THEN chain' = [chain EXCEPT ![c] = "awaiting"] /\ UNCHANGED toSvc
       ELSE toSvc' = [toSvc EXCEPT ![c] = @ + 1] /\ UNCHANGED chain
    /\ UNCHANGED <<conn, svc, svcVec, toReply, vec, printed>>

\* Seeded bug: done is sent only when strNum is greater than stopNum.
SendStringsOnceMore(c) ==
    /\ chain[c] = "sending" /\ conn[c] = "open"
    /\ toSvc[c] - Len(svcVec[c]) < Window
    /\ IF toSvc[c] > NumStrings
       THEN chain' = [chain EXCEPT ![c] = "awaiting"] /\ UNCHANGED toSvc
       ELSE toSvc' = [toSvc EXCEPT ![c] = @ + 1] /\ UNCHANGED chain
    /\ UNCHANGED <<conn, svc, svcVec, toReply, vec, printed>>

\* sendStrings, at first and whenever the last promise is resolved: the next
\* string, or done if there is none.
SendStrings(c) ==
    /\ chain[c] = "sending" /\ conn[c] = "open"
    /\ toSvc[c] - Len(svcVec[c]) < Window
    /\ IF toSvc[c] = NumStrings
       THEN chain' = [chain EXCEPT ![c] = "awaiting"] /\ UNCHANGED toSvc
       ELSE toSvc' = [toSvc EXCEPT ![c] = @ + 1] /\ UNCHANGED chain
    /\ UNCHANGED <<conn, svc, svcVec, toReply, vec, printed>>

\* ReplySvcImpl::sendChunk.
ReplyChunk(c) ==
    /\ chain[c] = "awaiting" /\ conn[c] = "open"
    /\ Len(vec[c]) < toReply[c]
    /\ vec' = [vec EXCEPT ![c] = Append(@, svcVec[c][Len(@) + 1])]
    /\ UNCHANGED <<chain, conn, toSvc, svc, svcVec, toReply, printed>>

\* ReplySvcImpl::done, behind the strings: it prints them and is answered.
ReplyDone(c) ==
    /\ chain[c] = "awaiting" /\ conn[c] = "open"
    /\ svc[c] = "finishing"
    /\ Len(vec[c]) = toReply[c]
    /\ printed' = [printed EXCEPT ![c] = Append(@, vec[c])]
    /\ svc' = [svc EXCEPT ![c] = "finished"]
    /\ UNCHANGED <<chain, conn, toSvc, svcVec, toReply, vec>>

\* promise.wait returns when done is answered, and throws when a promise of
\* the chain is rejected.
Wait(c) ==
    /\ \/ /\ chain[c] = "awaiting" /\ conn[c] = "open" /\ svc[c] = "answered"
          /\ chain' = [chain EXCEPT ![c] = "returned"]
       \/ /\ chain[c] \in {"sending", "awaiting"} /\ conn[c] = "broken"
          /\ chain' = [chain EXCEPT ![c] = "failed"]
    /\ UNCHANGED <<conn, toSvc, svc, svcVec, toReply, vec, printed>>

-----------------------------------------------------------------------------
(* The server's callbacks, run one at a time by its event loop             *)

\* StreamServiceImpl::reqReply.
ReqReply(c) ==
    /\ conn[c] = "open"
    /\ svc[c] = "none"
    /\ svc' = [svc EXCEPT ![c] = "collecting"]
    /\ UNCHANGED <<chain, conn, toSvc, svcVec, toReply, vec, printed>>

\* ReqSvcImpl::sendChunk.
SendChunk(c) ==
    /\ conn[c] = "open"
    /\ svc[c] # "none"
    /\ Len(svcVec[c]) < toSvc[c]
    /\ svcVec' = [svcVec EXCEPT ![c] = Append(@, Len(@) + 1)]
    /\ UNCHANGED <<chain, conn, toSvc, svc, toReply, vec, printed>>

\* Seeded bug: done is run as soon as it is called, before the strings.
DoneOvertakes(c) ==
    /\ conn[c] = "open"
    /\ svc[c] = "collecting"
    /\ chain[c] = "awaiting"
    /\ svc' = [svc EXCEPT ![c] = "replying"]
    /\ UNCHANGED <<chain, conn, toSvc, svcVec, toReply, vec, printed>>

\* ReqSvcImpl::done, behind the strings: the chain of the reply begins, with
\* a reference to _vec.
Done(c) ==
    /\ conn[c] = "open"
    /\ svc[c] = "collecting"
    /\ chain[c] = "awaiting"
    /\ Len(svcVec[c]) = toSvc[c]
    /\ svc' = [svc EXCEPT ![c] = "replying"]
    /\ UNCHANGED <<chain, conn, toSvc, svcVec, toReply, vec, printed>>

\* Seeded bug: the chain ends without the done of the reply.
SendReplyStringsOnly(c) ==
    /\ conn[c] = "open"
    /\ svc[c] = "replying"
    /\ toReply[c] - Len(vec[c]) < Window
    /\ IF toReply[c] = Len(svcVec[c])
       THEN UNCHANGED <<svc, toReply>>
       ELSE toReply' = [toReply EXCEPT ![c] = @ + 1] /\ UNCHANGED svc
    /\ UNCHANGED <<chain, conn, toSvc, svcVec, vec, printed>>

\* The server's sendStrings: the next string of _vec, or done.
SendReplyStrings(c) ==
    /\ conn[c] = "open"
    /\ svc[c] = "replying"
    /\ toReply[c] - Len(vec[c]) < Window
    /\ IF toReply[c] = Len(svcVec[c])
       THEN svc' = [svc EXCEPT ![c] = "finishing"] /\ UNCHANGED toReply
       ELSE toReply' = [toReply EXCEPT ![c] = @ + 1] /\ UNCHANGED svc
    /\ UNCHANGED <<chain, conn, toSvc, svcVec, vec, printed>>

\* The done of the reply was answered, and so is the one of the request.
DoneAnswers(c) ==
    /\ conn[c] = "open"
    /\ svc[c] = "finished"
    /\ svc' = [svc EXCEPT ![c] = "answered"]
    /\ UNCHANGED <<chain, conn, toSvc, svcVec, toReply, vec, printed>>

-----------------------------------------------------------------------------

\* The connection is lost; what had not been run never will be.
ConnectionBreaks(c) ==
    /\ conn[c] = "open"
    /\ chain[c] \notin Ended
    /\ conn' = [conn EXCEPT ![c] = "broken"]
    /\ UNCHANGED <<chain, toSvc, svc, svcVec, toReply, vec, printed>>

\* Every client has ended: only the server is left.
StreamsEnded == (\A c \in StreamClient : chain[c] \in Ended) /\ UNCHANGED streamVars

StreamClientStep(c) ==
    Main(c) \/ SendStrings(c) \/ ReplyChunk(c) \/ ReplyDone(c) \/ Wait(c)

StreamServerStep(c) ==
    ReqReply(c) \/ SendChunk(c) \/ Done(c) \/ SendReplyStrings(c) \/ DoneAnswers(c)

StreamNext ==
    \/ \E c \in StreamClient :
          StreamClientStep(c) \/ StreamServerStep(c) \/ ConnectionBreaks(c)
    \/ StreamsEnded

StreamSpec == StreamInit /\ [][StreamNext]_streamVars

\* Both event loops run what is ready. The network delivers what is written or
\* breaks.
StreamFairSpec ==
    /\ StreamSpec
    /\ \A c \in StreamClient :
          WF_streamVars(StreamClientStep(c)) /\ WF_streamVars(StreamServerStep(c))

-----------------------------------------------------------------------------
(* Properties                                                              *)

AllStrings == [i \in 1..NumStrings |-> i]

\* When wait has returned, all the strings have made the way to the server
\* and back, in order, and have been printed at the client, once.
ReturnsAll ==
    \A c \in StreamClient : chain[c] = "returned" =>
        printed[c] = <<AllStrings>> /\ svcVec[c] = AllStrings

\* The server's chain of promises holds a reference to _vec: nothing is added
\* to it as long as the chain is running.
VecIsStable ==
    [][\A c \in StreamClient : svc[c] = "replying" => svcVec'[c] = svcVec[c]]_streamVars

\* Every client's wait returns or throws.
EveryWaitEnds == \A c \in StreamClient : <>(chain[c] \in Ended)

-----------------------------------------------------------------------------
(* The inductive invariant behind ReturnsAll and VecIsStable               *)

\* The strings 1 to n.
FirstStrings(n) == [i \in 1..n |-> i]

\* The server's done is run behind all strings, and no side of the reply is
\* ahead of the other one.
ProgressInv ==
    \A c \in StreamClient :
        /\ chain[c] = "main" <=> conn[c] = "none"
        /\ conn[c] = "none" => svc[c] = "none" /\ toSvc[c] = 0
        /\ chain[c] = "awaiting" => toSvc[c] = NumStrings
        /\ chain[c] = "returned" => svc[c] = "answered"
        /\ chain[c] = "sending" => svc[c] \in {"none", "collecting"}
        /\ svc[c] \in {"none", "collecting"} => toReply[c] = 0
        /\ svc[c] \notin {"none", "collecting"} => Len(svcVec[c]) = NumStrings
        /\ svc[c] \in {"finishing", "finished", "answered"} => toReply[c] = NumStrings
        /\ svc[c] \in {"finished", "answered"} => Len(vec[c]) = NumStrings

\* What has arrived is a prefix of what was sent.
StringsInv ==
    \A c \in StreamClient :
        /\ Len(svcVec[c]) <= toSvc[c]
        /\ svcVec[c] = FirstStrings(Len(svcVec[c]))
        /\ toReply[c] <= Len(svcVec[c])
        /\ Len(vec[c]) <= toReply[c]
        /\ vec[c] = FirstStrings(Len(vec[c]))
        /\ printed[c] = IF svc[c] \in {"finished", "answered"} THEN <<vec[c]>> ELSE <<>>

StreamIInv == StreamTypeOK /\ ProgressInv /\ StringsInv

=============================================================================
