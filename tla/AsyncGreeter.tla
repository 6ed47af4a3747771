----------------------------- MODULE AsyncGreeter -----------------------------
(***************************************************************************)
(* The asynchronous gRPC greeter: the server with its CallData state       *)
(* machine, one object per call, and the client that makes its calls       *)
(* without waiting and takes their results in a second thread.             *)
(*                                                                         *)
(* HandleRpcs "can be run in multiple threads if needed", so here a set of *)
(* threads runs it.  They share the completion queue, and only the order   *)
(* of what Proceed does keeps two of them from working on one object, or   *)
(* one of them from deleting it under the other.                           *)
(*                                                                         *)
(* gRPC is modelled by what the code relies on: every operation begun with *)
(* a tag brings that tag out of the queue once, the tags come in any       *)
(* order, and Finish on a call that is lost may bring it with ok = false.  *)
(***************************************************************************)
EXTENDS Naturals, FiniteSets

CONSTANTS
    Thread,     \* the threads that run HandleRpcs
    CallData,   \* the addresses of CallData objects
    NoObject,   \* a null pointer
    Client,     \* the client programs
    CallCount,  \* CallCount[k] is the number of calls client k makes
    NoCall      \* what is in place of a call where there is none yet

ASSUME NoObjectAssumption == NoObject \notin CallData

\* A call stands for the name it sends, and for the greeting of that name.
CallsOf(k) == {k} \X (1..CallCount[k])
Call == UNION {CallsOf(k) : k \in Client}

ASSUME CallAssumption ==
    /\ CallCount \in [Client -> Nat]
    /\ NoCall \notin Call

VARIABLES
    srv,        \* the server process
    at,         \* where each server thread is
    this,       \* the object whose Proceed the thread runs
    outer,      \* the object whose Proceed made that one
    status,     \* the status_ of each object, or "free"
    request,    \* its request_
    reply,      \* its reply_
    requested,  \* the objects for which RequestSayHello is under way
    finishing,  \* the objects for which Finish is under way
    cq,         \* the events in the server's completion queue
    incoming,   \* the calls that have come to the server and wait for an object
    started,    \* how many calls each client has started
    rpc,        \* the state of each call at its client
    answer,     \* the reply of its AsyncClientCall
    greeting    \* what the client has printed for it

threadVars == <<at, this, outer>>
objectVars == <<status, request, reply>>
queueVars == <<requested, finishing, cq>>
clientVars == <<started, rpc, answer, greeting>>
vars == <<srv, threadVars, objectVars, queueVars, incoming, clientVars>>

Object == CallData \cup {NoObject}
Name == Call \cup {NoCall}

TypeOK ==
    /\ srv \in {"down", "up", "aborted", "killed"}
    /\ at \in [Thread -> {"start", "next", "proceed", "request", "reply", "finish"}]
    /\ this \in [Thread -> Object]
    /\ outer \in [Thread -> Object]
    /\ status \in [CallData -> {"free", "CREATE", "PROCESS", "FINISH"}]
    /\ request \in [CallData -> Name]
    /\ reply \in [CallData -> Name]
    /\ requested \in SUBSET CallData
    /\ finishing \in SUBSET CallData
    /\ cq \in SUBSET [tag : CallData, ok : BOOLEAN]
    /\ incoming \in SUBSET Call
    /\ started \in [Client -> Nat]
    /\ rpc \in [Call -> {"none", "sent", "answered", "failed", "done"}]
    /\ answer \in [Call -> Name]
    /\ greeting \in [Call -> Name]

Init ==
    /\ srv = "down"
    /\ at = [t \in Thread |-> "start"]
    /\ this = [t \in Thread |-> NoObject]
    /\ outer = [t \in Thread |-> NoObject]
    /\ status = [o \in CallData |-> "free"]
    /\ request = [o \in CallData |-> NoCall]
    /\ reply = [o \in CallData |-> NoCall]
    /\ requested = {}
    /\ finishing = {}
    /\ cq = {}
    /\ incoming = {}
    /\ started = [k \in Client |-> 0]
    /\ rpc = [c \in Call |-> "none"]
    /\ answer = [c \in Call |-> NoCall]
    /\ greeting = [c \in Call |-> NoCall]

-----------------------------------------------------------------------------
(* ServerImpl                                                              *)

\* Run: the server listens; calls that come in wait for a CallData.
Run ==
    /\ srv = "down"
    /\ srv' = "up"
    /\ UNCHANGED <<threadVars, objectVars, queueVars, incoming, clientVars>>

\* new CallData, made in the Proceed of object `maker' or by HandleRpcs; the
\* constructor calls Proceed.
NewCallData(t, maker) ==
    /\ \E o \in CallData :
          /\ status[o] = "free"
          /\ status' = [status EXCEPT ![o] = "CREATE"]
          /\ request' = [request EXCEPT ![o] = NoCall]
          /\ reply' = [reply EXCEPT ![o] = NoCall]
          /\ this' = [this EXCEPT ![t] = o]
    /\ outer' = [outer EXCEPT ![t] = maker]
    /\ at' = [at EXCEPT ![t] = "proceed"]
    /\ UNCHANGED <<srv, queueVars, incoming, clientVars>>

\* The thread comes back from the Proceed of its object.
Return(t) ==
    /\ this' = [this EXCEPT ![t] = outer[t]]
    /\ outer' = [outer EXCEPT ![t] = NoObject]

\* HandleRpcs, before its loop.
HandleRpcs(t) ==
    /\ srv = "up"
    /\ at[t] = "start"
    /\ NewCallData(t, NoObject)

\* Proceed of an object in the status s.
Proceeds(t, s) ==
    /\ srv = "up"
    /\ at[t] = "proceed"
    /\ status[this[t]] = s

\* Proceed in CREATE: the status goes on first ...
Create(t) ==
    /\ Proceeds(t, "CREATE")
    /\ status' = [status EXCEPT ![this[t]] = "PROCESS"]
    /\ at' = [at EXCEPT ![t] = "request"]
    /\ UNCHANGED <<srv, this, outer, request, reply, queueVars, incoming, clientVars>>

\* ... and then the object is registered for a call.
RequestSayHello(t) ==
    /\ srv = "up"
    /\ at[t] = "request"
    /\ requested' = requested \cup {this[t]}
    /\ at' = [at EXCEPT ![t] = IF outer[t] = NoObject THEN "next" ELSE "reply"]
    /\ Return(t)
    /\ UNCHANGED <<srv, objectVars, finishing, cq, incoming, clientVars>>

\* Seeded bug: no object takes its place.
SpawnOmitted(t) ==
    /\ Proceeds(t, "PROCESS")
    /\ at' = [at EXCEPT ![t] = "reply"]
    /\ UNCHANGED <<srv, this, outer, objectVars, queueVars, incoming, clientVars>>

\* Proceed in PROCESS: another object takes the place of this one first.
Spawn(t) ==
    /\ Proceeds(t, "PROCESS")
    /\ NewCallData(t, this[t])

\* Seeded bug: the status does not go on to FINISH.
SetReplyOnly(t) ==
    /\ srv = "up"
    /\ at[t] = "reply"
    /\ reply' = [reply EXCEPT ![this[t]] = request[this[t]]]
    /\ at' = [at EXCEPT ![t] = "finish"]
    /\ UNCHANGED <<srv, this, outer, status, request, queueVars, incoming, clientVars>>

\* The reply is made and the status goes on ...
SetReply(t) ==
    /\ srv = "up"
    /\ at[t] = "reply"
    /\ reply' = [reply EXCEPT ![this[t]] = request[this[t]]]
    /\ status' = [status EXCEPT ![this[t]] = "FINISH"]
    /\ at' = [at EXCEPT ![t] = "finish"]
    /\ UNCHANGED <<srv, this, outer, request, queueVars, incoming, clientVars>>

\* Seeded bug: the object is deleted behind Finish.
FinishAndDelete(t) ==
    /\ srv = "up"
    /\ at[t] = "finish"
    /\ finishing' = finishing \cup {this[t]}
    /\ status' = [status EXCEPT ![this[t]] = "free"]
    /\ at' = [at EXCEPT ![t] = "next"]
    /\ Return(t)
    /\ UNCHANGED <<srv, request, reply, requested, cq, incoming, clientVars>>

\* ... before Finish, after which another thread may have the object.
Finish(t) ==
    /\ srv = "up"
    /\ at[t] = "finish"
    /\ finishing' = finishing \cup {this[t]}
    /\ at' = [at EXCEPT ![t] = "next"]
    /\ Return(t)
    /\ UNCHANGED <<srv, objectVars, requested, cq, incoming, clientVars>>

\* Proceed in FINISH: delete this.
Delete(t) ==
    /\ Proceeds(t, "FINISH")
    /\ status' = [status EXCEPT ![this[t]] = "free"]
    /\ at' = [at EXCEPT ![t] = "next"]
    /\ Return(t)
    /\ UNCHANGED <<srv, request, reply, queueVars, incoming, clientVars>>

\* cq_->Next with ok, then Proceed of the object that is the tag.
CqNext(t) ==
    /\ srv = "up"
    /\ at[t] = "next"
    /\ \E e \in cq :
          /\ e.ok
          /\ cq' = cq \ {e}
          /\ this' = [this EXCEPT ![t] = e.tag]
    /\ at' = [at EXCEPT ![t] = "proceed"]
    /\ UNCHANGED <<srv, outer, objectVars, requested, finishing, incoming, clientVars>>

\* The server process ends in state s, and with it the calls it had.
ServerEnds(s) ==
    /\ srv = "up"
    /\ srv' = s
    /\ rpc' = [c \in Call |-> IF rpc[c] = "sent" THEN "failed" ELSE rpc[c]]
    /\ UNCHANGED <<threadVars, objectVars, queueVars, incoming, started, answer, greeting>>

\* cq_->Next without ok: GPR_ASSERT ends the process.
AssertFails(t) ==
    /\ at[t] = "next"
    /\ \E e \in cq : ~e.ok
    /\ ServerEnds("aborted")

\* Control-C at any moment; "there is no shutdown handling in this code".
Kill == ServerEnds("killed")

-----------------------------------------------------------------------------
(* GreeterClient                                                           *)

\* main's loop: the next call is started and Finish asked for its result. A
\* call to a server that is not there fails.
SayHello(k) ==
    /\ started[k] < CallCount[k]
    /\ started' = [started EXCEPT ![k] = @ + 1]
    /\ LET c == <<k, started[k] + 1>>
       IN  \/ /\ srv = "up"
              /\ incoming' = incoming \cup {c}
              /\ rpc' = [rpc EXCEPT ![c] = "sent"]
           \/ /\ srv # "up"
              /\ rpc' = [rpc EXCEPT ![c] = "failed"]
              /\ UNCHANGED incoming
    /\ UNCHANGED <<srv, threadVars, objectVars, queueVars, answer, greeting>>

\* Seeded bug: results are taken for those of the calls in the order made.
CompleteInOrder(k) ==
    \E c \in CallsOf(k), d \in CallsOf(k) :
        /\ rpc[c] \in {"answered", "failed"}
        /\ rpc[d] \notin {"none", "done"}
        /\ \A e \in CallsOf(k) : e[2] < d[2] => rpc[e] = "done"
        /\ rpc' = [rpc EXCEPT ![c] = rpc[d], ![d] = "done"]
        /\ answer' = [answer EXCEPT ![c] = answer[d], ![d] = answer[c]]
        /\ greeting' = [greeting EXCEPT ![d] = answer[c]]
        /\ UNCHANGED <<srv, threadVars, objectVars, queueVars, incoming, started>>

\* Seeded bug: the loop of the client ends at the first call that failed.
CompleteUntilFailure(k) ==
    \/ /\ \E d \in CallsOf(k) : rpc[d] = "done" /\ greeting[d] = NoCall
       /\ UNCHANGED vars
    \/ /\ ~\E d \in CallsOf(k) : rpc[d] = "done" /\ greeting[d] = NoCall
       /\ \E c \in CallsOf(k) :
             /\ rpc[c] \in {"answered", "failed"}
             /\ greeting' = [greeting EXCEPT ![c] = answer[c]]
             /\ rpc' = [rpc EXCEPT ![c] = "done"]
       /\ UNCHANGED <<srv, threadVars, objectVars, queueVars, incoming, started, answer>>

\* AsyncCompleteRpc: a call is complete; its greeting is printed, or "RPC
\* failed", and it is deleted.
AsyncCompleteRpc(k) ==
    \E c \in CallsOf(k) :
        /\ rpc[c] \in {"answered", "failed"}
        /\ greeting' = [greeting EXCEPT ![c] = answer[c]]
        /\ rpc' = [rpc EXCEPT ![c] = "done"]
        /\ UNCHANGED <<srv, threadVars, objectVars, queueVars, incoming, started, answer>>

-----------------------------------------------------------------------------
(* The gRPC runtime and the network                                        *)

\* An incoming call is matched with a registered object.
Match(o, c) ==
    /\ srv = "up"
    /\ o \in requested
    /\ c \in incoming
    /\ request' = [request EXCEPT ![o] = c]
    /\ requested' = requested \ {o}
    /\ incoming' = incoming \ {c}
    /\ cq' = cq \cup {[tag |-> o, ok |-> TRUE]}
    /\ UNCHANGED <<srv, threadVars, status, reply, finishing, clientVars>>

\* Finish is done: the reply is with the client, or the call is lost, in
\* which case gRPC may have noticed or not.
Deliver(o) ==
    /\ srv = "up"
    /\ o \in finishing
    /\ finishing' = finishing \ {o}
    /\ LET c == request[o]
       IN  \/ /\ rpc[c] = "sent"
              /\ rpc' = [rpc EXCEPT ![c] = "answered"]
              /\ answer' = [answer EXCEPT ![c] = reply[o]]
              /\ cq' = cq \cup {[tag |-> o, ok |-> TRUE]}
           \/ /\ rpc[c] # "sent"
              /\ \E b \in BOOLEAN : cq' = cq \cup {[tag |-> o, ok |-> b]}
              /\ UNCHANGED <<rpc, answer>>
    /\ UNCHANGED <<srv, threadVars, objectVars, requested, incoming, started, greeting>>

\* A client's connection is lost, and the calls it had out with it.
Break(k) ==
    /\ \E c \in CallsOf(k) : rpc[c] = "sent"
    /\ rpc' = [c \in Call |->
                 IF c \in CallsOf(k) /\ rpc[c] = "sent" THEN "failed" ELSE rpc[c]]
    /\ UNCHANGED <<srv, threadVars, objectVars, queueVars, incoming, started, answer, greeting>>

\* gRPC drops a lost call that has no object yet.
Drop(c) ==
    /\ srv = "up"
    /\ c \in incoming
    /\ rpc[c] # "sent"
    /\ incoming' = incoming \ {c}
    /\ UNCHANGED <<srv, threadVars, objectVars, queueVars, clientVars>>

-----------------------------------------------------------------------------

ServerStep(t) ==
    \/ HandleRpcs(t) \/ Create(t) \/ RequestSayHello(t) \/ Spawn(t)
    \/ SetReply(t) \/ Finish(t) \/ Delete(t) \/ CqNext(t) \/ AssertFails(t)

ClientStep(k) == SayHello(k) \/ AsyncCompleteRpc(k)

\* All results are in: the clients and the server wait for ever.
AllComplete == (\A c \in Call : rpc[c] = "done") /\ UNCHANGED vars

Next ==
    \/ \E t \in Thread : ServerStep(t)
    \/ \E k \in Client : ClientStep(k) \/ Break(k)
    \/ \E o \in CallData : Deliver(o) \/ \E c \in Call : Match(o, c)
    \/ \E c \in Call : Drop(c)
    \/ Run \/ Kill
    \/ AllComplete

Spec == Init /\ [][Next]_vars

\* All threads run and gRPC does what it was asked to do, which includes that
\* the network does not stay silent: it delivers a call and its reply, or the
\* call is lost. It is not assumed that the server is ever started.
Fairness ==
    /\ \A t \in Thread : WF_vars(ServerStep(t))
    /\ \A k \in Client : WF_vars(SayHello(k)) /\ WF_vars(AsyncCompleteRpc(k))
    /\ \A o \in CallData : WF_vars(Deliver(o))
    /\ WF_vars(\E o \in CallData, c \in Call : Match(o, c))

FairSpec == Spec /\ Fairness

-----------------------------------------------------------------------------
(* Properties                                                              *)

Held(t) == {this[t], outer[t]} \ {NoObject}
Queued == {e.tag : e \in cq}

\* Every object there is has exactly one owner: a thread that runs its
\* Proceed, gRPC with an operation on it, or the queue with one event of it;
\* and nothing owns an address that was freed. So no thread uses a deleted
\* object, none is deleted twice, and none is forgotten.
OneOwner ==
    /\ \A t \in Thread : this[t] = outer[t] => this[t] = NoObject
    /\ \A t, u \in Thread : t # u => Held(t) \cap Held(u) = {}
    /\ \A t \in Thread : Held(t) \cap (requested \cup finishing \cup Queued) = {}
    /\ requested \cap finishing = {}
    /\ (requested \cup finishing) \cap Queued = {}
    /\ \A e, f \in cq : e.tag = f.tag => e = f
    /\ \A o \in CallData :
          status[o] # "free" <=>
              o \in requested \cup finishing \cup Queued \cup UNION {Held(t) : t \in Thread}

\* A call is served by one object, once: Finish is called on a call that
\* has not been answered, and no other object has that call.
ServedOnce ==
    /\ \A o \in finishing :
          /\ request[o] # NoCall
          /\ rpc[request[o]] # "answered"
          /\ greeting[request[o]] = NoCall
    /\ \A o, p \in CallData :
          /\ o # p /\ status[o] # "free" /\ status[p] # "free"
          /\ request[o] # NoCall
          => request[o] # request[p]

\* What is printed for a call is the greeting of its name, or that it failed,
\* in whatever order the calls are served and their results come in.
OwnGreeting == \A c \in Call : greeting[c] \in {c, NoCall}

\* The objects that take a call, and those that have one and are still to make
\* the object that takes the next.
Accepting ==
    {o \in CallData :
        \/ status[o] = "CREATE"
        \/ /\ status[o] = "PROCESS"
           /\ \/ request[o] = NoCall
              \/ o \in Queued
              \/ \E t \in Thread : at[t] = "proceed" /\ this[t] = o}

\* However the threads interleave and whichever calls are lost, the server
\* keeps as many objects open for calls as it has threads in HandleRpcs: an
\* object is replaced once it has a call, before it answers, and only once.
AlwaysAccepting ==
    Cardinality(Accepting) = Cardinality({t \in Thread : at[t] # "start"})

-----------------------------------------------------------------------------
(* Liveness                                                                *)

\* Every call a client makes has a result in the end, whatever becomes of
\* the server and of other calls, on a network that does not stay silent.
EveryCallEnds == \A c \in Call : <>(rpc[c] = "done")

-----------------------------------------------------------------------------
(* The inductive invariant behind the safety properties                    *)

\* The objects of a thread are in the status its place in Proceed needs, and
\* an object is made only in the Proceed of one that has a call.
ThreadInv ==
    \A t \in Thread :
        /\ at[t] \in {"start", "next"} <=> this[t] = NoObject
        /\ at[t] = "proceed" /\ outer[t] # NoObject => status[this[t]] = "CREATE"
        /\ at[t] = "proceed" /\ status[this[t]] = "PROCESS" => request[this[t]] # NoCall
        /\ at[t] = "request" => status[this[t]] = "PROCESS" /\ request[this[t]] = NoCall
        /\ at[t] = "reply" => status[this[t]] = "PROCESS" /\ request[this[t]] # NoCall
        /\ at[t] = "finish" => status[this[t]] = "FINISH"
        /\ outer[t] # NoObject =>
              /\ at[t] \in {"proceed", "request"}
              /\ status[outer[t]] = "PROCESS"
              /\ request[outer[t]] # NoCall

\* So are those gRPC and the queue have.
StatusInv ==
    /\ \A o \in requested : status[o] = "PROCESS" /\ request[o] = NoCall
    /\ \A o \in finishing : status[o] = "FINISH"
    /\ \A o \in Queued :
          \/ status[o] = "FINISH"
          \/ status[o] = "PROCESS" /\ request[o] # NoCall
    /\ \A o \in CallData :
          /\ status[o] = "CREATE" => request[o] = NoCall
          /\ status[o] = "FINISH" => request[o] # NoCall /\ reply[o] = request[o]

\* A call that waits, or whose object has not finished it, has no answer; one
\* that waits has no object, and one that was not made has neither.
CallInv ==
    /\ \A c \in Call :
          /\ rpc[c] = "none" <=> c[2] > started[c[1]]
          /\ rpc[c] = "none" => c \notin incoming /\ answer[c] = NoCall
          /\ rpc[c] = "answered" => answer[c] # NoCall
          /\ greeting[c] # NoCall => answer[c] # NoCall
          /\ answer[c] \in {c, NoCall}
    /\ \A c \in incoming : answer[c] = NoCall
    /\ \A o \in CallData :
          status[o] # "free" /\ request[o] # NoCall =>
              /\ request[o] \notin incoming
              /\ rpc[request[o]] # "none"
              /\ status[o] = "PROCESS" \/ o \in finishing => answer[request[o]] = NoCall
    /\ \A t \in Thread : at[t] = "finish" => answer[request[this[t]]] = NoCall

IInv ==
    /\ TypeOK
    /\ OneOwner
    /\ ThreadInv
    /\ StatusInv
    /\ CallInv
    /\ ServedOnce
    /\ OwnGreeting

=============================================================================
