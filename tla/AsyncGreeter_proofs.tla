-------------------------- MODULE AsyncGreeter_proofs --------------------------
(***************************************************************************)
(* Proofs about AsyncGreeter, for any number of threads, objects, clients  *)
(* and calls.  The invariant is proved action by action; its parts about   *)
(* ownership are put pointwise (Owned) first.                              *)
(***************************************************************************)
EXTENDS AsyncGreeter, FiniteSetTheorems, TLAPS

\* Thread t has object o; the queue has an event of object o.
Has(t, o) == this[t] = o \/ outer[t] = o
InQueue(o) == \E e \in cq : e.tag = o

\* OneOwner, object by object.
Owned ==
    /\ \A t \in Thread : this[t] = outer[t] => this[t] = NoObject
    /\ \A t, u \in Thread, o \in CallData : Has(t, o) /\ Has(u, o) => t = u
    /\ \A t \in Thread, o \in CallData :
          Has(t, o) => o \notin requested /\ o \notin finishing /\ ~InQueue(o)
    /\ \A o \in CallData : o \in requested => o \notin finishing /\ ~InQueue(o)
    /\ \A o \in CallData : o \in finishing => ~InQueue(o)
    /\ \A e, f \in cq : e.tag = f.tag => e = f
    /\ \A o \in CallData :
          status[o] # "free" <=> \/ o \in requested \/ o \in finishing \/ InQueue(o)
                                 \/ \E t \in Thread : Has(t, o)

\* No two objects have the same call.
Apart ==
    \A o, p \in CallData :
        /\ o # p /\ status[o] # "free" /\ status[p] # "free"
        /\ request[o] # NoCall
        => request[o] # request[p]

Inv == Owned /\ ThreadInv /\ StatusInv /\ CallInv /\ Apart /\ OwnGreeting

LEMMA OwnedIsOneOwner == TypeOK => (Owned <=> OneOwner)
<1> SUFFICES ASSUME TypeOK PROVE Owned <=> OneOwner
  OBVIOUS
<1>1. \A t \in Thread : this[t] \in CallData \cup {NoObject} /\ outer[t] \in CallData \cup {NoObject}
  BY DEF TypeOK, Object
<1>2. \A e \in cq : e.tag \in CallData
  BY DEF TypeOK
<1>3. requested \subseteq CallData /\ finishing \subseteq CallData
  BY DEF TypeOK
<1>4. \A t \in Thread, o \in CallData : o \in Held(t) <=> Has(t, o)
  BY NoObjectAssumption DEF Held, Has
<1>5. \A t \in Thread : Held(t) \subseteq CallData
  BY <1>1 DEF Held
<1>6. \A o \in CallData : o \in Queued <=> InQueue(o)
  BY DEF Queued, InQueue
<1>7. Queued \subseteq CallData
  BY <1>2 DEF Queued
<1>8. \A o \in CallData : o \in UNION {Held(t) : t \in Thread} <=> \E t \in Thread : Has(t, o)
  BY <1>4
<1>9. (\A t, u \in Thread : t # u => Held(t) \cap Held(u) = {})
      <=> \A t, u \in Thread, o \in CallData : Has(t, o) /\ Has(u, o) => t = u
  BY <1>4, <1>5
<1>10. (\A t \in Thread : Held(t) \cap (requested \cup finishing \cup Queued) = {})
       <=> \A t \in Thread, o \in CallData :
              Has(t, o) => o \notin requested /\ o \notin finishing /\ ~InQueue(o)
  BY <1>4, <1>5, <1>6
<1>11. (requested \cap finishing = {} /\ (requested \cup finishing) \cap Queued = {})
       <=> /\ \A o \in CallData : o \in requested => o \notin finishing /\ ~InQueue(o)
           /\ \A o \in CallData : o \in finishing => ~InQueue(o)
  BY <1>3, <1>6
<1>12. (\A o \in CallData :
          status[o] # "free" <=>
              o \in requested \cup finishing \cup Queued \cup UNION {Held(t) : t \in Thread})
       <=> \A o \in CallData :
             status[o] # "free" <=> \/ o \in requested \/ o \in finishing \/ InQueue(o)
                                    \/ \E t \in Thread : Has(t, o)
  BY <1>6, <1>8
<1> QED BY <1>9, <1>10, <1>11, <1>12 DEF Owned, OneOwner

\* The invariant, put as it is proved.
LEMMA IInvSplit == IInv <=> TypeOK /\ Inv
<1>1. TypeOK /\ StatusInv /\ CallInv =>
        \A o \in finishing : /\ request[o] # NoCall
                             /\ rpc[request[o]] # "answered"
                             /\ greeting[request[o]] = NoCall
  BY DEF TypeOK, StatusInv, CallInv, Name
<1> QED BY <1>1, OwnedIsOneOwner DEF IInv, Inv, ServedOnce, Apart

\* A thread in Proceed has an object.
LEMMA ThisObject ==
    ASSUME TypeOK, ThreadInv, NEW t \in Thread, at[t] \notin {"start", "next"}
    PROVE  this[t] \in CallData
BY DEF TypeOK, ThreadInv, Object

-----------------------------------------------------------------------------
(* The steps of a server thread                                            *)

LEMMA CreateInv ==
    ASSUME TypeOK, Inv, NEW t \in Thread, Create(t)
    PROVE  TypeOK' /\ Inv'
<1>1. this[t] \in CallData /\ at[t] = "proceed" /\ status[this[t]] = "CREATE"
  BY ThisObject DEF Inv, Create, Proceeds
<1>2. /\ status' = [status EXCEPT ![this[t]] = "PROCESS"]
      /\ at' = [at EXCEPT ![t] = "request"]
      /\ UNCHANGED <<srv, this, outer, request, reply, requested, finishing, cq,
                     incoming, started, rpc, answer, greeting>>
  BY DEF Create, queueVars, clientVars
<1>3. TypeOK'
  BY <1>1, <1>2 DEF TypeOK
<1>4. Owned'
  BY <1>1, <1>2 DEF TypeOK, Inv, Owned, Has, InQueue
<1>5. request[this[t]] = NoCall
  BY <1>1 DEF Inv, StatusInv
<1>6. \A u \in Thread : u # t => this[u] # this[t] /\ outer[u] # this[t]
  BY <1>1 DEF Inv, Owned, Has
<1>7. ThreadInv'
  BY <1>1, <1>2, <1>5, <1>6 DEF TypeOK, Inv, ThreadInv, Owned, Has
<1>8. StatusInv'
  BY <1>1, <1>2, <1>5 DEF TypeOK, Inv, StatusInv, Owned, Has, InQueue, Queued
<1>9. CallInv'
  BY <1>1, <1>2, <1>5 DEF TypeOK, Inv, CallInv
<1>10. Apart' /\ OwnGreeting'
  BY <1>1, <1>2 DEF TypeOK, Inv, Apart, OwnGreeting
<1> QED BY <1>3, <1>4, <1>7, <1>8, <1>9, <1>10 DEF Inv

LEMMA RequestSayHelloInv ==
    ASSUME TypeOK, Inv, NEW t \in Thread, RequestSayHello(t)
    PROVE  TypeOK' /\ Inv'
<1>1. /\ this[t] \in CallData /\ at[t] = "request"
      /\ status[this[t]] = "PROCESS" /\ request[this[t]] = NoCall
  BY ThisObject DEF Inv, RequestSayHello, ThreadInv
<1>2. /\ requested' = requested \cup {this[t]}
      /\ at' = [at EXCEPT ![t] = IF outer[t] = NoObject THEN "next" ELSE "reply"]
      /\ this' = [this EXCEPT ![t] = outer[t]]
      /\ outer' = [outer EXCEPT ![t] = NoObject]
      /\ UNCHANGED <<srv, status, request, reply, finishing, cq,
                     incoming, started, rpc, answer, greeting>>
  BY DEF RequestSayHello, Return, objectVars, clientVars
<1>3. TypeOK'
  BY <1>1, <1>2 DEF TypeOK, Object
<1>4. Owned'
  BY <1>1, <1>2, NoObjectAssumption DEF TypeOK, Inv, Owned, Has, InQueue
<1>5. ThreadInv'
  BY <1>1, <1>2 DEF TypeOK, Inv, ThreadInv
<1>6. StatusInv'
  BY <1>1, <1>2 DEF TypeOK, Inv, StatusInv, Queued
<1>7. CallInv'
  BY <1>1, <1>2 DEF TypeOK, Inv, CallInv
<1>8. Apart' /\ OwnGreeting'
  BY <1>1, <1>2 DEF TypeOK, Inv, Apart, OwnGreeting
<1> QED BY <1>3, <1>4, <1>5, <1>6, <1>7, <1>8 DEF Inv

\* The object that makes another one stays with the thread, behind it.
LEMMA NewCallDataInv ==
    ASSUME TypeOK, Inv, NEW t \in Thread,
           HandleRpcs(t) \/ Spawn(t)
    PROVE  TypeOK' /\ Inv'
<1> DEFINE maker == IF at[t] = "start" THEN NoObject ELSE this[t]
<1>1. /\ at[t] \in {"start", "proceed"}
      /\ maker = this[t] /\ outer[t] = NoObject
      /\ this[t] # NoObject =>
            /\ this[t] \in CallData
            /\ status[this[t]] = "PROCESS" /\ request[this[t]] # NoCall
  BY ThisObject DEF Inv, HandleRpcs, Spawn, Proceeds, ThreadInv
<1>2. PICK o \in CallData :
          /\ status[o] = "free"
          /\ status' = [status EXCEPT ![o] = "CREATE"]
          /\ request' = [request EXCEPT ![o] = NoCall]
          /\ reply' = [reply EXCEPT ![o] = NoCall]
          /\ this' = [this EXCEPT ![t] = o]
  BY DEF HandleRpcs, Spawn, NewCallData
<1>3. /\ outer' = [outer EXCEPT ![t] = this[t]]
      /\ at' = [at EXCEPT ![t] = "proceed"]
      /\ UNCHANGED <<srv, requested, finishing, cq,
                     incoming, started, rpc, answer, greeting>>
  BY <1>1 DEF HandleRpcs, Spawn, Proceeds, NewCallData, queueVars, clientVars
<1>4. /\ o \notin requested /\ o \notin finishing /\ ~InQueue(o)
      /\ \A u \in Thread : ~Has(u, o)
  BY <1>2 DEF Inv, Owned
<1>5. TypeOK'
  BY <1>1, <1>2, <1>3 DEF TypeOK, Object, Name
<1>6. Owned'
  BY <1>1, <1>2, <1>3, <1>4, NoObjectAssumption DEF TypeOK, Inv, Owned, Has, InQueue
<1>7. ThreadInv'
  BY <1>1, <1>2, <1>3, <1>4, NoObjectAssumption DEF TypeOK, Inv, ThreadInv, Has
<1>8. StatusInv'
  BY <1>2, <1>3, <1>4 DEF TypeOK, Inv, StatusInv, Queued, InQueue
<1>9. CallInv'
  BY <1>2, <1>3, <1>4 DEF TypeOK, Inv, CallInv, ThreadInv, Has
<1>10. Apart' /\ OwnGreeting'
  BY <1>2, <1>3 DEF TypeOK, Inv, Apart, OwnGreeting
<1> QED BY <1>5, <1>6, <1>7, <1>8, <1>9, <1>10 DEF Inv

LEMMA SetReplyInv ==
    ASSUME TypeOK, Inv, NEW t \in Thread, SetReply(t)
    PROVE  TypeOK' /\ Inv'
<1>1. /\ this[t] \in CallData /\ at[t] = "reply" /\ outer[t] = NoObject
      /\ status[this[t]] = "PROCESS" /\ request[this[t]] # NoCall
  BY ThisObject DEF Inv, SetReply, ThreadInv
<1>2. /\ reply' = [reply EXCEPT ![this[t]] = request[this[t]]]
      /\ status' = [status EXCEPT ![this[t]] = "FINISH"]
      /\ at' = [at EXCEPT ![t] = "finish"]
      /\ UNCHANGED <<srv, this, outer, request, requested, finishing, cq,
                     incoming, started, rpc, answer, greeting>>
  BY DEF SetReply, queueVars, clientVars
<1>3. /\ this[t] \notin requested /\ this[t] \notin finishing /\ ~InQueue(this[t])
      /\ \A u \in Thread : u # t => this[u] # this[t] /\ outer[u] # this[t]
  BY <1>1 DEF Inv, Owned, Has
<1>4. TypeOK'
  BY <1>1, <1>2 DEF TypeOK, Name
<1>5. Owned'
  BY <1>1, <1>2 DEF TypeOK, Inv, Owned, Has, InQueue
<1>6. ThreadInv'
  BY <1>1, <1>2, <1>3 DEF TypeOK, Inv, ThreadInv
<1>7. StatusInv'
  BY <1>1, <1>2, <1>3 DEF TypeOK, Inv, StatusInv, Queued, InQueue
<1>8. CallInv'
  BY <1>1, <1>2, <1>3 DEF TypeOK, Inv, CallInv
<1>9. Apart' /\ OwnGreeting'
  BY <1>1, <1>2 DEF TypeOK, Inv, Apart, OwnGreeting
<1> QED BY <1>4, <1>5, <1>6, <1>7, <1>8, <1>9 DEF Inv

LEMMA FinishInv ==
    ASSUME TypeOK, Inv, NEW t \in Thread, Finish(t)
    PROVE  TypeOK' /\ Inv'
<1>1. /\ this[t] \in CallData /\ at[t] = "finish" /\ outer[t] = NoObject
      /\ status[this[t]] = "FINISH"
  BY ThisObject DEF Inv, Finish, ThreadInv
<1>2. /\ finishing' = finishing \cup {this[t]}
      /\ at' = [at EXCEPT ![t] = "next"]
      /\ this' = [this EXCEPT ![t] = NoObject]
      /\ outer' = outer
      /\ UNCHANGED <<srv, status, request, reply, requested, cq,
                     incoming, started, rpc, answer, greeting>>
  BY <1>1 DEF Finish, Return, objectVars, clientVars, TypeOK
<1>3. TypeOK'
  BY <1>1, <1>2 DEF TypeOK, Object
<1>4. Owned'
  BY <1>1, <1>2, NoObjectAssumption DEF TypeOK, Inv, Owned, Has, InQueue
<1>5. ThreadInv'
  BY <1>1, <1>2 DEF TypeOK, Inv, ThreadInv
<1>6. StatusInv'
  BY <1>1, <1>2 DEF TypeOK, Inv, StatusInv, Queued
<1>7. CallInv'
  BY <1>1, <1>2 DEF TypeOK, Inv, CallInv
<1>8. Apart' /\ OwnGreeting'
  BY <1>1, <1>2 DEF TypeOK, Inv, Apart, OwnGreeting
<1> QED BY <1>3, <1>4, <1>5, <1>6, <1>7, <1>8 DEF Inv

\* Nobody else has the object that is deleted.
LEMMA DeleteInv ==
    ASSUME TypeOK, Inv, NEW t \in Thread, Delete(t)
    PROVE  TypeOK' /\ Inv'
<1>1. /\ this[t] \in CallData /\ at[t] = "proceed" /\ outer[t] = NoObject
      /\ status[this[t]] = "FINISH"
  BY ThisObject DEF Inv, Delete, Proceeds, ThreadInv
<1>2. /\ status' = [status EXCEPT ![this[t]] = "free"]
      /\ at' = [at EXCEPT ![t] = "next"]
      /\ this' = [this EXCEPT ![t] = NoObject]
      /\ outer' = outer
      /\ UNCHANGED <<srv, request, reply, requested, finishing, cq,
                     incoming, started, rpc, answer, greeting>>
  BY <1>1 DEF Delete, Return, queueVars, clientVars, TypeOK
<1>3. /\ this[t] \notin requested /\ this[t] \notin finishing /\ ~InQueue(this[t])
      /\ \A u \in Thread : u # t => this[u] # this[t] /\ outer[u] # this[t]
  BY <1>1 DEF Inv, Owned, Has
<1>4. TypeOK'
  BY <1>1, <1>2 DEF TypeOK, Object
<1>5. Owned'
  <2>1. \A u \in Thread, o \in CallData : Has(u, o)' <=> Has(u, o) /\ u # t
    BY <1>1, <1>2, NoObjectAssumption DEF TypeOK, Has
  <2>2. \A o \in CallData : InQueue(o)' <=> InQueue(o)
    BY <1>2 DEF InQueue
  <2>3. \A u \in Thread : this'[u] = outer'[u] => this'[u] = NoObject
    BY <1>2 DEF TypeOK, Inv, Owned
  <2>4. \A o \in CallData \ {this[t]} :
           /\ status'[o] = status[o]
           /\ \A u \in Thread : Has(u, o)' <=> Has(u, o)
    BY <1>1, <1>2, <2>1, NoObjectAssumption DEF TypeOK, Has
  <2>5. \A o \in CallData :
           status'[o] # "free" <=> \/ o \in requested \/ o \in finishing \/ InQueue(o)
                                   \/ \E u \in Thread : Has(u, o)'
    <3> SUFFICES ASSUME NEW o \in CallData
                 PROVE  status'[o] # "free" <=>
                            \/ o \in requested \/ o \in finishing \/ InQueue(o)
                            \/ \E u \in Thread : Has(u, o)'
      OBVIOUS
    <3>1. CASE o = this[t]
      <4>1. status'[o] = "free"
        BY <1>2, <3>1 DEF TypeOK
      <4>2. \A u \in Thread : ~Has(u, o)'
        BY <1>3, <2>1, <3>1 DEF Has
      <4> QED BY <1>3, <3>1, <4>1, <4>2
    <3>2. CASE o # this[t]
      BY <2>4, <3>2 DEF Inv, Owned
    <3> QED BY <3>1, <3>2
  <2> QED BY <1>2, <2>1, <2>2, <2>3, <2>5 DEF Inv, Owned
<1>6. ThreadInv'
  BY <1>1, <1>2, <1>3 DEF TypeOK, Inv, ThreadInv
<1>7. StatusInv'
  BY <1>1, <1>2, <1>3 DEF TypeOK, Inv, StatusInv, Queued, InQueue
<1>8. CallInv'
  BY <1>1, <1>2, <1>3 DEF TypeOK, Inv, CallInv
<1>9. Apart' /\ OwnGreeting'
  BY <1>1, <1>2 DEF TypeOK, Inv, Apart, OwnGreeting
<1> QED BY <1>4, <1>5, <1>6, <1>7, <1>8, <1>9 DEF Inv

LEMMA CqNextInv ==
    ASSUME TypeOK, Inv, NEW t \in Thread, CqNext(t)
    PROVE  TypeOK' /\ Inv'
<1>1. PICK e \in cq : cq' = cq \ {e} /\ this' = [this EXCEPT ![t] = e.tag]
  BY DEF CqNext
<1>2. /\ at[t] = "next" /\ this[t] = NoObject /\ outer[t] = NoObject
      /\ at' = [at EXCEPT ![t] = "proceed"]
      /\ UNCHANGED <<srv, outer, status, request, reply, requested, finishing,
                     incoming, started, rpc, answer, greeting>>
  BY DEF CqNext, Inv, ThreadInv, objectVars, clientVars
<1>3. /\ e.tag \in CallData /\ InQueue(e.tag)
      /\ \A f \in cq : f.tag = e.tag => f = e
      /\ \A o \in CallData : InQueue(o)' <=> (InQueue(o) /\ o # e.tag)
  BY <1>1 DEF TypeOK, Inv, Owned, InQueue
<1>4. /\ e.tag \notin requested /\ e.tag \notin finishing
      /\ \A u \in Thread : ~Has(u, e.tag)
      /\ status[e.tag] # "free"
  BY <1>3 DEF Inv, Owned
<1>5. \/ status[e.tag] = "FINISH"
      \/ status[e.tag] = "PROCESS" /\ request[e.tag] # NoCall
  BY DEF Inv, StatusInv, Queued
<1>6. TypeOK'
  BY <1>1, <1>2, <1>3 DEF TypeOK, Object
<1>7. Owned'
  <2>1. \A u \in Thread, o \in CallData : Has(u, o)' <=> (Has(u, o) \/ (u = t /\ o = e.tag))
    BY <1>1, <1>2, <1>3, NoObjectAssumption DEF TypeOK, Has
  <2>2. \A u \in Thread : this'[u] = outer'[u] => this'[u] = NoObject
    BY <1>1, <1>2, <1>3, NoObjectAssumption DEF TypeOK, Inv, Owned
  <2>3. cq' \subseteq cq
    BY <1>1
  <2> QED BY <1>2, <1>3, <1>4, <2>1, <2>2, <2>3 DEF Inv, Owned
<1>8. ThreadInv'
  BY <1>1, <1>2, <1>3, <1>5, NoObjectAssumption DEF TypeOK, Inv, ThreadInv
<1>9. StatusInv'
  BY <1>1, <1>2 DEF TypeOK, Inv, StatusInv, Queued
<1>10. CallInv'
  BY <1>1, <1>2 DEF TypeOK, Inv, CallInv
<1>11. Apart' /\ OwnGreeting'
  BY <1>2 DEF Inv, Apart, OwnGreeting
<1> QED BY <1>6, <1>7, <1>8, <1>9, <1>10, <1>11 DEF Inv

-----------------------------------------------------------------------------
(* The steps of gRPC                                                       *)

\* The event of an operation on object o.
LEMMA EventOf ==
    ASSUME NEW o \in CallData, NEW b \in BOOLEAN
    PROVE  /\ [tag |-> o, ok |-> b] \in [tag : CallData, ok : BOOLEAN]
           /\ [tag |-> o, ok |-> b].tag = o
  OBVIOUS

LEMMA MatchInv ==
    ASSUME TypeOK, Inv, NEW o \in CallData, NEW c \in Call, Match(o, c)
    PROVE  TypeOK' /\ Inv'
<1>1. /\ o \in requested /\ c \in incoming
      /\ request' = [request EXCEPT ![o] = c]
      /\ requested' = requested \ {o}
      /\ incoming' = incoming \ {c}
      /\ UNCHANGED <<srv, at, this, outer, status, reply, finishing,
                     started, rpc, answer, greeting>>
  BY DEF Match, threadVars, clientVars
<1>0. PICK ev \in [tag : CallData, ok : BOOLEAN] :
         cq' = cq \cup {ev} /\ ev.tag = o
  BY EventOf DEF Match
<1>2. /\ o \notin finishing /\ ~InQueue(o) /\ \A u \in Thread : ~Has(u, o)
      /\ status[o] = "PROCESS" /\ request[o] = NoCall
  BY <1>1 DEF Inv, Owned, StatusInv
<1>3. /\ answer[c] = NoCall /\ rpc[c] # "none" /\ c # NoCall
      /\ \A p \in CallData : status[p] # "free" => request[p] # c
  BY <1>1, CallAssumption DEF Inv, CallInv
<1>4. TypeOK'
  BY <1>0, <1>1 DEF TypeOK, Name
<1>5. \A p \in CallData : InQueue(p)' <=> (InQueue(p) \/ p = o)
  BY <1>0 DEF InQueue
<1>6. Owned'
  <2>1. \A e, f \in cq' : e.tag = f.tag => e = f
    BY <1>0, <1>2 DEF Inv, Owned, InQueue
  <2>2. \A u \in Thread, p \in CallData : Has(u, p)' <=> Has(u, p)
    BY <1>1 DEF Has
  <2> QED BY <1>1, <1>2, <1>5, <2>1, <2>2 DEF Inv, Owned
<1>7. ThreadInv'
  BY <1>1, <1>2 DEF TypeOK, Inv, ThreadInv, Has
<1>8. StatusInv'
  <2>1. \A p \in Queued' : p \in Queued \/ p = o
    BY <1>0 DEF Queued
  <2>2. Queued \subseteq CallData
    BY DEF TypeOK, Queued
  <2> QED BY <1>1, <1>2, <1>3, <2>1, <2>2 DEF TypeOK, Inv, StatusInv
<1>9. CallInv'
  BY <1>1, <1>2, <1>3 DEF TypeOK, Inv, CallInv, ThreadInv, Has
<1>10. Apart' /\ OwnGreeting'
  BY <1>1, <1>2, <1>3 DEF TypeOK, Inv, Apart, OwnGreeting
<1> QED BY <1>4, <1>6, <1>7, <1>8, <1>9, <1>10 DEF Inv

\* The reply goes to the call it was made for, which has none yet.
LEMMA DeliverInv ==
    ASSUME TypeOK, Inv, NEW o \in CallData, Deliver(o)
    PROVE  TypeOK' /\ Inv'
<1> DEFINE c == request[o]
<1>1. PICK b \in BOOLEAN :
         /\ finishing' = finishing \ {o}
         /\ cq' = cq \cup {[tag |-> o, ok |-> b]}
         /\ \/ /\ rpc[c] = "sent"
               /\ rpc' = [rpc EXCEPT ![c] = "answered"]
               /\ answer' = [answer EXCEPT ![c] = reply[o]]
            \/ UNCHANGED <<rpc, answer>>
         /\ UNCHANGED <<srv, at, this, outer, status, request, reply, requested,
                        incoming, started, greeting>>
  BY DEF Deliver, threadVars, objectVars
<1>0. PICK ev \in [tag : CallData, ok : BOOLEAN] :
         cq' = cq \cup {ev} /\ ev.tag = o
  BY <1>1, EventOf
<1>2. /\ o \in finishing /\ o \notin requested /\ ~InQueue(o)
      /\ \A u \in Thread : ~Has(u, o)
      /\ status[o] = "FINISH"
  BY DEF Deliver, Inv, Owned, StatusInv
<1>3. /\ c \in Call /\ c # NoCall /\ reply[o] = c
      /\ answer[c] = NoCall /\ c \notin incoming /\ rpc[c] # "none"
      /\ \A p \in CallData : p # o /\ status[p] # "free" => request[p] # c
  BY <1>2 DEF TypeOK, Name, Inv, StatusInv, CallInv, Apart
<1>4. TypeOK'
  BY <1>0, <1>1, <1>3 DEF TypeOK, Name
<1>5. \A p \in CallData : InQueue(p)' <=> (InQueue(p) \/ p = o)
  BY <1>0 DEF InQueue
<1>6. Owned'
  <2>1. \A e, f \in cq' : e.tag = f.tag => e = f
    BY <1>0, <1>2 DEF Inv, Owned, InQueue
  <2>2. \A u \in Thread, p \in CallData : Has(u, p)' <=> Has(u, p)
    BY <1>1 DEF Has
  <2> QED BY <1>1, <1>2, <1>5, <2>1, <2>2 DEF Inv, Owned
<1>7. ThreadInv'
  BY <1>1 DEF Inv, ThreadInv
<1>8. StatusInv'
  BY <1>1, <1>2, <1>5 DEF TypeOK, Inv, StatusInv, Queued, InQueue
<1>9. CallInv'
  <2>1. \A d \in Call : d # c => answer'[d] = answer[d] /\ rpc'[d] = rpc[d]
    BY <1>1, <1>3 DEF TypeOK
  <2>2. /\ rpc'[c] # "none" /\ rpc[c] # "none"
        /\ rpc'[c] = "answered" => answer'[c] # NoCall
        /\ greeting[c] = NoCall
        /\ answer'[c] \in {c, NoCall}
    BY <1>1, <1>3 DEF TypeOK, Inv, CallInv
  <2>3. \A d \in Call :
          /\ rpc'[d] = "none" <=> d[2] > started'[d[1]]
          /\ rpc'[d] = "none" => d \notin incoming' /\ answer'[d] = NoCall
          /\ rpc'[d] = "answered" => answer'[d] # NoCall
          /\ greeting'[d] # NoCall => answer'[d] # NoCall
          /\ answer'[d] \in {d, NoCall}
    BY <1>1, <1>3, <2>1, <2>2 DEF Inv, CallInv
  <2>4. \A d \in incoming' : answer'[d] = NoCall
    BY <1>1, <1>3, <2>1 DEF TypeOK, Inv, CallInv
  <2>5. \A p \in CallData :
          status'[p] # "free" /\ request'[p] # NoCall =>
              /\ request'[p] \notin incoming'
              /\ rpc'[request'[p]] # "none"
              /\ status'[p] = "PROCESS" \/ p \in finishing' => answer'[request'[p]] = NoCall
    BY <1>1, <1>2, <1>3, <2>1, <2>2 DEF TypeOK, Name, Inv, CallInv
  <2>6. \A t \in Thread : at'[t] = "finish" => answer'[request'[this'[t]]] = NoCall
    <3> SUFFICES ASSUME NEW t \in Thread, at[t] = "finish"
                 PROVE  answer'[request[this[t]]] = NoCall
      BY <1>1
    <3>1. this[t] \in CallData /\ status[this[t]] = "FINISH" /\ this[t] # o
      BY <1>2, ThisObject DEF Inv, ThreadInv, Has
    <3>2. request[this[t]] # c /\ request[this[t]] \in Call
      BY <1>3, <3>1 DEF TypeOK, Name, Inv, StatusInv
    <3> QED BY <2>1, <3>2 DEF Inv, CallInv
  <2> QED BY <2>3, <2>4, <2>5, <2>6 DEF CallInv
<1>10. Apart' /\ OwnGreeting'
  BY <1>1 DEF Inv, Apart, OwnGreeting
<1> QED BY <1>4, <1>6, <1>7, <1>8, <1>9, <1>10 DEF Inv

-----------------------------------------------------------------------------
(* The steps of the clients and of the network                             *)

\* A step that leaves the server's objects alone needs looking at for the
\* calls alone.
LEMMA ObjectsAlone ==
    ASSUME Inv,
           UNCHANGED <<at, this, outer, status, request, reply, requested, finishing, cq>>
    PROVE  Owned' /\ ThreadInv' /\ StatusInv' /\ Apart'
BY DEF Inv, Owned, Has, InQueue, ThreadInv, StatusInv, Queued, Apart

\* Calls fail: that of a broken connection, or of a server that ends.
LEMMA FailInv ==
    ASSUME TypeOK, Inv, NEW S \in SUBSET Call,
           rpc' = [c \in Call |-> IF c \in S /\ rpc[c] = "sent" THEN "failed" ELSE rpc[c]],
           srv' \in {"down", "up", "aborted", "killed"}, incoming' \subseteq incoming,
           UNCHANGED <<threadVars, objectVars, queueVars, started, answer, greeting>>
    PROVE  TypeOK' /\ Inv'
<1> USE DEF threadVars, objectVars, queueVars
<1>1. TypeOK'
  BY DEF TypeOK
<1>2. CallInv'
  BY DEF TypeOK, Name, Inv, CallInv
<1>3. OwnGreeting'
  BY DEF Inv, OwnGreeting
<1> QED BY <1>1, <1>2, <1>3, ObjectsAlone DEF Inv

LEMMA ServerEndsInv ==
    ASSUME TypeOK, Inv, NEW s \in {"aborted", "killed"}, ServerEnds(s)
    PROVE  TypeOK' /\ Inv'
<1>1. rpc' = [c \in Call |->
                IF c \in Call /\ rpc[c] = "sent" THEN "failed" ELSE rpc[c]]
  BY DEF ServerEnds
<1> QED BY <1>1, FailInv DEF ServerEnds

LEMMA CallsOfCall ==
    ASSUME NEW k \in Client
    PROVE  /\ CallsOf(k) \subseteq Call
           /\ \A i \in Nat : i < CallCount[k] => <<k, i + 1>> \in CallsOf(k)
           /\ \A c \in CallsOf(k) : c[1] = k
<1>1. \A i \in Nat : i < CallCount[k] => i + 1 \in 1..CallCount[k]
  BY CallAssumption
<1> QED BY <1>1 DEF CallsOf, Call

LEMMA NetworkInv ==
    ASSUME TypeOK, Inv,
           \/ \E k \in Client : Break(k)
           \/ \E c \in Call : Drop(c)
           \/ Run
    PROVE  TypeOK' /\ Inv'
<1>1. ASSUME NEW k \in Client, Break(k)
      PROVE  TypeOK' /\ Inv'
  <2>1. CallsOf(k) \in SUBSET Call
    BY CallsOfCall
  <2> QED BY <1>1, <2>1, FailInv DEF Break, TypeOK
<1>2. ASSUME rpc' = rpc, incoming' \subseteq incoming,
             srv' \in {"down", "up", "aborted", "killed"},
             UNCHANGED <<threadVars, objectVars, queueVars, started, answer, greeting>>
      PROVE  TypeOK' /\ Inv'
  <2>1. rpc' = [c \in Call |->
                  IF c \in {} /\ rpc[c] = "sent" THEN "failed" ELSE rpc[c]]
    BY <1>2 DEF TypeOK
  <2>2. {} \in SUBSET Call
    OBVIOUS
  <2> QED BY <1>2, <2>1, <2>2, FailInv
<1>3. (\E c \in Call : Drop(c)) \/ Run => TypeOK' /\ Inv'
  BY <1>2 DEF Drop, Run, clientVars, TypeOK
<1> QED BY <1>1, <1>3

LEMMA SayHelloInv ==
    ASSUME TypeOK, Inv, NEW k \in Client, SayHello(k)
    PROVE  TypeOK' /\ Inv'
<1> DEFINE c == <<k, started[k] + 1>>
<1>1. /\ started' = [started EXCEPT ![k] = @ + 1]
      /\ \/ incoming' = incoming \cup {c} /\ rpc' = [rpc EXCEPT ![c] = "sent"]
         \/ incoming' = incoming /\ rpc' = [rpc EXCEPT ![c] = "failed"]
      /\ UNCHANGED <<srv, at, this, outer, status, request, reply, requested,
                     finishing, cq, answer, greeting>>
  BY DEF SayHello, threadVars, objectVars, queueVars
<1>2. c \in Call /\ c[1] = k /\ c[2] = started[k] + 1 /\ started[k] \in Nat
  BY CallsOfCall DEF SayHello, TypeOK
<1>3. rpc[c] = "none" /\ answer[c] = NoCall /\ c # NoCall
  BY <1>2, CallAssumption DEF Inv, CallInv
<1>4. \A d \in Call : d[1] \in Client /\ d[2] \in Nat /\ d = <<d[1], d[2]>>
  BY DEF Call, CallsOf
<1>5. TypeOK'
  BY <1>1, <1>2 DEF TypeOK
<1>6. \A d \in Call : d # c =>
          /\ rpc'[d] = rpc[d]
          /\ d \in incoming' <=> d \in incoming
          /\ d[2] > started'[d[1]] <=> d[2] > started[d[1]]
  BY <1>1, <1>2, <1>4 DEF TypeOK
<1>7. rpc'[c] \in {"sent", "failed"} /\ ~(c[2] > started'[c[1]])
  BY <1>1, <1>2 DEF TypeOK
<1>8. CallInv'
  <2>1. ASSUME NEW d \in Call
        PROVE  /\ rpc'[d] = "none" <=> d[2] > started'[d[1]]
               /\ rpc'[d] = "none" => d \notin incoming' /\ answer'[d] = NoCall
               /\ rpc'[d] = "answered" => answer'[d] # NoCall
               /\ greeting'[d] # NoCall => answer'[d] # NoCall
               /\ answer'[d] \in {d, NoCall}
    <3>1. CASE d = c
      BY <1>1, <1>2, <1>3, <1>7, <3>1 DEF Inv, CallInv
    <3>2. CASE d # c
      BY <1>1, <1>6, <2>1, <3>2 DEF Inv, CallInv
    <3> QED BY <3>1, <3>2
  <2>2. \A d \in incoming' : answer'[d] = NoCall
    BY <1>1, <1>3 DEF Inv, CallInv
  <2>3. ASSUME NEW o \in CallData, status'[o] # "free", request'[o] # NoCall
        PROVE  /\ request'[o] \notin incoming'
               /\ rpc'[request'[o]] # "none"
               /\ status'[o] = "PROCESS" \/ o \in finishing' => answer'[request'[o]] = NoCall
    <3>1. request[o] \in Call /\ request'[o] = request[o]
      BY <1>1, <2>3 DEF TypeOK, Name
    <3>2. request[o] # c
      BY <1>1, <1>3, <2>3 DEF Inv, CallInv
    <3> QED BY <1>1, <1>6, <2>3, <3>1, <3>2 DEF Inv, CallInv
  <2>4. \A t \in Thread : at'[t] = "finish" => answer'[request'[this'[t]]] = NoCall
    BY <1>1 DEF Inv, CallInv
  <2> QED BY <2>1, <2>2, <2>3, <2>4 DEF CallInv
<1>9. OwnGreeting'
  BY <1>1 DEF Inv, OwnGreeting
<1> QED BY <1>1, <1>5, <1>8, <1>9, ObjectsAlone DEF Inv

LEMMA AsyncCompleteRpcInv ==
    ASSUME TypeOK, Inv, NEW k \in Client, AsyncCompleteRpc(k)
    PROVE  TypeOK' /\ Inv'
<1>1. PICK c \in CallsOf(k) :
         /\ rpc[c] \in {"answered", "failed"}
         /\ greeting' = [greeting EXCEPT ![c] = answer[c]]
         /\ rpc' = [rpc EXCEPT ![c] = "done"]
         /\ UNCHANGED <<srv, at, this, outer, status, request, reply, requested,
                        finishing, cq, incoming, started, answer>>
  BY DEF AsyncCompleteRpc, threadVars, objectVars, queueVars
<1>2. c \in Call
  BY CallsOfCall
<1>3. TypeOK'
  BY <1>1, <1>2 DEF TypeOK
<1>4. CallInv'
  BY <1>1, <1>2 DEF TypeOK, Name, Inv, CallInv
<1>5. OwnGreeting'
  BY <1>1, <1>2 DEF TypeOK, Inv, CallInv, OwnGreeting
<1> QED BY <1>1, <1>3, <1>4, <1>5, ObjectsAlone DEF Inv

-----------------------------------------------------------------------------
(* The theorems                                                            *)

LEMMA InitInv == Init => TypeOK /\ Inv
<1> SUFFICES ASSUME Init PROVE TypeOK /\ Inv
  OBVIOUS
<1>1. \A c \in Call : c[2] > started[c[1]]
  BY DEF Init, Call, CallsOf
<1>2. TypeOK
  BY DEF Init, TypeOK, Object, Name
<1>3. Owned /\ ThreadInv /\ StatusInv /\ Apart
  BY NoObjectAssumption DEF Init, Owned, Has, InQueue, ThreadInv, StatusInv, Queued, Apart
<1>4. CallInv /\ OwnGreeting
  BY <1>1 DEF Init, CallInv, OwnGreeting
<1> QED BY <1>2, <1>3, <1>4 DEF Inv

LEMMA StepInv ==
    ASSUME TypeOK, Inv, [Next]_vars
    PROVE  TypeOK' /\ Inv'
<1>1. ASSUME NEW t \in Thread, ServerStep(t)
      PROVE  TypeOK' /\ Inv'
  BY <1>1, NewCallDataInv, CreateInv, RequestSayHelloInv, SetReplyInv, FinishInv,
     DeleteInv, CqNextInv, ServerEndsInv
  DEF ServerStep, AssertFails
<1>2. ASSUME NEW k \in Client, ClientStep(k)
      PROVE  TypeOK' /\ Inv'
  BY <1>2, SayHelloInv, AsyncCompleteRpcInv DEF ClientStep
<1>3. Kill => TypeOK' /\ Inv'
  BY ServerEndsInv DEF Kill
<1>4. UNCHANGED vars => TypeOK' /\ Inv'
  <2> SUFFICES ASSUME UNCHANGED vars PROVE TypeOK' /\ Inv'
    OBVIOUS
  <2>1. CallInv' /\ OwnGreeting'
    BY DEF vars, threadVars, objectVars, queueVars, clientVars, Inv, CallInv, OwnGreeting
  <2> QED
    BY <2>1, ObjectsAlone
    DEF vars, threadVars, objectVars, queueVars, clientVars, Inv, TypeOK
<1> QED
  BY <1>1, <1>2, <1>3, <1>4, MatchInv, DeliverInv, NetworkInv DEF Next, AllComplete

\* The inductive invariant of the greeter.
THEOREM Invariance == Spec => []IInv
<1>1. Init => TypeOK /\ Inv
  BY InitInv
<1>2. TypeOK /\ Inv /\ [Next]_vars => TypeOK' /\ Inv'
  BY StepInv
<1> QED BY <1>1, <1>2, IInvSplit, PTL DEF Spec

THEOREM TypeCorrect == Spec => []TypeOK
<1>1. IInv => TypeOK
  BY DEF IInv
<1> QED BY <1>1, Invariance, PTL

\* However many threads run HandleRpcs, no CallData object is used by two of
\* them, used after it was deleted, or lost.
THEOREM ObjectsOwned == Spec => []OneOwner
<1>1. IInv => OneOwner
  BY DEF IInv
<1> QED BY <1>1, Invariance, PTL

\* Finish is called once for a call.
THEOREM CallsServedOnce == Spec => []ServedOnce
<1>1. IInv => ServedOnce
  BY DEF IInv
<1> QED BY <1>1, Invariance, PTL

\* A client prints the greetings of the names it sent.
THEOREM GreetingsOwn == Spec => []OwnGreeting
<1>1. IInv => OwnGreeting
  BY DEF IInv
<1> QED BY <1>1, Invariance, PTL

-----------------------------------------------------------------------------
(* As many objects accept calls as there are threads in HandleRpcs         *)

\* Thread t is about to run, or runs, the Proceed of object o.
InProceed(t, o) == at[t] = "proceed" /\ this[t] = o

\* Accepting, object by object.
Accepts(o) ==
    \/ status[o] = "CREATE"
    \/ /\ status[o] = "PROCESS"
       /\ request[o] = NoCall \/ InQueue(o) \/ \E t \in Thread : InProceed(t, o)

Running == {t \in Thread : at[t] # "start"}

AcceptInv ==
    /\ IsFiniteSet(Accepting)
    /\ IsFiniteSet(Running)
    /\ Cardinality(Accepting) = Cardinality(Running)

LEMMA AcceptingIs ==
    /\ Accepting = {o \in CallData : Accepts(o)}
    /\ Accepting' = {o \in CallData : Accepts(o)'}
BY DEF Accepting, Accepts, Queued, InQueue, InProceed

\* Most steps leave both sets as they are.
LEMMA AcceptingStays ==
    ASSUME AcceptInv, Running' = Running,
           \A o \in CallData : Accepts(o)' <=> Accepts(o)
    PROVE  AcceptInv'
<1>1. Accepting' = Accepting
  BY AcceptingIs
<1> QED BY <1>1 DEF AcceptInv

LEMMA AcceptInit == Init => AcceptInv
<1> SUFFICES ASSUME Init PROVE AcceptInv
  OBVIOUS
<1>1. Accepting = {} /\ Running = {}
  BY DEF Init, Accepting, Running
<1> QED BY <1>1, FS_EmptySet DEF AcceptInv

\* A thread that enters HandleRpcs brings one object with it.
LEMMA HandleRpcsAccepts ==
    ASSUME TypeOK, Inv, AcceptInv, NEW t \in Thread, HandleRpcs(t)
    PROVE  AcceptInv'
<1>1. PICK o \in CallData :
          /\ status[o] = "free"
          /\ status' = [status EXCEPT ![o] = "CREATE"]
          /\ request' = [request EXCEPT ![o] = NoCall]
          /\ this' = [this EXCEPT ![t] = o]
  BY DEF HandleRpcs, NewCallData
<1>2. /\ at[t] = "start"
      /\ at' = [at EXCEPT ![t] = "proceed"]
      /\ cq' = cq
  BY DEF HandleRpcs, NewCallData, queueVars
<1>3. Running' = Running \cup {t} /\ t \notin Running
  BY <1>2 DEF Running, TypeOK
<1>4. ~Accepts(o) /\ Accepts(o)'
  BY <1>1 DEF Accepts, TypeOK
<1>5. \A p \in CallData : p # o => (Accepts(p)' <=> Accepts(p))
  <2>1. \A p \in CallData, u \in Thread : p # o => (InProceed(u, p)' <=> InProceed(u, p))
    <3>1. this[t] = NoObject
      BY <1>2 DEF Inv, ThreadInv
    <3> QED BY <1>1, <1>2, <3>1, NoObjectAssumption DEF InProceed, TypeOK
  <2> QED BY <1>1, <1>2, <2>1 DEF Accepts, InQueue, TypeOK
<1>6. Accepting' = Accepting \cup {o} /\ o \notin Accepting
  BY <1>4, <1>5, AcceptingIs
<1>7. IsFiniteSet(Accepting') /\ Cardinality(Accepting') = Cardinality(Accepting) + 1
  BY <1>6, FS_AddElement DEF AcceptInv
<1>8. IsFiniteSet(Running') /\ Cardinality(Running') = Cardinality(Running) + 1
  BY <1>3, FS_AddElement DEF AcceptInv
<1> QED BY <1>7, <1>8 DEF AcceptInv

\* An object that has a call hands its place to the one it makes.
LEMMA SpawnAccepts ==
    ASSUME TypeOK, Inv, AcceptInv, NEW t \in Thread, Spawn(t)
    PROVE  AcceptInv'
<1>1. PICK x \in CallData : x = this[t]
  BY ThisObject DEF Spawn, Proceeds, Inv
<1>2. PICK o \in CallData :
          /\ status[o] = "free"
          /\ status' = [status EXCEPT ![o] = "CREATE"]
          /\ request' = [request EXCEPT ![o] = NoCall]
          /\ this' = [this EXCEPT ![t] = o]
  BY DEF Spawn, NewCallData
<1>3. /\ at[t] = "proceed" /\ status[x] = "PROCESS" /\ x # o
      /\ at' = [at EXCEPT ![t] = "proceed"]
      /\ cq' = cq
      /\ request[x] # NoCall
  BY <1>1, <1>2 DEF Spawn, Proceeds, NewCallData, queueVars, Inv, ThreadInv
<1>4. Running' = Running
  BY <1>3 DEF Running, TypeOK
<1>5. ~InQueue(x) /\ \A u \in Thread : u # t => this[u] # x
  BY <1>1 DEF Inv, Owned, Has
<1>6. Accepts(x) /\ ~Accepts(x)'
  <2>1. Accepts(x)
    BY <1>1, <1>3 DEF Accepts, InProceed
  <2>2. status'[x] = "PROCESS" /\ request'[x] # NoCall /\ ~InQueue(x)'
    BY <1>2, <1>3, <1>5 DEF TypeOK, InQueue
  <2>3. \A u \in Thread : ~InProceed(u, x)'
    BY <1>2, <1>3, <1>5 DEF TypeOK, InProceed
  <2> QED BY <2>1, <2>2, <2>3 DEF Accepts
<1>7. ~Accepts(o) /\ Accepts(o)'
  BY <1>2 DEF Accepts, TypeOK
<1>8. \A p \in CallData : p # o /\ p # x => (Accepts(p)' <=> Accepts(p))
  <2>1. \A p \in CallData, u \in Thread :
            p # o /\ p # x => (InProceed(u, p)' <=> InProceed(u, p))
    BY <1>1, <1>2, <1>3 DEF InProceed, TypeOK
  <2> QED BY <1>2, <1>3, <2>1 DEF Accepts, InQueue, TypeOK
<1>9. /\ Accepting' = (Accepting \ {x}) \cup {o}
      /\ x \in Accepting /\ o \notin Accepting \ {x}
  BY <1>6, <1>7, <1>8, AcceptingIs
<1>10. /\ IsFiniteSet(Accepting \ {x})
       /\ Cardinality(Accepting \ {x}) = Cardinality(Accepting) - 1
       /\ Cardinality(Accepting) \in Nat
  BY <1>9, FS_RemoveElement, FS_CardinalityType DEF AcceptInv
<1>11. /\ IsFiniteSet(Accepting')
       /\ Cardinality(Accepting') = (Cardinality(Accepting) - 1) + 1
  BY <1>9, <1>10, FS_AddElement
<1> QED BY <1>4, <1>10, <1>11 DEF AcceptInv

\* What a thread does to an object behind that is not about its call, or the
\* object has been replaced.
LEMMA ProceedAccepts ==
    ASSUME TypeOK, Inv, AcceptInv, NEW t \in Thread,
           Create(t) \/ RequestSayHello(t) \/ SetReply(t) \/ Finish(t) \/ Delete(t)
    PROVE  AcceptInv'
<1>1. PICK x \in CallData : x = this[t]
  BY ThisObject DEF Create, RequestSayHello, SetReply, Finish, Delete, Proceeds, Inv
<1>2. /\ at[t] # "start" /\ request' = request /\ cq' = cq
      /\ \A u \in Thread : u # t => at'[u] = at[u] /\ this'[u] = this[u]
      /\ at'[t] \notin {"start", "proceed"}
      /\ \A p \in CallData : p # x => status'[p] = status[p]
  BY <1>1
  DEF Create, RequestSayHello, SetReply, Finish, Delete, Proceeds, Return, TypeOK,
      objectVars, queueVars
<1>3. Running' = Running
  BY <1>2 DEF Running
<1>4. /\ ~InQueue(x) /\ \A u \in Thread : u # t => this[u] # x
  BY <1>1 DEF Inv, Owned, Has
<1>5. \/ status[x] = "CREATE" /\ status'[x] = "PROCESS" /\ request[x] = NoCall
      \/ status[x] = "PROCESS" /\ status'[x] = "PROCESS" /\ request[x] = NoCall
      \/ status[x] = "PROCESS" /\ status'[x] = "FINISH" /\ request[x] # NoCall
         /\ at[t] # "proceed"
      \/ status[x] = "FINISH" /\ status'[x] \in {"FINISH", "free"}
  BY <1>1
  DEF Create, RequestSayHello, SetReply, Finish, Delete, Proceeds, TypeOK, Inv,
      ThreadInv, StatusInv, objectVars
<1>6. \A u \in Thread : InProceed(u, x) => u = t
  BY <1>4 DEF InProceed
<1>7. Accepts(x)' <=> Accepts(x)
  BY <1>2, <1>4, <1>5, <1>6 DEF Accepts, InProceed, InQueue
<1>8. \A p \in CallData : p # x => (Accepts(p)' <=> Accepts(p))
  <2>1. \A p \in CallData, u \in Thread : p # x => (InProceed(u, p)' <=> InProceed(u, p))
    BY <1>1, <1>2 DEF InProceed
  <2> QED BY <1>2, <2>1 DEF Accepts, InQueue
<1> QED BY <1>3, <1>7, <1>8, AcceptingStays

\* An object with a call is replaced whether its event waits or is taken.
LEMMA CqNextAccepts ==
    ASSUME TypeOK, Inv, AcceptInv, NEW t \in Thread, CqNext(t)
    PROVE  AcceptInv'
<1>1. PICK e \in cq : cq' = cq \ {e} /\ this' = [this EXCEPT ![t] = e.tag]
  BY DEF CqNext
<1>2. /\ at[t] = "next" /\ at' = [at EXCEPT ![t] = "proceed"]
      /\ UNCHANGED <<status, request>>
  BY DEF CqNext, objectVars
<1>3. /\ e.tag \in CallData
      /\ \A f \in cq : f.tag = e.tag => f = e
  BY DEF TypeOK, Inv, Owned
<1>4. Running' = Running
  BY <1>2 DEF Running, TypeOK
<1>5. InQueue(e.tag) /\ InProceed(t, e.tag)'
  BY <1>1, <1>2 DEF InQueue, InProceed, TypeOK
<1>6. \A p \in CallData : p # e.tag => (InQueue(p)' <=> InQueue(p))
  BY <1>1 DEF InQueue
<1>7. \A p \in CallData, u \in Thread : p # e.tag => (InProceed(u, p)' <=> InProceed(u, p))
  BY <1>1, <1>2 DEF InProceed, TypeOK
<1>8. \A p \in CallData : Accepts(p)' <=> Accepts(p)
  BY <1>2, <1>5, <1>6, <1>7 DEF Accepts
<1> QED BY <1>4, <1>8, AcceptingStays

\* gRPC gives an object a call, or is done with its answer.
LEMMA GrpcAccepts ==
    ASSUME TypeOK, Inv, AcceptInv, NEW o \in CallData,
           Deliver(o) \/ \E c \in Call : Match(o, c)
    PROVE  AcceptInv'
<1>0. PICK ev \in [tag : CallData, ok : BOOLEAN] :
         cq' = cq \cup {ev} /\ ev.tag = o
  BY EventOf DEF Deliver, Match
<1>1. /\ UNCHANGED <<at, this, status>>
      /\ \A p \in CallData : p # o => request'[p] = request[p]
      /\ \A p \in CallData : p # o => (InQueue(p)' <=> InQueue(p))
      /\ InQueue(o)'
  <2>1. /\ UNCHANGED <<at, this, status>>
        /\ \A p \in CallData : p # o => request'[p] = request[p]
    BY DEF Deliver, Match, threadVars, objectVars, TypeOK
  <2> QED BY <1>0, <2>1 DEF InQueue
<1>2. \/ status[o] = "FINISH"
      \/ status[o] = "PROCESS" /\ request[o] = NoCall
  BY DEF Deliver, Match, Inv, StatusInv
<1>3. Running' = Running
  BY <1>1 DEF Running
<1>4. \A p \in CallData : Accepts(p)' <=> Accepts(p)
  BY <1>1, <1>2 DEF Accepts, InProceed
<1> QED BY <1>3, <1>4, AcceptingStays

\* Nothing else is about the objects.
LEMMA OthersAccept ==
    ASSUME AcceptInv, UNCHANGED <<at, this, status, request, cq>>
    PROVE  AcceptInv'
<1>1. Running' = Running
  BY DEF Running
<1>2. \A p \in CallData : Accepts(p)' <=> Accepts(p)
  BY DEF Accepts, InQueue, InProceed
<1> QED BY <1>1, <1>2, AcceptingStays

LEMMA StepAccepts ==
    ASSUME TypeOK, Inv, AcceptInv, [Next]_vars
    PROVE  AcceptInv'
<1>1. ASSUME NEW t \in Thread, ServerStep(t)
      PROVE  AcceptInv'
  <2>1. AssertFails(t) => UNCHANGED <<at, this, status, request, cq>>
    BY DEF AssertFails, ServerEnds, threadVars, objectVars, queueVars
  <2> QED BY <1>1, <2>1, HandleRpcsAccepts, SpawnAccepts, ProceedAccepts, CqNextAccepts,
             OthersAccept DEF ServerStep
<1>2. ASSUME \/ \E k \in Client : ClientStep(k) \/ Break(k)
             \/ \E c \in Call : Drop(c)
             \/ Run \/ Kill \/ UNCHANGED vars
      PROVE  AcceptInv'
  <2>1. UNCHANGED <<at, this, status, request, cq>>
    BY <1>2 DEF ClientStep, SayHello, AsyncCompleteRpc, Break, Drop, Run, Kill, ServerEnds,
       vars, threadVars, objectVars, queueVars
  <2> QED BY <2>1, OthersAccept
<1> QED BY <1>1, <1>2, GrpcAccepts DEF Next, AllComplete

\* For any number of threads, however they interleave and whichever calls are
\* lost, the server has one object open for calls per thread in HandleRpcs.
THEOREM ServerAccepts == Spec => []AlwaysAccepting
<1>1. Init => TypeOK /\ Inv /\ AcceptInv
  BY InitInv, AcceptInit
<1>2. TypeOK /\ Inv /\ AcceptInv /\ [Next]_vars => TypeOK' /\ Inv' /\ AcceptInv'
  BY StepInv, StepAccepts
<1>3. AcceptInv => AlwaysAccepting
  BY DEF AcceptInv, AlwaysAccepting, Running
<1> QED BY <1>1, <1>2, <1>3, PTL DEF Spec

=============================================================================
