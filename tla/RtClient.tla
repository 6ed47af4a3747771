------------------------------ MODULE RtClient -------------------------------
(***************************************************************************)
(* The rt_client program: each client runs op_count operations one after   *)
(* the other.  An operation fills a request, hands it to the transport's   *)
(* sendReq, and checks the reply.  Any exception ends the program, since   *)
(* main has no handler.                                                    *)
(*                                                                         *)
(* What happens inside sendReq (pc = "send") is left to the transport      *)
(* modules, which use SendReqReturns and SendReqThrows for its two exits   *)
(* and put together the reply on the way.                                  *)
(***************************************************************************)
EXTENDS RtPayload

CONSTANTS
    Client,         \* the running rt_client processes
    Workload,       \* --workload of each client
    BlockCount,     \* --block_count of each client
    BlockSize,      \* --block_size of each client
    OpCount         \* --op_count of each client

ASSUME ClientAssumption ==
    /\ Workload \in [Client -> Workloads]
    /\ BlockCount \in [Client -> Int]
    /\ BlockSize \in [Client -> Int]
    /\ OpCount \in [Client -> Nat]

VARIABLES
    pc,     \* where each client is in main
    ops,    \* the operations each client has completed (the loop's i)
    req,    \* the request of the current operation
    reply   \* the reply of the current operation, as received so far

clientVars == <<pc, ops, req, reply>>

Ended == {"passed", "fill_failed", "send_failed", "invalid"}

\* The requests a client sends.
Requests(c) == FillReq(Workload[c], BlockCount[c], BlockSize[c])

\* What a client asks of the server takes blocks that cannot be made, or that
\* there may be no memory for. A write asks for none.
AsksTooMuch(c) ==
    Workload[c] # "write" /\ MayNotMake(BlockCount[c], BlockSize[c])

ClientTypeOK ==
    /\ pc \in [Client -> {"fill", "send", "check"} \cup Ended]
    /\ ops \in [Client -> Nat]
    /\ \A c \in Client : ops[c] <= OpCount[c]
    /\ req \in [Client -> Msg]
    /\ reply \in [Client -> Msg]

ClientInit ==
    /\ pc = [c \in Client |-> "fill"]
    /\ ops = [c \in Client |-> 0]
    /\ req = [c \in Client |-> <<>>]
    /\ reply = [c \in Client |-> <<>>]

\* The head of the loop: a fresh request and an empty reply, then the call.
FillRequest(c) ==
    /\ pc[c] = "fill"
    /\ ops[c] < OpCount[c]
    /\ ~CannotMake(ReqBlocks(Workload[c], BlockCount[c]), BlockSize[c])
    /\ \E m \in Requests(c) :
           req' = [req EXCEPT ![c] = m]
    /\ reply' = [reply EXCEPT ![c] = <<>>]
    /\ pc' = [pc EXCEPT ![c] = "send"]
    /\ UNCHANGED ops

\* fill throws on the blocks of the request: the process ends.
FillThrows(c) ==
    /\ pc[c] = "fill"
    /\ ops[c] < OpCount[c]
    /\ MayNotMake(ReqBlocks(Workload[c], BlockCount[c]), BlockSize[c])
    /\ pc' = [pc EXCEPT ![c] = "fill_failed"]
    /\ UNCHANGED <<ops, req, reply>>

\* sendReq returns; the transport says what has become of reply.
SendReqReturns(c) ==
    /\ pc[c] = "send"
    /\ pc' = [pc EXCEPT ![c] = "check"]
    /\ UNCHANGED <<ops, req>>

\* sendReq throws: the process ends.
SendReqThrows(c) ==
    /\ pc[c] = "send"
    /\ pc' = [pc EXCEPT ![c] = "send_failed"]
    /\ UNCHANGED <<ops, req, reply>>

\* getRemoteProcessTimeUs and isValid: both throw on a bad reply.
CheckReply(c) ==
    /\ pc[c] = "check"
    /\ \/ /\ Accepts(Workload[c], req[c], reply[c])
          /\ pc' = [pc EXCEPT ![c] = "fill"]
          /\ ops' = [ops EXCEPT ![c] = @ + 1]
       \/ /\ ~Accepts(Workload[c], req[c], reply[c])
          /\ pc' = [pc EXCEPT ![c] = "invalid"]
          /\ UNCHANGED ops
    /\ UNCHANGED <<req, reply>>

\* The loop is over: print the statistics and "Test passed".
Pass(c) ==
    /\ pc[c] = "fill"
    /\ ops[c] = OpCount[c]
    /\ pc' = [pc EXCEPT ![c] = "passed"]
    /\ UNCHANGED <<ops, req, reply>>

=============================================================================
