------------------------------ MODULE RtServer -------------------------------
(***************************************************************************)
(* The rt_server process: main registers ServerRcvFn in a static of the    *)
(* transport layer, constructs the transport, which listens from then on,  *)
(* and waits.  The process can be stopped (SIGINT, run_transports.py's     *)
(* terminate) at any moment, aborts when ServerRcvFn throws, and can be    *)
(* started again.  The transport modules add what its end does to the      *)
(* calls in progress.                                                      *)
(***************************************************************************)
EXTENDS Naturals

CONSTANT MaxBoots   \* bound: how many times a server process is started

ASSUME MaxBootsAssumption == MaxBoots \in Nat

VARIABLES
    srv,    \* the state of the server process
    rcvFn,  \* Server::_rcvFn of that process
    boots   \* the processes started so far (bounded by MaxBoots)

serverVars == <<srv, rcvFn, boots>>

RcvFns == {"null", "ServerRcvFn"}

ServerTypeOK ==
    /\ srv \in {"down", "aborted", "started", "configured", "up"}
    /\ rcvFn \in RcvFns
    /\ boots \in 0..MaxBoots

ServerInit ==
    /\ srv = "down"
    /\ rcvFn = "null"
    /\ boots = 0

\* Seeded bug: main constructs the transport before it registers ServerRcvFn.
BootUnregistered ==
    /\ srv \in {"down", "aborted"}
    /\ boots < MaxBoots
    /\ srv' = "configured"
    /\ rcvFn' = "null"
    /\ boots' = boots + 1

\* A new process, with its statics initialized.
Boot ==
    /\ srv \in {"down", "aborted"}
    /\ boots < MaxBoots
    /\ srv' = "started"
    /\ rcvFn' = "null"
    /\ boots' = boots + 1

SetRcvFn ==
    /\ srv = "started"
    /\ srv' = "configured"
    /\ rcvFn' = "ServerRcvFn"
    /\ UNCHANGED boots

\* The transport's constructor: it listens, or throws and ends the process
\* (the port of a server that has not gone yet, say).
Listen ==
    /\ srv = "configured"
    /\ srv' \in {"up", "down"}
    /\ UNCHANGED <<rcvFn, boots>>

\* The process is terminated by a signal.
Exit ==
    /\ srv \in {"started", "configured", "up"}
    /\ srv' = "down"
    /\ UNCHANGED <<rcvFn, boots>>

\* A callback threw: std::abort.
Abort ==
    /\ srv = "up"
    /\ srv' = "aborted"
    /\ UNCHANGED <<rcvFn, boots>>

=============================================================================
