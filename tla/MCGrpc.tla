------------------------------- MODULE MCGrpc --------------------------------
(* The clients of the instance TLC checks GrpcTransport on.                *)
EXTENDS GrpcTransport

CONSTANTS c1, c2

\* An echo of two blocks, twice, beside a read whose block count is negative.
EchoAndBadRead ==
    [c \in Client |-> IF c = c1 THEN "echo" ELSE "read"]
EchoAndBadReadCount ==
    [c \in Client |-> IF c = c1 THEN 2 ELSE -1]
Unit ==
    [c \in Client |-> 1]
Twice ==
    [c \in Client |-> 2]

=============================================================================
