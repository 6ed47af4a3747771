------------------------------ MODULE MCRsocket ------------------------------
(* The clients of the instances TLC checks RsocketTransport on.            *)
EXTENDS RsocketTransport

CONSTANTS c1, c2

\* An echo of two blocks, which there may be no memory for, and three reads of
\* one: enough for a channel to be opened when its operation is over.
EchoAndRead ==
    [c \in Client |-> IF c = c1 THEN "echo" ELSE "read"]
TwoAndOne ==
    [c \in Client |-> IF c = c1 THEN 2 ELSE 1]
Unit ==
    [c \in Client |-> 1]
OnceAndThrice ==
    [c \in Client |-> IF c = c1 THEN 1 ELSE 3]

\* A header the client takes for that of a response, one the server takes for
\* that of a request, and what neither does.
AnyHeaderOrData ==
    {Hdr("r_rsp", 0, 0), Hdr("r_req", 0, 0), Data(CHOOSE b \in Block : TRUE)}

=============================================================================
