---------------------------- MODULE MCFlatbuffers ----------------------------
(* The clients of the instance TLC checks FlatbuffersTransport on.         *)
EXTENDS FlatbuffersTransport

CONSTANTS c1, c2

\* An echo of two blocks, twice, beside a read of a block of negative size.
EchoAndRead ==
    [c \in Client |-> IF c = c1 THEN "echo" ELSE "read"]
TwoAndOne ==
    [c \in Client |-> IF c = c1 THEN 2 ELSE 1]
BadSize ==
    [c \in Client |-> IF c = c1 THEN 1 ELSE -1]
TwiceAndOnce ==
    [c \in Client |-> IF c = c1 THEN 2 ELSE 1]

=============================================================================
