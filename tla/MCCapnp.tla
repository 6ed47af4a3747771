------------------------------- MODULE MCCapnp -------------------------------
(* The clients of the instance TLC checks CapnprotoTransport on.           *)
EXTENDS CapnprotoTransport

CONSTANTS c1, c2, c3

\* An echo of two blocks, twice, beside one of -1 blocks, whose request is empty,
\* and one of a block of negative size, whose request cannot be filled.
Echoes ==
    [c \in Client |-> "echo"]
TwoNoneAndOne ==
    [c \in Client |-> CASE c = c1 -> 2 [] c = c2 -> -1 [] c = c3 -> 1]
OneBadSize ==
    [c \in Client |-> IF c = c3 THEN -1 ELSE 1]
TwiceAndOnce ==
    [c \in Client |-> IF c = c1 THEN 2 ELSE 1]

=============================================================================
