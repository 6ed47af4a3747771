---------------------------- MODULE MCAsyncGreeter ----------------------------
(* The client of the instance TLC checks AsyncGreeter on.                  *)
EXTENDS AsyncGreeter

CONSTANT k1

\* One client with two calls out at a time.
TwoCalls == [k \in Client |-> 2]

===============================================================================
