----------------------------- MODULE MCCalculator -----------------------------
(* A second client for the calculator's server, all of whose features and    *)
(* errors it meets with, for TLC.                                            *)
EXTENDS Calculator

\* f(x, y) = x / (x - y), g(x) = x + (a parameter g does not have),
\* h(x) = x ^ (f(x, x - 2)), called with right and wrong parameters, in
\* part on each other's results.
Errors ==
    <<Operator("DIVIDE"), Operator("SUBTRACT"),
      DefFunction(2, <<Parameter(0), Parameter(0), Parameter(1),
                       Call(2, <<2, 3>>), Call(1, <<1, 4>>)>>),
      DefFunction(1, <<Parameter(0), Parameter(1), Call(2, <<1, 2>>)>>),
      DefFunction(1, <<Parameter(0), Parameter(0), Parameter(0), Literal(2),
                       Call(2, <<3, 4>>), Call(3, <<2, 5>>), Call(Power, <<1, 6>>)>>),
      Evaluate(<<Literal(4), Call(5, <<1>>)>>), Read(6),
      Evaluate(<<PreviousResult(6), Literal(1), Call(4, <<2>>), Call(2, <<1, 3>>)>>), Read(8),
      Evaluate(<<PreviousResult(6), Literal(9), Call(2, <<1, 2>>),
                 Literal(7), Literal(2), Call(1, <<4, 5>>), Call(3, <<3, 6>>)>>), Read(10),
      Evaluate(<<PreviousResult(8), Call(3, <<1>>)>>), Read(12),
      Evaluate(<<Parameter(0)>>), Read(14),
      WaitFor(7, 16), WaitFor(9, 0)>>

\* What the sample's client does, and what the second one does.
Both == {ClientMain, Errors}

=============================================================================
