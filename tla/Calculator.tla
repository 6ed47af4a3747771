------------------------------ MODULE Calculator ------------------------------
(***************************************************************************)
(* The Cap'n Proto calculator: a client sends calls to the server without  *)
(* waiting for their results (promise pipelining), and the server answers  *)
(* each when what it depends on is there.  An expression is evaluated by   *)
(* a tree of promises: its parameters all at once, its function when they  *)
(* are there.  A function is one of the server's operators, one defined by *)
(* an expression, or the client's own, which the server calls back while   *)
(* the client waits.                                                       *)
(*                                                                         *)
(* A client is a script: calls and waits, in order.  A call is known by    *)
(* its place in the script, and so is the promise for its result.  An      *)
(* expression is the sequence of its subexpressions, each behind its own:  *)
(* a call has the places of its parameters, and the last one is the whole. *)
(* Doubles are modelled by the integers they hold; what comes of a         *)
(* quotient or a power that is no whole number is not followed any further *)
(* (Untracked).                                                            *)
(***************************************************************************)
EXTENDS Integers, Sequences

CONSTANTS
    Scripts,    \* what clients may do
    Untracked,  \* a double that is no whole number, or was made of one
    Faults      \* whether the connection may break

ASSUME CalculatorAssumption == Untracked \notin Int /\ Faults \in BOOLEAN

Number == Int \cup {Untracked}

-----------------------------------------------------------------------------
(* calculator.capnp: expressions, and the calls of a script.               *)

Literal(x)        == [kind |-> "literal", val |-> x]
PreviousResult(q) == [kind |-> "previousResult", of |-> q]
Parameter(i)      == [kind |-> "parameter", idx |-> i]
Call(f, params)   == [kind |-> "call", fn |-> f, params |-> params]

\* In place of a function: the PowerFunction of the client.
Power == 0

Operator(op)          == [do |-> "getOperator", op |-> op]
DefFunction(n, body)  == [do |-> "defFunction", paramCount |-> n, code |-> body]
Evaluate(expr)        == [do |-> "evaluate", code |-> expr]
Read(q)               == [do |-> "read", of |-> q]
WaitFor(q, x)         == [do |-> "wait", of |-> q, is |-> x]

\* What a client has when it makes its q-th step: the results of earlier ones.
Earlier(sc, q, do) == {r \in 1..(q - 1) : sc[r].do \in do}

IsNode(sc, q, i) ==
    LET e == sc[q].code[i]
    IN  \/ e.kind = "literal" /\ e.val \in Number
        \/ e.kind = "previousResult" /\ e.of \in Earlier(sc, q, {"evaluate"})
        \/ e.kind = "parameter" /\ e.idx \in Nat
        \/ /\ e.kind = "call"
           /\ e.fn \in Earlier(sc, q, {"getOperator", "defFunction"}) \cup {Power}
           /\ e.params \in Seq(1..(i - 1))

\* Each subexpression but the whole is a parameter of a call.
IsExpression(sc, q) ==
    LET code == sc[q].code
    IN  /\ Len(code) \in Nat \ {0}
        /\ DOMAIN code = 1..Len(code)
        /\ \A i \in DOMAIN code : IsNode(sc, q, i)
        /\ \A i \in 1..(Len(code) - 1) : \E j \in DOMAIN code :
              code[j].kind = "call" /\ \E k \in DOMAIN code[j].params : code[j].params[k] = i

IsStep(sc, q) ==
    \/ sc[q].do = "getOperator" /\ sc[q].op \in {"ADD", "SUBTRACT", "MULTIPLY", "DIVIDE"}
    \/ sc[q].do = "defFunction" /\ sc[q].paramCount \in Nat /\ IsExpression(sc, q)
    \/ sc[q].do = "evaluate" /\ IsExpression(sc, q)
    \/ sc[q].do = "read" /\ sc[q].of \in Earlier(sc, q, {"evaluate"})
    \/ sc[q].do = "wait" /\ sc[q].of \in Earlier(sc, q, {"read"})

\* A client names only what it has, and calls only functions.
ASSUME ScriptAssumption ==
    \A sc \in Scripts :
        /\ Len(sc) \in Nat
        /\ DOMAIN sc = 1..Len(sc)
        /\ \A q \in DOMAIN sc : IsStep(sc, q)

\* calculator-client.c++: the five blocks of main. Each is given the number
\* of the steps before it, as its calls are known by their places.
EvaluatingALiteral(b) ==
    <<Evaluate(<<Literal(123)>>), Read(b+1), WaitFor(b+2, 123)>>

AddAndSubtract(b) ==
    <<Operator("ADD"), Operator("SUBTRACT"),
      Evaluate(<<Literal(123), Literal(45), Call(b+1, <<1, 2>>),
                 Literal(67), Call(b+2, <<3, 4>>)>>),
      Read(b+3), WaitFor(b+4, 101)>>

PipeliningEval(b) ==
    <<Operator("ADD"), Operator("MULTIPLY"),
      Evaluate(<<Literal(4), Literal(6), Call(b+2, <<1, 2>>)>>),
      Evaluate(<<PreviousResult(b+3), Literal(3), Call(b+1, <<1, 2>>)>>), Read(b+4),
      Evaluate(<<PreviousResult(b+3), Literal(5), Call(b+1, <<1, 2>>)>>), Read(b+6),
      WaitFor(b+5, 27), WaitFor(b+7, 29)>>

DefiningFunctions(b) ==
    <<Operator("ADD"), Operator("MULTIPLY"),
      DefFunction(2, <<Parameter(0), Literal(100), Call(b+2, <<1, 2>>),
                       Parameter(1), Call(b+1, <<3, 4>>)>>),
      DefFunction(1, <<Parameter(0), Parameter(0), Literal(1), Call(b+1, <<2, 3>>),
                       Call(b+3, <<1, 4>>), Literal(2), Call(b+2, <<5, 6>>)>>),
      Evaluate(<<Literal(12), Literal(34), Call(b+3, <<1, 2>>)>>), Read(b+5),
      Evaluate(<<Literal(21), Call(b+4, <<1>>)>>), Read(b+7),
      WaitFor(b+6, 1234), WaitFor(b+8, 4244)>>

UsingACallback(b) ==
    <<Operator("ADD"),
      Evaluate(<<Literal(2), Literal(4), Literal(5), Call(b+1, <<2, 3>>),
                 Call(Power, <<1, 4>>)>>),
      Read(b+2), WaitFor(b+3, 512)>>

ClientMain ==
    EvaluatingALiteral(0) \o AddAndSubtract(3) \o PipeliningEval(8)
        \o DefiningFunctions(17) \o UsingACallback(27)

-----------------------------------------------------------------------------
VARIABLES
    script,     \* what the client does
    pos,        \* the client's next step
    client,     \* "running", "passed", or "failed" on an exception
    link,       \* the connection
    delivered,  \* the steps whose calls have reached the server
    answer,     \* what each call has returned, on the server
    trees       \* the promises of the evaluations in progress

calcVars == <<script, pos, client, link, delivered, answer, trees>>

\* A promise is pending, broken, or fulfilled with a value; the answer of a call
\* that returns a function is the call's own place.
Pending == [st |-> "pending", val |-> 0]
Broken  == [st |-> "broken", val |-> 0]
Fulfilled(x) == [st |-> "fulfilled", val |-> x]

Steps == DOMAIN script
Calls(do) == {q \in Steps : script[q].do = do}

CalcInit ==
    /\ script \in Scripts
    /\ pos = 1
    /\ client = "running"
    /\ link = "up"
    /\ delivered = 0
    /\ answer = [q \in Steps |-> Pending]
    /\ trees = << >>

-----------------------------------------------------------------------------
(* Arithmetic                                                              *)

Quotient(x, y) ==
    LET wholes == {z \in ((-x)..x) \cup (x..(-x)) : x = y * z}
    IN  IF y # 0 /\ wholes # {} THEN CHOOSE z \in wholes : TRUE ELSE Untracked

\* OperatorImpl::call on two parameters.
Arith(op, x, y) ==
    IF Untracked \in {x, y} THEN Untracked
    ELSE CASE op = "ADD"      -> x + y
           [] op = "SUBTRACT" -> x - y
           [] op = "MULTIPLY" -> x * y
           [] op = "DIVIDE"   -> Quotient(x, y)

Whole(z) == IF z \in Int THEN z ELSE Untracked

\* PowerFunction::call on two parameters.
Pow(x, y) ==
    IF y = 0 THEN 1
    ELSE IF Untracked \in {x, y} \/ y < 0 THEN Untracked ELSE Whole(x ^ y)

-----------------------------------------------------------------------------
(* evaluateImpl.  A tree is known by the call it is for, followed by the   *)
(* nodes at which the functions were called whose body is evaluated.       *)

\* KJ_REQUIRE throws out of evaluateImpl, past the promises made so far.
OutOfRange(sc, q, n) ==
    \E i \in DOMAIN sc[q].code : sc[q].code[i].kind = "parameter" /\ sc[q].code[i].idx >= n

\* The promises evaluateImpl(sc[q].code, params) makes, those for all of its
\* subexpressions. Parameters are read here and not later, when params may be gone.
EvaluateImpl(q, params) ==
    LET code == script[q].code
    IN  [of |-> q,
         res |-> [i \in DOMAIN code |->
                    CASE code[i].kind = "literal"   -> Fulfilled(code[i].val)
                      [] code[i].kind = "parameter" -> Fulfilled(params[code[i].idx + 1])
                      [] OTHER                      -> Pending],
         called |-> {}]

\* The trees f, and one more.
With(f, t, tree) == [u \in DOMAIN f \cup {t} |-> IF u = t THEN tree ELSE f[u]]

\* u is t, or for a function called on the way to t.
Below(u, t) == Len(t) <= Len(u) /\ \A k \in 1..Len(t) : u[k] = t[k]

\* Node i of tree t gets its result: the promises it was made of are gone.
Resolve(t, i, r) ==
    /\ trees' = [u \in {v \in DOMAIN trees : ~Below(v, Append(t, i))} |->
                    IF u = t THEN [trees[t] EXCEPT !.res[i] = r] ELSE trees[u]]
    /\ UNCHANGED <<script, pos, client, link, delivered, answer>>

Nodes(t) == DOMAIN trees[t].res
Node(t, i) == script[trees[t].of].code[i]

PendingOf(t, kind) == {i \in Nodes(t) : Node(t, i).kind = kind /\ trees[t].res[i] = Pending}

\* Seeded bug: the parameters are joined back to front.
ParamsReversed(t, i) ==
    LET ps == Node(t, i).params
    IN  [k \in 1..Len(ps) |-> trees[t].res[ps[Len(ps) + 1 - k]]]

\* What has become of the parameters of the call at node i.
Params(t, i) == [k \in 1..Len(Node(t, i).params) |-> trees[t].res[Node(t, i).params[k]]]

Values(t, i) == [k \in DOMAIN Params(t, i) |-> Params(t, i)[k].val]
Some(t, i, st) == \E k \in DOMAIN Params(t, i) : Params(t, i)[k].st = st

\* The calls whose function has not been called.
Joining(t) == PendingOf(t, "call") \ trees[t].called

\* Seeded bug: the first parameter to be there completes the join.
JoinedByFirst(t) == {i \in Joining(t) : Some(t, i, "fulfilled") /\ ~Some(t, i, "broken")}

\* Those whose parameters have all arrived, and can be passed to it.
Joined(t) == {i \in Joining(t) : ~Some(t, i, "pending") /\ ~Some(t, i, "broken")}

-----------------------------------------------------------------------------
(* The server's objects.  Calls reach it in the order they were made, and  *)
(* one on a result that is not there yet is kept until it is.              *)

Arrives(do) ==
    /\ link = "up"
    /\ delivered + 1 < pos
    /\ script[delivered + 1].do \in do
    /\ delivered' = delivered + 1
    /\ UNCHANGED <<script, pos, client, link>>

\* CalculatorImpl::getOperator and defFunction.
FunctionMade ==
    /\ Arrives({"getOperator", "defFunction"})
    /\ answer' = [answer EXCEPT ![delivered + 1] = Fulfilled(delivered + 1)]
    /\ UNCHANGED trees

\* CalculatorImpl::evaluate, up to its promise.
EvaluateArrives ==
    /\ Arrives({"evaluate"})
    /\ LET q == delivered + 1
       IN  IF OutOfRange(script, q, 0)
           THEN answer' = [answer EXCEPT ![q] = Broken] /\ UNCHANGED trees
           ELSE /\ trees' = With(trees, <<q>>, EvaluateImpl(q, << >>))
                /\ UNCHANGED answer

ReadArrives == Arrives({"read", "wait"}) /\ UNCHANGED <<answer, trees>>

\* The rest of evaluate: the value is wrapped in a ValueImpl.
EvaluateReturns(q) ==
    /\ <<q>> \in DOMAIN trees
    /\ LET r == trees[<<q>>].res[Len(script[q].code)]
       IN  r # Pending /\ answer' = [answer EXCEPT ![q] = r]
    /\ trees' = [u \in {v \in DOMAIN trees : ~Below(v, <<q>>)} |-> trees[u]]
    /\ UNCHANGED <<script, pos, client, link, delivered>>

\* ValueImpl::read, once the evaluate it is called on has returned.
ReadValue(q) ==
    /\ link = "up"
    /\ q <= delivered
    /\ script[q].do = "read"
    /\ answer[q] = Pending
    /\ answer[script[q].of] # Pending
    /\ answer' = [answer EXCEPT ![q] = answer[script[q].of]]
    /\ UNCHANGED <<script, pos, client, link, delivered, trees>>

\* Seeded bug: the value is taken from the client, which must have it first.
ReadPreviousUnpipelined(t, i) ==
    /\ i \in PendingOf(t, "previousResult")
    /\ answer[Node(t, i).of] # Pending
    /\ \E q \in 1..(pos - 1) : script[q].do = "wait"
                                /\ script[script[q].of].of = Node(t, i).of
    /\ Resolve(t, i, answer[Node(t, i).of])

\* readValue of the result of an earlier evaluate.
ReadPrevious(t, i) ==
    /\ i \in PendingOf(t, "previousResult")
    /\ answer[Node(t, i).of] # Pending
    /\ Resolve(t, i, answer[Node(t, i).of])

\* A call of which a parameter is broken is broken, when all have arrived.
CallBreaks(t, i) ==
    /\ i \in Joining(t)
    /\ ~Some(t, i, "pending")
    /\ Some(t, i, "broken")
    /\ Resolve(t, i, Broken)

\* OperatorImpl::call.
CallOperator(t, i) ==
    /\ i \in Joined(t)
    /\ Node(t, i).fn \in Calls("getOperator")
    /\ LET xs == Values(t, i)
       IN  Resolve(t, i, IF Len(xs) = 2
                         THEN Fulfilled(Arith(script[Node(t, i).fn].op, xs[1], xs[2])) ELSE Broken)

\* FunctionImpl::call: the body is evaluated with the parameters.
CallFunction(t, i) ==
    /\ i \in Joined(t)
    /\ Node(t, i).fn \in Calls("defFunction")
    /\ LET q == Node(t, i).fn
           xs == Values(t, i)
       IN  IF Len(xs) # script[q].paramCount \/ OutOfRange(script, q, Len(xs))
           THEN Resolve(t, i, Broken)
           ELSE /\ trees' = With([trees EXCEPT ![t].called = @ \cup {i}],
                                 Append(t, i), EvaluateImpl(q, xs))
                /\ UNCHANGED <<script, pos, client, link, delivered, answer>>

FunctionReturns(t, i) ==
    /\ i \in PendingOf(t, "call")
    /\ Append(t, i) \in DOMAIN trees
    /\ LET r == trees[Append(t, i)].res[Len(script[Node(t, i).fn].code)]
       IN  r # Pending /\ Resolve(t, i, r)

\* The function is the client's: the call goes out to it.
CallBack(t, i) ==
    /\ i \in Joined(t)
    /\ Node(t, i).fn = Power
    /\ trees' = [trees EXCEPT ![t].called = @ \cup {i}]
    /\ UNCHANGED <<script, pos, client, link, delivered, answer>>

CalledBack(t) == {i \in PendingOf(t, "call") : i \in trees[t].called /\ Node(t, i).fn = Power}

Server ==
    \/ FunctionMade \/ EvaluateArrives \/ ReadArrives
    \/ \E q \in Steps : EvaluateReturns(q) \/ ReadValue(q)
    \/ \E t \in DOMAIN trees : \E i \in Nodes(t) :
        \/ ReadPrevious(t, i) \/ CallBreaks(t, i) \/ CallOperator(t, i)
        \/ CallFunction(t, i) \/ FunctionReturns(t, i) \/ CallBack(t, i)

-----------------------------------------------------------------------------
(* The client                                                              *)

Running == client = "running" /\ pos \in Steps
Waiting == Running /\ script[pos].do = "wait"

\* The requests up to the next wait are sent without blocking.
Send ==
    /\ Running
    /\ ~Waiting
    /\ pos' = pos + 1
    /\ UNCHANGED <<script, client, link, delivered, answer, trees>>

\* Seeded bug: the client's event loop runs only while it does not wait.
PowerFunctionBusy(t, i) ==
    /\ Running /\ ~Waiting
    /\ link = "up"
    /\ i \in CalledBack(t)
    /\ LET xs == Values(t, i)
       IN  Resolve(t, i, IF Len(xs) = 2 THEN Fulfilled(Pow(xs[1], xs[2])) ELSE Broken)

\* PowerFunction::call, and its result's way back. The client's event loop,
\* which calls it, runs only while the client waits.
PowerFunction(t, i) ==
    /\ Waiting
    /\ link = "up"
    /\ i \in CalledBack(t)
    /\ LET xs == Values(t, i)
       IN  Resolve(t, i, IF Len(xs) = 2 THEN Fulfilled(Pow(xs[1], xs[2])) ELSE Broken)

\* promise.wait returns; then the KJ_ASSERT on the value.
WaitReturns ==
    /\ Waiting
    /\ answer[script[pos].of].st = "fulfilled"
    /\ IF answer[script[pos].of].val = script[pos].is
       THEN pos' = pos + 1 /\ UNCHANGED client
       ELSE client' = "failed" /\ UNCHANGED pos
    /\ UNCHANGED <<script, link, delivered, answer, trees>>

\* promise.wait throws what broke the promise.
WaitThrows ==
    /\ Waiting
    /\ answer[script[pos].of] = Broken \/ link = "down"
    /\ client' = "failed"
    /\ UNCHANGED <<script, pos, link, delivered, answer, trees>>

MainReturns ==
    /\ client = "running"
    /\ pos \notin Steps
    /\ client' = "passed"
    /\ UNCHANGED <<script, pos, link, delivered, answer, trees>>

ClientRuns ==
    \/ Send \/ WaitReturns \/ WaitThrows \/ MainReturns
    \/ \E t \in DOMAIN trees : \E i \in Nodes(t) : PowerFunction(t, i)

\* The connection breaks, or ends with the client; the server drops the
\* evaluations of its calls.
Disconnect ==
    /\ link = "up"
    /\ Faults \/ client # "running"
    /\ link' = "down"
    /\ trees' = << >>
    /\ UNCHANGED <<script, pos, client, delivered, answer>>

CalcEnded == client # "running" /\ link = "down" /\ UNCHANGED calcVars

CalcNext == Server \/ ClientRuns \/ Disconnect \/ CalcEnded

CalcSpec == CalcInit /\ [][CalcNext]_calcVars

\* The event loop of the server runs what is ready; nothing is assumed of
\* the client.
CalcFairSpec == CalcSpec /\ WF_calcVars(Server)

-----------------------------------------------------------------------------
(* The reference: an expression has a value, or none, by itself.           *)

\* Where a value comes from: a node of a step's expression, with parameters.
Occurrence(sc) ==
    {o \in [of : Nat, node : Nat, params : Seq(Number)] :
        o.of \in DOMAIN sc /\ sc[o.of].do \in {"evaluate", "defFunction"}
            /\ o.node \in DOMAIN sc[o.of].code}

At(q, i, xs) == [of |-> q, node |-> i, params |-> xs]
Root(sc, q, xs) == At(q, Len(sc[q].code), xs)

\* The value of a call of f, given those of its parameters.
CallBy(sc, value, f, args) ==
    LET xs == [k \in 1..Len(args) |-> args[k].val]
    IN  IF \E k \in 1..Len(args) : args[k] = Broken THEN Broken
        ELSE IF f # Power /\ sc[f].do = "defFunction"
             THEN IF Len(xs) = sc[f].paramCount THEN value[Root(sc, f, xs)] ELSE Broken
        ELSE IF Len(xs) # 2 THEN Broken
        ELSE Fulfilled(IF f = Power THEN Pow(xs[1], xs[2]) ELSE Arith(sc[f].op, xs[1], xs[2]))

\* The value of an occurrence, given those of what it refers to.
ValueBy(sc, value, o) ==
    LET e == sc[o.of].code[o.node]
    IN  CASE e.kind = "literal" -> Fulfilled(e.val)
          [] e.kind = "previousResult" -> value[Root(sc, e.of, << >>)]
          [] e.kind = "parameter" ->
                IF e.idx < Len(o.params) THEN Fulfilled(o.params[e.idx + 1]) ELSE Broken
          [] e.kind = "call" ->
                CallBy(sc, value, e.fn,
                       [k \in 1..Len(e.params) |-> value[At(o.of, e.params[k], o.params)]])

ValueOf(sc, p) ==
    LET value[o \in Occurrence(sc)] == ValueBy(sc, value, o) IN value[p]

\* What the evaluate at step q is worth.
Worth(sc, q) == ValueOf(sc, Root(sc, q, << >>))

\* The client's assertions are right about its expressions.
ASSUME ExpectationAssumption ==
    \A sc \in Scripts : \A q \in DOMAIN sc :
        sc[q].do = "wait" => Worth(sc, sc[sc[q].of].of) \in {Broken, Fulfilled(sc[q].is)}

-----------------------------------------------------------------------------
(* Properties                                                              *)

CalcTypeOK ==
    /\ pos \in 1..(Len(script) + 1)
    /\ client \in {"running", "passed", "failed"}
    /\ link \in {"up", "down"}
    /\ delivered \in 0..(pos - 1)
    /\ \A q \in Steps : answer[q].st \in {"pending", "fulfilled", "broken"}
    /\ \A t \in DOMAIN trees : t[1] \in Calls("evaluate")

\* Whatever the order in which promises are resolved, calls arrive and
\* connections break: what a read returns is the value of its expression,
\* and a read is broken only if its expression has none, so one that fails
\* leaves the others alone.
ReadsAreRight ==
    \A q \in Calls("read") : answer[q] \in {Pending, Worth(script, script[q].of)}

\* The client's assertions hold: it fails only if the connection breaks, or
\* on waiting for an expression that has no value.
AssertionsHold ==
    client = "failed" =>
        \/ link = "down"
        \/ Worth(script, script[script[pos].of].of) = Broken

Answered(q) == q \in Steps /\ answer[q] # Pending

\* The comments on round trips: once its requests are sent, a read is
\* answered with nothing more from the client, but for a call back to it.
OneRoundTrip ==
    \A sc \in Scripts : \A q \in {p \in DOMAIN sc : sc[p].do = "read"} :
        script = sc /\ pos > q ~>
            (Answered(q) \/ link = "down" \/ \E t \in DOMAIN trees : CalledBack(t) # {})

\* If its own thread runs, too, a client that waits is answered, called back
\* or told, and ends.
ClientEnds == WF_calcVars(ClientRuns) => <>(client # "running")

-----------------------------------------------------------------------------
(* The inductive invariant: the promises are right where they are.         *)

\* Where the function was called whose body is evaluated by t, and with what.
Caller(t) == SubSeq(t, 1, Len(t) - 1)
Site(t) == t[Len(t)]
Given(t) == IF Len(t) = 1 THEN << >> ELSE Values(Caller(t), Site(t))

\* The parameters of the call at node i of t are all there.
CanBeCalled(t, i) ==
    /\ i \in Nodes(t)
    /\ Node(t, i).kind = "call"
    /\ \A k \in 1..Len(Node(t, i).params) : Params(t, i)[k].st = "fulfilled"

\* A tree is of an evaluate, or of a function that was called, with parameters
\* that are all there, and what is there of it is right.
TreeOK(t) ==
    /\ t \in Seq(Nat) /\ t # << >>
    /\ t[1] \in 1..delivered /\ script[t[1]].do = "evaluate"
    /\ trees[t] = [of |-> trees[t].of, res |-> trees[t].res, called |-> trees[t].called]
    /\ IF Len(t) = 1 THEN trees[t].of = t[1]
       ELSE /\ Caller(t) \in DOMAIN trees /\ Site(t) \in trees[Caller(t)].called
            /\ Node(Caller(t), Site(t)).fn = trees[t].of
            /\ trees[t].of \in Calls("defFunction")
            /\ Len(Given(t)) = script[trees[t].of].paramCount
    /\ Given(t) \in Seq(Number)
    /\ Nodes(t) = DOMAIN script[trees[t].of].code
    /\ \A i \in trees[t].called : CanBeCalled(t, i)
    /\ \A i \in Nodes(t) :
          trees[t].res[i] \in {Pending, ValueOf(script, At(trees[t].of, i, Given(t)))}

StepsInv ==
    /\ script \in Scripts
    /\ pos \in 1..(Len(script) + 1)
    /\ client \in {"running", "passed", "failed"}
    /\ link \in {"up", "down"}
    /\ delivered \in 0..(pos - 1)

AnswersInv ==
    /\ DOMAIN answer = Steps
    /\ \A q \in Steps : answer[q].st \in {"pending", "fulfilled", "broken"}
    /\ \A q \in Calls("evaluate") : answer[q] \in {Pending, Worth(script, q)}

TreesInv == \A t \in DOMAIN trees : TreeOK(t)

CalcIInv == StepsInv /\ AnswersInv /\ ReadsAreRight /\ TreesInv /\ AssertionsHold

=============================================================================
