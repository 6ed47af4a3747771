----------------------------- MODULE RunTransports -----------------------------
(***************************************************************************)
(* The script run_transports.py: for each transport it starts an rt_server *)
(* on the one port, runs an echo client as a sanity test, and stops the    *)
(* server; the same again with a client for every block size (or count),   *)
(* whose output is appended to the transport's file; then it parses the    *)
(* files and draws the graphs.                                             *)
(*                                                                         *)
(* Popen and terminate do not wait: a server listens some time after it    *)
(* was started and goes some time after it was told to.  How the client of *)
(* a transport fares on a server is left to the transports' own modules;   *)
(* here it passes, or ends having written part of its output.              *)
(***************************************************************************)
EXTENDS Integers, Sequences, SequencesExt

CONSTANTS
    Transports,     \* args.transports, a sequence
    Keys,           \* args.block_size or args.block_count, whichever has several
    SharesPort,     \* the transports whose servers listen with SO_REUSEPORT
    Faults          \* whether programs may fail by themselves

ASSUME RunTransportsAssumption ==
    /\ Keys \in Seq(Nat) /\ Keys # << >>
    /\ Transports \in Seq(STRING) /\ Transports # << >>
    /\ Faults \in BOOLEAN

VARIABLES
    phase,      \* "echo" (run_echo_test), "tests" (run_tests), "graphs" (the files
                \* are parsed), "drawing", "done", "raised"
    step,       \* in a turn of their loops: "start", "run", "stop", "raising"
    t,          \* the turn: the index of its transport
    key,        \* the index of the value run_client is at
    runs,       \* the clients run_client has run
    servers,    \* all rt_server processes, in the order they were started
    files,      \* the lines of client_out_<transport>.txt
    read,       \* the lines parse_file has read
    parser,     \* its variables
    graph       \* transport_data

graphVars == <<read, parser, graph>>
vars == <<phase, step, t, key, runs, servers, files, graphVars>>

Used == {Transports[i] : i \in DOMAIN Transports}

\* A process: its transport, whether it was told to end, and whether a client
\* of its transport has passed on it.
Started(tr) == [transport |-> tr, st |-> "starting", term |-> FALSE, served |-> FALSE]

Listening == {i \in DOMAIN servers : servers[i].st = "listening"}

\* parse_file's variables before its loop: s is None, and stats is empty.
None == [key |-> -1, tput |-> 0, lat |-> 0]
Parser == [s |-> None, stats |-> << >>, raised |-> FALSE]

Init ==
    /\ phase = "echo"
    /\ step = "start"
    /\ t = 1
    /\ key = 1
    /\ runs = 0
    /\ servers = << >>
    /\ files = [tr \in Used |-> << >>]
    /\ read = 0
    /\ parser = Parser
    /\ graph = << >>

-----------------------------------------------------------------------------
(* What a client prints, and what parse_file makes of it.  The numbers of  *)
(* a run are known by the run (0 is None).  A pattern matches a line only  *)
(* if average and deviation are both printed with a decimal point, and     *)
(* cout prints a whole number, such as the deviation of one operation,     *)
(* without.                                                                *)

Line(kind, k, r, decimal) == [kind |-> kind, key |-> k, run |-> r, decimal |-> decimal]

Passes(k, r) ==
    {<<Line("header", k, r, FALSE), Line("tput", k, r, a), Line("lat", k, r, b),
       Line("passed", k, r, FALSE)>> : a, b \in BOOLEAN}

Fails(k, r) == {SubSeq(out, 1, n) : out \in Passes(k, r), n \in 0..3}

Put(f, k, v) == [x \in DOMAIN f \cup {k} |-> IF x = k THEN v ELSE f[x]]

\* The pattern of its kind matches the line.
Matches(line) == line.kind \in {"header", "passed"} \/ line.decimal

\* Seeded bug: a header that follows a run which did not pass is not used.
ParseLineHeaderLate(p, line) ==
    IF ~Matches(line) THEN p
    ELSE IF line.kind = "header"
         THEN IF p.s = None THEN [p EXCEPT !.s = [None EXCEPT !.key = line.key]] ELSE p
    ELSE IF p.s = None THEN [p EXCEPT !.raised = TRUE]
    ELSE IF line.kind = "passed"
         THEN [p EXCEPT !.stats = Put(@, p.s.key, p.s), !.s = None]
    ELSE [p EXCEPT !.s[line.kind] = line.run]

\* Seeded bug: the points are told apart by the option that has one value.
ParseLineOtherKey(p, line) ==
    IF ~Matches(line) THEN p
    ELSE IF line.kind = "header" THEN [p EXCEPT !.s = [None EXCEPT !.key = line.key]]
    ELSE IF p.s = None THEN [p EXCEPT !.raised = TRUE]
    ELSE IF line.kind = "passed"
         THEN [p EXCEPT !.stats = Put(@, Keys[1], p.s), !.s = None]
    ELSE [p EXCEPT !.s[line.kind] = line.run]

\* A turn of parse_file's loop: s is the run being read, stats the result.
\* Anything but a header with no header before it raises an AttributeError.
ParseLine(p, line) ==
    IF ~Matches(line) THEN p
    ELSE IF line.kind = "header" THEN [p EXCEPT !.s = [None EXCEPT !.key = line.key]]
    ELSE IF p.s = None THEN [p EXCEPT !.raised = TRUE]
    ELSE IF line.kind = "passed"
         THEN [p EXCEPT !.stats = Put(@, p.s.key, p.s), !.s = None]
    ELSE [p EXCEPT !.s[line.kind] = line.run]

-----------------------------------------------------------------------------
(* The servers: processes that run beside the script.                      *)

\* The port can be had by a server if those that listen share it with it.
CanBind(i) ==
    \A j \in Listening : {servers[i].transport, servers[j].transport} \subseteq SharesPort

ServerListens(i) ==
    /\ servers[i].st = "starting"
    /\ servers' = [servers EXCEPT ![i].st = IF CanBind(i) THEN "listening" ELSE "gone"]
    /\ UNCHANGED <<phase, step, t, key, runs, files, graphVars>>

\* SIGTERM takes effect, or the process ends of itself.
ServerGoes(i) ==
    /\ servers[i].st # "gone"
    /\ servers[i].term \/ Faults
    /\ servers' = [servers EXCEPT ![i].st = "gone"]
    /\ UNCHANGED <<phase, step, t, key, runs, files, graphVars>>

-----------------------------------------------------------------------------
(* The script                                                              *)

Transport == Transports[t]
InLoop == phase \in {"echo", "tests"}

\* start_server: Popen, which raises when there is no such program.
StartServer ==
    /\ InLoop /\ step = "start"
    /\ \/ /\ servers' = Append(servers, Started(Transport))
          /\ step' = "run"
          /\ key' = 1
          /\ UNCHANGED phase
       \/ /\ Faults
          /\ phase' = "raised"
          /\ UNCHANGED <<servers, step, key>>
    /\ UNCHANGED <<t, runs, files, graphVars>>

\* A client passes on a server of its transport that listens.
PassesOn(i) ==
    /\ i \in Listening
    /\ servers[i].transport = Transport
    /\ servers' = [servers EXCEPT ![i].served = TRUE]

\* It does not on another's, or when nobody listens.
ClientFails ==
    /\ \/ Faults
       \/ Listening = {}
       \/ \E i \in Listening : servers[i].transport # Transport
    /\ UNCHANGED servers

\* Seeded bug: run_echo_client does not look for "Test passed".
RunEchoClientAnyhow ==
    /\ phase = "echo" /\ step = "run"
    /\ \/ \E i \in DOMAIN servers : PassesOn(i)
       \/ ClientFails
    /\ step' = "stop"
    /\ UNCHANGED <<phase, t, key, runs, files, graphVars>>

\* run_echo_client: a test that does not pass, or cannot be run, raises.
RunEchoClient ==
    /\ phase = "echo" /\ step = "run"
    /\ \/ /\ \E i \in DOMAIN servers : PassesOn(i)
          /\ step' = "stop"
       \/ ClientFails /\ step' = "raising"
    /\ UNCHANGED <<phase, t, key, runs, files, graphVars>>

\* A turn of run_client's loop. The client's exit status is not looked at.
RunClient ==
    /\ phase = "tests" /\ step = "run"
    /\ \E out \in Passes(Keys[key], runs + 1) \cup Fails(Keys[key], runs + 1) :
        /\ IF Last(<<Line("none", 0, 0, FALSE)>> \o out).kind = "passed"
           THEN \E i \in DOMAIN servers : PassesOn(i)
           ELSE ClientFails
        /\ files' = [files EXCEPT ![Transport] = @ \o out]
    /\ runs' = runs + 1
    /\ IF key = Len(Keys) THEN step' = "stop" /\ UNCHANGED key
                          ELSE key' = key + 1 /\ UNCHANGED step
    /\ UNCHANGED <<phase, t, graphVars>>

\* subprocess.run or open raises in run_client.
RunClientRaises ==
    /\ phase = "tests" /\ step = "run"
    /\ Faults
    /\ step' = "raising"
    /\ UNCHANGED <<phase, t, key, runs, servers, files, graphVars>>

\* Seeded bug: stop_server is not in a finally.
StopServerUnlessRaising ==
    /\ InLoop /\ step \in {"stop", "raising"}
    /\ servers' = [servers EXCEPT ![Len(servers)].term = (step = "stop")]
    /\ step' = "start"
    /\ IF step = "raising" THEN phase' = "raised" /\ UNCHANGED t
       ELSE IF t < Len(Transports) THEN t' = t + 1 /\ UNCHANGED phase
       ELSE t' = 1 /\ phase' = IF phase = "echo" THEN "tests" ELSE "graphs"
    /\ UNCHANGED <<key, runs, files, graphVars>>

\* finally: stop_server; then the next turn, the next loop, or out with it.
StopServer ==
    /\ InLoop /\ step \in {"stop", "raising"}
    /\ servers' = [servers EXCEPT ![Len(servers)].term = TRUE]
    /\ step' = "start"
    /\ IF step = "raising" THEN phase' = "raised" /\ UNCHANGED t
       ELSE IF t < Len(Transports) THEN t' = t + 1 /\ UNCHANGED phase
       ELSE t' = 1 /\ phase' = IF phase = "echo" THEN "tests" ELSE "graphs"
    /\ UNCHANGED <<key, runs, files, graphVars>>

\* generate_graphs parses the file of each transport, line by line ...
ParseNext ==
    /\ phase = "graphs"
    /\ read < Len(files[Transport])
    /\ read' = read + 1
    /\ parser' = ParseLine(parser, files[Transport][read + 1])
    /\ phase' = IF parser'.raised THEN "raised" ELSE phase
    /\ UNCHANGED <<step, t, key, runs, servers, files, graph>>

\* ... keeps what parse_file has returned ...
ParseEnds ==
    /\ phase = "graphs"
    /\ read = Len(files[Transport])
    /\ graph' = Put(graph, Transport, parser.stats)
    /\ read' = 0
    /\ parser' = Parser
    /\ IF t < Len(Transports) THEN t' = t + 1 /\ UNCHANGED phase
                              ELSE phase' = "drawing" /\ UNCHANGED t
    /\ UNCHANGED <<step, key, runs, servers, files>>

\* Every point has its numbers: errorbar raises on a None.
Drawable ==
    \A tr \in DOMAIN graph : \A k \in DOMAIN graph[tr] :
        0 \notin {graph[tr][k].tput, graph[tr][k].lat}

\* ... and draws all of it, transport by transport; the file is written last.
Draw ==
    /\ phase = "drawing"
    /\ phase' = IF Drawable THEN "done" ELSE "raised"
    /\ UNCHANGED <<step, t, key, runs, servers, files, graphVars>>

Ended ==
    /\ phase \in {"done", "raised"}
    /\ \A i \in DOMAIN servers : servers[i].st = "gone"
    /\ UNCHANGED vars

Next ==
    \/ \E i \in DOMAIN servers : ServerListens(i) \/ ServerGoes(i)
    \/ StartServer \/ RunEchoClient \/ RunClient \/ RunClientRaises
    \/ StopServer \/ ParseNext \/ ParseEnds \/ Draw \/ Ended

Spec == Init /\ [][Next]_vars

-----------------------------------------------------------------------------
(* Properties                                                              *)

TypeOK ==
    /\ phase \in {"echo", "tests", "graphs", "drawing", "done", "raised"}
    /\ step \in {"start", "run", "stop", "raising"}
    /\ t \in DOMAIN Transports
    /\ key \in DOMAIN Keys
    /\ runs \in Nat
    /\ \A i \in DOMAIN servers :
        servers[i] \in [transport : Used, st : {"starting", "listening", "gone"},
                        term : BOOLEAN, served : BOOLEAN]
    /\ DOMAIN files = Used
    /\ read \in Nat
    /\ parser.raised \in BOOLEAN

\* However the script ends, by an exception too, and between two turns, it
\* has told every server it started to end (or the server has ended).
NoServerLeft ==
    step = "start" \/ ~InLoop =>
        \A i \in DOMAIN servers : servers[i].term \/ servers[i].st = "gone"

\* A transport is measured only if an echo was answered by a server of that
\* transport, although servers of others may still be there.
TestedTransportsEcho ==
    phase \in {"tests", "graphs", "drawing", "done"} =>
        \A tr \in Used : \E i \in DOMAIN servers :
            servers[i].transport = tr /\ servers[i].served

\* Line l of a transport's file ends a run that passed, the last with its value.
LastPassed(tr, l) ==
    /\ files[tr][l].kind = "passed"
    /\ ~\E m \in DOMAIN files[tr] :
          m > l /\ files[tr][m].kind = "passed" /\ files[tr][m].key = files[tr][l].key

\* A point that is drawn has both numbers of one run of its transport and its
\* value that passed, whatever the runs before it left in the file; and
\* parse_file does not raise.
PointsAreOwn ==
    /\ phase = "done" => \A tr \in Used : \A k \in DOMAIN graph[tr] :
        \E l \in DOMAIN files[tr] :
            /\ files[tr][l].kind = "passed" /\ files[tr][l].key = k
            /\ graph[tr][k] = [key |-> k, tput |-> files[tr][l].run,
                                         lat |-> files[tr][l].run]
    /\ ~parser.raised

\* When the graphs are drawn, the last run with a value that passed is on them
\* with the numbers it printed, whatever runs were cut off before or behind it.
PassedRunsAreGraphed ==
    phase = "done" =>
        \A tr \in Used : \A l \in DOMAIN files[tr] : LastPassed(tr, l) =>
            /\ files[tr][l].key \in DOMAIN graph[tr]
            /\ graph[tr][files[tr][l].key].tput = files[tr][l].run
            /\ graph[tr][files[tr][l].key].lat = files[tr][l].run

-----------------------------------------------------------------------------
(* The inductive invariant behind what is graphed                          *)

LineType == [kind : {"header", "tput", "lat", "passed"}, key : Nat, run : Nat,
             decimal : BOOLEAN]

\* What client writes before a line of this kind.
Before(kind) ==
    IF kind = "tput" THEN "header" ELSE IF kind = "lat" THEN "tput" ELSE "lat"

\* File f holds runs with the numbers 1 to n, one behind the other, each of them
\* from its header on and up to where it was cut off.
HoldsRuns(f, n) ==
    \A j \in 1..Len(f) :
        /\ f[j].run \in 1..n
        /\ f[j].kind \in {"header", "passed"} => ~f[j].decimal
        /\ f[j].kind # "header" =>
              /\ j > 1
              /\ f[j - 1].kind = Before(f[j].kind)
              /\ f[j - 1].key = f[j].key
              /\ f[j - 1].run = f[j].run
        /\ \A i \in 1..(j - 1) :
              IF f[j].kind = "header" THEN f[i].run < f[j].run ELSE f[i].run <= f[j].run

\* The number that is read on a line; 0 is None.
Number(line) == IF line.decimal THEN line.run ELSE 0

\* The numbers of the run of line n of file f, up to that line.
RunStats(f, n) ==
    [key |-> f[n].key,
     tput |-> IF f[n].kind = "header" THEN 0 ELSE
              IF f[n].kind = "tput" THEN Number(f[n]) ELSE
              IF f[n].kind = "lat" THEN Number(f[n - 1]) ELSE Number(f[n - 2]),
     lat |-> IF f[n].kind \in {"header", "tput"} THEN 0 ELSE
             IF f[n].kind = "lat" THEN Number(f[n]) ELSE Number(f[n - 1])]

\* stats has the numbers of the last run that passed in the first n lines, for
\* each value with which one did.
Drawn(f, n, stats) ==
    /\ \A k \in DOMAIN stats : \E l \in 1..n :
          /\ f[l].kind = "passed" /\ f[l].key = k
          /\ \A m \in (l + 1)..n : ~(f[m].kind = "passed" /\ f[m].key = k)
          /\ stats[k] = RunStats(f, l)
    /\ \A l \in 1..n : f[l].kind = "passed" => f[l].key \in DOMAIN stats

\* What parse_file has made of the lines it has read.
ParserInv ==
    /\ read \in 0..Len(files[Transport])
    /\ parser.s = IF read = 0 \/ files[Transport][read].kind = "passed"
                  THEN None ELSE RunStats(files[Transport], read)
    /\ Drawn(files[Transport], read, parser.stats)

GraphInv ==
    /\ read \in Nat
    /\ InLoop => read = 0 /\ parser = Parser /\ graph = << >>
    /\ phase = "graphs" => ParserInv /\ DOMAIN graph = {Transports[i] : i \in 1..(t - 1)}
    /\ phase \in {"drawing", "done"} => DOMAIN graph = Used
    /\ phase = "done" => Drawable
    /\ phase \in {"graphs", "drawing", "done"} =>
          \A tr \in DOMAIN graph : Drawn(files[tr], Len(files[tr]), graph[tr])
    /\ parser = [s |-> parser.s, stats |-> parser.stats, raised |-> FALSE]

FilesInv ==
    /\ files \in [Used -> Seq(LineType)]
    /\ \A tr \in Used : HoldsRuns(files[tr], runs)
    /\ GraphInv

=============================================================================
