------------------------- MODULE RunTransports_proofs -------------------------
(***************************************************************************)
(* Proofs about RunTransports: whatever fails, no server is left running,  *)
(* and nothing is measured of a transport whose echo was not answered.     *)
(***************************************************************************)
EXTENDS RunTransports, TLAPS

Server == [transport : Used, st : {"starting", "listening", "gone"},
           term : BOOLEAN, served : BOOLEAN]

\* The server was told to end, or has ended.
Over(s) == s.term \/ s.st = "gone"

\* An echo over transport tr has been answered.
Echoed(tr) == \E i \in DOMAIN servers : servers[i].transport = tr /\ servers[i].served

\* The types of the script's variables.
ScriptType ==
    /\ phase \in {"echo", "tests", "graphs", "drawing", "done", "raised"}
    /\ step \in {"start", "run", "stop", "raising"}
    /\ t \in 1..Len(Transports)
    /\ key \in 1..Len(Keys)
    /\ runs \in Nat
    /\ DOMAIN files = Used

\* Between two turns every server is over; in a turn, all but the last.
OneServer ==
    IF InLoop /\ step # "start"
    THEN servers # << >> /\ \A i \in 1..(Len(servers) - 1) : Over(servers[i])
    ELSE \A i \in 1..Len(servers) : Over(servers[i])

\* The transports whose echo tests are behind the script have passed them.
EchoSoFar ==
    /\ phase = "echo" =>
        /\ \A i \in 1..(t - 1) : Echoed(Transports[i])
        /\ step = "stop" => Echoed(Transport)
    /\ phase \in {"tests", "graphs", "drawing", "done"} => \A tr \in Used : Echoed(tr)

IInv == ScriptType /\ servers \in Seq(Server) /\ OneServer /\ EchoSoFar

LEMMA Arguments ==
    /\ Len(Transports) \in Nat \ {0} /\ DOMAIN Transports = 1..Len(Transports)
    /\ Len(Keys) \in Nat \ {0} /\ DOMAIN Keys = 1..Len(Keys)
    /\ Used = {Transports[i] : i \in 1..Len(Transports)}
BY RunTransportsAssumption DEF Used

LEMMA InitIInv == Init => IInv
<1> SUFFICES ASSUME Init
             PROVE  IInv
  OBVIOUS
<1>1. ScriptType
  BY Arguments DEF Init, ScriptType
<1>2. servers \in Seq(Server) /\ Len(servers) = 0
  BY DEF Init
<1> QED BY <1>1, <1>2 DEF Init, IInv, OneServer, EchoSoFar, InLoop

-----------------------------------------------------------------------------
(* What a step may do to the servers                                       *)

\* The servers there were are still there; what is over or has answered an
\* echo stays so.
Kept ==
    /\ servers' \in Seq(Server)
    /\ Len(servers') >= Len(servers)
    /\ \A i \in 1..Len(servers) :
        /\ servers'[i].transport = servers[i].transport
        /\ servers[i].served => servers'[i].served
        /\ Over(servers[i]) => Over(servers'[i])

LEMMA KeptEchoed ==
    ASSUME servers \in Seq(Server), Kept, NEW tr, Echoed(tr)
    PROVE  Echoed(tr)'
<1>1. PICK i \in 1..Len(servers) : servers[i].transport = tr /\ servers[i].served
  BY DEF Echoed
<1>2. i \in DOMAIN servers' /\ servers'[i].transport = tr /\ servers'[i].served
  BY <1>1 DEF Kept
<1> QED BY <1>2 DEF Echoed

\* One server among them changes.
LEMMA KeptByUpdate ==
    ASSUME servers \in Seq(Server), NEW i \in 1..Len(servers), NEW s \in Server,
           servers' = [servers EXCEPT ![i] = s],
           s.transport = servers[i].transport,
           servers[i].served => s.served,
           Over(servers[i]) => Over(s)
    PROVE  Kept /\ Len(servers') = Len(servers)
BY DEF Kept

\* A client passes on a server.
LEMMA KeptByPass ==
    ASSUME servers \in Seq(Server), NEW i \in DOMAIN servers, PassesOn(i), t' = t
    PROVE  Kept /\ Len(servers') = Len(servers) /\ Echoed(Transport)'
<1> DEFINE s == [servers[i] EXCEPT !.served = TRUE]
<1>1. i \in 1..Len(servers) /\ servers[i] \in Server
  OBVIOUS
<1>2. /\ s \in Server /\ s.transport = Transport /\ s.served
      /\ servers[i].transport = s.transport
      /\ Over(servers[i]) => Over(s)
  BY <1>1 DEF PassesOn, Server, Over
<1>3. servers' = [servers EXCEPT ![i] = s]
  BY DEF PassesOn
<1> HIDE DEF s
<1>4. Kept /\ Len(servers') = Len(servers)
  BY <1>1, <1>2, <1>3, KeptByUpdate
<1>5. i \in DOMAIN servers' /\ servers'[i] = s
  BY <1>1, <1>3
<1> QED BY <1>2, <1>4, <1>5 DEF Echoed, Transport

LEMMA KeptUnchanged ==
    ASSUME servers \in Seq(Server), servers' = servers
    PROVE  Kept
BY DEF Kept

-----------------------------------------------------------------------------
(* Every step keeps the invariant                                          *)

LEMMA ServersIInv ==
    ASSUME IInv, NEW i \in DOMAIN servers, ServerListens(i) \/ ServerGoes(i)
    PROVE  IInv'
<1>1. servers \in Seq(Server) /\ i \in 1..Len(servers) /\ servers[i] \in Server
  BY DEF IInv
<1>2. UNCHANGED <<phase, step, t, key, runs, files>>
  BY DEF ServerListens, ServerGoes
<1>3. PICK st \in {"listening", "gone"} :
          /\ servers' = [servers EXCEPT ![i].st = st]
          /\ servers[i].st = "gone" => st = "gone"
  BY DEF ServerListens, ServerGoes
<1>4. Kept /\ Len(servers') = Len(servers)
  <2> DEFINE s == [servers[i] EXCEPT !.st = st]
  <2>1. /\ s \in Server /\ s.transport = servers[i].transport
        /\ s.served = servers[i].served
        /\ Over(servers[i]) => Over(s)
    BY <1>1, <1>3 DEF Server, Over
  <2>2. servers' = [servers EXCEPT ![i] = s]
    BY <1>3
  <2> HIDE DEF s
  <2> QED BY <1>1, <2>1, <2>2, KeptByUpdate
<1>5. OneServer'
  BY <1>1, <1>2, <1>4 DEF IInv, OneServer, Kept, InLoop
<1>6. EchoSoFar'
  BY <1>1, <1>2, <1>4, KeptEchoed DEF IInv, EchoSoFar, Transport
<1> QED BY <1>1, <1>2, <1>4, <1>5, <1>6 DEF IInv, ScriptType, Kept

LEMMA StartServerIInv ==
    ASSUME IInv, StartServer
    PROVE  IInv'
<1>1. servers \in Seq(Server) /\ ScriptType /\ InLoop /\ step = "start"
      /\ UNCHANGED <<t, runs, files>>
  BY DEF IInv, StartServer
<1>2. \A i \in 1..Len(servers) : Over(servers[i])
  BY <1>1 DEF IInv, OneServer
<1>3. CASE servers' = Append(servers, Started(Transport)) /\ step' = "run"
           /\ key' = 1 /\ phase' = phase
  <2>1. Started(Transport) \in Server
    BY <1>1, Arguments DEF Started, Server, ScriptType, Transport
  <2>2. /\ servers' \in Seq(Server) /\ Len(servers') = Len(servers) + 1
        /\ \A i \in 1..Len(servers) : servers'[i] = servers[i]
    BY <1>1, <1>3, <2>1
  <2>3. Kept
    BY <2>2 DEF Kept
  <2>4. OneServer'
    BY <1>1, <1>2, <1>3, <2>2 DEF OneServer, InLoop
  <2>5. EchoSoFar'
    BY <1>1, <1>3, <2>3, KeptEchoed DEF IInv, EchoSoFar
  <2> QED BY <1>1, <1>3, <2>2, <2>4, <2>5, Arguments DEF IInv, ScriptType
<1>4. CASE phase' = "raised" /\ UNCHANGED <<servers, step, key>>
  BY <1>1, <1>2, <1>4 DEF IInv, ScriptType, OneServer, EchoSoFar, InLoop
<1> QED BY <1>3, <1>4 DEF StartServer

\* The clients: what they do to the servers is the same in both loops.
LEMMA ClientIInv ==
    ASSUME IInv, RunEchoClient \/ RunClient \/ RunClientRaises
    PROVE  IInv'
<1>1. /\ servers \in Seq(Server) /\ ScriptType /\ OneServer /\ EchoSoFar
      /\ step = "run" /\ InLoop /\ UNCHANGED <<phase, t>>
      /\ phase = "echo" => RunEchoClient
  BY DEF IInv, RunEchoClient, RunClient, RunClientRaises, InLoop
<1>2. Kept /\ Len(servers') = Len(servers)
  BY <1>1, KeptByPass, KeptUnchanged
  DEF RunEchoClient, RunClient, RunClientRaises, ClientFails
<1>3. ScriptType' /\ step' # "start"
  <2>1. CASE RunClient
    <3>1. key' \in 1..Len(Keys) /\ step' \in {"run", "stop"}
      <4>1. Len(Keys) \in Nat /\ key \in 1..Len(Keys)
        BY <1>1, Arguments DEF ScriptType
      <4>2. CASE key = Len(Keys)
        BY <2>1, <4>1, <4>2 DEF RunClient
      <4>3. CASE key # Len(Keys)
        <5>1. key' = key + 1 /\ step' = step
          BY <2>1, <4>3 DEF RunClient
        <5> QED BY <1>1, <4>1, <4>3, <5>1
      <4> QED BY <4>2, <4>3
    <3>2. DOMAIN files' = Used /\ runs' \in Nat
      BY <1>1, <2>1 DEF RunClient, ScriptType
    <3> QED BY <1>1, <2>1, <3>1, <3>2 DEF ScriptType
  <2>2. CASE RunEchoClient \/ RunClientRaises
    BY <1>1, <2>2 DEF RunEchoClient, RunClientRaises, ScriptType
  <2> QED BY <2>1, <2>2
<1>4. OneServer'
  BY <1>1, <1>2, <1>3 DEF OneServer, InLoop, Kept
<1>5. EchoSoFar'
  <2>1. CASE phase = "echo"
    <3>1. step' = "stop" => Echoed(Transport)'
      BY <1>1, <2>1, KeptByPass DEF RunEchoClient
    <3> QED BY <1>1, <1>2, <2>1, <3>1, KeptEchoed DEF EchoSoFar, Transport
  <2>2. CASE phase # "echo"
    BY <1>1, <1>2, <2>2, KeptEchoed DEF EchoSoFar
  <2> QED BY <2>1, <2>2
<1> QED BY <1>2, <1>3, <1>4, <1>5 DEF IInv, Kept

LEMMA StopServerIInv ==
    ASSUME IInv, StopServer
    PROVE  IInv'
<1>1. /\ servers \in Seq(Server) /\ ScriptType /\ OneServer /\ EchoSoFar
      /\ InLoop /\ step \in {"stop", "raising"} /\ step' = "start"
      /\ UNCHANGED <<key, runs, files>>
  BY DEF IInv, StopServer
<1>2. /\ Len(servers) \in 1..Len(servers)
      /\ \A i \in 1..(Len(servers) - 1) : Over(servers[i])
  BY <1>1 DEF OneServer
<1>3. /\ Kept /\ Len(servers') = Len(servers)
      /\ Over(servers'[Len(servers)])
  <2> DEFINE s == [servers[Len(servers)] EXCEPT !.term = TRUE]
  <2>1. servers[Len(servers)] \in Server
    BY <1>1, <1>2
  <2>2. /\ s \in Server /\ s.transport = servers[Len(servers)].transport
        /\ s.served = servers[Len(servers)].served /\ Over(s)
    BY <2>1 DEF Server, Over
  <2>3. servers' = [servers EXCEPT ![Len(servers)] = s]
    BY DEF StopServer
  <2> HIDE DEF s
  <2>4. Kept /\ Len(servers') = Len(servers)
    BY <1>1, <1>2, <2>2, <2>3, KeptByUpdate
  <2>5. servers'[Len(servers)] = s
    BY <1>1, <1>2, <2>3
  <2> QED BY <2>2, <2>4, <2>5
<1>4. \A i \in 1..Len(servers') : Over(servers'[i])
  <2> SUFFICES ASSUME NEW i \in 1..Len(servers)
               PROVE  Over(servers'[i])
    BY <1>3
  <2>1. CASE i = Len(servers)
    BY <1>3, <2>1
  <2>2. CASE i # Len(servers)
    <3>1. i \in 1..(Len(servers) - 1)
      BY <1>1, <2>2
    <3> QED BY <1>2, <1>3, <3>1 DEF Kept
  <2> QED BY <2>1, <2>2
<1>5. ScriptType'
  BY <1>1, Arguments DEF StopServer, ScriptType
<1>6. EchoSoFar'
  <2>1. CASE step = "raising"
    BY <2>1 DEF StopServer, EchoSoFar
  <2>2. CASE step = "stop" /\ phase = "echo"
    <3>1. \A i \in 1..t : Echoed(Transports[i])'
      <4>1. \A i \in 1..t : Echoed(Transports[i])
        BY <1>1, <2>2 DEF EchoSoFar, ScriptType, Transport
      <4> QED BY <1>1, <1>3, <4>1, KeptEchoed
    <3>2. CASE t < Len(Transports)
      <4>1. t' = t + 1 /\ phase' = "echo"
        BY <2>2, <3>2 DEF StopServer
      <4>2. 1..(t' - 1) = 1..t
        BY <1>1, <4>1 DEF ScriptType
      <4> QED BY <1>1, <3>1, <4>1, <4>2 DEF EchoSoFar
    <3>3. CASE ~(t < Len(Transports))
      <4>1. t = Len(Transports) /\ phase' = "tests"
        BY <1>1, <2>2, <3>3, Arguments DEF StopServer, ScriptType
      <4> QED BY <3>1, <4>1, Arguments DEF EchoSoFar
    <3> QED BY <3>2, <3>3
  <2>3. CASE step = "stop" /\ phase = "tests"
    <3>1. phase' \in {"tests", "graphs"}
      BY <2>3 DEF StopServer
    <3>2. \A tr \in Used : Echoed(tr)'
      BY <1>1, <1>3, <2>3, KeptEchoed DEF EchoSoFar
    <3> QED BY <3>1, <3>2 DEF EchoSoFar
  <2> QED BY <1>1, <2>1, <2>2, <2>3 DEF InLoop
<1> QED BY <1>1, <1>3, <1>4, <1>5, <1>6 DEF IInv, OneServer, Kept

\* The graphs are drawn in turns of their own, when no server is left.
LEMMA OtherIInv ==
    ASSUME IInv, ParseNext \/ ParseEnds \/ Draw \/ Ended \/ UNCHANGED vars
    PROVE  IInv'
<1>1. CASE ParseNext \/ ParseEnds \/ Draw
  <2>1. /\ UNCHANGED <<step, key, runs, servers, files>>
        /\ phase \in {"graphs", "drawing"}
        /\ phase' \in {"graphs", "drawing", "done", "raised"}
    BY <1>1 DEF ParseNext, ParseEnds, Draw
  <2>2. t' \in 1..Len(Transports)
    <3>1. t \in 1..Len(Transports) /\ Len(Transports) \in Nat
      BY Arguments DEF IInv, ScriptType
    <3>2. \/ t' = t
          \/ t < Len(Transports) /\ t' = t + 1
      BY <1>1 DEF ParseNext, ParseEnds, Draw
    <3> QED BY <3>1, <3>2
  <2>3. ScriptType'
    BY <2>1, <2>2 DEF IInv, ScriptType
  <2>4. OneServer'
    BY <2>1 DEF IInv, OneServer, InLoop
  <2>5. EchoSoFar'
    BY <2>1 DEF IInv, EchoSoFar, Echoed
  <2> QED BY <2>1, <2>3, <2>4, <2>5 DEF IInv
<1>2. CASE Ended \/ UNCHANGED vars
  <2>1. UNCHANGED <<phase, step, t, key, runs, servers, files>>
    BY <1>2 DEF Ended, vars
  <2>2. ScriptType'
    BY <2>1 DEF IInv, ScriptType
  <2>3. OneServer'
    BY <2>1 DEF IInv, OneServer, InLoop
  <2>4. EchoSoFar'
    BY <2>1 DEF IInv, EchoSoFar, Echoed, Transport
  <2> QED BY <2>1, <2>2, <2>3, <2>4 DEF IInv
<1> QED BY <1>1, <1>2

LEMMA StepIInv == IInv /\ [Next]_vars => IInv'
BY ServersIInv, StartServerIInv, ClientIInv, StopServerIInv, OtherIInv DEF Next

-----------------------------------------------------------------------------
(* The files: what a client writes, and what becomes of a file it is       *)
(* appended to                                                             *)

\* What a client writes, line by line.
LEMMA OutputLines ==
    ASSUME NEW k \in Nat, NEW r \in Nat, NEW out \in Passes(k, r) \cup Fails(k, r)
    PROVE  /\ out \in Seq(LineType)
           /\ Len(out) \in 0..4
           /\ \A i \in 1..Len(out) :
                /\ out[i].key = k /\ out[i].run = r
                /\ i = 1 => out[i].kind = "header" /\ ~out[i].decimal
                /\ i = 2 => out[i].kind = "tput"
                /\ i = 3 => out[i].kind = "lat"
                /\ i = 4 => out[i].kind = "passed" /\ ~out[i].decimal
<1>1. ASSUME NEW whole \in Passes(k, r)
      PROVE  /\ whole \in Seq(LineType)
             /\ Len(whole) = 4
             /\ whole[1] = Line("header", k, r, FALSE)
             /\ \E a \in BOOLEAN : whole[2] = Line("tput", k, r, a)
             /\ \E b \in BOOLEAN : whole[3] = Line("lat", k, r, b)
             /\ whole[4] = Line("passed", k, r, FALSE)
  <2>1. PICK a \in BOOLEAN, b \in BOOLEAN :
            whole = <<Line("header", k, r, FALSE), Line("tput", k, r, a),
                      Line("lat", k, r, b), Line("passed", k, r, FALSE)>>
    BY DEF Passes, Line
  <2> DEFINE h == Line("header", k, r, FALSE)
             u == Line("tput", k, r, a)
             v == Line("lat", k, r, b)
             w == Line("passed", k, r, FALSE)
  <2>2. h \in LineType /\ u \in LineType /\ v \in LineType /\ w \in LineType
    BY DEF Line, LineType
  <2>3. whole = <<h, u, v, w>>
    BY <2>1
  <2> HIDE DEF h, u, v, w
  <2>4. /\ whole \in Seq(LineType) /\ Len(whole) = 4
        /\ whole[1] = h /\ whole[2] = u /\ whole[3] = v /\ whole[4] = w
    BY <2>2, <2>3
  <2> QED BY <2>4, Zenon DEF h, u, v, w
<1>2. PICK whole \in Passes(k, r), n \in 0..4 :
          /\ out \in Seq(LineType) /\ Len(out) = n
          /\ \A i \in 1..n : out[i] = whole[i]
  <2>1. CASE out \in Passes(k, r)
    <3>1. out \in Seq(LineType) /\ Len(out) = 4
      BY <1>1, <2>1
    <3>2. 4 \in 0..4
      OBVIOUS
    <3> QED BY <2>1, <3>1, <3>2
  <2>2. CASE out \in Fails(k, r)
    <3>1. PICK whole \in Passes(k, r), n \in 0..3 : out = SubSeq(whole, 1, n)
      BY <2>2 DEF Fails
    <3>2. whole \in Seq(LineType) /\ Len(whole) = 4
      BY <1>1
    <3>3. /\ out \in Seq(LineType) /\ Len(out) = n
          /\ \A i \in 1..n : out[i] = whole[i]
      BY <3>1, <3>2
    <3> QED BY <3>3
  <2> QED BY <2>1, <2>2
<1>3. /\ whole[1] = Line("header", k, r, FALSE)
      /\ \E a \in BOOLEAN : whole[2] = Line("tput", k, r, a)
      /\ \E b \in BOOLEAN : whole[3] = Line("lat", k, r, b)
      /\ whole[4] = Line("passed", k, r, FALSE)
  BY <1>1
<1>4. ASSUME NEW i \in 1..4
      PROVE  /\ whole[i].key = k /\ whole[i].run = r
             /\ i = 1 => whole[i].kind = "header" /\ ~whole[i].decimal
             /\ i = 2 => whole[i].kind = "tput"
             /\ i = 3 => whole[i].kind = "lat"
             /\ i = 4 => whole[i].kind = "passed" /\ ~whole[i].decimal
  BY <1>3 DEF Line
<1> QED BY <1>2, <1>4

\* A run is appended behind those a file holds.
LEMMA AppendRun ==
    ASSUME NEW k \in Nat, NEW n \in Nat, NEW f \in Seq(LineType), HoldsRuns(f, n),
           NEW out \in Passes(k, n + 1) \cup Fails(k, n + 1)
    PROVE  f \o out \in Seq(LineType) /\ HoldsRuns(f \o out, n + 1)
<1> DEFINE g == f \o out
<1>1. /\ out \in Seq(LineType) /\ Len(out) \in 0..4
      /\ \A i \in 1..Len(out) :
            /\ out[i].key = k /\ out[i].run = n + 1
            /\ i = 1 => out[i].kind = "header" /\ ~out[i].decimal
            /\ i = 2 => out[i].kind = "tput"
            /\ i = 3 => out[i].kind = "lat"
            /\ i = 4 => out[i].kind = "passed" /\ ~out[i].decimal
  BY OutputLines
<1>2. /\ g \in Seq(LineType) /\ Len(g) = Len(f) + Len(out)
      /\ \A i \in 1..Len(f) : g[i] = f[i]
      /\ \A i \in 1..Len(out) : g[Len(f) + i] = out[i]
  BY <1>1
<1> HIDE DEF g
<1>3. \A i \in 1..Len(f) : g[i].run \in 1..n
  BY <1>2 DEF HoldsRuns
<1>4. \A i \in 1..Len(out) : g[Len(f) + i].run = n + 1
  BY <1>1, <1>2
<1>5. ASSUME NEW j \in 1..Len(f)
      PROVE  /\ g[j].run \in 1..(n + 1)
             /\ g[j].kind \in {"header", "passed"} => ~g[j].decimal
             /\ g[j].kind # "header" =>
                   /\ j > 1
                   /\ g[j - 1].kind = Before(g[j].kind)
                   /\ g[j - 1].key = g[j].key
                   /\ g[j - 1].run = g[j].run
             /\ \A i \in 1..(j - 1) :
                   IF g[j].kind = "header" THEN g[i].run < g[j].run
                                           ELSE g[i].run <= g[j].run
  <2>1. Len(f) \in Nat /\ g[j] = f[j] /\ \A i \in 1..(j - 1) : g[i] = f[i]
    BY <1>2
  <2>2. j > 1 => g[j - 1] = f[j - 1]
    BY <2>1
  <2> QED BY <1>3, <2>1, <2>2 DEF HoldsRuns
<1>6. ASSUME NEW i \in 1..Len(out)
      PROVE  LET j == Len(f) + i
             IN  /\ g[j].run \in 1..(n + 1)
                 /\ g[j].kind \in {"header", "passed"} => ~g[j].decimal
                 /\ g[j].kind # "header" =>
                       /\ j > 1
                       /\ g[j - 1].kind = Before(g[j].kind)
                       /\ g[j - 1].key = g[j].key
                       /\ g[j - 1].run = g[j].run
                 /\ \A h \in 1..(j - 1) :
                       IF g[j].kind = "header" THEN g[h].run < g[j].run
                                               ELSE g[h].run <= g[j].run
  <2> DEFINE j == Len(f) + i
  <2>1. /\ Len(f) \in Nat /\ i \in 1..4 /\ j \in Nat /\ g[j] = out[i]
        /\ g[j].run = n + 1
    BY <1>1, <1>2, <1>4
  <2>2. g[j].kind \in {"header", "passed"} => ~g[j].decimal
    BY <1>1, <2>1
  <2>3. ASSUME g[j].kind # "header"
        PROVE  /\ j > 1
               /\ g[j - 1].kind = Before(g[j].kind)
               /\ g[j - 1].key = g[j].key
               /\ g[j - 1].run = g[j].run
    <3>1. i \in 2..4 /\ i - 1 \in 1..Len(out)
      BY <1>1, <2>1, <2>3
    <3>2. g[j - 1] = out[i - 1] /\ j > 1
      <4>1. j - 1 = Len(f) + (i - 1)
        BY <2>1
      <4> QED BY <1>2, <2>1, <3>1, <4>1
    <3>3. out[i - 1].kind = Before(out[i].kind)
      BY <1>1, <3>1 DEF Before
    <3>4. /\ out[i - 1].key = k /\ out[i - 1].run = n + 1
          /\ out[i].key = k /\ out[i].run = n + 1
      BY <1>1, <3>1
    <3> QED BY <2>1, <3>2, <3>3, <3>4
  <2>4. \A h \in 1..(j - 1) :
            IF g[j].kind = "header" THEN g[h].run < g[j].run ELSE g[h].run <= g[j].run
    <3> SUFFICES ASSUME NEW h \in 1..(j - 1)
                 PROVE  IF g[j].kind = "header" THEN g[h].run < g[j].run
                                                ELSE g[h].run <= g[j].run
      OBVIOUS
    <3>1. CASE h <= Len(f)
      <4>1. g[h].run \in 1..n
        BY <1>3, <2>1, <3>1
      <4> QED BY <2>1, <4>1
    <3>2. CASE ~(h <= Len(f))
      <4>1. h - Len(f) \in 1..Len(out) /\ h = Len(f) + (h - Len(f)) /\ i > 1
        BY <2>1, <3>2
      <4>2. g[h].run = n + 1
        BY <1>4, <4>1
      <4>3. g[j].kind # "header"
        BY <1>1, <2>1, <4>1
      <4> QED BY <2>1, <4>2, <4>3
    <3> QED BY <3>1, <3>2
  <2> HIDE DEF j
  <2>5. g[j].run \in 1..(n + 1)
    BY <2>1
  <2> QED BY <2>2, <2>3, <2>4, <2>5 DEF j
<1>7. HoldsRuns(g, n + 1)
  <2> SUFFICES ASSUME NEW j \in 1..Len(g), j \notin 1..Len(f)
               PROVE  \E i \in 1..Len(out) : j = Len(f) + i
    BY <1>5, <1>6 DEF HoldsRuns
  <2>1. Len(f) \in Nat /\ Len(out) \in Nat
    BY <1>1
  <2>2. j - Len(f) \in 1..Len(out) /\ j = Len(f) + (j - Len(f))
    BY <1>2, <2>1
  <2> QED BY <2>2
<1> QED BY <1>2, <1>7 DEF g

-----------------------------------------------------------------------------
(* The parser: what it makes of a line, and of a file                      *)

\* A line that ends no run leaves what is drawn as it is.
LEMMA DrawnSame ==
    ASSUME NEW f, NEW n \in Nat, NEW stats, Drawn(f, n, stats), f[n + 1].kind # "passed"
    PROVE  Drawn(f, n + 1, stats)
<1>1. ASSUME NEW k \in DOMAIN stats
      PROVE  \E l \in 1..(n + 1) :
                /\ f[l].kind = "passed" /\ f[l].key = k
                /\ \A m \in (l + 1)..(n + 1) : ~(f[m].kind = "passed" /\ f[m].key = k)
                /\ stats[k] = RunStats(f, l)
  <2>1. PICK l \in 1..n :
            /\ f[l].kind = "passed" /\ f[l].key = k
            /\ \A m \in (l + 1)..n : ~(f[m].kind = "passed" /\ f[m].key = k)
            /\ stats[k] = RunStats(f, l)
    BY DEF Drawn
  <2>2. l \in 1..(n + 1) /\ \A m \in (l + 1)..(n + 1) : m \in (l + 1)..n \/ m = n + 1
    OBVIOUS
  <2> QED BY <2>1, <2>2
<1>2. \A l \in 1..(n + 1) : f[l].kind = "passed" => f[l].key \in DOMAIN stats
  <2>1. \A l \in 1..(n + 1) : l \in 1..n \/ l = n + 1
    OBVIOUS
  <2> QED BY <2>1 DEF Drawn
<1> QED BY <1>1, <1>2 DEF Drawn

\* A run that passed is drawn, in place of what was drawn for its value.
LEMMA DrawnPassed ==
    ASSUME NEW f, NEW n \in Nat, NEW stats, Drawn(f, n, stats), f[n + 1].kind = "passed"
    PROVE  Drawn(f, n + 1, Put(stats, f[n + 1].key, RunStats(f, n + 1)))
<1> DEFINE new == Put(stats, f[n + 1].key, RunStats(f, n + 1))
<1>1. /\ DOMAIN new = DOMAIN stats \cup {f[n + 1].key}
      /\ new[f[n + 1].key] = RunStats(f, n + 1)
      /\ \A k \in DOMAIN stats : k # f[n + 1].key => new[k] = stats[k]
  BY DEF Put
<1> HIDE DEF new
<1>2. ASSUME NEW k \in DOMAIN new
      PROVE  \E l \in 1..(n + 1) :
                /\ f[l].kind = "passed" /\ f[l].key = k
                /\ \A m \in (l + 1)..(n + 1) : ~(f[m].kind = "passed" /\ f[m].key = k)
                /\ new[k] = RunStats(f, l)
  <2>1. CASE k = f[n + 1].key
    <3>1. n + 1 \in 1..(n + 1) /\ (n + 1 + 1)..(n + 1) = {}
      OBVIOUS
    <3> QED BY <1>1, <2>1, <3>1
  <2>2. CASE k # f[n + 1].key
    <3>1. k \in DOMAIN stats /\ new[k] = stats[k]
      BY <1>1, <2>2
    <3>2. PICK l \in 1..n :
              /\ f[l].kind = "passed" /\ f[l].key = k
              /\ \A m \in (l + 1)..n : ~(f[m].kind = "passed" /\ f[m].key = k)
              /\ stats[k] = RunStats(f, l)
      BY <3>1 DEF Drawn
    <3>3. l \in 1..(n + 1) /\ \A m \in (l + 1)..(n + 1) : m \in (l + 1)..n \/ m = n + 1
      OBVIOUS
    <3> QED BY <2>2, <3>1, <3>2, <3>3
  <2> QED BY <2>1, <2>2
<1>3. \A l \in 1..(n + 1) : f[l].kind = "passed" => f[l].key \in DOMAIN new
  <2>1. \A l \in 1..(n + 1) : l \in 1..n \/ l = n + 1
    OBVIOUS
  <2> QED BY <1>1, <2>1 DEF Drawn
<1> QED BY <1>2, <1>3 DEF Drawn, new

\* What parse_file does with a line of each kind, with s of the run before it.
LEMMA ParseHeader ==
    ASSUME NEW line \in LineType, NEW s, NEW stats, line.kind = "header"
    PROVE  ParseLine([s |-> s, stats |-> stats, raised |-> FALSE], line)
           = [s |-> [key |-> line.key, tput |-> 0, lat |-> 0], stats |-> stats, raised |-> FALSE]
BY DEF ParseLine, Matches, None

LEMMA ParseTput ==
    ASSUME NEW line \in LineType, NEW k \in Nat, NEW stats, line.kind = "tput"
    PROVE  ParseLine([s |-> [key |-> k, tput |-> 0, lat |-> 0], stats |-> stats,
                      raised |-> FALSE], line)
           = [s |-> [key |-> k, tput |-> Number(line), lat |-> 0], stats |-> stats,
              raised |-> FALSE]
<1>1. [key |-> k, tput |-> 0, lat |-> 0] # None
  BY DEF None
<1>2. CASE line.decimal
  BY <1>1, <1>2 DEF ParseLine, Matches, Number
<1>3. CASE ~line.decimal
  BY <1>3 DEF ParseLine, Matches, Number
<1> QED BY <1>2, <1>3

LEMMA ParseLat ==
    ASSUME NEW line \in LineType, NEW k \in Nat, NEW a, NEW stats, line.kind = "lat"
    PROVE  ParseLine([s |-> [key |-> k, tput |-> a, lat |-> 0], stats |-> stats,
                      raised |-> FALSE], line)
           = [s |-> [key |-> k, tput |-> a, lat |-> Number(line)], stats |-> stats,
              raised |-> FALSE]
<1>1. [key |-> k, tput |-> a, lat |-> 0] # None
  BY DEF None
<1>2. CASE line.decimal
  BY <1>1, <1>2 DEF ParseLine, Matches, Number
<1>3. CASE ~line.decimal
  BY <1>3 DEF ParseLine, Matches, Number
<1> QED BY <1>2, <1>3

LEMMA ParsePassed ==
    ASSUME NEW line \in LineType, NEW s, NEW stats, line.kind = "passed", s # None
    PROVE  ParseLine([s |-> s, stats |-> stats, raised |-> FALSE], line)
           = [s |-> None, stats |-> Put(stats, s.key, s), raised |-> FALSE]
BY DEF ParseLine, Matches

\* A turn of parse_file's loop: the run that is read is followed by the next
\* line's, and nothing raises.
LEMMA ParseLineIs ==
    ASSUME NEW f \in Seq(LineType), NEW runsOf \in Nat, HoldsRuns(f, runsOf),
           NEW n \in Nat, n < Len(f), NEW s, NEW stats,
           s = IF n = 0 \/ f[n].kind = "passed" THEN None ELSE RunStats(f, n),
           Drawn(f, n, stats)
    PROVE  \E new, drawn :
              /\ ParseLine([s |-> s, stats |-> stats, raised |-> FALSE], f[n + 1])
                 = [s |-> new, stats |-> drawn, raised |-> FALSE]
              /\ new = IF f[n + 1].kind = "passed" THEN None ELSE RunStats(f, n + 1)
              /\ Drawn(f, n + 1, drawn)
<1>1. PICK line \in LineType : line = f[n + 1] /\ n + 1 \in 1..Len(f)
  OBVIOUS
<1>2. /\ line.kind \in {"header", "tput", "lat", "passed"}
      /\ line.key \in Nat /\ line.decimal \in BOOLEAN
  BY DEF LineType
<1>3. /\ line.run \in 1..runsOf
      /\ line.kind \in {"header", "passed"} => ~line.decimal
      /\ line.kind # "header" =>
            /\ n > 0 /\ f[n].kind = Before(line.kind)
            /\ f[n].key = line.key /\ f[n].run = line.run
  BY <1>1 DEF HoldsRuns
<1>5. CASE line.kind = "header"
  <2>1. RunStats(f, n + 1) = [key |-> line.key, tput |-> 0, lat |-> 0]
    BY <1>1, <1>5 DEF RunStats
  <2>2. Drawn(f, n + 1, stats)
    BY <1>1, <1>5, DrawnSame
  <2>3. ParseLine([s |-> s, stats |-> stats, raised |-> FALSE], f[n + 1])
        = [s |-> RunStats(f, n + 1), stats |-> stats, raised |-> FALSE]
    BY <1>1, <1>5, <2>1, ParseHeader
  <2> QED BY <1>1, <1>5, <2>2, <2>3
<1>6. CASE line.kind # "header"
  <2>1. n > 0 /\ f[n].kind = Before(line.kind) /\ f[n].key = line.key /\ s = RunStats(f, n)
    BY <1>2, <1>3, <1>6 DEF Before
  <2>3. CASE line.kind = "tput"
    <3>1. s = [key |-> line.key, tput |-> 0, lat |-> 0]
      BY <2>1, <2>3 DEF RunStats, Before
    <3>2. RunStats(f, n + 1) = [key |-> line.key, tput |-> Number(line), lat |-> 0]
      BY <1>1, <2>3 DEF RunStats
    <3>3. ParseLine([s |-> s, stats |-> stats, raised |-> FALSE], f[n + 1])
          = [s |-> RunStats(f, n + 1), stats |-> stats, raised |-> FALSE]
      BY <1>1, <1>2, <2>3, <3>1, <3>2, ParseTput
    <3>4. Drawn(f, n + 1, stats)
      BY <1>1, <2>3, DrawnSame
    <3> QED BY <1>1, <2>3, <3>3, <3>4
  <2>4. CASE line.kind = "lat"
    <3>1. s = [key |-> line.key, tput |-> Number(f[n]), lat |-> 0]
      BY <2>1, <2>4 DEF RunStats, Before
    <3>2. RunStats(f, n + 1) = [key |-> line.key, tput |-> Number(f[n]), lat |-> Number(line)]
      BY <1>1, <2>4 DEF RunStats
    <3>3. ParseLine([s |-> s, stats |-> stats, raised |-> FALSE], f[n + 1])
          = [s |-> RunStats(f, n + 1), stats |-> stats, raised |-> FALSE]
      BY <1>1, <1>2, <2>4, <3>1, <3>2, ParseLat
    <3>4. Drawn(f, n + 1, stats)
      BY <1>1, <2>4, DrawnSame
    <3> QED BY <1>1, <2>4, <3>3, <3>4
  <2>5. CASE line.kind = "passed"
    <3>1. s = [key |-> line.key, tput |-> Number(f[n - 1]), lat |-> Number(f[n])]
      BY <2>1, <2>5 DEF RunStats, Before
    <3>2. s # None /\ s.key = line.key
      BY <1>2, <3>1 DEF None
    <3>3. RunStats(f, n + 1) = s
      <4>1. (n + 1) - 2 = n - 1 /\ (n + 1) - 1 = n
        OBVIOUS
      <4> QED BY <1>1, <2>5, <3>1, <4>1 DEF RunStats
    <3>4. ParseLine([s |-> s, stats |-> stats, raised |-> FALSE], f[n + 1])
          = [s |-> None, stats |-> Put(stats, line.key, s), raised |-> FALSE]
      BY <1>1, <2>5, <3>2, ParsePassed
    <3>5. Drawn(f, n + 1, Put(stats, line.key, s))
      BY <1>1, <2>5, <3>3, DrawnPassed
    <3> QED BY <1>1, <2>5, <3>4, <3>5
  <2> QED BY <1>2, <1>6, <2>3, <2>4, <2>5
<1> QED BY <1>5, <1>6

\* The lines of a run that passed are the one with "passed" and the three before
\* it; the numbers are on two of them.
LEMMA RunOfPassed ==
    ASSUME NEW f \in Seq(LineType), NEW n \in Nat, HoldsRuns(f, n),
           NEW l \in 1..Len(f), f[l].kind = "passed"
    PROVE  /\ f[l - 1].run = f[l].run /\ f[l - 2].run = f[l].run
           /\ \A j \in 1..Len(f) : f[j].run = f[l].run /\ f[j].decimal =>
                 \/ j = l - 2 /\ f[j].kind = "tput"
                 \/ j = l - 1 /\ f[j].kind = "lat"
<1>1. \A j \in 1..Len(f) :
          /\ f[j].kind \in {"header", "tput", "lat", "passed"}
          /\ f[j].run \in Nat
  <2> SUFFICES ASSUME NEW j \in 1..Len(f)
               PROVE  /\ f[j].kind \in {"header", "tput", "lat", "passed"}
                      /\ f[j].run \in Nat
    OBVIOUS
  <2>1. f[j] \in LineType
    OBVIOUS
  <2> QED BY <2>1 DEF LineType
<1>2. l - 1 \in 1..Len(f) /\ f[l - 1].kind = "lat" /\ f[l - 1].run = f[l].run
  BY DEF HoldsRuns, Before
<1>3. l - 2 \in 1..Len(f) /\ f[l - 2].kind = "tput" /\ f[l - 2].run = f[l].run
  <2>1. (l - 1) - 1 = l - 2
    OBVIOUS
  <2> QED BY <1>2, <2>1 DEF HoldsRuns, Before
<1>4. l - 3 \in 1..Len(f) /\ f[l - 3].kind = "header" /\ f[l - 3].run = f[l].run
  <2>1. (l - 2) - 1 = l - 3
    OBVIOUS
  <2> QED BY <1>3, <2>1 DEF HoldsRuns, Before
<1>5. ASSUME NEW j \in 1..Len(f), f[j].run = f[l].run, f[j].decimal
      PROVE  \/ j = l - 2 /\ f[j].kind = "tput"
             \/ j = l - 1 /\ f[j].kind = "lat"
  <2>1. ~(j < l - 3)
    <3>1. ASSUME j < l - 3 PROVE f[j].run < f[l - 3].run
      <4>1. j \in 1..((l - 3) - 1)
        BY <3>1
      <4> QED BY <1>4, <4>1 DEF HoldsRuns
    <3> QED BY <1>1, <1>4, <1>5, <3>1
  <2>2. j # l - 3 /\ j # l
    BY <1>4, <1>5 DEF HoldsRuns
  <2>3. ~(j > l)
    <3> SUFFICES ASSUME j > l
                 PROVE  FALSE
      OBVIOUS
    <3>1. l + 1 \in 1..Len(f) /\ f[l + 1].kind = "header"
      <4>1. l + 1 \in 1..Len(f) /\ (l + 1) - 1 = l
        OBVIOUS
      <4>2. Before(f[l + 1].kind) # "passed"
        BY DEF Before
      <4> QED BY <1>1, <4>1, <4>2 DEF HoldsRuns
    <3>2. f[l].run < f[l + 1].run
      <4>1. l \in 1..((l + 1) - 1)
        OBVIOUS
      <4> QED BY <3>1, <4>1 DEF HoldsRuns
    <3>3. f[l + 1].run <= f[j].run
      <4>1. CASE j = l + 1
        BY <1>1, <4>1
      <4>2. CASE j # l + 1
        <5>1. l + 1 \in 1..(j - 1)
          BY <4>2
        <5>2. \/ f[l + 1].run < f[j].run
              \/ f[l + 1].run <= f[j].run
          BY <5>1 DEF HoldsRuns
        <5> QED BY <1>1, <3>1, <5>2
      <4> QED BY <4>1, <4>2
    <3> QED BY <1>1, <1>5, <3>1, <3>2, <3>3
  <2>4. j \in {l - 2, l - 1}
    BY <2>1, <2>2, <2>3
  <2> QED BY <1>2, <1>3, <2>4
<1> QED BY <1>2, <1>3, <1>5

-----------------------------------------------------------------------------
(* Every step keeps FilesInv                                               *)

\* Nothing has been read: nothing is drawn.
LEMMA DrawnNothing == ASSUME NEW f PROVE Drawn(f, 0, << >>)
BY DEF Drawn

LEMMA InitFiles == Init => FilesInv
<1> SUFFICES ASSUME Init
             PROVE  FilesInv
  OBVIOUS
<1>1. files \in [Used -> Seq(LineType)] /\ \A tr \in Used : HoldsRuns(files[tr], runs)
  BY DEF Init, HoldsRuns
<1>2. GraphInv
  BY DEF Init, GraphInv, InLoop, Parser
<1> QED BY <1>1, <1>2 DEF FilesInv

\* Steps of the servers, and those of the script that write to no file.
LEMMA FilesStay ==
    ASSUME FilesInv, UNCHANGED <<t, runs, files, graphVars>>,
           phase' = phase \/ phase' = "raised"
    PROVE  FilesInv'
<1>1. GraphInv'
  <2>1. UNCHANGED <<t, files, read, parser, graph>>
    BY DEF graphVars
  <2>2. phase' = "done" => Drawable'
    BY <2>1 DEF FilesInv, GraphInv, Drawable
  <2>3. phase' = "graphs" => ParserInv'
    BY <2>1 DEF FilesInv, GraphInv, ParserInv, Transport
  <2> QED BY <2>1, <2>2, <2>3 DEF FilesInv, GraphInv, InLoop
<1> QED BY <1>1 DEF FilesInv

\* The script goes on to another turn, or begins to draw.
LEMMA StopServerFiles ==
    ASSUME IInv, FilesInv, StopServer
    PROVE  FilesInv'
<1>1. /\ UNCHANGED <<runs, files, read, parser, graph>>
      /\ read = 0 /\ parser = Parser /\ graph = << >>
      /\ phase' \in {"echo", "tests", "graphs", "raised"}
      /\ phase' = "graphs" => t' = 1
  BY DEF StopServer, graphVars, FilesInv, GraphInv, InLoop
<1>2. GraphInv'
  <2>1. read' = 0 /\ parser' = Parser /\ graph' = << >>
    BY <1>1
  <2>2. CASE phase' = "graphs"
    <3>1. files'[Transport'] \in Seq(LineType)
      <4>1. Transport' \in Used
        BY <1>1, <2>2, Arguments DEF Transport
      <4> QED BY <1>1, <4>1 DEF FilesInv
    <3>2. ParserInv'
      BY <2>1, <3>1, DrawnNothing DEF ParserInv, Parser
    <3>3. 1..(t' - 1) = {}
      BY <1>1, <2>2
    <3> QED BY <2>1, <2>2, <3>2, <3>3 DEF GraphInv, InLoop, Parser
  <2>3. CASE phase' # "graphs"
    BY <1>1, <2>1, <2>3 DEF GraphInv, Parser
  <2> QED BY <2>2, <2>3
<1> QED BY <1>1, <1>2 DEF FilesInv

\* A client's output is appended to the file of its transport.
LEMMA RunClientFiles ==
    ASSUME IInv, FilesInv, RunClient
    PROVE  FilesInv'
<1>1. PICK out \in Passes(Keys[key], runs + 1) \cup Fails(Keys[key], runs + 1) :
          files' = [files EXCEPT ![Transport] = @ \o out]
  BY DEF RunClient
<1>2. /\ phase = "tests" /\ runs' = runs + 1 /\ UNCHANGED <<phase, t, read, parser, graph>>
      /\ runs \in Nat /\ Keys[key] \in Nat
  <2>1. key \in DOMAIN Keys
    BY Arguments DEF IInv, ScriptType
  <2> QED BY <2>1, RunTransportsAssumption DEF RunClient, graphVars, IInv, ScriptType
<1>3. Transport \in Used
  BY Arguments DEF IInv, ScriptType, Transport
<1>4. /\ files[Transport] \o out \in Seq(LineType)
      /\ HoldsRuns(files[Transport] \o out, runs + 1)
  BY <1>2, <1>3, AppendRun DEF FilesInv
<1>5. ASSUME NEW tr \in Used
      PROVE  HoldsRuns(files'[tr], runs')
  <2>1. CASE tr = Transport
    <3>1. files'[tr] = files[Transport] \o out
      BY <1>1, <1>3, <2>1 DEF FilesInv
    <3> QED BY <1>2, <1>4, <3>1
  <2>2. CASE tr # Transport
    <3>1. files'[tr] = files[tr] /\ HoldsRuns(files[tr], runs) /\ 1..runs \subseteq 1..runs'
      BY <1>1, <1>2, <2>2 DEF FilesInv
    <3> QED BY <3>1 DEF HoldsRuns
  <2> QED BY <2>1, <2>2
<1>6. files' \in [Used -> Seq(LineType)]
  BY <1>1, <1>4 DEF FilesInv
<1>7. GraphInv'
  BY <1>2 DEF FilesInv, GraphInv, InLoop
<1> QED BY <1>5, <1>6, <1>7 DEF FilesInv

\* A line is read.
LEMMA ParseNextFiles ==
    ASSUME IInv, FilesInv, ParseNext
    PROVE  FilesInv'
<1>1. /\ phase = "graphs" /\ UNCHANGED <<t, runs, files, graph>>
      /\ read' = read + 1 /\ read \in Nat /\ read < Len(files[Transport])
      /\ parser' = ParseLine(parser, files[Transport][read + 1])
      /\ Transport' = Transport
  BY DEF ParseNext, FilesInv, GraphInv, Transport
<1>2. Transport \in Used /\ runs \in Nat
  BY Arguments DEF IInv, ScriptType, Transport
<1>3. /\ parser = [s |-> parser.s, stats |-> parser.stats, raised |-> FALSE]
      /\ parser.s = IF read = 0 \/ files[Transport][read].kind = "passed"
                    THEN None ELSE RunStats(files[Transport], read)
      /\ Drawn(files[Transport], read, parser.stats)
  BY <1>1 DEF FilesInv, GraphInv, ParserInv
<1>4. files[Transport] \in Seq(LineType) /\ HoldsRuns(files[Transport], runs)
  BY <1>2 DEF FilesInv
<1>5. PICK new, drawn :
          /\ parser' = [s |-> new, stats |-> drawn, raised |-> FALSE]
          /\ new = IF files[Transport][read + 1].kind = "passed"
                   THEN None ELSE RunStats(files[Transport], read + 1)
          /\ Drawn(files[Transport], read + 1, drawn)
  <2>1. \A s, stats :
            /\ s = IF read = 0 \/ files[Transport][read].kind = "passed"
                   THEN None ELSE RunStats(files[Transport], read)
            /\ Drawn(files[Transport], read, stats)
            => \E new, drawn :
                  /\ ParseLine([s |-> s, stats |-> stats, raised |-> FALSE],
                               files[Transport][read + 1])
                     = [s |-> new, stats |-> drawn, raised |-> FALSE]
                  /\ new = IF files[Transport][read + 1].kind = "passed"
                           THEN None ELSE RunStats(files[Transport], read + 1)
                  /\ Drawn(files[Transport], read + 1, drawn)
    BY <1>1, <1>2, <1>4, ParseLineIs
  <2> QED BY <1>1, <1>3, <2>1
<1>6. /\ parser'.raised = FALSE /\ parser'.s = new /\ parser'.stats = drawn
      /\ parser' = [s |-> parser'.s, stats |-> parser'.stats, raised |-> FALSE]
  BY <1>5
<1>7. phase' = "graphs"
  BY <1>1, <1>6 DEF ParseNext
<1>8. ParserInv'
  <2>1. read' \in 0..Len(files[Transport])
    BY <1>1, <1>4
  <2> QED BY <1>1, <1>5, <1>6, <2>1 DEF ParserInv
<1>9. GraphInv'
  BY <1>1, <1>6, <1>7, <1>8 DEF FilesInv, GraphInv, InLoop
<1> QED BY <1>1, <1>9 DEF FilesInv

\* A file has been read: what parse_file returns is to be drawn.
LEMMA ParseEndsFiles ==
    ASSUME IInv, FilesInv, ParseEnds
    PROVE  FilesInv'
<1>1. /\ phase = "graphs" /\ UNCHANGED <<runs, files>>
      /\ read = Len(files[Transport]) /\ read' = 0 /\ parser' = Parser
      /\ graph' = Put(graph, Transport, parser.stats)
  BY DEF ParseEnds
<1>2. /\ t \in 1..Len(Transports) /\ Len(Transports) \in Nat /\ Transport \in Used
      /\ \/ t < Len(Transports) /\ t' = t + 1 /\ phase' = "graphs"
         \/ t = Len(Transports) /\ phase' = "drawing"
  <2>1. t \in 1..Len(Transports) /\ Len(Transports) \in Nat /\ Transport \in Used
    BY Arguments DEF IInv, ScriptType, Transport
  <2>2. CASE t < Len(Transports)
    BY <2>1, <2>2 DEF ParseEnds
  <2>3. CASE ~(t < Len(Transports))
    <3>1. t = Len(Transports)
      BY <2>1, <2>3
    <3>2. phase' = "drawing"
      BY <2>3 DEF ParseEnds
    <3> QED BY <2>1, <3>1, <3>2
  <2> QED BY <2>1, <2>2, <2>3
<1>3. /\ DOMAIN graph = {Transports[i] : i \in 1..(t - 1)}
      /\ Drawn(files[Transport], Len(files[Transport]), parser.stats)
      /\ \A tr \in DOMAIN graph : Drawn(files[tr], Len(files[tr]), graph[tr])
  BY <1>1 DEF FilesInv, GraphInv, ParserInv
<1>4. DOMAIN graph' = {Transports[i] : i \in 1..t}
  <2>1. DOMAIN graph' = DOMAIN graph \cup {Transports[t]}
    BY <1>1 DEF Put, Transport
  <2>2. \A i : i \in 1..t <=> i \in 1..(t - 1) \/ i = t
    BY <1>2
  <2> QED BY <1>3, <2>1, <2>2
<1>5. \A tr \in DOMAIN graph' : Drawn(files'[tr], Len(files'[tr]), graph'[tr])
  <2> SUFFICES ASSUME NEW tr \in DOMAIN graph'
               PROVE  Drawn(files[tr], Len(files[tr]), graph'[tr])
    BY <1>1
  <2>1. CASE tr = Transport
    <3>1. graph'[tr] = parser.stats
      BY <1>1, <2>1 DEF Put
    <3> QED BY <1>3, <2>1, <3>1
  <2>2. CASE tr # Transport
    <3>1. tr \in DOMAIN graph /\ graph'[tr] = graph[tr]
      BY <1>1, <2>2 DEF Put
    <3> QED BY <1>3, <3>1
  <2> QED BY <2>1, <2>2
<1>6. CASE phase' = "graphs"
  <2>1. t' = t + 1 /\ t' \in 1..Len(Transports) /\ t' - 1 = t
    BY <1>2, <1>6
  <2>2. files'[Transport'] \in Seq(LineType)
    <3>1. Transport' \in Used
      BY <2>1, Arguments DEF Transport
    <3> QED BY <1>1, <3>1 DEF FilesInv
  <2>3. ParserInv'
    BY <1>1, <2>2, DrawnNothing DEF ParserInv, Parser
  <2>4. GraphInv'
    BY <1>1, <1>4, <1>5, <1>6, <2>1, <2>3 DEF GraphInv, InLoop, Parser
  <2> QED BY <1>1, <2>4 DEF FilesInv
<1>7. CASE phase' = "drawing"
  <2>1. DOMAIN graph' = Used
    BY <1>2, <1>4, <1>7, Arguments
  <2>2. GraphInv'
    BY <1>1, <1>5, <1>7, <2>1 DEF GraphInv, InLoop, Parser
  <2> QED BY <1>1, <2>2 DEF FilesInv
<1> QED BY <1>2, <1>6, <1>7

\* The graphs are drawn, all of them, or the script raises.
LEMMA DrawFiles ==
    ASSUME FilesInv, Draw
    PROVE  FilesInv'
<1>1. /\ phase = "drawing" /\ phase' \in {"done", "raised"}
      /\ phase' = "done" => Drawable
      /\ UNCHANGED <<t, runs, files, read, parser, graph>>
  BY DEF Draw, graphVars
<1>2. phase' = "done" => Drawable'
  BY <1>1 DEF Drawable
<1>3. GraphInv'
  BY <1>1, <1>2 DEF FilesInv, GraphInv, InLoop
<1> QED BY <1>1, <1>3 DEF FilesInv

LEMMA StepFiles == IInv /\ FilesInv /\ [Next]_vars => FilesInv'
<1> SUFFICES ASSUME IInv, FilesInv, [Next]_vars
             PROVE  FilesInv'
  OBVIOUS
<1>1. ASSUME \/ \E i \in DOMAIN servers : ServerListens(i) \/ ServerGoes(i)
             \/ StartServer \/ RunEchoClient \/ RunClientRaises
             \/ Ended \/ UNCHANGED vars
      PROVE  FilesInv'
  <2>1. /\ UNCHANGED <<t, runs, files, graphVars>>
        /\ phase' = phase \/ phase' = "raised"
    BY <1>1 DEF ServerListens, ServerGoes, StartServer, RunEchoClient, RunClientRaises,
       Ended, vars
  <2> QED BY <2>1, FilesStay
<1> QED BY <1>1, RunClientFiles, StopServerFiles, ParseNextFiles, ParseEndsFiles,
       DrawFiles DEF Next

-----------------------------------------------------------------------------
(* The theorems                                                            *)

LEMMA Invariant == Spec => [](IInv /\ FilesInv)
BY InitIInv, StepIInv, InitFiles, StepFiles, PTL DEF Spec

\* Every reachable state is of its type, for any transports and block sizes.
THEOREM TypeCorrect == Spec => []TypeOK
<1>1. IInv /\ FilesInv => TypeOK
  <2> SUFFICES ASSUME IInv, FilesInv
               PROVE  TypeOK
    OBVIOUS
  <2>1. \A i \in DOMAIN servers : servers[i] \in Server
    BY DEF IInv
  <2>2. read \in Nat
    BY DEF FilesInv, GraphInv
  <2>3. parser.raised = FALSE
    BY SMT DEF FilesInv, GraphInv
  <2>4. parser.raised \in BOOLEAN
    BY <2>3, Zenon
  <2>5. \A i \in DOMAIN servers :
            servers[i] \in [transport : Used, st : {"starting", "listening", "gone"},
                            term : BOOLEAN, served : BOOLEAN]
    BY <2>1 DEF Server
  <2>6. /\ phase \in {"echo", "tests", "graphs", "drawing", "done", "raised"}
        /\ step \in {"start", "run", "stop", "raising"}
        /\ runs \in Nat
        /\ DOMAIN files = Used
    BY DEF IInv, ScriptType
  <2>7. t \in DOMAIN Transports /\ key \in DOMAIN Keys
    BY Arguments DEF IInv, ScriptType
  <2> QED BY <2>2, <2>5, <2>6, <2>7, <2>4, Zenon DEF TypeOK
<1> QED BY <1>1, Invariant, PTL

\* stop_server is reached on every way out of a turn: no server that was
\* started is left running by the script.
THEOREM ServersAreStopped == Spec => []NoServerLeft
<1>1. IInv => NoServerLeft
  BY DEF IInv, OneServer, NoServerLeft, InLoop, Over
<1> QED BY <1>1, Invariant, PTL

\* Nothing is measured before every transport's own server has answered an
\* echo, whichever servers were slow to listen or to go.
THEOREM EchoBeforeTests == Spec => []TestedTransportsEcho
<1>1. IInv => TestedTransportsEcho
  BY DEF IInv, EchoSoFar, Echoed, TestedTransportsEcho
<1> QED BY <1>1, Invariant, PTL

\* Each point that is drawn has both numbers of one run that passed, of its own
\* transport and value, for any number of runs in a file, wherever they were
\* cut off; and parse_file never raises.
THEOREM PointsOwn == Spec => []PointsAreOwn
<1>1. IInv /\ FilesInv => PointsAreOwn
  <2> SUFFICES ASSUME IInv, FilesInv
               PROVE  PointsAreOwn
    OBVIOUS
  <2>1. ~parser.raised
    BY DEF FilesInv, GraphInv
  <2>2. ASSUME phase = "done", NEW tr \in Used, NEW k \in DOMAIN graph[tr]
        PROVE  \E l \in DOMAIN files[tr] :
                  /\ files[tr][l].kind = "passed" /\ files[tr][l].key = k
                  /\ graph[tr][k] = [key |-> k, tput |-> files[tr][l].run,
                                               lat |-> files[tr][l].run]
    <3> DEFINE f == files[tr]
    <3>1. f \in Seq(LineType) /\ HoldsRuns(f, runs) /\ Drawn(f, Len(f), graph[tr])
      BY <2>2 DEF FilesInv, GraphInv
    <3> HIDE DEF f
    <3>2. PICK l \in 1..Len(f) :
              f[l].kind = "passed" /\ f[l].key = k /\ graph[tr][k] = RunStats(f, l)
      BY <2>2, <3>1 DEF Drawn
    <3>3. RunStats(f, l) = [key |-> k, tput |-> Number(f[l - 2]), lat |-> Number(f[l - 1])]
      BY <3>2 DEF RunStats
    <3>4. f[l - 1].run = f[l].run /\ f[l - 2].run = f[l].run
      <4>1. runs \in Nat
        BY DEF IInv, ScriptType
      <4> QED BY <3>1, <3>2, <4>1, RunOfPassed
    <3>5. Number(f[l - 2]) \in {0, f[l].run} /\ Number(f[l - 1]) \in {0, f[l].run}
      BY <3>4 DEF Number
    <3>6. graph[tr][k] = [key |-> k, tput |-> f[l].run, lat |-> f[l].run]
      <4>1. 0 \notin {graph[tr][k].tput, graph[tr][k].lat}
        BY <2>2 DEF FilesInv, GraphInv, Drawable
      <4> QED BY <3>2, <3>3, <3>5, <4>1
    <3>7. DOMAIN f = 1..Len(f)
      BY <3>1
    <3> QED BY <3>2, <3>6, <3>7 DEF f
  <2> QED BY <2>1, <2>2 DEF PointsAreOwn
<1> QED BY <1>1, Invariant, PTL

\* And if anything is drawn, a run that passed is, with the numbers it printed,
\* unless a later one of its transport and value is.
THEOREM RunsGraphed == Spec => []PassedRunsAreGraphed
<1>1. IInv /\ FilesInv => PassedRunsAreGraphed
  <2> SUFFICES ASSUME IInv, FilesInv, phase = "done", NEW tr \in Used,
                      NEW l \in DOMAIN files[tr], LastPassed(tr, l)
               PROVE  /\ files[tr][l].key \in DOMAIN graph[tr]
                      /\ graph[tr][files[tr][l].key].tput = files[tr][l].run
                      /\ graph[tr][files[tr][l].key].lat = files[tr][l].run
    BY DEF PassedRunsAreGraphed
  <2> DEFINE f == files[tr]
             k == f[l].key
  <2>1. f \in Seq(LineType) /\ HoldsRuns(f, runs) /\ Drawn(f, Len(f), graph[tr])
    BY DEF FilesInv, GraphInv
  <2>2. /\ f[l].kind = "passed" /\ l \in 1..Len(f)
        /\ ~\E m \in 1..Len(f) : m > l /\ f[m].kind = "passed" /\ f[m].key = k
    BY <2>1 DEF LastPassed
  <2> HIDE DEF f, k
  <2>3. k \in DOMAIN graph[tr]
    BY <2>1, <2>2 DEF Drawn, k
  <2>4. PICK l2 \in 1..Len(f) :
            /\ f[l2].kind = "passed" /\ f[l2].key = k
            /\ \A m \in (l2 + 1)..Len(f) : ~(f[m].kind = "passed" /\ f[m].key = k)
            /\ graph[tr][k] = RunStats(f, l2)
    BY <2>1, <2>3 DEF Drawn
  <2>5. l2 = l
    <3>1. f[l].key = k
      BY DEF k
    <3>2. ~(l2 > l) /\ ~(l \in (l2 + 1)..Len(f))
      BY <2>2, <2>4, <3>1
    <3> QED BY <2>1, <2>2, <3>2
  <2>6. graph[tr][k] = [key |-> k, tput |-> Number(f[l - 2]), lat |-> Number(f[l - 1])]
    BY <2>2, <2>4, <2>5 DEF RunStats
  <2>7. f[l - 1].run = f[l].run /\ f[l - 2].run = f[l].run
    <3>1. runs \in Nat
      BY DEF IInv, ScriptType
    <3> QED BY <2>1, <2>2, <3>1, RunOfPassed
  <2>8. 0 \notin {graph[tr][k].tput, graph[tr][k].lat}
    BY <2>3 DEF FilesInv, GraphInv, Drawable
  <2>9. graph[tr][k].tput = f[l].run /\ graph[tr][k].lat = f[l].run
    BY <2>6, <2>7, <2>8 DEF Number
  <2> QED BY <2>3, <2>9 DEF f, k
<1> QED BY <1>1, Invariant, PTL

=============================================================================
