# A TLA+ specification of rpc-transport-tests

`rt_client` sends requests made of many buffers to `rt_server` over one of
several RPC frameworks and measures how long it takes. This directory holds
TLA+ specifications of the two programs, of the transports between them, of the
script that runs them, and of the samples kept beside them, with the TLC models
that check them on small instances and TLAPS proofs of their main properties.

The question asked throughout is the one a benchmark depends on: **when an
operation counts as done, was it done?** A transport sends the buffers of a
message one at a time, ignores most of the results on the way, and meets lost
connections, silent networks and servers that stop. When `sendReq` returns, was the
request that was sent the request that was executed, and is the reply the whole
response? And does every run end?

## 1. The system

Paths are relative to `src/src/rt_client_server/` unless they begin with `src/`.

| Component | State | Operations | Hard behaviour |
|---|---|---|---|
| Payloads (`payload_creator.hpp`, `rt.proto`, the `fill` functions) | none: pure functions on messages | `fill` of three requests and three responses, `addToMsg`, `getRemoteProcessTimeUs`, `isValid` | negative block counts; block sizes that cannot be allocated; an echo answers what was received, not what was announced |
| `rt_client` | the loop counter, the request, the reply, the statistics | fill, `sendReq`, check, repeat; any exception ends the program | which failures end a run; statistics in `int` and `double` |
| `rt_server`, `rt::Server` (`rt_server.cc`, `transport.cc`) | the static `_rcvFn`; the process | `setRcvFn`, construct the transport (listens from then on), `wait`, `sigIntFn` | order of registration and listening; `abort` on an exception, also on one of an allocation whose size is the client's; a signal handler that takes locks |
| gRPC transport | per call: a stream, the part of the request read, the response | `sendReq`; `ReqReply`, one thread per call | ignored `Write` results, one way to end a Read loop, a deadline set too late to have an effect, both sides write before they read |
| Cap'n Proto transport | a connection per client; per call a `ReqSvcImpl` and a `ReplySvcImpl` | `sendReq`, `sendRequestStream`; `reqReply`, `sendChunk`, `done`, `sendReplyStream` | pipelined calls, promise chains on both sides that wait for each other, lost connections, cancellation |
| FlatBuffers transport | as gRPC, with one message builder per call and side | as gRPC | as gRPC, and a builder that must be empty again after each message |
| RSocket transport | a channel per call, the parts of the request and the reply collected so far | `sendReq`, `handleRequestChannel`, their lambdas | unfinished: nothing waits for the messages, and the lambdas outlive what they refer to |
| Null transport | none | empty bodies | its client always ends with "empty reply" |
| `scripts/run_transports.py` | server processes, output files, the statistics parsed from them | start server, run clients, stop server, parse, draw | no waiting for readiness or for the end of a server; ignored exit status; patterns that miss some numbers, on which the drawing raises; exceptions with a server running |
| `scripts/sample_runs.py` | none | runs the other script in a loop | none |
| Asynchronous greeter (`src/src/transport_hello_world/grpc/greeter_async_server.cc`, `greeter_async_client2.cc`) | a `CallData` per call, the completion queues | `HandleRpcs`, `Proceed`; `SayHello`, `AsyncCompleteRpc` | threads that share a queue and objects that delete themselves; results in any order; an assertion on every event |
| Synchronous and one-call asynchronous greeter (`.../grpc/greeter_server.cc`, `greeter_client.cc`, `greeter_async_client.cc`) | the variables a result is written to, the client's queue | `SayHello` on both sides | the result is written to a stack frame; a status that is OK before it is set |
| FlatBuffers greeter (`.../flatbuffers`) | a message builder shared by the streaming handlers | `SayHello`, `SayManyHellos` | handlers that race for the builder; streams that end early |
| Calculator (`.../capnproto/calculator-*.c++`) | values and functions as objects on either side, a tree of promises per evaluation | `evaluate`, `defFunction`, `getOperator`, `read`, `call` | pipelined calls on promised results, parameters that are resolved in any order, callbacks to a client that waits |
| Streaming sample (`.../capnproto/streaming`) | the strings collected on both sides | `reqReply`, `sendChunk`, `done`, `sendStrings` | two promise chains that wait for each other; a reference to the collected strings |
| RSocket greeter (`.../rsocket`) | none | one request and one response | none of its own |
| Build files, formatting scripts | none | none | none |

How they interact: `rt_client`'s `main` calls `fill`, hands the request to the
transport's `sendReq`, and checks what comes back. On the server the transport
calls `Server::_rcvFn`, a process-wide static that `main` set to `ServerRcvFn`
before it constructed the transport. The client and the server share nothing but
the transport's messages. Concurrency is between client processes, and on the
server between the handlers of their calls: threads with gRPC and FlatBuffers,
callbacks of one event loop with Cap'n Proto. RSocket adds a worker thread on the
client. `run_transports.py` runs servers and clients as processes and knows of
them only what they print. The samples share nothing with the two programs; the
asynchronous greeter has its own concurrency, between the threads on one
completion queue and between the client's main thread and the one that takes the
results.

What makes each component correct:

* payloads: the response to a filled request is one the client accepts;
* client: an operation passes only with the response to its own request;
* server: the callback is in place before a call can need it, and one client's
  call does not take the server away from the others;
* transports: at most one execution per request, of the whole request, a return
  only with the whole response of that execution, and a return or an exception
  in the end;
* asynchronous greeter: every `CallData` has one owner at any time, every call is
  finished once and gets its own greeting, and every call has a result in the end;
* measurements: a latency is what passed outside of the server's processing;
* `run_transports.py`: no server is left running, what is drawn was measured, and
  on a transport that works;
* the other samples: a client prints the answer to what it asked, or an error, and
  ends; the calculator's values are those of the expressions.

## 2. The modules

| Module | What it specifies |
|---|---|
| `RtPayload` | messages, requests, responses, what is rejected and accepted |
| `RtClient` | the program `rt_client`, with `sendReq` left open |
| `RtServer` | the process `rt_server` |
| `ReqReply` | the abstract request/reply service every transport promises |
| `GrpcTransport` | `RtClient` and `RtServer` composed over gRPC |
| `CapnprotoTransport` | `RtClient` and `RtServer` composed over Cap'n Proto |
| `FlatbuffersTransport` | `GrpcTransport` with the messages built in a FlatBuffers builder |
| `AsyncGreeter` | the asynchronous greeter's server and clients |
| `RsocketTransport` | `RtClient` and `RtServer` composed over RSocket, as far as that is written |
| `RtTiming` | how an operation is measured |
| `RunTransports` | the script `run_transports.py` with the processes it starts |
| `GrpcGreeter` | the synchronous greeter's server, its client, and the one-call asynchronous client |
| `FbGreeter` | the FlatBuffers greeter |
| `Calculator` | the calculator's server and client |
| `CapnpStream` | the streaming sample |
| `MCGrpc`, `MCCapnp`, `MCFlatbuffers`, `MCRsocket`, `MCRunTransports`, `MCAsyncGreeter`, `MCFbGreeter`, `MCCalculator` | the clients, arguments and scripts of the instances TLC checks; `RtTiming`, `GrpcGreeter` and `CapnpStream` need none and are run themselves |
| `RtPayload_proofs`, `GrpcTransport_proofs` (with those on FlatBuffers), `CapnprotoTransport_proofs`, `RsocketTransport_proofs`, `RunTransports_proofs`, `AsyncGreeter_proofs`, `FbGreeter_proofs`, `StandAlone_proofs` (on `RtTiming`, `GrpcGreeter`, `CapnpStream` and `Calculator`) | theorems and proofs |

`GrpcTransport`, `CapnprotoTransport` and `RsocketTransport` extend `RtClient` and `RtServer`, use
their actions (`FillRequest`, `SendReqReturns`, `Boot`, `Abort` ...) as conjuncts,
and add the state of the calls. `ReqReply` extends `RtClient` alone; the first two
transports instantiate it with a refinement mapping (RSocket does not implement it).
`FlatbuffersTransport` extends `GrpcTransport` and implements its specification.
`RtTiming`, `RunTransports` and the samples stand alone, as their code does; `RtTiming`
and `CapnpStream` share no name with `GrpcGreeter` or each other, so that one module
can prove things about all three.

Each module also has a few operators marked *Seeded bug*. They take no part in
the specification: each is a definition altered the way a mistake in the code
would alter it, and is used to see that a property notices.

### Messages (`RtPayload`)

A message is a sequence of buffers `[tag, cnt, size, blk]`: a header of one of six
kinds, or a data block. `cnt` and `size` are a request header's `buf_count` and `buf_size`. The bytes of a block
are a member of `Block`; two blocks are equal iff `memcmp` finds them so, and
`randombytes_buf` is the choice of any member. Serialization is not modelled
beyond that: `addToMsg` serializes a `Payload` and the receiver parses the same
bytes, so the tag that is set is the tag that is found. The processing time in a
response header is left out.

`BufCount(n)` is the number of turns of the loop `i < (blockCount + 1)`: for a
negative `n` there is not even a header. `Responses` answers an echo from the
buffers *received*, whatever the header announced, and acknowledges a write
whatever arrived, as `ServerRcvFn` does. This is what makes partly delivered
requests dangerous: `ServerRcvFn` does not refuse them.

`ServerRcvFn` throws on what it refuses (`Refuses`: no buffer, or no request header in
front), and `fill` throws on blocks it cannot allocate. `make_unique<uint8_t[]>` of a negative
size always does (`CannotMake`); blocks that together are more than `Memory` may or may
not find room (`MayNotMake`), which is a choice. `Rejects` and `MayReject` say on which
requests the callback must and may throw; the sizes a read asks for are its header's,
so any client can name them. In the client the same allocations are made for the blocks of a
write or an echo (`ReqBlocks`), and `FillThrows` is the end of `main` there. Memory that is short
elsewhere, in serialization or in a library, is left out.

### Client (`RtClient`)

| TLA+ | Code |
|---|---|
| `pc = "fill"` | the head of the loop in `main` |
| `pc = "send"` | inside `sendReq` |
| `pc = "check"` | after `sendReq`, before `getRemoteProcessTimeUs` and `isValid` |
| `"passed"`, `"fill_failed"`, `"send_failed"`, `"invalid"` | "Test passed"; an exception out of `fill`; one out of `sendReq`; one out of the checks |
| `ops`, `OpCount`, `req`, `reply` | `i`, `--op_count` of each client, `req`, `reply` |

### Server (`RtServer`)

`srv` goes `"down"` → `"started"` → `"configured"` (`setRcvFn` done) → `"up"`
(the transport listens). `Listen` may fail, as a constructor does on a port in
use, and end the process. `Exit` is SIGINT or a terminate at any moment.
`Abort` is `std::abort` after the callback threw. A new process begins with a
null `_rcvFn`. `boots` bounds the number of processes.

### gRPC (`GrpcTransport`)

| TLA+ | Code (`transports/grpc/grpc_transport.cc`) |
|---|---|
| `StartCall`, `FillFails` | `main` fills the request, `sendReq` creates context and stream (153-156); `fill` throws |
| `Write`, `WritesDone` | 162-178, 180 |
| `WritesDropped` | the same lines on a broken stream: every result is ignored |
| `Read` | 182-190 |
| `FinishOK`, `FinishError` | 192-197 |
| `HandlerStart` | 31-40: the handler is entered and copies `_rcvFn` |
| `HandlerRead`, `ReadEnds` | 42-63 |
| `HandlerServe`, `HandlerAbort` | 65-70 |
| `HandlerWrite`, `HandlerReturn` | 74-80 |

`c2s` and `s2c` hold everything written to the two directions of the current
call; what has been read is as long as `rcvMsg` and `reply`, so what is in
flight is the rest. gRPC itself is modelled by what the code relies on:

* messages of a call arrive in order, none twice;
* `Write` waits while `Window` messages are unread, and fails at once on a
  broken stream;
* messages that had arrived before a break can still be read; how many had is
  the choice of when the Read loop stops;
* the status is OK only if the handler returned and all it wrote was read.

A call started while no server listens is created broken: gRPC reports it
through the final status. The channel connects again for the next call, so a
client can outlive a server between two of its operations.

`Break` is a lost connection. `Stall` is a network that goes silent without an
error (if `Stalls`); a stream can still break after that. The code sets a deadline on the
`ClientContext` (158-160) *after* the call was created from it (156). gRPC takes the
deadline from the context when it creates the call, so this one has no effect, and there
is no action for it: a silent network leaves `sendReq` waiting for ever, and `EveryRunEnds` is
false where streams can go silent. What remains true is
`EveryRunEndsUnlessSilent`: nobody waits for ever but a client whose own stream went silent.
Without silent streams every run ends (`EveryRunEnds`, in `fb_builders`).

### Cap'n Proto (`CapnprotoTransport`)

| TLA+ | Code (`transports/capnproto/capnproto_transport.cc`) |
|---|---|
| `StartCall`, `FillFails` | `sendReq`, the `reqReply` request and the first step of `sendRequestStream` (219-227); `fill` throws |
| `SendRequestStream` | its later steps (190-209) |
| `ReplyChunk`, `ReplyDone` | `ReplySvcImpl::sendChunk`, `done` (167-188) |
| `WaitReturns`, `WaitThrows` | `promise.wait` (228) |
| `ReqReply`, `SendChunk` | 39-61 |
| `Done`, `DoneAborts` | `ReqSvcImpl::done` (63-77) with the first step of `sendReplyStream` |
| `SendReplyStream`, `DoneReturns` | 79-95 |
| `Cancel` | the server drops what belonged to a lost connection |

`svc` is the state of the `ReqSvcImpl` of a client's current call:
`"none"` (not there yet), `"collecting"`, `"replying"`, `"finishing"` (the
reply's `done` was sent), `"finished"` (answered), `"returned"` (the client's
`done` was answered), `"cancelled"` and `"lost"` (dropped before and after the
callback ran). Cap'n Proto is modelled by what the code relies on: calls on one
object arrive in order, and the promise of a `-> stream` call resolves while
fewer than `Window` chunks are unanswered. A lost connection is not made again
(`EzRpcClient` does not reconnect), so every later call of that client fails.
The code sets no timeout at all, so a silent network is left out here.

### FlatBuffers (`FlatbuffersTransport`)

The code of this transport is that of the gRPC transport but for the messages:
each is built in a `MessageBuilder` (`CreateString`, `CreateMsg`, `Finish`) and
then handed to `Write` by `ReleaseMessage`. One builder serves all messages of a
request (146), and one all messages of a response (39). So a `Write` of
`GrpcTransport` is two steps here:

| TLA+ | Code (`transports/flatbuffers/flatbuffers_transport.cc`) |
|---|---|
| `mb`, `mbRsp` | `mb` of `sendReq` (146) and of the handler (39) |
| `FbStartCall` | 141-154 |
| `BuildReq`, `WriteReq` | 156-160, 161 |
| `BuildRsp`, `WriteRsp` | 61-65, 66 |

Everything else is taken from `GrpcTransport`, whose actions it uses with the
builders unchanged. What is written is what the builder has (`Root`), not what
the request has: that the two are the same is `EachMessageAlone`, and rests on
`ReleaseMessage` leaving the builder empty. Between the two steps the stream can
break and the server can end.

### The asynchronous greeter (`AsyncGreeter`)

| TLA+ | Code (`greeter_async_server.cc`, `greeter_async_client2.cc`) |
|---|---|
| `status`, `request`, `reply` | `status_`, `request_`, `reply_` of the `CallData` at each address; `"free"` is deleted or never made |
| `at`, `this`, `outer` | where a thread is in `HandleRpcs` and `Proceed`; `outer` is the object in whose `Proceed` line 101 made `this` |
| `HandleRpcs`, `CqNext`, `AssertFails` | 144-158 |
| `Create`, `RequestSayHello` | `Proceed` in CREATE: 86-88 and 95 |
| `Spawn`, `SetReply`, `Finish` | `Proceed` in PROCESS: 101, 103-110, 111 |
| `Delete` | 112-116 |
| `requested`, `finishing`, `cq` | the operations gRPC has under way, and the completion queue |
| `SayHello`, `AsyncCompleteRpc` | the client's loop and its second thread |

`Run` starts one thread; the comment on `HandleRpcs` allows more, so the number
of threads is a constant. `Proceed` is split where another thread may come in: as
soon as an operation is handed to gRPC its tag can come out of the queue elsewhere.
Addresses are used again after `delete`, as an allocator does. Names are not
modelled: a call stands for the name it sends and for its greeting. gRPC may give
`ok = false` to a `Finish` on a call that is lost, at which `GPR_ASSERT` ends the
server; the clients' calls then fail, which they print and survive.

### RSocket (`RsocketTransport`)

| TLA+ | Code (`transports/rsocket/rsocket_transport.cc`) |
|---|---|
| `Connect`, `ConnectFails` | the client's constructor (113-127), which waits for the connection |
| `chan`, `StartCall` | 133-144: the channels of a client, one per operation, as nothing closes one |
| `SendPayload` | 133-141: the payloads a worker thread maps on demand, from a request that may be gone |
| `SendReq` | 143-154: it returns behind the subscription |
| `RcvReply` | 145-153: the lambda, which follows a pointer it has moved from, and may belong to an earlier operation |
| `HandleRequestChannel` | 29-81: subscribe, and the callback on what was collected by then |
| `Respond` | 83-89: the flow that refers to `sndMsg`, which is gone |
| `ReceiveLate` | 36-50: the subscriber, whose variables are gone |

Where the code is undefined the model has the outcomes a build can have: the process
ends, or goes on. Going on, `RcvReply` adds a buffer of anything (`Garbage`) to the reply, to the one
of the operation now running if its own is over, or to none; `SendPayload` of a request
that is gone sends anything; `ReceiveLate` goes unnoticed. Whether the channel's first payload is part
of the flow or only the `initialPayload` the code does not use is the library's
affair and left open, so the callback gets one buffer or none.

Some things can therefore be measured over this transport: a read or a write passes
if something that looks like a response header has been added to its reply by the time `main` looks. What cannot is an
echo of blocks, whose reply must have as many buffers as the request while the server
has seen one at most. That is `EchoNeverVerified`, checked and proved; `src/README.md:47-49` names
the echo as the workload for verification.

### Measurements (`RtTiming`)

`now` is the client's clock and `ServerNow` the server's; both have the same rate
and different zeros. `SendReq` and `Measure` are the two calls of `now()` in the
loop of `main`, `FillStart` and `FillEnd` those of the server's `fill` functions.
`outside` is a history variable: the time that passed during an operation while
the server was not measuring.

### The script (`RunTransports`)

| TLA+ | Code (`scripts/run_transports.py`) |
|---|---|
| `phase`, `step`, `t`, `key` | where the script is in `run_echo_test` or `run_tests`, and in the turn of their loops |
| `StartServer`, `StopServer` | 38-59; 115-118 with the `finally` of 127 and 135 |
| `RunEchoClient` | 75-97 |
| `RunClient`, `RunClientRaises` | 99-113 |
| `read`, `parser`, `ParseLine` | the lines `parse_file` has read, its `s` and `stats`, and whether it raised; 149-172 |
| `ParseNext`, `ParseEnds` | a turn of its loop; its return to `generate_graphs`, 174-179 |
| `Draw` | the rest of `generate_graphs`, 176-236: one graph of everything, or a `TypeError` of `errorbar` (219) if a number is `None` (`Drawable`) |
| `ServerListens`, `ServerGoes` | the server processes: they listen some time after `Popen`, and go some time after `terminate` |

A client passes on a server of its transport that listens; it fails when none
does, or meets that of another transport, or (`Faults`) by itself. What it prints
is cut off at any line. Who may listen on a port in use is a constant
(`SharesPort`), as gRPC servers set `SO_REUSEPORT` and the others do not. The
timestamp in the directory's name is left out.

### The other samples

`GrpcGreeter` has the variables of `SayHello`'s frame (`reply`, `status`) apart
from the state of the call in gRPC (`call`), which writes to them (`Complete`) once
it was told where (`asked`); the call can be lost (`Break`), or the network under it go silent (`Stall`). `FbGreeter` splits the building of a message in `mb_` into the
four statements of the loop (`CreateString`, `CreateHelloReply`, `Finish`,
`ReleaseAndWrite`); two handlers inside them at once are a data race, after which
a message can be anything. `CapnpStream` has the promise chains of both sides as
`SendStrings` and `SendReplyStrings`, with the strings as numbers; `chain` is where a
client's `main` and its chain are.

In `Calculator` a client is a `script` of calls and waits, one of `Scripts`, and a call is known by
its place in it, as is the promise of its result. An expression is written as the
sequence of its subexpressions, each behind its own, so that a call names its
parameters by their places in it: it is the tree of `calculator.capnp` without
recursion. What an expression and its parts are (`IsExpression`, `Literal`, `Call` ...) is translated from the
`struct Expression` of `calculator.capnp`. `EvaluateImpl` makes the promises of an expression; one such tree of
promises (`trees`) is named by its evaluate call and the calls of functions on the way
to it. `ReadPrevious`, `CallBreaks`, `CallOperator`, `CallFunction`, `FunctionReturns`
and `PowerFunction` resolve promises in whatever order they get ready. `ClientMain` is
the script of `calculator-client.c++`; `ValueOf` is the reference, the value an
expression has without any promise. Doubles are the integers they hold, and what
is none is `Untracked`.

### The abstract service (`ReqReply`)

A request is executed at most once and as a whole, possibly after the client
gave up (`Execute`); `sendReq` returns only with exactly the response of that
execution (`Return`); otherwise it throws (`Fail`). The refinement mapping hides
the reply until `sendReq` has returned (`ReplyOf`), and counts as an execution
of the request (`ServedOf`) a call of the callback on the whole of it. A call of
`ServerRcvFn` on part of a request is mapped to nothing: that is the promise, no
client can be told it succeeded. That such calls happen at all, and when, is said
by `TruncatedOnlyIfBroken` (gRPC) and excluded by `NeverTruncated` (Cap'n Proto).

## 3. What TLC checks

| Run | Instance | Shows |
|---|---|---|
| `grpc` | an echo of 2 blocks with memory for one, and a read of -1 blocks, 2 operations each, 2 server processes, window 1, streams that break or go silent | `CompleteReply`, `NoInvalidReply`, `TruncatedOnlyIfBroken`, `AbortsOnlyWithCause`, `ImplementsReqReply`, `EveryRunEndsUnlessSilent` |
| `fb_builders` | an echo of 2 blocks, twice, with memory for one, and a read of a block of size -1, 2 server processes, window 1; a network that delivers or breaks | `EachMessageAlone`, `ImplementsGrpc`, `AbortsOnlyWithCause`, `EveryRunEnds` |
| `capnp` | an echo of 2 blocks, twice, one of -1 blocks and one of a block of size -1, 2 server processes, window 2 | `CompleteReply`, `NeverTruncated`, `AbortsOnlyWithCause`, `ImplementsReqReply`, `EveryRunEnds` |
| `async_greeter` | 2 server threads, 4 addresses, a client of 2 calls | `OneOwner`, `ServedOnce`, `OwnGreeting`, `AlwaysAccepting`, `EveryCallEnds` |
| `rsocket` | an echo of 2 blocks, which `Memory` may be too small for, and 3 reads of 1; 1 server process; garbage that is a response header, a request header or data | `EchoNeverVerified` |
| `timing` | each workload, 2 operations, 3 ticks to the microsecond, 14 ticks | `LatencyIsTransport` |
| `run_transports` | gRPC and Cap'n Proto, 2 block sizes, programs that fail | `NoServerLeft`, `TestedTransportsEcho`, `PointsAreOwn`, `PassedRunsAreGraphed` |
| `calculator` | the client program, and a script of nested functions, callbacks and errors; a connection that may break | `AssertionsHold`, `ReadsAreRight`, `OneRoundTrip`, `ClientEnds` |
| `fb_greeter` | two clients, 2 greetings, 2 server processes | `HelloIsOwn`, `EveryClientEnds` |
| `capnp_stream` | two clients, 3 strings, window 2 | `StreamTypeOK`, `ReturnsAll`, `VecIsStable`, `EveryWaitEnds` |
| `grpc_greeter` | a blocking and two asynchronous clients, 2 server processes, a network that breaks or goes silent | `TypeOK`, `FrameIsThere`, `LineIsResult`, `EveryCallEnds` |

One run refutes something the repository says of the code, and TLC's
counterexample shows how:

| Run | Instance | Refutes | Because |
|---|---|---|---|
| `fb_greeter_raced` | two clients, 1 greeting | `GreetsItsCaller`: "simply a combination" of streaming and what `SayHello` does (`server.cpp:46-47`) | `SayHello` has a builder of its own, the streaming handlers share `mb_` (62) |

Four more disagreements can be read off the models without a run of their own; each is an
outcome the model has, and the property named with it says what remains true:

* `run_transports.py` neither waits for a server to listen (59) nor for the end of the
  one before it (118), so that its "Sanity test that echo works" (76) can fail although
  every program does what it should; `TestedTransportsEcho` says what it is good for
  nonetheless.
* Its patterns (140, 141) want a decimal point, and `cout` prints a whole number, such as
  the deviation of a single operation, without. A `None` is left behind, and `errorbar` (219)
  raises on it: behind all measurements no graph is written, not even of the complete runs,
  contrary to "Run transport test for the give parameters and graph results" (line 3).
  In the model `Draw` then ends in `"raised"`; a graph that is drawn has all runs that passed
  (`PassedRunsAreGraphed`).
* The deadline of `grpc_transport.cc:158-160`, and that of `flatbuffers_transport.cc:152-154`, is set
  when the call has been created without one: `sendReq` waits for ever on a network that
  goes silent, but nobody else does (`EveryRunEndsUnlessSilent`).
* Over RSocket a write is acknowledged before it has arrived (`HandleRequestChannel` takes what is
  there), contrary to "the server just acknowledges when the bulk data has finished"
  (`src/README.md:43-44`), and an echo cannot be verified, contrary to lines 47-49
  (`EchoNeverVerified`).

The type invariants and the inductive invariants (`IInv`, `FilesInv` and the like) are
proved (section 4); `CapnpStream` and `GrpcGreeter` have their type
invariants checked as well.

The properties in words:

* `CompleteReply`: when `sendReq` has returned, the server executed exactly the
  request sent, and the reply is the whole response of that execution.
* `NoInvalidReply`: the client's checks never fail, but for a read of a negative
  number of blocks, whose response has no header.
* `TruncatedOnlyIfBroken`: the server executes part of a request only when the
  stream broke. `NeverTruncated`: over Cap'n Proto it never does.
* `AbortsOnlyWithCause`: what can take the server down, with the calls of every
  other client. Over gRPC it is any call whose stream breaks before its first buffer
  arrives (the Read loop ends, and the callback throws on an empty request), one whose
  request really is empty (a negative `--block_count`), or one that asks for blocks the
  server cannot make (a negative `--block_size`, or more than there is memory for). Over Cap'n Proto
  it is the last two. Nothing else is: not a stream that breaks further on, no order of
  several clients' calls, and not a call that comes before the callback is registered.
* `ImplementsReqReply`: the refinement above.
* `EveryRunEnds`: every client's program ends, on a network that delivers or breaks.
  `EveryRunEndsUnlessSilent`: on any other, but for a client whose own stream went silent.
* `EachMessageAlone`: a builder has in it the next buffer of its message, or
  nothing. `ImplementsGrpc`: the FlatBuffers transport behaves as the gRPC
  transport does; it is `GrpcTransport`'s `Spec` as a property.
* `OneOwner`: a `CallData` that exists is with exactly one thread, or with gRPC for
  one operation, or in the queue with one event, and what was deleted is nowhere.
  `ServedOnce`: `Finish` is called on calls that have no answer, and no two objects
  have the same call. `OwnGreeting`: a client prints the greeting of the name it sent.
  `AlwaysAccepting`: the server has as many objects open for calls as threads in
  `HandleRpcs`; with several threads a missing replacement stays hidden from the
  clients until the last object is used up.
* `EveryCallEnds`: every call of the greeters has a result. For the synchronous one, which sets
  no deadline, a call whose network went silent is the exception; for the asynchronous one
  the network is assumed not to stay silent (fairness).
* `EchoNeverVerified`: over RSocket no echo of a block or more is completed,
  whichever of the client's two threads comes first and whatever the lambdas make of a reply.
* `LatencyIsTransport`: the latency of an operation is the time outside of the
  server's processing, too long by less than a microsecond, and never zero.
* `NoServerLeft`: whenever the script is between two turns or has ended, by an
  exception too, every server was told to end. `TestedTransportsEcho`: a transport
  is measured only if an echo was answered by one of its servers. `PointsAreOwn`:
  the two numbers at a point that is drawn are those of one run of that transport and
  value that passed, whatever failed runs have left in the file.
  `PassedRunsAreGraphed`: if anything is drawn, the last run that passed with a value is,
  with both its numbers.
* `ReadsAreRight`: a read of the calculator returns the value of its expression
  (`ValueOf`), or fails if it has none. `AssertionsHold`: the client program's
  assertions do, unless it waits for an expression without a value. `OneRoundTrip`: the server can answer a read with what the client
  has sent up to it, but for calls back, as the client's comments say.
  `ClientEnds`: a client that waits is answered, called back or told.
* `HelloIsOwn`: the shared builder never touches an answer to `SayHello`.
  `GreetsItsCaller`: a client's stream has its own greetings, all of them, or
  ends with an error. With one client it holds (proved), with two it does not.
  `EveryClientEnds`: a client of the FlatBuffers greeter always ends.
* `ReturnsAll`: when `wait` returns, all strings went there and back in order.
  `VecIsStable`: what the server's chain refers to does not change under it.
* `FrameIsThere`: gRPC writes a result only while `SayHello` is running.
  `LineIsResult`: what is printed is the outcome of the call.

**Bounds.** Two clients are needed for one client's failure to hit another's
call, and each client's calls interact with those of others only through the
server process. Two operations per client are needed for anything left over from
one call to reach the next; a third begins in a state the second could have
begun in. Two server processes are needed for a restart during a run. Two
blocks make a message of three buffers, so that there is a first, a middle and a
last one and a window of one message stops a writer on the way; `Window = 1` is
the tightest flow control. `capnp` has a window of 2, so that `done` is sent
while a chunk is still on its way (with 1 the order of the two would not matter);
three buffers still fill it. Two block contents are enough to tell an echo of the
wrong block. Block counts 2, 1 and -1 cover the loop with several turns, few and
none. The ways to take the server down by a request are spread over three runs: `capnp` has an empty request, `fb_builders` a block of negative size, and in `grpc`
(and `fb_builders`) `Memory` is less than two
blocks, so that the echo, and the server behind it, may or may not get the memory for them; in `grpc` and `capnp`
there is also a client that may never take it down by what it asks for. A client
whose own request cannot be filled is in all three. That there is no other way, for any clients and sizes, is proved. The workloads that a run leaves out are covered by the proofs, which hold for
all of them. `grpc` has silent streams, `fb_builders`, whose calls are
those of `grpc`, has none, so that what ends a run there is the order of the
calls alone. Symmetry (of the clients) is used in `fb_greeter_raced` only. The bound of
`Boot` (`MaxBoots`) and `OpCount` are the only bounds in guards; `OpCount` is the
program's own, for each client. `rsocket` has three reads, so that the lambda of an operation
that is over meets a later one and a request that is gone is sent; `Garbage` has a buffer
of each kind the two programs tell apart, without which no read would pass.

For the asynchronous greeter, two threads are what it takes to have the same object in two
places, and two calls of one client to confuse their results. There is an address
for each thread's waiting object and for each call, so that `new` never fails,
and with two calls on two threads an address is used again.

`run_transports` has two transports, so that a server meets the one before, and two
values, so that a run that failed is followed by another in the same file. `timing`
has microseconds of three ticks, for a rest of zero, one and two, and time for two
operations with such rests; `MaxTime` bounds what is followed. Two clients are what it
takes to race for `mb_`; two greetings let a handler begin a message while another is
in any part of one, and let the stream break before, between and behind them.
`capnp_stream` has more strings than fit in the window.
`calculator` has the whole program as it stands, and a script that adds what it
never does: a quotient, wrong parameters, functions that call functions and the
client. The data of the calculator is fixed by the script, so the state space is that of
the orders in which things happen. `NumGreetings`, `NumStrings` and the lengths of the
scripts are the programs' own numbers made small; `MaxBoots` and `MaxTime` are the only
bounds beside them.

**Fairness.** `Fairness` is weak fairness of each client's steps, of each
handler's (or event loop's) steps for one client: threads
that can run do, and callbacks that are ready are run.
This is what the operating system and the libraries give. It includes that a network which has not gone
silent delivers what was sent or breaks, as delivery is part of these steps. Whether a stream
breaks or goes silent is left to the network (`Break`, `Stall`; there is no `Stall` over
Cap'n Proto, nor in the samples other than `GrpcGreeter`), and it is not assumed that a
server is ever started or stopped, or that a silent stream ever breaks.
Weak fairness suffices, as a step of one client's call that is enabled stays
enabled until it is taken or its stream breaks, and then another is. In
`AsyncGreeter` it is weak fairness of every server thread, of both threads of a
client, and of gRPC matching a call with a waiting object and ending a `Finish`.
In `FbGreeter`, `GrpcGreeter` and
`CapnpStream` of each client and of the handlers or the event loop; in `Calculator`
of the server's event loop alone: `OneRoundTrip` assumes nothing of the client, and
`ClientEnds` has the client's fairness as its hypothesis.

**Deadlock** is checked in every run but `timing`, which stops where time is up. The only states without a step of the
system are those where every client has ended (`AllEnded`, `Ended`), and those where all
results are in (`AllComplete`): the greeter's programs then wait for ever, as their
comments say.

## 4. What is proved

With TLAPS, for every value of the constants that satisfies the named
assumptions, any set of clients, workloads and block counts (negative ones
included), any window and any number of server processes:

| Theorem (`GrpcTransport_proofs`) | Statement |
|---|---|
| `Invariance` | `Spec => []IInv` |
| `TypeCorrect`, `RepliesComplete`, `RepliesValid`, `TruncationSeen` | `Spec => []` of `TypeOK`, `CompleteReply`, `NoInvalidReply`, `TruncatedOnlyIfBroken` |
| `AbortsExplained` | `Spec => AbortsOnlyWithCause`, for any block sizes and any memory |
| `Refinement` | `Spec => ImplementsReqReply` |

| Theorem (`CapnprotoTransport_proofs`) | Statement |
|---|---|
| `Invariance` | `Spec => []IInv` |
| `TypeCorrect`, `RepliesComplete`, `NoTruncation` | `Spec => []` of `TypeOK`, `CompleteReply`, `NeverTruncated` |
| `AbortsExplained` | `Spec => AbortsOnlyWithCause`, for any block sizes and any memory |
| `Refinement` | `Spec => ImplementsReqReply` |

| Theorem (`GrpcTransport_proofs`, FlatBuffers) | Statement |
|---|---|
| `BuildersInvariant` | `FbSpec => []FbIInv` |
| `MessagesAlone` | `FbSpec => []EachMessageAlone` |
| `GrpcImplemented` | `FbSpec => ImplementsGrpc`, so that every theorem on the gRPC transport holds of this one |

| Theorem (`AsyncGreeter_proofs`) | Statement |
|---|---|
| `Invariance` | `Spec => []IInv` |
| `TypeCorrect`, `ObjectsOwned`, `CallsServedOnce`, `GreetingsOwn` | `Spec => []` of `TypeOK`, `OneOwner`, `ServedOnce`, `OwnGreeting` |
| `ServerAccepts` | `Spec => []AlwaysAccepting`, for any set of threads and addresses |

| Theorem (`RsocketTransport_proofs`) | Statement |
|---|---|
| `TypeCorrect`, `EchoesAreNeverVerified` | `Spec => []` of `TypeOK`, `EchoNeverVerified`, for any garbage |

| Theorem (`RunTransports_proofs`) | Statement |
|---|---|
| `TypeCorrect`, `ServersAreStopped`, `EchoBeforeTests` | `Spec => []` of `TypeOK`, `NoServerLeft`, `TestedTransportsEcho` |
| `PointsOwn`, `RunsGraphed` | `Spec => []` of `PointsAreOwn`, `PassedRunsAreGraphed`, for files of any length |

| Theorem (`FbGreeter_proofs`) | Statement |
|---|---|
| `TypeCorrect`, `HelloAnswered` | `Spec => []` of `TypeOK`, `HelloIsOwn`, for any clients |
| `LoneClientGreeted` | `Spec => []GreetsItsCaller` for a single client, any number of greetings and server processes |

| Theorem (`StandAlone_proofs`) | Statement |
|---|---|
| `LatencyMeasured`, `TimingTypeCorrect` | `TimingSpec => []` of `LatencyIsTransport`, `TimingTypeOK`, for any clocks and any number of operations |
| `GreeterFrames`, `GreeterLines`, `GreeterTypeCorrect` | `Spec => []` of `FrameIsThere`, `LineIsResult`, `TypeOK` (`GrpcGreeter`), for any clients |
| `StreamReturnsAll`, `StreamTypeCorrect` | `StreamSpec => []` of `ReturnsAll`, `StreamTypeOK`, for any number of strings and any window |
| `StreamVecIsStable` | `StreamSpec => VecIsStable` |
| `CalculatorReadsAreRight`, `CalculatorAssertionsHold`, `CalculatorTypeCorrect` | `CalcSpec => []` of `ReadsAreRight`, `AssertionsHold`, `CalcTypeOK`, for any scripts and expressions |
| `CalculatorReference` | the reference `ValueOf`, a recursive function, is defined for every node of every expression and is what its definition says |

**Assumptions.** `NoBlockAssumption` (a header's block is no data block),
`MemoryAssumption` (a number of bytes), `GarbageAssumption` (buffers),
`ClientAssumption` (workloads and integers), `MaxBootsAssumption`,
`GrpcAssumption`, `CapnpAssumption` (a positive window); for the greeter
`NoObjectAssumption` and `CallAssumption` (the null values are none of the others,
and clients make a natural number of calls), for the script
`RunTransportsAssumption` (sequences that are not empty), for the FlatBuffers greeter
`FbGreeterAssumption`; `TimingAssumption` (whole ticks, at least one to the microsecond),
`GrpcGreeterAssumption` (a client is of one kind, and the values that are no name are
none), `CapnpStreamAssumption` (a positive window). For the calculator `ScriptAssumption` says what
the types of `calculator.capnp` and the order of a program do: a client names only results it
already has, calls only functions, and an expression is one tree; `ExpectationAssumption` that
what a client asserts is the value of its expression, if that has one (only
`CalculatorAssertionsHold` uses it). TLC evaluates all of them in the runs of their modules, the
last one on the numbers of `calculator-client.c++`.

**The argument.** `CompleteReply` is not inductive: that a reply is complete
when `sendReq` returns depends on what happened to every buffer before. `IInv`
says so in parts, each a statement about one client:

* `StreamInv`: what was written is a prefix of what is to be written, what was
  read a prefix of what was written, in both directions, and the client
  half-closes (sends `done`) behind the whole request;
* `ServedInv`: nothing is written before the callback has run; a response is one
  to what the handler had read, which is the whole request unless the stream
  broke (always, over Cap'n Proto); a handler that returned normally wrote it all;
* `CallInv`: which states of the client, the stream and the handler go together;
* `RequestInv`, `CallbackInv`: the request is one its workload fills, and who
  reads (or listens) has the callback.

At the status OK the reply is `s2c`, which is `sndMsg`, which is a response to
`rcvMsg`, which is `req`. `NoInvalidReply` follows with `ResponsesAccepted`
(`RtPayload_proofs`): every response to a filled request passes the client's
checks, but for a read of fewer than zero blocks. `AbortsOnlyWithCause` follows as
the callback throws on a prefix of a filled request only if it is empty, or if the blocks
its header asks for, which are the client's own, may not be made: a prefix has the header of the
whole, and no more blocks than it (`MayRejectCause` in `RtPayload_proofs`).

An action changes the state of one client only, but for those that end the
server, so the proof of the step is: a lemma per action for the client it is of,
`OthersSame` for the other clients, `CallsDieInv` for the end of the server. The
refinement is proved the same way on top of `Invariance`: the actions that call the
callback, return and fail map to `Execute`, `Return` and `Fail`, every other one
of a call to a stutter.

The FlatBuffers transport adds two small facts to `IInv` (`FbIInv`): a builder has the
next buffer or nothing, and that of a handler that writes nothing yet is empty.
They make `WriteReq` a `Write` and `WriteRsp` a `HandlerWrite`; building is a
stutter; so `IInv` is kept by its own proof.

For the greeter `OneOwner` needs to know what each owner may do next: `ThreadInv`
and `StatusInv` say which status an object has at each place, `CallInv` that a
call whose object has not finished it has no answer. With them each step moves an
object from one owner to the next, which is proved action by action.

Over RSocket the invariant (`EchoInv`) follows the one buffer that can come back to a client that
echoes blocks: its only channel was opened by the header of its request, so the response
has one buffer at most, and what is in the reply, on its way and still to be mapped is
never more, whatever the contents have become. The client compares two or more, so
`CheckReply` does not accept, and there is no second operation whose reply the first one's lambda could reach.
For the script `NoServerLeft` needs that while a turn is running all servers but
the last have been told to end, and `TestedTransportsEcho` that the transports
before the current turn of `run_echo_test` have been served; a server that is told to end, or
goes, keeps both. For the FlatBuffers greeter `HelloIsOwn` needs that a call in `SayHello` has no
reply but the client's name, which the steps on `mb_` leave alone; with a single client
`mb_` cannot be raced for, so all that is sent, read and printed is its name.

`AlwaysAccepting` compares the sizes of two sets that no step looks at as a whole.
`AcceptInv` has them finite and of one size, and `StatusInv` and `OneOwner` tell what a
step does to them: nothing, one more in both (`HandleRpcs` makes an object), or one
exchanged for another (`Spawn`: the object that has a call goes, the one it made comes).
No finiteness of threads or addresses is assumed: the server starts with none of either.

What `parse_file` makes of a file depends on every line in it. `FilesInv` says what a
file is, `HoldsRuns`: runs with growing numbers, each from its header on, and cut off
anywhere. `ParserInv` says of the lines read so far that `s` is what the last of them
leaves (`RunStats`), and `stats` what the last run that passed with each value has
printed (`Drawn`). A line then finds in `s` what the line before it left, which is of its
own run, as only a header follows anything else: so `parse_file` does not raise, and a run that was
cut off is forgotten at the next header. `Draw` gets to its end only if no number is `None`, and then
the numbers of `Drawn` are those the runs printed. A file grows by a run that fits behind it
(`OutputLines`, `AppendRun`).

For the measurements `OperationInv` splits the time of an operation at the two ends of
the server's measurement: up to the first all of it is `outside`, and from the second on
all but the processing time, in whole microseconds, with less than one lost (`CutOff`).
For the synchronous greeter `PlaceInv` says which states of a call a client can be
in where, and that its queue has a tag only while it waits and once the call is
completed; without the place the second half would not be inductive. For the streaming
sample `StringsInv` says that each side has a prefix of the strings the other has sent, and `ProgressInv` that `done` is
behind the last one; `VecIsStable` follows as `svcVec` has all of them by then and
`SendChunk` has none to add.

For the calculator the reference comes first. `ValueOf` is a recursive function, of which
nothing is known but that it satisfies its equation if any function does. That one does
(`ValuesExist`) is shown without induction, of which the prover knows none over expressions:
a node refers only to nodes `Before` it (of earlier steps, or earlier in its expression), of any
set of nodes one is a first (`FirstOccurrence`), and a first node up to which there are no values
has values up to it after all, glued together from those of the nodes before it. From the
equation follow what a call is worth (`BrokenCall`, `WholeCall`) and that an expression with a
parameter its function does not have has no value wherever the parameter stands
(`OutOfRangeIsBroken`), which is what lets `KJ_REQUIRE` throw out of the middle of
`evaluateImpl`. The invariant `CalcIInv` then says of every promise of every tree that it
is pending or what its node is worth, given the parameters the tree's function was called with;
that these are all there (`CanBeCalled`) and stay what they are (`CanBeCalledKept`) although the
caller's other promises go on; and that a tree is there only as long as its caller is
(`NamedBelow`). `ReadsAreRight` and `AssertionsHold` alone are not inductive, as what a read
returns is what an evaluation made of its promises long before.

**Only model-checked.** Liveness under fairness, which is out of the
prover's reach: `EveryRunEnds`, `EveryRunEndsUnlessSilent`, `EveryCallEnds`, `EveryClientEnds`, `EveryWaitEnds`,
`ClientEnds`, `OneRoundTrip`. Everything else that the passing runs check is proved.

## 5. What is not modelled

* Bytes, lengths and lifetimes: serialization, copies, and whether the memory a
  buffer points to is still there; memory that is short anywhere but for the blocks of a request or
  response, which would end a process as `Exit` does. With gRPC, FlatBuffers and Cap'n Proto the containers
  that own it live as long as the message, and with Cap'n Proto as long as the
  object whose promises use it. With RSocket they do not, which is modelled by its
  outcomes.
* The throughput of `rt_client` and its overflows: `payloadBytes` is an `int32_t`, so
  it is wrong from 2 GiB per operation on, and eight times it from 256 MiB on. Nothing
  says which sizes are meant, so there is nothing to check it against. Means and
  deviations are boost's.
* Clocks that run at different rates: `LatencyIsTransport` is then false.
* A client process that is killed. To the server it is a broken stream, which is
  modelled; what the dead client would have seen is of no interest.
* What a signal handler may do (`sigIntFn` calls glog and `exit`); `Exit` is
  one step. A signal that interrupts a thread inside glog waits for a lock that thread
  has, and nothing in the repository says that it does not.
* That the asynchronous greeter's server ends itself over one lost call is modelled
  (`AssertFails`), but no property is about it: the code asserts it.
* Authentication, name resolution and everything inside gRPC, RSocket and Cap'n Proto
  but what section 2 lists; the parsing of command lines.
* The null transport: its bodies are empty, and every run of it ends with "empty reply".
* The RSocket greeter: one request and one response through the library, in programs
  that end at a newline.
* `sample_runs.py`: two loops that run the other script and look at nothing of it. (With
  `-d` it ends at once, as it uses a name it does not define, at lines 30 and 42.)
* The layout of the graphs and the debug output of `run_transports.py`, the Dockerfile, the CMake files and other tools.

## 6. Plan

All components with behaviour of their own are modelled. What is left:

1. The greeters as implementations of one abstract call, as the transports are of
   `ReqReply`, checked and proved.
2. The throughput at the widths of the code, should the sizes it is meant for be
   written down.
