------------------------------- MODULE RtTiming -------------------------------
(***************************************************************************)
(* How rt_client measures: the duration of each sendReq by its own clock,  *)
(* less the time the server says it spent on the random blocks of a read   *)
(* or on parsing those of an echo.  The server takes that from its own     *)
(* clock, which counts from somewhere else, and cuts it down to whole      *)
(* microseconds.  What is left is taken for the latency of the transport,  *)
(* and the throughput is divided by it.                                    *)
(*                                                                         *)
(* Time passes between any two steps.  Both clocks run at the same rate,   *)
(* and a request takes at least a tick, the unit both of them count in.    *)
(***************************************************************************)
EXTENDS Integers, Sequences

CONSTANTS
    OpCount,    \* --op_count
    TicksPerUs, \* the ticks of a microsecond
    Offset,     \* how far the server's clock is ahead of the client's
    MaxTime     \* bound: the ticks after which a run is not followed

ASSUME TimingAssumption ==
    /\ OpCount \in Nat
    /\ TicksPerUs \in Nat \ {0}
    /\ Offset \in Int
    /\ MaxTime \in Nat

VARIABLES
    workload,   \* --workload
    now,        \* the client's clock
    at,         \* where the current operation is
    start,      \* start, in the client
    fillStart,  \* start, in the server's PayloadCreator
    processUs,  \* msg_process_time_us of the response
    latAcc,     \* the latencies so far
    outside     \* what passed of each operation while the server did not measure

timingVars == <<workload, now, at, start, fillStart, processUs, latAcc, outside>>

TimingTypeOK ==
    /\ workload \in {"write", "read", "echo"}
    /\ now \in 0..MaxTime
    /\ at \in {"loop", "request", "fill", "response", "passed"}
    /\ start \in 0..now
    /\ fillStart \in Int
    /\ processUs \in Nat
    /\ latAcc \in Seq(Int) /\ Len(latAcc) <= OpCount
    /\ outside \in Seq(Nat)

TimingInit ==
    /\ workload \in {"write", "read", "echo"}
    /\ now = 0
    /\ at = "loop"
    /\ start = 0
    /\ fillStart = 0
    /\ processUs = 0
    /\ latAcc = <<>>
    /\ outside = <<>>

\* Time passes.
Tick ==
    /\ now < MaxTime
    /\ at # "passed"
    /\ now' = now + 1
    /\ outside' = IF at \in {"request", "response"}
                  THEN [outside EXCEPT ![Len(outside)] = @ + 1] ELSE outside
    /\ UNCHANGED <<workload, at, start, fillStart, processUs, latAcc>>

-----------------------------------------------------------------------------
(* rt_server.cc: the fill of a response                                    *)

\* steady_clock::now() in the server.
ServerNow == now + Offset

\* A write's response says nothing of the time, which leaves it 0.
FillWrite ==
    /\ at = "request"
    /\ workload = "write"
    /\ outside[Len(outside)] > 0
    /\ processUs' = 0
    /\ at' = "response"
    /\ UNCHANGED <<workload, now, start, fillStart, latAcc, outside>>

\* start, before the blocks of a read are made or those of an echo parsed ...
FillStart ==
    /\ at = "request"
    /\ workload # "write"
    /\ outside[Len(outside)] > 0
    /\ fillStart' = ServerNow
    /\ at' = "fill"
    /\ UNCHANGED <<workload, now, start, processUs, latAcc, outside>>

\* Seeded bug: the time is rounded up.
FillEndRoundedUp ==
    /\ at = "fill"
    /\ processUs' = (ServerNow - fillStart + TicksPerUs - 1) \div TicksPerUs
    /\ at' = "response"
    /\ UNCHANGED <<workload, now, start, fillStart, latAcc, outside>>

\* ... and end, behind them: duration_cast drops what is no whole microsecond.
FillEnd ==
    /\ at = "fill"
    /\ processUs' = (ServerNow - fillStart) \div TicksPerUs
    /\ at' = "response"
    /\ UNCHANGED <<workload, now, start, fillStart, latAcc, outside>>

-----------------------------------------------------------------------------
(* rt_client.cc: the loop of main                                          *)

\* start is taken, and sendReq called.
SendReq ==
    /\ at = "loop"
    /\ Len(latAcc) < OpCount
    /\ start' = now
    /\ at' = "request"
    /\ outside' = Append(outside, 0)
    /\ UNCHANGED <<workload, now, fillStart, processUs, latAcc>>

\* sendReq returns, end is taken, and the rest is the latency.
Measure ==
    /\ at = "response"
    /\ latAcc' = Append(latAcc, (now - start) - TicksPerUs * processUs)
    /\ at' = "loop"
    /\ UNCHANGED <<workload, now, start, fillStart, processUs, outside>>

PrintStats ==
    /\ at = "loop"
    /\ Len(latAcc) = OpCount
    /\ at' = "passed"
    /\ UNCHANGED <<workload, now, start, fillStart, processUs, latAcc, outside>>

-----------------------------------------------------------------------------

TimingNext == Tick \/ SendReq \/ FillWrite \/ FillStart \/ FillEnd \/ Measure \/ PrintStats

TimingSpec == TimingInit /\ [][TimingNext]_timingVars

-----------------------------------------------------------------------------
(* Properties                                                              *)

\* What is counted as the latency of an operation is the time that passed
\* outside of the server's processing, too long by less than the microsecond
\* that was cut off: never the processing of another operation, never less
\* than what passed, and so never nothing, by which the throughput would be
\* divided.
LatencyIsTransport ==
    \A i \in DOMAIN latAcc :
        /\ latAcc[i] - outside[i] \in 0..(TicksPerUs - 1)
        /\ latAcc[i] > 0

-----------------------------------------------------------------------------
(* The inductive invariant behind LatencyIsTransport                       *)

\* An operation under way has an entry in outside and none in latAcc; what it
\* has so far is what passed up to the fill, and then, with what the fill took
\* in whole microseconds, all of it but less than a microsecond.
OperationInv ==
    LET passed == outside[Len(outside)]
    IN  /\ Len(outside) = Len(latAcc)
                + (IF at \in {"request", "fill", "response"} THEN 1 ELSE 0)
        /\ at \in {"request", "fill", "response"} => Len(latAcc) < OpCount
        /\ at = "request" => now - start = passed
        /\ at = "fill" =>
              /\ (fillStart - Offset) - start = passed
              /\ passed > 0
              /\ fillStart <= ServerNow
        /\ at = "response" =>
              /\ (now - start) - TicksPerUs * processUs - passed \in 0..(TicksPerUs - 1)
              /\ passed > 0

TimingIInv == TimingTypeOK /\ OperationInv /\ LatencyIsTransport

=============================================================================
