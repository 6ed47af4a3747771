------------------------------ MODULE RtPayload ------------------------------
(***************************************************************************)
(* The messages rt_client and rt_server exchange: a message (rt::Msg) is a *)
(* sequence of buffers, each buffer one serialized rpc_transports.Payload, *)
(* which is either a header or a data block.  The pure functions of the    *)
(* two programs are operators here: what fill() can produce for a request, *)
(* what ServerRcvFn can answer, and what the client accepts.               *)
(*                                                                         *)
(* The content of a data block is a member of Block (two blocks differ iff *)
(* memcmp says so); randombytes_buf picks any member.                      *)
(***************************************************************************)
EXTENDS Integers, Sequences

CONSTANTS
    Block,      \* the contents a data block can have
    NoBlock,    \* what a header has in place of a data block
    Memory      \* the bytes of data blocks a program can allocate for certain

ASSUME NoBlockAssumption == NoBlock \notin Block
ASSUME MemoryAssumption == Memory \in Nat

Workloads == {"write", "read", "echo"}

ReqTags == {"w_req", "r_req", "e_req"}
RspTags == {"w_rsp", "r_rsp", "e_rsp"}

\* One serialized Payload. cnt and size are the buf_count and buf_size of a
\* request header (0 in every other buffer); the processing time of a response
\* header is left out.
Buf == [tag : ReqTags \cup RspTags \cup {"data"},
        cnt : Int,
        size : Int,
        blk : Block \cup {NoBlock}]

Msg == Seq(Buf)

Hdr(tag, n, size) == [tag |-> tag, cnt |-> n, size |-> size, blk |-> NoBlock]
Data(b)           == [tag |-> "data", cnt |-> 0, size |-> 0, blk |-> b]

\* The number of iterations of "for (i = 0; i < (blockCount + 1); ++i)":
\* none, so not even a header, when blockCount is negative.
BufCount(n) == IF n < 0 THEN 0 ELSE n + 1

\* The messages made of a header and n data blocks of any content.
Framed(hdr, n) ==
    {[i \in 1..BufCount(n) |-> IF i = 1 THEN hdr ELSE Data(f[i-1])] :
        f \in [1..n -> Block]}

\* make_unique<uint8_t[]>(size) on the first of n blocks: a negative size, as
\* the size_t it becomes, is more than an array may have (bad_array_new_length).
CannotMake(n, size) == n > 0 /\ size < 0

\* The blocks may be more than there is memory for (bad_alloc), or so is the
\* size of one.
MayNotMake(n, size) == CannotMake(n, size) \/ (n > 0 /\ n * size > Memory)

-----------------------------------------------------------------------------
(* rt_client.cc: the three PayloadCreators of requests.                    *)

ReqTag(w) == CASE w = "write" -> "w_req"
               [] w = "read"  -> "r_req"
               [] OTHER       -> "e_req"

\* The blocks the client itself makes for a request.
ReqBlocks(w, n) == IF w = "read" THEN 0 ELSE n

\* The requests the client may send for workload w, --block_count n and
\* --block_size size.
FillReq(w, n, size) ==
    IF w = "read" THEN {<<Hdr("r_req", n, size)>>}
                  ELSE Framed(Hdr(ReqTag(w), n, size), n)

-----------------------------------------------------------------------------
(* rt_server.cc: ServerRcvFn and the three PayloadCreators of responses.   *)

\* The requests ServerRcvFn refuses: "empty request", "no header", "unexpected
\* header type". Only the first buffer is looked at.
Refuses(req) == ~(req # <<>> /\ req[1].tag \in ReqTags)

\* The requests on which ServerRcvFn throws: those it refuses, and a read whose
\* blocks cannot be made. The sizes are the ones the header asks for.
Rejects(req) ==
    \/ Refuses(req)
    \/ /\ ~Refuses(req) /\ req[1].tag = "r_req"
       /\ CannotMake(req[1].cnt, req[1].size)

\* The requests on which it may throw: also a read or an echo of more than
\* there is memory for. An echo copies the blocks that were received.
MayReject(req) ==
    \/ Rejects(req)
    \/ /\ ~Refuses(req)
       /\ \/ req[1].tag = "r_req" /\ MayNotMake(req[1].cnt, req[1].size)
          \/ req[1].tag = "e_req" /\ MayNotMake(Len(req) - 1, req[1].size)

\* Seeded bug: the echo keeps the request's header instead of making its own.
ResponsesEchoAsIs(req) ==
    CASE req[1].tag = "w_req" -> {<<Hdr("w_rsp", 0, 0)>>}
      [] req[1].tag = "r_req" -> Framed(Hdr("r_rsp", 0, 0), req[1].cnt)
      [] OTHER -> {req}

\* The responses ServerRcvFn may produce for a request it does not reject.
\* A write is acknowledged whatever its blocks; a read is answered with as
\* many random blocks as the header asks for; an echo with the buffers that
\* were received, whatever its header says, behind a new header.
Responses(req) ==
    CASE req[1].tag = "w_req" -> {<<Hdr("w_rsp", 0, 0)>>}
      [] req[1].tag = "r_req" -> Framed(Hdr("r_rsp", 0, 0), req[1].cnt)
      [] OTHER -> {[i \in 1..Len(req) |->
                        IF i = 1 THEN Hdr("e_rsp", 0, 0) ELSE req[i]]}

-----------------------------------------------------------------------------
(* rt_client.cc: what the client accepts as a reply.                       *)

\* getRemoteProcessTimeUs does not throw: any response header will do, the
\* one of another workload included.
HasRspHdr(reply) == reply # <<>> /\ reply[1].tag \in RspTags

\* Seeded bug: the buffers are compared, but not how many there are.
EchoIsValidShort(req, reply) ==
    \A i \in 2..Len(reply) : i \in 1..Len(req) /\ req[i] = reply[i]

\* EchoReplyValidator::isValid; the header is skipped.
EchoIsValid(req, reply) ==
    /\ Len(req) = Len(reply)
    /\ \A i \in 2..Len(req) : req[i] = reply[i]

\* The checks the client's loop makes after sendReq has returned.
Accepts(w, req, reply) ==
    HasRspHdr(reply) /\ (w = "echo" => EchoIsValid(req, reply))

=============================================================================
