-------------------------- MODULE RtPayload_proofs ---------------------------
(***************************************************************************)
(* Facts about the messages of rt_client and rt_server, and about the      *)
(* prefixes that a stream delivers, for the proofs about the transports.   *)
(***************************************************************************)
EXTENDS RtPayload, SequencesExt, SequenceTheorems, TLAPS

-----------------------------------------------------------------------------
(* Prefixes                                                                *)

\* A prefix, element by element: what a reader has of what was written.
LEMMA PrefixPointwise ==
    ASSUME NEW S, NEW s \in Seq(S), NEW t \in Seq(S)
    PROVE  IsPrefix(s, t) <=> /\ Len(s) <= Len(t)
                              /\ \A i \in 1..Len(s) : s[i] = t[i]
<1>1. ASSUME Len(s) <= Len(t)
      PROVE  /\ SubSeq(t, 1, Len(s)) \in Seq(S)
             /\ Len(SubSeq(t, 1, Len(s))) = Len(s)
             /\ \A i \in 1..Len(s) : SubSeq(t, 1, Len(s))[i] = t[i]
  <2>1. 1 \in 1..Len(t)+1 /\ Len(s) \in 0..Len(t)
    BY <1>1, LenProperties
  <2> QED BY <1>1, <2>1, LenProperties, SubSeqProperties
<1>2. SubSeq(s, 1, Len(s)) = s
  BY SubSeqFull
<1>3. ASSUME Len(s) <= Len(t)
      PROVE  s = SubSeq(t, 1, Len(s)) <=> \A i \in 1..Len(s) : s[i] = t[i]
  <2>1. CASE \A i \in 1..Len(s) : s[i] = t[i]
    <3> DEFINE u == SubSeq(t, 1, Len(s))
    <3>1. u \in Seq(S) /\ Len(u) = Len(s) /\ \A i \in 1..Len(s) : s[i] = u[i]
      BY <1>1, <1>3, <2>1
    <3> HIDE DEF u
    <3>2. s = u
      BY <3>1, SeqEqual
    <3> QED BY <3>2, <2>1 DEF u
  <2>2. CASE s = SubSeq(t, 1, Len(s))
    BY <1>1, <1>3, <2>2
  <2> QED BY <2>1, <2>2
<1> QED BY <1>2, <1>3 DEF IsPrefix

\* Nothing has been read yet.
LEMMA PrefixEmpty ==
    ASSUME NEW S, NEW t \in Seq(S)
    PROVE  IsPrefix(<<>>, t)
<1> DEFINE e == <<>>
<1>1. e \in Seq(S) /\ Len(e) = 0 /\ Len(t) \in Nat
  BY EmptySeq, LenProperties
<1> HIDE DEF e
<1>2. Len(e) <= Len(t) /\ \A i \in 1..Len(e) : e[i] = t[i]
  BY <1>1
<1>3. IsPrefix(e, t)
  BY <1>1, <1>2, PrefixPointwise
<1> QED BY <1>3 DEF e

\* Reading the next message.
LEMMA PrefixNext ==
    ASSUME NEW S, NEW s \in Seq(S), NEW t \in Seq(S),
           IsPrefix(s, t), Len(s) < Len(t)
    PROVE  /\ Append(s, t[Len(s) + 1]) \in Seq(S)
           /\ IsPrefix(Append(s, t[Len(s) + 1]), t)
<1>1. Len(s) \in Nat /\ Len(t) \in Nat /\ t[Len(s) + 1] \in S
  BY LenProperties, ElementOfSeq
<1> DEFINE a == Append(s, t[Len(s) + 1])
<1>2. /\ a \in Seq(S)
      /\ Len(a) = Len(s) + 1
      /\ \A i \in 1..Len(s) : a[i] = s[i]
      /\ a[Len(s) + 1] = t[Len(s) + 1]
  BY <1>1, AppendProperties
<1>3. \A i \in 1..Len(s) : s[i] = t[i]
  BY PrefixPointwise
<1> HIDE DEF a
<1>4. \A i \in 1..Len(a) : a[i] = t[i]
  BY <1>1, <1>2, <1>3
<1>5. IsPrefix(a, t)
  BY <1>1, <1>2, <1>4, PrefixPointwise
<1> QED BY <1>2, <1>5 DEF a

\* Writing one more message behind what the other side reads.
LEMMA PrefixGrows ==
    ASSUME NEW S, NEW s \in Seq(S), NEW t \in Seq(S), NEW e \in S,
           IsPrefix(s, t)
    PROVE  IsPrefix(s, Append(t, e))
<1>1. Len(s) \in Nat /\ Len(t) \in Nat
  BY LenProperties
<1> DEFINE a == Append(t, e)
<1>2. /\ a \in Seq(S)
      /\ Len(a) = Len(t) + 1
      /\ \A i \in 1..Len(t) : a[i] = t[i]
  BY AppendProperties
<1>3. Len(s) <= Len(t) /\ \A i \in 1..Len(s) : s[i] = t[i]
  BY PrefixPointwise
<1> HIDE DEF a
<1>4. Len(s) <= Len(a) /\ \A i \in 1..Len(s) : s[i] = a[i]
  BY <1>1, <1>2, <1>3
<1>5. IsPrefix(s, a)
  BY <1>2, <1>4, PrefixPointwise
<1> QED BY <1>5 DEF a

\* Having read as many messages as were written is having read them all.
LEMMA PrefixWhole ==
    ASSUME NEW S, NEW s \in Seq(S), NEW t \in Seq(S),
           IsPrefix(s, t), Len(s) = Len(t)
    PROVE  s = t
BY PrefixPointwise, SeqEqual

\* The first message read is the first one written.
LEMMA PrefixFirst ==
    ASSUME NEW S, NEW s \in Seq(S), NEW t \in Seq(S),
           IsPrefix(s, t), s # <<>>
    PROVE  t # <<>> /\ s[1] = t[1]
<1>1. Len(s) \in Nat /\ Len(s) # 0 /\ Len(t) \in Nat
  BY LenProperties, EmptySeq
<1>2. Len(s) <= Len(t) /\ s[1] = t[1]
  BY <1>1, PrefixPointwise
<1>3. Len(<<>>) = 0
  BY EmptySeq
<1> QED BY <1>1, <1>2, <1>3

\* What was read of what was written of a message is a beginning of it.
LEMMA PrefixOfPrefix ==
    ASSUME NEW S, NEW s \in Seq(S), NEW t \in Seq(S), NEW u \in Seq(S),
           IsPrefix(s, t), IsPrefix(t, u)
    PROVE  IsPrefix(s, u)
<1>1. Len(s) \in Nat /\ Len(t) \in Nat /\ Len(u) \in Nat
  BY LenProperties
<1>2. /\ Len(s) <= Len(t) /\ \A i \in 1..Len(s) : s[i] = t[i]
      /\ Len(t) <= Len(u) /\ \A i \in 1..Len(t) : t[i] = u[i]
  BY PrefixPointwise
<1>3. Len(s) <= Len(u) /\ \A i \in 1..Len(s) : s[i] = u[i]
  BY <1>1, <1>2
<1> QED BY <1>3, PrefixPointwise

-----------------------------------------------------------------------------
(* Messages                                                                *)

\* One more message of a sequence that has more.
LEMMA NextMsg ==
    ASSUME NEW s \in Msg, NEW t \in Msg, Len(s) < Len(t)
    PROVE  Append(s, t[Len(s) + 1]) \in Msg
<1>1. Len(s) \in Nat /\ Len(t) \in Nat
  BY LenProperties DEF Msg
<1>2. t[Len(s) + 1] \in Buf
  BY <1>1, ElementOfSeq DEF Msg
<1> QED BY <1>2, AppendProperties DEF Msg

\* A header in front of any blocks is a message, and starts with the header
\* unless the block count is negative.
LEMMA FramedMsg ==
    ASSUME NEW hdr \in Buf, NEW n \in Int, NEW m \in Framed(hdr, n)
    PROVE  /\ m \in Msg
           /\ Len(m) = BufCount(n)
           /\ n >= 0 => m # <<>> /\ m[1] = hdr
           /\ n < 0 => m = <<>>
<1>1. PICK f \in [1..n -> Block] :
          m = [i \in 1..BufCount(n) |-> IF i = 1 THEN hdr ELSE Data(f[i-1])]
  BY DEF Framed
<1>2. BufCount(n) \in Nat
  BY DEF BufCount
<1>3. ASSUME NEW i \in 1..BufCount(n), i # 1
      PROVE  Data(f[i-1]) \in Buf
  <2>1. i - 1 \in 1..n
    BY <1>3 DEF BufCount
  <2>2. f[i-1] \in Block
    BY <2>1
  <2> QED BY <2>2 DEF Data, Buf
<1>4. m \in [1..BufCount(n) -> Buf]
  BY <1>1, <1>3
<1>5. m \in Seq(Buf) /\ Len(m) = BufCount(n)
  BY <1>2, <1>4, LenProperties, IsASeq
<1>6. ASSUME n >= 0 PROVE m # <<>> /\ m[1] = hdr
  <2>1. 1 \in 1..BufCount(n) /\ BufCount(n) # 0
    BY <1>6 DEF BufCount
  <2>2. m[1] = hdr
    BY <1>1, <2>1
  <2> QED BY <1>5, <2>1, <2>2, EmptySeq
<1>7. ASSUME n < 0 PROVE m = <<>>
  BY <1>5, <1>7, EmptySeq DEF BufCount
<1> QED BY <1>5, <1>6, <1>7 DEF Msg

\* Every request the client fills is a message that has no buffer, or begins
\* with the request header of its workload and its block count.
LEMMA FillReqMsg ==
    ASSUME NEW w \in Workloads, NEW n \in Int, NEW size \in Int,
           NEW m \in FillReq(w, n, size)
    PROVE  /\ m \in Msg
           /\ m = <<>> \/ m[1] = Hdr(ReqTag(w), n, size)
<1>1. ReqTag(w) \in ReqTags /\ Hdr(ReqTag(w), n, size) \in Buf
  BY DEF Workloads, ReqTag, ReqTags, Hdr, Buf
<1>2. CASE w = "read"
  <2>1. m = <<Hdr("r_req", n, size)>> /\ ReqTag(w) = "r_req"
    BY <1>2 DEF FillReq, ReqTag
  <2> QED BY <1>1, <2>1 DEF Msg
<1>3. CASE w # "read"
  <2>1. m \in Framed(Hdr(ReqTag(w), n, size), n)
    BY <1>3 DEF FillReq
  <2> QED BY <1>1, <2>1, FramedMsg
<1> QED BY <1>2, <1>3

\* ServerRcvFn answers a message with a message.
LEMMA ResponsesMsg ==
    ASSUME NEW r \in Msg, ~Rejects(r), NEW rsp \in Responses(r)
    PROVE  rsp \in Msg
<1>1. r # <<>> /\ r[1].tag \in ReqTags
  BY DEF Rejects, Refuses
<1>2. Len(r) \in Nat /\ Len(r) # 0 /\ \A i \in 1..Len(r) : r[i] \in Buf
  BY <1>1, LenProperties, EmptySeq, ElementOfSeq DEF Msg
<1>3. \A tag \in RspTags : Hdr(tag, 0, 0) \in Buf
  BY DEF Hdr, Buf
<1>4. CASE r[1].tag = "w_req"
  <2>1. rsp = <<Hdr("w_rsp", 0, 0)>>
    BY <1>4 DEF Responses
  <2> QED BY <1>3, <2>1 DEF RspTags, Msg
<1>5. CASE r[1].tag = "r_req"
  <2>1. rsp \in Framed(Hdr("r_rsp", 0, 0), r[1].cnt)
    BY <1>5 DEF Responses
  <2>2. r[1].cnt \in Int
    BY <1>2 DEF Buf
  <2> QED BY <1>3, <2>1, <2>2, FramedMsg DEF RspTags
<1>6. CASE r[1].tag \notin {"w_req", "r_req"}
  <2>1. rsp = [i \in 1..Len(r) |-> IF i = 1 THEN Hdr("e_rsp", 0, 0) ELSE r[i]]
    BY <1>6 DEF Responses
  <2>2. rsp \in [1..Len(r) -> Buf]
    BY <1>2, <1>3, <2>1 DEF RspTags
  <2> QED BY <1>2, <2>2, IsASeq DEF Msg
<1> QED BY <1>4, <1>5, <1>6

\* The client accepts every response to its request, but for that to a read
\* of a negative number of blocks.
LEMMA ResponsesAccepted ==
    ASSUME NEW w \in Workloads, NEW n \in Int, NEW size \in Int,
           NEW m \in FillReq(w, n, size), ~Rejects(m), NEW rsp \in Responses(m)
    PROVE  Accepts(w, m, rsp) \/ (w = "read" /\ n < 0)
<1>1. m \in Msg /\ m # <<>> /\ m[1] = Hdr(ReqTag(w), n, size)
  BY FillReqMsg DEF Rejects, Refuses
<1>2. rsp \in Msg
  BY <1>1, ResponsesMsg
<1>3. Hdr("r_rsp", 0, 0) \in Buf
  BY DEF Hdr, Buf, RspTags
<1>4. CASE w = "write"
  <2>1. rsp = <<Hdr("w_rsp", 0, 0)>>
    BY <1>1, <1>4 DEF Responses, ReqTag, Hdr
  <2>2. rsp # <<>> /\ rsp[1].tag = "w_rsp"
    BY <2>1 DEF Hdr
  <2> QED BY <1>4, <2>2 DEF Accepts, HasRspHdr, RspTags
<1>5. CASE w = "read" /\ n >= 0
  <2>1. rsp \in Framed(Hdr("r_rsp", 0, 0), n)
    BY <1>1, <1>5 DEF Responses, ReqTag, Hdr
  <2>2. rsp # <<>> /\ rsp[1] = Hdr("r_rsp", 0, 0)
    BY <1>3, <1>5, <2>1, FramedMsg
  <2> QED BY <1>5, <2>2 DEF Accepts, HasRspHdr, RspTags, Hdr
<1>6. CASE w = "echo"
  <2>1. rsp = [i \in 1..Len(m) |-> IF i = 1 THEN Hdr("e_rsp", 0, 0) ELSE m[i]]
    BY <1>1, <1>6 DEF Responses, ReqTag, Hdr
  <2>2. Len(m) \in Nat /\ Len(m) # 0
    BY <1>1, LenProperties, EmptySeq DEF Msg
  <2>3. Len(rsp) = Len(m)
    BY <2>1, <2>2, <1>2, LenProperties DEF Msg
  <2>4. rsp # <<>> /\ rsp[1] = Hdr("e_rsp", 0, 0)
    <3>1. 1 \in 1..Len(m)
      BY <2>2
    <3>2. rsp[1] = Hdr("e_rsp", 0, 0)
      BY <2>1, <3>1
    <3> QED BY <2>2, <2>3, <3>2, EmptySeq
  <2>5. \A i \in 2..Len(m) : m[i] = rsp[i]
    BY <2>1, <2>2
  <2> QED
    BY <2>3, <2>4, <2>5 DEF Accepts, HasRspHdr, EchoIsValid, RspTags, Hdr
<1> QED BY <1>4, <1>5, <1>6 DEF Workloads

\* Fewer blocks of the same size can be made if more can.
LEMMA FewerBlocks ==
    ASSUME NEW k \in Nat, NEW n \in Nat, k <= n, NEW size \in Int,
           MayNotMake(k, size)
    PROVE  MayNotMake(n, size)
<1>1. k > 0 /\ n > 0
  BY DEF MayNotMake, CannotMake
<1>2. CASE size < 0
  BY <1>1, <1>2 DEF MayNotMake, CannotMake
<1>3. CASE size >= 0
  <2>1. k * size > Memory
    BY <1>1, <1>3 DEF MayNotMake, CannotMake
  <2>2. n * size >= k * size
    BY <1>3
  <2> QED BY <1>1, <2>1, <2>2, MemoryAssumption DEF MayNotMake
<1> QED BY <1>2, <1>3

\* ServerRcvFn throws on the beginning of a request a client fills only if the
\* request asks for blocks that cannot be made, or may not be.
LEMMA MayRejectCause ==
    ASSUME NEW w \in Workloads, NEW n \in Int, NEW size \in Int,
           NEW m \in FillReq(w, n, size),
           NEW r \in Msg, IsPrefix(r, m), r # <<>>, MayReject(r)
    PROVE  w # "write" /\ MayNotMake(n, size)
<1>1. m \in Msg /\ (m = <<>> \/ m[1] = Hdr(ReqTag(w), n, size))
  BY FillReqMsg
<1>2. m # <<>> /\ r[1] = m[1]
  BY <1>1, PrefixFirst DEF Msg
<1>3. /\ r[1].tag = ReqTag(w) /\ r[1].cnt = n /\ r[1].size = size
      /\ ReqTag(w) \in ReqTags
  BY <1>1, <1>2 DEF Hdr, Workloads, ReqTag, ReqTags
<1>4. ~Refuses(r)
  BY <1>3 DEF Refuses
<1>5. CASE r[1].tag = "r_req" /\ MayNotMake(r[1].cnt, r[1].size)
  BY <1>3, <1>5 DEF Workloads, ReqTag
<1>6. CASE r[1].tag = "e_req" /\ MayNotMake(Len(r) - 1, r[1].size)
  <2>1. w = "echo"
    BY <1>3, <1>6 DEF Workloads, ReqTag
  <2>2. m \in Framed(Hdr(ReqTag(w), n, size), n) /\ Hdr(ReqTag(w), n, size) \in Buf
    BY <1>3, <2>1 DEF FillReq, Hdr, Buf
  <2>3. n >= 0 /\ Len(m) = n + 1
    BY <1>2, <2>2, FramedMsg DEF BufCount
  <2>4. Len(r) \in Nat /\ Len(r) # 0 /\ Len(r) <= Len(m)
    BY <1>1, PrefixPointwise, LenProperties, EmptySeq DEF Msg
  <2>5. Len(r) - 1 \in Nat /\ Len(r) - 1 <= n /\ n \in Nat
    BY <2>3, <2>4
  <2> QED BY <1>3, <1>6, <2>1, <2>5, FewerBlocks
<1> QED BY <1>4, <1>5, <1>6 DEF MayReject, Rejects, MayNotMake

=============================================================================
