------------------------------ MODULE ReqReply -------------------------------
(***************************************************************************)
(* What rt::Client::sendReq and rt::Server promise together, whatever the  *)
(* transport: a request is executed by ServerRcvFn at most once and as a   *)
(* whole; sendReq returns only if it was, with exactly the response of     *)
(* that execution; otherwise sendReq throws, and the request may or may    *)
(* not have been executed, or may still be.                                *)
(***************************************************************************)
EXTENDS RtClient

VARIABLE served     \* {}, or {the response made for the current request}

vars == <<clientVars, served>>

Init == ClientInit /\ served = [c \in Client |-> {}]

Begin(c) ==
    /\ FillRequest(c)
    /\ served' = [served EXCEPT ![c] = {}]

FillFails(c) == FillThrows(c) /\ UNCHANGED served

\* The one execution of the request, possibly after the client gave up.
Execute(c) ==
    /\ pc[c] \in {"send", "send_failed"}
    /\ served[c] = {}
    /\ ~Rejects(req[c])
    /\ \E rsp \in Responses(req[c]) : served' = [served EXCEPT ![c] = {rsp}]
    /\ UNCHANGED clientVars

Return(c) ==
    /\ SendReqReturns(c)
    /\ \E rsp \in served[c] : reply' = [reply EXCEPT ![c] = rsp]
    /\ UNCHANGED served

Fail(c) == SendReqThrows(c) /\ UNCHANGED served

Check(c) == CheckReply(c) /\ UNCHANGED served

End(c) == Pass(c) /\ UNCHANGED served

Next == \E c \in Client :
            \/ Begin(c) \/ FillFails(c) \/ Execute(c) \/ Return(c)
            \/ Fail(c)  \/ Check(c)     \/ End(c)

Spec == Init /\ [][Next]_vars

=============================================================================
