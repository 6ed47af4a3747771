---------------------------- MODULE MCRunTransports ----------------------------
(* The arguments of the instance TLC checks RunTransports on.               *)
EXTENDS RunTransports

\* -t grpc capnproto -s 512 1024; gRPC's servers share a port.
BothTransports == <<"grpc", "capnproto">>
TwoKeys == <<512, 1024>>

=============================================================================
