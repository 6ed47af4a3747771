----------------------------- MODULE MCFbGreeter ------------------------------
(* The clients of the instances TLC checks FbGreeter on are symmetric.     *)
EXTENDS FbGreeter, TLC

ClientSymmetry == Permutations(Client)

=============================================================================
