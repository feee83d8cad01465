------------------------------ MODULE MCSocket ------------------------------
(* Instances of Socket for TLC. *)
EXTENDS Socket, TLC

CONSTANTS t1, t2, s1, s2, s3

(* The scheduler t1 has a socket to listen on and one to accept with; the    *)
(* socket of t2 comes and goes.                                              *)
TwoUsers == s1 :> t1 @@ s2 :> t1 @@ s3 :> t2
Conditions == s1 :> {"POLLIN"} @@ s2 :> {"POLLOUT", "POLLHUP"} @@ s3 :> {}
WantedTypes == s1 :> {{"ACCEPT", "READ"}} @@ s2 :> {{"WRITE"}} @@ s3 :> {}
=============================================================================
