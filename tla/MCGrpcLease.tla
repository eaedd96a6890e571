----------------------------- MODULE MCGrpcLease -----------------------------
(* Constants for the model checking runs of GrpcLease. *)
EXTENDS GrpcLease

CONSTANTS s1, s2, ra, k1

OneRoute == [s \in Subscribers |-> ra]
===============================================================================
