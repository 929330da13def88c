------------------------------ MODULE MCResolver ----------------------------
(* Values of the constants of Resolver for TLC.                              *)
EXTENDS Resolver
=============================================================================
