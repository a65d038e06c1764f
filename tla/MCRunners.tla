----------------------------- MODULE MCRunners -----------------------------
(* An instance with two servers, one task of the core and one listener.    *)
EXTENDS Runners
=============================================================================
