-------------------------- MODULE MCServeLifecycle --------------------------
(* ServeLifecycle with one request that ends and one that is stuck.           *)
EXTENDS ServeLifecycle

CONSTANTS quick, stuck
=============================================================================
