---------------------------- MODULE MCPublisher ----------------------------
(* Model-checking instance of Publisher: the bounds are given in the cfg.  *)
EXTENDS Publisher
=============================================================================
