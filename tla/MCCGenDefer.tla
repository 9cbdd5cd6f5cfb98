---------------------------- MODULE MCCGenDefer ----------------------------
(* CGenDefer on small instances; the constants are given by the .cfg files. *)
EXTENDS CGenDefer

CONSTANTS e1, e2   \* deferred expressions
=============================================================================
