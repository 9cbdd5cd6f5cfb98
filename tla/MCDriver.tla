------------------------------ MODULE MCDriver ------------------------------
(* Driver on small instances; the constants are given by the .cfg files.   *)
EXTENDS Driver
=============================================================================
