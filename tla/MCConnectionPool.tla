--------------------------- MODULE MCConnectionPool ---------------------------
(***************************************************************************)
(* Instances of ConnectionPool for TLC.  What decides is whether as many   *)
(* reads of work orders as the pool has connections can meet.              *)
(***************************************************************************)
EXTENDS ConnectionPool
=============================================================================
