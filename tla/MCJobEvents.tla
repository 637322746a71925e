------------------------------ MODULE MCJobEvents ------------------------------
(* A small instance of JobEvents: two writers and a stream of either kind.  *)
EXTENDS JobEvents
===============================================================================
