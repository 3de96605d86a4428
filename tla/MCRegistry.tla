----------------------------- MODULE MCRegistry -----------------------------
(* A small instance of Registry. *)
EXTENDS Registry

CONSTANTS t1, t2, t3

MCThreads == {t1, t2, t3}
=============================================================================
