-------------------------- MODULE MCAtto2100Locks --------------------------
(* Instances of Atto2100Locks for TLC. *)
EXTENDS Atto2100Locks

CONSTANT worker
Worker == {worker}
=============================================================================
