--------------------------- MODULE MCControlPlane ---------------------------
(***************************************************************************)
(* A small instance of ControlPlane for TLC: two clients, one bad sector   *)
(* of two bytes, one block of two bytes to repair it, a profile that is    *)
(* clamped and one that is not.                                            *)
(***************************************************************************)
EXTENDS ControlPlane

Sector ==
  [op |-> "write", paths |-> {"a"}, off |-> 0, offLen |-> 2, errno |-> 5, n |-> 0, heal |-> TRUE]
SectorOnly == {Sector}
OneBudget == {<<1, 2>>}
ClampTo == [p \in {"fast"} |-> "clamped"]
Latencies == {<<"fast", 20>>, <<"none", Unset>>}
BadSectors == {<<Sector, <<1, 2>>>>}
=============================================================================
