----------------------------- MODULE MCDataPath -----------------------------
(***************************************************************************)
(* Small instances of DataPath for TLC: one file, a bad sector of two      *)
(* bytes, one budget.  The route of an op depends on its kind only, so one *)
(* op of each kind stands for the others.                                  *)
(***************************************************************************)
EXTENDS DataPath, TLC

Sector ==
  [op |-> "write", paths |-> {"a"}, off |-> 0, offLen |-> 2, errno |-> 5, n |-> 0, heal |-> TRUE]
SectorOnly == {Sector}
OneBudget == {<<2, 2>>}
Interchangeable == Permutations(Callbacks)
=============================================================================
