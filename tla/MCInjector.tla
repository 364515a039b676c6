----------------------------- MODULE MCInjector -----------------------------
(***************************************************************************)
(* Small instances of Injector for TLC.  Paths "a" and "b"; the rules of   *)
(* each run are chosen so that regions overlap, end inside a block, and    *)
(* are cut with a block size other than the one they are paid in.          *)
(***************************************************************************)
EXTENDS Injector

RuleOf(op, paths, off, offLen, n, heal, errno) ==
  [op |-> op, paths |-> paths, off |-> off, offLen |-> offLen, errno |-> errno,
   n |-> n, heal |-> heal]

Bad(paths, off, offLen) == RuleOf("write", paths, off, offLen, 0, TRUE, 5)

(* Bad sectors: three overlapping regions; the last needs more blocks of   *)
(* size 2 than MaxHealedBlocks = 2 and falls back to whole mode.           *)
HealRules == {Bad({"a"}, 0, 3), Bad({"a"}, 2, 2), Bad({"a"}, 1, 5)}
HealSpares == {<<2, 2>>, <<3, 1>>, <<2, 3>>, <<-1, 2>>}

(* Plain rules: a quota, a permanent one, a region, mixed with a sector    *)
(* rule for whole files.                                                   *)
PlainRules ==
  {RuleOf(AnyOp, {"a"}, 0, 0, 2, FALSE, 28), RuleOf("getattr", {"a", "b"}, 0, 0, 1, FALSE, 13),
   RuleOf("write", {"a"}, 1, 1, 0, FALSE, 30), Bad({"a", "b"}, 0, 0)}
PlainSpares == {<<1, 2>>, <<-3, 0>>}
PlainSpeeds == {0, 15}
=============================================================================
