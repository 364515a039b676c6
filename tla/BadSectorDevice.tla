--------------------------- MODULE BadSectorDevice ---------------------------
(***************************************************************************)
(* What the injector promises about bad sectors, as a disk would: sectors  *)
(* with bytes that are bad until a write remaps them, and a stock of spare *)
(* blocks that remapping draws on.  No rule order, no grid of blocks, no   *)
(* whole mode, no clamped offsets: a request is the set of bytes it names. *)
(***************************************************************************)
EXTENDS Integers, FiniteSets

CONSTANTS Files, Extents  \* files, and the sets of bytes a request may name

VARIABLES
  sectors,  \* [id, files, region, sized, bad]: the bad ones of its region's bytes
  stock,    \* [left, size]: spare blocks left, -1 for unlimited, and their size
  filled,   \* the stock as it was last filled
  answer    \* of the last request: "ok", "error", or "none" for other calls

vars == <<sectors, stock, filled, answer>>

Init ==
  /\ sectors = {}
  /\ stock = [left |-> 0, size |-> 1] /\ filled = stock
  /\ answer = "none"

Touched(f, X) == {s \in sectors : f \in s.files /\ s.region \cap X # {}}
BadUnder(f, X) == {s \in Touched(f, X) : s.bad \cap X # {}}

(* A new sector is bad all over.                                           *)
Install ==
  /\ answer' = "none"
  /\ sectors \subseteq sectors'
  /\ \E s \in sectors' \ sectors : sectors' = sectors \cup {s} /\ s.bad = s.region
  /\ UNCHANGED <<stock, filled>>

Uninstall == answer' = "none" /\ sectors' \subseteq sectors /\ UNCHANGED <<stock, filled>>

Fill == answer' = "none" /\ stock' = filled' /\ UNCHANGED sectors

Restore ==
  /\ answer' = "none"
  /\ sectors' = {[s EXCEPT !.bad = s.region] : s \in sectors}
  /\ stock' = filled
  /\ UNCHANGED filled

(* A read succeeds exactly when nothing under it is bad.                   *)
Read(f, X) ==
  /\ answer' = IF BadUnder(f, X) = {} THEN "ok" ELSE "error"
  /\ UNCHANGED <<sectors, stock, filled>>

(* A write that repairs nothing: nothing is bad under it, at least in one  *)
(* of the sectors it touches.                                              *)
Overwrite(f, X) ==
  /\ BadUnder(f, X) # Touched(f, X) \/ Touched(f, X) = {}
  /\ answer' = "ok"
  /\ UNCHANGED <<sectors, stock, filled>>

(* Blocks that pay for n bytes of sector s: at least one, and enough of    *)
(* them when they have a size and the sector a length.                     *)
Pays(blocks, s, n) ==
  blocks >= 1 /\ (stock.size > 1 /\ s.sized => blocks * stock.size >= n)

(* A write repairs all its bytes, in one sector, and the stock pays.       *)
Repair(f, X) ==
  /\ answer' = "ok"
  /\ \E s \in BadUnder(f, X), t \in sectors' :
       /\ t = [s EXCEPT !.bad = t.bad] /\ t.bad \subseteq s.bad \ X
       /\ sectors' = (sectors \ {s}) \cup {t}
       /\ IF stock.left = -1
          THEN stock' = stock
          ELSE \E blocks \in 0..stock.left :
                 /\ Pays(blocks, s, Cardinality(s.bad \ t.bad))
                 /\ stock' = [stock EXCEPT !.left = @ - blocks]
  /\ UNCHANGED filled

(* A write over bad bytes fails only for want of spare blocks, and changes *)
(* nothing.                                                                *)
Refuse(f, X) ==
  /\ BadUnder(f, X) # {} /\ stock.left # -1
  /\ answer' = "error"
  /\ UNCHANGED <<sectors, stock, filled>>

Idle == answer' = "none" /\ UNCHANGED <<sectors, stock, filled>>

Next ==
  \/ Install \/ Uninstall \/ Fill \/ Restore \/ Idle
  \/ \E f \in Files, X \in Extents : Read(f, X) \/ Overwrite(f, X) \/ Repair(f, X) \/ Refuse(f, X)

Spec == Init /\ [][Next]_vars
=============================================================================
