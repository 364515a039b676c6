---------------------------- MODULE SectorProofs ----------------------------
(***************************************************************************)
(* The healing rules of Injector seen byte by byte: a read that passes     *)
(* touches no bad byte, only what is written gets repaired, and together   *)
(* they are the disk of BadSectorDevice.  For every set of rules, requests *)
(* and budgets and every width of int64.                                   *)
(***************************************************************************)
EXTENDS InjectorProofs

(* A request that names at least one byte, as every read and write the     *)
(* kernel sends does: a length of one or more, and an end within int64.    *)
RequestsNameBytes == Offsets \subseteq 0..(MaxInt - 1) /\ Lengths \subseteq Nat \ {0}

(* The parts of a read or write.                                           *)
LEMMA IORequest ==
  ASSUME NEW q \in Requests, IsIO(q)
  PROVE  /\ q.off \in 0..MaxInt /\ q.len \in Nat /\ q.path \in Paths
         /\ RequestsNameBytes => q.len \in Nat \ {0} /\ q.off \in RequestBytes(q)
<1>1. q \in [op : {"read", "write"}, path : Paths, off : Offsets, len : Lengths]
  <2>1. q.op \notin OtherOps
    BY InjectorAssumption DEF IsIO
  <2> QED
    BY <2>1 DEF Requests
<1>2. q.off \in Offsets /\ q.len \in Lengths /\ q.path \in Paths
  BY <1>1
<1>3. q.off \in 0..MaxInt /\ q.len \in Nat
  <2>1. q.off \in 0..MaxInt /\ q.len \in 0..MaxInt
    BY <1>2, InjectorAssumption
  <2> QED
    BY <2>1
<1>4. RequestsNameBytes => q.len \in Nat \ {0} /\ q.off \in 0..(MaxInt - 1)
  BY <1>2 DEF RequestsNameBytes
<1>5. RequestsNameBytes => q.off \in RequestBytes(q)
  BY <1>3, <1>4, MaxIntAssumption DEF RequestBytes, FileBytes
<1> QED
  BY <1>2, <1>3, <1>4, <1>5

(* The fields of a rule that its bytes are computed from.                  *)
LEMMA RegionFields ==
  ASSUME TypeOK, RulesOK, NEW i \in DOMAIN rules
  PROVE  /\ rules[i].r.off \in 0..MaxInt /\ rules[i].r.offLen \in Int
         /\ rules[i].r.heal \in BOOLEAN /\ rules[i].r.paths \subseteq Paths
         /\ rules[i].total \in Nat /\ rules[i].blockSize \in Nat \ {0}
         /\ rules[i].healedBlocks \subseteq Nat
         /\ PerBlock(rules[i]) =>
              /\ rules[i].r.heal /\ ~rules[i].healed
              /\ rules[i].r.offLen \in Nat \ {0} /\ rules[i].blockSize > 1
              /\ rules[i].total = BlocksNeeded(rules[i].r.offLen, rules[i].blockSize)
              /\ rules[i].r.offLen <= rules[i].total * rules[i].blockSize
<1>1. rules[i] \in RuleState /\ GridOK(rules[i])
  BY RuleFields DEF RulesOK
<1>2. /\ rules[i].r.off \in Nat /\ rules[i].r.offLen \in Int
      /\ rules[i].r.heal \in BOOLEAN /\ rules[i].r.paths \subseteq Paths
      /\ rules[i].total \in Nat /\ rules[i].blockSize \in Nat \ {0}
      /\ rules[i].healedBlocks \subseteq Nat
  BY <1>1 DEF RuleState, Rule
<1>3. rules[i].r.off \in 0..MaxInt
  BY <1>1, <1>2, MaxIntAssumption DEF GridOK
<1>4. ASSUME PerBlock(rules[i])
      PROVE  /\ rules[i].r.heal /\ ~rules[i].healed
             /\ rules[i].r.offLen \in Nat \ {0} /\ rules[i].blockSize > 1
             /\ rules[i].total = BlocksNeeded(rules[i].r.offLen, rules[i].blockSize)
             /\ rules[i].r.offLen <= rules[i].total * rules[i].blockSize
  <2>1. /\ rules[i].r.heal /\ ~rules[i].healed
        /\ rules[i].r.offLen > 0 /\ rules[i].blockSize > 1
        /\ rules[i].total = BlocksNeeded(rules[i].r.offLen, rules[i].blockSize)
    BY <1>1, <1>4 DEF GridOK
  <2>2. rules[i].r.offLen \in Nat \ {0} /\ rules[i].blockSize \in Nat
    BY <1>2, <2>1
  <2>3. rules[i].r.offLen <= BlocksNeeded(rules[i].r.offLen, rules[i].blockSize) * rules[i].blockSize
    BY <2>1, <2>2, BlocksNeededCovers
  <2> QED
    BY <2>1, <2>2, <2>3
<1> QED
  BY <1>2, <1>3, <1>4

(* The bytes a sized rule and a request share.                             *)
LEMMA SharedIsIntersection ==
  ASSUME NEW s, NEW q, s.r.offLen > 0, s.r.offLen \in Int
  PROVE  SharedBytes(s.r.off, s.r.offLen, q.off, q.len) = RegionBytes(s) \cap RequestBytes(q)
<1>1. RegionBytes(s) = {x \in FileBytes : s.r.off <= x /\ x < s.r.off + s.r.offLen}
  BY DEF RegionBytes
<1>2. \A x : x \in SharedBytes(s.r.off, s.r.offLen, q.off, q.len)
               <=> x \in RegionBytes(s) /\ x \in RequestBytes(q)
  BY <1>1 DEF SharedBytes, RequestBytes, FileBytes
<1> QED
  BY <1>2

(* A request that touches a bad sector matches its rule; the converse      *)
(* holds when requests name bytes.                                         *)
LEMMA TouchesMatches ==
  ASSUME TypeOK, RulesOK, NEW i \in DOMAIN rules, NEW q \in Requests, IsIO(q)
  PROVE  /\ Touches(rules[i], q) => Matches(rules[i], q)
         /\ RequestsNameBytes /\ rules[i].r.heal /\ Matches(rules[i], q) => Touches(rules[i], q)
<1> DEFINE s == rules[i]
<1>1. /\ s.r.off \in 0..MaxInt /\ s.r.offLen \in Int /\ s.r.heal \in BOOLEAN
      /\ q.off \in 0..MaxInt /\ q.len \in Nat
  BY RegionFields, IORequest
<1>2. s.r.heal => OpMatches(s, q)
  BY DEF OpMatches
<1>3. CASE s.r.offLen > 0
  <2> DEFINE S == SharedBytes(s.r.off, s.r.offLen, q.off, q.len)
  <2>1. S = RegionBytes(s) \cap RequestBytes(q)
    BY <1>1, <1>3, SharedIsIntersection
  <2>2. q.len \in Nat \ {0} => (OffMatches(s.r, q) <=> S # {})
    <3>1. s.r.offLen \in Nat \ {0}
      BY <1>1, <1>3
    <3>2. q.len \in Nat \ {0} => (Overlaps(s.r.off, s.r.offLen, q.off, q.len) <=> S # {})
      BY <1>1, <3>1, OverlapsShared
    <3> QED
      BY <1>3, <3>2 DEF OffMatches
  <2>3. q.len = 0 => S = {}
    BY <1>1 DEF SharedBytes
  <2> QED
    BY <1>1, <1>2, <2>1, <2>2, <2>3, IORequest DEF Touches, Matches
<1>4. CASE ~(s.r.offLen > 0)
  <2>1. OffMatches(s.r, q)
    BY <1>4 DEF OffMatches
  <2>2. RegionBytes(s) = FileBytes
    BY <1>1, <1>4 DEF RegionBytes
  <2>3. RequestsNameBytes => RegionBytes(s) \cap RequestBytes(q) # {}
    <3>1. RequestBytes(q) \subseteq FileBytes
      BY DEF RequestBytes
    <3> QED
      BY <2>2, <3>1, IORequest
  <2> QED
    BY <1>2, <2>1, <2>3 DEF Touches, Matches
<1> QED
  BY <1>3, <1>4

BlockOf(s, x) == (x - s.r.off) \div s.blockSize

(* The blocks a request covers are those of the bytes it shares with the   *)
(* region.                                                                 *)
LEMMA CoverIsBlocks ==
  ASSUME TypeOK, RulesOK, NEW i \in DOMAIN rules, NEW q \in Requests, IsIO(q), PerBlock(rules[i])
  PROVE  Cover(rules[i], q)
           = {BlockOf(rules[i], x) : x \in RegionBytes(rules[i]) \cap RequestBytes(q)}
<1> DEFINE s == rules[i]
           S == SharedBytes(s.r.off, s.r.offLen, q.off, q.len)
<1>1. /\ s.r.off \in 0..MaxInt /\ s.r.offLen \in Nat \ {0}
      /\ s.blockSize \in Nat /\ s.blockSize > 1 /\ s.total \in Nat
      /\ s.r.offLen <= s.total * s.blockSize
      /\ q.off \in 0..MaxInt /\ q.len \in Nat
  BY RegionFields, IORequest
<1>2. \A j : j \in CoverRange(s.r.off, s.r.offLen, q.off, q.len, s.blockSize, s.total)
              <=> \E x \in S : j = (x - s.r.off) \div s.blockSize
  <2> DEFINE o == s.r.off
             l == s.r.offLen
             b == s.blockSize
             n == s.total
             u == q.off
             v == q.len
  <2>1. /\ o \in 0..MaxInt /\ l \in Nat \ {0} /\ b \in Nat /\ b > 1 /\ n \in Nat
        /\ l <= n * b /\ u \in 0..MaxInt /\ v \in Nat
    BY <1>1
  <2> HIDE DEF o, l, b, n, u, v
  <2>2. \A j : j \in CoverRange(o, l, u, v, b, n)
               <=> \E x \in SharedBytes(o, l, u, v) : j = (x - o) \div b
    BY <2>1, CoverRangeShared
  <2> QED
    BY <2>2 DEF o, l, b, n, u, v
<1>3. S = RegionBytes(s) \cap RequestBytes(q)
  BY <1>1, SharedIsIntersection
<1> QED
  BY <1>2, <1>3 DEF Cover, BlockOf

(* What is bad under a request: the rule is not repaired whole, or a block *)
(* of a shared byte is not.                                                *)
LEMMA BadUnderRequest ==
  ASSUME TypeOK, RulesOK, NEW i \in DOMAIN rules, NEW q \in Requests, IsIO(q), rules[i].r.heal
  PROVE  /\ PerBlock(rules[i]) =>
              (BadBytes(rules[i]) \cap RequestBytes(q) = {} <=> Unhealed(rules[i], q) = {})
         /\ ~PerBlock(rules[i]) =>
              BadBytes(rules[i]) = IF rules[i].healed THEN {} ELSE RegionBytes(rules[i])
<1> DEFINE s == rules[i]
           S == RegionBytes(s) \cap RequestBytes(q)
<1>1. CASE PerBlock(s)
  <2>1. BadBytes(s) = {x \in RegionBytes(s) : BlockOf(s, x) \notin s.healedBlocks}
    BY <1>1 DEF BadBytes, RepairedBytes, BlockOf
  <2>2. Unhealed(s, q) = {BlockOf(s, x) : x \in S} \ s.healedBlocks
    BY <1>1, CoverIsBlocks DEF Unhealed
  <2>3. BadBytes(s) \cap RequestBytes(q) = {x \in S : BlockOf(s, x) \notin s.healedBlocks}
    BY <2>1
  <2> QED
    BY <1>1, <2>2, <2>3
<1>2. CASE ~PerBlock(s)
  <2>1. s.healed \in BOOLEAN
    BY RuleFields DEF RuleState
  <2> QED
    BY <1>2, <2>1 DEF BadBytes, RepairedBytes
<1> QED
  BY <1>1, <1>2

(* A rule that lets a read pass has nothing bad under it; one that lets a  *)
(* write pass is repaired whole, or has no byte there.                     *)
LEMMA ContinuesMeansGood ==
  ASSUME TypeOK, RulesOK, NEW i \in DOMAIN rules, NEW q \in Requests, IsIO(q),
         Continues(rules[i], q), Touches(rules[i], q)
  PROVE  BadBytes(rules[i]) \cap RequestBytes(q) = {}
<1> DEFINE s == rules[i]
<1>1. Matches(s, q) /\ s.r.heal
  BY TouchesMatches DEF Touches
<1>2. CASE ~PerBlock(s) /\ s.healed
  BY <1>1, <1>2, BadUnderRequest
<1>3. CASE PerBlock(s) /\ AllHealed(s.healedBlocks, s.total, s.r.off, s.r.offLen, q.off, q.len, s.blockSize)
  <2>1. Unhealed(s, q) = {}
    BY <1>3 DEF AllHealed, Unhealed, Cover
  <2> QED
    BY <1>1, <1>3, <2>1, BadUnderRequest
<1>4. CASE PerBlock(s) /\ Cover(s, q) = {}
  <2>1. Unhealed(s, q) = {}
    BY <1>4 DEF Unhealed
  <2> QED
    BY <1>1, <1>4, <2>1, BadUnderRequest
<1> QED
  BY <1>1, <1>2, <1>3, <1>4 DEF Continues

(* A rule that decides a read, or a write with something to repair, has    *)
(* something bad under it.                                                 *)
LEMMA DecidesMeansBad ==
  ASSUME TypeOK, RulesOK, RequestsNameBytes, NEW i \in DOMAIN rules, NEW q \in Requests, IsIO(q),
         rules[i].r.heal, ~Continues(rules[i], q),
         q.op = "write" /\ PerBlock(rules[i]) => Unhealed(rules[i], q) # {}
  PROVE  Touches(rules[i], q) /\ BadBytes(rules[i]) \cap RequestBytes(q) # {}
<1> DEFINE s == rules[i]
<1>1. Touches(s, q)
  BY TouchesMatches DEF Continues
<1>2. CASE PerBlock(s)
  <2>1. Unhealed(s, q) # {}
    <3>1. CASE q.op = "read"
      BY <1>2, <3>1 DEF Continues, AllHealed, Unhealed, Cover
    <3> QED
      BY <1>2, <3>1 DEF IsIO
  <2> QED
    BY <1>1, <1>2, <2>1, BadUnderRequest
<1>3. CASE ~PerBlock(s)
  <2>1. ~s.healed
    BY <1>3 DEF Continues
  <2>2. BadBytes(s) = RegionBytes(s)
    BY <1>3, <2>1, BadUnderRequest
  <2> QED
    BY <1>1, <2>2 DEF Touches
<1> QED
  BY <1>2, <1>3

-----------------------------------------------------------------------------
(* A read that Check lets through touches no byte that is still bad, for   *)
(* all rules, however they overlap and in whatever blocks they are cut:    *)
(* stale data of the backing is never served as repaired (Check's read     *)
(* branch with allHealed).                                                 *)
THEOREM PassedReadsAreRepaired == Spec => []ReadPassesOnlyRepaired
<1>1. Init => ReadPassesOnlyRepaired
  BY DEF Init, Void, ReadPassesOnlyRepaired, Answered
<1>2. TypeOK /\ RulesOK /\ ReadPassesOnlyRepaired /\ [Next]_vars => ReadPassesOnlyRepaired'
  <2> SUFFICES ASSUME TypeOK, RulesOK, ReadPassesOnlyRepaired, [Next]_vars
               PROVE  ReadPassesOnlyRepaired'
    OBVIOUS
  <2>1. ASSUME reply'.kind \in {"none", "add", "delete", "refresh"} PROVE ReadPassesOnlyRepaired'
    BY <2>1 DEF ReadPassesOnlyRepaired, Answered
  <2>2. ASSUME NEW q \in Requests, CheckPass(q) PROVE ReadPassesOnlyRepaired'
    <3>1. rules' = rules /\ reply' = [kind |-> "check", req |-> q, errno |-> 0]
      BY <2>2 DEF CheckPass, Answer
    <3>2. SUFFICES ASSUME q.op = "read", NEW i \in DOMAIN rules, Touches(rules[i], q)
                   PROVE  BadBytes(rules[i]) \cap RequestBytes(q) = {}
      BY <3>1 DEF ReadPassesOnlyRepaired, Answered
    <3>3. IsIO(q) /\ Continues(rules[i], q)
      BY <2>2, <3>2 DEF CheckPass, IsIO
    <3> QED
      BY <3>2, <3>3, ContinuesMeansGood
  <2>3. ASSUME NEW q \in Requests, NEW i \in DOMAIN rules,
               CheckPlain(q, i) \/ CheckBadRead(q, i) \/ CheckNoSpare(q, i)
        PROVE  ReadPassesOnlyRepaired'
    <3>1. reply' = [kind |-> "check", req |-> q, errno |-> rules[i].r.errno]
      BY <2>3 DEF CheckPlain, CheckBadRead, CheckNoSpare, Answer
    <3>2. rules[i].r.errno # 0
      BY RuleFields
    <3> QED
      BY <3>1, <3>2 DEF ReadPassesOnlyRepaired, Answered
  <2>4. ASSUME NEW q \in Requests, NEW i \in DOMAIN rules, CheckRewrite(q, i) \/ CheckHeal(q, i)
        PROVE  ReadPassesOnlyRepaired'
    <3>1. q.op = "write" /\ reply' = [kind |-> "check", req |-> q, errno |-> 0]
      BY <2>4 DEF CheckRewrite, CheckHeal, NeedsRepair, Answer
    <3> QED
      BY <3>1 DEF ReadPassesOnlyRepaired, Answered
  <2>5. CASE UNCHANGED vars
    BY <2>5 DEF vars, ReadPassesOnlyRepaired
  <2>6. \/ reply'.kind \in {"none", "add", "delete", "refresh"}
        \/ \E q \in Requests : CheckPass(q)
        \/ \E q \in Requests, i \in DOMAIN rules :
             CheckPlain(q, i) \/ CheckBadRead(q, i) \/ CheckNoSpare(q, i)
        \/ \E q \in Requests, i \in DOMAIN rules : CheckRewrite(q, i) \/ CheckHeal(q, i)
        \/ UNCHANGED vars
    BY DEF Next, Add, Delete, Clear, SetSpareBlocks, SetProfile, SetSpeed, Refresh, Check, Void
  <2> QED
    BY <2>1, <2>2, <2>3, <2>4, <2>5, <2>6
<1> QED
  BY <1>1, <1>2, RulesAlwaysOK, PTL DEF Spec

-----------------------------------------------------------------------------
(* The bytes a write that repairs makes good in rule s.                    *)
NewlyGood(s, q) ==
  IF PerBlock(s) THEN {x \in RegionBytes(s) : BlockOf(s, x) \in Unhealed(s, q)} ELSE RegionBytes(s)

(* What is bad and what is repaired depends on some fields only.           *)
LEMMA SameBytes ==
  ASSUME NEW s, NEW t, t.r = s.r, t.total = s.total, t.blockSize = s.blockSize
  PROVE  /\ RegionBytes(t) = RegionBytes(s) /\ (PerBlock(t) <=> PerBlock(s))
         /\ \A x : BlockOf(t, x) = BlockOf(s, x)
         /\ t.healed = s.healed /\ t.healedBlocks = s.healedBlocks =>
              RepairedBytes(t) = RepairedBytes(s) /\ BadBytes(t) = BadBytes(s)
<1>1. RegionBytes(t) = RegionBytes(s)
  BY DEF RegionBytes
<1>2. PerBlock(t) <=> PerBlock(s)
  BY DEF PerBlock
<1>3. t.healed = s.healed /\ t.healedBlocks = s.healedBlocks => RepairedBytes(t) = RepairedBytes(s)
  BY <1>1, <1>2 DEF RepairedBytes
<1>4. t.healed = s.healed /\ t.healedBlocks = s.healedBlocks => BadBytes(t) = BadBytes(s)
  BY <1>1, <1>3 DEF BadBytes
<1> QED
  BY <1>1, <1>2, <1>3, <1>4 DEF BlockOf

(* A refreshed rule has nothing repaired: a bad sector is bad all over.    *)
LEMMA FreshBytes ==
  ASSUME NEW s \in RuleState
  PROVE  /\ Fresh(s).r = s.r /\ Fresh(s).id = s.id
         /\ RegionBytes(Fresh(s)) = RegionBytes(s)
         /\ RepairedBytes(Fresh(s)) = {}
         /\ s.r.heal => BadBytes(Fresh(s)) = RegionBytes(s)
<1> DEFINE t == Fresh(s)
<1>1. /\ t.r = s.r /\ t.id = s.id /\ t.total = s.total /\ t.blockSize = s.blockSize
      /\ t.healed = FALSE /\ t.healedBlocks = {}
  BY DEF Fresh, RuleState
<1>2. RegionBytes(t) = RegionBytes(s)
  BY <1>1, SameBytes
<1>3. RepairedBytes(t) = {}
  BY <1>1 DEF RepairedBytes
<1> QED
  BY <1>1, <1>2, <1>3 DEF BadBytes

(* A repairing write changes one rule, in its repaired bytes only.         *)
LEMMA HealBytes ==
  ASSUME TypeOK, RulesOK, NEW q \in Requests, NEW i \in DOMAIN rules, CheckHeal(q, i)
  PROVE  /\ DOMAIN rules' = DOMAIN rules
         /\ \A j \in DOMAIN rules \ {i} : rules'[j] = rules[j]
         /\ rules'[i].r = rules[i].r /\ rules'[i].id = rules[i].id
         /\ RegionBytes(rules'[i]) = RegionBytes(rules[i])
         /\ RepairedBytes(rules[i]) \cap NewlyGood(rules[i], q) = {}
         /\ RepairedBytes(rules'[i]) = RepairedBytes(rules[i]) \cup NewlyGood(rules[i], q)
         /\ BadBytes(rules'[i]) = BadBytes(rules[i]) \ NewlyGood(rules[i], q)
<1> DEFINE s == rules[i]
           t == rules'[i]
<1>1. s \in RuleState /\ s.healed \in BOOLEAN
  BY RuleFields DEF RuleState
<1>2. /\ ~Continues(s, q) /\ s.r.heal
      /\ rules' = IF PerBlock(s)
                  THEN [rules EXCEPT ![i].healedBlocks = @ \cup Cover(s, q)]
                  ELSE [rules EXCEPT ![i].healed = TRUE]
  BY DEF CheckHeal, NeedsRepair, Decides
<1>3. /\ DOMAIN rules' = DOMAIN rules
      /\ \A j \in DOMAIN rules \ {i} : rules'[j] = rules[j]
  BY <1>2
<1>4. /\ t.r = s.r /\ t.id = s.id /\ t.total = s.total /\ t.blockSize = s.blockSize
      /\ PerBlock(s) => t.healedBlocks = s.healedBlocks \cup Cover(s, q)
      /\ ~PerBlock(s) => t.healed = TRUE
  BY <1>1, <1>2 DEF RuleState
<1>5. /\ RegionBytes(t) = RegionBytes(s) /\ (PerBlock(t) <=> PerBlock(s))
      /\ \A x : BlockOf(t, x) = BlockOf(s, x)
  BY <1>4, SameBytes
<1>6. CASE PerBlock(s)
  <2>1. RepairedBytes(s) = {x \in RegionBytes(s) : BlockOf(s, x) \in s.healedBlocks}
    BY <1>6 DEF RepairedBytes, BlockOf
  <2>2. RepairedBytes(t) = {x \in RegionBytes(s) : BlockOf(s, x) \in s.healedBlocks \cup Cover(s, q)}
    <3>1. RepairedBytes(t) = {x \in RegionBytes(t) : BlockOf(t, x) \in t.healedBlocks}
      BY <1>5, <1>6 DEF RepairedBytes, BlockOf
    <3> QED
      BY <1>4, <1>5, <1>6, <3>1
  <2>3. NewlyGood(s, q) = {x \in RegionBytes(s) : BlockOf(s, x) \in Cover(s, q) \ s.healedBlocks}
    BY <1>6 DEF NewlyGood, Unhealed
  <2> QED
    BY <1>2, <1>3, <1>4, <1>5, <2>1, <2>2, <2>3 DEF BadBytes
<1>7. CASE ~PerBlock(s)
  <2>1. ~s.healed
    BY <1>2, <1>7 DEF Continues
  <2>2. RepairedBytes(s) = {} /\ RepairedBytes(t) = RegionBytes(s) /\ NewlyGood(s, q) = RegionBytes(s)
    BY <1>4, <1>5, <1>7, <2>1 DEF RepairedBytes, NewlyGood
  <2>3. BadBytes(s) = RegionBytes(s) /\ BadBytes(t) = {}
    BY <1>2, <1>4, <1>5, <2>2 DEF BadBytes
  <2>4. /\ RepairedBytes(s) \cap NewlyGood(s, q) = {}
        /\ RepairedBytes(t) = RepairedBytes(s) \cup NewlyGood(s, q)
        /\ BadBytes(t) = BadBytes(s) \ NewlyGood(s, q)
    BY <2>2, <2>3
  <2> QED
    BY <1>3, <1>4, <1>5, <2>4
<1> QED
  BY <1>6, <1>7

(* Bytes become good only by a passing write, in the one rule that decides *)
(* it, and block by block: each newly good byte shares a block with a byte *)
(* written.  For all rules and requests that name bytes (tryHealWhole,     *)
(* tryHealBlocks); a write of no bytes inside a region would repair it.    *)
THEOREM OnlyWhatIsWrittenIsRepaired ==
  ASSUME RequestsNameBytes PROVE Spec => OnlyWrittenBlocksRepaired
<1> DEFINE new(i) == RepairedBytes(rules'[i]) \ RepairedBytes(rules[i])
           Good(i) ==
             new(i) # {} =>
               /\ Answered("write", reply') /\ reply'.errno = 0
               /\ Touches(rules[i], reply'.req)
               /\ \A j \in DOMAIN rules \ {i} : rules'[j] = rules[j]
               /\ PerBlock(rules[i]) =>
                    \A x \in new(i) : \E y \in RequestBytes(reply'.req) \cap RegionBytes(rules[i]) :
                      (x - rules[i].r.off) \div rules[i].blockSize
                        = (y - rules[i].r.off) \div rules[i].blockSize
<1>1. ASSUME TypeOK, RulesOK, [Next]_vars, reply'.kind # "delete",
             NEW i \in DOMAIN rules \cap DOMAIN rules'
      PROVE  Good(i)
  <2>1. rules[i] \in RuleState
    BY <1>1, RuleFields
  <2>2. CASE rules'[i] = rules[i]
    <3>1. new(i) = {}
      BY <2>2
    <3> QED
      BY <3>1
  <2>3. ASSUME NEW skip \in BOOLEAN, Refresh(skip) PROVE Good(i)
    <3>1. rules'[i] = Fresh(rules[i])
      BY <2>3 DEF Refresh
    <3>2. new(i) = {}
      BY <2>1, <3>1, FreshBytes
    <3> QED
      BY <3>2
  <2>4. ASSUME NEW q \in Requests, NEW k \in DOMAIN rules, CheckPlain(q, k) PROVE Good(i)
    <3>1. \/ rules'[i] = rules[i]
          \/ rules'[i] = [rules[i] EXCEPT !.remaining = rules[i].remaining - 1]
      BY <2>4 DEF CheckPlain
    <3>2. /\ rules'[i].r = rules[i].r /\ rules'[i].total = rules[i].total
          /\ rules'[i].blockSize = rules[i].blockSize
          /\ rules'[i].healed = rules[i].healed
          /\ rules'[i].healedBlocks = rules[i].healedBlocks
      BY <2>1, <3>1 DEF RuleState
    <3>3. new(i) = {}
      BY <3>2, SameBytes
    <3> QED
      BY <3>3
  <2>5. ASSUME NEW q \in Requests, NEW k \in DOMAIN rules, CheckHeal(q, k) PROVE Good(i)
    <3>1. CASE i # k
      BY <1>1, <2>2, <2>5, <3>1, HealBytes
    <3>2. CASE i = k
      <4>1. /\ Answered("write", reply') /\ reply'.errno = 0 /\ reply'.req = q
            /\ IsIO(q) /\ rules[i].r.heal /\ Matches(rules[i], q)
        BY <2>5, <3>2 DEF CheckHeal, NeedsRepair, Decides, Continues, Answer, Answered, IsIO
      <4>2. Touches(rules[i], q)
        BY <1>1, <4>1, TouchesMatches
      <4>3. \A j \in DOMAIN rules \ {i} : rules'[j] = rules[j]
        BY <1>1, <2>5, <3>2, HealBytes
      <4>4. new(i) \subseteq NewlyGood(rules[i], q)
        BY <1>1, <2>5, <3>2, HealBytes
      <4>5. ASSUME PerBlock(rules[i]), NEW x \in new(i)
            PROVE  \E y \in RequestBytes(q) \cap RegionBytes(rules[i]) :
                      BlockOf(rules[i], x) = BlockOf(rules[i], y)
        <5>1. BlockOf(rules[i], x) \in Cover(rules[i], q)
          BY <4>4, <4>5 DEF NewlyGood, Unhealed
        <5> QED
          BY <1>1, <4>1, <4>5, <5>1, CoverIsBlocks
      <4> QED
        BY <4>1, <4>2, <4>3, <4>5 DEF BlockOf
    <3> QED
      BY <3>1, <3>2
  <2>6. ASSUME NEW r \in RuleInputs, Add(r) PROVE Good(i)
    <3>1. nextID + 1 \in Nat \ {0} /\ rules \in Seq(RuleState)
      BY <1>1 DEF TypeOK
    <3>2. NewRuleState(nextID + 1, r) \in RuleState
      BY <1>1, <3>1, NewRuleStateType
    <3>3. rules'[i] = rules[i]
      BY <2>6, <3>1, <3>2, AppendProperties, LenProperties DEF Add
    <3> QED
      BY <2>2, <3>3
  <2>7. rules' # <<>>
    BY <1>1
  <2>8. \/ \E r \in RuleInputs : Add(r)
        \/ \E skip \in BOOLEAN : Refresh(skip)
        \/ \E q \in Requests, k \in DOMAIN rules : CheckPlain(q, k)
        \/ \E q \in Requests, k \in DOMAIN rules : CheckHeal(q, k)
        \/ UNCHANGED rules
    <3> HIDE DEF Good
    <3> QED
      BY <1>1, <2>7 DEF Next, vars, Delete, Clear, SetSpareBlocks, SetProfile, SetSpeed, Check,
           CheckPass, CheckBadRead, CheckRewrite, CheckNoSpare
  <2> HIDE DEF Good
  <2> QED
    BY <2>2, <2>3, <2>4, <2>5, <2>6, <2>8
<1>2. TypeOK /\ RulesOK /\ [Next]_vars
        => (reply'.kind # "delete" => \A i \in DOMAIN rules \cap DOMAIN rules' : Good(i))
  <2> HIDE DEF Good
  <2> QED
    BY <1>1
<1> QED
  BY <1>2, RulesAlwaysOK, PTL DEF Spec, OnlyWrittenBlocksRepaired

-----------------------------------------------------------------------------
(***************************************************************************)
(* The healing rules implement the disk of BadSectorDevice.                *)
(***************************************************************************)
HealOnly == \A r \in RuleInputs : r.heal

AllRulesHeal == \A i \in DOMAIN rules : rules[i].r.heal

(* The sector a rule stands for.                                           *)
SectorOf(s) ==
  [id |-> s.id, files |-> s.r.paths, region |-> RegionBytes(s), sized |-> s.r.offLen > 0,
   bad |-> BadBytes(s)]

LEMMA SectorsAre ==
  ASSUME AllRulesHeal PROVE DeviceSectors = {SectorOf(rules[i]) : i \in DOMAIN rules}
  BY DEF AllRulesHeal, DeviceSectors, SectorOf

(* Only healing rules are ever in the list when only those are added.      *)
LEMMA AllRulesHealStep ==
  ASSUME HealOnly, TypeOK, AllRulesHeal, [Next]_vars PROVE AllRulesHeal'
<1> SUFFICES ASSUME NEW i \in DOMAIN rules' PROVE rules'[i].r.heal
  BY DEF AllRulesHeal
<1>1. ASSUME NEW r \in RuleInputs, rules'[i] = NewRuleState(nextID + 1, r)
      PROVE  rules'[i].r.heal
  <2>1. r \in Rule /\ r.heal
    BY InjectorAssumption DEF HealOnly
  <2>2. rules'[i].r = [r EXCEPT !.op = IF r.heal THEN "read" ELSE r.op]
    BY <1>1 DEF NewRuleState
  <2> QED
    BY <2>1, <2>2 DEF Rule
<1>2. ASSUME NEW j \in DOMAIN rules, RuleBecomes(rules[j], rules'[i])
      PROVE  rules'[i].r.heal
  <2>1. rules[j] \in RuleState /\ rules[j].r.heal
    BY RuleFields DEF AllRulesHeal
  <2>2. rules'[i].r = rules[j].r
    BY <1>2, <2>1 DEF RuleBecomes, Fresh, RuleState
  <2> QED
    BY <2>1, <2>2
<1> QED
  BY <1>1, <1>2, RuleStep

(* Two rules in the list are two sectors.                                  *)
LEMMA SectorsDiffer ==
  ASSUME TypeOK, IDsIncrease, NEW i \in DOMAIN rules, NEW j \in DOMAIN rules, i # j
  PROVE  SectorOf(rules[i]) # SectorOf(rules[j])
<1>1. i \in Int /\ j \in Int /\ rules[i].id \in Nat /\ rules[j].id \in Nat
  <2>1. i \in 1..Len(rules) /\ j \in 1..Len(rules) /\ Len(rules) \in Nat
    BY RuleFields, LenProperties DEF TypeOK
  <2> QED
    BY <2>1, RuleFields
<1>2. rules[i].id # rules[j].id
  BY <1>1 DEF IDsIncrease
<1> QED
  BY <1>2 DEF SectorOf

(* Operations other than requests answer nothing.                          *)
LEMMA NoAnswer == ASSUME reply'.kind # "check" PROVE DeviceAnswer' = "none"
  BY DEF DeviceAnswer, Answered

(* What a read or write is answered.                                       *)
LEMMA RequestAnswer ==
  ASSUME NEW q \in Requests, NEW e \in Nat, Answer(q, e)
  PROVE  DeviceAnswer' = IF IsIO(q) THEN IF e = 0 THEN "ok" ELSE "error" ELSE "none"
<1>1. reply' = [kind |-> "check", req |-> q, errno |-> e]
  BY DEF Answer
<1>2. reply'.kind = "check" /\ reply'.req = q /\ reply'.errno = e
  BY <1>1
<1>3. (Answered("read", reply) \/ Answered("write", reply))' <=> IsIO(q)
  BY <1>2 DEF Answered, IsIO
<1> QED
  BY <1>2, <1>3 DEF DeviceAnswer

(* The sectors a request touches, and the bad ones.                        *)
LEMMA TouchedSectors ==
  ASSUME AllRulesHeal, NEW q \in Requests
  PROVE  /\ \A s : s \in Device!Touched(q.path, RequestBytes(q))
                     <=> \E i \in DOMAIN rules : Touches(rules[i], q) /\ s = SectorOf(rules[i])
         /\ \A s : s \in Device!BadUnder(q.path, RequestBytes(q))
                     <=> \E i \in DOMAIN rules :
                           /\ Touches(rules[i], q) /\ s = SectorOf(rules[i])
                           /\ BadBytes(rules[i]) \cap RequestBytes(q) # {}
<1>1. \A i \in DOMAIN rules :
        Touches(rules[i], q) <=> /\ q.path \in SectorOf(rules[i]).files
                                 /\ SectorOf(rules[i]).region \cap RequestBytes(q) # {}
  BY DEF AllRulesHeal, Touches, SectorOf
<1>2. \A i \in DOMAIN rules : SectorOf(rules[i]).bad = BadBytes(rules[i])
  BY DEF SectorOf
<1>3. \A s : s \in Device!Touched(q.path, RequestBytes(q))
               <=> \E i \in DOMAIN rules : Touches(rules[i], q) /\ s = SectorOf(rules[i])
  BY <1>1, SectorsAre DEF Device!Touched
<1> QED
  BY <1>2, <1>3 DEF Device!BadUnder

(* A new rule is a new sector.                                             *)
LEMMA AddInstalls ==
  ASSUME HealOnly, TypeOK, RulesOK, IDsIncrease, AllRulesHeal, NEW r \in RuleInputs, Add(r)
  PROVE  Device!Install
<1> DEFINE n == NewRuleState(nextID + 1, r)
<1>1. rules \in Seq(RuleState) /\ nextID \in Nat /\ Len(rules) \in Nat
        /\ DOMAIN rules = 1..Len(rules)
  BY LenProperties DEF TypeOK
<1>2. n \in RuleState /\ n.id = nextID + 1 /\ n.healed = FALSE /\ n.healedBlocks = {}
  BY <1>1, NewRuleStateType DEF NewRuleState
<1>3. /\ DOMAIN rules' = DOMAIN rules \cup {Len(rules) + 1}
      /\ \A j \in DOMAIN rules : rules'[j] = rules[j]
      /\ rules'[Len(rules) + 1] = n
  BY <1>1, <1>2, AppendProperties, LenProperties DEF Add
<1>4. AllRulesHeal'
  <2>1. [Next]_vars
    BY DEF Next
  <2> QED
    BY <2>1, AllRulesHealStep
<1>5. DeviceSectors' = {SectorOf(rules'[i]) : i \in DOMAIN rules'}
  BY <1>4 DEF AllRulesHeal, DeviceSectors, SectorOf
<1>6. DeviceSectors' = DeviceSectors \cup {SectorOf(n)}
  BY <1>3, <1>5, SectorsAre
<1>7. SectorOf(n) \notin DeviceSectors
  <2>1. \A i \in DOMAIN rules : rules[i].id \in Nat /\ rules[i].id <= nextID
    BY RuleFields DEF IDsIncrease
  <2>2. \A i \in DOMAIN rules : SectorOf(rules[i]).id # SectorOf(n).id
    BY <1>1, <1>2, <2>1 DEF SectorOf
  <2> QED
    BY <2>2, SectorsAre
<1>8. SectorOf(n).bad = SectorOf(n).region
  <2>1. n.r.heal
    BY <1>3, <1>4 DEF AllRulesHeal
  <2>2. RepairedBytes(n) = {}
    BY <1>2 DEF RepairedBytes
  <2> QED
    BY <2>1, <2>2 DEF SectorOf, BadBytes
<1>9. DeviceAnswer' = "none"
  BY NoAnswer DEF Add
<1> QED
  BY <1>6, <1>7, <1>8, <1>9 DEF Add, spareVars, Device!Install

(* Deleted rules are sectors taken away.                                   *)
LEMMA DeleteUninstalls ==
  ASSUME HealOnly, TypeOK, AllRulesHeal, NEW id \in 1..MaxID, Delete(id)
  PROVE  Device!Uninstall
<1>1. AllRulesHeal'
  <2>1. [Next]_vars
    BY DEF Next
  <2> QED
    BY <2>1, AllRulesHealStep
<1>2. DeviceSectors' = {SectorOf(rules'[i]) : i \in DOMAIN rules'}
  BY <1>1 DEF AllRulesHeal, DeviceSectors, SectorOf
<1>3. \A i \in DOMAIN rules' : \E j \in DOMAIN rules : rules'[i] = rules[j]
  <2>1. CASE rules' = rules
    BY <2>1
  <2>2. ASSUME NEW k \in DOMAIN rules,
               rules' = SubSeq(rules, 1, k - 1) \o SubSeq(rules, k + 1, Len(rules)),
               NEW i \in DOMAIN rules'
        PROVE  \E j \in DOMAIN rules : rules'[i] = rules[j]
    <3>1. k \in Int /\ Len(rules) \in Nat
      BY RuleFields, LenProperties DEF TypeOK
    <3>2. i \in 1..(Len(rules) - 1)
      BY <2>2, DeleteKeeps
    <3>3. /\ i < k => rules'[i] = rules[i] /\ i \in DOMAIN rules
          /\ i >= k => rules'[i] = rules[i + 1] /\ i + 1 \in DOMAIN rules
      BY <2>2, DeleteKeeps
    <3> QED
      BY <3>1, <3>2, <3>3
  <2> QED
    BY <2>1, <2>2 DEF Delete
<1>4. DeviceSectors' \subseteq DeviceSectors
  BY <1>2, <1>3, SectorsAre
<1>5. DeviceAnswer' = "none"
  BY NoAnswer DEF Delete
<1> QED
  BY <1>4, <1>5 DEF Delete, spareVars, Device!Uninstall

(* A refresh makes every sector bad all over and fills the stock.          *)
LEMMA RefreshRestores ==
  ASSUME TypeOK, AllRulesHeal, NEW skip \in BOOLEAN, Refresh(skip)
  PROVE  Device!Restore
<1>1. DOMAIN rules' = DOMAIN rules /\ \A i \in DOMAIN rules : rules'[i] = Fresh(rules[i])
  BY DEF Refresh
<1>2. \A i \in DOMAIN rules : rules[i] \in RuleState /\ rules[i].r.heal
  BY RuleFields DEF AllRulesHeal
<1>3. \A i \in DOMAIN rules :
        /\ rules'[i].r = rules[i].r
        /\ SectorOf(rules'[i]) = [SectorOf(rules[i]) EXCEPT !.bad = SectorOf(rules[i]).region]
  <2> SUFFICES ASSUME NEW i \in DOMAIN rules
               PROVE  /\ rules'[i].r = rules[i].r
                      /\ SectorOf(rules'[i])
                           = [SectorOf(rules[i]) EXCEPT !.bad = SectorOf(rules[i]).region]
    OBVIOUS
  <2>1. /\ rules'[i].r = rules[i].r /\ rules'[i].id = rules[i].id
        /\ RegionBytes(rules'[i]) = RegionBytes(rules[i])
        /\ BadBytes(rules'[i]) = RegionBytes(rules[i])
    BY <1>1, <1>2, FreshBytes
  <2> QED
    BY <2>1 DEF SectorOf
<1>4. AllRulesHeal'
  BY <1>1, <1>2, <1>3 DEF AllRulesHeal
<1>5. DeviceSectors' = {SectorOf(rules'[i]) : i \in DOMAIN rules'}
  BY <1>4 DEF AllRulesHeal, DeviceSectors, SectorOf
<1>6. DeviceSectors' = {[s EXCEPT !.bad = s.region] : s \in DeviceSectors}
  <2>1. DeviceSectors' = {SectorOf(rules'[i]) : i \in DOMAIN rules}
    BY <1>1, <1>5
  <2>2. DeviceSectors = {SectorOf(rules[i]) : i \in DOMAIN rules}
    BY SectorsAre
  <2>3. \A t : t \in DeviceSectors'
                 <=> \E s \in DeviceSectors : t = [s EXCEPT !.bad = s.region]
    BY <1>3, <2>1, <2>2
  <2> QED
    BY <2>3
<1>7. DeviceAnswer' = "none"
  BY NoAnswer DEF Refresh
<1> QED
  BY <1>6, <1>7 DEF Refresh, Device!Restore

(* The request of a step is one the device may get.                        *)
LEMMA DeviceRequest ==
  ASSUME NEW q \in Requests, IsIO(q)
  PROVE  /\ q.path \in Paths
         /\ RequestBytes(q) \in {RequestBytes(p) : p \in {r \in Requests : IsIO(r)}}
  BY IORequest

(* Requests that are no reads or writes pass all bad sectors.              *)
LEMMA OtherOpsIdle ==
  ASSUME TypeOK, RulesOK, AllRulesHeal, NEW q \in Requests, ~IsIO(q), Check(q)
  PROVE  Device!Idle
<1>1. \A i \in DOMAIN rules : Continues(rules[i], q)
  <2> SUFFICES ASSUME NEW i \in DOMAIN rules PROVE Continues(rules[i], q)
    OBVIOUS
  <2>1. rules[i].r.heal /\ rules[i].r.op = "read"
    BY DEF AllRulesHeal, RulesOK, GridOK
  <2> QED
    BY <2>1 DEF Continues, Matches, OpMatches, AnyOp
<1>2. CheckPass(q)
  BY <1>1 DEF Check, CheckPlain, CheckBadRead, CheckRewrite, CheckNoSpare, CheckHeal,
         NeedsRepair, Decides
<1>3. DeviceAnswer' = "none"
  BY <1>2, RequestAnswer DEF CheckPass
<1> QED
  BY <1>2, <1>3 DEF CheckPass, spareVars, DeviceSectors, Device!Idle

(* A request that changes no rule leaves the disk as it was.               *)
LEMMA DiskUnchanged ==
  ASSUME UNCHANGED <<rules, spareVars>>
  PROVE  /\ DeviceSectors' = DeviceSectors
         /\ UNCHANGED <<spareCount, spareBlockSize, initialSpareCount, initialSpareBlockSize>>
  BY DEF DeviceSectors, spareVars

(* A request that every rule lets pass meets no bad byte.                  *)
LEMMA PassMeansGood ==
  ASSUME TypeOK, RulesOK, AllRulesHeal, NEW q \in Requests, IsIO(q), CheckPass(q)
  PROVE  Device!BadUnder(q.path, RequestBytes(q)) = {}
<1>1. \A i \in DOMAIN rules : Touches(rules[i], q) => BadBytes(rules[i]) \cap RequestBytes(q) = {}
  BY ContinuesMeansGood DEF CheckPass
<1> QED
  BY <1>1, TouchedSectors

(* A request a rule decides meets its bad bytes.                           *)
LEMMA DecidedMeansBad ==
  ASSUME TypeOK, RulesOK, AllRulesHeal, RequestsNameBytes,
         NEW q \in Requests, IsIO(q), NEW i \in DOMAIN rules, Decides(i, q),
         q.op = "write" /\ PerBlock(rules[i]) => Unhealed(rules[i], q) # {}
  PROVE  /\ Touches(rules[i], q)
         /\ SectorOf(rules[i]) \in Device!BadUnder(q.path, RequestBytes(q))
<1>1. rules[i].r.heal /\ ~Continues(rules[i], q)
  BY DEF AllRulesHeal, Decides
<1>2. Touches(rules[i], q) /\ BadBytes(rules[i]) \cap RequestBytes(q) # {}
  BY <1>1, DecidesMeansBad
<1> QED
  BY <1>2, TouchedSectors

(* Check reads as the disk does.                                           *)
LEMMA CheckReads ==
  ASSUME TypeOK, RulesOK, AllRulesHeal, RequestsNameBytes,
         NEW q \in Requests, q.op = "read", Check(q)
  PROVE  Device!Read(q.path, RequestBytes(q))
<1>0. IsIO(q)
  BY DEF IsIO
<1>1. CASE CheckPass(q)
  <2>1. Device!BadUnder(q.path, RequestBytes(q)) = {}
    BY <1>0, <1>1, PassMeansGood
  <2>2. DeviceAnswer' = "ok"
    BY <1>0, <1>1, RequestAnswer DEF CheckPass
  <2>3. UNCHANGED <<rules, spareVars>>
    BY <1>1 DEF CheckPass
  <2> QED
    BY <2>1, <2>2, <2>3, DiskUnchanged DEF Device!Read
<1>2. ASSUME NEW i \in DOMAIN rules, CheckBadRead(q, i)
      PROVE  Device!Read(q.path, RequestBytes(q))
  <2>1. SectorOf(rules[i]) \in Device!BadUnder(q.path, RequestBytes(q))
    BY <1>0, <1>2, DecidedMeansBad DEF CheckBadRead
  <2>2. rules[i].r.errno \in Nat \ {0}
    BY RuleFields
  <2>3. DeviceAnswer' = "error"
    BY <1>0, <1>2, <2>2, RequestAnswer DEF CheckBadRead
  <2>4. UNCHANGED <<rules, spareVars>>
    BY <1>2 DEF CheckBadRead
  <2> QED
    BY <2>1, <2>3, <2>4, DiskUnchanged DEF Device!Read
<1>3. CheckPass(q) \/ \E i \in DOMAIN rules : CheckBadRead(q, i)
  BY DEF Check, CheckPlain, CheckRewrite, CheckNoSpare, CheckHeal, NeedsRepair, AllRulesHeal
<1> QED
  BY <1>1, <1>2, <1>3

(* A write that repairs nothing, and one that is refused.                  *)
LEMMA CheckWritesNothing ==
  ASSUME TypeOK, RulesOK, AllRulesHeal, RequestsNameBytes, NEW q \in Requests, q.op = "write",
         \/ CheckPass(q)
         \/ \E i \in DOMAIN rules : CheckRewrite(q, i) \/ CheckNoSpare(q, i)
  PROVE  \/ Device!Overwrite(q.path, RequestBytes(q))
         \/ Device!Refuse(q.path, RequestBytes(q))
<1>0. IsIO(q)
  BY DEF IsIO
<1>1. CASE CheckPass(q)
  <2>1. Device!BadUnder(q.path, RequestBytes(q)) = {}
    BY <1>0, <1>1, PassMeansGood
  <2>2. DeviceAnswer' = "ok"
    BY <1>0, <1>1, RequestAnswer DEF CheckPass
  <2>3. UNCHANGED <<rules, spareVars>>
    BY <1>1 DEF CheckPass
  <2> QED
    BY <2>1, <2>2, <2>3, DiskUnchanged DEF Device!Overwrite
<1>2. ASSUME NEW i \in DOMAIN rules, CheckRewrite(q, i)
      PROVE  Device!Overwrite(q.path, RequestBytes(q))
  <2>1. /\ rules[i].r.heal /\ Matches(rules[i], q) /\ PerBlock(rules[i])
        /\ Unhealed(rules[i], q) = {}
    BY <1>2 DEF CheckRewrite, Decides, Continues
  <2>2. Touches(rules[i], q) /\ BadBytes(rules[i]) \cap RequestBytes(q) = {}
    BY <1>0, <2>1, TouchesMatches, BadUnderRequest
  <2>3. SectorOf(rules[i]) \in Device!Touched(q.path, RequestBytes(q))
    BY <2>2, TouchedSectors
  <2>4. SectorOf(rules[i]) \notin Device!BadUnder(q.path, RequestBytes(q))
    BY <2>2 DEF Device!BadUnder, SectorOf
  <2>5. DeviceAnswer' = "ok"
    BY <1>0, <1>2, RequestAnswer DEF CheckRewrite
  <2>6. UNCHANGED <<rules, spareVars>>
    BY <1>2 DEF CheckRewrite
  <2> QED
    BY <2>3, <2>4, <2>5, <2>6, DiskUnchanged DEF Device!Overwrite
<1>3. ASSUME NEW i \in DOMAIN rules, CheckNoSpare(q, i)
      PROVE  Device!Refuse(q.path, RequestBytes(q))
  <2>1. SectorOf(rules[i]) \in Device!BadUnder(q.path, RequestBytes(q))
    BY <1>0, <1>3, DecidedMeansBad DEF CheckNoSpare, NeedsRepair
  <2>2. spareCount # -1
    BY <1>3 DEF CheckNoSpare, Affordable
  <2>3. rules[i].r.errno \in Nat \ {0}
    BY RuleFields
  <2>4. DeviceAnswer' = "error"
    BY <1>0, <1>3, <2>3, RequestAnswer DEF CheckNoSpare
  <2>5. UNCHANGED <<rules, spareVars>>
    BY <1>3 DEF CheckNoSpare
  <2> QED
    BY <2>1, <2>2, <2>4, <2>5, DiskUnchanged DEF Device!Refuse
<1> QED
  BY <1>1, <1>2, <1>3

(* The bytes made good are no more than those accounted as remapped.       *)
LEMMA NewlyGoodCounted ==
  ASSUME TypeOK, RulesOK, NEW i \in DOMAIN rules, NEW q \in Requests, rules[i].r.offLen > 0
  PROVE  /\ IsFiniteSet(NewlyGood(rules[i], q))
         /\ Cardinality(NewlyGood(rules[i], q)) \in Nat
         /\ Cardinality(NewlyGood(rules[i], q)) <= RemappedBytes(rules[i], q)
<1> DEFINE s == rules[i]
           N == NewlyGood(s, q)
<1>1. /\ s.r.off \in Int /\ s.r.offLen \in Int /\ s.blockSize \in Nat \ {0} /\ s.total \in Nat
  BY RegionFields, MaxIntAssumption
<1>2. RegionBytes(s) \subseteq Int /\ RegionBytes(s) \subseteq s.r.off..(s.r.off + s.r.offLen - 1)
  BY <1>1, MaxIntAssumption DEF RegionBytes, FileBytes
<1>3. CASE PerBlock(s)
  <2>1. Unhealed(s, q) \subseteq 0..(s.total - 1)
    BY CoverType DEF Unhealed
  <2>2. IsFiniteSet(Unhealed(s, q))
    BY <1>1, <2>1, BlockCount
  <2>3. N \subseteq Int /\ \A x \in N : (x - s.r.off) \div s.blockSize \in Unhealed(s, q)
    BY <1>2, <1>3 DEF NewlyGood, BlockOf
  <2>4. IsFiniteSet(N) /\ Cardinality(N) \in Nat
          /\ Cardinality(N) <= Cardinality(Unhealed(s, q)) * s.blockSize
    <3> DEFINE o == s.r.off
               b == s.blockSize
               U == Unhealed(s, q)
    <3>1. /\ o \in Int /\ b \in Nat \ {0} /\ IsFiniteSet(U) /\ N \subseteq Int
          /\ \A x \in N : (x - o) \div b \in U
      BY <1>1, <2>2, <2>3
    <3> HIDE DEF o, b, U, N
    <3>2. IsFiniteSet(N) /\ Cardinality(N) \in Nat /\ Cardinality(N) <= Cardinality(U) * b
      BY <3>1, BytesOfBlocks
    <3> QED
      BY <3>2 DEF b, U
  <2> QED
    BY <1>3, <2>4 DEF RemappedBytes
<1>4. CASE ~PerBlock(s)
  <2> DEFINE R == s.r.off..(s.r.off + s.r.offLen - 1)
  <2>1. IsFiniteSet(R) /\ Cardinality(R) = s.r.offLen
    <3> DEFINE a == s.r.off
               b == s.r.off + s.r.offLen - 1
    <3>1. a \in Int /\ b \in Int /\ ~(a > b) /\ b - a + 1 = s.r.offLen
      BY <1>1
    <3> HIDE DEF a, b
    <3>2. IsFiniteSet(a..b) /\ Cardinality(a..b) = s.r.offLen
      BY <3>1, FS_Interval
    <3> QED
      BY <3>2 DEF a, b
  <2>2. N \in SUBSET R
    BY <1>2, <1>4 DEF NewlyGood
  <2>3. IsFiniteSet(N) /\ Cardinality(N) <= s.r.offLen /\ Cardinality(N) \in Nat
    <3> HIDE DEF R, N
    <3> QED
      BY <2>1, <2>2, FS_Subset, FS_CardinalityType
  <2> QED
    BY <1>4, <2>3 DEF RemappedBytes
<1> QED
  BY <1>3, <1>4

(* A repair costs at least one block.                                      *)
LEMMA RepairCosts ==
  ASSUME TypeOK, GridsFit, NEW i \in DOMAIN rules, NEW q \in Requests, NeedsRepair(i, q)
  PROVE  Charge(rules[i], q) >= 1
<1> DEFINE s == rules[i]
           n == Cardinality(Unhealed(s, q))
           g == s.blockSize
           c == GridBlocksToSpare(n, g, spareBlockSize)
<1>1. n \in Nat /\ g \in Nat \ {0} /\ s.r.offLen \in Int /\ spareBlockSize \in Nat \ {0}
        /\ s.total \in Nat
  BY CoverType, RuleFields, MaxIntAssumption DEF TypeOK, Int64
<1>2. CASE PerBlock(s)
  <2>1. IsFiniteSet(Unhealed(s, q)) /\ Unhealed(s, q) # {}
    <3>1. Unhealed(s, q) \subseteq 0..(s.total - 1)
      BY CoverType DEF Unhealed
    <3> QED
      BY <1>1, <1>2, <3>1, BlockCount DEF NeedsRepair
  <2>2. n # 0
    BY <2>1, FS_EmptySet
  <2>3. n * g <= c * spareBlockSize
    BY <1>1, HealedBytesFit, GridBlocksToSpareCovers
  <2>4. c \in Int
    <3>1. n \in Int /\ g \in Int /\ spareBlockSize \in Int
      BY <1>1
    <3> QED
      BY <3>1, GridBlocksToSpareInt
  <2>5. n * g >= 1
    BY <1>1, <2>2
  <2>6. CASE c <= 0
    <3>1. c * spareBlockSize <= 0
      BY <1>1, <2>4, <2>6
    <3>2. c * spareBlockSize \in Int /\ n * g \in Int
      BY <1>1, <2>4
    <3> QED
      BY <2>3, <2>5, <3>1, <3>2
  <2> QED
    BY <1>2, <2>4, <2>6 DEF Charge
<1>3. CASE ~PerBlock(s)
  <2>1. BlocksNeeded(s.r.offLen, spareBlockSize) \in Nat \ {0}
    <3>1. s.r.offLen \in Int /\ spareBlockSize \in Int
      BY <1>1
    <3> QED
      BY <3>1, BlocksNeededPositive
  <2> QED
    BY <1>3, <2>1 DEF Charge
<1> QED
  BY <1>2, <1>3

(* A write that repairs does what the disk's Repair does: all its bytes    *)
(* become good in one sector, and the stock pays.                          *)
LEMMA HealRepairs ==
  ASSUME TypeOK, GridsFit, SpareWithinBudget, RulesOK, IDsIncrease, AllRulesHeal, RequestsNameBytes,
         NEW q \in Requests, NEW i \in DOMAIN rules, CheckHeal(q, i)
  PROVE  Device!Repair(q.path, RequestBytes(q))
<1> DEFINE s == rules[i]
           t == rules'[i]
           X == RequestBytes(q)
           c == Charge(s, q)
<1>1. q.op = "write" /\ IsIO(q) /\ NeedsRepair(i, q) /\ Affordable(c) /\ Answer(q, 0)
  BY DEF CheckHeal, NeedsRepair, IsIO
<1>2. SectorOf(s) \in Device!BadUnder(q.path, X)
  BY <1>1, DecidedMeansBad DEF NeedsRepair
<1>3. /\ DOMAIN rules' = DOMAIN rules
      /\ \A j \in DOMAIN rules \ {i} : rules'[j] = rules[j]
      /\ t.r = s.r /\ t.id = s.id
      /\ RegionBytes(t) = RegionBytes(s)
      /\ BadBytes(t) = BadBytes(s) \ NewlyGood(s, q)
  BY HealBytes
<1>4. SectorOf(t) = [SectorOf(s) EXCEPT !.bad = SectorOf(t).bad]
  BY <1>3 DEF SectorOf
<1>5. SectorOf(t).bad \subseteq SectorOf(s).bad \ X
  <2>1. s.r.heal
    BY DEF AllRulesHeal
  <2>2. BadBytes(s) \cap X \subseteq NewlyGood(s, q)
    <3>1. CASE PerBlock(s)
      <4>1. \A x \in BadBytes(s) : x \in RegionBytes(s) /\ BlockOf(s, x) \notin s.healedBlocks
        BY <2>1, <3>1 DEF BadBytes, RepairedBytes, BlockOf
      <4>2. \A x \in RegionBytes(s) \cap X : BlockOf(s, x) \in Cover(s, q)
        BY <1>1, <3>1, CoverIsBlocks
      <4> QED
        BY <3>1, <4>1, <4>2 DEF NewlyGood, Unhealed
    <3>2. CASE ~PerBlock(s)
      BY <2>1, <3>2 DEF BadBytes, NewlyGood
    <3> QED
      BY <3>1, <3>2
  <2> QED
    BY <1>3, <2>2 DEF SectorOf
<1>6. AllRulesHeal'
  <2>1. \A j \in DOMAIN rules : rules'[j].r = rules[j].r
    BY <1>3
  <2> QED
    BY <1>3, <2>1 DEF AllRulesHeal
<1>7. DeviceSectors' = (DeviceSectors \ {SectorOf(s)}) \cup {SectorOf(t)}
  <2>1. DeviceSectors' = {SectorOf(rules'[j]) : j \in DOMAIN rules'}
    BY <1>6 DEF AllRulesHeal, DeviceSectors, SectorOf
  <2>2. DeviceSectors = {SectorOf(rules[j]) : j \in DOMAIN rules}
    BY SectorsAre
  <2>3. \A j \in DOMAIN rules \ {i} : SectorOf(rules[j]) # SectorOf(s)
    BY SectorsDiffer
  <2>4. DeviceSectors \ {SectorOf(s)} = {SectorOf(rules[j]) : j \in DOMAIN rules \ {i}}
    BY <2>2, <2>3
  <2>5. DeviceSectors' = {SectorOf(rules[j]) : j \in DOMAIN rules \ {i}} \cup {SectorOf(t)}
    BY <1>3, <2>1
  <2> QED
    BY <2>4, <2>5
<1>8. SectorOf(t) \in DeviceSectors'
  BY <1>7
<1>9. DeviceAnswer' = "ok"
  BY <1>1, RequestAnswer
<1>10. UNCHANGED <<spareBlockSize, initialSpareCount, initialSpareBlockSize>>
  BY DEF CheckHeal
<1>11. spareCount \in Int /\ spareBlockSize \in Int /\ c \in Int /\ c >= 1
  BY <1>1, ChargeInt, RepairCosts, MaxIntAssumption DEF TypeOK, Int64
<1>12. CASE spareCount = -1
  <2>1. spareCount' = spareCount
    BY <1>12 DEF CheckHeal
  <2> QED
    BY <1>2, <1>4, <1>5, <1>7, <1>8, <1>9, <1>10, <1>12, <2>1 DEF Device!Repair
<1>13. CASE spareCount # -1
  <2>1. spareCount >= 0
    BY <1>11, <1>13, MaxIntAssumption DEF SpareWithinBudget, TypeOK, Int64
  <2>2. spareCount' = spareCount - c
    BY <2>1, HealBudget
  <2>3. c \in 0..spareCount
    BY <1>1, <1>11, <1>13 DEF Affordable
  <2>4. Device!Pays(c, SectorOf(s), Cardinality(SectorOf(s).bad \ SectorOf(t).bad))
    <3> DEFINE D == SectorOf(s).bad \ SectorOf(t).bad
    <3> SUFFICES ASSUME spareBlockSize > 1, s.r.offLen > 0
                 PROVE  c * spareBlockSize >= Cardinality(D)
      BY <1>11 DEF Device!Pays, SectorOf
    <3>1. D \in SUBSET NewlyGood(s, q)
      BY <1>3 DEF SectorOf
    <3>2. /\ IsFiniteSet(NewlyGood(s, q)) /\ Cardinality(NewlyGood(s, q)) \in Nat
          /\ Cardinality(NewlyGood(s, q)) <= RemappedBytes(s, q)
      BY NewlyGoodCounted
    <3>3. Cardinality(D) <= Cardinality(NewlyGood(s, q)) /\ Cardinality(D) \in Nat
      <4> HIDE DEF D
      <4> QED
        BY <3>1, <3>2, FS_Subset, FS_CardinalityType
    <3>4. RemappedBytes(s, q) <= c * spareBlockSize
      BY ChargeCovers
    <3>5. RemappedBytes(s, q) \in Int /\ c * spareBlockSize \in Int
      BY <1>11, ChargeInt
    <3> QED
      BY <3>2, <3>3, <3>4, <3>5
  <2>5. \E blocks \in 0..[left |-> spareCount, size |-> spareBlockSize].left :
          /\ Device!Pays(blocks, SectorOf(s), Cardinality(SectorOf(s).bad \ SectorOf(t).bad))
          /\ [left |-> spareCount', size |-> spareBlockSize']
               = [[left |-> spareCount, size |-> spareBlockSize] EXCEPT !.left = @ - blocks]
    BY <1>10, <2>2, <2>3, <2>4
  <2>6. [left |-> spareCount, size |-> spareBlockSize].left # -1
    BY <1>13
  <2> DEFINE u == SectorOf(s)
             v == SectorOf(t)
  <2>7. /\ u \in Device!BadUnder(q.path, X) /\ v \in DeviceSectors'
        /\ v = [u EXCEPT !.bad = v.bad] /\ v.bad \subseteq u.bad \ X
        /\ DeviceSectors' = (DeviceSectors \ {u}) \cup {v}
    BY <1>2, <1>4, <1>5, <1>7, <1>8
  <2>8. \E blocks \in 0..[left |-> spareCount, size |-> spareBlockSize].left :
          /\ Device!Pays(blocks, u, Cardinality(u.bad \ v.bad))
          /\ [left |-> spareCount', size |-> spareBlockSize']
               = [[left |-> spareCount, size |-> spareBlockSize] EXCEPT !.left = @ - blocks]
    BY <2>5
  <2>9. Device!Cardinality(u.bad \ v.bad) = Cardinality(u.bad \ v.bad)
    BY DEF Cardinality, Device!Cardinality
  <2> DEFINE stock == [left |-> spareCount, size |-> spareBlockSize]
  <2>10. IF stock.left = -1
         THEN stock' = stock
         ELSE \E blocks \in 0..stock.left :
                /\ Device!Pays(blocks, u, Device!Cardinality(u.bad \ v.bad))
                /\ stock' = [stock EXCEPT !.left = @ - blocks]
    <3> HIDE DEF u, v
    <3> QED
      BY <2>6, <2>8, <2>9
  <2>11. UNCHANGED [left |-> initialSpareCount, size |-> initialSpareBlockSize]
    BY <1>10
  <2> HIDE DEF u, v
  <2> QED
    BY <1>9, <2>7, <2>10, <2>11 DEF Device!Repair
<1> QED
  BY <1>12, <1>13

(* While all rules are bad sectors and every request names bytes, the      *)
(* injector is a disk, for all rules, requests and budgets: every step is  *)
(* a step of the disk.  The products of the charge must fit in int64, as   *)
(* the comment of gridBlocksToSpare assumes.                               *)
THEOREM InjectorIsADisk ==
  ASSUME HealOnly, RequestsNameBytes, GridBounded PROVE Spec => ImplementsDevice
<1> DEFINE Inv == TypeOK /\ GridsFit /\ SpareWithinBudget /\ RulesOK /\ IDsIncrease /\ AllRulesHeal
<1>1. Init => AllRulesHeal /\ GridsFit
  BY DEF Init, AllRulesHeal, GridsFit, GridBounded
<1>2. Init => Device!Init
  <2> SUFFICES ASSUME Init PROVE Device!Init
    OBVIOUS
  <2>1. DeviceSectors = {}
    BY DEF Init, DeviceSectors
  <2>2. DeviceAnswer = "none"
    BY DEF Init, Void, DeviceAnswer, Answered
  <2> QED
    BY <2>1, <2>2 DEF Init, Device!Init
<1>3. ASSUME Inv, [Next]_vars PROVE [Device!Next]_Device!vars
  <2>1. ASSUME NEW r \in RuleInputs, Add(r) PROVE Device!Next
    BY <1>3, <2>1, AddInstalls DEF Device!Next
  <2>2. ASSUME NEW id \in 1..MaxID, Delete(id) PROVE Device!Next
    BY <1>3, <2>2, DeleteUninstalls DEF Device!Next
  <2>3. CASE Clear
    <3>1. DeviceSectors' = {}
      BY <2>3 DEF Clear, DeviceSectors
    <3>2. DeviceAnswer' = "none"
      BY <2>3, NoAnswer DEF Clear, Void
    <3> QED
      BY <2>3, <3>1, <3>2 DEF Clear, spareVars, Device!Uninstall, Device!Next
  <2>4. ASSUME NEW x \in SpareInputs, SetSpareBlocks(x[1], x[2]) PROVE Device!Next
    <3>1. DeviceSectors' = DeviceSectors
      BY <2>4 DEF SetSpareBlocks, DeviceSectors
    <3>2. DeviceAnswer' = "none"
      BY <2>4, NoAnswer DEF SetSpareBlocks, Void
    <3>3. spareCount' = initialSpareCount' /\ spareBlockSize' = initialSpareBlockSize'
      BY <2>4 DEF SetSpareBlocks
    <3> QED
      BY <3>1, <3>2, <3>3 DEF Device!Fill, Device!Next
  <2>5. ASSUME UNCHANGED <<rules, spareVars>>, reply' = Void PROVE Device!Next
    <3>1. DeviceAnswer' = "none"
      BY <2>5, NoAnswer DEF Void
    <3> QED
      BY <2>5, <3>1, DiskUnchanged DEF Device!Idle, Device!Next
  <2>6. ASSUME NEW skip \in BOOLEAN, Refresh(skip) PROVE Device!Next
    BY <1>3, <2>6, RefreshRestores DEF Device!Next
  <2>7. ASSUME NEW q \in Requests, Check(q) PROVE Device!Next
    <3>1. CASE ~IsIO(q)
      BY <1>3, <2>7, <3>1, OtherOpsIdle DEF Device!Next
    <3>2. CASE q.op = "read"
      <4>1. Device!Read(q.path, RequestBytes(q))
        BY <1>3, <2>7, <3>2, CheckReads
      <4> QED
        BY <3>2, <4>1, DeviceRequest DEF IsIO, Device!Next
    <3>3. CASE q.op = "write"
      <4>1. ASSUME NEW i \in DOMAIN rules, CheckHeal(q, i) PROVE Device!Next
        <5>1. Device!Repair(q.path, RequestBytes(q))
          BY <1>3, <4>1, HealRepairs
        <5> QED
          BY <3>3, <5>1, DeviceRequest DEF IsIO, Device!Next
      <4>2. ASSUME \/ CheckPass(q)
                   \/ \E i \in DOMAIN rules : CheckRewrite(q, i) \/ CheckNoSpare(q, i)
            PROVE  Device!Next
        <5>1. \/ Device!Overwrite(q.path, RequestBytes(q))
              \/ Device!Refuse(q.path, RequestBytes(q))
          BY <1>3, <3>3, <4>2, CheckWritesNothing
        <5> QED
          BY <3>3, <5>1, DeviceRequest DEF IsIO, Device!Next
      <4>3. \/ CheckPass(q)
            \/ \E i \in DOMAIN rules : CheckRewrite(q, i) \/ CheckNoSpare(q, i)
            \/ \E i \in DOMAIN rules : CheckHeal(q, i)
        BY <1>3, <2>7, <3>3 DEF Check, CheckPlain, CheckBadRead, AllRulesHeal
      <4> QED
        BY <4>1, <4>2, <4>3
    <3> QED
      BY <3>1, <3>2, <3>3 DEF IsIO
  <2>8. CASE UNCHANGED vars
    <3>1. UNCHANGED <<rules, spareVars, reply>>
      BY <2>8 DEF vars
    <3>2. DeviceAnswer' = DeviceAnswer
      BY <3>1 DEF DeviceAnswer
    <3> QED
      BY <3>1, <3>2, DiskUnchanged DEF Device!vars
  <2> QED
    BY <1>3, <2>1, <2>2, <2>3, <2>4, <2>5, <2>6, <2>7, <2>8 DEF Next, SetProfile, SetSpeed
<1>4. Inv /\ [Next]_vars => AllRulesHeal'
  BY AllRulesHealStep
<1>5. Inv /\ [Next]_vars => [Device!Next]_Device!vars
  BY <1>3
<1>6. Spec => []TypeOK /\ []RulesOK /\ []IDsIncrease /\ []SpareWithinBudget
  BY RulesAlwaysOK, IDsOrdered, SpareNeverLeavesBudget, PTL
<1>7. TypeOK /\ GridsFit /\ [Next]_vars => GridsFit'
  BY GridsFitStep
<1> QED
  BY <1>1, <1>2, <1>4, <1>5, <1>6, <1>7, PTL DEF Spec, ImplementsDevice, Device!Spec
=============================================================================
