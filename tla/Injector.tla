------------------------------ MODULE Injector ------------------------------
(***************************************************************************)
(* The fault injector: the ordered rule set, the spare-block budget, the   *)
(* latency parameters, and Check, the decision taken for every file system *)
(* request (injector.go, rule.go, check.go, state.go, and the setters of   *)
(* profile.go).                                                            *)
(*                                                                         *)
(* Every operation runs under Injector.mu from its first read to its last  *)
(* write, so each is one atomic action here.  A path pattern is modelled   *)
(* by the set of request paths that contain it; reply is what the last     *)
(* operation returned to its caller.                                       *)
(***************************************************************************)
EXTENDS BlockMath, Sequences, FiniteSets

CONSTANTS
  Paths,            \* request paths, relative to the mount point
  OtherOps,         \* the op names other than "read" and "write"
  Errnos,           \* errno values a rule may inject
  MaxHealedBlocks,  \* maxHealedBlocks, the limit of block mode
  RuleInputs,       \* rules callers add
  SpareInputs,      \* <<count, blockSize>> arguments of SetSpareBlocks
  Offsets, Lengths, \* offsets and lengths of read and write requests
  Profiles, NoProfile, \* latency profiles; the one of a new injector
  SpeedInputs,      \* arguments of SetSpeed, in tenths
  MaxRules, MaxID   \* bounds of the model on rules held and rules added

AnyOp == ""
AllOps == {"read", "write"} \cup OtherOps

Rule == [op : {AnyOp} \cup AllOps, paths : SUBSET Paths, off : Nat,
         offLen : Int, errno : Errnos, n : Int, heal : BOOLEAN]

ASSUME InjectorAssumption ==
  /\ {"read", "write", AnyOp} \cap OtherOps = {}
  /\ Errnos \subseteq Nat \ {0}
  /\ MaxHealedBlocks \in Nat \ {0}
  /\ RuleInputs \subseteq Rule
  /\ \A r \in RuleInputs : r.off <= MaxInt /\ r.offLen \in Int64 /\ r.n \in Int64
  /\ SpareInputs \subseteq Int64 \X Int64
  /\ Offsets \subseteq 0..MaxInt
  /\ Lengths \subseteq 0..MaxInt
  /\ NoProfile \in Profiles
  /\ SpeedInputs \subseteq Int
  /\ MaxRules \in Nat
  /\ MaxID \in Nat

(* A request as the FUSE handlers hand it to Check: offset and length for  *)
(* read and write, -1 and 0 for every other op.                            *)
Requests ==
  [op : {"read", "write"}, path : Paths, off : Offsets, len : Lengths]
    \cup [op : OtherOps, path : Paths, off : {-1}, len : {0}]

VARIABLES
  rules,                                 \* ruleState records in Add order
  nextID,
  spareCount, spareBlockSize,            \* budget; -1 blocks is unlimited
  initialSpareCount, initialSpareBlockSize,
  profile, initialProfile, speed, initialSpeed,
  reply,                                 \* result of the last operation
  remapped  \* history: bytes remapped since the finite budget was last filled

spareVars == <<spareCount, spareBlockSize, initialSpareCount, initialSpareBlockSize>>
latencyVars == <<profile, initialProfile, speed, initialSpeed>>
vars == <<rules, nextID, spareVars, latencyVars, reply, remapped>>

RuleState ==
  [id : Nat \ {0}, r : Rule, remaining : Int, initialRem : Int,
   healed : BOOLEAN, total : Nat, healedBlocks : SUBSET Nat, blockSize : Nat \ {0}]

ResetEntry == [what : {"rule", "spare", "latency"}, id : Nat]

Reply ==
  [kind : {"none"}] \cup [kind : {"add"}, id : Nat]
    \cup [kind : {"delete"}, found : BOOLEAN]
    \cup [kind : {"refresh"}, entries : SUBSET ResetEntry]
    \cup [kind : {"check"}, req : Requests, errno : Nat]

Void == [kind |-> "none"]

Init ==
  /\ rules = <<>>
  /\ nextID = 0
  /\ spareCount = 0 /\ spareBlockSize = 1
  /\ initialSpareCount = 0 /\ initialSpareBlockSize = 1
  /\ profile = NoProfile /\ initialProfile = NoProfile
  /\ speed = 10 /\ initialSpeed = 10
  /\ reply = Void
  /\ remapped = 0

-----------------------------------------------------------------------------
(* Rule management *)

(* A rule repairs block by block when it has a length and the budget has a *)
(* block size, unless that takes too many flags; total = 0 is whole mode   *)
(* (healedBlocks == nil).                                                  *)
GridSize(r, bs) ==
  LET n == BlocksNeeded(r.offLen, bs)
  IN  IF r.heal /\ bs > 1 /\ r.offLen > 0 /\ n <= MaxHealedBlocks THEN n ELSE 0

NewRuleState(id, r) ==
  LET rem == IF r.n = 0 THEN -1 ELSE r.n
  IN  [id |-> id,
       r |-> [r EXCEPT !.op = IF r.heal THEN "read" ELSE r.op],
       remaining |-> rem, initialRem |-> rem,
       healed |-> FALSE, total |-> GridSize(r, spareBlockSize), healedBlocks |-> {},
       blockSize |-> spareBlockSize]

(* Mutant: the ID is the rule's position, which Delete makes free again.    *)
Add_PositionAsID(r) ==
  /\ nextID < MaxID /\ Len(rules) < MaxRules
  /\ nextID' = nextID + 1
  /\ rules' = Append(rules, NewRuleState(Len(rules) + 1, r))
  /\ reply' = [kind |-> "add", id |-> Len(rules) + 1]
  /\ UNCHANGED <<spareVars, latencyVars, remapped>>

Add(r) ==
  /\ nextID < MaxID /\ Len(rules) < MaxRules
  /\ nextID' = nextID + 1
  /\ rules' = Append(rules, NewRuleState(nextID + 1, r))
  /\ reply' = [kind |-> "add", id |-> nextID + 1]
  /\ UNCHANGED <<spareVars, latencyVars, remapped>>

Delete(id) ==
  /\ \/ \E i \in DOMAIN rules :
          /\ rules[i].id = id
          /\ \A j \in 1..(i - 1) : rules[j].id # id
          /\ rules' = SubSeq(rules, 1, i - 1) \o SubSeq(rules, i + 1, Len(rules))
          /\ reply' = [kind |-> "delete", found |-> TRUE]
     \/ /\ \A i \in DOMAIN rules : rules[i].id # id
        /\ rules' = rules
        /\ reply' = [kind |-> "delete", found |-> FALSE]
  /\ UNCHANGED <<nextID, spareVars, latencyVars, remapped>>

(* Mutant: an empty list starts counting from one again.                   *)
Clear_ResetsIDs ==
  /\ rules' = <<>> /\ nextID' = 0
  /\ reply' = Void
  /\ UNCHANGED <<spareVars, latencyVars, remapped>>

Clear ==
  /\ rules' = <<>>
  /\ reply' = Void
  /\ UNCHANGED <<nextID, spareVars, latencyVars, remapped>>

(* Mutant: the block size is stored as given, zero included.               *)
SetSpareBlocks_NoClamp(count, blockSize) ==
  LET c == IF count < -1 THEN 0 ELSE count
  IN  /\ spareCount' = c /\ initialSpareCount' = c
      /\ spareBlockSize' = blockSize /\ initialSpareBlockSize' = blockSize
      /\ remapped' = 0
      /\ reply' = Void
      /\ UNCHANGED <<rules, nextID, latencyVars>>

(* SetSpare(n) is SetSpareBlocks(n, 1).                                    *)
SetSpareBlocks(count, blockSize) ==
  LET c == IF count < -1 THEN 0 ELSE count
      b == IF blockSize < 1 THEN 1 ELSE blockSize
  IN  /\ spareCount' = c /\ initialSpareCount' = c
      /\ spareBlockSize' = b /\ initialSpareBlockSize' = b
      /\ remapped' = 0
      /\ reply' = Void
      /\ UNCHANGED <<rules, nextID, latencyVars>>

(* Mutant: the value Refresh goes back to is not updated.                  *)
SetProfile_NoSnapshot(p) ==
  /\ profile' = p
  /\ reply' = Void
  /\ UNCHANGED <<rules, nextID, spareVars, initialProfile, speed, initialSpeed, remapped>>

SetProfile(p) ==
  /\ profile' = p /\ initialProfile' = p
  /\ reply' = Void
  /\ UNCHANGED <<rules, nextID, spareVars, speed, initialSpeed, remapped>>

SetSpeed(x) ==
  LET v == IF x <= 0 THEN 10 ELSE x
  IN  /\ speed' = v /\ initialSpeed' = v
      /\ reply' = Void
      /\ UNCHANGED <<rules, nextID, spareVars, profile, initialProfile, remapped>>

-----------------------------------------------------------------------------
(* Refresh *)

Fresh(s) == [s EXCEPT !.remaining = s.initialRem, !.healed = FALSE, !.healedBlocks = {}]

(* Mutant: the text leaves out the remaining quota.                        *)
RuleStateText_NoQuota(s) ==
  IF s.total > 0 THEN <<Cardinality(s.healedBlocks), s.total>> ELSE <<s.healed>>

(* What ruleStateText tells apart: the number of healed blocks or the flag. *)
RuleStateText(s) ==
  IF s.total > 0
  THEN <<Cardinality(s.healedBlocks), s.total, s.remaining>>
  ELSE <<s.healed, s.remaining>>

SpareChanged ==
  spareCount # initialSpareCount \/ spareBlockSize # initialSpareBlockSize

RefreshEntries(skipLatency) ==
  {[what |-> "rule", id |-> rules[i].id] :
      i \in {j \in DOMAIN rules : RuleStateText(Fresh(rules[j])) # RuleStateText(rules[j])}}
    \cup (IF SpareChanged THEN {[what |-> "spare", id |-> 0]} ELSE {})
    \cup (IF ~skipLatency /\ <<profile, speed>> # <<initialProfile, initialSpeed>>
          THEN {[what |-> "latency", id |-> 0]} ELSE {})

Refresh(skipLatency) ==
  /\ reply' = [kind |-> "refresh", entries |-> RefreshEntries(skipLatency)]
  /\ rules' = [i \in DOMAIN rules |-> Fresh(rules[i])]
  /\ spareCount' = initialSpareCount
  /\ spareBlockSize' = initialSpareBlockSize
  /\ IF skipLatency
     THEN UNCHANGED <<profile, speed>>
     ELSE profile' = initialProfile /\ speed' = initialSpeed
  /\ remapped' = 0
  /\ UNCHANGED <<nextID, initialSpareCount, initialSpareBlockSize, initialProfile, initialSpeed>>

-----------------------------------------------------------------------------
(* Check *)

IsIO(q) == q.op \in {"read", "write"}
PerBlock(s) == s.total > 0

OpMatches(s, q) ==
  \/ s.r.op = AnyOp
  \/ s.r.heal /\ IsIO(q)
  \/ ~s.r.heal /\ s.r.op = q.op

(* The request [off, off + len) meets the rule's region, end points clamped. *)
OffMatches(r, q) ==
  IsIO(q) /\ r.offLen > 0 => Overlaps(r.off, r.offLen, q.off, q.len)

Matches(s, q) == OpMatches(s, q) /\ q.path \in s.r.paths /\ OffMatches(s.r, q)

Cover(s, q) == CoverRange(s.r.off, s.r.offLen, q.off, q.len, s.blockSize, s.total)
Unhealed(s, q) == Cover(s, q) \ s.healedBlocks

(* Mutant: a read needs only one of the blocks it covers to be repaired.   *)
Continues_AnyHealed(s, q) ==
  \/ ~Matches(s, q)
  \/ ~s.r.heal /\ s.remaining = 0
  \/ s.r.heal /\ ~PerBlock(s) /\ s.healed
  \/ /\ s.r.heal /\ PerBlock(s) /\ q.op = "read"
     /\ Cover(s, q) \cap s.healedBlocks # {} \/ Cover(s, q) = {}
  \/ s.r.heal /\ PerBlock(s) /\ q.op = "write" /\ Cover(s, q) = {}

(* The loop body reaches a continue: the rule leaves q to the later rules. *)
Continues(s, q) ==
  \/ ~Matches(s, q)
  \/ ~s.r.heal /\ s.remaining = 0
  \/ s.r.heal /\ ~PerBlock(s) /\ s.healed
  \/ /\ s.r.heal /\ PerBlock(s) /\ q.op = "read"
     /\ AllHealed(s.healedBlocks, s.total, s.r.off, s.r.offLen, q.off, q.len, s.blockSize)
  \/ s.r.heal /\ PerBlock(s) /\ q.op = "write" /\ Cover(s, q) = {}

(* Rule i is the first that does not continue: it decides q.               *)
Decides(i, q) ==
  /\ ~Continues(rules[i], q)
  /\ \A j \in 1..(i - 1) : Continues(rules[j], q)

(* Mutant: grid blocks are charged as if they were spare blocks.           *)
Charge_GridUnits(s, q) ==
  IF PerBlock(s)
  THEN Cardinality(Unhealed(s, q))
  ELSE BlocksNeeded(s.r.offLen, spareBlockSize)

(* Spare blocks the write q costs on rule s, in the live block size.       *)
Charge(s, q) ==
  IF PerBlock(s)
  THEN GridBlocksToSpare(Cardinality(Unhealed(s, q)), s.blockSize, spareBlockSize)
  ELSE BlocksNeeded(s.r.offLen, spareBlockSize)

(* Mutant: any block left is enough.                                       *)
Affordable_AnyLeft(c) == spareCount = -1 \/ spareCount > 0

Affordable(c) == spareCount = -1 \/ spareCount >= c

Answer(q, errno) == reply' = [kind |-> "check", req |-> q, errno |-> errno]

(* No rule decides: the request goes through.                              *)
CheckPass(q) ==
  /\ \A i \in DOMAIN rules : Continues(rules[i], q)
  /\ Answer(q, 0)
  /\ UNCHANGED <<rules, nextID, spareVars, latencyVars, remapped>>

(* Mutant: every hit is counted, a permanent rule's too.                   *)
CheckPlain_CountsAll(q, i) ==
  /\ Decides(i, q) /\ ~rules[i].r.heal
  /\ rules' = [rules EXCEPT ![i].remaining = @ - 1]
  /\ Answer(q, rules[i].r.errno)
  /\ UNCHANGED <<nextID, spareVars, latencyVars, remapped>>

(* Mutant: the loop goes on and every rule that matches loses a hit.       *)
CheckPlain_EveryMatch(q, i) ==
  /\ Decides(i, q) /\ ~rules[i].r.heal
  /\ rules' = [j \in DOMAIN rules |->
                IF Continues(rules[j], q) \/ rules[j].r.heal \/ rules[j].remaining < 0
                THEN rules[j] ELSE [rules[j] EXCEPT !.remaining = @ - 1]]
  /\ Answer(q, rules[i].r.errno)
  /\ UNCHANGED <<nextID, spareVars, latencyVars, remapped>>

(* A plain rule injects its errno and spends one hit of a finite quota.    *)
CheckPlain(q, i) ==
  /\ Decides(i, q) /\ ~rules[i].r.heal
  /\ rules' = IF rules[i].remaining > 0
              THEN [rules EXCEPT ![i].remaining = @ - 1]
              ELSE rules
  /\ Answer(q, rules[i].r.errno)
  /\ UNCHANGED <<nextID, spareVars, latencyVars, remapped>>

(* A read of a sector not repaired yet.                                    *)
CheckBadRead(q, i) ==
  /\ Decides(i, q) /\ rules[i].r.heal /\ q.op = "read"
  /\ Answer(q, rules[i].r.errno)
  /\ UNCHANGED <<rules, nextID, spareVars, latencyVars, remapped>>

(* A write to blocks that are all repaired: Check returns at once.         *)
CheckRewrite(q, i) ==
  /\ Decides(i, q) /\ rules[i].r.heal /\ q.op = "write"
  /\ PerBlock(rules[i]) /\ Unhealed(rules[i], q) = {}
  /\ Answer(q, 0)
  /\ UNCHANGED <<rules, nextID, spareVars, latencyVars, remapped>>

NeedsRepair(i, q) ==
  /\ Decides(i, q) /\ rules[i].r.heal /\ q.op = "write"
  /\ PerBlock(rules[i]) => Unhealed(rules[i], q) # {}

(* Mutant: the blocks are marked before the budget is found too small.     *)
CheckNoSpare_MarksFirst(q, i) ==
  /\ NeedsRepair(i, q)
  /\ ~Affordable(Charge(rules[i], q))
  /\ rules' = IF PerBlock(rules[i])
              THEN [rules EXCEPT ![i].healedBlocks = @ \cup Cover(rules[i], q)]
              ELSE [rules EXCEPT ![i].healed = TRUE]
  /\ Answer(q, rules[i].r.errno)
  /\ UNCHANGED <<nextID, spareVars, latencyVars, remapped>>

(* A write that needs more spare blocks than are left repairs nothing.     *)
CheckNoSpare(q, i) ==
  /\ NeedsRepair(i, q)
  /\ ~Affordable(Charge(rules[i], q))
  /\ Answer(q, rules[i].r.errno)
  /\ UNCHANGED <<rules, nextID, spareVars, latencyVars, remapped>>

RemappedBytes(s, q) ==
  IF PerBlock(s) THEN Cardinality(Unhealed(s, q)) * s.blockSize
  ELSE IF s.r.offLen > 0 THEN s.r.offLen
  ELSE 0

(* Mutant: a write to one block repairs the whole region.                  *)
CheckHeal_WholeRegion(q, i) ==
  LET s == rules[i]
  IN  /\ NeedsRepair(i, q)
      /\ Affordable(Charge(s, q))
      /\ rules' = IF PerBlock(s)
                  THEN [rules EXCEPT ![i].healedBlocks = 0..(s.total - 1)]
                  ELSE [rules EXCEPT ![i].healed = TRUE]
      /\ spareCount' = IF spareCount > 0 THEN Wrap(spareCount - Charge(s, q)) ELSE spareCount
      /\ remapped' = IF spareCount = -1 THEN 0 ELSE remapped + RemappedBytes(s, q)
      /\ Answer(q, 0)
      /\ UNCHANGED <<nextID, spareBlockSize, initialSpareCount, initialSpareBlockSize, latencyVars>>

(* A write remaps the region, or the blocks it covers, and pays for them.  *)
CheckHeal(q, i) ==
  LET s == rules[i]
  IN  /\ NeedsRepair(i, q)
      /\ Affordable(Charge(s, q))
      /\ rules' = IF PerBlock(s)
                  THEN [rules EXCEPT ![i].healedBlocks = @ \cup Cover(s, q)]
                  ELSE [rules EXCEPT ![i].healed = TRUE]
      /\ spareCount' = IF spareCount > 0 THEN Wrap(spareCount - Charge(s, q)) ELSE spareCount
      /\ remapped' = IF spareCount = -1 THEN 0 ELSE remapped + RemappedBytes(s, q)
      /\ Answer(q, 0)
      /\ UNCHANGED <<nextID, spareBlockSize, initialSpareCount, initialSpareBlockSize, latencyVars>>

Check(q) ==
  \/ CheckPass(q)
  \/ \E i \in DOMAIN rules :
       \/ CheckPlain(q, i)
       \/ CheckBadRead(q, i)
       \/ CheckRewrite(q, i)
       \/ CheckNoSpare(q, i)
       \/ CheckHeal(q, i)

-----------------------------------------------------------------------------
Next ==
  \/ \E r \in RuleInputs : Add(r)
  \/ \E id \in 1..MaxID : Delete(id)
  \/ Clear
  \/ \E x \in SpareInputs : SetSpareBlocks(x[1], x[2])
  \/ \E p \in Profiles : SetProfile(p)
  \/ \E x \in SpeedInputs : SetSpeed(x)
  \/ \E skipLatency \in BOOLEAN : Refresh(skipLatency)
  \/ \E q \in Requests : Check(q)

Spec == Init /\ [][Next]_vars

-----------------------------------------------------------------------------
(* Type correctness: every variable keeps the type its Go field has.       *)
TypeOK ==
  /\ rules \in Seq(RuleState)
  /\ nextID \in Nat
  /\ spareCount \in Int64 /\ initialSpareCount \in Int64
  /\ spareBlockSize \in Int64 \ {0} /\ initialSpareBlockSize \in Int64 \ {0}
  /\ spareBlockSize >= 1 /\ initialSpareBlockSize >= 1
  /\ profile \in Profiles /\ initialProfile \in Profiles
  /\ speed \in Nat \ {0} /\ initialSpeed \in Nat \ {0}
  /\ reply \in Reply
  /\ remapped \in Int

(* No sequence of heals, resizes and refreshes ever drives the budget      *)
(* below zero or above the last value set; unlimited stays unlimited.      *)
SpareWithinBudget ==
  IF initialSpareCount = -1
  THEN spareCount = -1
  ELSE 0 <= spareCount /\ spareCount <= initialSpareCount

(* Every byte remapped since the budget was last filled is paid for: the   *)
(* spare blocks gone hold at least that many bytes, whatever block size    *)
(* the rules' grids were cut with.  (Size 1 counts regions, not bytes.)    *)
NoFreeRemap ==
  spareCount # -1 /\ spareBlockSize > 1 =>
    remapped <= (initialSpareCount - spareCount) * spareBlockSize

(* The order of the list is the order in which Add handed out the IDs, the *)
(* last of which is nextID at most.                                        *)
IDsIncrease ==
  /\ \A i, j \in DOMAIN rules : i < j => rules[i].id < rules[j].id
  /\ \A i \in DOMAIN rules : rules[i].id <= nextID

(* The IDs that rules have, and those that rules had and lost.             *)
LiveIDs == {rules[i].id : i \in DOMAIN rules}
RetiredIDs == (1..nextID) \ LiveIDs

(* An ID names one rule and, once that is deleted or cleared, none again:  *)
(* a step retires the IDs of the rules it takes away, brings back none     *)
(* that was retired, and keeps those that were.  So Add never hands out an *)
(* ID twice, and a delete of an ID that a client kept hits the rule it     *)
(* meant or nothing.                                                       *)
IDNamesOneRule ==
  [][/\ \A i, j \in DOMAIN rules' : rules'[i].id = rules'[j].id => i = j
     /\ LiveIDs' \cap RetiredIDs = {}
     /\ RetiredIDs \cup (LiveIDs \ LiveIDs') \subseteq RetiredIDs']_vars

(* A rule with N > 0 keeps between 0 and N hits, one with N = 0 is never   *)
(* spent, and a healing rule spends none.                                  *)
QuotaWithinN ==
  \A i \in DOMAIN rules :
    LET s == rules[i]
    IN  IF s.r.n > 0 /\ ~s.r.heal
        THEN 0 <= s.remaining /\ s.remaining <= s.r.n
        ELSE s.remaining # 0 /\ s.remaining = s.initialRem

(* A request costs one hit at most: only the rule whose errno is the       *)
(* answer loses one, and it is the first plain rule in the list that       *)
(* matches the request and has hits left, however many others match it.    *)
OneHitPerAnswer ==
  [][\A i \in DOMAIN rules :
       reply'.kind = "check" /\ rules'[i].remaining # rules[i].remaining =>
         /\ rules'[i].remaining = rules[i].remaining - 1
         /\ Matches(rules[i], reply'.req) /\ reply'.errno = rules[i].r.errno
         /\ \A j \in DOMAIN rules \ {i} : rules'[j] = rules[j]
         /\ \A j \in 1..(i - 1) :
              Matches(rules[j], reply'.req) => rules[j].r.heal \/ rules[j].remaining = 0]_vars

(* The region of a rule and its repaired part, byte by byte; file bytes    *)
(* are numbered 0..MaxInt-1.                                               *)
FileBytes == 0..(MaxInt - 1)
RegionBytes(s) ==
  IF s.r.offLen <= 0 THEN FileBytes
  ELSE {x \in FileBytes : s.r.off <= x /\ x < s.r.off + s.r.offLen}
RepairedBytes(s) ==
  IF PerBlock(s)
  THEN {x \in RegionBytes(s) : ((x - s.r.off) \div s.blockSize) \in s.healedBlocks}
  ELSE IF s.healed THEN RegionBytes(s) ELSE {}
BadBytes(s) == IF s.r.heal THEN RegionBytes(s) \ RepairedBytes(s) ELSE {}
RequestBytes(q) == {x \in FileBytes : q.off <= x /\ x < q.off + q.len}
Touches(s, q) == s.r.heal /\ q.path \in s.r.paths /\ RegionBytes(s) \cap RequestBytes(q) # {}

Answered(op, rep) == rep.kind = "check" /\ rep.req.op = op

(* A read that Check lets through touches no byte that is still bad: stale *)
(* backing data is never served as if it had been repaired.                *)
ReadPassesOnlyRepaired ==
  Answered("read", reply) /\ reply.errno = 0 =>
    \A i \in DOMAIN rules :
      Touches(rules[i], reply.req) => BadBytes(rules[i]) \cap RequestBytes(reply.req) = {}

(* A write that Check answers without repairing anything, because a rule   *)
(* finds its own blocks repaired, leaves nothing bad under it.             *)
RewriteLeavesNothingBad ==
  \A q \in Requests : \A i \in DOMAIN rules :
    /\ Decides(i, q) /\ rules[i].r.heal /\ q.op = "write"
    /\ PerBlock(rules[i]) /\ Unhealed(rules[i], q) = {}
    => \A j \in DOMAIN rules :
         Touches(rules[j], q) => BadBytes(rules[j]) \cap RequestBytes(q) = {}

(* Bytes become good only by a passing write, in one rule; block by block  *)
(* when the rule has blocks: each newly good byte shares a block with a    *)
(* byte written.                                                           *)
OnlyWrittenBlocksRepaired ==
  [][reply'.kind # "delete" =>
       \A i \in DOMAIN rules \cap DOMAIN rules' :
         LET new == RepairedBytes(rules'[i]) \ RepairedBytes(rules[i])
         IN  new # {} =>
               /\ Answered("write", reply') /\ reply'.errno = 0
               /\ Touches(rules[i], reply'.req)
               /\ \A j \in DOMAIN rules \ {i} : rules'[j] = rules[j]
               /\ PerBlock(rules[i]) =>
                    \A x \in new : \E y \in RequestBytes(reply'.req) \cap RegionBytes(rules[i]) :
                      (x - rules[i].r.off) \div rules[i].blockSize
                        = (y - rules[i].r.off) \div rules[i].blockSize]_vars

(* The entries Refresh returns name exactly the rules it changed, and the  *)
(* budget when it changed it.                                              *)
RefreshReportsChanges ==
  [][reply'.kind = "refresh" /\ reply' # reply =>
       /\ {e.id : e \in {x \in reply'.entries : x.what = "rule"}}
            = {rules[i].id : i \in {j \in DOMAIN rules : rules'[j] # rules[j]}}
       /\ [what |-> "spare", id |-> 0] \in reply'.entries
            <=> <<spareCount', spareBlockSize'>> # <<spareCount, spareBlockSize>>]_vars

-----------------------------------------------------------------------------
(* The healing rules as sectors of a disk *)

DeviceSectors ==
  {[id |-> rules[i].id, files |-> rules[i].r.paths, region |-> RegionBytes(rules[i]),
    sized |-> rules[i].r.offLen > 0, bad |-> BadBytes(rules[i])] :
      i \in {j \in DOMAIN rules : rules[j].r.heal}}

DeviceAnswer ==
  IF Answered("read", reply) \/ Answered("write", reply)
  THEN IF reply.errno = 0 THEN "ok" ELSE "error"
  ELSE "none"

Device == INSTANCE BadSectorDevice WITH
  Files <- Paths,
  Extents <- {RequestBytes(q) : q \in {r \in Requests : IsIO(r)}},
  sectors <- DeviceSectors,
  stock <- [left |-> spareCount, size |-> spareBlockSize],
  filled <- [left |-> initialSpareCount, size |-> initialSpareBlockSize],
  answer <- DeviceAnswer

(* While all rules are bad sectors and no request is empty, the injector   *)
(* with its rule order, grids and charges is a disk: reads fail exactly    *)
(* over bad bytes, a write repairs all it touches in one sector or changes *)
(* nothing, and every byte repaired is paid for.                           *)
ImplementsDevice == Device!Spec

=============================================================================
