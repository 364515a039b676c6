--------------------------- MODULE InjectorProofs ---------------------------
(***************************************************************************)
(* Proofs about Injector for every set of rules, requests and budgets and  *)
(* every width of int64.                                                   *)
(***************************************************************************)
EXTENDS Injector, BlockMathProofs, SequenceTheorems

(* The rule a caller adds becomes a well-formed rule state.                *)
LEMMA NewRuleStateType ==
  ASSUME TypeOK, NEW r \in RuleInputs, NEW id \in Nat \ {0}
  PROVE  NewRuleState(id, r) \in RuleState
<1>1. r \in Rule /\ r.offLen \in Int /\ r.n \in Int /\ r.heal \in BOOLEAN
  BY InjectorAssumption DEF Rule
<1>2. [r EXCEPT !.op = IF r.heal THEN "read" ELSE r.op] \in Rule
  BY <1>1 DEF Rule, AllOps
<1>3. spareBlockSize \in Nat \ {0}
  BY MaxIntAssumption DEF TypeOK, Int64
<1>4. BlocksNeeded(r.offLen, spareBlockSize) \in Nat
  <2>1. r.offLen \in Int /\ spareBlockSize \in Int
    BY <1>1, <1>3
  <2> QED
    BY <2>1, BlocksNeededPositive
<1>5. GridSize(r, spareBlockSize) \in Nat
  BY <1>4 DEF GridSize
<1> QED
  BY <1>1, <1>2, <1>3, <1>5 DEF NewRuleState, RuleState

(* Restoring a rule's initial state keeps it well formed.                  *)
LEMMA FreshType == ASSUME NEW s \in RuleState PROVE Fresh(s) \in RuleState
  BY DEF Fresh, RuleState

(* The fields of a rule in the list.                                       *)
LEMMA RuleFields ==
  ASSUME TypeOK, NEW i \in DOMAIN rules
  PROVE  /\ rules[i] \in RuleState
         /\ i \in 1..Len(rules)
         /\ rules[i].r.errno \in Nat \ {0}
         /\ rules[i].r.off \in Int /\ rules[i].r.offLen \in Int
         /\ rules[i].blockSize \in Nat \ {0} /\ rules[i].total \in Nat
         /\ rules[i].id \in Nat \ {0}
         /\ rules[i].remaining \in Int
<1>1. rules \in Seq(RuleState)
  BY DEF TypeOK
<1>2. rules[i] \in RuleState /\ i \in 1..Len(rules)
  BY <1>1, LenProperties, ElementOfSeq
<1>3. rules[i].r \in Rule /\ rules[i].blockSize \in Nat \ {0} /\ rules[i].total \in Nat
        /\ rules[i].id \in Nat \ {0} /\ rules[i].remaining \in Int
  BY <1>2 DEF RuleState
<1>4. rules[i].r.errno \in Errnos /\ rules[i].r.off \in Nat /\ rules[i].r.offLen \in Int
  BY <1>3 DEF Rule
<1>5. rules[i].r.errno \in Nat \ {0}
  BY <1>4, InjectorAssumption
<1>6. rules[i].r.off \in Int
  BY <1>4
<1> QED
  BY <1>2, <1>3, <1>4, <1>5, <1>6

(* The request fields that block arithmetic uses are integers.             *)
LEMMA RequestFields ==
  ASSUME NEW q \in Requests PROVE q.off \in Int /\ q.len \in Int /\ q.path \in Paths
<1>1. \A x \in Offsets \cup Lengths : x \in Int
  BY InjectorAssumption, MaxIntAssumption
<1>2. CASE q \in [op : {"read", "write"}, path : Paths, off : Offsets, len : Lengths]
  BY <1>1, <1>2
<1>3. CASE q \in [op : OtherOps, path : Paths, off : {-1}, len : {0}]
  <2>1. q.off \in {-1} /\ q.len \in {0} /\ q.path \in Paths
    BY <1>3
  <2> QED
    BY <2>1
<1> QED
  BY <1>2, <1>3 DEF Requests

(* The blocks of a rule a request covers, and those among them to repair.  *)
LEMMA CoverType ==
  ASSUME TypeOK, NEW i \in DOMAIN rules, NEW q \in Requests
  PROVE  /\ Cover(rules[i], q) \subseteq 0..(rules[i].total - 1)
         /\ Cover(rules[i], q) \subseteq Nat
         /\ Cardinality(Unhealed(rules[i], q)) \in Nat
         /\ Cardinality(Unhealed(rules[i], q)) <= rules[i].total
<1>1. Cover(rules[i], q) \subseteq 0..(rules[i].total - 1)
  <2>1. /\ rules[i].r.off \in Int /\ rules[i].r.offLen \in Int
        /\ rules[i].blockSize \in Int /\ rules[i].total \in Nat
        /\ q.off \in Int /\ q.len \in Int
    BY RuleFields, RequestFields
  <2> QED
    BY <2>1, CoverRangeBlocks DEF Cover
<1>2. Unhealed(rules[i], q) \subseteq 0..(rules[i].total - 1)
  BY <1>1 DEF Unhealed
<1>3. rules[i].total \in Nat
  BY RuleFields
<1> QED
  BY <1>1, <1>2, <1>3, BlockCount

(* A charge is an integer.                                                 *)
LEMMA ChargeInt ==
  ASSUME TypeOK, NEW i \in DOMAIN rules, NEW q \in Requests
  PROVE  Charge(rules[i], q) \in Int /\ RemappedBytes(rules[i], q) \in Int
<1>1. spareBlockSize \in Int
  BY MaxIntAssumption DEF TypeOK, Int64
<1>2. Cardinality(Unhealed(rules[i], q)) \in Int
  BY CoverType
<1>3. rules[i].blockSize \in Int /\ rules[i].r.offLen \in Int
  BY RuleFields
<1>4. GridBlocksToSpare(Cardinality(Unhealed(rules[i], q)), rules[i].blockSize, spareBlockSize) \in Int
  BY <1>1, <1>2, <1>3, GridBlocksToSpareInt
<1>5. BlocksNeeded(rules[i].r.offLen, spareBlockSize) \in Int
  <2>1. BlocksNeeded(rules[i].r.offLen, spareBlockSize) \in Nat \ {0}
    BY <1>1, <1>3, BlocksNeededPositive
  <2> QED
    BY <2>1
<1>6. Cardinality(Unhealed(rules[i], q)) * rules[i].blockSize \in Int
  BY <1>2, <1>3
<1>7. Charge(rules[i], q) \in Int
  BY <1>4, <1>5 DEF Charge
<1>8. RemappedBytes(rules[i], q) \in Int
  BY <1>3, <1>6 DEF RemappedBytes
<1> QED
  BY <1>7, <1>8

(* Check answers with an errno of a rule, or 0.                            *)
LEMMA AnswerType ==
  ASSUME NEW q \in Requests, NEW e \in Nat, Answer(q, e)
  PROVE  reply' \in Reply
  BY DEF Answer, Reply

(* Every step of Check keeps the variables well typed.                     *)
LEMMA CheckType ==
  ASSUME TypeOK, NEW q \in Requests, Check(q)
  PROVE  TypeOK'
<1>1. rules \in Seq(RuleState)
  BY DEF TypeOK
<1>2. CASE CheckPass(q)
  BY <1>2, AnswerType DEF CheckPass, TypeOK, spareVars, latencyVars
<1>3. ASSUME NEW i \in DOMAIN rules,
             CheckPlain(q, i) \/ CheckBadRead(q, i) \/ CheckRewrite(q, i)
               \/ CheckNoSpare(q, i) \/ CheckHeal(q, i)
      PROVE  TypeOK'
  <2>1. rules[i] \in RuleState /\ i \in 1..Len(rules) /\ rules[i].r.errno \in Nat
    BY RuleFields
  <2>2. CASE CheckPlain(q, i)
    <3>1. [rules[i] EXCEPT !.remaining = @ - 1] \in RuleState
      BY <2>1 DEF RuleState
    <3>2. rules' \in Seq(RuleState)
      BY <1>1, <2>1, <2>2, <3>1, ExceptSeq DEF CheckPlain
    <3>3. reply' \in Reply
      BY <2>1, <2>2, AnswerType DEF CheckPlain
    <3> QED
      BY <2>2, <3>2, <3>3 DEF CheckPlain, TypeOK, spareVars, latencyVars
  <2>3. CASE CheckBadRead(q, i) \/ CheckNoSpare(q, i)
    <3>1. reply' \in Reply
      BY <2>1, <2>3, AnswerType DEF CheckBadRead, CheckNoSpare
    <3> QED
      BY <2>3, <3>1 DEF CheckBadRead, CheckNoSpare, TypeOK, spareVars, latencyVars
  <2>4. CASE CheckRewrite(q, i)
    <3>1. reply' \in Reply
      BY <2>4, AnswerType DEF CheckRewrite
    <3> QED
      BY <2>4, <3>1 DEF CheckRewrite, TypeOK, spareVars, latencyVars
  <2>5. CASE CheckHeal(q, i)
    <3>1. [rules[i] EXCEPT !.healedBlocks = @ \cup Cover(rules[i], q)] \in RuleState
      BY <2>1, CoverType DEF RuleState
    <3>2. [rules[i] EXCEPT !.healed = TRUE] \in RuleState
      BY <2>1 DEF RuleState
    <3>3. rules' \in Seq(RuleState)
      BY <1>1, <2>1, <2>5, <3>1, <3>2, ExceptSeq DEF CheckHeal
    <3>4. spareCount \in Int /\ remapped \in Int
      BY MaxIntAssumption DEF TypeOK, Int64
    <3>5. Wrap(spareCount - Charge(rules[i], q)) \in Int64
      BY <3>4, ChargeInt, WrapInt64
    <3>6. spareCount' \in Int64
      BY <2>5, <3>5 DEF CheckHeal, TypeOK
    <3>7. remapped' \in Int
      BY <2>5, <3>4, ChargeInt DEF CheckHeal
    <3>8. reply' \in Reply
      BY <2>5, AnswerType DEF CheckHeal
    <3> QED
      BY <2>5, <3>3, <3>6, <3>7, <3>8 DEF CheckHeal, TypeOK, latencyVars
  <2> QED
    BY <1>3, <2>2, <2>3, <2>4, <2>5
<1> QED
  BY <1>2, <1>3 DEF Check

(* Removing a rule leaves a list of well-formed rules.                     *)
LEMMA DeleteType ==
  ASSUME TypeOK, NEW i \in DOMAIN rules
  PROVE  SubSeq(rules, 1, i - 1) \o SubSeq(rules, i + 1, Len(rules)) \in Seq(RuleState)
<1>1. rules \in Seq(RuleState) /\ i \in 1..Len(rules) /\ Len(rules) \in Nat
  BY RuleFields, LenProperties DEF TypeOK
<1>2. \A j \in 1..Len(rules) : rules[j] \in RuleState
  BY <1>1, ElementOfSeq
<1>3. SubSeq(rules, 1, i - 1) \in Seq(RuleState)
  BY <1>1, <1>2, SubSeqProperties
<1>4. SubSeq(rules, i + 1, Len(rules)) \in Seq(RuleState)
  BY <1>1, <1>2, SubSeqProperties
<1> QED
  BY <1>3, <1>4, ConcatProperties

(* Refresh reports well-formed entries.                                    *)
LEMMA RefreshEntriesType ==
  ASSUME TypeOK, NEW skip \in BOOLEAN
  PROVE  RefreshEntries(skip) \subseteq ResetEntry
<1>1. \A i \in DOMAIN rules : rules[i].id \in Nat
  BY RuleFields
<1>2. \A i \in DOMAIN rules : [what |-> "rule", id |-> rules[i].id] \in ResetEntry
  BY <1>1 DEF ResetEntry
<1>3. [what |-> "spare", id |-> 0] \in ResetEntry /\ [what |-> "latency", id |-> 0] \in ResetEntry
  BY DEF ResetEntry
<1> QED
  BY <1>2, <1>3 DEF RefreshEntries

(* Type correctness is inductive.                                          *)
LEMMA TypeStep == TypeOK /\ [Next]_vars => TypeOK'
<1> SUFFICES ASSUME TypeOK, [Next]_vars PROVE TypeOK'
  OBVIOUS
<1>1. ASSUME NEW r \in RuleInputs, Add(r) PROVE TypeOK'
  <2>1. nextID + 1 \in Nat \ {0}
    BY DEF TypeOK
  <2>2. NewRuleState(nextID + 1, r) \in RuleState
    BY <2>1, NewRuleStateType
  <2>3. rules' \in Seq(RuleState)
    BY <1>1, <2>2, AppendProperties DEF Add, TypeOK
  <2>4. reply' \in Reply
    BY <1>1, <2>1 DEF Add, Reply
  <2> QED
    BY <1>1, <2>1, <2>3, <2>4 DEF Add, TypeOK, spareVars, latencyVars
<1>2. ASSUME NEW id \in 1..MaxID, Delete(id) PROVE TypeOK'
  <2>1. rules' \in Seq(RuleState)
    BY <1>2, DeleteType DEF Delete, TypeOK
  <2>2. reply' \in Reply
    <3>1. \/ reply' = [kind |-> "delete", found |-> TRUE]
          \/ reply' = [kind |-> "delete", found |-> FALSE]
      BY <1>2 DEF Delete
    <3>2. /\ [kind |-> "delete", found |-> TRUE] \in [kind : {"delete"}, found : BOOLEAN]
          /\ [kind |-> "delete", found |-> FALSE] \in [kind : {"delete"}, found : BOOLEAN]
      OBVIOUS
    <3> QED
      BY <3>1, <3>2 DEF Reply
  <2> QED
    BY <1>2, <2>1, <2>2 DEF Delete, TypeOK, spareVars, latencyVars
<1>3. CASE Clear
  <2>1. reply' \in Reply
    BY <1>3 DEF Clear, Reply, Void
  <2> QED
    BY <1>3, <2>1 DEF Clear, TypeOK, spareVars, latencyVars
<1>4. ASSUME NEW x \in SpareInputs, SetSpareBlocks(x[1], x[2]) PROVE TypeOK'
  <2>1. x[1] \in Int64 /\ x[2] \in Int64
    BY InjectorAssumption
  <2>2. /\ spareCount' \in Int64 /\ initialSpareCount' \in Int64
        /\ spareBlockSize' \in Int64 \ {0} /\ initialSpareBlockSize' \in Int64 \ {0}
        /\ spareBlockSize' >= 1 /\ initialSpareBlockSize' >= 1
    BY <1>4, <2>1, MaxIntAssumption DEF SetSpareBlocks, Int64
  <2>3. reply' \in Reply
    BY <1>4 DEF SetSpareBlocks, Reply, Void
  <2>4. remapped' \in Int
    BY <1>4 DEF SetSpareBlocks
  <2> QED
    BY <1>4, <2>2, <2>3, <2>4 DEF SetSpareBlocks, TypeOK, latencyVars
<1>5. ASSUME NEW p \in Profiles, SetProfile(p) PROVE TypeOK'
  <2>1. reply' \in Reply
    BY <1>5 DEF SetProfile, Reply, Void
  <2> QED
    BY <1>5, <2>1 DEF SetProfile, TypeOK, spareVars
<1>6. ASSUME NEW x \in SpeedInputs, SetSpeed(x) PROVE TypeOK'
  <2>1. x \in Int
    BY InjectorAssumption
  <2>2. speed' \in Nat \ {0} /\ initialSpeed' \in Nat \ {0}
    BY <1>6, <2>1 DEF SetSpeed
  <2>3. reply' \in Reply
    BY <1>6 DEF SetSpeed, Reply, Void
  <2> QED
    BY <1>6, <2>2, <2>3 DEF SetSpeed, TypeOK, spareVars
<1>7. ASSUME NEW skip \in BOOLEAN, Refresh(skip) PROVE TypeOK'
  <2>1. \A i \in DOMAIN rules : Fresh(rules[i]) \in RuleState
    BY RuleFields, FreshType
  <2>2. rules' \in Seq(RuleState)
    <3>1. Len(rules) \in Nat /\ DOMAIN rules = 1..Len(rules)
      BY LenProperties DEF TypeOK
    <3>2. rules' \in [1..Len(rules) -> RuleState]
      BY <1>7, <2>1, <3>1 DEF Refresh
    <3> QED
      BY <3>1, <3>2, SeqDef
  <2>3. reply' \in Reply
    <3>1. RefreshEntries(skip) \in SUBSET ResetEntry
      BY RefreshEntriesType
    <3>2. [kind |-> "refresh", entries |-> RefreshEntries(skip)]
            \in [kind : {"refresh"}, entries : SUBSET ResetEntry]
      BY <3>1
    <3>3. reply' = [kind |-> "refresh", entries |-> RefreshEntries(skip)]
      BY <1>7 DEF Refresh
    <3> QED
      BY <3>2, <3>3 DEF Reply
  <2>4. remapped' \in Int
    BY <1>7 DEF Refresh
  <2> QED
    BY <1>7, <2>2, <2>3, <2>4 DEF Refresh, TypeOK
<1>8. ASSUME NEW q \in Requests, Check(q) PROVE TypeOK'
  BY <1>8, CheckType
<1>9. CASE UNCHANGED vars
  BY <1>9 DEF TypeOK, vars, spareVars, latencyVars
<1> QED
  BY <1>1, <1>2, <1>3, <1>4, <1>5, <1>6, <1>7, <1>8, <1>9 DEF Next

(* A new injector is well typed.                                           *)
LEMMA TypeInit == Init => TypeOK
<1> SUFFICES ASSUME Init PROVE TypeOK
  OBVIOUS
<1>1. rules \in Seq(RuleState)
  BY EmptySeq DEF Init
<1>2. reply \in Reply
  BY DEF Init, Reply, Void
<1>3. 0 \in Int64 /\ 1 \in Int64 \ {0}
  BY MaxIntAssumption DEF Int64
<1> QED
  BY <1>1, <1>2, <1>3, InjectorAssumption DEF Init, TypeOK

(* Every reachable state of the injector is well typed: block sizes stay   *)
(* positive, counts stay int64, and the rule list holds rule states.       *)
THEOREM TypeCorrect == Spec => []TypeOK
  BY TypeInit, TypeStep, PTL DEF Spec

-----------------------------------------------------------------------------
(***************************************************************************)
(* The budget.  gridBlocksToSpare multiplies a block count by the block    *)
(* size of the grid without a guard; its comment (check.go:42) takes both  *)
(* to be bounded.  The bound it needs is stated here: a full grid of the   *)
(* largest configured blocks fits in int64.                                *)
(***************************************************************************)
FitsGrid(bs) == MaxHealedBlocks * bs <= MaxInt

GridBounded ==
  /\ FitsGrid(1)
  /\ \A x \in SpareInputs : x[2] >= 1 => FitsGrid(x[2])

(* Strengthening: every block size in use fits, and no grid is longer than *)
(* MaxHealedBlocks, so no charge is computed from a wrapped product.       *)
GridsFit ==
  /\ FitsGrid(spareBlockSize) /\ FitsGrid(initialSpareBlockSize)
  /\ \A i \in DOMAIN rules :
       rules[i].total <= MaxHealedBlocks /\ FitsGrid(rules[i].blockSize)

(* A grid has at most MaxHealedBlocks blocks.                              *)
LEMMA GridSizeBound ==
  ASSUME NEW r, NEW bs PROVE GridSize(r, bs) <= MaxHealedBlocks
<1>1. 0 <= MaxHealedBlocks
  BY InjectorAssumption
<1> QED
  BY <1>1 DEF GridSize

(* Healed bytes of one write never wrap.                                   *)
LEMMA HealedBytesFit ==
  ASSUME TypeOK, GridsFit, NEW i \in DOMAIN rules, NEW q \in Requests
  PROVE  Cardinality(Unhealed(rules[i], q)) * rules[i].blockSize <= MaxInt
<1> DEFINE c == Cardinality(Unhealed(rules[i], q))
           g == rules[i].blockSize
<1>1. c \in Nat /\ g \in Nat /\ MaxHealedBlocks \in Nat /\ MaxInt \in Nat
  BY CoverType, RuleFields, InjectorAssumption, MaxIntAssumption
<1>2. c <= MaxHealedBlocks
  BY <1>1, CoverType, RuleFields DEF GridsFit
<1>3. MaxHealedBlocks * g <= MaxInt
  BY DEF GridsFit, FitsGrid
<1>4. c * g <= MaxHealedBlocks * g
  BY <1>1, <1>2
<1> QED
  BY <1>1, <1>3, <1>4

(* No write has a negative price.                                          *)
LEMMA ChargeNotNegative ==
  ASSUME TypeOK, GridsFit, NEW i \in DOMAIN rules, NEW q \in Requests
  PROVE  Charge(rules[i], q) >= 0
<1>1. /\ Cardinality(Unhealed(rules[i], q)) \in Int
      /\ rules[i].blockSize \in Int /\ rules[i].blockSize >= 0
      /\ rules[i].r.offLen \in Int
  BY CoverType, RuleFields
<1>2. spareBlockSize \in Int
  BY MaxIntAssumption DEF TypeOK, Int64
<1>3. GridBlocksToSpare(Cardinality(Unhealed(rules[i], q)), rules[i].blockSize, spareBlockSize) >= 0
  BY <1>1, <1>2, HealedBytesFit, GridBlocksToSpareInt
<1>4. BlocksNeeded(rules[i].r.offLen, spareBlockSize) >= 0
  <2>1. BlocksNeeded(rules[i].r.offLen, spareBlockSize) \in Nat \ {0}
    BY <1>1, <1>2, BlocksNeededPositive
  <2> QED
    BY <2>1
<1> QED
  BY <1>3, <1>4 DEF Charge

(* Removing a rule keeps the others as they were.                          *)
LEMMA DeleteKeeps ==
  ASSUME TypeOK, NEW i \in DOMAIN rules
  PROVE  LET t == SubSeq(rules, 1, i - 1) \o SubSeq(rules, i + 1, Len(rules))
         IN  /\ Len(t) = Len(rules) - 1
             /\ DOMAIN t = 1..(Len(rules) - 1)
             /\ \A j \in DOMAIN t :
                  /\ j < i => t[j] = rules[j] /\ j \in DOMAIN rules
                  /\ j >= i => t[j] = rules[j + 1] /\ j + 1 \in DOMAIN rules
<1> DEFINE a == SubSeq(rules, 1, i - 1)
           b == SubSeq(rules, i + 1, Len(rules))
<1>1. rules \in Seq(RuleState) /\ i \in 1..Len(rules) /\ Len(rules) \in Nat
        /\ DOMAIN rules = 1..Len(rules)
  BY RuleFields, LenProperties DEF TypeOK
<1>2. \A j \in 1..Len(rules) : rules[j] \in RuleState
  BY <1>1, ElementOfSeq
<1>3. a \in Seq(RuleState) /\ Len(a) = i - 1 /\ \A j \in 1..(i - 1) : a[j] = rules[j]
  BY <1>1, <1>2, SubSeqProperties
<1>4. /\ b \in Seq(RuleState) /\ Len(b) = Len(rules) - i
      /\ \A j \in 1..(Len(rules) - i) : b[j] = rules[i + j]
  BY <1>1, <1>2, SubSeqProperties
<1>5. /\ a \o b \in Seq(RuleState) /\ Len(a \o b) = Len(a) + Len(b)
      /\ \A j \in 1..(Len(a) + Len(b)) :
           (a \o b)[j] = IF j <= Len(a) THEN a[j] ELSE b[j - Len(a)]
  BY <1>3, <1>4, ConcatProperties
<1>6. Len(a) + Len(b) = Len(rules) - 1
  BY <1>1, <1>3, <1>4
<1>7. Len(a \o b) = Len(rules) - 1 /\ DOMAIN (a \o b) = 1..(Len(rules) - 1)
  BY <1>5, <1>6, LenProperties
<1>8. ASSUME NEW j \in 1..(Len(rules) - 1), j < i
      PROVE  (a \o b)[j] = rules[j] /\ j \in DOMAIN rules
  BY <1>1, <1>3, <1>5, <1>6, <1>8
<1>9. ASSUME NEW j \in 1..(Len(rules) - 1), j >= i
      PROVE  (a \o b)[j] = rules[j + 1] /\ j + 1 \in DOMAIN rules
  <2> DEFINE m == j - (i - 1)
  <2>1. m \in 1..(Len(rules) - i) /\ i + m = j + 1
    BY <1>1, <1>9
  <2>2. (a \o b)[j] = b[m]
    <3>1. j \in 1..(Len(a) + Len(b)) /\ Len(a) = i - 1 /\ ~(j <= i - 1)
      BY <1>1, <1>3, <1>6, <1>9
    <3>2. (a \o b)[j] = IF j <= Len(a) THEN a[j] ELSE b[j - Len(a)]
      BY <1>5, <3>1
    <3> QED
      BY <3>1, <3>2
  <2>3. b[m] = rules[i + m]
    BY <1>4, <2>1
  <2>4. j + 1 \in 1..Len(rules)
    BY <1>1, <1>9
  <2> QED
    BY <1>1, <2>1, <2>2, <2>3, <2>4
<1> QED
  BY <1>7, <1>8, <1>9

(* What a passing write does to the budget and to the other rules.         *)
LEMMA RulesAfterCheck ==
  ASSUME TypeOK, NEW q \in Requests, Check(q)
  PROVE  /\ DOMAIN rules' = DOMAIN rules
         /\ \A i \in DOMAIN rules :
              /\ rules'[i].total = rules[i].total
              /\ rules'[i].blockSize = rules[i].blockSize
              /\ rules'[i].id = rules[i].id
              /\ rules'[i].r = rules[i].r
              /\ rules'[i].initialRem = rules[i].initialRem
<1>1. \A i \in DOMAIN rules : rules[i] \in RuleState
  BY RuleFields
<1>2. CASE UNCHANGED rules
  BY <1>2
<1>3. ASSUME NEW k \in DOMAIN rules, NEW x,
             \/ rules' = [rules EXCEPT ![k].remaining = x]
             \/ rules' = [rules EXCEPT ![k].healedBlocks = x]
             \/ rules' = [rules EXCEPT ![k].healed = x]
      PROVE  /\ DOMAIN rules' = DOMAIN rules
             /\ \A i \in DOMAIN rules :
                  /\ rules'[i].total = rules[i].total
                  /\ rules'[i].blockSize = rules[i].blockSize
                  /\ rules'[i].id = rules[i].id
                  /\ rules'[i].r = rules[i].r
                  /\ rules'[i].initialRem = rules[i].initialRem
  BY <1>1, <1>3 DEF RuleState
<1>4. \/ UNCHANGED rules
      \/ \E k \in DOMAIN rules :
           \/ rules' = [rules EXCEPT ![k].remaining = rules[k].remaining - 1]
           \/ rules' = [rules EXCEPT ![k].healedBlocks = rules[k].healedBlocks \cup Cover(rules[k], q)]
           \/ rules' = [rules EXCEPT ![k].healed = TRUE]
  BY DEF Check, CheckPass, CheckPlain, CheckBadRead, CheckRewrite, CheckNoSpare, CheckHeal
<1> QED
  BY <1>2, <1>3, <1>4

(* The grids keep fitting.                                                 *)
LEMMA GridsFitStep ==
  ASSUME GridBounded, TypeOK, GridsFit, [Next]_vars
  PROVE  GridsFit'
<1>1. ASSUME NEW r \in RuleInputs, Add(r) PROVE GridsFit'
  <2> DEFINE s == NewRuleState(nextID + 1, r)
  <2>1. s.total <= MaxHealedBlocks /\ FitsGrid(s.blockSize)
    BY GridSizeBound DEF NewRuleState, GridsFit
  <2>2. rules \in Seq(RuleState) /\ s \in RuleState
    BY NewRuleStateType DEF TypeOK
  <2>3. \A i \in DOMAIN rules' : rules'[i] = s \/ (i \in DOMAIN rules /\ rules'[i] = rules[i])
    BY <1>1, <2>2, AppendProperties, LenProperties DEF Add
  <2> QED
    BY <1>1, <2>1, <2>3 DEF Add, GridsFit, spareVars
<1>2. ASSUME NEW id \in 1..MaxID, Delete(id) PROVE GridsFit'
  <2>1. \A i \in DOMAIN rules' : \E j \in DOMAIN rules : rules'[i] = rules[j]
    <3>1. CASE rules' = rules
      BY <3>1
    <3>2. ASSUME NEW k \in DOMAIN rules,
                 rules' = SubSeq(rules, 1, k - 1) \o SubSeq(rules, k + 1, Len(rules))
          PROVE  \A i \in DOMAIN rules' : \E j \in DOMAIN rules : rules'[i] = rules[j]
      <4>1. k \in Int /\ Len(rules) \in Nat
        BY RuleFields, LenProperties DEF TypeOK
      <4>2. \A i \in DOMAIN rules' :
              /\ i \in Int
              /\ i < k => rules'[i] = rules[i] /\ i \in DOMAIN rules
              /\ i >= k => rules'[i] = rules[i + 1] /\ i + 1 \in DOMAIN rules
        <5>1. DOMAIN rules' = 1..(Len(rules) - 1)
          BY <3>2, DeleteKeeps
        <5>2. \A i \in DOMAIN rules' :
                /\ i < k => rules'[i] = rules[i] /\ i \in DOMAIN rules
                /\ i >= k => rules'[i] = rules[i + 1] /\ i + 1 \in DOMAIN rules
          BY <3>2, DeleteKeeps
        <5> QED
          BY <4>1, <5>1, <5>2
      <4> QED
        BY <4>1, <4>2
    <3> QED
      BY <1>2, <3>1, <3>2 DEF Delete
  <2> QED
    BY <1>2, <2>1 DEF Delete, GridsFit, spareVars
<1>3. CASE Clear
  BY <1>3 DEF Clear, GridsFit, spareVars
<1>4. ASSUME NEW x \in SpareInputs, SetSpareBlocks(x[1], x[2]) PROVE GridsFit'
  <2>1. x[2] \in Int
    BY InjectorAssumption, MaxIntAssumption DEF Int64
  <2>2. FitsGrid(IF x[2] < 1 THEN 1 ELSE x[2])
    BY <2>1 DEF GridBounded
  <2> QED
    BY <1>4, <2>2 DEF SetSpareBlocks, GridsFit
<1>5. ASSUME NEW p \in Profiles, SetProfile(p) PROVE GridsFit'
  BY <1>5 DEF SetProfile, GridsFit, spareVars
<1>6. ASSUME NEW x \in SpeedInputs, SetSpeed(x) PROVE GridsFit'
  BY <1>6 DEF SetSpeed, GridsFit, spareVars
<1>7. ASSUME NEW skip \in BOOLEAN, Refresh(skip) PROVE GridsFit'
  <2>1. \A i \in DOMAIN rules : rules[i] \in RuleState
    BY RuleFields
  <2>2. /\ DOMAIN rules' = DOMAIN rules
        /\ \A i \in DOMAIN rules : rules'[i] = Fresh(rules[i])
    BY <1>7 DEF Refresh
  <2>3. \A i \in DOMAIN rules :
          rules'[i].total = rules[i].total /\ rules'[i].blockSize = rules[i].blockSize
    BY <2>1, <2>2 DEF Fresh, RuleState
  <2> QED
    BY <1>7, <2>2, <2>3 DEF Refresh, GridsFit
<1>8. ASSUME NEW q \in Requests, Check(q) PROVE GridsFit'
  <2>1. UNCHANGED <<spareBlockSize, initialSpareBlockSize>>
    BY <1>8 DEF Check, CheckPass, CheckPlain, CheckBadRead, CheckRewrite, CheckNoSpare, CheckHeal, spareVars
  <2> QED
    BY <1>8, <2>1, RulesAfterCheck DEF GridsFit
<1>9. CASE UNCHANGED vars
  BY <1>9 DEF GridsFit, vars, spareVars
<1> QED
  BY <1>1, <1>2, <1>3, <1>4, <1>5, <1>6, <1>7, <1>8, <1>9 DEF Next

(* A healing write that can be paid for leaves a budget in its range.      *)
LEMMA HealBudget ==
  ASSUME TypeOK, GridsFit, SpareWithinBudget,
         NEW q \in Requests, NEW i \in DOMAIN rules, CheckHeal(q, i)
  PROVE  /\ SpareWithinBudget'
         /\ spareCount >= 0 => spareCount' = spareCount - Charge(rules[i], q)
<1> DEFINE c == Charge(rules[i], q)
<1>1. c \in Int /\ c >= 0
  BY ChargeInt, ChargeNotNegative
<1>2. spareCount \in Int /\ initialSpareCount \in Int /\ spareCount <= MaxInt /\ MaxInt \in Nat
  BY MaxIntAssumption DEF TypeOK, Int64
<1>3. spareCount = -1 \/ spareCount >= c
  BY DEF CheckHeal, Affordable
<1>4. /\ spareCount' = IF spareCount > 0 THEN Wrap(spareCount - c) ELSE spareCount
      /\ initialSpareCount' = initialSpareCount
  BY DEF CheckHeal
<1>5. spareCount > 0 => Wrap(spareCount - c) = spareCount - c
  <2> SUFFICES ASSUME spareCount > 0 PROVE Wrap(spareCount - c) = spareCount - c
    OBVIOUS
  <2>1. spareCount - c \in Int64
    BY <1>1, <1>2, <1>3 DEF Int64
  <2> QED
    BY <2>1, WrapFits
<1> QED
  BY <1>1, <1>2, <1>3, <1>4, <1>5 DEF SpareWithinBudget

LEMMA SpareBudgetStep ==
  ASSUME GridBounded, TypeOK, GridsFit, SpareWithinBudget, [Next]_vars PROVE SpareWithinBudget'
<1>1. ASSUME NEW x \in SpareInputs, SetSpareBlocks(x[1], x[2]) PROVE SpareWithinBudget'
  <2>1. x[1] \in Int
    BY InjectorAssumption, MaxIntAssumption DEF Int64
  <2> QED
    BY <1>1, <2>1 DEF SetSpareBlocks, SpareWithinBudget
<1>2. ASSUME NEW skip \in BOOLEAN, Refresh(skip) PROVE SpareWithinBudget'
  <2>1. initialSpareCount = -1 \/ initialSpareCount >= 0
    BY MaxIntAssumption DEF SpareWithinBudget, TypeOK, Int64
  <2>2. initialSpareCount \in Int
    BY MaxIntAssumption DEF TypeOK, Int64
  <2> QED
    BY <1>2, <2>1, <2>2 DEF Refresh, SpareWithinBudget
<1>3. ASSUME NEW q \in Requests, NEW i \in DOMAIN rules, CheckHeal(q, i)
      PROVE  SpareWithinBudget'
  BY <1>3, HealBudget
<1>4. ASSUME UNCHANGED <<spareCount, initialSpareCount>> PROVE SpareWithinBudget'
  BY <1>4 DEF SpareWithinBudget
<1>5. \/ \E x \in SpareInputs : SetSpareBlocks(x[1], x[2])
      \/ \E skip \in BOOLEAN : Refresh(skip)
      \/ \E q \in Requests, i \in DOMAIN rules : CheckHeal(q, i)
      \/ UNCHANGED <<spareCount, initialSpareCount>>
  BY DEF Next, vars, spareVars, Add, Delete, Clear, SetProfile, SetSpeed, Check,
         CheckPass, CheckPlain, CheckBadRead, CheckRewrite, CheckNoSpare
<1> QED
  BY <1>1, <1>2, <1>3, <1>4, <1>5

(* The spare budget stays between zero and the last value set, for any     *)
(* number of rules, requests, resizes and refreshes, as long as a full     *)
(* grid of the largest configured blocks fits in int64.                    *)
THEOREM SpareNeverLeavesBudget ==
  ASSUME GridBounded PROVE Spec => []SpareWithinBudget
<1> DEFINE Inv == TypeOK /\ GridsFit /\ SpareWithinBudget
<1>1. Init => GridsFit /\ SpareWithinBudget
  BY DEF Init, GridsFit, GridBounded, SpareWithinBudget
<1>2. Inv /\ [Next]_vars => GridsFit' /\ SpareWithinBudget'
  BY GridsFitStep, SpareBudgetStep
<1> QED
  BY <1>1, <1>2, TypeCorrect, PTL DEF Spec

-----------------------------------------------------------------------------
(***************************************************************************)
(* The rules.  What one step may make of a rule in the list.               *)
(***************************************************************************)
RuleBecomes(s, t) ==
  \/ t = s
  \/ t = Fresh(s)
  \/ ~s.r.heal /\ s.remaining > 0 /\ t = [s EXCEPT !.remaining = @ - 1]
  \/ s.r.heal /\ PerBlock(s) /\ \E q \in Requests :
       t = [s EXCEPT !.healedBlocks = @ \cup Cover(s, q)]
  \/ s.r.heal /\ ~PerBlock(s) /\ t = [s EXCEPT !.healed = TRUE]

(* After any step each rule in the list is the one just added or what that *)
(* step made of a rule that was there.                                     *)
LEMMA RuleStep ==
  ASSUME TypeOK, [Next]_vars, NEW i \in DOMAIN rules'
  PROVE  \/ \E r \in RuleInputs :
              Add(r) /\ i = Len(rules) + 1 /\ rules'[i] = NewRuleState(nextID + 1, r)
         \/ \E j \in DOMAIN rules : RuleBecomes(rules[j], rules'[i])
<1>1. ASSUME NEW r \in RuleInputs, Add(r)
      PROVE  \/ i = Len(rules) + 1 /\ rules'[i] = NewRuleState(nextID + 1, r)
             \/ i \in DOMAIN rules /\ rules'[i] = rules[i]
  <2> DEFINE s == NewRuleState(nextID + 1, r)
  <2>1. nextID + 1 \in Nat \ {0}
    BY DEF TypeOK
  <2>2. rules \in Seq(RuleState) /\ s \in RuleState
    BY <2>1, NewRuleStateType DEF TypeOK
  <2> QED
    BY <1>1, <2>2, AppendProperties, LenProperties DEF Add
<1>2. ASSUME NEW id \in 1..MaxID, Delete(id)
      PROVE  \E j \in DOMAIN rules : rules'[i] = rules[j]
  <2>1. CASE rules' = rules
    BY <2>1
  <2>2. ASSUME NEW k \in DOMAIN rules,
               rules' = SubSeq(rules, 1, k - 1) \o SubSeq(rules, k + 1, Len(rules))
        PROVE  \E j \in DOMAIN rules : rules'[i] = rules[j]
    <3>1. k \in Int /\ Len(rules) \in Nat
      BY RuleFields, LenProperties DEF TypeOK
    <3>2. i \in 1..(Len(rules) - 1)
      BY <2>2, DeleteKeeps
    <3>3. /\ i < k => rules'[i] = rules[i] /\ i \in DOMAIN rules
          /\ i >= k => rules'[i] = rules[i + 1] /\ i + 1 \in DOMAIN rules
      BY <2>2, DeleteKeeps
    <3> QED
      BY <3>1, <3>2, <3>3
  <2> QED
    BY <1>2, <2>1, <2>2 DEF Delete
<1>3. ASSUME NEW skip \in BOOLEAN, Refresh(skip)
      PROVE  i \in DOMAIN rules /\ rules'[i] = Fresh(rules[i])
  BY <1>3 DEF Refresh
<1>4. ASSUME NEW q \in Requests, Check(q)
      PROVE  i \in DOMAIN rules /\ RuleBecomes(rules[i], rules'[i])
  <2>1. CASE UNCHANGED rules
    BY <2>1 DEF RuleBecomes
  <2>2. ASSUME NEW k \in DOMAIN rules, CheckPlain(q, k), rules[k].remaining > 0
        PROVE  i \in DOMAIN rules /\ RuleBecomes(rules[i], rules'[i])
    BY <2>2 DEF CheckPlain, RuleBecomes
  <2>3. ASSUME NEW k \in DOMAIN rules, CheckHeal(q, k)
        PROVE  i \in DOMAIN rules /\ RuleBecomes(rules[i], rules'[i])
    <3>1. rules[k].r.heal
      BY <2>3 DEF CheckHeal, NeedsRepair
    <3>2. CASE PerBlock(rules[k])
      <4>1. rules' = [rules EXCEPT ![k].healedBlocks = @ \cup Cover(rules[k], q)]
        BY <2>3, <3>2 DEF CheckHeal
      <4>2. CASE i = k
        BY <3>1, <3>2, <4>1, <4>2 DEF RuleBecomes
      <4>3. CASE i # k
        BY <4>1, <4>3 DEF RuleBecomes
      <4> QED
        BY <4>2, <4>3
    <3>3. CASE ~PerBlock(rules[k])
      <4>1. rules' = [rules EXCEPT ![k].healed = TRUE]
        BY <2>3, <3>3 DEF CheckHeal
      <4> QED
        BY <3>1, <3>3, <4>1 DEF RuleBecomes
    <3> QED
      BY <3>2, <3>3
  <2>4. \/ UNCHANGED rules
        \/ \E k \in DOMAIN rules : CheckPlain(q, k) /\ rules[k].remaining > 0
        \/ \E k \in DOMAIN rules : CheckHeal(q, k)
    BY <1>4 DEF Check, CheckPass, CheckPlain, CheckBadRead, CheckRewrite, CheckNoSpare
  <2> QED
    BY <2>1, <2>2, <2>3, <2>4
<1>5. CASE UNCHANGED rules
  BY <1>5 DEF RuleBecomes
<1>6. CASE rules' = <<>>
  <2>1. DOMAIN rules' = {}
    BY <1>6
  <2> QED
    BY <2>1
<1>7. \/ \E r \in RuleInputs : Add(r)
      \/ \E id \in 1..MaxID : Delete(id)
      \/ \E skip \in BOOLEAN : Refresh(skip)
      \/ \E q \in Requests : Check(q)
      \/ UNCHANGED rules
      \/ rules' = <<>>
  BY DEF Next, vars, Clear, SetSpareBlocks, SetProfile, SetSpeed
<1> QED
  BY <1>1, <1>2, <1>3, <1>4, <1>5, <1>6, <1>7 DEF RuleBecomes

-----------------------------------------------------------------------------
(* Strengthening: a region starts inside int64; a healing rule has op read; *)
(* a grid is that of a sized healing rule and covers its region; a rule    *)
(* with a grid uses only its blocks, one without only its flag; the hits a *)
(* refresh restores are those of the rule added.                           *)
GridOK(s) ==
  /\ s.r.off <= MaxInt /\ (s.r.heal => s.r.op = "read")
  /\ s.healedBlocks \subseteq 0..(s.total - 1)
  /\ PerBlock(s) =>
       /\ s.r.heal /\ s.r.offLen > 0 /\ s.blockSize > 1 /\ ~s.healed
       /\ s.total = BlocksNeeded(s.r.offLen, s.blockSize)

QuotaOK(s) ==
  /\ s.initialRem = IF s.r.n = 0 THEN -1 ELSE s.r.n
  /\ IF s.r.n > 0 /\ ~s.r.heal
     THEN 0 <= s.remaining /\ s.remaining <= s.r.n
     ELSE s.remaining = s.initialRem

RulesOK == \A i \in DOMAIN rules : GridOK(rules[i]) /\ QuotaOK(rules[i])

(* A rule just added has a grid that fits it, no repairs and all its hits. *)
LEMMA NewRuleOK ==
  ASSUME TypeOK, NEW r \in RuleInputs, NEW id \in Nat \ {0}
  PROVE  GridOK(NewRuleState(id, r)) /\ QuotaOK(NewRuleState(id, r))
<1> DEFINE s == NewRuleState(id, r)
           o == [r EXCEPT !.op = IF r.heal THEN "read" ELSE r.op]
<1>1. r \in Rule /\ r.n \in Int /\ r.offLen \in Int /\ r.heal \in BOOLEAN /\ r.off <= MaxInt
  BY InjectorAssumption DEF Rule
<1>2. o.heal = r.heal /\ o.offLen = r.offLen /\ o.n = r.n /\ o.off = r.off
        /\ (r.heal => o.op = "read")
  BY <1>1 DEF Rule
<1>3. s.r = o /\ s.total = GridSize(r, spareBlockSize) /\ s.healedBlocks = {}
        /\ s.blockSize = spareBlockSize /\ s.healed = FALSE
        /\ s.initialRem = (IF r.n = 0 THEN -1 ELSE r.n) /\ s.remaining = s.initialRem
  BY DEF NewRuleState
<1>4. s.total > 0 => r.heal /\ spareBlockSize > 1 /\ r.offLen > 0
                       /\ s.total = BlocksNeeded(r.offLen, spareBlockSize)
  BY <1>3 DEF GridSize
<1>5. GridOK(s)
  BY <1>1, <1>2, <1>3, <1>4 DEF GridOK, PerBlock
<1>6. QuotaOK(s)
  BY <1>1, <1>2, <1>3 DEF QuotaOK
<1> QED
  BY <1>5, <1>6

(* No step of a rule leaves that shape.                                    *)
LEMMA RuleBecomesOK ==
  ASSUME TypeOK, NEW i \in DOMAIN rules, GridOK(rules[i]), QuotaOK(rules[i]),
         NEW t, RuleBecomes(rules[i], t)
  PROVE  GridOK(t) /\ QuotaOK(t)
<1> DEFINE s == rules[i]
<1>1. s \in RuleState /\ s.total \in Nat /\ s.remaining \in Int
  BY RuleFields
<1>1a. s.initialRem \in Int /\ s.r \in Rule /\ s.r.n \in Int /\ s.r.heal \in BOOLEAN
  BY <1>1 DEF RuleState, Rule
<1>2. CASE t = s
  BY <1>2
<1>3. CASE t = Fresh(s)
  <2>1. /\ t.healedBlocks = {} /\ t.healed = FALSE /\ t.remaining = s.initialRem
        /\ t.total = s.total /\ t.r = s.r /\ t.blockSize = s.blockSize
        /\ t.initialRem = s.initialRem
    BY <1>1, <1>3 DEF Fresh, RuleState
  <2>2. GridOK(t)
    BY <2>1 DEF GridOK, PerBlock
  <2>3. QuotaOK(t)
    BY <1>1, <1>1a, <2>1 DEF QuotaOK
  <2> QED
    BY <2>2, <2>3
<1>4. CASE ~s.r.heal /\ s.remaining > 0 /\ t = [s EXCEPT !.remaining = @ - 1]
  <2>1. /\ t.healedBlocks = s.healedBlocks /\ t.healed = s.healed
        /\ t.remaining = s.remaining - 1
        /\ t.total = s.total /\ t.r = s.r /\ t.blockSize = s.blockSize
        /\ t.initialRem = s.initialRem
    BY <1>1, <1>4 DEF RuleState
  <2>2. GridOK(t)
    BY <2>1 DEF GridOK, PerBlock
  <2>3. QuotaOK(t)
    BY <1>1, <1>1a, <1>4, <2>1 DEF QuotaOK
  <2> QED
    BY <2>2, <2>3
<1>5. ASSUME NEW q \in Requests, t = [s EXCEPT !.healedBlocks = @ \cup Cover(s, q)]
      PROVE  GridOK(t) /\ QuotaOK(t)
  <2>1. /\ t.healedBlocks = s.healedBlocks \cup Cover(s, q) /\ t.healed = s.healed
        /\ t.remaining = s.remaining
        /\ t.total = s.total /\ t.r = s.r /\ t.blockSize = s.blockSize
        /\ t.initialRem = s.initialRem
    BY <1>1, <1>5 DEF RuleState
  <2>2. Cover(s, q) \subseteq 0..(s.total - 1)
    BY CoverType
  <2>3. GridOK(t)
    BY <2>1, <2>2 DEF GridOK, PerBlock
  <2>4. QuotaOK(t)
    BY <2>1 DEF QuotaOK
  <2> QED
    BY <2>3, <2>4
<1>6. CASE s.r.heal /\ ~PerBlock(s) /\ t = [s EXCEPT !.healed = TRUE]
  <2>1. /\ t.healedBlocks = s.healedBlocks
        /\ t.remaining = s.remaining
        /\ t.total = s.total /\ t.r = s.r /\ t.blockSize = s.blockSize
        /\ t.initialRem = s.initialRem
    BY <1>1, <1>6 DEF RuleState
  <2> QED
    BY <1>6, <2>1 DEF GridOK, QuotaOK, PerBlock
<1> QED
  BY <1>2, <1>3, <1>4, <1>5, <1>6 DEF RuleBecomes

(* The shape of the rules is inductive.                                    *)
LEMMA RulesOKStep == TypeOK /\ RulesOK /\ [Next]_vars => RulesOK'
<1> SUFFICES ASSUME TypeOK, RulesOK, [Next]_vars, NEW i \in DOMAIN rules'
             PROVE  GridOK(rules'[i]) /\ QuotaOK(rules'[i])
  BY DEF RulesOK
<1>1. ASSUME NEW r \in RuleInputs, rules'[i] = NewRuleState(nextID + 1, r)
      PROVE  GridOK(rules'[i]) /\ QuotaOK(rules'[i])
  <2>1. nextID + 1 \in Nat \ {0}
    BY DEF TypeOK
  <2> QED
    BY <1>1, <2>1, NewRuleOK
<1>2. ASSUME NEW j \in DOMAIN rules, RuleBecomes(rules[j], rules'[i])
      PROVE  GridOK(rules'[i]) /\ QuotaOK(rules'[i])
  BY <1>2, RuleBecomesOK DEF RulesOK
<1> QED
  BY <1>1, <1>2, RuleStep

(* Every rule reachable has a grid that fits it and hits within its quota. *)
LEMMA RulesAlwaysOK == Spec => [](TypeOK /\ RulesOK)
<1>1. Init => TypeOK /\ RulesOK
  BY TypeInit DEF Init, RulesOK
<1> QED
  BY <1>1, TypeStep, RulesOKStep, PTL DEF Spec

(* A rule with N > 0 keeps between 0 and N hits, one with N = 0 is never   *)
(* spent and a healing rule spends none, for all rules and any sequence of *)
(* requests, deletes and refreshes (the quota of Check and Refresh).       *)
THEOREM QuotaKept == Spec => []QuotaWithinN
<1>1. TypeOK /\ RulesOK => QuotaWithinN
  <2> SUFFICES ASSUME TypeOK, RulesOK, NEW i \in DOMAIN rules
               PROVE  LET s == rules[i]
                      IN  IF s.r.n > 0 /\ ~s.r.heal
                          THEN 0 <= s.remaining /\ s.remaining <= s.r.n
                          ELSE s.remaining # 0 /\ s.remaining = s.initialRem
    BY DEF QuotaWithinN
  <2>1. rules[i].r \in Rule /\ rules[i].r.n \in Int /\ rules[i].remaining \in Int
    BY RuleFields DEF RuleState, Rule
  <2> QED
    BY <2>1 DEF RulesOK, QuotaOK
<1> QED
  BY <1>1, RulesAlwaysOK, PTL

(* However many rules match a request, only the first plain one with hits  *)
(* left loses one, and its errno is the answer: the loop of Check ends     *)
(* with the rule that decides, and no other operation that answers a       *)
(* request touches a quota.                                                *)
THEOREM OneHitIsSpent == Spec => OneHitPerAnswer
<1> DEFINE Spent(i) ==
      /\ rules'[i].remaining = rules[i].remaining - 1
      /\ Matches(rules[i], reply'.req) /\ reply'.errno = rules[i].r.errno
      /\ \A j \in DOMAIN rules \ {i} : rules'[j] = rules[j]
      /\ \A j \in 1..(i - 1) :
           Matches(rules[j], reply'.req) => rules[j].r.heal \/ rules[j].remaining = 0
<1>1. ASSUME TypeOK, [Next]_vars, NEW i \in DOMAIN rules,
             reply'.kind = "check", rules'[i].remaining # rules[i].remaining
      PROVE  Spent(i)
  <2>1. \A k \in DOMAIN rules : rules[k] \in RuleState
    BY <1>1, RuleFields
  <2>2. \E q \in Requests : Check(q)
    <3>1. rules' # rules
      BY <1>1
    <3> QED
      BY <1>1, <3>1 DEF Next, vars, Add, Delete, Clear, SetSpareBlocks, SetProfile, SetSpeed, Refresh, Void
  <2>3. PICK q \in Requests : Check(q)
    BY <2>2
  <2>4. ASSUME NEW k \in DOMAIN rules, NEW x,
               \/ rules' = [rules EXCEPT ![k].healedBlocks = x]
               \/ rules' = [rules EXCEPT ![k].healed = x]
        PROVE  FALSE
    BY <1>1, <2>1, <2>4 DEF RuleState
  <2>5. PICK k \in DOMAIN rules : CheckPlain(q, k)
    <3>1. rules' # rules
      BY <1>1
    <3>2. \A k \in DOMAIN rules : ~CheckHeal(q, k)
      BY <2>4 DEF CheckHeal
    <3> QED
      BY <2>3, <3>1, <3>2 DEF Check, CheckPass, CheckBadRead, CheckRewrite, CheckNoSpare
  <2>6. rules' = [rules EXCEPT ![k].remaining = rules[k].remaining - 1]
    BY <1>1, <2>5 DEF CheckPlain
  <2>7. i = k /\ \A j \in DOMAIN rules \ {i} : rules'[j] = rules[j]
    BY <1>1, <2>6
  <2>8. rules'[i].remaining = rules[i].remaining - 1
    BY <2>1, <2>6, <2>7 DEF RuleState
  <2>9. reply'.req = q /\ reply'.errno = rules[i].r.errno
    BY <2>5, <2>7 DEF CheckPlain, Answer
  <2>10. /\ ~Continues(rules[i], q)
         /\ \A j \in 1..(i - 1) : Continues(rules[j], q)
    BY <2>5, <2>7 DEF CheckPlain, Decides
  <2>11. \A j \in 1..(i - 1) : Matches(rules[j], q) => rules[j].r.heal \/ rules[j].remaining = 0
    BY <2>10 DEF Continues
  <2>12. Matches(rules[i], q)
    BY <2>10 DEF Continues
  <2> QED
    BY <2>7, <2>8, <2>9, <2>11, <2>12
<1>2. TypeOK /\ [Next]_vars
        => \A i \in DOMAIN rules :
             reply'.kind = "check" /\ rules'[i].remaining # rules[i].remaining => Spent(i)
  BY <1>1
<1> QED
  BY <1>2, TypeCorrect, PTL DEF Spec, OneHitPerAnswer

(* IDs grow along the list.                                                *)
LEMMA IDsStep == TypeOK /\ IDsIncrease /\ [Next]_vars => IDsIncrease'
<1> SUFFICES ASSUME TypeOK, IDsIncrease, [Next]_vars PROVE IDsIncrease'
  OBVIOUS
<1>0. rules \in Seq(RuleState) /\ DOMAIN rules = 1..Len(rules) /\ Len(rules) \in Nat
        /\ nextID \in Nat
  BY LenProperties DEF TypeOK
<1>0a. \A j \in DOMAIN rules : rules[j].id \in Nat
  BY RuleFields
<1>1. ASSUME NEW r \in RuleInputs, Add(r) PROVE IDsIncrease'
  <2> DEFINE s == NewRuleState(nextID + 1, r)
  <2>1. s \in RuleState /\ s.id = nextID + 1
    <3>1. nextID + 1 \in Nat \ {0}
      BY <1>0
    <3> QED
      BY <3>1, NewRuleStateType DEF NewRuleState
  <2>2. /\ DOMAIN rules' = 1..(Len(rules) + 1)
        /\ rules'[Len(rules) + 1] = s
        /\ \A j \in 1..Len(rules) : rules'[j] = rules[j]
    BY <1>0, <1>1, <2>1, AppendProperties, LenProperties DEF Add
  <2>3. nextID' = nextID + 1
    BY <1>1 DEF Add
  <2>4. ASSUME NEW i \in DOMAIN rules', NEW j \in DOMAIN rules', i < j
        PROVE  rules'[i].id < rules'[j].id
    <3>1. i \in 1..Len(rules)
      BY <1>0, <2>2, <2>4
    <3>2. CASE j \in 1..Len(rules)
      BY <1>0, <2>2, <2>4, <3>1, <3>2 DEF IDsIncrease
    <3>3. CASE j = Len(rules) + 1
      <4>1. rules[i].id <= nextID /\ rules[i].id \in Nat
        BY <1>0, <1>0a, <3>1 DEF IDsIncrease
      <4>2. rules'[i] = rules[i] /\ rules'[j].id = nextID + 1
        BY <2>1, <2>2, <3>1, <3>3
      <4> QED
        BY <1>0, <4>1, <4>2
    <3> QED
      BY <1>0, <2>2, <3>2, <3>3
  <2>5. ASSUME NEW i \in DOMAIN rules' PROVE rules'[i].id <= nextID'
    <3>1. CASE i \in 1..Len(rules)
      <4>1. rules[i].id <= nextID /\ rules[i].id \in Nat
        BY <1>0, <1>0a, <3>1 DEF IDsIncrease
      <4> QED
        BY <1>0, <2>2, <2>3, <3>1, <4>1
    <3>2. CASE i = Len(rules) + 1
      BY <1>0, <2>1, <2>2, <2>3, <3>2
    <3> QED
      BY <1>0, <2>2, <3>1, <3>2
  <2> QED
    BY <2>4, <2>5 DEF IDsIncrease
<1>2. ASSUME NEW id \in 1..MaxID, Delete(id) PROVE IDsIncrease'
  <2>0. UNCHANGED nextID
    BY <1>2 DEF Delete
  <2>1. CASE rules' = rules
    BY <2>0, <2>1 DEF IDsIncrease
  <2>2. ASSUME NEW k \in DOMAIN rules,
               rules' = SubSeq(rules, 1, k - 1) \o SubSeq(rules, k + 1, Len(rules))
        PROVE  IDsIncrease'
    <3>1. k \in Int /\ DOMAIN rules' = 1..(Len(rules) - 1)
      BY <1>0, <2>2, DeleteKeeps
    <3>2. \A i \in DOMAIN rules' :
            /\ i < k => rules'[i] = rules[i] /\ i \in DOMAIN rules
            /\ i >= k => rules'[i] = rules[i + 1] /\ i + 1 \in DOMAIN rules
      BY <2>2, DeleteKeeps
    <3>3. ASSUME NEW i \in DOMAIN rules', NEW j \in DOMAIN rules', i < j
          PROVE  rules'[i].id < rules'[j].id
      <4>1. i \in Int /\ j \in Int
        BY <3>1
      <4>2. CASE j < k
        BY <3>1, <3>2, <3>3, <4>1, <4>2 DEF IDsIncrease
      <4>3. CASE i < k /\ j >= k
        BY <3>1, <3>2, <3>3, <4>1, <4>3 DEF IDsIncrease
      <4>4. CASE i >= k
        BY <3>1, <3>2, <3>3, <4>1, <4>4 DEF IDsIncrease
      <4> QED
        BY <3>1, <3>3, <4>1, <4>2, <4>3, <4>4
    <3>4. ASSUME NEW i \in DOMAIN rules' PROVE rules'[i].id <= nextID'
      <4>1. i \in Int
        BY <3>1
      <4> QED
        BY <2>0, <3>1, <3>2, <4>1 DEF IDsIncrease
    <3> QED
      BY <3>3, <3>4 DEF IDsIncrease
  <2> QED
    BY <1>2, <2>1, <2>2 DEF Delete
<1>3. ASSUME DOMAIN rules' = DOMAIN rules, UNCHANGED nextID,
             \A i \in DOMAIN rules : rules'[i].id = rules[i].id
      PROVE  IDsIncrease'
  BY <1>3 DEF IDsIncrease
<1>4. ASSUME NEW skip \in BOOLEAN, Refresh(skip) PROVE IDsIncrease'
  <2>1. /\ DOMAIN rules' = DOMAIN rules /\ UNCHANGED nextID
        /\ \A i \in DOMAIN rules : rules'[i] = Fresh(rules[i])
    BY <1>4 DEF Refresh
  <2>2. \A i \in DOMAIN rules : rules[i] \in RuleState
    BY RuleFields
  <2>3. \A i \in DOMAIN rules : rules'[i].id = rules[i].id
    BY <2>1, <2>2 DEF Fresh, RuleState
  <2> QED
    BY <1>3, <2>1, <2>3
<1>5. ASSUME NEW q \in Requests, Check(q) PROVE IDsIncrease'
  <2>1. UNCHANGED nextID
    BY <1>5 DEF Check, CheckPass, CheckPlain, CheckBadRead, CheckRewrite, CheckNoSpare, CheckHeal
  <2> QED
    BY <1>3, <1>5, <2>1, RulesAfterCheck
<1>6. CASE UNCHANGED <<rules, nextID>>
  BY <1>3, <1>6
<1>7. CASE rules' = <<>>
  BY <1>7 DEF IDsIncrease
<1>8. \/ \E r \in RuleInputs : Add(r)
      \/ \E id \in 1..MaxID : Delete(id)
      \/ \E skip \in BOOLEAN : Refresh(skip)
      \/ \E q \in Requests : Check(q)
      \/ UNCHANGED <<rules, nextID>>
      \/ rules' = <<>>
  BY DEF Next, vars, Clear, SetSpareBlocks, SetProfile, SetSpeed
<1> QED
  BY <1>1, <1>2, <1>4, <1>5, <1>6, <1>7, <1>8

(* IDs grow along the rule list, up to the last one handed out.            *)
THEOREM IDsOrdered == Spec => []IDsIncrease
<1>1. Init => IDsIncrease
  BY DEF Init, IDsIncrease
<1> QED
  BY <1>1, IDsStep, TypeCorrect, PTL DEF Spec

(* Only Add brings in an ID, the next one.                                 *)
LEMMA IDsOfAStep ==
  ASSUME TypeOK, [Next]_vars
  PROVE  \/ LiveIDs' \subseteq LiveIDs /\ nextID' = nextID
         \/ LiveIDs' = LiveIDs \cup {nextID + 1} /\ nextID' = nextID + 1
<1>0. rules \in Seq(RuleState) /\ DOMAIN rules = 1..Len(rules) /\ Len(rules) \in Nat
        /\ nextID \in Nat
  BY LenProperties DEF TypeOK
<1>1. ASSUME NEW r \in RuleInputs, Add(r)
      PROVE  LiveIDs' = LiveIDs \cup {nextID + 1} /\ nextID' = nextID + 1
  <2> DEFINE s == NewRuleState(nextID + 1, r)
  <2>1. s \in RuleState /\ s.id = nextID + 1
    <3>1. nextID + 1 \in Nat \ {0}
      BY <1>0
    <3> QED
      BY <3>1, NewRuleStateType DEF NewRuleState
  <2>2. /\ DOMAIN rules' = 1..(Len(rules) + 1)
        /\ rules'[Len(rules) + 1] = s
        /\ \A j \in 1..Len(rules) : rules'[j] = rules[j]
    BY <1>0, <1>1, <2>1, AppendProperties, LenProperties DEF Add
  <2> HIDE DEF s
  <2>3. \A j \in DOMAIN rules' : j \in DOMAIN rules \/ j = Len(rules) + 1
    BY <1>0, <2>2
  <2>4. DOMAIN rules \subseteq DOMAIN rules' /\ Len(rules) + 1 \in DOMAIN rules'
    BY <1>0, <2>2
  <2>5. \A j \in DOMAIN rules : rules'[j].id = rules[j].id
    BY <1>0, <2>2
  <2>6. rules'[Len(rules) + 1].id = nextID + 1
    BY <2>1, <2>2
  <2> QED
    BY <1>1, <2>3, <2>4, <2>5, <2>6 DEF LiveIDs, Add
<1>2. ASSUME NEW id \in 1..MaxID, Delete(id)
      PROVE  LiveIDs' \subseteq LiveIDs /\ nextID' = nextID
  <2>1. CASE rules' = rules
    BY <1>2, <2>1 DEF LiveIDs, Delete
  <2>2. ASSUME NEW k \in DOMAIN rules,
               rules' = SubSeq(rules, 1, k - 1) \o SubSeq(rules, k + 1, Len(rules))
        PROVE  LiveIDs' \subseteq LiveIDs
    <3>1. k \in Int /\ DOMAIN rules' \subseteq Int
      BY <1>0, <2>2, DeleteKeeps
    <3>2. \A i \in DOMAIN rules' :
            /\ i < k => rules'[i] = rules[i] /\ i \in DOMAIN rules
            /\ i >= k => rules'[i] = rules[i + 1] /\ i + 1 \in DOMAIN rules
      BY <2>2, DeleteKeeps
    <3>3. \A i \in DOMAIN rules' : i < k \/ i >= k
      BY <3>1
    <3>4. \A i \in DOMAIN rules' : \E j \in DOMAIN rules : rules'[i].id = rules[j].id
      BY <3>2, <3>3
    <3> QED
      BY <3>4 DEF LiveIDs
  <2> QED
    BY <1>2, <2>1, <2>2 DEF Delete
<1>3. ASSUME DOMAIN rules' = DOMAIN rules, \A i \in DOMAIN rules : rules'[i].id = rules[i].id
      PROVE  LiveIDs' \subseteq LiveIDs
  BY <1>3 DEF LiveIDs
<1>4. ASSUME NEW skip \in BOOLEAN, Refresh(skip)
      PROVE  LiveIDs' \subseteq LiveIDs /\ nextID' = nextID
  <2>1. /\ DOMAIN rules' = DOMAIN rules /\ UNCHANGED nextID
        /\ \A i \in DOMAIN rules : rules'[i] = Fresh(rules[i])
    BY <1>4 DEF Refresh
  <2>2. \A i \in DOMAIN rules : rules[i] \in RuleState
    BY RuleFields
  <2>3. \A i \in DOMAIN rules : rules'[i].id = rules[i].id
    BY <2>1, <2>2 DEF Fresh, RuleState
  <2> QED
    BY <1>3, <2>1, <2>3
<1>5. ASSUME NEW q \in Requests, Check(q)
      PROVE  LiveIDs' \subseteq LiveIDs /\ nextID' = nextID
  <2>1. UNCHANGED nextID
    BY <1>5 DEF Check, CheckPass, CheckPlain, CheckBadRead, CheckRewrite, CheckNoSpare, CheckHeal
  <2> QED
    BY <1>3, <1>5, <2>1, RulesAfterCheck
<1>6. ASSUME UNCHANGED <<rules, nextID>>
      PROVE  LiveIDs' \subseteq LiveIDs /\ nextID' = nextID
  BY <1>3, <1>6
<1>7. ASSUME Clear PROVE LiveIDs' \subseteq LiveIDs /\ nextID' = nextID
  <2>1. rules' = <<>> /\ nextID' = nextID
    BY <1>7 DEF Clear
  <2> QED
    BY <2>1 DEF LiveIDs
<1>8. \/ \E r \in RuleInputs : Add(r)
      \/ \E id \in 1..MaxID : Delete(id)
      \/ \E skip \in BOOLEAN : Refresh(skip)
      \/ \E q \in Requests : Check(q)
      \/ UNCHANGED <<rules, nextID>>
      \/ Clear
  BY DEF Next, vars, SetSpareBlocks, SetProfile, SetSpeed
<1> QED
  BY <1>1, <1>2, <1>4, <1>5, <1>6, <1>7, <1>8

(* An ID names one rule for ever, for any number of adds, deletes, clears  *)
(* and refreshes: no rule gets the ID of a live rule or of one that is     *)
(* gone, for live IDs are bounded by nextID and Add takes the one above.   *)
THEOREM IDsNeverReused == Spec => IDNamesOneRule
<1> DEFINE Kept ==
      /\ \A i, j \in DOMAIN rules' : rules'[i].id = rules'[j].id => i = j
      /\ LiveIDs' \cap RetiredIDs = {}
      /\ RetiredIDs \cup (LiveIDs \ LiveIDs') \subseteq RetiredIDs'
<1>1. ASSUME TypeOK, IDsIncrease, TypeOK', IDsIncrease', [Next]_vars PROVE Kept
  <2>1. \A i, j \in DOMAIN rules' : rules'[i].id = rules'[j].id => i = j
    <3> SUFFICES ASSUME NEW i \in DOMAIN rules', NEW j \in DOMAIN rules',
                        rules'[i].id = rules'[j].id, i # j
                 PROVE  FALSE
      OBVIOUS
    <3>1. rules' \in Seq(RuleState)
      BY <1>1 DEF TypeOK
    <3>2. i \in Nat /\ j \in Nat /\ rules'[i] \in RuleState /\ rules'[j] \in RuleState
      BY <3>1, LenProperties, ElementOfSeq
    <3>3. i < j \/ j < i
      BY <3>2
    <3>4. rules'[i].id \in Nat /\ rules'[j].id \in Nat
      BY <3>2 DEF RuleState
    <3>5. rules'[i].id < rules'[j].id \/ rules'[j].id < rules'[i].id
      BY <1>1, <3>3 DEF IDsIncrease
    <3> QED
      BY <3>4, <3>5
  <2>2. LiveIDs \subseteq 1..nextID /\ nextID \in Nat
    <3>1. nextID \in Nat
      BY <1>1 DEF TypeOK
    <3>2. \A i \in DOMAIN rules : rules[i].id \in 1..nextID
      <4> SUFFICES ASSUME NEW i \in DOMAIN rules PROVE rules[i].id \in 1..nextID
        OBVIOUS
      <4>1. rules[i].id \in Nat \ {0}
        BY <1>1, RuleFields
      <4>2. rules[i].id <= nextID
        BY <1>1 DEF IDsIncrease
      <4> QED
        BY <3>1, <4>1, <4>2
    <3> QED
      BY <3>1, <3>2 DEF LiveIDs
  <2>3. CASE LiveIDs' \subseteq LiveIDs /\ nextID' = nextID
    BY <2>1, <2>2, <2>3 DEF RetiredIDs
  <2>4. CASE LiveIDs' = LiveIDs \cup {nextID + 1} /\ nextID' = nextID + 1
    <3>1. nextID + 1 \notin 1..nextID /\ 1..nextID \subseteq 1..(nextID + 1)
      BY <2>2
    <3> QED
      BY <2>1, <2>4, <3>1 DEF RetiredIDs
  <2> QED
    BY <1>1, <2>3, <2>4, IDsOfAStep
<1>2. TypeOK /\ IDsIncrease /\ TypeOK' /\ IDsIncrease' /\ [Next]_vars => Kept
  BY <1>1
<1>3. TypeOK /\ IDsIncrease /\ TypeOK' /\ IDsIncrease' /\ [Next]_vars => [Kept]_vars
  BY <1>2
<1>4. Spec => [][Kept]_vars
  <2> HIDE DEF Kept
  <2> QED
    BY <1>3, IDsOrdered, TypeCorrect, PTL DEF Spec
<1> QED
  BY <1>4 DEF IDNamesOneRule

-----------------------------------------------------------------------------
(* With a block size the spare blocks charged hold the bytes remapped.     *)
LEMMA ChargeCovers ==
  ASSUME TypeOK, GridsFit, NEW i \in DOMAIN rules, NEW q \in Requests, spareBlockSize > 1
  PROVE  RemappedBytes(rules[i], q) <= Charge(rules[i], q) * spareBlockSize
<1> DEFINE s == rules[i]
           c == Cardinality(Unhealed(s, q))
<1>1. c \in Nat /\ s.blockSize \in Nat /\ s.r.offLen \in Int /\ spareBlockSize \in Nat \ {0}
  BY CoverType, RuleFields, MaxIntAssumption DEF TypeOK, Int64
<1>2. CASE PerBlock(s)
  <2>1. c * s.blockSize <= GridBlocksToSpare(c, s.blockSize, spareBlockSize) * spareBlockSize
    BY <1>1, HealedBytesFit, GridBlocksToSpareCovers
  <2> QED
    BY <1>2, <2>1 DEF RemappedBytes, Charge
<1>3. CASE ~PerBlock(s)
  <2>1. CASE s.r.offLen > 0
    <3>1. s.r.offLen <= BlocksNeeded(s.r.offLen, spareBlockSize) * spareBlockSize
      BY <1>1, <2>1, BlocksNeededCovers
    <3> QED
      BY <1>3, <2>1, <3>1 DEF RemappedBytes, Charge
  <2>2. CASE ~(s.r.offLen > 0)
    <3>1. BlocksNeeded(s.r.offLen, spareBlockSize) = 1
      BY <1>1, <2>2 DEF BlocksNeeded
    <3> QED
      BY <1>1, <1>3, <2>2, <3>1 DEF RemappedBytes, Charge
  <2> QED
    BY <2>1, <2>2
<1> QED
  BY <1>2, <1>3

(* Every byte remapped since the budget was last filled is paid for, for   *)
(* any rules, requests, resizes and refreshes: the blocks gone hold them,  *)
(* in whatever size the grids were cut, as long as a full grid of the      *)
(* largest configured blocks fits in int64 (tryHealWhole, tryHealBlocks).  *)
THEOREM NothingRemappedForFree ==
  ASSUME GridBounded PROVE Spec => []NoFreeRemap
<1> DEFINE Inv == TypeOK /\ GridsFit /\ SpareWithinBudget /\ NoFreeRemap
<1>1. Init => GridsFit /\ SpareWithinBudget /\ NoFreeRemap
  BY DEF Init, GridsFit, GridBounded, SpareWithinBudget, NoFreeRemap
<1>2. Inv /\ [Next]_vars => NoFreeRemap'
  <2> SUFFICES ASSUME Inv, [Next]_vars PROVE NoFreeRemap'
    OBVIOUS
  <2>0. /\ spareCount \in Int /\ initialSpareCount \in Int /\ spareBlockSize \in Int
        /\ initialSpareBlockSize \in Int /\ remapped \in Int
    BY MaxIntAssumption DEF TypeOK, Int64
  <2>1. ASSUME NEW x \in SpareInputs, SetSpareBlocks(x[1], x[2]) PROVE NoFreeRemap'
    <3>1. x[1] \in Int /\ x[2] \in Int
      BY InjectorAssumption, MaxIntAssumption DEF Int64
    <3> QED
      BY <2>1, <3>1 DEF SetSpareBlocks, NoFreeRemap
  <2>2. ASSUME NEW skip \in BOOLEAN, Refresh(skip) PROVE NoFreeRemap'
    BY <2>0, <2>2 DEF Refresh, NoFreeRemap
  <2>3. ASSUME NEW q \in Requests, NEW i \in DOMAIN rules, CheckHeal(q, i)
        PROVE  NoFreeRemap'
    <3> DEFINE c == Charge(rules[i], q)
               b == RemappedBytes(rules[i], q)
    <3>1. c \in Int /\ b \in Int
      BY ChargeInt
    <3>2. UNCHANGED <<spareBlockSize, initialSpareCount>>
      BY <2>3 DEF CheckHeal
    <3>3. CASE spareCount = -1
      <4>1. spareCount' = -1
        BY <2>3, <3>3 DEF CheckHeal
      <4> QED
        BY <4>1 DEF NoFreeRemap
    <3>4. CASE spareCount # -1
      <4>1. spareCount >= 0
        BY <2>0, <3>4, MaxIntAssumption DEF SpareWithinBudget, TypeOK, Int64
      <4>2. spareCount' = spareCount - c
        BY <2>3, <4>1, HealBudget
      <4>3. remapped' = remapped + b
        BY <2>3, <3>4 DEF CheckHeal
      <4>4. CASE spareBlockSize > 1
        <5>1. b <= c * spareBlockSize
          BY <4>4, ChargeCovers
        <5>2. remapped <= (initialSpareCount - spareCount) * spareBlockSize
          BY <3>4, <4>4 DEF NoFreeRemap
        <5>3. (initialSpareCount - (spareCount - c)) * spareBlockSize
                = (initialSpareCount - spareCount) * spareBlockSize + c * spareBlockSize
          BY <2>0, <3>1
        <5>4. remapped + b
                <= (initialSpareCount - spareCount) * spareBlockSize + c * spareBlockSize
          <6>1. (initialSpareCount - spareCount) * spareBlockSize \in Int /\ c * spareBlockSize \in Int
            BY <2>0, <3>1
          <6> QED
            BY <2>0, <3>1, <5>1, <5>2, <6>1
        <5>5. remapped' <= (initialSpareCount' - spareCount') * spareBlockSize'
          BY <3>2, <4>2, <4>3, <5>3, <5>4
        <5> QED
          BY <5>5 DEF NoFreeRemap
      <4>5. CASE ~(spareBlockSize > 1)
        BY <3>2, <4>5 DEF NoFreeRemap
      <4> QED
        BY <4>4, <4>5
    <3> QED
      BY <3>3, <3>4
  <2>4. ASSUME UNCHANGED <<spareCount, initialSpareCount, spareBlockSize, remapped>> PROVE NoFreeRemap'
    BY <2>4 DEF NoFreeRemap
  <2>5. \/ \E x \in SpareInputs : SetSpareBlocks(x[1], x[2])
        \/ \E skip \in BOOLEAN : Refresh(skip)
        \/ \E q \in Requests, i \in DOMAIN rules : CheckHeal(q, i)
        \/ UNCHANGED <<spareCount, initialSpareCount, spareBlockSize, remapped>>
    BY DEF Next, vars, spareVars, Add, Delete, Clear, SetProfile, SetSpeed, Check,
           CheckPass, CheckPlain, CheckBadRead, CheckRewrite, CheckNoSpare
  <2> QED
    BY <2>1, <2>2, <2>3, <2>4, <2>5
<1>3. Inv /\ [Next]_vars => GridsFit' /\ TypeOK'
  BY GridsFitStep, TypeStep
<1> QED
  BY <1>1, <1>2, <1>3, TypeInit, SpareNeverLeavesBudget, PTL DEF Spec

-----------------------------------------------------------------------------
(* The text of a rule tells its state of use: it changes with a refresh    *)
(* exactly when the rule does.                                             *)
LEMMA TextTellsUse ==
  ASSUME TypeOK, RulesOK, NEW i \in DOMAIN rules
  PROVE  RuleStateText(Fresh(rules[i])) = RuleStateText(rules[i]) <=> Fresh(rules[i]) = rules[i]
<1> DEFINE s == rules[i]
           f == Fresh(s)
<1>1. s \in RuleState /\ s.total \in Nat /\ s.healed \in BOOLEAN
  BY RuleFields DEF RuleState
<1>2. GridOK(s)
  BY DEF RulesOK
<1>3. /\ f \in RuleState
      /\ f.id = s.id /\ f.r = s.r /\ f.remaining = s.initialRem /\ f.initialRem = s.initialRem
      /\ f.healed = FALSE /\ f.total = s.total /\ f.healedBlocks = {} /\ f.blockSize = s.blockSize
  BY <1>1, FreshType DEF Fresh, RuleState
<1>4. f = s <=> f.remaining = s.remaining /\ f.healed = s.healed /\ f.healedBlocks = s.healedBlocks
  BY <1>1, <1>3 DEF RuleState
<1>5. CASE s.total > 0
  <2>1. s.healed = FALSE /\ s.healedBlocks \subseteq 0..(s.total - 1)
    BY <1>1, <1>2, <1>5 DEF GridOK, PerBlock
  <2>2. IsFiniteSet(s.healedBlocks)
    BY <1>1, <2>1, BlockCount
  <2>3. Cardinality(s.healedBlocks) = 0 <=> s.healedBlocks = {}
    BY <2>2, FS_EmptySet
  <2>4. Cardinality({}) = 0
    BY FS_EmptySet
  <2>5. RuleStateText(s) = <<Cardinality(s.healedBlocks), s.total, s.remaining>>
    BY <1>5 DEF RuleStateText
  <2>6. RuleStateText(f) = <<0, s.total, s.initialRem>>
    BY <1>3, <1>5, <2>4 DEF RuleStateText
  <2>7. \A a, b, t, m, n : <<a, t, m>> = <<b, t, n>> <=> a = b /\ m = n
    OBVIOUS
  <2>8. RuleStateText(f) = RuleStateText(s)
          <=> 0 = Cardinality(s.healedBlocks) /\ s.initialRem = s.remaining
    BY <2>5, <2>6, <2>7
  <2> QED
    BY <1>3, <1>4, <2>1, <2>3, <2>8
<1>6. CASE ~(s.total > 0)
  <2>1. s.healedBlocks = {}
    <3>1. s.total = 0
      BY <1>1, <1>6
    <3> QED
      BY <1>2, <3>1 DEF GridOK
  <2>2. RuleStateText(s) = <<s.healed, s.remaining>>
    BY <1>6 DEF RuleStateText
  <2>3. RuleStateText(f) = <<FALSE, s.initialRem>>
    BY <1>3, <1>6 DEF RuleStateText
  <2> QED
    BY <1>1, <1>3, <1>4, <2>1, <2>2, <2>3
<1> QED
  BY <1>5, <1>6

(* Refresh returns an entry for exactly the rules it changed, and for the  *)
(* budget exactly when it changed the budget, for all rules and budgets:   *)
(* the report compares texts, and no two states of a rule that differ in   *)
(* use have the same text.                                                 *)
THEOREM RefreshReportIsExact == Spec => RefreshReportsChanges
<1> DEFINE Exact ==
      /\ {e.id : e \in {x \in reply'.entries : x.what = "rule"}}
           = {rules[i].id : i \in {j \in DOMAIN rules : rules'[j] # rules[j]}}
      /\ [what |-> "spare", id |-> 0] \in reply'.entries
           <=> <<spareCount', spareBlockSize'>> # <<spareCount, spareBlockSize>>
<1>1. ASSUME TypeOK, RulesOK, [Next]_vars, reply'.kind = "refresh", reply' # reply
      PROVE  Exact
  <2>1. PICK skip \in BOOLEAN : Refresh(skip)
    <3>1. ASSUME reply'.kind \in {"none", "add", "delete", "check"} PROVE FALSE
      BY <1>1, <3>1
    <3> HIDE DEF Exact
    <3> QED
      BY <1>1, <3>1 DEF Next, vars, Add, Delete, Clear, SetSpareBlocks, SetProfile, SetSpeed, Void,
           Check, CheckPass, CheckPlain, CheckBadRead, CheckRewrite, CheckNoSpare, CheckHeal, Answer
  <2> DEFINE changed == {j \in DOMAIN rules : rules'[j] # rules[j]}
             E == RefreshEntries(skip)
  <2>2. /\ reply'.entries = E
        /\ \A j \in DOMAIN rules : rules'[j] = Fresh(rules[j])
        /\ spareCount' = initialSpareCount /\ spareBlockSize' = initialSpareBlockSize
    BY <2>1 DEF Refresh
  <2>3. changed = {j \in DOMAIN rules : RuleStateText(Fresh(rules[j])) # RuleStateText(rules[j])}
    BY <1>1, <2>2, TextTellsUse
  <2>4. {x \in E : x.what = "rule"} = {[what |-> "rule", id |-> rules[i].id] : i \in changed}
    BY <2>3 DEF RefreshEntries
  <2>5. {e.id : e \in {x \in E : x.what = "rule"}} = {rules[i].id : i \in changed}
    <3>1. \A i \in changed : [what |-> "rule", id |-> rules[i].id].id = rules[i].id
      OBVIOUS
    <3>2. {e.id : e \in {[what |-> "rule", id |-> rules[i].id] : i \in changed}}
            = {rules[i].id : i \in changed}
      BY <3>1, Zenon
    <3> QED
      BY <2>4, <3>2
  <2>6. [what |-> "spare", id |-> 0] \in E <=> SpareChanged
    <3>1. \A i \in DOMAIN rules : [what |-> "spare", id |-> 0] # [what |-> "rule", id |-> rules[i].id]
      OBVIOUS
    <3>2. [what |-> "spare", id |-> 0] # [what |-> "latency", id |-> 0]
      OBVIOUS
    <3> QED
      BY <3>1, <3>2 DEF RefreshEntries
  <2> QED
    BY <2>2, <2>5, <2>6 DEF SpareChanged
<1>2. TypeOK /\ RulesOK /\ [Next]_vars => (reply'.kind = "refresh" /\ reply' # reply => Exact)
  BY <1>1
<1> QED
  BY <1>2, RulesAlwaysOK, PTL DEF Spec, RefreshReportsChanges
=============================================================================
