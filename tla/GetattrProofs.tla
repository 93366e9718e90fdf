---------------------------- MODULE GetattrProofs ---------------------------
(***************************************************************************)
(* What bindfs shows of a file, proved in two parts.                       *)
(*                                                                         *)
(* The permission chain: LastRuleDecides for specifications of any length, *)
(* over any rules that do not name a kind of file without a class, and for *)
(* every mode.                                                             *)
(*                                                                         *)
(* getattr_common, which is a chain with steps of its own around it: the   *)
(* types, what is shown of a file that stays as it is, and what is never   *)
(* shown of one that is replaced meanwhile.                                *)
(***************************************************************************)
EXTENDS Getattr, TLAPS

AnyRule == Symbolic \cup Unfinished \cup Octal

(* A rule such as d-w, with d or f and no class, is left out.              *)
NamesClass(rule) ==
  rule.lhs \cap {"d", "f"} # {} => rule.lhs \cap {"u", "g", "o", "a"} # {}
ClassesNamed == \A rule \in Rule : NamesClass(rule)

(* What a rule makes of a bit that the rules before it left as given.      *)
Decided(rule, bit, mode, given) ==
  \/ bit \in Bit /\ Sets(rule, bit, mode)
  \/ given /\ (bit \in Bit => ~Clears(rule, bit, mode))

(* A permission bit is the pair of its class and its permission.           *)
LEMMA BitPair ==
  ASSUME NEW bit \in Bit
  PROVE  bit = <<bit[1], bit[2]>> /\ bit[1] \in Class /\ bit[2] \in Permission
BY DEF Bit

(* All makes a permission bit for every class.                             *)
LEMMA AllBits ==
  ASSUME NEW permissions \in SUBSET Permission, NEW bit \in Bit
  PROVE  bit \in All(permissions) <=> bit[2] \in permissions
BY BitPair DEF All, Bit

(* The fields of a rule.                                                   *)
LEMMA RuleFields ==
  ASSUME NEW rule \in AnyRule
  PROVE  /\ rule.lhs \in SUBSET Letter /\ rule.rhs \in SUBSET Operand
         /\ rule.octal \in SUBSET Bit
         /\ rule.op \in {"=", "+", "-", "none", "octal"}
         /\ rule.op = "octal" => rule.lhs = {}
BY DEF AnyRule, Symbolic, Unfinished, Octal

(* One letter on the right of a rule grants these bits.                    *)
GrantedBy(operand, bit, mode) ==
  \/ operand = bit[2]
  \/ bit[2] = "x" /\ operand = "D" /\ mode.dir
  \/ bit[2] = "x" /\ operand = "X" /\ (mode.dir \/ \E class \in Class : <<class, "x">> \in mode.bits)
  \/ operand \in Class /\ <<operand, bit[2]>> \in mode.bits

(* OperandBits, which works on all classes at once, agrees with it.        *)
LEMMA OperandGrants ==
  ASSUME NEW operand \in Operand, NEW bit \in Bit, NEW mode \in ModeType
  PROVE  bit \in OperandBits(operand, mode) <=> GrantedBy(operand, bit, mode)
<1>1. bit[1] \in Class /\ bit[2] \in Permission
  BY BitPair
<1>2. CASE operand \in Permission
  <2>1. OperandBits(operand, mode) = All({operand})
    BY <1>2 DEF OperandBits, Permission, Class
  <2>2. operand \notin Class /\ operand # "X" /\ operand # "D"
    BY <1>2 DEF Permission, Class
  <2>3. bit \in All({operand}) <=> bit[2] \in {operand}
    BY <1>2, AllBits
  <2> QED BY <2>1, <2>2, <2>3 DEF GrantedBy
<1>3. CASE operand = "X"
  <2>1. OperandBits(operand, mode) =
          IF mode.dir \/ mode.bits \cap All({"x"}) # {} THEN All({"x"}) ELSE {}
    BY <1>3 DEF OperandBits, Permission, Class
  <2>2. mode.bits \cap All({"x"}) # {} <=> \E class \in Class : <<class, "x">> \in mode.bits
    <3>1. All({"x"}) = {<<class, "x">> : class \in Class}
      BY DEF All
    <3> QED BY <3>1, Zenon
  <2>3. bit \in All({"x"}) <=> bit[2] = "x"
    BY AllBits DEF Permission
  <2>4. operand # bit[2] /\ operand \notin Class
    BY <1>1, <1>3 DEF Permission, Class
  <2> QED BY <1>3, <2>1, <2>2, <2>3, <2>4 DEF GrantedBy
<1>4. CASE operand = "D"
  <2>1. OperandBits(operand, mode) = IF mode.dir THEN All({"x"}) ELSE {}
    BY <1>4 DEF OperandBits, Permission, Class
  <2>2. bit \in All({"x"}) <=> bit[2] = "x"
    BY AllBits DEF Permission
  <2>3. operand # bit[2] /\ operand \notin Class
    BY <1>1, <1>4 DEF Permission, Class
  <2> QED BY <1>4, <2>1, <2>2, <2>3 DEF GrantedBy
<1>5. CASE operand \in {"s", "t"}
  <2>1. OperandBits(operand, mode) = {}
    BY <1>5 DEF OperandBits, Permission, Class
  <2>2. operand # bit[2] /\ operand \notin Class /\ operand # "X" /\ operand # "D"
    BY <1>1, <1>5 DEF Permission, Class
  <2> QED BY <2>1, <2>2 DEF GrantedBy
<1>6. CASE operand \in Class
  <2>1. OperandBits(operand, mode) = All({p \in Permission : <<operand, p>> \in mode.bits})
    BY <1>6 DEF OperandBits, Permission, Class
  <2>2. bit \in All({p \in Permission : <<operand, p>> \in mode.bits})
          <=> <<operand, bit[2]>> \in mode.bits
    <3> DEFINE P == {p \in Permission : <<operand, p>> \in mode.bits}
    <3>1. P \in SUBSET Permission /\ (bit[2] \in P <=> <<operand, bit[2]>> \in mode.bits)
      BY <1>1
    <3> HIDE DEF P
    <3>2. bit \in All(P) <=> bit[2] \in P
      BY <3>1, AllBits
    <3> QED BY <3>1, <3>2 DEF P
  <2>3. operand # bit[2] /\ operand # "X" /\ operand # "D"
    BY <1>1, <1>6 DEF Permission, Class
  <2> QED BY <1>6, <2>1, <2>2, <2>3 DEF GrantedBy
<1> QED BY <1>2, <1>3, <1>4, <1>5, <1>6 DEF Operand

(* The right side of a rule as a whole.                                    *)
LEMMA RuleGrants ==
  ASSUME NEW rule \in AnyRule, NEW bit \in Bit, NEW mode \in ModeType
  PROVE  Grants(rule, bit, mode) <=> \E operand \in rule.rhs : bit \in OperandBits(operand, mode)
<1>1. rule.rhs \subseteq Operand
  BY RuleFields
<1>2. Grants(rule, bit, mode) <=> \E operand \in rule.rhs : GrantedBy(operand, bit, mode)
  BY <1>1 DEF Grants, GrantedBy
<1> QED BY <1>1, <1>2, OperandGrants

(* The left side of a rule: its mask has the bits of the classes it names. *)
LEMMA MaskNames ==
  ASSUME NEW rule \in AnyRule, NamesClass(rule), NEW bit \in Bit
  PROVE  bit \in Mask(rule.lhs) <=> Names(rule, bit)
<1>1. bit = <<bit[1], bit[2]>> /\ bit[1] \in Class /\ bit[2] \in Permission
  BY BitPair
<1>2. rule.lhs \in SUBSET Letter
  BY RuleFields
<1>3. CASE rule.lhs = {} \/ "a" \in rule.lhs
  <2>1. Mask(rule.lhs) = Bit
    BY <1>3 DEF Mask
  <2> QED BY <1>3, <2>1 DEF Names
<1>4. CASE ~(rule.lhs = {} \/ "a" \in rule.lhs)
  <2>1. bit \in Mask(rule.lhs) <=> bit[1] \in rule.lhs
    BY <1>1, <1>4 DEF Mask
  <2>2. rule.lhs \cap {"u", "g", "o", "a"} # {}
    <3>1. PICK letter \in rule.lhs : letter \in Letter
      BY <1>2, <1>4
    <3> QED BY <3>1 DEF NamesClass, Letter, Class
  <2> QED BY <1>4, <2>1, <2>2 DEF Names
<1> QED BY <1>3, <1>4

(* Which files a rule applies to.                                          *)
LEMMA RuleApplies ==
  ASSUME NEW rule \in AnyRule, NEW mode \in ModeType
  PROVE  AppliesTo(Parsed(rule), mode) <=> rule.op # "none" /\ ForThisKind(rule, mode)
<1>1. Parsed(rule).op = rule.op /\ Parsed(rule).flags = Flags(rule.lhs)
  BY DEF Parsed
<1>2. (IF mode.dir THEN "d" ELSE "f") \in Flags(rule.lhs) <=> ForThisKind(rule, mode)
  BY DEF Flags, ForThisKind
<1> QED BY <1>1, <1>2 DEF AppliesTo

(* Applied to a mode, the link of a rule makes of each bit what the rule   *)
(* decides for it.                                                         *)
Result(link, original, target) ==
  IF AppliesTo(link, target) THEN Applied(link, original, target) ELSE target.bits
LEMMA LinkDecides ==
  ASSUME NEW rule \in AnyRule, NamesClass(rule),
         NEW mode \in ModeType, NEW target \in ModeType, target.dir = mode.dir,
         NEW bit \in Bit \cup Special
  PROVE  bit \in Result(Parsed(rule), mode, target) <=> Decided(rule, bit, mode, bit \in target.bits)
<1> DEFINE link == Parsed(rule)
           granted == ModeOf(link, mode, target)
<1>1. /\ link.op = rule.op /\ link.as_operands = rule.rhs /\ link.as_octal = rule.octal
      /\ rule.op # "none" => link.mask = Mask(rule.lhs)
  BY DEF Parsed
<1>2. /\ rule.op \in {"=", "+", "-", "none", "octal"} /\ rule.octal \subseteq Bit
      /\ rule.op = "octal" => rule.lhs = {}
  BY RuleFields
<1>3. AppliesTo(link, target) <=> rule.op # "none" /\ ForThisKind(rule, mode)
  <2>1. ForThisKind(rule, target) <=> ForThisKind(rule, mode)
    BY DEF ForThisKind
  <2> QED BY <2>1, RuleApplies
<1>4. Mask(rule.lhs) \subseteq Bit
  BY DEF Mask, Bit
<1>5. bit \in Bit /\ rule.op # "none" =>
        (bit \in granted <=> Names(rule, bit) /\ Grants(rule, bit, mode))
  <2> SUFFICES ASSUME bit \in Bit, rule.op # "none"
               PROVE  bit \in granted <=> Names(rule, bit) /\ Grants(rule, bit, mode)
    OBVIOUS
  <2>1. granted = (UNION {OperandBits(operand, mode) : operand \in rule.rhs}) \cap Mask(rule.lhs)
    BY <1>1 DEF ModeOf
  <2>2. bit \in UNION {OperandBits(operand, mode) : operand \in rule.rhs}
          <=> \E operand \in rule.rhs : bit \in OperandBits(operand, mode)
    OBVIOUS
  <2> HIDE DEF granted
  <2> QED BY <2>1, <2>2, RuleGrants, MaskNames
<1>6. rule.op # "none" => granted \subseteq Mask(rule.lhs)
  BY <1>1 DEF ModeOf
<1>7. bit \in Bit /\ rule.op # "none" => (bit \in link.mask <=> Names(rule, bit))
  BY <1>1, MaskNames
<1>8. rule.op = "octal" => ForThisKind(rule, mode)
  BY <1>2 DEF ForThisKind
<1>9. Applied(link, mode, target) =
        CASE rule.op = "="     -> (target.bits \ link.mask) \cup granted
          [] rule.op = "+"     -> target.bits \cup granted
          [] rule.op = "-"     -> target.bits \ granted
          [] rule.op = "octal" -> (target.bits \ Bit) \cup rule.octal
  BY <1>1 DEF Applied
<1>10. Result(link, mode, target) =
         IF AppliesTo(link, target) THEN Applied(link, mode, target) ELSE target.bits
  BY DEF Result
<1> HIDE DEF link, granted
<1>11. CASE ~AppliesTo(link, target)
  <2>1. Result(link, mode, target) = target.bits
    BY <1>10, <1>11
  <2>2. rule.op = "none" \/ (rule.op # "octal" /\ ~ForThisKind(rule, mode))
    BY <1>3, <1>8, <1>11
  <2>3. ~Sets(rule, bit, mode) /\ ~Clears(rule, bit, mode)
    BY <2>2 DEF Sets, Clears
  <2> QED BY <2>1, <2>3 DEF Decided, link
<1>12. CASE AppliesTo(link, target)
  <2>0. Result(link, mode, target) = Applied(link, mode, target) /\ ForThisKind(rule, mode)
        /\ rule.op \in {"=", "+", "-", "octal"}
    BY <1>2, <1>3, <1>10, <1>12
  <2>1. CASE rule.op = "="
    <3>1. Applied(link, mode, target) = (target.bits \ link.mask) \cup granted
      BY <1>9, <2>1
    <3>2. Sets(rule, bit, mode) <=> Names(rule, bit) /\ Grants(rule, bit, mode)
      BY <2>0, <2>1 DEF Sets
    <3>3. Clears(rule, bit, mode) <=> Names(rule, bit) /\ ~Grants(rule, bit, mode)
      BY <2>0, <2>1 DEF Clears
    <3> QED BY <1>1, <1>4, <1>5, <1>6, <1>7, <2>0, <2>1, <3>1, <3>2, <3>3 DEF Decided, link
  <2>2. CASE rule.op = "+"
    <3>1. Applied(link, mode, target) = target.bits \cup granted
      BY <1>9, <2>2
    <3>2. Sets(rule, bit, mode) <=> Names(rule, bit) /\ Grants(rule, bit, mode)
      BY <2>0, <2>2 DEF Sets
    <3>3. ~Clears(rule, bit, mode)
      BY <2>0, <2>2 DEF Clears
    <3> QED BY <1>4, <1>5, <1>6, <2>0, <2>2, <3>1, <3>2, <3>3 DEF Decided, link
  <2>3. CASE rule.op = "-"
    <3>1. Applied(link, mode, target) = target.bits \ granted
      BY <1>9, <2>3
    <3>2. ~Sets(rule, bit, mode)
      BY <2>0, <2>3 DEF Sets
    <3>3. Clears(rule, bit, mode) <=> Names(rule, bit) /\ Grants(rule, bit, mode)
      BY <2>0, <2>3 DEF Clears
    <3> QED BY <1>4, <1>5, <1>6, <2>0, <2>3, <3>1, <3>2, <3>3 DEF Decided, link
  <2>4. CASE rule.op = "octal"
    <3>1. Applied(link, mode, target) = (target.bits \ Bit) \cup rule.octal
      BY <1>9, <2>4
    <3>2. Sets(rule, bit, mode) <=> bit \in rule.octal
      BY <2>4 DEF Sets
    <3>3. Clears(rule, bit, mode) <=> bit \notin rule.octal
      BY <2>4 DEF Clears
    <3> QED BY <1>2, <2>0, <3>1, <3>2, <3>3 DEF Decided, link
  <2> QED BY <2>0, <2>1, <2>2, <2>3, <2>4
<1> QED BY <1>11, <1>12

(* The reference for one rule more.                                        *)
LEMMA ExpectedNext ==
  ASSUME NEW bit, NEW n \in Nat, NEW mode
  PROVE  Expected(bit, n + 1, mode) <=> Decided(spec[n + 1], bit, mode, Expected(bit, n, mode))
<1>1. 1..(n + 1) = (1..n) \cup {n + 1}
  OBVIOUS
<1>2. \A i \in 1..n : (i + 1)..(n + 1) = ((i + 1)..n) \cup {n + 1}
  OBVIOUS
<1>3. ((n + 1) + 1)..(n + 1) = {}
  OBVIOUS
<1> QED BY <1>1, <1>2, <1>3 DEF Expected, Decided

(* A rule touches permission bits only.                                    *)
LEMMA ResultBits ==
  ASSUME NEW rule \in AnyRule, NEW mode \in ModeType, NEW target \in ModeType
  PROVE  Result(Parsed(rule), mode, target) \subseteq Bit \cup Special
<1> DEFINE link == Parsed(rule)
           granted == ModeOf(link, mode, target)
<1>1. link.op = rule.op /\ link.as_octal \subseteq Bit /\ link.mask \subseteq Bit
  BY RuleFields DEF Parsed, Mask, Bit
<1>2. granted \subseteq Bit
  BY <1>1 DEF ModeOf
<1>3. target.bits \subseteq Bit \cup Special
  BY DEF ModeType
<1>4. link.op # "none" => link.op \in {"=", "+", "-", "octal"}
  BY <1>1, RuleFields
<1>5. link.op # "none" => Applied(link, mode, target) \subseteq Bit \cup Special
  <2> HIDE DEF link
  <2> QED BY <1>1, <1>2, <1>3, <1>4 DEF Applied
<1> QED BY <1>3, <1>5 DEF Result, AppliesTo
-----------------------------------------------------------------------------
(* The chain of the settings is the specification, rule for rule, once the *)
(* whole of it has been read; until then it is empty.                      *)
Chain == [i \in 1..Len(spec) |-> Parsed(spec[i])]

ChainInv ==
  /\ spec \in Seq(Rule)
  /\ phase \in {"parsing", "parsed", "invalid", "applying"}
  /\ phase = "parsing" => newpc = Chain /\ permchain = <<>>
  /\ phase = "invalid" => permchain = <<>>
  /\ phase \in {"parsed", "applying"} => permchain = Chain

(* One rule more is one link more.                                         *)
LEMMA ChainAppend ==
  ASSUME NEW s \in Seq(Rule), NEW rule \in Rule
  PROVE  [i \in 1..Len(Append(s, rule)) |-> Parsed(Append(s, rule)[i])]
           = Append([i \in 1..Len(s) |-> Parsed(s[i])], Parsed(rule))
<1> DEFINE old == [i \in 1..Len(s) |-> Parsed(s[i])]
           new == [i \in 1..Len(Append(s, rule)) |-> Parsed(Append(s, rule)[i])]
           Links == {Parsed(r) : r \in Rule}
<1>1. old \in Seq(Links) /\ Len(old) = Len(s)
  OBVIOUS
<1>2. Len(Append(s, rule)) = Len(s) + 1 /\ Append(s, rule) \in Seq(Rule)
  OBVIOUS
<1>3. new \in Seq(Links) /\ Len(new) = Len(s) + 1
  BY <1>2
<1>4. Append(old, Parsed(rule)) \in Seq(Links) /\ Len(Append(old, Parsed(rule))) = Len(s) + 1
  BY <1>1
<1>5. \A i \in 1..(Len(s) + 1) : new[i] = Append(old, Parsed(rule))[i]
  OBVIOUS
<1> HIDE DEF old, new, Links
<1>6. new = Append(old, Parsed(rule))
  BY <1>3, <1>4, <1>5
<1> QED BY <1>6 DEF old, new

(* Every step keeps the chain.                                             *)
LEMMA ChainStep == ChainInv /\ [Next]_vars => ChainInv'
<1> SUFFICES ASSUME ChainInv, [Next]_vars PROVE ChainInv'
  OBVIOUS
<1>1. CASE add_rule
  <2>1. PICK rule \in Rule : newpc' = Append(newpc, Parsed(rule)) /\ spec' = Append(spec, rule)
    BY <1>1 DEF add_rule
  <2>2. newpc' = Chain'
    BY <1>1, <2>1, ChainAppend, Zenon DEF ChainInv, Chain, add_rule
  <2> QED BY <1>1, <2>1, <2>2 DEF ChainInv, add_rule
<1>2. CASE permchain_cat
  <2>1. permchain = <<>> /\ newpc = Chain /\ permchain' = permchain \o newpc /\ Chain' = Chain
    BY <1>2 DEF ChainInv, permchain_cat, Chain
  <2>2. <<>> \o Chain = Chain
    <3>1. Chain \in Seq({Parsed(r) : r \in Rule})
      BY DEF ChainInv, Chain
    <3> QED BY <3>1
  <2> QED BY <1>2, <2>1, <2>2 DEF ChainInv, permchain_cat
<1>3. CASE syntax_error
  BY <1>3 DEF ChainInv, syntax_error
<1>4. CASE permchain_apply
  BY <1>4 DEF ChainInv, Chain, permchain_apply
<1>5. CASE ApplyLink
  BY <1>5 DEF ChainInv, Chain, ApplyLink
<1>6. CASE ReturnMode
  BY <1>6 DEF ChainInv, Chain, ReturnMode
<1>7. CASE UNCHANGED vars
  BY <1>7 DEF ChainInv, Chain, vars
<1> QED BY <1>1, <1>2, <1>3, <1>4, <1>5, <1>6, <1>7 DEF Next

(* The chain at the start is the empty one.                                *)
LEMMA ChainInit == Init => ChainInv
<1> SUFFICES ASSUME Init PROVE ChainInv
  OBVIOUS
<1>1. Chain = <<>>
  BY DEF Init, Chain
<1> QED BY <1>1 DEF Init, ChainInv

(* A specification is taken whole or not at all: an error after valid      *)
(* rules leaves the chain of the settings empty (add_chmod_rules_to_       *)
(* permchain frees newpc and never reaches permchain_cat).                 *)
THEOREM SpecificationWhole == Spec => []WholeOrNothing
<1>1. ChainInv => WholeOrNothing
  BY DEF ChainInv, WholeOrNothing, Chain
<1> QED BY <1>1, ChainInit, ChainStep, PTL DEF Spec
-----------------------------------------------------------------------------
(* While the chain is applied: the position is in it, the modes are modes  *)
(* of one kind of file, and every bit is what the rules so far say.        *)
ApplyInv ==
  /\ ChainInv
  /\ phase = "applying" =>
       /\ original_mode \in ModeType /\ tgtmode \in ModeType
       /\ pos \in 1..(Len(spec) + 1)
  /\ LastRuleDecides

(* The first rule finds the mode of the file.                              *)
LEMMA ApplyStart ==
  ASSUME ApplyInv, permchain_apply, ClassesNamed
  PROVE  ApplyInv'
<1>1. PICK mode \in Mode : original_mode' = mode /\ tgtmode' = mode
  BY DEF permchain_apply
<1>2. mode \in ModeType /\ mode.bits \subseteq Bit \cup Special
  BY PermChainAssumption DEF ModeType
<1>3. \A bit : Expected(bit, 0, mode)' <=> bit \in mode.bits
  BY DEF Expected
<1>4. phase' = "applying" /\ pos' = 1 /\ spec' = spec /\ Len(spec) \in Nat
  BY DEF permchain_apply, ApplyInv, ChainInv
<1>5. LastRuleDecides'
  BY <1>1, <1>2, <1>3, <1>4 DEF LastRuleDecides
<1>6. ChainInv'
  BY ChainStep DEF ApplyInv, Next
<1> QED BY <1>1, <1>2, <1>4, <1>5, <1>6 DEF ApplyInv

(* The next rule keeps every bit at what the rules so far say.             *)
LEMMA ApplyNext ==
  ASSUME ApplyInv, ApplyLink, ClassesNamed
  PROVE  ApplyInv'
<1> DEFINE rule == spec[pos]
           link == permchain[pos]
           new == Result(link, original_mode, tgtmode)
<1>1. /\ phase = "applying" /\ phase' = "applying"
      /\ spec' = spec /\ original_mode' = original_mode /\ pos' = pos + 1
  BY DEF ApplyLink
<1>2. /\ spec \in Seq(Rule) /\ permchain = Chain /\ Len(permchain) = Len(spec)
      /\ pos \in 1..Len(spec) /\ Len(spec) \in Nat
  BY <1>1 DEF ApplyInv, ChainInv, Chain, ApplyLink
<1>3. rule \in Rule /\ rule \in AnyRule /\ link = Parsed(rule)
  BY <1>2, PermChainAssumption DEF Chain, AnyRule
<1>4. NamesClass(rule)
  BY <1>3 DEF ClassesNamed
<1>5. /\ original_mode \in ModeType /\ tgtmode \in ModeType /\ tgtmode.dir = original_mode.dir
      /\ tgtmode.bits = {bit \in Bit \cup Special : Expected(bit, pos - 1, original_mode)}
  BY <1>1 DEF ApplyInv, LastRuleDecides
<1>6. tgtmode'.dir = tgtmode.dir /\ tgtmode'.bits = new /\ tgtmode' \in ModeType
  <2>1. new \subseteq Bit \cup Special
    BY <1>3, <1>5, ResultBits
  <2>2. tgtmode.dir \in BOOLEAN
    BY <1>5 DEF ModeType
  <2>3. CASE AppliesTo(link, tgtmode)
    <3>1. tgtmode' = [dir |-> tgtmode.dir, bits |-> new]
      BY <2>3 DEF ApplyLink, Result
    <3> HIDE DEF new
    <3> QED BY <2>1, <2>2, <3>1 DEF ModeType
  <2>4. CASE ~AppliesTo(link, tgtmode)
    <3>1. tgtmode' = tgtmode /\ new = tgtmode.bits
      BY <2>4 DEF ApplyLink, Result
    <3> QED BY <1>5, <3>1
  <2> QED BY <2>3, <2>4
<1> HIDE DEF rule, link, new
<1>7. \A bit \in Bit \cup Special :
        bit \in new <=> Expected(bit, pos, original_mode)
  <2> SUFFICES ASSUME NEW bit \in Bit \cup Special
               PROVE  bit \in new <=> Expected(bit, pos, original_mode)
    OBVIOUS
  <2>1. bit \in new <=> Decided(rule, bit, original_mode, bit \in tgtmode.bits)
    BY <1>3, <1>4, <1>5, LinkDecides DEF new
  <2>2. bit \in tgtmode.bits <=> Expected(bit, pos - 1, original_mode)
    BY <1>5
  <2>3. pos - 1 \in Nat /\ (pos - 1) + 1 = pos
    BY <1>2
  <2>4. Expected(bit, pos, original_mode)
          <=> Decided(rule, bit, original_mode, Expected(bit, pos - 1, original_mode))
    <3>1. Expected(bit, (pos - 1) + 1, original_mode)
            <=> Decided(spec[(pos - 1) + 1], bit, original_mode, Expected(bit, pos - 1, original_mode))
      BY <2>3, ExpectedNext
    <3> QED BY <2>3, <3>1 DEF rule
  <2> QED BY <2>1, <2>2, <2>4 DEF Decided
<1>8. \A bit : Expected(bit, pos - 1, original_mode)' <=> Expected(bit, pos, original_mode)
  <2>1. pos' - 1 = pos
    BY <1>1, <1>2
  <2> QED BY <1>1, <2>1 DEF Expected
<1>9. new \subseteq Bit \cup Special
  BY <1>3, <1>5, ResultBits DEF new
<1>10. LastRuleDecides'
  <2>1. tgtmode'.bits = {bit \in Bit \cup Special : Expected(bit, pos - 1, original_mode)'}
    BY <1>6, <1>7, <1>8, <1>9
  <2>2. tgtmode'.dir = original_mode'.dir
    BY <1>1, <1>5, <1>6
  <2> QED BY <2>1, <2>2 DEF LastRuleDecides
<1>11. ChainInv'
  BY ChainStep DEF ApplyInv, Next
<1>12. pos' \in 1..(Len(spec') + 1)
  BY <1>1, <1>2
<1> QED BY <1>1, <1>5, <1>6, <1>10, <1>11, <1>12 DEF ApplyInv

(* Every step keeps the invariant.                                         *)
LEMMA ApplyStep == ClassesNamed /\ ApplyInv /\ [Next]_vars => ApplyInv'
<1> SUFFICES ASSUME ClassesNamed, ApplyInv, [Next]_vars PROVE ApplyInv'
  OBVIOUS
<1>1. ChainInv'
  BY ChainStep DEF ApplyInv
<1>2. CASE phase' # "applying"
  BY <1>1, <1>2 DEF ApplyInv, LastRuleDecides
<1>3. CASE permchain_apply
  BY <1>3, ApplyStart
<1>4. CASE ApplyLink
  BY <1>4, ApplyNext
<1>5. CASE UNCHANGED vars
  <2>1. \A bit : Expected(bit, pos - 1, original_mode)' <=> Expected(bit, pos - 1, original_mode)
    BY <1>5 DEF vars, applying, Expected
  <2> QED BY <1>1, <1>5, <2>1 DEF ApplyInv, LastRuleDecides, vars, applying
<1>6. add_rule \/ permchain_cat \/ syntax_error \/ ReturnMode => phase' # "applying"
  BY DEF add_rule, permchain_cat, syntax_error, ReturnMode
<1> QED BY <1>2, <1>3, <1>4, <1>5, <1>6 DEF Next

(* For a specification of any length and a file of any mode, and after     *)
(* each rule, permchain_apply has computed what the last rule that decides *)
(* a bit says, reading letters on the right from the original mode; rules  *)
(* that name a kind of file and no class are left out (run                 *)
(* PermChainKind.cfg shows what those do).                                 *)
THEOREM RulesApplyInOrder == ClassesNamed /\ Spec => []LastRuleDecides
<1>1. Init => ApplyInv
  BY ChainInit DEF Init, ApplyInv, LastRuleDecides
<1>2. ApplyInv => LastRuleDecides
  BY DEF ApplyInv
<1>3. ASSUME ClassesNamed PROVE Spec => []LastRuleDecides
  <2>1. ApplyInv /\ [Next]_vars => ApplyInv'
    BY <1>3, ApplyStep
  <2> QED BY <1>1, <1>2, <2>1, PTL DEF Spec
<1> QED BY <1>3
-----------------------------------------------------------------------------
(* Every rule becomes a link.                                              *)
LEMMA ParsedLink ==
  ASSUME NEW rule \in AnyRule
  PROVE  Parsed(rule) \in Link
<1>1. Mask(rule.lhs) \subseteq Bit
  BY DEF Mask, Bit
<1>2. Flags(rule.lhs) \subseteq {"f", "d"}
  BY DEF Flags
<1>3. /\ rule.op \in {"=", "+", "-", "none", "octal"}
      /\ rule.rhs \subseteq Operand /\ rule.octal \subseteq Bit
  BY RuleFields
<1> QED BY <1>1, <1>2, <1>3 DEF Parsed, Link

(* A link leaves a mode a mode.                                            *)
LEMMA AppliedMode ==
  ASSUME NEW link \in Link, NEW mode, NEW target \in ModeType, link.op # "none"
  PROVE  [dir |-> target.dir, bits |-> Applied(link, mode, target)] \in ModeType
<1>1. /\ link.op \in {"=", "+", "-", "octal"}
      /\ link.mask \subseteq Bit /\ link.as_octal \subseteq Bit
  BY DEF Link
<1>2. target.dir \in BOOLEAN /\ target.bits \subseteq Bit \cup Special
  BY DEF ModeType
<1>3. ModeOf(link, mode, target) \subseteq Bit
  BY <1>1 DEF ModeOf
<1>4. Applied(link, mode, target) \subseteq Bit \cup Special
  BY <1>1, <1>2, <1>3 DEF Applied
<1> QED BY <1>2, <1>4 DEF ModeType

(* The types of the chain; the rules are counted from 1.                   *)
ChainTyped == TypeOK /\ (phase = "applying" => pos # 0)

(* Every step keeps them.                                                  *)
LEMMA ChainTypes == ChainTyped /\ [Next]_vars => ChainTyped'
<1> SUFFICES ASSUME ChainTyped, [Next]_vars PROVE ChainTyped'
  OBVIOUS
<1> USE DEF ChainTyped, TypeOK
<1>0. NoMode \in ModeType
  BY DEF NoMode, ModeType
<1>1. CASE add_rule
  <2>1. PICK rule \in Rule : newpc' = Append(newpc, Parsed(rule)) /\ spec' = Append(spec, rule)
    BY <1>1 DEF add_rule
  <2>2. rule \in AnyRule
    BY PermChainAssumption DEF AnyRule
  <2>3. newpc' \in Seq(Link) /\ spec' \in Seq(AnyRule)
    BY <2>1, <2>2, ParsedLink DEF AnyRule
  <2> QED BY <1>1, <2>3 DEF add_rule, applying, AnyRule
<1>2. CASE permchain_cat
  BY <1>2 DEF permchain_cat, applying
<1>3. CASE syntax_error
  BY <1>3 DEF syntax_error, applying
<1>4. CASE permchain_apply
  BY <1>4, PermChainAssumption DEF permchain_apply
<1>5. CASE ApplyLink
  <2>1. permchain[pos] \in Link
    BY <1>5 DEF ApplyLink
  <2>2. tgtmode' \in ModeType
    BY <1>5, <2>1, AppliedMode DEF ApplyLink, AppliesTo
  <2> QED BY <1>5, <2>2 DEF ApplyLink
<1>6. CASE ReturnMode
  BY <1>0, <1>6 DEF ReturnMode
<1>7. CASE UNCHANGED vars
  BY <1>7 DEF vars, applying
<1> QED BY <1>1, <1>2, <1>3, <1>4, <1>5, <1>6, <1>7 DEF Next
-----------------------------------------------------------------------------
Lists == {<<>>, <<"x">>, <<"w", "x">>, <<"r", "w", "x">>}
Stages == {"idle", "getattr_common", "open", "permissions", "permchain_apply", "access", "done"}
StatType ==
  [ type : Type, bits : SUBSET (Bit \cup Special), nlink : Nat,
    mappable : BOOLEAN, owner : {"mapped", "caller"} ]

(* During a request: its locals have their types, the file in the source   *)
(* directory is among those seen, and a caller who is shut out gets no     *)
(* further than getattr_common.                                            *)
AttrInv ==
  /\ AttrTypeOK /\ ChainTyped
  /\ pc \in Stages
  /\ checks \in Lists
  /\ pc # "idle" => phase # "parsing" /\ st \in StatType /\ file \in seen /\ seen \subseteq File
  /\ pc \in {"open", "permissions", "permchain_apply", "access"} => ~ShutOut

(* Every step of a request is a step of the chain or leaves it alone.      *)
LEMMA ChainSteps == [AttrNext]_allvars => [Next]_vars
<1> USE DEF vars, chain
<1>1. Parse => Next
  BY DEF Parse, Next
<1>2. ASSUME NEW c \in Caller, lstat(c) PROVE UNCHANGED vars
  BY <1>2 DEF lstat
<1>3. getattr_common \/ BlockSize \/ access \/ Reply => UNCHANGED vars
  BY DEF getattr_common, BlockSize, access, Reply
<1>4. StartChain => Next \/ UNCHANGED vars
  BY DEF StartChain, Next
<1>5. ChainLink \/ EndChain => Next
  BY DEF ChainLink, EndChain, Next
<1>6. ASSUME NEW f \in File, Replace(f) PROVE UNCHANGED vars
  BY <1>6 DEF Replace
<1>7. UNCHANGED allvars => UNCHANGED vars
  BY DEF allvars
<1> QED BY <1>1, <1>2, <1>3, <1>4, <1>5, <1>6, <1>7 DEF AttrNext
(* A block device shown as a file: S_IFBLK ^ S_IFBLK ^ S_IFREG.            *)
LEMMA BlockToFile == SymmetricDifference(S_IFBLK, S_IFBLK \cup S_IFREG) = S_IFREG
BY DEF SymmetricDifference, S_IFBLK, S_IFREG

(* The first step of getattr_common keeps the types.                       *)
LEMMA CommonTypes ==
  ASSUME AttrInv, getattr_common
  PROVE  st' \in StatType
<1> DEFINE owned == IF Mirrored THEN [st EXCEPT !.owner = "caller"] ELSE st
<1>1. st \in StatType
  BY DEF AttrInv, getattr_common
<1>2. owned \in StatType /\ owned.type = st.type
  BY <1>1 DEF StatType
<1> HIDE DEF owned
<1>3. CASE ~st.mappable
  BY <1>1, <1>3 DEF getattr_common
<1>4. CASE st.mappable /\ ShutOut
  <2>1. st' = [owned EXCEPT !.bits = @ \ Bit]
    BY <1>4 DEF getattr_common, owned
  <2> QED BY <1>2, <2>1 DEF StatType
<1>5. CASE st.mappable /\ ~ShutOut
  <2> DEFINE block == settings.block_devices_as_files /\ st.type = S_IFBLK
             type == IF block THEN SymmetricDifference(owned.type, S_IFBLK \cup S_IFREG) ELSE owned.type
             nlink == IF settings.hide_hard_links THEN 1 ELSE owned.nlink
  <2>1. st' = [owned EXCEPT !.nlink = nlink, !.type = type]
    BY <1>2, <1>5 DEF getattr_common, owned, StatType
  <2>2. type \in Type
    BY <1>2, BlockToFile DEF StatType, Type
  <2>3. nlink \in Nat
    BY <1>2 DEF StatType
  <2> HIDE DEF type, nlink
  <2> QED BY <1>2, <2>1, <2>2, <2>3, Zenon DEF StatType
<1> QED BY <1>3, <1>4, <1>5

(* Every step keeps the invariant.                                         *)
LEMMA AttrStep == AttrInv /\ [AttrNext]_allvars => AttrInv'
<1> SUFFICES ASSUME AttrInv, [AttrNext]_allvars PROVE AttrInv'
  OBVIOUS
<1>0. ChainTyped'
  BY ChainSteps, ChainTypes DEF AttrInv
<1>a. TypeOK' /\ ChainTyped'
  BY <1>0 DEF ChainTyped
<1> USE DEF AttrInv, AttrTypeOK, ShutOut, Mirrored
<1>1. CASE Parse
  <2>1. phase = "parsing" /\ phase' # "applying"
    BY <1>1 DEF Parse, add_rule, permchain_cat, syntax_error
  <2> QED BY <1>a, <1>1, <2>1 DEF Parse, request
<1>2. ASSUME NEW c \in Caller, lstat(c) PROVE AttrInv'
  <2>1. file \in FileType
    BY GetattrAssumption
  <2>2. st' \in StatType /\ seen' = {file} /\ file' = file
    BY <1>2, <2>1 DEF lstat, FileType, StatType
  <2> QED BY <1>a, <1>2, <2>2 DEF lstat, Goto, chain, Stages, StatType
<1>3. CASE getattr_common
  <2>1. st' \in StatType
    BY <1>3, CommonTypes
  <2>2. pc' \in {"open", "permissions", "done"} /\ (pc' # "done" => ~ShutOut)
    BY <1>3 DEF getattr_common, Goto, Return
  <2> QED BY <1>a, <1>3, <2>1, <2>2 DEF getattr_common, FileKept, chain, Stages, StatType
<1>4. CASE BlockSize
  BY <1>a, <1>4 DEF BlockSize, Goto, Return, FileKept, chain, Stages, StatType
<1>5. CASE StartChain
  <2>1. CASE HasPermissions(st.type)
    BY <1>a, <1>5, <2>1 DEF StartChain, permchain_apply, Goto, FileKept, Stages, StatType
  <2>2. CASE ~HasPermissions(st.type)
    BY <1>a, <1>5, <2>2 DEF StartChain, Goto, Return, FileKept, chain, Stages, StatType
  <2> QED BY <2>1, <2>2
<1>6. CASE ChainLink
  BY <1>a, <1>6 DEF ChainLink, ApplyLink, request
<1>7. CASE EndChain
  <2>1. tgtmode.bits \subseteq Bit \cup Special
    BY <1>7 DEF ChainTyped, TypeOK, ModeType
  <2>2. st' \in StatType
    BY <1>7, <2>1 DEF EndChain, Goto, Return, StatType
  <2> QED BY <1>a, <1>7, <2>2 DEF EndChain, ReturnMode, Goto, Return, FileKept, Stages, StatType, Lists
<1>8. CASE access
  <2>1. st' \in StatType
    BY <1>8 DEF access, StatType
  <2>2. checks' \in Lists
    <3>1. Tail(<<"x">>) = <<>> /\ Tail(<<"w", "x">>) = <<"x">> /\ Tail(<<"r", "w", "x">>) = <<"w", "x">>
      OBVIOUS
    <3> QED BY <1>8, <3>1, Zenon DEF access, Lists
  <2> QED BY <1>a, <1>8, <2>1, <2>2 DEF access, Return, Goto, FileKept, chain, Stages, StatType
<1>9. CASE Reply
  BY <1>a, <1>9 DEF Reply, Goto, chain, Stages
<1>10. ASSUME NEW f \in File, Replace(f) PROVE AttrInv'
  BY <1>a, <1>10, GetattrAssumption DEF Replace, request, chain
<1>11. CASE UNCHANGED allvars
  BY <1>a, <1>11 DEF allvars, request, chain
<1> QED BY <1>1, <1>2, <1>3, <1>4, <1>5, <1>6, <1>7, <1>8, <1>9, <1>10, <1>11, Zenon DEF AttrNext

(* The initial states satisfy it.                                          *)
LEMMA AttrStart == AttrInit => AttrInv
<1>1. ASSUME Init PROVE TypeOK /\ ChainTyped
  BY <1>1 DEF Init, TypeOK, ChainTyped, NoMode, ModeType
<1> QED BY <1>1, GetattrAssumption DEF AttrInit, Init, AttrInv, AttrTypeOK, Stages, Lists

(* Types, and the program counter of the request agrees with the phase of  *)
(* the chain: permchain_apply runs exactly while getattr_common waits for  *)
(* it, and access is asked only after it.                                  *)
THEOREM AttributesTyped == AttrSpec => []AttrTypeOK
<1>1. AttrInv => AttrTypeOK
  BY DEF AttrInv
<1> QED BY <1>1, AttrStart, AttrStep, PTL DEF AttrSpec
-----------------------------------------------------------------------------
(* The permissions that access has been asked about when these are left.   *)
Checked(left) == Permission \ {left[i] : i \in 1..Len(left)}

(* Of those, none is left that access refused at the moment it was asked;  *)
(* checks of a request that has not come so far are not under way.         *)
PromiseInv ==
  /\ pc = "access" =>
       \A bit \in st.bits \cap Bit : bit[2] \in Checked(checks) => \E f \in seen : bit[2] \in f.access
  /\ NothingOverpromised

(* One call of access: the permission asked about joins those checked.     *)
LEMMA CheckedNext ==
  ASSUME NEW left \in Lists, left # <<>>
  PROVE  /\ Checked(Tail(left)) = Checked(left) \cup {Head(left)}
         /\ Head(left) \in Permission
<1>1. CASE left = <<"x">>
  BY <1>1 DEF Checked, Permission
<1>2. CASE left = <<"w", "x">>
  <2>1. Tail(left) = <<"x">> /\ Len(left) = 2 /\ Len(Tail(left)) = 1 /\ Head(left) = "w"
    BY <1>2
  <2> QED BY <1>2, <2>1 DEF Checked, Permission
<1>3. CASE left = <<"r", "w", "x">>
  <2>1. Tail(left) = <<"w", "x">> /\ Len(left) = 3 /\ Len(Tail(left)) = 2 /\ Head(left) = "r"
    BY <1>3
  <2> QED BY <1>3, <2>1 DEF Checked, Permission
<1> QED BY <1>1, <1>2, <1>3 DEF Lists

(* Nothing has been checked at first, everything at last.                  *)
LEMMA CheckedEnds == Checked(<<>>) = Permission /\ Checked(<<"r", "w", "x">>) = {}
<1>1. Checked(<<"r", "w", "x">>) = {}
  <2>1. Len(<<"r", "w", "x">>) = 3
    OBVIOUS
  <2> QED BY <2>1 DEF Checked, Permission
<1>2. Checked(<<>>) = Permission
  BY DEF Checked, Permission
<1> QED BY <1>1, <1>2

(* Only symlinks are without permissions of their own.                     *)
LEMMA LinkBits ==
  ASSUME NEW type \in Type
  PROVE  HasPermissions(type) <=> type # S_IFLNK
BY DEF HasPermissions, Type, S_IFLNK, S_IFDIR, S_IFBLK, S_IFREG, S_IFSOCK

(* Every step keeps the promise.                                           *)
LEMMA PromiseStep == AttrInv /\ PromiseInv /\ [AttrNext]_allvars => PromiseInv'
<1> SUFFICES ASSUME AttrInv, PromiseInv, [AttrNext]_allvars PROVE PromiseInv'
  OBVIOUS
<1> USE DEF PromiseInv, NothingOverpromised
<1>0. ASSUME UNCHANGED <<settings, request>>, seen \subseteq seen' PROVE PromiseInv'
  BY <1>0 DEF request, ShutOut, Mirrored
<1>1. CASE Parse
  BY <1>0, <1>1 DEF Parse
<1>2. ASSUME NEW c \in Caller, lstat(c) PROVE PromiseInv'
  BY <1>2 DEF lstat, Goto
<1>3. CASE getattr_common
  <2>1. pc' # "access" /\ settings' = settings /\ caller' = caller
    BY <1>3 DEF getattr_common, Goto, Return, FileKept
  <2>2. CASE pc' = "done" /\ ret' = OK
    <3>1. /\ st.mappable /\ ShutOut
          /\ st' = [IF Mirrored THEN [st EXCEPT !.owner = "caller"] ELSE st EXCEPT !.bits = @ \ Bit]
      BY <1>3, <2>2 DEF getattr_common, Goto, Return, OK
    <3>2. st'.bits \cap Bit = {}
      BY <1>3, <3>1 DEF getattr_common, AttrInv, StatType
    <3> QED BY <2>1, <3>2
  <2> QED BY <2>1, <2>2
<1>4. CASE BlockSize
  BY <1>4 DEF BlockSize, Goto, Return, OK
<1>5. CASE StartChain
  <2>1. ~HasPermissions(st.type) => st.type = S_IFLNK
    BY <1>5, LinkBits DEF StartChain, AttrInv, StatType
  <2>2. ~ShutOut /\ ~ShutOut'
    BY <1>5 DEF StartChain, AttrInv, ShutOut, Mirrored, FileKept
  <2> QED BY <1>5, <2>1, <2>2 DEF StartChain, Goto, Return
<1>6. CASE ChainLink
  BY <1>0, <1>6 DEF ChainLink
<1>7. CASE EndChain
  <2>1. ~ShutOut /\ ~ShutOut'
    BY <1>7 DEF EndChain, ReturnMode, AttrInv, AttrTypeOK, ShutOut, Mirrored, FileKept
  <2>2. CASE settings.realistic_permissions
    <3>1. pc' = "access" /\ checks' = <<"r", "w", "x">>
      BY <1>7, <2>2 DEF EndChain, Goto
    <3>2. Checked(checks') = {}
      BY <3>1, CheckedEnds
    <3> QED BY <3>1, <3>2
  <2>3. CASE ~settings.realistic_permissions
    BY <1>7, <2>1, <2>3 DEF EndChain, Goto, Return, FileKept
  <2> QED BY <2>2, <2>3
<1>8. CASE access
  <2>1. /\ ~ShutOut' /\ seen' = seen /\ file' = file /\ file \in seen /\ pc = "access"
        /\ st \in StatType
    BY <1>8 DEF access, AttrInv, ShutOut, Mirrored, FileKept
  <2>2. CASE checks # <<>>
    <3> DEFINE p == Head(checks)
    <3>1. /\ pc' = "access" /\ checks' = Tail(checks)
          /\ st' = IF p \in file.access THEN st ELSE [st EXCEPT !.bits = @ \ Hidden(p)]
      BY <1>8, <2>2 DEF access
    <3>2. Checked(checks') = Checked(checks) \cup {p} /\ p \in Permission
      BY <2>2, <3>1, CheckedNext DEF AttrInv
    <3> HIDE DEF p
    <3>3. ASSUME NEW bit \in st'.bits \cap Bit, bit[2] \in Checked(checks')
          PROVE  \E f \in seen' : bit[2] \in f.access
      <4>1. bit \in st.bits \cap Bit
        BY <2>1, <3>1 DEF StatType
      <4>2. CASE bit[2] \in Checked(checks)
        BY <2>1, <4>1, <4>2
      <4>3. CASE bit[2] = p
        <5>1. bit \in Hidden(p)
          BY <3>2, <4>1, <4>3, AllBits DEF Hidden
        <5>2. p \in file.access
          BY <2>1, <3>1, <5>1 DEF StatType
        <5> QED BY <2>1, <4>3, <5>2
      <4> QED BY <3>2, <3>3, <4>2, <4>3
    <3> QED BY <3>1, <3>3
  <2>3. CASE checks = <<>>
    <3>1. Checked(checks) = Permission /\ st' = st
      BY <1>8, <2>3, CheckedEnds DEF access
    <3>2. \A bit \in Bit : bit[2] \in Permission
      BY BitPair
    <3>3. pc' = "done"
      BY <1>8, <2>3 DEF access, Return, Goto
    <3> QED BY <2>1, <3>1, <3>2, <3>3
  <2> QED BY <2>2, <2>3
<1>9. CASE Reply
  BY <1>9 DEF Reply, Goto
<1>10. ASSUME NEW f \in File, Replace(f) PROVE PromiseInv'
  BY <1>0, <1>10 DEF Replace
<1>11. CASE UNCHANGED allvars
  BY <1>0, <1>11 DEF allvars
<1> QED BY <1>1, <1>2, <1>3, <1>4, <1>5, <1>6, <1>7, <1>8, <1>9, <1>10, <1>11, Zenon DEF AttrNext

(* --realistic-permissions and --mirror-only, for any files and any number *)
(* of replacements in the source directory between the system calls of a   *)
(* request: no permission bit is shown that access(2) did not grant for a  *)
(* file that was there during the request, and none at all to a caller who *)
(* is shut out.                                                            *)
THEOREM NoPermissionOverpromised == AttrSpec => []NothingOverpromised
<1>1. AttrInit => PromiseInv
  BY DEF AttrInit, PromiseInv, NothingOverpromised
<1>2. PromiseInv => NothingOverpromised
  BY DEF PromiseInv
<1> QED BY <1>1, <1>2, AttrStart, AttrStep, PromiseStep, PTL DEF AttrSpec
-----------------------------------------------------------------------------
(* What the request is to show of the file.                                *)
ModeOfFile == [dir |-> file.type = S_IFDIR, bits |-> file.bits]
ShownType ==
  IF settings.block_devices_as_files /\ file.type = S_IFBLK THEN S_IFREG ELSE file.type
ShownOwner == IF Mirrored THEN "caller" ELSE "mapped"
Promised(bit, checked) == bit \in Bit /\ bit[2] \in checked => bit[2] \in file.access
ShownBits(checked) ==
  {bit \in Bit \cup Special : Expected(bit, Len(spec), ModeOfFile) /\ Promised(bit, checked)}

(* How far stbuf is, at each stage of a request during which the file      *)
(* stays as it is.                                                         *)
ShownInv ==
  pc # "idle" /\ seen = {file} =>
       /\ pc = "getattr_common" => st.type = file.type /\ st.bits = file.bits /\ st.owner = "mapped"
       /\ pc \in {"open", "permissions", "permchain_apply", "access"} =>
            st.type = ShownType /\ st.owner = ShownOwner
       /\ pc \in {"open", "permissions", "permchain_apply"} => st.bits = file.bits
       /\ pc \in {"permchain_apply", "access"} => file.type # S_IFLNK
       /\ pc = "permchain_apply" => original_mode = ModeOfFile
       /\ pc = "access" => settings.realistic_permissions /\ st.bits = ShownBits(Checked(checks))
       /\ pc = "done" /\ ret = OK =>
            /\ st.bits = IF ShutOut THEN file.bits \cap Special
                         ELSE IF file.type = S_IFLNK THEN file.bits
                         ELSE ShownBits(IF settings.realistic_permissions THEN Permission ELSE {})
            /\ st.type = IF ShutOut THEN file.type ELSE ShownType
            /\ st.owner = ShownOwner

(* Its last stage is ShownExactly.                                         *)
LEMMA ShownLast == ShownInv => ShownExactly
<1>1. \A bit : Promised(bit, IF settings.realistic_permissions THEN Permission ELSE {})
                <=> (settings.realistic_permissions /\ bit \in Bit => bit[2] \in file.access)
  BY BitPair DEF Promised
<1>2. ShownBits(IF settings.realistic_permissions THEN Permission ELSE {})
        = {bit \in Bit \cup Special :
             /\ Expected(bit, Len(spec), ModeOfFile)
             /\ (settings.realistic_permissions /\ bit \in Bit => bit[2] \in file.access)}
  BY <1>1 DEF ShownBits
<1>3. (IF settings.block_devices_as_files /\ file.type = S_IFBLK /\ ~ShutOut THEN S_IFREG ELSE file.type)
        = IF ShutOut THEN file.type ELSE ShownType
  BY DEF ShownType
<1> QED BY <1>2, <1>3, Zenon DEF ShownExactly, ShownInv, ModeOfFile, ShownOwner

(* The first step of getattr_common fills in type and owner.               *)
LEMMA ShownCommon ==
  ASSUME AttrInv, ShownInv, getattr_common, seen = {file}
  PROVE  /\ pc' = "done" /\ ret' = OK =>
              ShutOut /\ st'.bits = file.bits \cap Special /\ st'.type = file.type /\ st'.owner = ShownOwner
         /\ pc' # "done" => st'.bits = file.bits /\ st'.type = ShownType /\ st'.owner = ShownOwner
<1> DEFINE owned == IF Mirrored THEN [st EXCEPT !.owner = "caller"] ELSE st
<1>1. /\ pc = "getattr_common" /\ st \in StatType
      /\ st.type = file.type /\ st.bits = file.bits /\ st.owner = "mapped"
  BY DEF AttrInv, ShownInv, getattr_common
<1>2. /\ owned \in StatType /\ owned.type = file.type /\ owned.bits = file.bits
      /\ owned.owner = ShownOwner
  BY <1>1 DEF StatType, ShownOwner
<1>3. file.bits \subseteq Bit \cup Special
  BY <1>1 DEF StatType
<1>4. Bit \cap Special = {}
  BY DEF Bit, Special, Class
<1> HIDE DEF owned
<1>5. CASE ~st.mappable
  BY <1>5 DEF getattr_common, Return, Goto, OK
<1>6. CASE st.mappable /\ ShutOut
  <2>1. st' = [owned EXCEPT !.bits = @ \ Bit] /\ pc' = "done"
    BY <1>6 DEF getattr_common, owned, Return, Goto
  <2>2. owned.bits \ Bit = file.bits \cap Special
    BY <1>2, <1>3, <1>4
  <2> QED BY <1>2, <1>6, <2>1, <2>2 DEF StatType
<1>7. CASE st.mappable /\ ~ShutOut
  <2> DEFINE block == settings.block_devices_as_files /\ st.type = S_IFBLK
             type == IF block THEN SymmetricDifference(owned.type, S_IFBLK \cup S_IFREG) ELSE owned.type
             nlink == IF settings.hide_hard_links THEN 1 ELSE owned.nlink
  <2>1. st' = [owned EXCEPT !.nlink = nlink, !.type = type] /\ pc' # "done"
    BY <1>2, <1>7 DEF getattr_common, owned, StatType, Goto
  <2>2. type = ShownType
    BY <1>1, <1>2, BlockToFile DEF ShownType
  <2> HIDE DEF type, nlink
  <2> QED BY <1>2, <2>1, <2>2 DEF StatType
<1> QED BY <1>5, <1>6, <1>7

(* What a step keeps: the words above mean the same after it.              *)
LEMMA WordsKept ==
  ASSUME UNCHANGED <<settings, file, caller, spec>>
  PROVE  /\ ModeOfFile' = ModeOfFile /\ ShownType' = ShownType /\ ShownOwner' = ShownOwner
         /\ \A checked : ShownBits(checked)' = ShownBits(checked)
         /\ ShutOut' <=> ShutOut
<1>1. ASSUME NEW bit, NEW n, NEW mode
      PROVE  Expected(bit, n, mode)' <=> Expected(bit, n, mode)
  BY DEF Expected
<1>2. ModeOfFile' = ModeOfFile /\ ShownType' = ShownType /\ ShownOwner' = ShownOwner
  BY DEF ModeOfFile, ShownType, ShownOwner, Mirrored
<1>3. \A checked : ShownBits(checked)' = ShownBits(checked)
  BY <1>1, <1>2 DEF ShownBits, Promised
<1> QED BY <1>2, <1>3 DEF ShutOut, Mirrored

(* Steps that leave stbuf, the file and the options alone.                 *)
LEMMA ShownKept ==
  ASSUME AttrInv, AttrInv', ShownInv, UNCHANGED <<settings, file, request, seen>>,
         pc # "idle" => UNCHANGED <<spec, original_mode>>
  PROVE  ShownInv'
<1>1. CASE pc = "idle"
  BY <1>1 DEF ShownInv, request
<1>2. CASE pc # "idle"
  <2>1. UNCHANGED <<settings, file, caller, spec, seen, st, pc, checks, ret, original_mode>>
    BY <1>2 DEF request
  <2> QED BY <1>2, <2>1, WordsKept DEF ShownInv
<1> QED BY <1>1, <1>2

(* The end of the chain: its result is what the specification says.        *)
LEMMA ShownEnd ==
  ASSUME AttrInv, ApplyInv, ShownInv, EndChain, seen = {file}
  PROVE  st'.bits = ShownBits({}) /\ st'.type = st.type /\ st'.owner = st.owner
<1>1. pc = "permchain_apply" /\ phase = "applying" /\ pos > Len(permchain)
  BY DEF EndChain, ReturnMode, AttrInv, AttrTypeOK
<1>2. pos = Len(spec) + 1 /\ Len(spec) \in Nat
  BY <1>1 DEF ApplyInv, ChainInv, Chain
<1>3. original_mode = ModeOfFile
  BY <1>1 DEF ShownInv
<1>4. tgtmode.bits = {bit \in Bit \cup Special : Expected(bit, Len(spec), ModeOfFile)}
  <2>1. pos - 1 = Len(spec)
    BY <1>2
  <2> QED BY <1>1, <1>3, <2>1 DEF ApplyInv, LastRuleDecides
<1>5. tgtmode.bits = ShownBits({})
  BY <1>4 DEF ShownBits, Promised
<1> QED BY <1>1, <1>5 DEF EndChain, AttrInv, StatType

(* One call of access.                                                     *)
LEMMA ShownAccess ==
  ASSUME AttrInv, ShownInv, access, seen = {file}, checks # <<>>
  PROVE  st'.bits = ShownBits(Checked(checks')) /\ st'.type = st.type /\ st'.owner = st.owner
<1> DEFINE p == Head(checks)
<1>1. /\ pc = "access" /\ checks' = Tail(checks) /\ st \in StatType
      /\ st' = IF p \in file.access THEN st ELSE [st EXCEPT !.bits = @ \ Hidden(p)]
  BY DEF access, AttrInv
<1>2. Checked(checks') = Checked(checks) \cup {p} /\ p \in Permission
  BY <1>1, CheckedNext DEF AttrInv
<1>3. st.bits = ShownBits(Checked(checks))
  BY <1>1 DEF ShownInv
<1> HIDE DEF p
<1>4. st'.bits = IF p \in file.access THEN st.bits ELSE st.bits \ Hidden(p)
  BY <1>1 DEF StatType
<1>5. \A bit \in Bit : bit \in Hidden(p) <=> bit[2] = p
  BY <1>2, AllBits DEF Hidden
<1>6. Hidden(p) \subseteq Bit
  BY <1>2 DEF Hidden, All, Bit
<1>7. ASSUME NEW bit \in Bit \cup Special
      PROVE  Promised(bit, Checked(checks'))
               <=> Promised(bit, Checked(checks)) /\ (p \in file.access \/ bit \notin Hidden(p))
  BY <1>2, <1>5, <1>6 DEF Promised
<1>8. ShownBits(Checked(checks'))
        = {bit \in ShownBits(Checked(checks)) : p \in file.access \/ bit \notin Hidden(p)}
  BY <1>7 DEF ShownBits
<1>9. st'.bits = ShownBits(Checked(checks'))
  BY <1>3, <1>4, <1>8
<1> QED BY <1>1, <1>9 DEF StatType

(* Every step of a request keeps the stages.                               *)
LEMMA ShownStep ==
  ASSUME AttrInv, AttrInv', ApplyInv, ShownInv, [AttrNext]_allvars
  PROVE  ShownInv'
<1>1. CASE Parse
  <2>1. phase = "parsing"
    BY <1>1 DEF Parse, add_rule, permchain_cat, syntax_error
  <2>2. pc = "idle"
    BY <2>1 DEF AttrInv
  <2> QED BY <1>1, <2>2 DEF Parse, request, ShownInv
<1>2. ASSUME NEW c \in Caller, lstat(c) PROVE ShownInv'
  BY <1>2, Zenon DEF lstat, Goto, ShownInv
<1>3. CASE getattr_common
  <2>1. UNCHANGED <<settings, file, caller, spec, seen>> /\ pc' \in {"done", "open", "permissions"}
    BY <1>3 DEF getattr_common, FileKept, chain, Goto, Return
  <2> QED BY <1>3, <2>1, ShownCommon, WordsKept DEF ShownInv
<1>4. CASE BlockSize
  <2>1. /\ UNCHANGED <<settings, file, caller, spec, seen, st>> /\ pc = "open"
        /\ pc' = "permissions" \/ (pc' = "done" /\ ret' # OK)
    BY <1>4 DEF BlockSize, FileKept, chain, Goto, Return, OK
  <2> QED BY <2>1, WordsKept, Zenon DEF ShownInv
<1>5. CASE StartChain
  <2>1. /\ UNCHANGED <<settings, file, caller, spec, seen, st>> /\ pc = "permissions"
        /\ ~ShutOut /\ st.type \in Type
    BY <1>5 DEF StartChain, permchain_apply, FileKept, chain, AttrInv, StatType
  <2>a. seen = {file} => st.type = ShownType /\ st.bits = file.bits
    BY <2>1 DEF ShownInv
  <2>2. seen = {file} => (HasPermissions(st.type) <=> file.type # S_IFLNK)
    <3>1. S_IFREG # S_IFLNK /\ S_IFBLK # S_IFLNK
      BY DEF S_IFREG, S_IFLNK, S_IFBLK
    <3> QED BY <2>1, <2>a, <3>1, LinkBits DEF ShownType
  <2>3. seen = {file} => [dir |-> st.type = S_IFDIR, bits |-> st.bits] = ModeOfFile
    <3>1. S_IFREG # S_IFDIR /\ S_IFBLK # S_IFDIR
      BY DEF S_IFREG, S_IFDIR, S_IFBLK
    <3> QED BY <2>a, <3>1 DEF ModeOfFile, ShownType
  <2>4. \/ HasPermissions(st.type) /\ pc' = "permchain_apply"
           /\ original_mode' = [dir |-> st.type = S_IFDIR, bits |-> st.bits]
        \/ ~HasPermissions(st.type) /\ pc' = "done"
    BY <1>5 DEF StartChain, Goto, Return
  <2> QED BY <2>1, <2>2, <2>3, <2>4, WordsKept, Zenon DEF ShownInv
<1>6. CASE ChainLink
  BY <1>6, ShownKept DEF ChainLink, ApplyLink
<1>7. CASE EndChain
  <2>1. /\ UNCHANGED <<settings, file, caller, spec, seen>> /\ pc = "permchain_apply" /\ ~ShutOut
        /\ \/ settings.realistic_permissions /\ pc' = "access" /\ checks' = <<"r", "w", "x">>
           \/ ~settings.realistic_permissions /\ pc' = "done"
    BY <1>7 DEF EndChain, ReturnMode, FileKept, Goto, Return, AttrInv
  <2> QED BY <1>7, <2>1, ShownEnd, WordsKept, CheckedEnds, Zenon DEF ShownInv
<1>8. CASE access
  <2>1. UNCHANGED <<settings, file, caller, spec, seen>> /\ pc = "access" /\ ~ShutOut
    BY <1>8 DEF access, FileKept, chain, AttrInv
  <2>2. CASE checks # <<>>
    <3>1. pc' = "access"
      BY <1>8, <2>2 DEF access
    <3> QED BY <1>8, <2>1, <2>2, <3>1, ShownAccess, WordsKept DEF ShownInv
  <2>3. CASE checks = <<>>
    <3>1. pc' = "done" /\ st' = st
      BY <1>8, <2>3 DEF access, Return, Goto
    <3> QED BY <2>1, <2>3, <3>1, WordsKept, CheckedEnds, Zenon DEF ShownInv
  <2> QED BY <2>2, <2>3
<1>9. CASE Reply
  BY <1>9 DEF Reply, Goto, ShownInv
<1>10. ASSUME NEW f \in File, Replace(f) PROVE ShownInv'
  <2>1. pc # "idle" => seen' # {file'}
    BY <1>10 DEF Replace, AttrInv
  <2> QED BY <1>10, <2>1 DEF Replace, request, ShownInv
<1>11. CASE UNCHANGED allvars
  BY <1>11, ShownKept DEF allvars, chain, applying
<1> QED BY <1>1, <1>2, <1>3, <1>4, <1>5, <1>6, <1>7, <1>8, <1>9, <1>10, <1>11 DEF AttrNext

(* getattr_common uses the chain as PermChain specifies it: seen from its  *)
(* variables, every request is a run of permchain_apply.                   *)
THEOREM ChainImplemented == AttrSpec => Spec
<1>1. AttrInit => Init
  BY DEF AttrInit
<1> QED BY <1>1, ChainSteps, PTL DEF AttrSpec, Spec

(* For any files, options and specifications of --perms of any length (but *)
(* for rules that name a kind of file and no class): type, owner and every *)
(* bit that bindfs_getattr reports of a file that stays as it is are those *)
(* that the options say.                                                   *)
THEOREM AttributesExact == ClassesNamed /\ AttrSpec => []ShownExactly
<1>1. AttrInit => ShownInv
  BY DEF AttrInit, ShownInv
<1>2. AttrInit => ApplyInv
  BY ChainInit DEF AttrInit, Init, ApplyInv, LastRuleDecides
<1>3. ASSUME ClassesNamed PROVE AttrSpec => []ShownExactly
  <2>1. ApplyInv /\ [AttrNext]_allvars => ApplyInv'
    BY <1>3, ApplyStep, ChainSteps
  <2>2. AttrInv /\ AttrInv' /\ ApplyInv /\ ShownInv /\ [AttrNext]_allvars => ShownInv'
    BY ShownStep
  <2> QED BY <1>1, <1>2, <2>1, <2>2, AttrStart, AttrStep, ShownLast, PTL DEF AttrSpec
<1> QED BY <1>3
=============================================================================
