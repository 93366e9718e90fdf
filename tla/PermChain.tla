----------------------------- MODULE PermChain -----------------------------
(***************************************************************************)
(* permchain.c: the permission specification of --perms,                   *)
(* --create-with-perms and --chmod-filter, parsed into a chain of rules    *)
(* and applied to the mode of a file.                                      *)
(*                                                                         *)
(* A mode is a set of bits.  The order of the letters on either side of a  *)
(* rule has no effect, so a rule is given by its two sets of letters and   *)
(* its operator; a rule of digits by the bits that it names.               *)
(***************************************************************************)
EXTENDS Integers, Sequences

CONSTANTS
  Rule,       \* the rules that specifications are made of
  MaxRules,   \* bound: the length of a specification
  Mode        \* the modes [dir, bits] of the files

Class == {"u", "g", "o"}
Permission == {"r", "w", "x"}
Bit == Class \X Permission                  \* 0777
Special == {"special"} \X {"setuid", "setgid", "sticky"}   \* 07000
Letter == Class \cup {"a", "f", "d"}
Operand == Permission \cup Class \cup {"X", "D", "s", "t"}

Symbolic == [lhs : SUBSET Letter, op : {"=", "+", "-"}, rhs : SUBSET Operand, octal : {{}}]
Unfinished == [lhs : SUBSET Letter, op : {"none"}, rhs : {{}}, octal : {{}}]
Octal == [lhs : {{}}, op : {"octal"}, rhs : {{}}, octal : SUBSET Bit]
ModeType == [dir : BOOLEAN, bits : SUBSET (Bit \cup Special)]

(* struct permchain.                                                       *)
Link ==
  [ mask : SUBSET Bit, op : {"=", "+", "-", "none", "octal"},
    flags : SUBSET {"f", "d"}, as_operands : SUBSET Operand, as_octal : SUBSET Bit ]

ASSUME PermChainAssumption ==
  /\ Rule \subseteq Symbolic \cup Unfinished \cup Octal
  /\ MaxRules \in Nat
  /\ Mode \subseteq ModeType

VARIABLES
  phase,       \* "parsing", "parsed", "invalid" or "applying"
  newpc,       \* the chain being built by add_chmod_rules_to_permchain
  permchain,   \* the chain of the settings
  original_mode, tgtmode, pos,   \* locals of permchain_apply
  spec         \* history: the rules of the specification

applying == <<original_mode, tgtmode, pos>>
vars == <<phase, newpc, permchain, applying, spec>>

NoMode == [dir |-> FALSE, bits |-> {}]

Init ==
  /\ phase = "parsing"
  /\ newpc = <<>> /\ permchain = <<>> /\ spec = <<>>
  /\ original_mode = NoMode /\ tgtmode = NoMode /\ pos = 0

(***************************************************************************)
(* add_chmod_rule_to_permchain.  The mask defaults to all classes when the *)
(* operator is the first character, not when only f or d precedes it.      *)
(***************************************************************************)
Mask_KindsToo(lhs) ==
  IF lhs = {} \/ "a" \in lhs THEN Bit ELSE lhs \X Permission
Mask(lhs) ==
  IF lhs = {} \/ "a" \in lhs THEN Bit ELSE (lhs \cap Class) \X Permission

Flags(lhs) == IF lhs \cap {"f", "d"} = {} THEN {"f", "d"} ELSE lhs \cap {"f", "d"}

Parsed(rule) ==
  [ mask |-> IF rule.op = "none" /\ rule.lhs = {} THEN {} ELSE Mask(rule.lhs),
    op |-> rule.op, flags |-> Flags(rule.lhs),
    as_operands |-> rule.rhs, as_octal |-> rule.octal ]

add_rule ==
  /\ phase = "parsing" /\ Len(spec) < MaxRules
  /\ \E rule \in Rule :
       newpc' = Append(newpc, Parsed(rule)) /\ spec' = Append(spec, rule)
  /\ UNCHANGED <<phase, permchain, applying>>

(* The end of the specification: the rules are appended to the chain.      *)
permchain_cat ==
  /\ phase = "parsing"
  /\ phase' = "parsed"
  /\ permchain' = permchain \o newpc
  /\ newpc' = <<>>
  /\ UNCHANGED <<applying, spec>>

syntax_error_Cats ==
  /\ phase = "parsing"
  /\ phase' = "invalid"
  /\ permchain' = permchain \o newpc
  /\ newpc' = <<>>
  /\ UNCHANGED <<applying, spec>>
(* An empty rule, an unknown letter, or octal digits beyond 0777.          *)
syntax_error ==
  /\ phase = "parsing"
  /\ phase' = "invalid"
  /\ newpc' = <<>>
  /\ UNCHANGED <<permchain, applying, spec>>

(***************************************************************************)
(* permchain_apply.  Letters on the right refer to the original mode.      *)
(***************************************************************************)
All(permissions) == Class \X permissions

OperandBits(operand, mode) ==
  CASE operand \in Permission -> All({operand})
    [] operand = "X" -> IF mode.dir \/ mode.bits \cap All({"x"}) # {} THEN All({"x"}) ELSE {}
    [] operand = "D" -> IF mode.dir THEN All({"x"}) ELSE {}
    [] operand \in {"s", "t"} -> {}
    [] operand \in Class -> All({p \in Permission : <<operand, p>> \in mode.bits})

ModeOf_Current(link, original, target) ==
  (UNION {OperandBits(operand, target) : operand \in link.as_operands}) \cap link.mask
ModeOf(link, original, target) ==
  (UNION {OperandBits(operand, original) : operand \in link.as_operands}) \cap link.mask

AppliesTo(link, mode) ==
  /\ link.op # "none"
  /\ (IF mode.dir THEN "d" ELSE "f") \in link.flags

Applied(link, original, target) ==
  CASE link.op = "="     -> (target.bits \ link.mask) \cup ModeOf(link, original, target)
    [] link.op = "+"     -> target.bits \cup ModeOf(link, original, target)
    [] link.op = "-"     -> target.bits \ ModeOf(link, original, target)
    [] link.op = "octal" -> (target.bits \ Bit) \cup link.as_octal

permchain_apply ==
  /\ phase = "parsed"
  /\ phase' = "applying"
  /\ \E mode \in Mode : original_mode' = mode /\ tgtmode' = mode
  /\ pos' = 1
  /\ UNCHANGED <<newpc, permchain, spec>>

ApplyLink ==
  /\ phase = "applying" /\ pos <= Len(permchain)
  /\ LET link == permchain[pos]
     IN  \/ /\ AppliesTo(link, tgtmode)
            /\ tgtmode' = [dir |-> tgtmode.dir, bits |-> Applied(link, original_mode, tgtmode)]
         \/ ~AppliesTo(link, tgtmode) /\ UNCHANGED tgtmode
  /\ pos' = pos + 1
  /\ UNCHANGED <<phase, newpc, permchain, original_mode, spec>>

ReturnMode ==
  /\ phase = "applying" /\ pos > Len(permchain)
  /\ phase' = "parsed"
  /\ original_mode' = NoMode /\ tgtmode' = NoMode /\ pos' = 0
  /\ UNCHANGED <<newpc, permchain, spec>>

Next ==
  \/ add_rule \/ permchain_cat \/ syntax_error
  \/ permchain_apply \/ ApplyLink \/ ReturnMode

Spec == Init /\ [][Next]_vars
-----------------------------------------------------------------------------
(* Types: every bit of a mode is a permission bit or a special bit.        *)
TypeOK ==
  /\ phase \in {"parsing", "parsed", "invalid", "applying"}
  /\ newpc \in Seq(Link) /\ permchain \in Seq(Link)
  /\ original_mode \in ModeType /\ tgtmode \in ModeType
  /\ pos \in Nat
  /\ spec \in Seq(Symbolic \cup Unfinished \cup Octal)

(* What one rule says of one bit, by the manual's PERMISSION SPECIFICATION *)
(* read for a file of the given original mode: the bit becomes set,        *)
(* becomes clear, or is left to the rules before it.                       *)
Names(rule, bit) ==
  \/ rule.lhs \cap {"u", "g", "o", "a"} = {}
  \/ "a" \in rule.lhs
  \/ bit[1] \in rule.lhs

Grants(rule, bit, mode) ==
  \/ bit[2] \in rule.rhs
  \/ bit[2] = "x" /\ "D" \in rule.rhs /\ mode.dir
  \/ bit[2] = "x" /\ "X" \in rule.rhs
     /\ (mode.dir \/ \E class \in Class : <<class, "x">> \in mode.bits)
  \/ \E class \in Class \cap rule.rhs : <<class, bit[2]>> \in mode.bits

ForThisKind(rule, mode) ==
  rule.lhs \cap {"d", "f"} # {} => (IF mode.dir THEN "d" ELSE "f") \in rule.lhs

Sets(rule, bit, mode) ==
  \/ rule.op = "octal" /\ bit \in rule.octal
  \/ /\ rule.op \in {"=", "+"} /\ ForThisKind(rule, mode)
     /\ Names(rule, bit) /\ Grants(rule, bit, mode)

Clears(rule, bit, mode) ==
  \/ rule.op = "octal" /\ bit \notin rule.octal
  \/ /\ rule.op = "=" /\ ForThisKind(rule, mode)
     /\ Names(rule, bit) /\ ~Grants(rule, bit, mode)
  \/ /\ rule.op = "-" /\ ForThisKind(rule, mode)
     /\ Names(rule, bit) /\ Grants(rule, bit, mode)

(* The rules are "applied to the permission bits in order" (manual of      *)
(* --perms): a permission bit is what the last rule that decides it says;  *)
(* a bit that no rule decides and the special bits are those of the file.  *)
Expected(bit, n, mode) ==
  \/ \E i \in 1..n :
       /\ bit \in Bit /\ Sets(spec[i], bit, mode)
       /\ \A j \in (i + 1)..n : ~Clears(spec[j], bit, mode)
  \/ /\ bit \in mode.bits
     /\ bit \in Bit => \A i \in 1..n : ~Clears(spec[i], bit, mode)

(* permchain_apply computes, bit by bit and after every rule, what the     *)
(* specification says for the file's original mode.                        *)
LastRuleDecides ==
  phase = "applying" =>
    /\ tgtmode.dir = original_mode.dir
    /\ tgtmode.bits = {bit \in Bit \cup Special : Expected(bit, pos - 1, original_mode)}

(* The chain of the settings holds a whole specification or nothing, even  *)
(* when an error follows valid rules: "On failure, pc will not be          *)
(* modified." (permchain.h)                                                *)
WholeOrNothing ==
  /\ phase \in {"parsing", "invalid"} => permchain = <<>>
  /\ phase \in {"parsed", "applying"} => Len(permchain) = Len(spec)
=============================================================================
