SPECIFICATION Spec
CONSTANTS
  Rule <- MCKindRule
  MaxRules = 2
  Mode <- MCMode
INVARIANT LastRuleDecides
CHECK_DEADLOCK FALSE
