SPECIFICATION AttrSpec
CONSTANTS
  Rule <- MCRule
  MaxRules = 2
  Mode <- FileMode
  File <- MCFile
  Settings <- MCSettings
  MaxChanges = 1
INVARIANTS AttrTypeOK LastRuleDecides WholeOrNothing ShownExactly NothingOverpromised
CHECK_DEADLOCK FALSE
