\* Every list of two rules.
SPECIFICATION Spec
CONSTANTS
  Types <- MCTypes
  Core <- MCCore
  Objects <- MCObjects
  Fields <- MCFields
  Meaning <- MCMeaning
  Each = Each
  Documents <- MCDocuments
  Star = Star
  BuiltinTypes <- MCBuiltinTypes
  BuiltinOwners <- MCBuiltinOwners
  BuiltinFields <- MCBuiltinFields
  RuleSet <- MCRuleSet
  MaxRules = 2
INVARIANT FilesLackTheFields
PROPERTIES FieldsAreAdditive EarlierRulesDecide 
CHECK_DEADLOCK FALSE
