CONSTANTS
  MergeSlack = 1
  Scale = 12
  Lines <- MCStated
  Above <- MCAbove
  Below <- MCBelow
  Proposals <- MCSpaced
SPECIFICATION Spec
INVARIANTS DecisionSurvives
CHECK_DEADLOCK FALSE
