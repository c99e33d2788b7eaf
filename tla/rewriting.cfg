CONSTANTS
  MergeSlack = 1
  Scale = 12
  Lines <- MCLines
  Above <- MCAbove
  Below <- MCBelow
  Proposals <- MCProposals
SPECIFICATION Spec
INVARIANTS WordsSurvive SecondPassQuiet IdsDistinct LossesCounted
CHECK_DEADLOCK FALSE
