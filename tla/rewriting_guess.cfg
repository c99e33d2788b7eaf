CONSTANTS
  MergeSlack = 1
  Scale = 12
  Lines <- MCGuessed
  Above <- MCAbove
  Below <- MCBelow
  Proposals <- MCLonger
SPECIFICATION Spec
INVARIANTS NoInventedBreak
CHECK_DEADLOCK FALSE
