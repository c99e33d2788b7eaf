CONSTANTS
  Documents <- MCDocuments
  Edits <- MCEdits
  Answers <- MCAnswers
  Bands = {0, 20}
  Lookalikes <- MCLookalikes
  MergeSlack = 1
  Scale = 12
  SpanRatio = 2
  LineBudget = 2
  MaxEdits = 2
SPECIFICATION Spec
INVARIANTS EditsLand WithinBudget NeverInvents OnOwnLine
CHECK_DEADLOCK FALSE
