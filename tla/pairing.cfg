CONSTANTS
  Lines <- MCLines
  NPages = 3
  PageOf <- MCPageOf
  FileOf <- MCFileOf
  Declared <- MCDeclared
  Documents <- MCDocuments
SPECIFICATION Spec
INVARIANTS LinkedOnce BreaksAccounted OwnMarkup Resolves
CHECK_DEADLOCK FALSE
