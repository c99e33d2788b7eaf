CONSTANTS
  Lines <- MCLines
  NPages = 3
  PageOf <- MCPageOf
  FileOf <- MCFileOf
  Declared <- MCDeclared
  Documents <- MCDocuments
SPECIFICATION Spec
INVARIANTS Symmetric
CHECK_DEADLOCK FALSE
