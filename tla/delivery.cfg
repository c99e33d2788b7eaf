CONSTANTS
  Files = {f1, f2}
  Versions = {A, B}
  MaxRuns = 2
SPECIFICATION Spec
INVARIANTS MarkupAsDecided ReportLast NoStaleOutput WrittenWhole
SYMMETRY Alike
