CONSTANTS
  BlockOf <- MCBlockOf
  Chars <- MCChars
  WindowSlack = 2
  Lines <- MCLines
  Configs <- MCConfigs
  LinkSets <- MCLinkSets
SPECIFICATION Spec
INVARIANTS OneOwner FittingUnitsStayWhole CutExactly RequestsBounded FollowingContext CallsWithinCap
CHECK_DEADLOCK FALSE
