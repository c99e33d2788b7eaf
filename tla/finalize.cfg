CONSTANTS
  Lines <- MCLines
  FileOf <- MCFileOf
  InitLinks <- MCChain
SPECIFICATION ApprovalSpec
INVARIANTS ReferralsHold BreaksSettled ApprovedWhole SilenceIsNotConsent
PROPERTIES NoNewMix PassesDecide SidecarKeeps
CHECK_DEADLOCK FALSE
