SPECIFICATION Spec
CONSTANTS
  Texts <- MCTexts
  Addresses <- MCAddresses
  NoDomain = "none"
  None = None
INVARIANTS AcceptsAsWritten ErrorsFit
PROPERTIES OneFailsAllExit Recovers
