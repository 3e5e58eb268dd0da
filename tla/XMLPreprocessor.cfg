SPECIFICATION Spec
CONSTANTS
  Inputs <- MCInputs
  Base = "base"
  NoUri = ""
INVARIANTS
  TypeOK
  IndicesDistinguish
  ReferencesKeepMeaning
PROPERTIES
  FailsExactly
CHECK_DEADLOCK FALSE
