SPECIFICATION Spec
CONSTANTS
  Inputs <- MCInputs
  None = "None"
  Builtin <- BuiltinTypes
  Mappable <- MappableTypes
  HasProperty = "i=46"
  HasComponent = "i=47"
  HasSubtype = "i=45"
INVARIANTS
  TypeOK
  UniqueIds
  ReferencesAgree
  EncodableExactly
  ValuesHaveForm
  FilesFollowModel
PROPERTIES
  CrashHasCause
