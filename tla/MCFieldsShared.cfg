\* A struct with two Vec fields that declare one key.
SPECIFICATION FieldsSpec
CONSTANTS
  Structs <- Declared
  Companions <- BodyOfAuthored
  DerivedValue <- AsBody
  Programs <- SharedProgram
  StructValues <- DeclaredValues
  FieldRows = {1}
  PoolRoom = 1
  KeysShared = TRUE
INVARIANT ChainsReadBack
CHECK_DEADLOCK FALSE
