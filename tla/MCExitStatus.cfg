SPECIFICATION Spec
CONSTANTS
  Compilers = {p1}
  Inodes = {i1}
  Commands <- PlainCommands
  Names <- MCNames
  YlPaths <- MCYlPaths
  Texts <- MCTexts
  Parsable = {"one", "two", "illtyped"}
  Accepted = {"one", "two"}
  hash_value <- MCHash
  Size <- MCSize
  MaxSize = 2
  MaxRestarts = 1
  WaitStatuses = {0, 256}
INVARIANT ZeroMeansLinked
CHECK_DEADLOCK FALSE
