SPECIFICATION Spec
CONSTANTS
  Compilers = {p1, p2}
  Inodes = {i1, i2, i3}
  Commands <- MCCommands
  Names <- MCNames
  YlPaths <- MCYlPaths
  Texts <- MCTexts
  Parsable = {"one", "two", "illtyped"}
  Accepted = {"one", "two"}
  hash_value <- MCHash
  Size <- MCSize
  MaxSize = 2
  MaxRestarts = 2
  WaitStatuses = {0, 256}
SYMMETRY Symmetry
INVARIANTS
  TypeOK
  LinksOnlyAccepted
  Undisturbed
  ErrorsExitWithOne
  ZeroMeansWhole
PROPERTY NoLeftovers
CHECK_DEADLOCK FALSE
