SPECIFICATION FairSpec
CONSTANTS
  main = main
  part = part
  leaf = leaf
  toml = toml
  absent = absent
  Path <- MCPath
  Entry = main
  StdModule = {"fifo"}
  StdVariant = {"canonical", "twin"}
  StdPath <- MCStdPath
  Absent = absent
  Dir <- MCDir
  DirOf <- MCDirOf
  Toml = toml
  Content <- MCContent
  InitialDisk <- MCInitialDisk
  MaxSaves = 3
INVARIANTS Linked Fresh
PROPERTIES Rests
CHECK_DEADLOCK FALSE
