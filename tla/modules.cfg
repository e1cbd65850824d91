CONSTANTS
  Files <- MCFiles
  Directories <- MCDirectories
  Main <- MCMain
  Ids <- MCIds
  NativeIds <- MCNativeIds
  MainId <- MCMainId
  Cwds <- MCCwds
  FirstCwd <- MCStart
  FixedDirs <- MCFixedDirs
  MaxModules = 3
SPECIFICATION Spec
INVARIANTS FilenameIsFile ExportsComplete SameModule NativeOnce
CHECK_DEADLOCK FALSE
