SPECIFICATION PartsSpec
CONSTANTS
  Path = {absolute, relative, unset}
  Form <- MCForm
  Name = {n1, n2}
  FileName = {f1}
  Schedules <- MCSchedules
  DefaultInterval = 86400
  MaxFiles = 1
  MaxNames = 2
  MaxDirs = 1
  MaxEntries = 6
  NoPath = NoPath
  NoName = NoName
  absolute = absolute
  relative = relative
  unset = unset
  Pid = {p1, p2}
  FileLists <- MCFileLists
  Script <- MCScript
  Somebody = somebody
  MaxChanges = 3
  DiskFails = TRUE
  Outputs <- MCOutputs
  Statuses <- MCStatuses
  Notes <- MCNotes
  OutCap = 4
  Chunk = 2
  MaxMessages = 2
CHECK_DEADLOCK FALSE
INVARIANTS
  TypeOK
  FlagsFollowNesting
  ParsedIsAccepted
  RulesHold
  RightProgram
  TargetsAreWhole
  
  UnpackStaysInTarget
  ShownAsSaid
PROPERTIES
  SucceedsWithAllFiles
  UnpackSparesOthers
