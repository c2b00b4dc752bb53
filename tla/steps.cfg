SPECIFICATION StepsSpec
CONSTANTS
  Responses <- MCResponses
  Complaint = 3
  BodyMax = 7
  PipeSize = 2
  MarkMax = 2
  CallsFail = TRUE
  MaxDepth = 3
  Abis = {2, 3}
  Place <- MCPlace
  Within <- MCWithin
  Root = "/"
  Null = "/dev/null"
  Tmp = "/tmp"
  Cache <- MCCache
  HomeCache = "home"
  NoCache = "none"
  WorkIn <- MCWorkIn
  Projects <- MCProjects
  Installs = FALSE
  MaxSignals = 3
  Kills = TRUE
CHECK_DEADLOCK FALSE
INVARIANTS
  FetchTypeOK
  MarkIsOfTheAnswer
  ComplaintsPassedOn
  VersionIsDelimited
  NoDescriptorLeft
  ShellIsConfined
  NestedRunsWork
  EnvDescribesOwnProject
  SignalReachesSetup
  NeverAbandoned
  
  SignalIsNoSuccess
PROPERTIES
  CheckEnds
  
