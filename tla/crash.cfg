SPECIFICATION FairSpec
CONSTANTS
  Proc = {p1, p2}
  Source = {stdin}
  Piped = {stdin}
  Ident = {tool}
  Mark = {m1}
  Stored <- MCStored
  Opts <- RunOnly
  Faults = {"kill", "io", "signal", "fail"}
  MaxTime = 1
  Conf <- MCConf
  NoIdent = NoIdent
  NoMark = NoMark
  Nobody = Nobody
  NoJob = NoJob
  tool = tool
  toolNew = toolNew
  nightly = nightly
  manual = manual
  feed = feed
  page = page
INVARIANTS
  RecordsAreEarned
PROPERTIES
  EveryRunEnds
