SPECIFICATION Spec
CONSTANTS
  Proc = {p1}
  Source = {path}
  Piped = {}
  Ident = {page}
  Mark = {m1}
  Stored <- MCStored
  Opts <- Lookers
  Faults = {}
  MaxTime = 2
  Conf <- MCConf
  NoIdent = NoIdent
  NoMark = NoMark
  Nobody = Nobody
  NoJob = NoJob
  tool = tool
  toolNew = toolNew
  nightly = nightly
  manual = manual
  feed = feed
  page = page
PROPERTIES
  DryRunChangesNothing
