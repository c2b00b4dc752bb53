SPECIFICATION Spec
CONSTANTS
  Proc = {p1}
  Source = {path}
  Piped = {}
  Ident = {tool, toolNew}
  Mark = {m1}
  Stored <- MCStored
  Opts <- RunOnly
  Faults = {"fail"}
  MaxTime = 1
  Conf <- MCConf
  NoIdent = NoIdent
  NoMark = NoMark
  Nobody = Nobody
  NoJob = NoJob
  tool = tool
  toolNew = toolNew
  nightly = nightly
  manual = manual
  feed = feed
  page = page
PROPERTIES
  NeverStaleSetup
