SPECIFICATION Spec
CONSTANTS
  Proc = {p1, p2}
  Source = {path}
  Piped = {}
  Ident = {feed}
  Mark = {m1, m2}
  Stored <- MCStored
  Opts <- Recorders
  Faults = {"io", "fail"}
  MaxTime = 2
  Conf <- MCConf
  NoIdent = NoIdent
  NoMark = NoMark
  Nobody = Nobody
  NoJob = NoJob
  tool = tool
  toolNew = toolNew
  nightly = nightly
  manual = manual
  feed = feed
  page = page
SYMMETRY Symmetry
INVARIANTS
  NoDuplicateSetup

  
