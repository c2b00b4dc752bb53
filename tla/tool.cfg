SPECIFICATION Spec
CONSTANTS
  Proc = {p1, p2}
  Source = {path}
  Piped = {}
  Ident = {tool, toolNew}
  Mark = {m1}
  Stored <- MCStored
  Opts <- Updaters
  Faults = {"signal", "io", "fail", "rm"}
  MaxTime = 1
  Conf <- MCConf
  NoIdent = NoIdent
  NoMark = NoMark
  Nobody = Nobody
  NoJob = NoJob
  tool = tool
  toolNew = toolNew
  nightly = nightly
  manual = manual
  feed = feed
  page = page
SYMMETRY Symmetry
INVARIANTS
  OneSetupAtATime
  LockedViewFresh
  CommitIsWhole
  HandoverAfterSetup
PROPERTIES
  OnlyHolderTouchesWork
