SPECIFICATION Spec
CONSTANTS
  Proc = {p1, p2}
  Source = {path}
  Piped = {}
  Ident = {page, manual}
  Mark = {m1}
  Stored <- MCStored
  Opts <- Everyone
  Faults = {"kill"}
  MaxTime = 1
  Conf <- MCConf
  NoIdent = NoIdent
  NoMark = NoMark
  Nobody = Nobody
  NoJob = NoJob
  tool = tool
  toolNew = toolNew
  nightly = nightly
  manual = manual
  feed = feed
  page = page
SYMMETRY SymmetryProc
INVARIANTS
  TypeOK
  LockDiscipline
PROPERTIES
  KeepsLockPromise
