\* Two runners: a handle of the first is used after the second has loaded.
SPECIFICATION Safety
CONSTANTS
  Docs = {d1, d2}
  BadXml = BadXml
  NoXml = NoXml
  HugeXml = HugeXml
  Default = Default
  HalfBuilt = HalfBuilt
  NoDoc = NoDoc
  GemLists = {g1}
  Values = {v1}
  Nodes = {n1}
  AsLoaded = AsLoaded
  Callers = {c1}
  NoCaller = NoCaller
  Methods = {"build.load", "tree.getData"}
  MaxRequests = 5
  MaxRunners = 2
  StderrCap = 1
CHECK_DEADLOCK FALSE
INVARIANTS
  StaleHandleIsRefused
