\* One runner: a request the core answers with an application error.
SPECIFICATION Safety
CONSTANTS
  Docs = {d1}
  BadXml = BadXml
  NoXml = NoXml
  HugeXml = HugeXml
  Default = Default
  HalfBuilt = HalfBuilt
  NoDoc = NoDoc
  GemLists = {g1}
  Values = {v1}
  Nodes = {n1}
  AsLoaded = AsLoaded
  Callers = {c1}
  NoCaller = NoCaller
  Methods = {"build.load", "config.getOptions"}
  MaxRequests = 3
  MaxRunners = 1
  StderrCap = 1
CHECK_DEADLOCK FALSE
INVARIANTS
  ErroringRequestKeepsRunner
