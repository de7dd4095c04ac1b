\* Two callers under the fairness of CoreHost, as its callers see it; behaviours end when the requests are used up.
SPECIFICATION ServiceSpec
CONSTANTS
  Docs = {d1}
  BadXml = BadXml
  NoXml = NoXml
  HugeXml = HugeXml
  Default = Default
  HalfBuilt = HalfBuilt
  NoDoc = NoDoc
  GemLists = {g1}
  Values = {v1}
  Nodes = {n1}
  AsLoaded = AsLoaded
  Callers = {c1, c2}
  NoCaller = NoCaller
  Methods = {"build.load", "config.getOptions", "skills.setGemGroup", "lua.eval"}
  MaxRequests = 3
  MaxRunners = 2
  StderrCap = 1
CHECK_DEADLOCK FALSE
PROPERTIES
  AnsweredUnlessWedged
  ServesAtomically
