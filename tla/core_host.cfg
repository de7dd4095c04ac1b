\* Two callers, four requests, two runner processes, two documents.
SPECIFICATION Safety
CONSTANTS
  Docs = {d1, d2}
  BadXml = BadXml
  NoXml = NoXml
  HugeXml = HugeXml
  Default = Default
  HalfBuilt = HalfBuilt
  NoDoc = NoDoc
  GemLists = {g1}
  Values = {v1}
  Nodes = {n1, n2}
  AsLoaded = AsLoaded
  Callers = {c1, c2}
  NoCaller = NoCaller
  Methods = {"build.load", "build.save", "calc.run", "items.compare", "items.parseClipboard", "skills.setGemGroup", "config.getOptions", "config.setOption", "tree.previewAllocate", "tree.applyAllocate", "lua.eval"}
  MaxRequests = 4
  MaxRunners = 2
  StderrCap = 1
SYMMETRY Symmetry
CHECK_DEADLOCK FALSE
INVARIANTS
  TypeOK
  AnswersMatchRequests
  NoOrphanRunner
  ExactlyOneLossReport
  RepliesServeOwnBuild
  SavedFileFollowsTheAnswers
