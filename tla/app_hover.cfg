\* An open, then one hover fetch.
SPECIFICATION Safety
CONSTANTS
  Docs = {d1}
  BadXml = BadXml
  NoXml = NoXml
  HugeXml = HugeXml
  Default = Default
  HalfBuilt = HalfBuilt
  NoDoc = NoDoc
  Gems = {g1}
  gemId <- OwnGemIds
  GemLists <- AllGemLists
  v1 = v1
  v2 = v2
  Values = {v1, v2}
  Payloads <- EditAndPreset
  Nodes = {n1, n2}
  AsLoaded = AsLoaded
  Slots = {s1, s2}
  StatIds = {x1}
  MaxTasks = 2
  Undefined = Undefined
  Empty = Empty
SYMMETRY Symmetry
CHECK_DEADLOCK FALSE
INVARIANTS
  HoverChipsAreOfTheHoveredNode
