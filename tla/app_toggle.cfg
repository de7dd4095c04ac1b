\* An open, then two gem toggles.
SPECIFICATION Safety
CONSTANTS
  Docs = {d1}
  BadXml = BadXml
  NoXml = NoXml
  HugeXml = HugeXml
  Default = Default
  HalfBuilt = HalfBuilt
  NoDoc = NoDoc
  Gems = {g1, g2}
  gemId <- OwnGemIds
  GemLists <- AllGemLists
  v1 = v1
  v2 = v2
  Values = {v1, v2}
  Payloads <- EditAndPreset
  Nodes = {n1}
  AsLoaded = AsLoaded
  Slots = {s1, s2}
  StatIds = {x1}
  MaxTasks = 3
  Undefined = Undefined
  Empty = Empty
CHECK_DEADLOCK FALSE
PROPERTIES
  ToggleFlipsOneGem
