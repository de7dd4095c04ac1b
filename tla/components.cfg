SPECIFICATION MCSpec
CONSTANTS
  Versions = {v1, v2}
  NoVersion = NoVersion
  Installed = v1
  MaxUpdates = 3
  ArgTexts = {"", "1"}
  ArgNodes <- SampleNodes
  RunnerResults <- SampleResults
  RunnerErrors <- SampleErrors
  NodeIds = {1, 2, 3, 4}
  StrayId = 9
  Wirings <- TreeWirings
  Starts = {{}, {1}, {1, 4}, {9}}
  NodeAt <- CanvasNodes
  Titles <- CanvasTitles
  Cursors = {16, 32, 48, 320}
  Queries <- CanvasQueries
  MaxEvents = 5
  CalcsStats = {"TotalDPS", "Life", "Mana"}
  CalcsWatched = {"TotalDPS", "Life"}
  MaxCalcsSteps = 4
  ItemLocales = {"ko-KR", "en-US"}
  MaxItemCalls = 3
  LocFixtures <- FixturePages
  LocSnapshots <- DataSnapshots
  LocCollections <- LiveCollections
  LocOverrides <- HandOverrides
  LocLines <- ClipboardLines
  LocTyped <- TypedIds
  MaxLocSteps = 4
  SitePages <- SiteOverTime
  AssetPaths <- CollectedPaths
  KeyLists <- KeysAsked
  IdOrder <- OrderOfIds
  IconWorkers = 2
  MaxAssetSteps = 6
  OptionType <- OptionTypes
  TabPresets = {"bossing", "fullCharges", "custom"}
  TabTexts = {"2"}
  TabGems <- GemsToAdd
  TabCalcs <- CalcAnswers
  MaxTabSteps = 3
  PhasePlans <- Plans
  PhaseGates <- RequiredGates
  CommandLists <- Lists
  PaletteQueries <- Typed
  MaxPaletteKeys = 5
INVARIANTS
  ComponentTypesOK
  OnlyAThrowLeavesSomethingBehind
  ActivatesWhatWasTested
  ClientsAgree
  ResolvesToItsType
  CompleteAnswersAreAccepted
  TransformsAgree
  PreviewIsAShortestWay
  ClicksAreNotPans
  PanKeepsWhatItHolds
  OpenRowsAreServed
  CreatedItemsAreKept
  ImportShowsOneAnswer
  ReviewedMappingsWin
  NoGuessIsApplied
  NamesAreNeverLost
  DashboardAgreesWithGate
  ProposalsKeepTheirLine
  StagedAsRecorded
  IconsAreTheirOwn
  LastChoiceIsApplied
  OneChipPerGem
  PassedPhasesAreWhole
  EnterRunsTheMarkedOption
PROPERTY
  SwitchesAtomically
CHECK_DEADLOCK FALSE
