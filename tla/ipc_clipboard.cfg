SPECIFICATION ClientsSpec
CONSTANTS
  ArgTexts = {"", "1"}
  ArgNodes <- SampleNodes
  RunnerResults <- SampleResults
  RunnerErrors <- SampleErrors
INVARIANT PasteKeepsEveryLine
CHECK_DEADLOCK FALSE
