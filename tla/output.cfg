\* Every small text through every kind of response, with chunks that fail.
SPECIFICATION OutSpec
CONSTANTS
  Inputs <- MCInputs
  Size = 3
  ParamMax = 2
  Delim = "%"
  NameSymbols = {"a"}
  Values <- MCValues
  MaxFlushes = 1
  MaxEventText = 15
  TemplateLength = 5
INVARIANTS
  TextArrives
  ChunksFit
  EndsOnce
CHECK_DEADLOCK FALSE
