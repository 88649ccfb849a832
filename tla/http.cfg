SPECIFICATION FairSpec
CONSTANTS
  BufferSize = 12
  MaxHeaders = 2
  MaxBody = 2
  InitBufferSize = 2
  MaxOutput = 2
  Inputs <- MCInputs
  Models = {"", "input"}
  Priorities = {"0", "2", "-1"}
INVARIANTS
  AnswerOfTheWhole
  TaskOfTheBody
  WholeResponse
  NotCutOff
  TypeOK
PROPERTIES
  WholeIsAnswered
CHECK_DEADLOCK FALSE
