SPECIFICATION Spec
CONSTANTS
  one = one
  two = two
  Procs = {one, two}
  Commands <- MCCommands
  Settings <- MCSettings
  NoFile = NoFile
  Shipped <- MCShipped
  MaxRuns = 2
INVARIANTS HomeExplained WritesNeedAdmin AnswersInOrder
PROPERTIES SilentEnds RunsEnd
CHECK_DEADLOCK FALSE
