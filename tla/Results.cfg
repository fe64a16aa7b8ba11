SPECIFICATION Spec
CONSTANTS
  Words <- MCWords
  Answers <- MCAnswers
  Options <- MCOptions
INVARIANTS RowsAreTold ScansInBounds CsvReadsBack TypesAreTold
CHECK_DEADLOCK FALSE
