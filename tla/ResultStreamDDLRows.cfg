SPECIFICATION Spec
CONSTANTS
  r1 = r1
  r2 = r2
  r3 = r3
  r4 = r4
  r5 = r5
  r6 = r6
  q1 = q1
  q2 = q2
  q3 = q3
  q4 = q4
  q5 = q5
  NoFile = NoFile
  Readers <- TwoReaders
  Qids = {q1, q2, q3, q4, q5}
  Qid <- OwnQid
  RowsOf <- SomeRows
  Headerless = {q1, q2}
  Pseudo = {}
INVARIANTS RowsOfDDL
CHECK_DEADLOCK FALSE
