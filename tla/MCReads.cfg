SPECIFICATION MCSpec
INVARIANTS
  ConfirmedIsFinal
  AnswersAreWhole
PROPERTIES
  AnswersAreFresh
  WaitsEnd
  NotesSettle
CONSTRAINT TwoInvocations
\* reads end and chains stop at their bounds
CHECK_DEADLOCK FALSE
