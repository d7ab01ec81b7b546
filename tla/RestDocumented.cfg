SPECIFICATION RestSpec
INVARIANT DocumentedAnswers
CHECK_DEADLOCK FALSE
