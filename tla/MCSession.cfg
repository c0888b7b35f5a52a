CONSTANTS
  Kinds <- MCKinds
  Length <- MCLength
  Messages <- MCMessages
  MaxSent = 3

SPECIFICATION SessionSpec
INVARIANTS AnsweredAsOwed
PROPERTIES QueueImplemented QueueServed OwedAnswered ComesToRest
CHECK_DEADLOCK FALSE
