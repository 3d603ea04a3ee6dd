SPECIFICATION AnswerSpec
CONSTANTS
  CarrySize = 3
  PieceSize = 4
  MaxAnswer = 4
  MaxToken = 4
INVARIANT JsonIsRedacted
CHECK_DEADLOCK FALSE
