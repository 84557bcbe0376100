SPECIFICATION VerifySpec
CONSTANTS
  BatchSize = 2
  Window = 3
  MaxSeq = 6
  MaxDamage = 1
INVARIANT NoFalseAlarm
PROPERTIES AnswerIsSound
CHECK_DEADLOCK FALSE
