CONSTANTS
  m1 = m1
  m2 = m2
  q1 = q1
  q2 = q2
  Messages = {m1}
  Questions = {q1}
  Prompt = Prompt
  None = None
  Journaled = FALSE
  MaxTurnCycles = 0
  MaxLives = 1
SPECIFICATION FairSpec
PROPERTY CancelEnds
