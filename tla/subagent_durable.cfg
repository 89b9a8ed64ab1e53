CONSTANTS
  m1 = m1
  m2 = m2
  q1 = q1
  q2 = q2
  Messages = {m1, m2}
  Questions = {q1}
  Prompt = Prompt
  None = None
  Journaled = TRUE
  MaxTurnCycles = 0
  MaxLives = 3
SPECIFICATION Spec
INVARIANTS AcceptedSurvives DeliveredOnce
