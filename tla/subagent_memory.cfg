CONSTANTS
  m1 = m1
  m2 = m2
  q1 = q1
  q2 = q2
  Messages = {m1, m2}
  Questions = {q1, q2}
  Prompt = Prompt
  None = None
  Journaled = FALSE
  MaxTurnCycles = 3
  MaxLives = 1
SPECIFICATION FairSpec
INVARIANTS NoAskerLeft AnsweredFromTurn FifoDelivery
PROPERTIES AnswerOnce CloseServesAll AskersReleased MailIsServed
