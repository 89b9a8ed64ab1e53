CONSTANTS
  Messages = {1, 2, 3}
  Malformed = {1}
  Choking = {2}
  MaxWakes = 1
  Letters = {1}
  MaxCycles = 1
  MaxPosts = 2
  MaxTools = 1
  MaxFaults = 1
  MaxCuts = 1
  MaxEnds = 1
SPECIFICATION FairSpec
INVARIANTS PromptOnce RepliesAreSound NoMessageLost NothingForgotten
PROPERTIES InboxServed WakeServed
CHECK_DEADLOCK FALSE
