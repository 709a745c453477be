SPECIFICATION MCSpec
CONSTANTS
  Keys <- MCKeys
  None = 0
  Patterns <- MCPatterns
  PageCount = 2
  MaxPressed = 3
  MaxOthers = 1
  MaxFetches = 2
INVARIANTS PaneConsistent PollAlive
PROPERTIES PasswordKept AnswersCurrent Converges
