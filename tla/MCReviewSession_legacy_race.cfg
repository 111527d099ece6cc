CONSTANTS
  Requests = {r1, r2}
  Sessions = {s1}
  Texts = {x, y}
  None = None
  NoTurn = NoTurn
  MaxFollowUps = 2
  MaxEdits = 0
  TurnIndices <- Legacy
  Contracts = {2}
  Operations = {"start", "answer"}
SPECIFICATION Spec
INVARIANT SubmissionFillsOneTurn
