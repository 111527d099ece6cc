CONSTANTS
  Requests = {r1, r2}
  Sessions = {s1, s2}
  Texts = {x}
  None = None
  NoTurn = NoTurn
  MaxFollowUps = 0
  MaxEdits = 2
  TurnIndices <- AllIndexed
  Contracts = {2}
  Operations = {"start", "answer", "abandon", "learn", "ground", "archive"}
SPECIFICATION Spec
SYMMETRY Symmetry
INVARIANTS OneLiveSession NoRecallWhileHeld
PROPERTY QuestionStands
