CONSTANTS
  Requests = {r1, r2}
  Sessions = {s1}
  Texts = {x, y}
  None = None
  NoTurn = NoTurn
  MaxFollowUps = 2
  MaxEdits = 0
  TurnIndices <- EveryClient
  Contracts = {2}
  Operations = {"start", "answer", "abandon", "draft"}
  Silence = Silence
  LastTurn = 1
  MaxWords = 2
  MaxVisits = 4
  MaxTasks = 4
SPECIFICATION MCSpec
SYMMETRY Symmetry
INVARIANTS TypeOK TranscriptIsFaithful 
PROPERTIES ImplementsReviewLog
