CONSTANTS
  Requests = {r1, r2}
  Sessions = {s1}
  Texts = {x}
  None = None
  NoTurn = NoTurn
  MaxFollowUps = 1
  MaxEdits = 1
  TurnIndices <- AllIndexed
  Contracts = {2}
  Operations = {"start", "answer", "draft", "reattempt", "coaching", "ground", "consent"}
SPECIFICATION FairSpec
INVARIANT ProviderHasConsent
PROPERTY RequestsFinish
