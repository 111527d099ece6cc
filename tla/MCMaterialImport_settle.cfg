CONSTANTS
  Sources = {s1, s2}
  Workers = {w1, w2}
  Confirms = {c1, c2}
  Topics = {t1}
  Drafts = {d1}
  Paths = {"plan"}
  None = None
  Attempts = 1
  MaxFaults = 1
  Operations = {"retry", "edit", "delete", "topic"}
SPECIFICATION FairSpec
PROPERTIES ImportsEnd ResultsStand
CHECK_DEADLOCK FALSE
