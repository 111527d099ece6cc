CONSTANTS
  Sources = {s1}
  Workers = {w1, w2}
  Confirms = {c1}
  Topics = {t1}
  Drafts = {d1, d2}
  Paths = {"plan"}
  None = None
  Attempts = 1
  MaxFaults = 1
  Operations = {"retry", "edit", "delete", "topic"}
SPECIFICATION Spec
INVARIANT NoCopyAfterDelete
CHECK_DEADLOCK FALSE
