CONSTANTS
  m1 = m1
  m2 = m2
  c1 = c1
  Reply = {m1, m2}
  Click = {c1}
  Launch = Launch
  None = None
  N = 2
  on_reject_max = 0
SPECIFICATION Spec
PROPERTY RejectedStaysCancelled
CHECK_DEADLOCK FALSE
