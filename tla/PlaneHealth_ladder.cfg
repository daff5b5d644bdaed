SPECIFICATION Spec
CONSTANTS
  Pairs = {"hy2", "mgt"}
  Engine = {"hy2"}
  Streams = {s1, s2}
  Backoff <- MCBackoff
  Window = 2
  Demote = 3
  SlowByte = 1
  Deadline = 3
  MaxNow = 6
SYMMETRY MCStreams
INVARIANT EscalationTakesTime
PROPERTY PauseIsNotFed
