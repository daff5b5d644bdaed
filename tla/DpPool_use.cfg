SPECIFICATION FairSpec
CONSTANTS
  Keys = {k1}
  Engines = {e1, e2}
  Conns = {c1, c2}
  Limit = 1
  None = None
CHECK_DEADLOCK FALSE
INVARIANT OneProcessPerPort
PROPERTY StreamsSurvive
PROPERTY IdleEngineStops
PROPERTY ConnectAnswers
