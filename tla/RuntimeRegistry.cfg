SPECIFICATION Spec
CONSTANTS
  Ids = {s1}
  Clients = {c1, c2}
  Pids = {101, 102}
  MaxSessions = 3
INVARIANTS
  NoForgottenProcess
  ForcedShellIsFresh
PROPERTIES
  SessionsEnd

CHECK_DEADLOCK FALSE
