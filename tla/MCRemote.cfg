SPECIFICATION Spec
CONSTANTS
  m = m
  u = u
  Users = {m, u}
  Main = m
  Programs <- MCPrograms
  Hellos <- MCHellos
  Answers <- MCAnswers
  Casts = {"call", "fail"}
  ALL = {"SET_FREQ", "SET_AGC"}
  Granted = {"SET_FREQ"}
  mc_if = TRUE
  EarlyDestroy = FALSE
  MaxServer = 1
  None = None
INVARIANTS SentAsAsked NoThreadLeft
PROPERTY DestroyReturns
CHECK_DEADLOCK FALSE
