SPECIFICATION Spec
CONSTANTS
  c1 = c1
  c2 = c2
  Clients = {c1, c2}
  Allowed = {c1}
  Multicast = {}
  Scripts <- MCScripts
  MaxEvents = 2
  None = None
INVARIANTS TranslationsLive ReplyToRequester
CHECK_DEADLOCK FALSE
PROPERTIES FailedClientsLeave
