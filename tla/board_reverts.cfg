SPECIFICATION PanelSpec
CONSTANTS
  None = None
  Sent = Sent
  Failed = Failed
  Running = {"board"}
  c1 = c1
  c2 = c2
  Cards = {c1, c2}
  Start <- MCStart
  Columns = {"proposal_sent", "active"}
  Moves = {1, 2}
  u1 = u1
  u2 = u2
  Users = {u1, u2}
  Role <- MCRole
  MaxToken = 2
  MaxMessage = 3
  PageLimit = 1
  MaxPolls = 1
  ListPage = {"leads", "clients", "support"}
  Filters = {"all", "some"}
  NoFilter = "all"
  MaxMade = 1
  Kinds0 = {"lead", "service", "client"}
  FirstMain <- MCFirst
  Attempts = 2
  MaxPatch = 1
  MaxParts = 2
  Screens = {"dashboard", "home", "diagnostic", "projects", "service", "team"}
  Conversions = 2
INVARIANT
  RevertsOnError
CHECK_DEADLOCK FALSE
