\* Two overlapping callers of every component, one failure each.  Three pairs of values stand
\* for all the pairs, so that the symmetry of a part costs the others nothing.
SPECIFICATION Spec
CONSTANTS
  Null = Null
  Absent = Absent
  None = None
  Tokens = {t1, t2}
  Events = {v1}
  People = {p1, p2}
  Messages = {m1}
  Labels = {"INBOX"}
  Calls = {c1, c2}
  Kinds = {"user", "profile", "token", "account"}
  Edits = {"firstName", "location", "token", "accessToken", "refreshToken"}
  Drawing = {"profile", "token"}
  Clients = {c1, c2}
  MaxIds = 2
  Addresses = {t1, t2}
  Sessions = {p1, p2}
  Callers = {c1, c2}
  MaxUsers = 2
  MaxTokens = 2
  MaxFaults = 1
SYMMETRY Symmetry
INVARIANTS TypeOK OwnAccountOnly AnswersTellTheTruth SessionsAccounted
PROPERTY WritesExplained
CHECK_DEADLOCK FALSE
