\* Every error, e-mail, text, string and call up to the bounds; lists of five items, one more to
\* come; two connections under two adaptors.
SPECIFICATION Spec
CONSTANTS
  Absent = Absent
  None = None
  Items = {1, 2, 3, 4, 5, 6}
  Firsts = {Absent, 1}
  Limits = {Absent, 0, 1, 2, 3}
  MaxEdits = 2
  Letters = {x, y}
  MaxText = 8
  MaxCalls = 2
  Codes = {48, 97, 255}
  Half = 128
  MaxString = 5
  PushTokenNames = {"true", "1", "abc"}
  MaxElements = 2
  MaxParams = 2
  Sockets = {s1, s2}
  Holders = {h1, h2}
  Names = {"message"}
  MaxDrawn = 3
SYMMETRY Symmetry
INVARIANTS TypeOK StatusKept LossesExplained SocketsApart
PROPERTY AlgorithmsAgree
CHECK_DEADLOCK FALSE
