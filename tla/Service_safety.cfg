\* Two clients, every combination of the three sources, two mails at a time, four handlers; one failure
\* among the requests, two elsewhere.
SPECIFICATION Spec
CONSTANTS
  Absent = Absent
  None = None
  Clients = {c1, c2}
  MaxTries = 2
  Customers = {"ann", "bob"}
  Calls = {k1, k2}
  Handlers = {h1, h2, h3, h4}
  MaxVisits = 5
  MaxRequestFaults = 1
  MaxFaults = 2
INVARIANTS TypeOK RequestsAccounted MailsAccounted
PROPERTIES StartAccounted ChainsAccounted WorkReturns
CHECK_DEADLOCK FALSE
