\* From directories to answers: two requests at once, each with at most one
\* call of the parser.
SPECIFICATION FairSpec
CONSTANTS
  Disks <- SomeDisks
  Lines <- SomeLines
  Requests = {r1, r2}
  Refused = {"illegal"}
  Endless = {"endless"}
  Password = TRUE
  None = None
INVARIANTS ConfigIsOfTheDisk ServicesAreShown MatchIsOfTheQuery
PROPERTY RequestsAreAnswered
CHECK_DEADLOCK FALSE
