\* One request with two matches.
SPECIFICATION Spec
CONSTANTS
  Disks <- OneDisk
  Lines <- TwoMatches
  Requests = {r1}
  Refused = {}
  Endless = {}
  Password = FALSE
  None = None
INVARIANT MatchIsOfTheQuery
CHECK_DEADLOCK FALSE
