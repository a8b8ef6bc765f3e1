\* Two services, two requests at once.
SPECIFICATION MCFairSpec
CONSTANTS
  Requests = {r1, r2}
  Matchers = {"m1", "m2", "m3", "m4"}
  None = None
  UnknownPath = "/"
  MaxErrors = 2
  ServicesEnabled <- MCServices
  PathOf <- MCPathOf
  TemplatesOf <- MCTemplatesOf
  ForwardReduced <- MCForwardReduced
INVARIANTS TypeOK MatchersAreExclusive NoMatcherIsLost ResponseTellsWhatHappened MatchesAddUp
PROPERTY RequestsAreAnswered
