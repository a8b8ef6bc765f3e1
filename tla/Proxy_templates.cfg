\* Two services, two requests at once.
SPECIFICATION Spec
CONSTANTS
  Requests = {r1, r2}
  Matchers = {m1, m2, m3, m4}
  None = None
  UnknownPath = "/"
  MaxErrors = 1
  ServicesEnabled <- MCServices
  PathOf <- MCPathOf
  TemplatesOf <- MCTemplatesOf
  ForwardReduced <- MCForwardReduced
SYMMETRY Symmetry
INVARIANT MatchedByOwnTemplates
