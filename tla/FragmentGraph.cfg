\* Repeated calls with up to 5 edges between 5 fragments, 4 of which fit.
SPECIFICATION Spec
CONSTANTS
  Names = {a, b, c, d, e}
  MaxFragments = 4
  MaxEdges = 5
SYMMETRY Symmetry
INVARIANTS TypeOK GraphIsOfThisCall SpreadsComeFirst
PROPERTY AnswersAreRight
