\* Three concurrent updates of the counters of a service, or of a template.
SPECIFICATION Spec
CONSTANTS
  Updates = {u1, u2, u3}
  Times = {2, 7}
  Sizes = {1}
  Kinds = {"service", "template"}
SYMMETRY Symmetry
INVARIANTS TypeOK CallsAddUp BytesAddUp HighestWasReported ExactWithoutOverlap
