SPECIFICATION MCSpec
CONSTANTS
  Replicas = {r1, r2}
  Requests = {q1, q2}
  Items = {i1}
  Dims = {1, 2}
  Configured = 1
  MaxEvents = 1
  Images = {m1, m2}
  MaxAsked = 3
CHECK_DEADLOCK FALSE
SYMMETRY Symmetry
INVARIANTS StoredIsKept HitsAreTheirOwn
PROPERTIES AnswersAreReal
