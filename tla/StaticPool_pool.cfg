\* A pool of nine units over blocks of one-unit headers, any order of calls.
SPECIFICATION Spec
CONSTANTS
  Memory = 10
  Header = 1
  Sizes = {0, 1, 2, 4}
INVARIANTS
  Tiled
  MetricsAreTrue
PROPERTIES
  ImplementsHeap
