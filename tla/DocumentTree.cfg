CONSTANTS
  Docs = {d1, d2, d3}
  Collections = {k1, k2}
  NoDoc = NoDoc
  NoCollection = NoCollection
SPECIFICATION Spec
SYMMETRY Symmetry
CONSTRAINT Whole
INVARIANT AcyclicParents
INVARIANT ShownOnce
INVARIANT ShownIsCurrent
INVARIANT ActiveIsShown
