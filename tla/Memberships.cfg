CONSTANTS
  Docs = {d1, d2, d3}
  NoDoc = NoDoc
  Grants = {g1, g2}
  MaxMoved = 2
  MaxCopies = 1
SPECIFICATION Spec
SYMMETRY Symmetry
INVARIANT InheritedFromAbove
INVARIANT GrantsReach
