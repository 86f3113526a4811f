SPECIFICATION Spec
CONSTANTS
  Packages = {p, q}
  StructNames = {s, t}
  Handlers = {g, h}
  MaxSubs = 3
  Nil = Nil
SYMMETRY Symmetry
INVARIANTS ListsMatchSubs
PROPERTY ImplementsPubSub
