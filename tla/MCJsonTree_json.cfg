SPECIFICATION Spec
CONSTANTS
  Values = {v1, v2, v3, v4}
  Names = {a, b}
  STARTING_CAPACITY = 1
  OBJECT_MAX_CAPACITY = 2
  ARRAY_MAX_CAPACITY = 2
  MAXPATH = 2
  None = None
SYMMETRY Symmetry
INVARIANTS
  TypeOK
  OneOwner
  SetIsFound
PROPERTIES
  LossOnlyWhere
  ImplementsStore
