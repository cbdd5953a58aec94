SPECIFICATION Spec
CONSTANTS
  Radix = 4
  Keys <- MCKeys
  Owners = {"ann", "bob"}
  Elements = {e1, e2, e3}
  NULL = NULL
SYMMETRY Symmetry
INVARIANTS NoDangling
PROPERTIES ImplementsMap
