SPECIFICATION Spec
CONSTANTS
  Tasks = {p}
  Logical = {0}
  dd = dd
  hd = hd
  Types = {dd, hd}
  DDFFS = dd
  None = None
SYMMETRY Symmetry
INVARIANTS BootGeometryAsDocumented
