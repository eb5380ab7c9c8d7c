\* The command "rma unsupplied".
CONSTANTS
  Address = {c1, c2, c3}
  Name = {a1, a2}
SYMMETRY Symmetry
SPECIFICATION Spec
PROPERTIES
  UnsuppliedRemoved
