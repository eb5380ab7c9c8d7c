\* Three clients and two abos.
CONSTANTS
  Address = {c1, c2, c3}
  Name = {a1, a2}
SYMMETRY Symmetry
SPECIFICATION Spec
INVARIANTS
  TypeOK
  LinksAgree
  NothingDangles
  ArraysSound
PROPERTIES
  ServerSpec
