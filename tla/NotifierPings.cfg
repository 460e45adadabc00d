SPECIFICATION NotifierSpec
CONSTANTS
  Thread = {p1, p2, p3}
  Window = 2
  I64Max = 5
  MaxTime = 5
SYMMETRY Sym
INVARIANT NotifierTypeOK
PROPERTIES
  StampsApart
  SilentIsCovered
