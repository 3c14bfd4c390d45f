CONSTANTS
  a = a
  b = b
  q = q
  none = none
  Soldiers = {a, b}
  Queen = q
  NoDid = none
  Nbrs <- MCNbrs
  OriginTtl = 3
  Far = a
SPECIFICATION Spec
PROPERTY FarReported
