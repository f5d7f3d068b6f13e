CONSTANTS
  Clients = {c1, c2}
  Paths = {p1, p2}
  Stamps = {s1, s2}
  None = None
  Corrupt = Corrupt
  c1 = c1
  c2 = c2
  p1 = p1
  p2 = p2
  s1 = s1
  s2 = s2
SPECIFICATION Spec
INVARIANT TypeOK
INVARIANT NoLitter
PROPERTY NoLostUpdate
PROPERTY NeverTorn
