CONSTANTS
  Clients = {c1, c2}
  Paths = {p1}
  Stamps = {s1}
  None = None
  Corrupt = Corrupt
  c1 = c1
  c2 = c2
  p1 = p1
  s1 = s1
SPECIFICATION Spec
INVARIANT OnlyCorruptAside
