SPECIFICATION Spec
CONSTANTS
  Readers = {r1, r2}
  Size = 2
INVARIANT LookupComplete
