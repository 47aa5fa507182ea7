\* A call repeated after its download failed (finding 3); the hub gives every file
CONSTANTS
  c1 = c1
  m1 = m1
  t1 = t1
  f1 = f1
  n1 = n1
  n2 = n2
  Call = {c1, c2}
  Model = {m1, m2}
  Target = {t1, t2}
  Requests <- MC_SameRequest
  File = {f1, f2}
  Name = {n1, n2}
  Basename <- MC_Basename
  Omissible = {}
  Manual <- MC_Manual
  Timeout = 1
  RequestTime = {0, 2}
  none = none
SPECIFICATION Spec
INVARIANT
  StartedOnWhole
