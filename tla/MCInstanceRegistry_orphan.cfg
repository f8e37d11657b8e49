SPECIFICATION RegistrySpec
CONSTANTS
  i1 = i1  i2 = i2  i3 = i3  u1 = u1  d1 = d1  d2 = d2
  Name = {"app"}
  Id = {i1, i2}
  None = None
  User = {u1}
  Deleter = {d1}
INVARIANTS
  DataNamed
