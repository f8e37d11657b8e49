SPECIFICATION VersionsSpec
CONSTANTS
  f1 = f1  f2 = f2  s1 = s1  s2 = s2  s3 = s3  a1 = a1  c1 = c1
  Fn = {f1}
  Source = {s1,s2,s3}
  NoSource = NoSource
  NoDefault = NoDefault
  MaxVersion = 3
  Keeps = {1,2}
  DefaultKeep = 2
  Admin = {a1}
  Caller = {c1}
  Torn = FALSE
INVARIANTS
  CacheFresh
