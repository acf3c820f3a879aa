SPECIFICATION Spec
CONSTANTS
  f1 = f1
  f2 = f2
  s1 = s1
  s2 = s2
  s3 = s3
  Null = Null
  Objects = {f1, f2}
  StdObjects = {"out"}
  Streams = {s1, s2, s3}
  Descriptors <- Numbers
  Paths = {a}
  Adoptable = {1, 3}
SYMMETRY Interchangeable
INVARIANTS
  StreamsAccounted
  HandleAgrees
  
CHECK_DEADLOCK FALSE
