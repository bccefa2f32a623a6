SPECIFICATION Spec
CONSTANTS
  File = {f1, f2}
  NoDevice = NoDevice
  NrDevs = 1
  Majors = {0, 1, 2}
  Params = {1}
  Failures = {"region"}
SYMMETRY Symmetry
INVARIANT NoStaleDevice
