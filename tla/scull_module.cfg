SPECIFICATION Spec
CONSTANTS
  File = {f1, f2}
  NoDevice = NoDevice
  NrDevs = 2
  Majors = {0, 1, 2}
  Params = {0, 1}
  Failures = {"region", "devices", "cdev"}
SYMMETRY Symmetry
INVARIANTS TypeOK OpenDeviceReady CdevsInRegion ExitFindsEveryDevice NothingHeld
