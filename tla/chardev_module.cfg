SPECIFICATION FairSpec
CONSTANTS
  File = {f1, f2}
  NoDevice = NoDevice
  MINOR_COUNT <- Devices
  Failures <- AnyCall
INVARIANTS TypeOK NothingLeft
PROPERTIES LoadEnds LifecycleSpec
