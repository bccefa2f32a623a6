SPECIFICATION FairSpec
CONSTANTS
  File = {f1}
  NoDevice = NoDevice
  NDEVS = 2
  Drift = 1
  Failures <- AnyCall
INVARIANTS TypeOK Stacked AllOrNothing NothingLeft EveryDeviceServed OpenFilesHoldModule
PROPERTIES DeviceLifecycles LoadEnds
CHECK_DEADLOCK FALSE
