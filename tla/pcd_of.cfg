SPECIFICATION FairSpec
CONSTANTS
  Thread = {t1, t2}
  NoThread = NoThread
  NDEVS = 2
  Drift = 1
  Failures <- AnyCall
INVARIANTS TypeOK NodesOwned NothingLeft CdevsOwned CountKept ServedInOrder
PROPERTIES DeviceLifecycles LoadEnds
