SPECIFICATION FairSpec
CONSTANTS
  Thread = {t1, t2}
  File = {f1, f2}
  NoFile = NoFile
  QUANTUM = 1
  QSET = 1
  WORD = 16
  MaxPos = 2
  Counts = {1}
  Byte = {0}
  Zero = 0
  Junk = Junk
  OpenModes = {"RDONLY", "WRONLY"}
  Offsets = {}
  Failures = {"item", "array", "quantum", "copy", "signal"}
INVARIANTS MutualExclusion OnlyNextDangles
PROPERTY ReadsLeaveMemory CallsReturn
CHECK_DEADLOCK FALSE
