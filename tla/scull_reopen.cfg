SPECIFICATION Spec
CONSTANTS
  Thread = {t1}
  File = {f1}
  NoFile = NoFile
  QUANTUM = 1
  QSET = 1
  WORD = 16
  MaxPos = 2
  Counts = {1}
  Byte = {0}
  Zero = 0
  Junk = Junk
  OpenModes = {"WRONLY"}
  Offsets = {}
  Failures = {}
INVARIANT NoUseAfterFree
CHECK_DEADLOCK FALSE
