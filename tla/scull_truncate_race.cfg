SPECIFICATION Spec
CONSTANTS
  Thread = {t1, t2}
  File = {f1, f2}
  NoFile = NoFile
  QUANTUM = 2
  QSET = 1
  WORD = 16
  MaxPos = 1
  Counts = {1}
  Byte = {0}
  Zero = 0
  Junk = Junk
  OpenModes = {"WRONLY"}
  Offsets = {}
  Failures = {}
INVARIANT NoFault
CHECK_DEADLOCK FALSE
