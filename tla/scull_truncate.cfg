SPECIFICATION Spec
CONSTANTS
  Thread = {t1}
  File = {f1, f2}
  NoFile = NoFile
  QUANTUM = 1
  QSET = 2
  WORD = 16
  MaxPos = 3
  Counts = {1, 2}
  Byte = {0, 1}
  Zero = 0
  Junk = Junk
  OpenModes = {"RDONLY", "WRONLY"}
  Offsets = {0, 2}
  Failures = {"array", "quantum", "copy"}
SYMMETRY Symmetry
INVARIANTS ShortListSafe NothingLeaked
PROPERTY StoreSpec
CHECK_DEADLOCK FALSE
