SPECIFICATION Spec
CONSTANTS
  Thread = {t1, t2}
  File = {f1, f2}
  NoFile = NoFile
  QUANTUM = 2
  QSET = 1
  WORD = 16
  MaxPos = 3
  Counts = {1, 2}
  Byte = {0, 1}
  Zero = 0
  Junk = Junk
  OpenModes = {"RDWR"}
  Offsets = {}
  Failures = {"quantum", "signal"}
SYMMETRY Symmetry
INVARIANTS TypeOK NoFault DenseDevice
PROPERTY StoreSpec
