SPECIFICATION Spec
CONSTANTS
  Thread = {t1, t2}
  File = {f1}
  NoFile = NoFile
  Minor = {ro, wo, rw}
  Perm <- AllKinds
  ro = ro
  wo = wo
  rw = rw
  WORD = 8
  Offsets = {0}
  BUFSIZE = 2
  Counts = {1, 2}
  Seeks <- BackAndForth
  Byte = {0, 1}
  Zero = 0
  Failures = {"copy"}
SYMMETRY Symmetry
INVARIANTS TypeOK CopiesInBuffer
PROPERTIES StoreSpec PermissionHonoured
