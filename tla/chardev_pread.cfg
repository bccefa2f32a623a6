SPECIFICATION Spec
CONSTANTS
  Thread = {t1}
  File = {f1}
  NoFile = NoFile
  Minor = {rw}
  Perm <- OnlyRdwr
  ro = ro
  wo = wo
  rw = rw
  WORD = 8
  Offsets = {3}
  BUFSIZE = 2
  Counts = {1}
  Seeks = {0}
  Byte = {0, 1}
  Zero = 0
  Failures = {}
INVARIANT CopiesInBuffer
