SPECIFICATION Spec
CONSTANTS
  Task = {t1, t2}
  Submit = {c1, c2}
  Default = Default
  Blank = Blank
  Torn = Torn
  NONE = NONE
  RawPcbs = 4
INVARIANT ConfigExcludesNormal
