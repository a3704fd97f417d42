SPECIFICATION FairSpec
CONSTANTS
  Task = {t1, t2}
  Submit = {c1, c2}
  Default = Default
  Blank = Blank
  Torn = Torn
  NONE = NONE
  RawPcbs = 4
INVARIANTS StartedOnlyAfterWifi RebootNeedsSubmission
PROPERTIES ModeIsDecided SubmissionReboots 
