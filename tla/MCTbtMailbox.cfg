SPECIFICATION MailSpec
CONSTANTS
  Threads = {t1, t2}
  PollMax = 2
  Requests = TRUE
  Keeps = TRUE
  Handlers = {"_E42"}
  TNAT = TRUE GP5F = TRUE Recurse = TRUE
  RsmiMax = 1 MaxSleeps = 1 MaxPlugs = 1
INVARIANTS NothingLeftValid
PROPERTIES CallsReturn
