CONSTANTS
  Handlers = {"_E42", "THDR"}
  TNAT = TRUE GP5F = TRUE Recurse = TRUE
  PollMax = 1 RsmiMax = 1 MaxSleeps = 2 MaxPlugs = 1
SPECIFICATION FairSpec
INVARIANTS  TempBusPrivate PowerRestored
PROPERTIES WakeCompletes HandlersReturn
