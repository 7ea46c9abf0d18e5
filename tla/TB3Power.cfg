SPECIFICATION FairSpec
CONSTANTS
  Limit = 2
  LACR = TRUE
INVARIANTS NotUnderUse PowerOnBounded
PROPERTIES PowersOn
