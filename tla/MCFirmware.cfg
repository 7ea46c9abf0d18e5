SPECIFICATION MCSpec
CONSTANTS
  Reports <- MCReports
  Unknown = 15
  Ones = 255
  Workers = {w1, w2}
  MaxEvents = 2
  Threads = {t1, t2}
  Sensors = {1, 2}
  Jobs = {"_BST", "_BIF", "_Q66", "PAT0", "PAT1"}
  TextLen = 2
  Free = free
INVARIANTS
  
  OwnAnswer NothingStranded ToldCurrent
  OwnReads OwnThreshold
PROPERTIES CallsReturn
