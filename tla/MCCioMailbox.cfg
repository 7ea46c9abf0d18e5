CONSTANTS
  p1 = p1  p2 = p2  b1 = b1  b2 = b2
  Ports = {p1, p2}
  Bits = {b1, b2}
  Calls <- MCCalls
  PowerOn <- MCPowerOn
  LastTry = 4
  PollMax = 3
  Late = FALSE
  None = None
SPECIFICATION Spec
PROPERTIES OnlyMaskedBits 
