\* One device that reconnects, three calls that fill the queues, a restart.
SPECIFICATION LaterSpec
CONSTANTS
  d1 = d1
  c1 = c1
  c2 = c2
  k1 = k1
  k2 = k2
  k3 = k3
  None = None
  Devices = {d1}
  Conns = {c1, c2}
  Calls = {k1, k2, k3}
  outboundCap = 0
  sendCap = 0
  maxPendingCalls = 1
  MaxRestarts = 1
INVARIANTS
  RevokedIsCutOff
  LiveConnectionKept
  CallSlots

  
\* Every connection used and every call returned.
CHECK_DEADLOCK FALSE
