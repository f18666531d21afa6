SPECIFICATION ErpSpec
CONSTANTS
  c1 = c1
  c2 = c2
  k1 = k1
  k2 = k2
  ErpClients = {c1, c2}
  Keys = {k1}
  Requests <- SampleRequests
  MaxClockSkew = 1
  MaxLifetime = 3
  TicksPerSecond = 2
  MaxClock = 7
SYMMETRY SameClients
INVARIANT AcceptedOnce
 
