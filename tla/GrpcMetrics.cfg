SPECIFICATION GrpcFairSpec
CONSTANTS
  GrpcClients = {c1, c2}
  Nobody = Nobody
  Ttl = 1
  Drift = 5
  MaxCount = 1
INVARIANTS OneFetchPerTtl OffMeansOff
PROPERTY CallsReturn
