SPECIFICATION Spec
CONSTANTS
  Servers = {s1, s2, s3}
  Windows = {w1}
  Direct = Direct
  MaxFailCount = 2
  Latencies = {100, 200}
  Unknown = Unknown
  MinLimit = 100
  Caps = {0, 2}
  Limits = {0, 200}
INVARIANTS TypeOK PoolCapped FailuresMatch LatencyIsOfHealthy
PROPERTIES OnlyWorseDropped Rechecked
