SPECIFICATION CatalogSpec
CONSTANTS
  v1 = v1
  v2 = v2
  d1 = d1
  c1 = c1
  r1 = r1
  NoVersion = NoVersion
  Pages = {TRUE}
  Versions = {v1, v2}
  Digests = {d1}
  Callers = {c1}
  Readers = {r1}
  Ttl = 1
  Latency = 1
  MaxTime = 5
  MaxEpoch = 3
INVARIANT PageMatches
