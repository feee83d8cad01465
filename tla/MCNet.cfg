\* Lists of up to three of seven entries; names of three addresses and one for arrays of one and two cells.
CONSTANTS
  a = a
  b = b
  c = c
  d = d
  e = e
  k = k
  l = l
  k6 = k6
  c6 = c6
  m6 = m6
  Loopback4 = Loopback4
  Loopback6 = Loopback6
  Bcast6 = Bcast6
  Entry = {a, b, c, d, e, k, l}
  Family <- Families
  Addr <- Addrs
  Mask <- Masks
  Scope <- Scopes
  Lo = {l}
  En5 = {e}
  MaxList = 3
  Bit = {0, 1, 2, 3}
  Build <- Builds
  Result <- Results
  Capacity = {1, 2}
  Cells = 2
  None = None
SPECIFICATION Spec
INVARIANTS TypeOK SteadyReported BroadcastOfSubnet ResolveFits
