SPECIFICATION MCSpec
CONSTANTS
  k1 = k1
  k2 = k2
  p1 = p1
  p2 = p2
  main = main
  other = other
  system = system
  root = root
  q1 = q1
  q2 = q2
  i1 = i1
  i2 = i2
  noip = noip
  norule = norule
  Tables = {"exact", "prefix"}
  Keys = {k1, k2}
  Capacity = 1
  MaxFaults = 1
  Subjects = {"path"}
  Matching <- MCMatching
  Main = main
  Other = other
  System = system
  Pids = {p1, p2}
  PidsCapacity = 3
  MaxTick = 2
  Cpus = {"c1", "c2"}
  Tgids = {q1, q2}
  SockAddrs <- MCSockAddrs
  NoIp = noip
  NoPort = 0
  Window = 2
  StatsCapacity = 1
  IpThreshold = 2
  MaxConnects = 2
  TracePids = {p1, p2, root}
  Root = root
  Reaper = system
  MaxDepth = 2
  ExecSlots = 1
  MaxCpus = 1
  MaxForks = 3
  Reports = {"h1", "h2"}
  Files <- Shipped
  NoRule = norule
  DedupMax = 3
  MaxEvents = 3
  MaxNow = 4
INVARIANT WrittenFrequencyFires
