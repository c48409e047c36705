SPECIFICATION Spec
CONSTANTS
  Parts = {"core", "entry", "tun", "dns", "store", "serve", "socks", "front"}
  p1 = p1
  p2 = p2
  c1 = c1
  c2 = c2
  c3 = c3
  g1 = g1
  g2 = g2
  s1 = s1
  s2 = s2
  k1 = k1
  k2 = k2
  Profiles <- MCProfiles
  None = None
  MaxGen = 4
  ExitCap = 1
  Cancels <- MCAlways
  Conns <- MCConns
  IPv4s <- MCIPv4s
  Gateways <- MCGateways
  NoGateway = NoGateway
  TunProfiles <- MCTunProfiles
  MaxTuns = 2
  MaxRoams = 1
  Endpoints = 2
  Queries <- MCQueries
  Responses <- MCResponses
  Instances = {1}
  Words = {"", "a", "b", "h", "chrome", "firefox", "socks", "other", "http"}
  Links <- MCLinks
  Files <- MCFiles
  MaxProfiles = 2
  Configs <- MCConfigs
  Peers <- MCPeers
  Apps <- MCApps
  CoreReplies <- MCCoreReplies
  FrontConfigs <- MCFrontConfigs
CHECK_DEADLOCK FALSE
INVARIANTS
  ComponentsInv
  StopReleases
  TunRoutes
  DnsAnswers
  
PROPERTIES
  LateCoreDoomed
  StoppedEnds
  CrashRestarts
  StopEndsAll
  TunEnds
  QueryAnswered
  StoreSafe
  ServeEnds
