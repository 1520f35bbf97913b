\* One remote peer that connects: the CONNECTIONS gauge against the
\* open connections.
CONSTANTS
  l = l  p1 = p1  p2 = p2  pubA = pubA  pubB = pubB  v6 = v6  i1 = i1  s1 = s1
  L1 = L1  L2 = L2  la1 = la1  la2 = la2  x1 = x1
  Peers <- MC_Peers1
  LocalPeer = l
  Ip4Public = {pubA, pubB}
  Ip4Loopback = {}
  NonIp4 = {}
  EnableLoopback = FALSE
  PruneAddresses = TRUE
  Samples <- MC_Samples
  Identities <- MC_Identities
  Subscribers = {}
  InputSources <- MC_InputSources
  NoPeer = NoPeer  NoInfo = NoInfo  NoRtt = NoRtt  NoSample = NoSample
  MaxEnvAdds = 3
  MaxQueue = 1
  ListenerIds = {}
  ListenAddrs = {}
  ExtAddrs = {}
INIT SInit
NEXT SNext
INVARIANT ConnectionsGauge
