CONSTANTS
  l = l  p1 = p1  p2 = p2  pub = pub  v6 = v6  i1 = i1  s1 = s1  s2 = s2
  Peers <- MC_Peers
  LocalPeer = l
  Ip4Public = {pub}
  Ip4Loopback = {}
  NonIp4 = {v6}
  EnableLoopback = FALSE
  PruneAddresses = TRUE
  Samples <- MC_Samples
  Identities <- MC_Identities
  Subscribers <- MC_Subscribers
  InputSources <- MC_InputSources
  NoPeer = NoPeer  NoInfo = NoInfo  NoRtt = NoRtt  NoSample = NoSample
  LocalEventKinds <- MC_LocalEventKinds
INIT Init
NEXT Next
CONSTRAINT StateBound
SYMMETRY MC_PeerSymmetry
INVARIANT TypeOK ObserverConsistent
PROPERTY NotifyExact
