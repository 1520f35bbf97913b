\* The book under an arbitrary caller, checked against the abstract
\* registry: three peers (one local), a public and a non-IPv4 location,
\* loopback off, pruning on, two caller sources, no subscriber.
CONSTANTS
  l = l  p1 = p1  p2 = p2  pub = pub  v6 = v6  i1 = i1  s1 = s1  s2 = s2
  Peers <- MC_Peers
  LocalPeer = l
  Ip4Public = {pub}
  Ip4Loopback = {}
  NonIp4 = {v6}
  EnableLoopback = FALSE
  PruneAddresses = TRUE
  Samples <- MC_Samples
  Identities <- MC_Identities
  Subscribers <- MC_NoSubscribers
  InputSources <- MC_TwoSources
  NoPeer = NoPeer  NoInfo = NoInfo  NoRtt = NoRtt  NoSample = NoSample
INIT Init
NEXT Next
CONSTRAINT StateBound
PROPERTY RegistryRefined
