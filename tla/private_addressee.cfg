CONSTANTS
  w1 = w1  w2 = w2
  c1 = c1  c2 = c2  c3 = c3
  f1 = f1  f2 = f2
  s1 = s1  s2 = s2
  alice = alice  bob = bob  carol = carol
  NoConn = NoConn  NoFd = NoFd  NoName = NoName  NoMsg = NoMsg  Null = Null  All = All
  User = {alice, bob, carol}
  Worker <- TwoWorkers
  Conn <- ThreeConns
  Fd <- TwoFds
  Slot <- TwoSlots
  Account <- OwnAccounts
  Kinds <- PrivateKinds
  MaxSend <- ThreeSends
SPECIFICATION Spec
SYMMETRY Interchangeable
INVARIANT PrivateReachesAddressee
