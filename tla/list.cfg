CONSTANTS
  t1 = t1  t2 = t2
  f1 = f1  f2 = f2
  s1 = s1  s2 = s2
  ip1 = ip1  alice = alice
  Null = Null  NoFd = NoFd  NoName = NoName
  Thread <- TwoThreads
  Fd <- TwoFds
  Slot <- TwoSlots
  Ip = {ip1}
  Name = {alice}
  Calls <- TwoScripts
SPECIFICATION Spec
SYMMETRY Interchangeable
INVARIANTS
  TypeOK
  ListShape
  UniqueFds
  WalkMissesNobody
PROPERTIES ClosedWhenUnlinked ImplementsDirectory
CHECK_DEADLOCK FALSE
