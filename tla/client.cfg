CONSTANTS
  alice = alice  bob = bob
  Name = {alice, bob}
  NoName = NoName  Torn = Torn
  Cap = 1
  Says <- ClientsWords
  MaxTyped = 4
  MaxNews = 1
SPECIFICATION FairSpec
INVARIANTS
  TypeOK
  
  NothingBeforeLogin
PROPERTIES ServerGoneEndsClient WriteReturns
