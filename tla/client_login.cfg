CONSTANTS
  alice = alice  bob = bob
  Name = {alice, bob}
  NoName = NoName  Torn = Torn
  Cap = 1
  Says <- ThisServersWords
  MaxTyped = 4
  MaxNews = 1
SPECIFICATION Spec
INVARIANT GrantIsNoticed
