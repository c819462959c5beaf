CONSTANTS
  w1 = w1  w2 = w2
  alice = alice  bob = bob
  p1 = p1  p2 = p2
  All = All  Colon = Colon  Eol = Eol
  Worker <- TwoWorkers
  Name <- TwoNames
  Password <- TwoPasswords
  Scripts <- Mixed
  Width = 3
  Piece = 5
  Prefix = 1
  MaxCrashes = 1
  Child = {1}
  MaxDays = 3
  HeadLength = {36, 162}
  DayLength = {134, 349}
  ChunkLength = {4096}
SPECIFICATION Spec
INVARIANTS
  TypeOK
  AccountLinesWhole
  
  
  NothingOverwritten
  FiledForBoth
  HistoryFaithful
  ShortHistoryWhole
  
  OneAnswer
