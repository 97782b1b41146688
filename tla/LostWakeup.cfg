SPECIFICATION FairSpec
CONSTANTS
  c1 = c1
  c2 = c2
  n1 = n1
  n2 = n2
  t1 = t1
  t2 = t2
  s1 = s1
  s2 = s2
  EmptyName = EmptyName
  NoSub = NoSub
  NoClient = NoClient
  StartsWith <- MCStartsWith
  Clients = {c1}
  Names = {n1}
  NameReads <- MCOneName
  Faults = {}
  Types = {t1}
  Lengths = {1}
  Capacity = 2
  MaxBatches = 2
  Subs = {s1}
  Timed = {}
  MaxCommands = 0
PROPERTIES
  PublishedIsForwarded
