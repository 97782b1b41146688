SPECIFICATION Spec
CONSTANTS
  a = a
  b = b
  c = c
  n = n
  verb = verb
  blank = blank
  Plus = Plus
  Minus = Minus
  Blanks <- MCBlanks
  Taken <- MCTaken
  Cr = Cr
  Bar = Bar
  Comma = Comma
  Intent <- MCIntent
  Name <- MCName
  Subscribe <- MCSubscribe
  SubscriberName <- MCSubscriberName
  Subs <- MCSubs
  Types <- MCTypes
  Characters <- MCCharacters
  Commands <- MCCommands
  BatchEnds <- MCBatchEnds
  ClockMod = 8
  MaxNow = 3
  MaxReadBuf = 100
INVARIANTS
  CommandsAsWritten
  NameAsWritten
  EntriesWereCommanded
PROPERTIES
  RemovedWereIdle
  OverdueIsRemoved
  CommandsAreExecuted
CHECK_DEADLOCK FALSE
