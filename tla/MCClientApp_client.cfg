\* Two requests, two recordings, a prompt of up to two bytes.
CONSTANTS
  letter = letter
  nbsp = nbsp
  Chars = {letter, nbsp}
  Width <- MCWidth
  Blanks = {nbsp}
  Cont = Cont
  MaxBytes = 2
  MaxRequests = 2
  MaxMessages = 2
  MaxRecordings = 2
  MaxLines = 1
  MaxEntries = 2
SPECIFICATION FairSpec
INVARIANTS
  TypeOK
  RepliesShown
  SpokenIsReply
PROPERTIES
  HeardItsClip
  EditsRight
  CompletedStays
  LinesServed
\* A client whose runtime and whose user are done may wait for ever.
CHECK_DEADLOCK FALSE
