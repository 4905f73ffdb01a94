\* One request, no recording, a prompt of one byte.
CONSTANTS
  letter = letter
  nbsp = nbsp
  Chars = {letter, nbsp}
  Width <- MCWidth
  Blanks = {nbsp}
  Cont = Cont
  MaxBytes = 1
  MaxRequests = 1
  MaxMessages = 1
  MaxRecordings = 0
  MaxLines = 2
  MaxEntries = 2
SPECIFICATION Spec
INVARIANT NoMessageLost
