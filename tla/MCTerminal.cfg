SPECIFICATION Spec
CONSTANTS
  MaxOptData = 3
  Text <- MCText
  Lines <- MCLines
  Passwords <- MCPasswords
  Segments <- MCSegments
  Split <- MCSplit
  CallProfiles <- MCCallProfiles
  Entries <- MCEntries
  Gated = {2}
  Chunks <- MCChunks
  Messages <- MCMessages
  Guard = 1
  BulkQuiet = 2
  MaxEscapes = 4
  MaxUnread = 1
INVARIANTS
  TypeOK
  UploadIntact
  
  OneResultPerLine
  InfoTold
  AnswersWerePressed
PROPERTIES
  EscapeIsTyped
  
