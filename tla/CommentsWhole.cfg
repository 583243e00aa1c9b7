SPECIFICATION Spec
CONSTANTS
  Payload = 7
  Narrow = 2
  NoteRoom = 2
  LongRoom = 3
  TextRoom = 3
  MinText = 2
  Keys = {"A", "Eso", "ESO"}
  LongKeys = {"Eso", "ESO"}
  LookupOf <- Spellings
  Values <- SomeValues
  Notes <- LongerNotes
  Texts <- SomeTexts
  Updates <- SomeUpdates
  FirstCards <- Opened
  MaxVersion = 2
  MaxRows = 2
  MaxCalls = 2
  Disciplined = TRUE
INVARIANT CommentsWhole
CHECK_DEADLOCK FALSE
