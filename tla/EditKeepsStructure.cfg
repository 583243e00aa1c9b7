SPECIFICATION Spec
CONSTANTS
  Payload = 5
  Narrow = 2
  NoteRoom = 1
  LongRoom = 2
  TextRoom = 3
  MinText = 2
  Keys = {"A", "Eso", "ESO"}
  LongKeys = {"Eso", "ESO"}
  LookupOf <- Spellings
  Values <- SomeValues
  Notes <- SomeNotes
  Texts <- SomeTexts
  Updates <- SomeUpdates
  FirstCards <- Opened
  MaxVersion = 2
  MaxRows = 2
  MaxCalls = 2
  Disciplined = FALSE
INVARIANT EditKeepsStructure
CHECK_DEADLOCK FALSE
