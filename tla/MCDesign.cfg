SPECIFICATION SuiteSpec
CONSTANTS
  NoPin = NoPin
  Nothing = Nothing
  PartRefs = {"u", "j"}
  Devices = {"x", "xa", "xb"}
  Official = {"xb"}
  Holes = {"hole"}
  Owned = {"u"}
  MaxChanges = 1
  MaxRepairs = 1
  MaxResumes = 1
  Qualified <- OrderCodes
  Sheet <- DataSheets
  Stock <- Catalogue
  Shelf <- OnShelf
  Footprints <- Outlines
  Family <- AllFamilies
  Libraries <- Installations
  Offered <- Offers
  Wants <- Demands
  Settings <- Launches
  StrictRunner <- Strict
  DraftRunner <- Draft
  ResumedRunner <- Resumed
  RetriedRunner <- Retried
INVARIANTS  SynthesisSound SelectionSound
PROPERTIES KeepsAccepted PreparationKeeps
CHECK_DEADLOCK FALSE
