SPECIFICATION Spec
CONSTANTS
  NoFile = NoFile  None = None
  Metadatas <- MCMetadatas
  MaxEvents = 1
INVARIANTS TypeOK PublishesAsSpecified PublishedIsUsable 
