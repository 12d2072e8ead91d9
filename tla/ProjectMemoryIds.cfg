\* One process with a bridge that also imports a document.
CONSTANTS
  Engines = {b}
  Bridged = {b}
  Pages = 1
  Sections <- MCFlat
  MaxId = 3
  MaxRevision = 2
  MaxUnsaved = 1
  MaxPages = 2
  MaxTokens = 3
  MaxTurns = 3
  PageTokens <- MCPageTokens
  OutlinePages = 2
  MaxEntries = 4
  ShortDocument = 1
  LongestDocument = 2
  CacheEntries = 2
  CacheBytes = 4
  Snapshots = {1, 2, 3, 5}
  MaxRequests = 5
  Entities = {x, y, z}
  Targets = {z}
  MaxText = 5
  MaxWindow = 3
  MaxEdges = 4
SPECIFICATION Spec
CHECK_DEADLOCK FALSE
INVARIANTS
  SourcesAreEvidence
