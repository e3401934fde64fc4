SPECIFICATION Spec
CONSTANTS
  Docs = {a, b}
  Links = {l}
  NoDoc = NoDoc
  NoLink = NoLink
  Events <- OneHolderEvents
  StoreKind = "mongo"
  BatchSize = 3
  MaxLog = 4
INVARIANTS NoGhosts
