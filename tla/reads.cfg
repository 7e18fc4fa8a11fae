SPECIFICATION Reads
CONSTANTS
  u0 = u0  u1 = u1  u2 = u2  guest = guest  plain = plain  other = other
  Url = {u0, u1, u2, guest, plain, other}
  Parts <- AllParts
  Initial = u0
  NoPort = NoPort
  Page = {u0, u1, u2, guest, plain, other}
  NoLink = NoLink
  Books <- AllBooks
  MaxChanges = 1
  MaxListPages = 3
  MaxColumnPages = 3
  DomainId = {1}
  Product = {2, 4}
  Term = {3}
  Asset = {5}
  Column = {6, 7, 8, 9}
  PageSize = 2
  Absent = Absent
  Interpreted = Interpreted
  Uninterpreted = Uninterpreted
  Nameless = Nameless
  Includes <- SomeIncludes
  Catalogs <- SmallCatalogs
  MaxEdits = 1
INVARIANTS
  RequestsAreBounded
  ListedIsWholeChain
  ProperCollectionsAreListed
  CoverageIsTrue
PROPERTIES
  ReadsEnd
CHECK_DEADLOCK FALSE
