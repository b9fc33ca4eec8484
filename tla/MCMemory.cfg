CONSTANTS
  PageSize = 4
  MaxPages = 7
  Region <- Regions
  MaxCount = 3
  Alignment = {1, 2, 3, 4}
  Client = {c1, c2}
  Nobody = Nobody
  PageWords = 16
  PageCount = 3
  HeaderSize = 2
  Class <- Classes
  Request = {1, 4, 7, 16, 18}
SPECIFICATION MCSpec
SYMMETRY Clients
INVARIANTS PagesConsistent BlocksConsistent DataIntact RefusedOnlyWhenOut
PROPERTIES ScanCorrect
