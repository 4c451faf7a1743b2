\* Live gateway, one caller, two orders, one crash.
SPECIFICATION Spec
CONSTANTS
  t1 = t1
  t2 = t2
  c1 = c1
  c2 = c2
  Tasks <- OneTask
  Clients <- MCClients
  Gateway = "Polymarket"
  Exclusive = TRUE
  UseSync = TRUE
  MaxBoots = 2
  NoOrder = NoOrder
  NoEid = NoEid
  NoAnswer = NoAnswer
  NoClient = NoClient
  NoId = NoId
SYMMETRY ClientSymmetry
INVARIANTS
  TypeOK
  AtMostOnceSubmission
  PersistBeforeSend
  AuditCovers
PROPERTIES
  KeepsPromise
