\* Events against changing settings, a binding that comes late and faults.
CONSTANTS
  sent = sent
  delivered = delivered
  receipt = receipt
  archived = archived
  presence = presence
  a = a
  b = b
  Event = {sent, receipt, presence}
  Kind <- MCKind
  Endpoint = {a, b}
  Configs <- MCConfigs
  MaxFaults = 2
SPECIFICATION FairSpec
INVARIANTS
  TypeOK
  PostedAsAsked
PROPERTIES
  RaisedIsPosted
  Settles
CHECK_DEADLOCK FALSE
