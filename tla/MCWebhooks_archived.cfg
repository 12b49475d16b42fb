\* The events example.env sets, against its line.
CONSTANTS
  sent = sent
  delivered = delivered
  receipt = receipt
  archived = archived
  presence = presence
  a = a
  b = b
  Event = {sent, archived}
  Kind <- MCKind
  Endpoint = {a, b}
  Configs <- ExampleConfigs
  MaxFaults = 0
SPECIFICATION FairSpec
PROPERTIES
  ArchivedIsPosted
CHECK_DEADLOCK FALSE
