SPECIFICATION FairSpec
CONSTANTS
  p1 = p1
  p2 = p2
  p3 = p3
  p4 = p4
  a = a
  b = b
  g = g
  Procs <- MCProcs
  Sender <- a
  Receiver <- b
  Group <- g
  Scenarios <- MCScenarios
INVARIANTS
  TypeOK
  ToldFirst
  ViewMatchesStore
  Reported
PROPERTY
  Settles
CHECK_DEADLOCK FALSE
