SPECIFICATION FairSpec
CONSTANTS
  c1 = c1
  c2 = c2
  u = u
  v = v
  Client <- MCClient
  User <- MCUser
  Owner <- MCOwner
  Conv <- MCConv
  Kind <- MCKind
  Event <- MCEvent
  Limits <- MCLimits
  MaxConn = 2
INVARIANTS
  TypeOK
  ListensWhenReady
  AnsweredOnce
  NoStaleCallback
  PresenceSettles
PROPERTY
  CallsAreAnswered
CHECK_DEADLOCK FALSE
