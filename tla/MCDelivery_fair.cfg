\* Direct and group messages through the rate limiter, with faults: two direct
\* messages, or one to a group (inline, looked-up, hidden members, history, long ids).
CONSTANTS
  u1 = u1
  u2 = u2
  uLong = uLong
  uLonger = uLonger
  grp = grp
  p = p
  NONE = NONE
  User = {u1, u2, uLong, uLonger}
  Group = {grp}
  Project = {p}
  Envelope <- Envelopes
  Sendings <- TwoDirectOrOneGroup
  Roster <- GroupRosters
  IdLen <- MCIdLen
  RateLimited = TRUE
  MaxMsg = 2
  MaxFaults = 1
SPECIFICATION FairSpec
INVARIANTS
  TypeOK
  PersistedWasShown
  HiddenNeverShown
  CountedOnce
  ShownInOrder
  RecipientAfterSender
PROPERTIES
  ReceiptResolves
  ImplementsTimeline
  AddresseesAreStored
  Settles
CHECK_DEADLOCK FALSE
