\* The integration test's group message, against the comment on the caches.
CONSTANTS
  u1 = u1
  u2 = u2
  uLong = uLong
  uLonger = uLonger
  grp = grp
  p = p
  NONE = NONE
  User = {u1, u2, uLong, uLonger}
  Group = {grp}
  Project = {p}
  Envelope <- TestEnvelopes
  Sendings <- TestSendings
  Roster <- GroupRosters
  IdLen <- MCIdLen
  RateLimited = FALSE
  MaxMsg = 1
  MaxFaults = 0
SPECIFICATION Spec
INVARIANTS
  AllDeliveredAreCached
CHECK_DEADLOCK FALSE
