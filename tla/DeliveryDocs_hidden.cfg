\* The members after the hidden one, against the log line on the skip.
CONSTANTS
  u1 = u1
  u2 = u2
  uLong = uLong
  uLonger = uLonger
  grp = grp
  p = p
  NONE = NONE
  User = {u1, u2, uLong, uLonger}
  Group = {grp}
  Project = {p}
  Envelope <- GroupEnvelopes
  Sendings <- OneToGroup
  Roster <- GroupRosters
  IdLen <- MCIdLen
  RateLimited = FALSE
  MaxMsg = 1
  MaxFaults = 0
SPECIFICATION Spec
INVARIANTS
  OnlyHiddenIsSkipped
CHECK_DEADLOCK FALSE
