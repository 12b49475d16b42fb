\* Direct, self and group messages with receipts, archives and updates.
CONSTANTS
  u1 = u1
  u2 = u2
  uLong = uLong
  grp = grp
  m1 = m1
  m2 = m2
  NONE = NONE
  User = {u1, u2, uLong}
  Group = {grp}
  Msg = {m1, m2}
  Workloads <- SafetyWorkloads
  Commands = {"receipt", "seen", "archive", "update"}
  IdLen <- MCIdLen
  MsgIdLen = 10
  MaxCommands = 2
  MaxFaults = 1
SPECIFICATION Spec
INVARIANTS
  TypeOK
  ReceiptKept
  Backed
  ArchivedIsTold
  PersistedIsStored
CHECK_DEADLOCK FALSE
