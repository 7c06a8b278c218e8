SPECIFICATION Spec
CONSTANTS
  Conns = {c1, c2}
  Changes = {u, v}
  Reads = {}
  Declined = {}
  Edits = {}
  Login = Login
  Overlap = TRUE
  WriteMayFail = FALSE
  EditOnline = FALSE
  MaxSessions = 3
  NoCopy = {absent}
  NoReply = NoReply
  NoConn = NoConn
INVARIANT AcknowledgedKept
