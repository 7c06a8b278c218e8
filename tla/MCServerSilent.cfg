SPECIFICATION Spec
CONSTANTS
  Conns = {c1, c2}
  Changes = {u, v}
  Reads = {}
  Declined = {n}
  Edits = {}
  Login = Login
  Overlap = FALSE
  WriteMayFail = FALSE
  EditOnline = FALSE
  MaxSessions = 3
  NoCopy = {absent}
  NoReply = NoReply
  NoConn = NoConn

INVARIANT SilentStaysSilent
