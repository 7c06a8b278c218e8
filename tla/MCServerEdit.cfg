SPECIFICATION Spec
CONSTANTS
  Conns = {c1, c2}
  Changes = {u, v}
  Reads = {}
  Declined = {}
  Edits = {e}
  Login = Login
  Overlap = FALSE
  WriteMayFail = FALSE
  EditOnline = TRUE
  MaxSessions = 3
  NoCopy = {absent}
  NoReply = NoReply
  NoConn = NoConn
INVARIANT EditSurvivesRelog
