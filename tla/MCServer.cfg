SPECIFICATION FairSpec
CONSTANTS
  Conns = {c1, c2}
  Changes = {u, v}
  Reads = {q}
  Declined = {n}
  Edits = {e}
  Login = Login
  Overlap = FALSE
  WriteMayFail = TRUE
  EditOnline = FALSE
  MaxSessions = 2
  NoCopy = {absent}
  NoReply = NoReply
  NoConn = NoConn
INVARIANTS TypeOK AcknowledgedKept ReplyBacked EditSurvivesRelog
PROPERTIES EveryRequestAnswered
