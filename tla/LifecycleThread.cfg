CONSTANTS
  Users = {u1}
  Calls = {c1}
  Notes = {n1}
  Resolutions = {"APPROVED"}
  KeepLogs = {TRUE, FALSE}
  Original = Original
  NoCall = NoCall
  NoMessage = NoMessage
  NoNote = NoNote
  NoRow = NoRow
  NoOp = NoOp
SPECIFICATION Spec
INVARIANT PostedIsStored
\* Nobody has to use the bot again once every handler and job has ended.
CHECK_DEADLOCK FALSE
