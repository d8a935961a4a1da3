\* One moderator, and the job that tells the author.
CONSTANTS
  Calls = {c1}
  Physical = {TRUE, FALSE}
  NoCall = NoCall
  NoRow = NoRow
  NoOp = NoOp
SPECIFICATION Spec
INVARIANT ToldAsResolved
CHECK_DEADLOCK FALSE
