\* Two moderators whose modals are open at once.
CONSTANTS
  Calls = {c1, c2}
  Physical = {TRUE, FALSE}
  NoCall = NoCall
  NoRow = NoRow
  NoOp = NoOp
SPECIFICATION Spec
INVARIANT ResolvedOnce
CHECK_DEADLOCK FALSE
