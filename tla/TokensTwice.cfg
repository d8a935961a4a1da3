CONSTANTS
  Calls = {c1, c2}
  Tokens = {t1, t2}
  Guilds = {g1}
  Quantities = {1}
  LastPeriod = 1
  NoGuild = NoGuild
  NoOp = NoOp
  NoRow = NoRow
  Unborn = Unborn
  Gone = Gone
SPECIFICATION Spec
INVARIANT OneTokenPerEntry
\* When all rows are used up, a handler may wait for one for ever.
CHECK_DEADLOCK FALSE
