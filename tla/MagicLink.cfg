\* Two links for one address that are clicked at once, one of them twice, and
\* a password tried meanwhile; the third attempt in ten minutes is too many.
CONSTANTS
  Links = {l1, l2}
  Passwords = {p1}
  Clicks = {c1, c2, c3}
  Limit = 3
  Registration = {TRUE, FALSE}
  NoClick = NoClick
  NoLink = NoLink
SPECIFICATION FairSpec
INVARIANTS
  TypeOK
  SingleUse
  OneAccount
  RateLimit
PROPERTIES
  SignInSpec
  LockIsReleased
\* Every click may have been answered: nobody has to click again.
CHECK_DEADLOCK FALSE
