\* Six parts that share no state.  Two overlapping handlers of tokens at a
\* time, any number of them one after the other, until two rows have been
\* made: created, added, dropped or revoked, and the subscription begun again.
\* Three redemptions of two gifts; two moderators at the premium menu while
\* a user suggests twice at once; two requests with two keys; two visits of
\* one person whose mail address changes; three weeks of uses and two runs of
\* the job at once.
CONSTANTS
  Calls = {c1, c2}
  Tokens = {t1, t2}
  Guilds = {g1}
  Quantities = {1, 2}
  LastPeriod = 1
  NoGuild = NoGuild
  NoOp = NoOp
  NoRow = NoRow
  Unborn = Unborn
  Gone = Gone
  Redemptions = {q1, q2, q3}
  Codes = {k1, k2}
  Members = {m1, m2}
  Connected = {m1}
  Amounts = {2}
  NoGift = NoGift
  Admins = {a1, a2}
  Attempts = {s1, s2}
  Suggesters = {u1}
  Amount = 1
  TextSettings = {"suggestions_prefix"}
  Texts = {"everyone"}
  Pings = {"everyone"}
  CustomBot = FALSE
  MaxEdits = 2
  Unset = Unset
  ApiCalls = {r1, r2}
  MaxKeys = 2
  Clients = {l1}
  Window = 1
  MaxWindow = 3
  LastHour = 3
  NoKey = NoKey
  Visits = {v1, v2}
  People = {p1}
  Emails = {e1, e2}
  MaxEntries = 2
  MaxMails = 1
  Nobody = Nobody
  Jobs = {j1, j2}
  u3 = u3
  Runners = {u3}
  Uses <- MCUses
  LastWeek = 2
SPECIFICATION WebSpec
INVARIANTS
  WebTypeOK
  GiftIsGivenOnce
  CooldownIsExact
  LoginHasOneToken
  ReturningUserIsKnown
  WeeksAreWhole
PROPERTIES
  QuantityIsKept
  RenewalReachesAll
  RevokedStaysRevoked
  NoSecondPremium
\* When all rows are used up, a handler may wait for one for ever.
CHECK_DEADLOCK FALSE
