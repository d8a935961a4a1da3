\* Six parts that share no state.  Three overlapping handlers that want one
\* message edited; two moderators on one queued suggestion, physical or
\* virtual; two presses on a paginator of three suggestions; two moderators at
\* the guild's menus, and a user at theirs on two devices; a press and the
\* modal it opens while settings change three times.
CONSTANTS
  EditCalls = {c1, c2, c3}
  NoEditCall = NoEditCall
  Calls = {c1, c2}
  Physical = {TRUE, FALSE}
  NoCall = NoCall
  NoRow = NoRow
  NoOp = NoOp
  Presses = {v, p1, p2}
  Opener = v
  Sids = {s1, s2, s3}
  PerPage = 2
  MaxVoters = 3
  Expired = Expired
  Blank = Blank
  Devices = {d1, d2}
  Handlers = {h1, h2}
  Channels = {ch1}
  Languages = {"en-GB", "da"}
  DefaultLanguage = "en-GB"
  Authors = {u1}
  BoolSettings = {"threads_for_suggestions"}
  MaxSaves = 2
  None = None
  Clicks = {i1}
  Clickers = {u1}
  Entries = {"s1"}
  MenuSettings = {"view_page_2"}
  MaxSwitches = 3
  NoClick = NoClick
SPECIFICATION BotSpec
INVARIANTS
  BotTypeOK
  KeyIsCovered
  NoLostEdit
  LinkIsStored
  PublishedIsStored
  ResolvedLeavesQueue
  QueueIsReachable
  AnswersStand
  ChosenAgainChangesNothing
  PageIndexIsValid
  DropsTheRightPage
  DoesWhatWasMeant
PROPERTIES
  DropIsCovered
  ChangeIsFetched
  ResolvedStays
  AuthorIsTold
\* Every handler may have ended: nobody has to use the bot again.
CHECK_DEADLOCK FALSE
