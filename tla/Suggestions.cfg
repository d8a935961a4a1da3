\* Three parts that share no state.  Two overlapping calls of any kind on a
\* suggestion, and all their jobs.  Two ids, the first of them a suggestion's, in
\* a cache that is filled one row at a time.  Three suggestions and two queued
\* ones of the previous version, inserted two at a time by scripts that stop, or
\* are run again, twice.
CONSTANTS
  Users = {u1}
  Calls = {c1, c2}
  Notes = {n1}
  Resolutions = {"APPROVED"}
  KeepLogs = {TRUE, FALSE}
  Original = Original
  NoCall = NoCall
  NoMessage = NoMessage
  NoNote = NoNote
  NoRow = NoRow
  NoOp = NoOp
  MaxIds = 2
  PageSize = 1
  Populations = {w1}
  NoPage = NoPage
  MaxDoc = 3
  MaxQueued = 2
  v3 = v3
  OldVoters = {v3}
  DocKinds <- MCDocKinds
  QueuedKinds <- MCQueuedKinds
  BatchSize = 2
  MaxStops = 2
  NoScript = NoScript
SPECIFICATION SuggestionsSpec
INVARIANTS
  SuggestionsTypeOK
  OffersAreOpen
  MigratedOnce
\* Nobody has to use the bot again once every handler and job has ended.
CHECK_DEADLOCK FALSE
