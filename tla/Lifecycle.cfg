\* Two overlapping calls of any kind on a suggestion, with every overlap of their
\* steps and those of the creating handler, and all their jobs.
CONSTANTS
  Users = {u1, u2}
  Calls = {c1, c2}
  Notes = {n1}
  Resolutions = {"APPROVED"}
  KeepLogs = {TRUE, FALSE}
  Original = Original
  NoCall = NoCall
  NoMessage = NoMessage
  NoNote = NoNote
  NoRow = NoRow
  NoOp = NoOp
SPECIFICATION FairSpec
INVARIANTS
  VotesAreKeyed
  MessagesMatchRow
  DisplayMatchesRow
PROPERTIES
  OnlyStaleCopiesReopen
  DebounceSpec
\* Nobody has to use the bot again once every handler and job has ended.
CHECK_DEADLOCK FALSE
