\* A user who is blocked, and the ways to make a suggestion.
CONSTANTS
  Clicks = {i1}
  Clickers = {u1}
  Entries = {"s1"}
  MenuSettings = {"view_page_2"}
  MaxSwitches = 2
  NoClick = NoClick
SPECIFICATION InteractionsSpec
INVARIANT BlockedCannotSuggest
\* An interaction that has ended is not repeated.
CHECK_DEADLOCK FALSE
