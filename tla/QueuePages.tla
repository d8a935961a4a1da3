----------------------------- MODULE QueuePages ------------------------------
(***************************************************************************)
(* The paginators of /queue view and of the /view voters commands.         *)
(*                                                                         *)
(* A paginator lives in the memory of one process: a list of pages, the    *)
(* index of the page that is shown, and the ephemeral message it edits.    *)
(* Its buttons are handled concurrently: between two awaits of a handler   *)
(* the list, the index and the message may all have changed.  A page of    *)
(* the queue is a queued suggestion's id, looked up when it is shown; one  *)
(* that is gone or resolved by then is dropped (format_page,               *)
(* remove_current_page).  A page of voters is text and stays.              *)
(***************************************************************************)
EXTENDS Integers, Sequences, SequencesExt, FiniteSets

CONSTANTS
  Presses,     (* interactions with one paginator, the first opens it      *)
  Opener,      (* the command that opens it                                *)
  Sids,        (* queued suggestions of the guild                          *)
  PerPage,     (* voters on a page                                         *)
  MaxVoters,   (* bound: voters of the suggestion                          *)
  Expired,     (* the message says that the paginator expired              *)
  Blank        (* the message has no components                            *)

ASSUME QueuePagesAssumption ==
  /\ Opener \in Presses
  /\ IsFiniteSet(Sids)
  /\ PerPage \in Nat \ {0} /\ MaxVoters \in Nat
  /\ Expired # Blank /\ {Expired, Blank} \cap Sids = {}

VARIABLES
  kind,      (* "queue" or "voters", once opened                           *)
  waiting,   (* queued suggestions that are pending                        *)
  pages,     (* _paged_data                                                *)
  index,     (* _current_page_index, which counts from 0                   *)
  entry,     (* PAGINATOR_OBJECTS still has the paginator                  *)
  message,   (* what the message shows: a page, Expired or Blank           *)
  at,        (* how far each interaction has come                          *)
  button,    (* the button that was pressed                                *)
  target,    (* the suggestion that button is about                        *)
  got,       (* the page it looks up or is about to show                   *)
  depth,     (* calls of remove_current_page it is in                      *)
  opened,    (* history: suggestions whose approve or reject was accepted  *)
  crowded,   (* history: two interactions were under way at once           *)
  failed     (* history: Discord refused an edit, or a handler died        *)

book == <<kind, pages, index, entry>>
presses == <<at, button, target, got, depth>>
pageHistory == <<opened, crowded, failed>>
pageVars == <<book, waiting, message, presses, pageHistory>>

Page == Sids \cup UNION {[1 .. n -> 1 .. MaxVoters] : n \in 1 .. PerPage}

PagesTypeOK ==
  /\ kind \in {"none", "queue", "voters"}
  /\ waiting \subseteq Sids
  /\ pages \in Seq(Page)
  /\ index \in -1 .. Cardinality(Sids) + MaxVoters
  /\ entry \in BOOLEAN
  /\ message \in Page \cup {Expired, Blank}
  /\ at \in [Presses -> {"idle", "pressed", "deferred", "loading", "editing",
                         "blanking", "done"}]
  /\ button \in [Presses -> {"none", "view", "back", "next", "stop", "resolve"}]
  /\ target \in [Presses -> Page \cup {Expired, Blank}]
  /\ got \in [Presses -> Page \cup {Expired, Blank}]
  /\ depth \in [Presses -> Nat]
  /\ opened \subseteq Sids
  /\ crowded \in BOOLEAN /\ failed \in BOOLEAN

PagesInit ==
  /\ kind = "none" /\ waiting = Sids
  /\ pages = <<>> /\ index = 0 /\ entry = FALSE
  /\ message = Blank
  /\ at = [p \in Presses |-> "idle"]
  /\ button = [p \in Presses |-> "none"]
  /\ target = [p \in Presses |-> Blank]
  /\ got = [p \in Presses |-> Blank]
  /\ depth = [p \in Presses |-> 0]
  /\ opened = {} /\ crowded = FALSE /\ failed = FALSE

Busy == {p \in Presses : at[p] \notin {"idle", "done"}}

(* The setter of current_page wraps around; n counts from 1. *)
Turned(n, list) ==
  IF n > Len(list) THEN 0 ELSE IF n <= 0 THEN Len(list) - 1 ELSE n - 1

Dropped(list, i) == RemoveAt(list, i + 1)

(* MUTANT of IndexAfterDrop: the last page is dropped and still shown. *)
IndexAfterDropStays(list, i) == i

(* remove_current_page: the last page wraps around to the first. *)
IndexAfterDrop(list, i) ==
  IF i + 1 = Len(list) THEN Turned(1, Dropped(list, i)) ELSE i
-----------------------------------------------------------------------------
(* Opening a paginator *)

(* batched(votes, 25) *)
Batched(votes, n) ==
  [k \in 1 .. (Len(votes) + n - 1) \div n |->
     SubSeq(votes, (k - 1) * n + 1, IF k * n < Len(votes) THEN k * n ELSE Len(votes))]

(* The list of pending suggestions is read, and its first page looked up. *)
ViewQueue ==
  /\ at[Opener] = "idle" /\ waiting # {}
  /\ kind' = "queue"
  /\ pages' = SetToSeq(waiting) /\ index' = 0 /\ entry' = TRUE
  /\ at' = [at EXCEPT ![Opener] = "loading"]
  /\ button' = [button EXCEPT ![Opener] = "view"]
  /\ got' = [got EXCEPT ![Opener] = pages'[1]]
  /\ UNCHANGED <<waiting, message, target, depth, pageHistory>>

(* The votes are read and divided into pages of 25. *)
ViewVoters(n) ==
  /\ at[Opener] = "idle"
  /\ kind' = "voters"
  /\ pages' = Batched([v \in 1 .. n |-> v], PerPage) /\ index' = 0 /\ entry' = TRUE
  /\ at' = [at EXCEPT ![Opener] = "editing"]
  /\ button' = [button EXCEPT ![Opener] = "view"]
  /\ got' = [got EXCEPT ![Opener] = pages'[1]]
  /\ UNCHANGED <<waiting, message, target, depth, pageHistory>>

(* The 15 minutes since the entry was last used have passed. *)
ExpireEntry ==
  /\ entry
  /\ entry' = FALSE
  /\ UNCHANGED <<kind, pages, index, waiting, message, presses, pageHistory>>

(* A queued suggestion is resolved by any of QueueModeration's ways. *)
ResolveElsewhere(s) ==
  /\ s \in waiting
  /\ waiting' = waiting \ {s}
  /\ UNCHANGED <<book, message, presses, pageHistory>>
-----------------------------------------------------------------------------
(* A button.  It is pressed on what the message shows; its handler runs    *)
(* after ensure_user_config.                                               *)

Press(p, b) ==
  /\ p # Opener /\ at[p] = "idle"
  /\ message \notin {Expired, Blank}
  /\ b = "resolve" => kind = "queue"
  /\ at' = [at EXCEPT ![p] = "pressed"]
  /\ button' = [button EXCEPT ![p] = b]
  /\ target' = [target EXCEPT ![p] = message]
  /\ crowded' = (crowded \/ Busy # {})
  /\ UNCHANGED <<book, waiting, message, got, depth, opened, failed>>

Finish(p) ==
  /\ at' = [at EXCEPT ![p] = "done"]
  /\ button' = [button EXCEPT ![p] = "none"]
  /\ target' = [target EXCEPT ![p] = Blank]
  /\ got' = [got EXCEPT ![p] = Blank]
  /\ depth' = [depth EXCEPT ![p] = 0]

(* get_entry raises NonExistentEntry: the user is told. *)
FindNoEntry(p) ==
  /\ at[p] = "pressed" /\ ~entry
  /\ Finish(p)
  /\ UNCHANGED <<book, waiting, message, pageHistory>>

(* back, next and stop are deferred first. *)
DeferPress(p) ==
  /\ at[p] = "pressed" /\ entry /\ button[p] # "resolve"
  /\ at' = [at EXCEPT ![p] = "deferred"]
  /\ UNCHANGED <<book, waiting, message, button, target, got, depth, pageHistory>>

(* format_page up to the lookup of a queued suggestion, of the list and    *)
(* index given; voters' pages need no lookup.  With no page at the index   *)
(* it raises IndexError.                                                   *)
Format(p, list, i, d) ==
  IF i + 1 \in DOMAIN list
  THEN /\ got' = [got EXCEPT ![p] = list[i + 1]]
       /\ at' = [at EXCEPT ![p] = IF kind = "queue" THEN "loading" ELSE "editing"]
       /\ depth' = [depth EXCEPT ![p] = d]
       /\ UNCHANGED <<button, target>>
  ELSE Finish(p)

(* back and next: the index is set, whether there is a page or not. *)
TurnPage(p) ==
  /\ at[p] = "deferred" /\ button[p] \in {"back", "next"}
  /\ index' = Turned(index + 1 + (IF button[p] = "next" THEN 1 ELSE -1), pages)
  /\ Format(p, pages, index', depth[p])
  /\ UNCHANGED <<kind, pages, entry, waiting, message, pageHistory>>

(* The entry is deleted; a second stop finds none and raises. *)
StopPages(p) ==
  /\ at[p] = "deferred" /\ button[p] = "stop"
  /\ IF entry
     THEN /\ entry' = FALSE
          /\ at' = [at EXCEPT ![p] = "editing"]
          /\ got' = [got EXCEPT ![p] = Expired]
          /\ UNCHANGED <<button, target, depth>>
     ELSE UNCHANGED entry /\ Finish(p)
  /\ UNCHANGED <<kind, pages, index, waiting, message, pageHistory>>

(* remove_current_page up to its await: the page at the index goes, which  *)
(* one that ever is, and the next is looked up or the end announced.       *)
RemoveCurrentPage(p) ==
  /\ pages' = Dropped(pages, index)
  /\ index' = IndexAfterDrop(pages, index)
  /\ IF pages' = <<>>
     THEN /\ got' = [got EXCEPT ![p] = Expired]
          /\ at' = [at EXCEPT ![p] = "editing"]
          /\ depth' = [depth EXCEPT ![p] = @ + 1]
          /\ UNCHANGED <<button, target>>
     ELSE Format(p, pages', index', depth[p] + 1)

(* approve and reject: "already resolved" unless the id is still listed.   *)
PressResolved(p) ==
  /\ at[p] = "pressed" /\ entry /\ button[p] = "resolve"
  /\ ~Contains(pages, target[p])
  /\ Finish(p)
  /\ UNCHANGED <<book, waiting, message, pageHistory>>

PressResolve(p) ==
  /\ at[p] = "pressed" /\ entry /\ button[p] = "resolve"
  /\ Contains(pages, target[p])
  /\ RemoveCurrentPage(p)
  /\ opened' = opened \cup {target[p]}
  /\ UNCHANGED <<kind, entry, waiting, message, crowded, failed>>
-----------------------------------------------------------------------------
(* The lookup returns: the suggestion is pending, and shown, ... *)
LoadPending(p) ==
  /\ at[p] = "loading" /\ got[p] \in waiting
  /\ at' = [at EXCEPT ![p] = "editing"]
  /\ UNCHANGED <<book, waiting, message, button, target, got, depth, pageHistory>>

(* MUTANT of LoadGone: the list is not shortened by the page looked up but *)
(* by the one after it.                                                    *)
LoadGoneNext(p) ==
  /\ at[p] = "loading" /\ got[p] \notin waiting
  /\ pages # <<>>
  /\ pages' = Dropped(pages, (index + 1) % Len(pages))
  /\ index' = Turned(1, pages')
  /\ IF pages' = <<>>
     THEN /\ got' = [got EXCEPT ![p] = Expired]
          /\ at' = [at EXCEPT ![p] = "editing"]
          /\ depth' = [depth EXCEPT ![p] = @ + 1]
          /\ UNCHANGED <<button, target>>
     ELSE Format(p, pages', index', depth[p] + 1)
  /\ UNCHANGED <<kind, entry, waiting, message, pageHistory>>

(* ... or it is gone or resolved (QueueImbalance): the current page is     *)
(* removed.                                                                *)
LoadGone(p) ==
  /\ at[p] = "loading" /\ got[p] \notin waiting
  /\ pages # <<>>
  /\ RemoveCurrentPage(p)
  /\ UNCHANGED <<kind, entry, waiting, message, pageHistory>>

(* There is no page left to remove: pop raises IndexError. *)
LoadGoneLast(p) ==
  /\ at[p] = "loading" /\ got[p] \notin waiting
  /\ pages = <<>>
  /\ Finish(p)
  /\ UNCHANGED <<book, waiting, message, pageHistory>>

(* format_page returns None after it removed a page: every enclosing       *)
(* remove_current_page, and the command itself, edits that None in.        *)
Blanks(p) == depth[p] - (IF button[p] = "view" THEN 0 ELSE 1)

Edit(p) ==
  /\ at[p] = "editing"
  /\ message' = got[p]
  /\ IF Blanks(p) > 0
     THEN /\ at' = [at EXCEPT ![p] = "blanking"]
          /\ UNCHANGED <<button, target, got, depth>>
     ELSE Finish(p)
  /\ UNCHANGED <<book, waiting, pageHistory>>

(* The message loses its components. *)
EditNone(p) ==
  /\ at[p] = "blanking"
  /\ message' = Blank
  /\ Finish(p)
  /\ UNCHANGED <<book, waiting, pageHistory>>

(* Discord does not edit, or the process dies: the handler ends here. *)
FailPress(p) ==
  /\ at[p] \notin {"idle", "done"}
  /\ Finish(p)
  /\ failed' = TRUE
  /\ UNCHANGED <<book, waiting, message, opened, crowded>>

PagesNext ==
  \/ ViewQueue
  \/ \E n \in 1 .. MaxVoters : ViewVoters(n)
  \/ ExpireEntry
  \/ \E s \in Sids : ResolveElsewhere(s)
  \/ \E p \in Presses :
       \/ \E b \in {"back", "next", "stop", "resolve"} : Press(p, b)
       \/ FindNoEntry(p) \/ DeferPress(p) \/ TurnPage(p)
       \/ StopPages(p) \/ PressResolved(p) \/ PressResolve(p)
       \/ LoadPending(p) \/ LoadGone(p) \/ LoadGoneLast(p)
       \/ Edit(p) \/ EditNone(p) \/ FailPress(p)

PagesSpec == PagesInit /\ [][PagesNext]_pageVars
-----------------------------------------------------------------------------
(* As long as there is a page, the index points at one, whatever handlers  *)
(* turned pages and removed them in between: showing the current page      *)
(* raises IndexError only when the list is empty.                          *)
PageIndexIsValid == pages # <<>> => index \in 0 .. Len(pages) - 1

(* remove_current_page removes what is current, not what was decided.  One *)
(* press at a time, on a message Discord did edit, that is the same: a     *)
(* suggestion leaves the list only when it was resolved or a moderator     *)
(* pressed approve or reject for it.                                       *)
DropsTheRightPage ==
  kind = "queue" /\ ~crowded /\ ~failed =>
    \A s \in waiting : Contains(pages, s) \/ s \in opened
=============================================================================
