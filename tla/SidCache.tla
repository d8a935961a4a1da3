------------------------------ MODULE SidCache -------------------------------
(***************************************************************************)
(* The ids that commands offer while a moderator types (autocomplete).     *)
(*                                                                         *)
(* Redis keeps three lists per guild: ids of suggestions, of queued        *)
(* suggestions, and of both.  Whoever creates a suggestion adds its id to  *)
(* two of them, /clear takes it out, and a job of the worker, every second *)
(* hour, deletes the lists and fills them from the two tables, page by     *)
(* page.  Nothing orders these steps among each other.                     *)
(*                                                                         *)
(* A suggestion that is approved in the queue is created inside the        *)
(* transaction of the approval: others see its row at the commit, while    *)
(* its id is in Redis before.                                              *)
(***************************************************************************)
EXTENDS Integers, FiniteSets, Sequences, SequencesExt

CONSTANTS
  MaxIds,      (* bound: rows that are ever made, numbered as they are     *)
  PageSize,    (* DEFAULT_PAGE_SIZE                                        *)
  Populations, (* runs of the job that may be under way at once            *)
  NoPage       (* no cursor, no job                                        *)

ASSUME SidCacheAssumption ==
  /\ MaxIds \in Nat /\ PageSize \in Nat \ {0}
  /\ NoPage \notin Nat /\ NoPage \notin Populations

Sids == 1 .. MaxIds
Tables == {"suggestions", "queued_suggestions"}
IndexOrder == <<"shared", "queue", "suggestion">>
Indexes == ToSet(IndexOrder)
Own(t) == IF t = "suggestions" THEN "suggestion" ELSE "queue"

VARIABLES
  table,      (* the table of each row that was made                       *)
  sid_row,    (* "none", "draft" (not committed), "open", "cleared" or     *)
              (* "deleted"                                                 *)
  creation,   (* how far the handler that made it has come                 *)
  clearing,   (* the lists /clear has still to take the id out of          *)
  cache,      (* the lists                                                 *)
  population, (* how far each job has come                                 *)
  at_table,   (* the table it reads                                        *)
  cursor,     (* the id its next page starts with                          *)
  page,       (* the rows of its page that are still to be cached          *)
  deleter,    (* history: the job that deleted the lists last              *)
  stale,      (* history: it has not filled them yet                       *)
  sid_raced,  (* history: rows taken out while a job or their creation ran *)
  hidden      (* history: rows that came to be open, or were not yet       *)
              (* committed, with their id taken out: the next job brings it *)

populationVars == <<population, at_table, cursor, page>>
sidHistory == <<deleter, stale, sid_raced, hidden>>
sidVars == <<table, sid_row, creation, clearing, cache, populationVars, sidHistory>>

SidTypeOK ==
  /\ table \in [Sids -> Tables]
  /\ sid_row \in [Sids -> {"none", "draft", "open", "cleared", "deleted"}]
  /\ creation \in [Sids -> {"none", "made", "posted", "own", "cached", "done", "left"}]
  /\ clearing \in [Sids -> Seq(Indexes)]
  /\ cache \in [Indexes -> SUBSET Sids]
  /\ population \in [Populations -> {"idle", "delete", "read", "cache", "own"}]
  /\ at_table \in [Populations -> Tables]
  /\ cursor \in [Populations -> Nat \cup {NoPage}]
  /\ page \in [Populations -> SUBSET Sids]
  /\ deleter \in Populations \cup {NoPage}
  /\ stale \in BOOLEAN /\ sid_raced \subseteq Sids /\ hidden \subseteq Sids

SidInit ==
  /\ table \in [Sids -> Tables]
  /\ sid_row = [s \in Sids |-> "none"]
  /\ creation = [s \in Sids |-> "none"]
  /\ clearing = [s \in Sids |-> <<>>]
  /\ cache = [i \in Indexes |-> {}]
  /\ population = [p \in Populations |-> "idle"]
  /\ at_table = [p \in Populations |-> "suggestions"]
  /\ cursor = [p \in Populations |-> NoPage]
  /\ page = [p \in Populations |-> {}]
  /\ deleter = NoPage /\ stale = FALSE /\ sid_raced = {} /\ hidden = {}

Populating == {p \in Populations : population[p] # "idle"}
Cache(i, s) == cache' = [cache EXCEPT ![i] = @ \cup {s}]
Made(t) == {s \in Sids : sid_row[s] \in {"open", "cleared"} /\ table[s] = t}
CreationStep(s, c) == creation' = [creation EXCEPT ![s] = c]
-----------------------------------------------------------------------------
(* A suggestion, or a queued one, is created: the row, which of an         *)
(* approved suggestion is part of an open transaction, ...                 *)
InsertSid(s) ==
  /\ sid_row[s] = "none" /\ \A r \in 1 .. s - 1 : sid_row[r] # "none"
  /\ \E new \in {"open"} \cup (IF table[s] = "suggestions" THEN {"draft"} ELSE {}) :
       sid_row' = [sid_row EXCEPT ![s] = new]
  /\ CreationStep(s, "made")
  /\ UNCHANGED <<table, clearing, cache, populationVars, sidHistory>>

(* The row is gone again; a job may have its id in hand, or a list.        *)
TakeBack(s) ==
  /\ sid_row' = [sid_row EXCEPT ![s] = "deleted"]
  /\ sid_raced' = IF Populating = {} /\ \A i \in Indexes : s \notin cache[i]
                  THEN sid_raced ELSE sid_raced \cup {s}
  /\ UNCHANGED <<table, clearing, cache, populationVars, deleter, stale, hidden>>

(* ... the message, without which the row is deleted again, ...            *)
RevokeSid(s) ==
  /\ creation[s] = "made"
  /\ TakeBack(s)
  /\ CreationStep(s, "done")

(* ... the row again, with the message, ... *)
PostSid(s) ==
  /\ creation[s] = "made"
  /\ CreationStep(s, "posted")
  /\ UNCHANGED <<table, sid_row, clearing, cache, populationVars, sidHistory>>

(* ... the lists, the shared one first, ... *)
CacheShared(s) ==
  /\ creation[s] = "posted"
  /\ Cache("shared", s)
  /\ CreationStep(s, "own")
  /\ UNCHANGED <<table, sid_row, clearing, populationVars, sidHistory>>

CacheOwn(s) ==
  /\ creation[s] = "own"
  /\ Cache(Own(table[s]), s)
  /\ CreationStep(s, "cached")
  /\ UNCHANGED <<table, sid_row, clearing, populationVars, sidHistory>>

(* ... and of a suggestion the thread, without which the row is deleted,   *)
(* but not what the lists hold of it, ...                                  *)
WithdrawSid(s) ==
  /\ creation[s] = "cached" /\ table[s] = "suggestions"
  /\ TakeBack(s)
  /\ CreationStep(s, "done")

EndCreation(s) ==
  /\ creation[s] = "cached"
  /\ CreationStep(s, "done")
  /\ UNCHANGED <<table, sid_row, clearing, cache, populationVars, sidHistory>>

(* ... whose id is saved with all columns of the row as it was made.  A    *)
(* suggestion that was cleared meanwhile is open again, but not offered.   *)
SaveThread(s) ==
  /\ creation[s] = "cached" /\ table[s] = "suggestions"
  /\ sid_row[s] = "cleared"
  /\ sid_row' = [sid_row EXCEPT ![s] = "open"]
  /\ hidden' = hidden \cup {s}
  /\ CreationStep(s, "done")
  /\ UNCHANGED <<table, clearing, cache, populationVars, deleter, stale, sid_raced>>

(* The approval ends with its transaction. *)
CommitSid(s) ==
  /\ sid_row[s] = "draft" /\ creation[s] = "done"
  /\ sid_row' = [sid_row EXCEPT ![s] = "open"]
  /\ UNCHANGED <<table, creation, clearing, cache, populationVars, sidHistory>>

(* It fails, or its process dies: there never was such a row.              *)
RollBackSid(s) ==
  /\ sid_row[s] = "draft"
  /\ TakeBack(s)
  /\ CreationStep(s, "left")

(* Any other process dies; a queued suggestion whose channel is not set or *)
(* not found is not cached either.  Its id is missing until the next job.  *)
LeaveUncached(s) ==
  /\ creation[s] \in {"made", "posted", "own", "cached"} /\ sid_row[s] # "draft"
  /\ CreationStep(s, "left")
  /\ UNCHANGED <<table, sid_row, clearing, cache, populationVars, sidHistory>>

(* /clear, of an id that the message or a list told the moderator: the row *)
(* is saved, then the id is taken out of the three lists.                  *)
ClearSid(s) ==
  /\ sid_row[s] = "open" /\ creation[s] # "made"
  /\ sid_row' = [sid_row EXCEPT ![s] = "cleared"]
  /\ clearing' = [clearing EXCEPT ![s] = IndexOrder]
  /\ sid_raced' = IF Populating = {} /\ creation[s] \in {"done", "left"}
                  THEN sid_raced ELSE sid_raced \cup {s}
  /\ UNCHANGED <<table, creation, cache, populationVars, deleter, stale, hidden>>

(* Nothing that writes the row asks whether it was cleared: /resolve, a    *)
(* /note that read it before, or a modal of the queue that is still open   *)
(* gives it another state.  Its id stays out of the lists.                 *)
ReopenSid(s) ==
  /\ sid_row[s] = "cleared"
  /\ sid_row' = [sid_row EXCEPT ![s] = "open"]
  /\ hidden' = hidden \cup {s}
  /\ UNCHANGED <<table, creation, clearing, cache, populationVars, deleter, stale, sid_raced>>

(* delete_autocomplete_cache_sid *)
DeleteSid(s) ==
  /\ clearing[s] # <<>>
  /\ cache' = [cache EXCEPT ![Head(clearing[s])] = @ \ {s}]
  /\ clearing' = [clearing EXCEPT ![s] = Tail(@)]
  /\ UNCHANGED <<table, sid_row, creation, populationVars, sidHistory>>
-----------------------------------------------------------------------------
PopulationStep(p, s) == population' = [population EXCEPT ![p] = s]

(* populate_sid_autocomplete.  Rows that are being cleared meanwhile may   *)
(* be read as open and cached after /clear took them out.                  *)
Populate(p) ==
  /\ population[p] = "idle"
  /\ PopulationStep(p, "delete")
  /\ sid_raced' = sid_raced \cup {s \in Sids : clearing[s] # <<>>}
  /\ UNCHANGED <<table, sid_row, creation, clearing, cache, at_table, cursor, page,
                 deleter, stale, hidden>>

(* MUTANT of NextPage: the next page starts after the row that was one too *)
(* many for this one.                                                      *)
NextPageSkips(p) ==
  LET left == {s \in Made(at_table[p]) : s >= cursor[p]}
      rows == {s \in left : Cardinality({r \in left : r < s}) < PageSize}
  IN
  /\ population[p] = "read" /\ cursor[p] # NoPage
  /\ page' = [page EXCEPT ![p] = rows \cap {s \in Sids : sid_row[s] = "open"}]
  /\ cursor' = [cursor EXCEPT ![p] = IF left = rows THEN NoPage ELSE Min(left \ rows) + 1]
  /\ PopulationStep(p, "cache")
  /\ UNCHANGED <<table, sid_row, creation, clearing, cache, at_table, sidHistory>>

(* delete_autocomplete_cache unlinks all lists that a scan found.  The job *)
(* does not bring back what it may not see yet, nor for long what /clear   *)
(* still takes out.                                                        *)
DeleteCache(p) ==
  /\ population[p] = "delete"
  /\ cache' = [i \in Indexes |-> {}]
  /\ PopulationStep(p, "read")
  /\ at_table' = [at_table EXCEPT ![p] = "suggestions"]
  /\ cursor' = [cursor EXCEPT ![p] = 0]
  /\ deleter' = p /\ stale' = TRUE
  /\ hidden' = {s \in Sids :
                  \/ sid_row[s] = "draft" /\ creation[s] \in {"own", "cached", "done"}
                  \/ sid_row[s] = "open" /\ clearing[s] # <<>>}
  /\ UNCHANGED <<table, sid_row, creation, clearing, page, sid_raced>>

(* iterate_over_table: a page, and the id of the row after it if there is  *)
(* one.  "Dont add cleared suggestions to autocomplete"                    *)
NextPage(p) ==
  LET left == {s \in Made(at_table[p]) : s >= cursor[p]}
      rows == {s \in left : Cardinality({r \in left : r < s}) < PageSize}
  IN
  /\ population[p] = "read" /\ cursor[p] # NoPage
  /\ page' = [page EXCEPT ![p] = rows \cap {s \in Sids : sid_row[s] = "open"}]
  /\ cursor' = [cursor EXCEPT ![p] = IF left = rows THEN NoPage ELSE Min(left \ rows)]
  /\ PopulationStep(p, "cache")
  /\ UNCHANGED <<table, sid_row, creation, clearing, cache, at_table, sidHistory>>

(* A row of the page is cached, in its own list and in the shared one. *)
CacheRow(p) ==
  /\ population[p] = "cache" /\ page[p] # {}
  /\ Cache(Own(at_table[p]), Min(page[p]))
  /\ PopulationStep(p, "own")
  /\ UNCHANGED <<table, sid_row, creation, clearing, at_table, cursor, page,
                 sidHistory>>

ShareRow(p) ==
  /\ population[p] = "own"
  /\ Cache("shared", Min(page[p]))
  /\ page' = [page EXCEPT ![p] = @ \ {Min(@)}]
  /\ PopulationStep(p, "cache")
  /\ UNCHANGED <<table, sid_row, creation, clearing, at_table, cursor, sidHistory>>

EndPopulation(p) ==
  /\ PopulationStep(p, "idle")
  /\ at_table' = [at_table EXCEPT ![p] = "suggestions"]
  /\ cursor' = [cursor EXCEPT ![p] = NoPage]
  /\ page' = [page EXCEPT ![p] = {}]

(* The page is done: the next page, the other table, or the end. *)
TurnPage(p) ==
  /\ population[p] = "cache" /\ page[p] = {}
  /\ \/ /\ cursor[p] # NoPage
        /\ PopulationStep(p, "read")
        /\ UNCHANGED <<at_table, cursor, page, stale>>
     \/ /\ cursor[p] = NoPage /\ at_table[p] = "suggestions"
        /\ PopulationStep(p, "read")
        /\ at_table' = [at_table EXCEPT ![p] = "queued_suggestions"]
        /\ cursor' = [cursor EXCEPT ![p] = 0]
        /\ UNCHANGED <<page, stale>>
     \/ /\ cursor[p] = NoPage /\ at_table[p] = "queued_suggestions"
        /\ EndPopulation(p)
        /\ stale' = (stale /\ deleter # p)
  /\ UNCHANGED <<table, sid_row, creation, clearing, cache, deleter, sid_raced, hidden>>

(* The worker dies, or the job runs into its timeout. *)
StopPopulation(p) ==
  /\ population[p] # "idle"
  /\ EndPopulation(p)
  /\ UNCHANGED <<table, sid_row, creation, clearing, cache, sidHistory>>

SidNext ==
  \/ \E s \in Sids :
       \/ InsertSid(s) \/ RevokeSid(s) \/ PostSid(s) \/ CacheShared(s) \/ CacheOwn(s)
       \/ WithdrawSid(s) \/ EndCreation(s) \/ SaveThread(s)
       \/ CommitSid(s) \/ RollBackSid(s) \/ LeaveUncached(s)
       \/ ClearSid(s) \/ ReopenSid(s) \/ DeleteSid(s)
  \/ \E p \in Populations :
       \/ Populate(p) \/ DeleteCache(p) \/ NextPage(p) \/ CacheRow(p) \/ ShareRow(p)
       \/ TurnPage(p) \/ StopPopulation(p)

SidSpec == SidInit /\ [][SidNext]_sidVars
-----------------------------------------------------------------------------
(* Once the job that deleted the lists last has run to its end, every open *)
(* suggestion whose creation ended is offered, in both lists, whatever     *)
(* other jobs ran and broke off while it was created; but for the few that *)
(* the job could not see yet when it deleted them, or that were opened     *)
(* again after a /clear, and which the next job brings back.  And nothing  *)
(* else is offered                                                         *)
(* but rows that are about to be committed, and rows that went away while  *)
(* a job or their own creation was under way.                              *)
OffersAreOpen ==
  \A s \in Sids :
    /\ sid_row[s] = "open" /\ creation[s] = "done" /\ ~stale /\ s \notin hidden =>
         s \in cache["shared"] \cap cache[Own(table[s])]
    /\ \A i \in Indexes : s \in cache[i] =>
         \/ s \in sid_raced \/ Contains(clearing[s], i)
         \/ sid_row[s] \in {"open", "draft"} /\ i \in {"shared", Own(table[s])}
=============================================================================
