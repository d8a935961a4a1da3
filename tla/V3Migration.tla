----------------------------- MODULE V3Migration ------------------------------
(***************************************************************************)
(* The move of the previous version's data: documents of a document store  *)
(* become rows, by a chain of scripts that somebody starts one after the   *)
(* other.  A script may die at any step, and is then started again; one    *)
(* that went through may be run again, too, the last ones as well as the   *)
(* first.  Nothing remembers how far a script came: inserts skip what      *)
(* conflicts, files are written anew, but psql appends the votes to a      *)
(* table that has no unique constraint until the last step adds it.        *)
(*                                                                         *)
(* The numbers in a document's id order it.  Text, names, times and the    *)
(* copying of columns are left out, and so is Mongo's cursor order: the    *)
(* documents do not change meanwhile.                                      *)
(***************************************************************************)
EXTENDS Integers, FiniteSets, Sequences

CONSTANTS
  MaxDoc,        (* suggestions of the previous version                  *)
  MaxQueued,     (* its queued suggestions                               *)
  DocKinds,      (* what a suggestion may be like, ...                   *)
  QueuedKinds,   (* ... and a queued suggestion                          *)
  OldVoters,     (* users who voted                                      *)
  BatchSize,     (* rows per INSERT                                      *)
  MaxStops,      (* bound: how often a script dies or is run once more   *)
  NoScript       (* no script, no suggestion                             *)

(* Whether the id is a string, whether votes were cast with buttons, and   *)
(* who voted (migrations.objects.Suggestion).                              *)
Suggestion == [string_id : BOOLEAN, uses_views_for_votes : BOOLEAN,
               up_voted_by : SUBSET OldVoters, down_voted_by : SUBSET OldVoters]
QueuedSuggestion == [string_id : BOOLEAN, still_in_queue : BOOLEAN,
                     related_suggestion_id : 1 .. MaxDoc \cup {NoScript}]

ASSUME V3MigrationAssumption ==
  /\ MaxDoc \in Nat /\ MaxQueued \in Nat /\ BatchSize \in Nat \ {0} /\ MaxStops \in Nat
  /\ DocKinds \subseteq Suggestion /\ QueuedKinds \subseteq QueuedSuggestion
  /\ NoScript \notin Nat

Documents == 1 .. MaxDoc
QueuedDocuments == 1 .. MaxQueued
AllDocuments == ({"s"} \X Documents) \cup ({"q"} \X QueuedDocuments)
Scripts == <<"ensure_configs_exist", "migrate_queued_suggestions", "migrate_suggestions",
             "suggestions.json", "build_related_suggestions", "migrate_votes", "import",
             "unique_votes">>

VARIABLES
  document, queued_document, (* the old data                                      *)
  config_ids,                (* documents that know their user's and guild's rows *)
  suggestion_rows,           (* suggestions: whose row, and its sID               *)
  queued_rows,               (* queued_suggestions: the same, and the state       *)
  links,                     (* queued rows and their related_suggestion          *)
  exported,                  (* suggestions.json: the rows in it                  *)
  csv,                       (* votes.csv: votes, and which run wrote the line     *)
  vote_rows,                 (* suggestion_votes: lines, and which run copied them *)
  unique,                    (* UNIQUE (user_id, suggestion) is there again       *)
  finished,                  (* how many scripts of the list have gone through    *)
  script,                    (* the one that runs, by its number, or NoScript     *)
  reader,                    (* the document its cursor is at                     *)
  to_insert,                 (* rows of the next INSERT, or that are to be linked *)
  stops                      (* history: scripts that died or were run once more  *)

data == <<document, queued_document>>
rows == <<suggestion_rows, queued_rows, links>>
imported == <<vote_rows, unique>>
files == <<exported, csv, imported>>
cursors == <<reader, to_insert>>
migrationVars == <<data, config_ids, rows, files, finished, script, cursors, stops>>
-----------------------------------------------------------------------------
(* A row's sID is the document's, or new each time when that was no string. *)
Sid(doc, d) == IF doc.string_id THEN <<"id", d>> ELSE <<"generated", d, stops>>

SuggestionRow(d) == [doc |-> d, sID |-> Sid(document[d], d)]

StateOf(q) ==
  IF q.still_in_queue THEN "PENDING"
  ELSE IF q.related_suggestion_id # NoScript THEN "APPROVED" ELSE "REJECTED"

QueuedRow(d) ==
  [doc |-> d, sID |-> Sid(queued_document[d], d), state |-> StateOf(queued_document[d])]

(* INSERT ... ON CONFLICT DO NOTHING: sIDs are unique. *)
Inserted(table, new) == table \cup {r \in new : \A old \in table : old.sID # r.sID}

(* The votes that lines of the file or rows of the table stand for, and    *)
(* whether a voter has two lines, or rows, on a suggestion.                *)
Cast(lines) == {l[1] : l \in lines}
Doubled(lines) ==
  \E l, m \in lines : l # m /\ l[1].row = m[1].row /\ l[1].user = m[1].user

MigrationTypeOK ==
  /\ document \in [Documents -> DocKinds]
  /\ queued_document \in [QueuedDocuments -> QueuedKinds]
  /\ config_ids \subseteq AllDocuments
  /\ \A r \in suggestion_rows : r.doc \in Documents
  /\ \A r \in queued_rows : r.doc \in QueuedDocuments
  /\ \A l \in links : l[1] \in queued_rows /\ l[2] \in suggestion_rows
  /\ exported \subseteq suggestion_rows
  /\ \A v \in Cast(csv \cup vote_rows) : v.row \in suggestion_rows /\ v.user \in OldVoters
  /\ unique \in BOOLEAN
  /\ finished \in 0 .. Len(Scripts)
  /\ script \in DOMAIN Scripts \cup {NoScript}
  /\ reader \in Nat /\ stops \in 0 .. MaxStops
  /\ to_insert \subseteq queued_rows \/ Cardinality(to_insert) < BatchSize

MigrationInit ==
  /\ document \in [Documents -> DocKinds]
  /\ queued_document \in [QueuedDocuments -> QueuedKinds]
  /\ config_ids = {}
  /\ suggestion_rows = {} /\ queued_rows = {} /\ links = {}
  /\ exported = {} /\ csv = {} /\ vote_rows = {} /\ unique = FALSE
  /\ finished = 0 /\ script = NoScript /\ stops = 0
  /\ reader = 1 /\ to_insert = {}

Runs(name) == script # NoScript /\ Scripts[script] = name

(* MUTANT of StartScript: migrate_votes goes on in the file that is there. *)
StartScriptAppending(n) ==
  /\ script = NoScript /\ n <= finished + 1
  /\ script' = n
  /\ IF n <= finished THEN stops < MaxStops /\ stops' = stops + 1 ELSE UNCHANGED stops
  /\ finished' = n - 1
  /\ reader' = 1
  /\ to_insert' = IF Scripts[n] = "build_related_suggestions"
                  THEN {r \in queued_rows :
                          queued_document[r.doc].related_suggestion_id # NoScript}
                  ELSE {}
  /\ UNCHANGED <<data, config_ids, rows, files>>

(* A script is started: the next of the list, or an earlier one again, in  *)
(* which case those after it follow again.                                 *)
(* migrate_votes removes the file it is going to write.                    *)
StartScript(n) ==
  /\ script = NoScript /\ n <= finished + 1
  /\ script' = n
  /\ IF n <= finished THEN stops < MaxStops /\ stops' = stops + 1 ELSE UNCHANGED stops
  /\ finished' = n - 1
  /\ reader' = 1
  /\ to_insert' = IF Scripts[n] = "build_related_suggestions"
                  THEN {r \in queued_rows :
                          queued_document[r.doc].related_suggestion_id # NoScript}
                  ELSE {}
  /\ csv' = IF Scripts[n] = "migrate_votes" THEN {} ELSE csv
  /\ UNCHANGED <<data, config_ids, rows, exported, imported>>

Through ==
  /\ script' = NoScript
  /\ finished' = script
  /\ reader' = 1 /\ to_insert' = {}
  /\ UNCHANGED <<data, config_ids, exported, stops>>

(* It ends with an error, at its own last step. *)
Fails ==
  /\ script' = NoScript
  /\ reader' = 1 /\ to_insert' = {}
  /\ UNCHANGED <<data, config_ids, rows, files, finished, stops>>

(* It dies. *)
StopScript ==
  /\ script # NoScript /\ stops < MaxStops
  /\ script' = NoScript
  /\ stops' = stops + 1
  /\ reader' = 1 /\ to_insert' = {}
  /\ UNCHANGED <<data, config_ids, rows, files, finished>>

(* ensure_configs_exist: users and guilds, a batch of each at a time and in *)
(* any order, get their rows, and their documents the ids of these.        *)
EnsureConfigs(batch) ==
  /\ Runs("ensure_configs_exist")
  /\ batch # {}
  /\ config_ids' = config_ids \cup batch
  /\ UNCHANGED <<data, rows, files, finished, script, cursors, stops>>

EndConfigs ==
  /\ Runs("ensure_configs_exist")
  /\ config_ids = AllDocuments
  /\ Through
  /\ UNCHANGED <<rows, csv, imported>>

(* MUTANT of Collect: whether the batch is full is asked before the row is *)
(* added to it.                                                            *)
CollectLate(table, row) ==
  LET full == Cardinality(to_insert) = BatchSize IN
  /\ to_insert' = IF full THEN {row} ELSE to_insert \cup {row}
  /\ table' = IF full THEN Inserted(table, to_insert) ELSE table

(* A batch is inserted as soon as it is full. *)
Collect(table, row) ==
  LET batch == to_insert \cup {row}
      full == Cardinality(batch) = BatchSize
  IN  /\ to_insert' = IF full THEN {} ELSE batch
      /\ table' = IF full THEN Inserted(table, batch) ELSE table

ReadQueuedDocument ==
  /\ Runs("migrate_queued_suggestions")
  /\ reader \in QueuedDocuments /\ <<"q", reader>> \in config_ids
  /\ Collect(queued_rows, QueuedRow(reader))
  /\ reader' = reader + 1
  /\ UNCHANGED <<data, config_ids, suggestion_rows, links, files, finished, script, stops>>

EndQueuedDocuments ==
  /\ Runs("migrate_queued_suggestions") /\ reader > MaxQueued
  /\ queued_rows' = Inserted(queued_rows, to_insert)
  /\ Through
  /\ UNCHANGED <<suggestion_rows, links, csv, imported>>

(* The last INSERT is made even if no row is left for it, and the database *)
(* may refuse an INSERT of nothing: the script dies there.                 *)
InsertNothing ==
  /\ Runs("migrate_queued_suggestions") /\ reader > MaxQueued
  /\ to_insert = {}
  /\ StopScript

(* "We no longer support reaction voting" *)
SkipDocument ==
  /\ Runs("migrate_suggestions") \/ Runs("migrate_votes")
  /\ reader \in Documents /\ ~document[reader].uses_views_for_votes
  /\ reader' = reader + 1
  /\ UNCHANGED <<data, config_ids, rows, files, finished, script, to_insert, stops>>

ReadDocument ==
  /\ Runs("migrate_suggestions")
  /\ reader \in Documents /\ <<"s", reader>> \in config_ids
  /\ document[reader].uses_views_for_votes
  /\ Collect(suggestion_rows, SuggestionRow(reader))
  /\ reader' = reader + 1
  /\ UNCHANGED <<data, config_ids, queued_rows, links, files, finished, script, stops>>

EndDocuments ==
  /\ Runs("migrate_suggestions") /\ reader > MaxDoc
  /\ suggestion_rows' = Inserted(suggestion_rows, to_insert)
  /\ Through
  /\ UNCHANGED <<queued_rows, links, csv, imported>>

(* The table is exported by hand. *)
Export ==
  /\ Runs("suggestions.json")
  /\ exported' = suggestion_rows
  /\ script' = NoScript
  /\ finished' = script
  /\ UNCHANGED <<data, config_ids, rows, csv, imported, cursors, stops>>

Exported(d) == {r \in exported : r.sID = <<"id", d>>}

(* build_related_suggestions; what was not exported stays without.         *)
Relate(q) ==
  LET found == Exported(queued_document[q.doc].related_suggestion_id) IN
  /\ Runs("build_related_suggestions") /\ q \in to_insert
  /\ links' = IF found = {} THEN links
              ELSE {l \in links : l[1] # q} \cup ({q} \X found)
  /\ to_insert' = to_insert \ {q}
  /\ UNCHANGED <<data, config_ids, suggestion_rows, queued_rows, files, finished, script,
                 reader, stops>>

EndRelated ==
  /\ Runs("build_related_suggestions") /\ to_insert = {}
  /\ Through
  /\ UNCHANGED <<rows, csv, imported>>

(* migrate_votes: up votes first, then the down votes of those who did not *)
(* vote up as well.  A line has the time its run began.                    *)
WriteVotes ==
  LET d == document[reader]
      Lines(users, type) ==
        {<<[row |-> r, user |-> u, vote_type |-> type], stops>> :
           r \in Exported(reader), u \in users}
  IN
  /\ Runs("migrate_votes")
  /\ reader \in Documents /\ d.uses_views_for_votes /\ Exported(reader) # {}
  /\ csv' = csv \cup Lines(d.up_voted_by, "UpVote")
               \cup Lines(d.down_voted_by \ d.up_voted_by, "DownVote")
  /\ reader' = reader + 1
  /\ UNCHANGED <<data, config_ids, rows, exported, imported, finished, script, to_insert, stops>>

(* An id that was no string is not the row's: KeyError.                    *)
VotesOfNoRow ==
  /\ Runs("migrate_votes")
  /\ reader \in Documents /\ document[reader].uses_views_for_votes /\ Exported(reader) = {}
  /\ Fails

EndVotes ==
  /\ Runs("migrate_votes") /\ reader > MaxDoc
  /\ Through
  /\ UNCHANGED <<rows, csv, imported>>

(* psql appends the file to the table, a row for every line; all or        *)
(* nothing, and nothing if the constraint is there and would not hold.     *)
Import ==
  LET all == vote_rows \cup {<<l[1], l[2], stops>> : l \in csv} IN
  /\ Runs("import")
  /\ \/ /\ unique => ~Doubled(all)
        /\ vote_rows' = all
        /\ Through
        /\ UNCHANGED <<rows, csv, unique>>
     \/ unique /\ Doubled(all) /\ Fails

(* The constraint is added by hand: once, and only if it holds. *)
AddConstraint ==
  /\ Runs("unique_votes")
  /\ \/ /\ ~unique /\ ~Doubled(vote_rows)
        /\ unique' = TRUE
        /\ Through
        /\ UNCHANGED <<rows, csv, vote_rows>>
     \/ (unique \/ Doubled(vote_rows)) /\ Fails

MigrationNext ==
  \/ \E n \in DOMAIN Scripts : StartScript(n)
  \/ StopScript
  \/ \E batch \in SUBSET (AllDocuments \ config_ids) : EnsureConfigs(batch)
  \/ EndConfigs
  \/ ReadQueuedDocument \/ EndQueuedDocuments \/ InsertNothing
  \/ SkipDocument \/ ReadDocument \/ EndDocuments
  \/ Export
  \/ (\E q \in queued_rows : Relate(q)) \/ EndRelated
  \/ WriteVotes \/ VotesOfNoRow \/ EndVotes
  \/ Import \/ AddConstraint

MigrationSpec == MigrationInit /\ [][MigrationNext]_migrationVars
-----------------------------------------------------------------------------
(* However often the scripts died or were run again, what has gone through *)
(* is whole and not doubled: one row for every document whose id is a      *)
(* string (others get a row per run), a queued suggestion linked to the    *)
(* suggestion it became if there is one, and one line in the file for each *)
(* voter, up when the old data have both.  The table has every vote once   *)
(* the file was imported; importing it again doubles the votes, and then   *)
(* the constraint cannot be added: once it is, each vote is there once.    *)
MigratedOnce ==
  LET RowsOf(table, d) == {r \in table : r.doc = d}
      Moved == {d \in Documents : document[d].uses_views_for_votes /\ document[d].string_id}
      MovedQueued == {d \in QueuedDocuments : queued_document[d].string_id}
      HasTheVotes(lines) ==
        \A d \in Moved, u \in OldVoters :
          {v.vote_type : v \in {x \in Cast(lines) : x.row.doc = d /\ x.user = u}}
            = IF u \in document[d].up_voted_by THEN {"UpVote"}
              ELSE IF u \in document[d].down_voted_by THEN {"DownVote"} ELSE {}
  IN
  /\ finished >= 2 =>
       \A d \in MovedQueued : Cardinality(RowsOf(queued_rows, d)) = 1
  /\ finished >= 3 => \A d \in Moved : Cardinality(RowsOf(suggestion_rows, d)) = 1
  /\ finished >= 5 =>
       \A q \in queued_rows : queued_document[q.doc].string_id =>
         {l[2].doc : l \in {k \in links : k[1] = q}}
           = {queued_document[q.doc].related_suggestion_id} \cap Moved
  /\ finished >= 6 => HasTheVotes(csv) /\ ~Doubled(csv)
  /\ finished >= 7 => HasTheVotes(vote_rows)
  /\ finished = 8 => ~Doubled(vote_rows)
=============================================================================
