---------------------------- MODULE MCSuggestions ----------------------------
(* A suggestion in use, and what works on the tables of suggestions behind *)
(* it: the autocomplete cache of their ids and the import from the         *)
(* previous version.  They share no state here: one part is chosen at the  *)
(* start and runs alone, the others stay as they began.  Of the rows whose *)
(* ids are cached the first is a suggestion; queued ones are paged alike.  *)
EXTENDS SuggestionLifecycle, SidCache, V3Migration

CONSTANT v3   (* a voter of the previous version *)

VARIABLE part

Parts == {"suggestion", "sids", "migration"}

MCDocKinds ==
  {[string_id |-> TRUE, uses_views_for_votes |-> TRUE,
    up_voted_by |-> {v3}, down_voted_by |-> {v3}],
   [string_id |-> TRUE, uses_views_for_votes |-> FALSE,
    up_voted_by |-> {}, down_voted_by |-> {}],
   [string_id |-> FALSE, uses_views_for_votes |-> TRUE,
    up_voted_by |-> {}, down_voted_by |-> {v3}]}

MCQueuedKinds ==
  {[string_id |-> TRUE, still_in_queue |-> TRUE, related_suggestion_id |-> NoScript],
   [string_id |-> FALSE, still_in_queue |-> FALSE, related_suggestion_id |-> 1],
   [string_id |-> TRUE, still_in_queue |-> FALSE, related_suggestion_id |-> 1]}

suggestionsVars == <<part, vars, sidVars, migrationVars>>

SuggestionsTypeOK ==
  part \in Parts /\ TypeOK /\ SidTypeOK /\ MigrationTypeOK

SuggestionsInit ==
  /\ part \in Parts
  /\ Init /\ SidInit /\ MigrationInit
  /\ part # "sids" => \A s \in Sids : table[s] = "suggestions"
  /\ \A s \in Sids : s = 1 => table[s] = "suggestions"
  /\ part # "migration" =>
       /\ \A d \in Documents : ~document[d].string_id
       /\ \A d \in QueuedDocuments : ~queued_document[d].string_id

In(p, others) == part = p /\ UNCHANGED <<part, others>>

SuggestionsNext ==
  \/ In("suggestion", <<sidVars, migrationVars>>) /\ Next
  \/ In("sids", <<vars, migrationVars>>) /\ SidNext
  \/ In("migration", <<vars, sidVars>>) /\ MigrationNext

SuggestionsSpec == SuggestionsInit /\ [][SuggestionsNext]_suggestionsVars
=============================================================================
