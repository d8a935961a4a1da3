-------------------------- MODULE SuggestionsProofs --------------------------
(***************************************************************************)
(* The lists of suggestion ids and the migration from the earlier version, *)
(* for any number of suggestions, pages, documents, voters, jobs and       *)
(* interruptions.  And what they and a suggestion in use promise together. *)
(*                                                                         *)
(* Neither property says anything while a job is under way, so each        *)
(* invariant says what the job has left to do: what the lists lack lies    *)
(* ahead of the population that deleted them last (Backlog), and of the    *)
(* documents behind a script's reader everything has been written          *)
(* (MigrationInv).                                                         *)
(***************************************************************************)
EXTENDS MCSuggestions, SuggestionLifecycleProofs, FiniteSetTheorems,
        SequenceTheorems, WellFoundedInduction, TLAPS
-----------------------------------------------------------------------------
(* The lists of ids. *)

(* The lists an id is offered in, by its table. *)
Offered(s) == {"shared", Own(table[s])}

(* Its creation came as far as the list.                                   *)
PutIn(s, i) ==
  /\ i = "shared" => creation[s] \in {"own", "cached", "done"}
  /\ i # "shared" => creation[s] \in {"cached", "done"}

(* The list has to have the id: its suggestion is open, was not when its   *)
(* id was taken out, and was put into the list.                            *)
Due(s, i) == sid_row[s] = "open" /\ s \notin hidden /\ PutIn(s, i)

(* Job p has the row still before it. *)
Ahead(p, s) ==
  \/ at_table[p] = "suggestions" /\ table[s] = "queued_suggestions"
  \/ at_table[p] = table[s] /\ (s \in page[p] \/ (cursor[p] # NoPage /\ s >= cursor[p]))

(* A population that has deleted the lists and not ended yet. *)
Filling(p) == population[p] \in {"read", "cache", "own"}

(* A row that is being cleared is no longer open, or is again in vain, one *)
(* that is being created is, and what a list has of it is what it should   *)
(* have.  A row that is not committed yet is in the lists it was put in:   *)
(* no job and no moderator knows it, and a job that deletes the lists      *)
(* hides it.                                                               *)
RowOK(s) ==
  /\ clearing[s] # <<>> =>
       sid_row[s] \in {"cleared", "deleted"} \/ (sid_row[s] = "open" /\ s \in hidden)
  /\ creation[s] = "none" <=> sid_row[s] = "none"
  /\ s \in sid_raced => sid_row[s] # "none"
  /\ creation[s] = "made" => sid_row[s] \in {"open", "draft"}
  /\ creation[s] \in {"posted", "own", "cached"} =>
       sid_row[s] \in {"open", "draft"} \/ s \in sid_raced
  /\ sid_row[s] = "draft" =>
       /\ clearing[s] = <<>> /\ s \notin sid_raced
       /\ s \notin hidden => \A i \in Offered(s) : PutIn(s, i) => s \in cache[i]
  /\ \A i \in Indexes : s \in cache[i] =>
       \/ s \in sid_raced \/ Contains(clearing[s], i)
       \/ sid_row[s] \in {"open", "draft"} /\ i \in Offered(s)

(* What a population has in hand: rows that were open when it read them,   *)
(* and are, or were closed since.                                          *)
PopulationOK(p) ==
  /\ population[p] \in {"idle", "delete", "read"} => page[p] = {}
  /\ population[p] = "own" => page[p] # {}
  /\ \A s \in page[p] : table[s] = at_table[p] /\ (sid_row[s] = "open" \/ s \in sid_raced)

(* What is missing in the lists is still before job p, and of the row that *)
(* it is at, its own list has it already when it comes to the shared one.  *)
Backlog(p) == \A s \in Sids : \A i \in Offered(s) : Due(s, i) => s \in cache[i] \/ Ahead(p, s)
Halfway(p) ==
  population[p] = "own" =>
    (Due(Min(page[p]), Own(at_table[p])) => Min(page[p]) \in cache[Own(at_table[p])])

(* Every id that is due is in the lists it is due in. *)
Complete == \A s \in Sids : \A i \in Offered(s) : Due(s, i) => s \in cache[i]

(* Nothing is missing once the job that deleted the lists last has filled  *)
(* them; until then, what is missing is still before that job.             *)
Filled ==
  /\ ~stale => Complete
  /\ stale => deleter \in Populations /\ (Filling(deleter) => Backlog(deleter) /\ Halfway(deleter))

(* The inductive invariant: complete, or one population is on its way to   *)
(* make it so and what it has not reached yet lies ahead of it.            *)
SidInv ==
  /\ SidTypeOK
  /\ \A s \in Sids : RowOK(s)
  /\ \A p \in Populations : PopulationOK(p)
  /\ Filled
-----------------------------------------------------------------------------

(* The least of a set of numbers. *)
LEMMA MinIsMin ==
  ASSUME NEW S \in SUBSET Nat, S # {}
  PROVE  Min(S) \in S /\ \A x \in S : Min(S) <= x
<1> DEFINE less == {ss \in Nat \X Nat : ss[1] < ss[2]}
<1>1. IsWellFoundedOn(less, Nat)
  BY NatLessThanWellFounded DEF OpToRel
<1>2. PICK m \in S : \A x \in S : ~(<<x, m>> \in less)
  <2> HIDE DEF less
  <2> QED
    BY <1>1, WFMin
<1>3. m \in S /\ \A x \in S : m <= x
  <2>1. \A x \in S : ~(x < m) /\ x \in Nat /\ m \in Nat
    BY <1>2
  <2> QED
    BY <2>1
<1> QED
  BY <1>3 DEF Min

(* The lists, and the list of a table. *)
LEMMA IndexesAre == Indexes = {"shared", "queue", "suggestion"} /\ IndexOrder \in Seq(Indexes)
                    /\ \A i \in Indexes : Contains(IndexOrder, i)
<1>1. Len(IndexOrder) = 3 /\ IndexOrder[1] = "shared" /\ IndexOrder[2] = "queue" /\ IndexOrder[3] = "suggestion"
      /\ DOMAIN IndexOrder = 1 .. 3
  BY DEF IndexOrder
<1>2. Indexes = {IndexOrder[n] : n \in 1 .. 3}
  BY <1>1 DEF Indexes, ToSet
<1>3. Indexes = {"shared", "queue", "suggestion"}
  BY <1>1, <1>2
<1>4. IndexOrder \in Seq(Indexes)
  BY <1>3 DEF IndexOrder
<1>5. \A i \in Indexes : \E n \in 1 .. Len(IndexOrder) : IndexOrder[n] = i
  BY <1>1, <1>3
<1> QED
  BY <1>3, <1>4, <1>5 DEF Contains

LEMMA OwnIsIndex ==
  ASSUME NEW t \in Tables
  PROVE  Own(t) \in Indexes /\ Own(t) # "shared"
  BY IndexesAre DEF Own, Tables

(* There is no suggestion and no list at the start. *)
LEMMA SidInitially ==
  ASSUME SidInit
  PROVE  SidInv
<1>1. SidTypeOK
  <2>1. <<>> \in Seq(Indexes)
    OBVIOUS
  <2> QED
    BY <2>1, SidCacheAssumption DEF SidInit, SidTypeOK, Tables
<1>2. \A s \in Sids : RowOK(s)
  BY SidCacheAssumption DEF SidInit, RowOK
<1>3. \A p \in Populations : PopulationOK(p)
  BY DEF SidInit, PopulationOK
<1>4. Filled
  BY DEF SidInit, Filled, Complete, Due
<1> QED
  BY <1>1, <1>2, <1>3, <1>4 DEF SidInv

(* A step for one row leaves the others. *)
OtherRows(s) ==
  \A r \in Sids \ {s} :
    /\ sid_row'[r] = sid_row[r] /\ creation'[r] = creation[r] /\ clearing'[r] = clearing[r]
    /\ \A i \in Indexes : r \in cache'[i] <=> r \in cache[i]
    /\ r \in sid_raced' <=> r \in sid_raced
    /\ r \in hidden' <=> r \in hidden

(* A step of one suggestion, from what it does to its row and to the lists. *)
LEMMA RowStep ==
  ASSUME SidInv, SidTypeOK', NEW s \in Sids, OtherRows(s), RowOK(s)',
         UNCHANGED <<table, populationVars, deleter, stale>>,
         s \in sid_raced => s \in sid_raced',
         sid_row[s] = "open" /\ sid_row'[s] # "open" =>
           s \in sid_raced' \/ \A p \in Populations : s \notin page[p],
         \A i \in Offered(s) : Due(s, i)' =>
           s \in cache'[i] \/ (Due(s, i) /\ s \notin cache[i])
  PROVE  SidInv'
<1> USE DEF populationVars
<1>1. SidTypeOK /\ \A r \in Sids : Offered(r)' = Offered(r) /\ Offered(r) \subseteq Indexes
  BY IndexesAre, OwnIsIndex DEF SidInv, SidTypeOK, Offered
<1>2. \A r \in Sids \ {s} : RowOK(r)'
  <2> TAKE r \in Sids \ {s}
  <2>1. RowOK(r)
    BY DEF SidInv
  <2> QED
    BY <1>1, <2>1 DEF RowOK, OtherRows, PutIn
<1>3. \A p \in Populations : PopulationOK(p)'
  <2> TAKE p \in Populations
  <2>1. PopulationOK(p) /\ page[p] \subseteq Sids
    BY <1>1 DEF SidInv, SidTypeOK
  <2>2. \A r \in page[p] : sid_row'[r] = "open" \/ r \in sid_raced'
    BY <2>1 DEF PopulationOK, OtherRows
  <2> QED
    BY <2>1, <2>2 DEF PopulationOK
<1>4. \A r \in Sids : \A i \in Offered(r) :
        Due(r, i)' => r \in cache'[i] \/ (Due(r, i) /\ (r \in cache[i] => r \in cache'[i]))
  <2> TAKE r \in Sids
  <2> TAKE i \in Offered(r)
  <2>1. CASE r = s
    BY <1>1, <2>1
  <2>2. CASE r # s
    BY <1>1, <2>2 DEF Due, PutIn, OtherRows
  <2> QED
    BY <2>1, <2>2
<1>5. ~stale' => Complete'
  BY <1>1, <1>4 DEF SidInv, Filled, Complete
<1>6. ASSUME stale'
      PROVE  deleter' \in Populations /\ (Filling(deleter)' => Backlog(deleter)' /\ Halfway(deleter)')
  <2>1. deleter' = deleter /\ deleter \in Populations /\ (Filling(deleter)' <=> Filling(deleter))
        /\ (Filling(deleter) => Backlog(deleter) /\ Halfway(deleter))
    BY <1>6 DEF SidInv, Filled, Filling
  <2>2. ASSUME Filling(deleter)
        PROVE  Backlog(deleter)'
    BY <1>1, <1>4, <2>1, <2>2 DEF Backlog, Ahead
  <2>3. ASSUME Filling(deleter)
        PROVE  Halfway(deleter)'
    <3>1. PICK r, i : r = Min(page[deleter]) /\ i = Own(at_table[deleter])
      OBVIOUS
    <3> SUFFICES ASSUME population[deleter] = "own", Due(r, i)'
                 PROVE  r \in cache'[i]
      BY <2>1, <3>1 DEF Halfway
    <3>2. page[deleter] # {} /\ page[deleter] \in SUBSET Nat /\ PopulationOK(deleter) /\ page[deleter] \subseteq Sids
      BY <1>1, <2>1 DEF SidInv, PopulationOK, SidTypeOK, Sids
    <3>3. r \in page[deleter] /\ r \in Sids
      BY <3>1, <3>2, MinIsMin
    <3>4. i \in Offered(r)
      BY <3>1, <3>2, <3>3 DEF PopulationOK, Offered
    <3>5. Due(r, i) => r \in cache[i]
      BY <2>1, <2>3, <3>1 DEF Halfway
    <3> QED
      BY <1>4, <3>3, <3>4, <3>5
  <2> QED
    BY <2>1, <2>2, <2>3
<1> QED
  BY <1>2, <1>3, <1>5, <1>6 DEF SidInv, Filled

(* The steps of a suggestion's creation and of its end, one lemma each. *)
LEMMA InsertSidStep ==
  ASSUME SidInv, NEW s \in Sids, InsertSid(s)
  PROVE  SidInv'
<1>1. PICK new \in {"open", "draft"} :
        /\ sid_row[s] = "none" /\ sid_row' = [sid_row EXCEPT ![s] = new]
        /\ creation' = [creation EXCEPT ![s] = "made"]
        /\ UNCHANGED <<table, clearing, cache, populationVars, deleter, stale, sid_raced, hidden>>
  BY DEF InsertSid, CreationStep, sidHistory
<1>2. SidTypeOK /\ RowOK(s)
  BY DEF SidInv
<1>3. sid_row'[s] = new /\ creation'[s] = "made" /\ OtherRows(s)
  BY <1>1, <1>2 DEF SidTypeOK, OtherRows
<1>4. SidTypeOK'
  BY <1>1, <1>2 DEF SidTypeOK, populationVars
<1>5. \A i : ~PutIn(s, i)'
  BY <1>3 DEF PutIn
<1>6. RowOK(s)'
  <2>1. clearing[s] = <<>> /\ s \notin sid_raced
    BY <1>1, <1>2 DEF RowOK
  <2>2. \A i \in Indexes : s \notin cache[i]
    <3>1. \A i \in Indexes : ~Contains(clearing[s], i)
      BY <2>1 DEF Contains
    <3> QED
      BY <1>1, <1>2, <2>1, <3>1 DEF RowOK
  <2> QED
    BY <1>1, <1>3, <1>5, <2>1, <2>2 DEF RowOK
<1> QED
  BY <1>1, <1>3, <1>4, <1>5, <1>6, RowStep DEF Due

(* A row may go away while no job has read it. *)
LEMMA NoPages ==
  ASSUME SidInv, Populating = {}
  PROVE  \A p \in Populations : page[p] = {}
  BY DEF SidInv, PopulationOK, Populating

(* A row that is deleted is in no list, or has been raced for.             *)
LEMMA TakeBackStep ==
  ASSUME SidInv, NEW s \in Sids, NEW c \in {"done", "left"}, TakeBack(s),
         CreationStep(s, c), creation[s] # "none"
  PROVE  SidInv'
<1>1. /\ sid_row' = [sid_row EXCEPT ![s] = "deleted"]
      /\ creation' = [creation EXCEPT ![s] = c]
      /\ sid_raced' = IF Populating = {} /\ \A i \in Indexes : s \notin cache[i]
                      THEN sid_raced ELSE sid_raced \cup {s}
      /\ UNCHANGED <<table, clearing, cache, populationVars, deleter, stale, hidden>>
  BY DEF TakeBack, CreationStep
<1>2. SidTypeOK /\ RowOK(s)
  BY DEF SidInv
<1>3. sid_row'[s] = "deleted" /\ creation'[s] = c /\ OtherRows(s)
  BY <1>1, <1>2 DEF SidTypeOK, OtherRows
<1>4. SidTypeOK'
  BY <1>1, <1>2 DEF SidTypeOK, populationVars
<1>5. RowOK(s)'
  BY <1>1, <1>2, <1>3 DEF RowOK
<1>6. s \in sid_raced' \/ \A p \in Populations : s \notin page[p]
  BY <1>1, NoPages
<1> QED
  BY <1>1, <1>3, <1>4, <1>5, <1>6, RowStep DEF Due

LEMMA TakenBackStep ==
  ASSUME SidInv, NEW s \in Sids, RevokeSid(s) \/ WithdrawSid(s) \/ RollBackSid(s)
  PROVE  SidInv'
<1>1. CASE RevokeSid(s) \/ WithdrawSid(s)
  BY <1>1, TakeBackStep DEF RevokeSid, WithdrawSid
<1>2. CASE RollBackSid(s)
  <2>1. creation[s] # "none"
    BY <1>2 DEF RollBackSid, SidInv, RowOK
  <2> QED
    BY <1>2, <2>1, TakeBackStep DEF RollBackSid
<1> QED
  BY <1>1, <1>2

(* The creation goes on, or ends, and nothing else.                        *)
LEMMA PostSidStep ==
  ASSUME SidInv, NEW s \in Sids, PostSid(s) \/ EndCreation(s) \/ LeaveUncached(s)
  PROVE  SidInv'
<1>1. /\ creation[s] \in {"made", "posted", "own", "cached"}
      /\ UNCHANGED <<table, sid_row, clearing, cache, populationVars, deleter, stale, sid_raced, hidden>>
  BY DEF PostSid, EndCreation, LeaveUncached, sidHistory
<1>2. PICK c \in {"posted", "done", "left"} :
        /\ creation' = [creation EXCEPT ![s] = c]
        /\ c = "posted" => creation[s] = "made"
        /\ c = "done" => creation[s] = "cached"
        /\ c = "left" => sid_row[s] # "draft"
  BY DEF PostSid, EndCreation, LeaveUncached, CreationStep
<1>3. SidTypeOK /\ RowOK(s)
  BY DEF SidInv
<1>4. creation'[s] = c /\ OtherRows(s)
  BY <1>1, <1>2, <1>3 DEF SidTypeOK, OtherRows
<1>5. SidTypeOK'
  BY <1>1, <1>2, <1>3 DEF SidTypeOK, populationVars
<1>6. \A i : PutIn(s, i)' => PutIn(s, i)
  BY <1>2, <1>4 DEF PutIn
<1>7. RowOK(s)'
  BY <1>1, <1>2, <1>3, <1>4, <1>6 DEF RowOK, Offered
<1>8. \A i : Due(s, i)' => Due(s, i)
  BY <1>1, <1>6 DEF Due
<1> QED
  BY <1>1, <1>4, <1>5, <1>7, <1>8, RowStep

(* The row is open, at the commit, or again after a /clear: what was in    *)
(* the lists is still there, and what was taken out is hidden.             *)
LEMMA OpenSidStep ==
  ASSUME SidInv, NEW s \in Sids, SaveThread(s) \/ CommitSid(s) \/ ReopenSid(s)
  PROVE  SidInv'
<1>1. /\ sid_row' = [sid_row EXCEPT ![s] = "open"]
      /\ UNCHANGED <<table, clearing, cache, populationVars, deleter, stale, sid_raced>>
  BY DEF SaveThread, CommitSid, ReopenSid, sidHistory
<1>2. \/ /\ sid_row[s] = "cleared" /\ hidden' = hidden \cup {s}
         /\ \/ creation' = [creation EXCEPT ![s] = "done"]
            \/ creation' = creation
      \/ sid_row[s] = "draft" /\ creation[s] = "done" /\ UNCHANGED <<hidden, creation>>
  BY DEF SaveThread, CommitSid, ReopenSid, CreationStep, sidHistory
<1>3. SidTypeOK /\ RowOK(s)
  BY DEF SidInv
<1>4. sid_row'[s] = "open" /\ creation'[s] \in {"done", creation[s]} /\ OtherRows(s)
  BY <1>1, <1>2, <1>3 DEF SidTypeOK, OtherRows
<1>5. SidTypeOK'
  BY <1>1, <1>2, <1>3 DEF SidTypeOK, populationVars
<1>6. RowOK(s)'
  <2>1. CASE sid_row[s] = "cleared"
    BY <1>1, <1>2, <1>3, <1>4, <2>1 DEF RowOK
  <2>2. CASE sid_row[s] = "draft"
    BY <1>1, <1>2, <1>3, <1>4, <2>2 DEF RowOK, Offered
  <2> QED
    BY <1>2, <2>1, <2>2
<1>7. \A i \in Offered(s) : Due(s, i)' => s \in cache'[i]
  BY <1>1, <1>2, <1>3, <1>4 DEF Due, RowOK, PutIn
<1> QED
  BY <1>1, <1>2, <1>4, <1>5, <1>6, <1>7, RowStep

LEMMA CacheStep ==
  ASSUME SidInv, NEW s \in Sids, NEW i \in Offered(s), Cache(i, s),
         creation[s] \in {"posted", "own"},
         creation' = [creation EXCEPT ![s] = IF i = "shared" THEN "own" ELSE "cached"],
         i = "shared" <=> creation[s] = "posted",
         UNCHANGED <<table, sid_row, clearing, populationVars, deleter, stale, sid_raced, hidden>>
  PROVE  SidInv'
<1>2. SidTypeOK /\ RowOK(s)
  BY DEF SidInv
<1>3. i \in Indexes /\ Offered(s) \subseteq Indexes /\ Offered(s)' = Offered(s)
  BY <1>2, IndexesAre, OwnIsIndex DEF SidTypeOK, Offered
<1>4. /\ \A r \in Sids, j \in Indexes : r \in cache'[j] <=> r \in cache[j] \/ (r = s /\ j = i)
      /\ cache' \in [Indexes -> SUBSET Sids]
  BY <1>2, <1>3 DEF Cache, SidTypeOK
<1>5. creation'[s] = (IF i = "shared" THEN "own" ELSE "cached") /\ OtherRows(s)
  BY <1>2, <1>4 DEF SidTypeOK, OtherRows
<1>6. SidTypeOK'
  BY <1>2, <1>4 DEF SidTypeOK, populationVars
<1>7. sid_row[s] \in {"open", "draft"} \/ s \in sid_raced
  BY <1>2 DEF RowOK
<1>8. \A j \in Offered(s) : PutIn(s, j)' => PutIn(s, j) \/ s \in cache'[j]
  <2> TAKE j \in Offered(s)
  <2>1. CASE j = i
    BY <1>3, <1>4, <2>1
  <2>2. CASE j # i
    BY <1>5, <2>2 DEF PutIn, Offered
  <2> QED
    BY <2>1, <2>2
<1>9. \A j \in Indexes : s \in cache[j] => s \in cache'[j]
  BY <1>4
<1>10. RowOK(s)'
  <2>1. creation'[s] \in {"own", "cached"} /\ creation[s] # "none"
    BY <1>5
  <2>2. \A j \in Indexes : s \in cache'[j] =>
          \/ s \in sid_raced' \/ Contains(clearing'[s], j)
          \/ sid_row'[s] \in {"open", "draft"} /\ j \in Offered(s)'
    BY <1>2, <1>3, <1>4, <1>7 DEF RowOK
  <2>3. sid_row[s] = "draft" /\ s \notin hidden =>
          \A j \in Offered(s) : PutIn(s, j)' => s \in cache'[j]
    BY <1>2, <1>3, <1>8, <1>9 DEF RowOK
  <2> QED
    BY <1>2, <1>3, <1>7, <2>1, <2>2, <2>3 DEF RowOK
<1>11. \A j \in Offered(s) : Due(s, j)' =>
         s \in cache'[j] \/ (Due(s, j) /\ s \notin cache[j])
  BY <1>3, <1>8, <1>9 DEF Due
<1>12. /\ ~(sid_row[s] = "open" /\ sid_row'[s] # "open")
       /\ s \in sid_raced => s \in sid_raced'
       /\ UNCHANGED <<table, populationVars, deleter, stale>>
  OBVIOUS
<1> QED
  BY <1>5, <1>6, <1>10, <1>11, <1>12, RowStep

LEMMA ClearSidStep ==
  ASSUME SidInv, NEW s \in Sids, ClearSid(s)
  PROVE  SidInv'
<1>1. /\ sid_row[s] = "open" /\ creation[s] # "made" /\ sid_row' = [sid_row EXCEPT ![s] = "cleared"]
      /\ clearing' = [clearing EXCEPT ![s] = IndexOrder]
      /\ sid_raced' = IF Populating = {} /\ creation[s] \in {"done", "left"}
                      THEN sid_raced ELSE sid_raced \cup {s}
      /\ UNCHANGED <<table, creation, cache, populationVars, deleter, stale, hidden>>
  BY DEF ClearSid
<1>2. SidTypeOK /\ RowOK(s)
  BY DEF SidInv
<1>3. sid_row'[s] = "cleared" /\ clearing'[s] = IndexOrder /\ OtherRows(s)
  BY <1>1, <1>2 DEF SidTypeOK, OtherRows
<1>4. SidTypeOK'
  BY <1>1, <1>2, IndexesAre DEF SidTypeOK, populationVars
<1>5. RowOK(s)'
  <2>1. \A j \in Indexes : Contains(clearing[s], j)'
    BY <1>3, IndexesAre DEF Contains
  <2>2. creation'[s] \in {"posted", "own", "cached"} => s \in sid_raced'
    BY <1>1
  <2>3. creation'[s] \notin {"none", "made"}
    BY <1>1, <1>2 DEF RowOK
  <2> QED
    BY <1>1, <1>3, <2>1, <2>2, <2>3 DEF RowOK
<1>6. s \in sid_raced' \/ \A p \in Populations : s \notin page[p]
  BY <1>1, NoPages
<1> QED
  BY <1>1, <1>3, <1>4, <1>5, <1>6, RowStep DEF Due

LEMMA DeleteSidStep ==
  ASSUME SidInv, NEW s \in Sids, DeleteSid(s)
  PROVE  SidInv'
<1>1. /\ clearing[s] # <<>> /\ cache' = [cache EXCEPT ![Head(clearing[s])] = @ \ {s}]
      /\ clearing' = [clearing EXCEPT ![s] = Tail(@)]
      /\ UNCHANGED <<table, sid_row, creation, populationVars, deleter, stale, sid_raced, hidden>>
  BY DEF DeleteSid, sidHistory
<1>2. SidTypeOK /\ RowOK(s)
  BY DEF SidInv
<1>3. PICK q \in Seq(Indexes) : q = clearing[s] /\ q # <<>>
  BY <1>1, <1>2 DEF SidTypeOK
<1>4. PICK rest : rest = Tail(q)
  OBVIOUS
<1>5. PICK len : len = Len(q)
  OBVIOUS
<1>6. /\ Head(q) \in Indexes /\ Head(q) = q[1] /\ rest \in Seq(Indexes) /\ len \in Nat /\ len > 0
      /\ Len(rest) = len - 1 /\ \A n \in 1 .. len - 1 : rest[n] = q[n + 1]
  <2>1. /\ Head(q) \in Indexes /\ Head(q) = q[1] /\ Tail(q) \in Seq(Indexes)
        /\ Len(q) \in Nat /\ Len(q) > 0
        /\ Len(Tail(q)) = Len(q) - 1
        /\ \A n \in 1 .. Len(q) - 1 : Tail(q)[n] = q[n + 1]
    BY <1>3, HeadTailProperties, EmptySeq
  <2> QED
    BY <1>4, <1>5, <2>1
<1>7. PICK head \in Indexes : head = q[1]
  BY <1>6
<1>8. /\ cache' = [cache EXCEPT ![head] = @ \ {s}] /\ clearing' = [clearing EXCEPT ![s] = rest]
      /\ sid_row[s] \in {"cleared", "deleted"} \/ (sid_row[s] = "open" /\ s \in hidden)
  BY <1>1, <1>2, <1>3, <1>4, <1>6, <1>7 DEF RowOK
<1>9. /\ \A r \in Sids, j \in Indexes : r \in cache'[j] <=> r \in cache[j] /\ ~(r = s /\ j = head)
      /\ cache' \in [Indexes -> SUBSET Sids] /\ clearing'[s] = rest
      /\ clearing' \in [Sids -> Seq(Indexes)]
  BY <1>2, <1>6, <1>8 DEF SidTypeOK
<1>10. OtherRows(s)
  BY <1>1, <1>2, <1>8, <1>9 DEF OtherRows, SidTypeOK
<1>11. SidTypeOK'
  BY <1>1, <1>2, <1>9 DEF SidTypeOK, populationVars
<1>12. \A j \in Indexes \ {head} : Contains(q, j) => Contains(rest, j)
  <2> SUFFICES ASSUME NEW j \in Indexes \ {head}, NEW n \in 1 .. len, q[n] = j
               PROVE  \E m \in 1 .. Len(rest) : rest[m] = j
    BY <1>5 DEF Contains
  <2>1. n # 1
    BY <1>7
  <2>2. n - 1 \in 1 .. len - 1 /\ n - 1 + 1 = n
    BY <1>6, <2>1
  <2>3. rest[n - 1] = q[n]
    BY <1>6, <2>2
  <2> QED
    BY <1>6, <2>2, <2>3
<1>13. RowOK(s)'
  <2>1. \A j \in Indexes : s \in cache'[j] =>
          \/ s \in sid_raced \/ Contains(rest, j)
          \/ sid_row[s] = "open" /\ j \in Offered(s)
    BY <1>2, <1>3, <1>8, <1>9, <1>12 DEF RowOK
  <2>2. Offered(s)' = Offered(s)
    BY <1>1 DEF Offered
  <2> QED
    <3>1. /\ UNCHANGED <<sid_row, creation, sid_raced, hidden>> /\ sid_row[s] # "draft"
          /\ clearing'[s] = rest
      BY <1>1, <1>8, <1>9
    <3> QED
      BY <1>2, <1>8, <2>1, <2>2, <3>1 DEF RowOK
<1>14. \A j : ~Due(s, j)'
  BY <1>1, <1>8 DEF Due
<1> QED
  BY <1>1, <1>10, <1>11, <1>13, <1>14, RowStep

(* A step of one job leaves the others. *)
OtherPopulations(p) ==
  \A q \in Populations \ {p} :
    /\ population'[q] = population[q] /\ at_table'[q] = at_table[q]
    /\ cursor'[q] = cursor[q] /\ page'[q] = page[q]

(* A step of one population, from what it leaves of the rows and of the    *)
(* lists.                                                                  *)
LEMMA PopulationKeeps ==
  ASSUME SidInv, SidTypeOK', NEW p \in Populations, OtherPopulations(p), PopulationOK(p)',
         UNCHANGED <<table, sid_row, creation, clearing>>,
         sid_raced \subseteq sid_raced',
         \A s \in sid_raced' : s \in sid_raced \/ clearing[s] # <<>>,
         \/ hidden' = hidden /\ \A i \in Indexes : cache[i] \subseteq cache'[i]
         \/ \A s \in Sids : s \in hidden' <=>
               \/ sid_row[s] = "draft" /\ creation[s] \in {"own", "cached", "done"}
               \/ sid_row[s] = "open" /\ clearing[s] # <<>>,
         \A s \in Sids, i \in Indexes : s \in cache'[i] =>
           s \in cache[i] \/ (i \in Offered(s) /\ (sid_row[s] = "open" \/ s \in sid_raced)),
         Filled'
  PROVE  SidInv'
<1>1. ASSUME NEW s \in Sids
      PROVE  RowOK(s)'
  <2>1. RowOK(s)
    BY DEF SidInv
  <2>2. Offered(s)' = Offered(s)
    BY DEF Offered
  <2>3. /\ s \in sid_raced' => sid_row[s] # "none" \/ clearing[s] # <<>>
        /\ sid_row[s] = "draft" => s \notin sid_raced' /\ clearing[s] = <<>>
    BY <2>1 DEF RowOK
  <2>4. \A i \in Indexes : s \in cache'[i] =>
          \/ s \in sid_raced' \/ Contains(clearing[s], i)
          \/ sid_row[s] \in {"open", "draft"} /\ i \in Offered(s)
    BY <2>1 DEF RowOK
  <2>5. clearing[s] # <<>> =>
          sid_row[s] \in {"cleared", "deleted"} \/ (sid_row[s] = "open" /\ s \in hidden')
    BY <2>1 DEF RowOK
  <2>6. sid_row[s] = "draft" /\ s \notin hidden' =>
          \A i \in Offered(s) : PutIn(s, i) => s \in cache'[i]
    BY <2>1, IndexesAre, OwnIsIndex DEF RowOK, PutIn, Offered, SidInv, SidTypeOK
  <2>7. \A i : PutIn(s, i)' = PutIn(s, i)
    BY DEF PutIn
  <2> QED
    BY <2>1, <2>2, <2>3, <2>4, <2>5, <2>6, <2>7 DEF RowOK
<1>2. ASSUME NEW q \in Populations
      PROVE  PopulationOK(q)'
  <2>1. CASE q = p
    BY <2>1
  <2>2. CASE q # p
    BY <2>2 DEF SidInv, PopulationOK, OtherPopulations
  <2> QED
    BY <2>1, <2>2
<1> QED
  BY <1>1, <1>2 DEF SidInv

LEMMA FilledStays ==
  ASSUME SidInv, NEW p \in Populations, OtherPopulations(p),
         UNCHANGED <<table, sid_row, creation, deleter, stale, hidden>>,
         \A i \in Indexes : cache[i] \subseteq cache'[i],
         stale /\ deleter = p /\ Filling(p)' => Backlog(p)' /\ Halfway(p)'
  PROVE  Filled'
<1>1. \A s \in Sids : Offered(s)' = Offered(s) /\ Offered(s) \subseteq Indexes
  BY IndexesAre, OwnIsIndex DEF SidInv, SidTypeOK, Offered
<1>2. \A s \in Sids : \A i \in Indexes : Due(s, i)' <=> Due(s, i)
  BY DEF Due, PutIn
<1>3. ~stale' => Complete'
  BY <1>1, <1>2 DEF SidInv, Filled, Complete
<1>4. CASE stale /\ deleter = p
  BY <1>4 DEF Filled
<1>5. CASE stale /\ deleter # p
  <2>1. PICK q \in Populations \ {p} : q = deleter
    BY <1>5 DEF SidInv, Filled
  <2>2. /\ population'[q] = population[q] /\ at_table'[q] = at_table[q]
        /\ cursor'[q] = cursor[q] /\ page'[q] = page[q]
    BY <2>1 DEF OtherPopulations
  <2>3. Filling(q)' => Backlog(q) /\ Halfway(q)
    BY <1>5, <2>1, <2>2 DEF SidInv, Filled, Filling
  <2>4. Backlog(q) => Backlog(q)'
    BY <1>1, <1>2, <2>2 DEF Backlog, Ahead
  <2>5. Own(at_table[q]) \in Indexes
    BY OwnIsIndex DEF SidInv, SidTypeOK
  <2>6. Halfway(q) => Halfway(q)'
    BY <2>2, <2>5 DEF Halfway, Due, PutIn
  <2> QED
    BY <1>5, <2>1, <2>3, <2>4, <2>6 DEF Filled
<1>6. CASE ~stale
  BY <1>3, <1>6 DEF Filled
<1> QED
  BY <1>4, <1>5, <1>6

(* The steps of a population, one lemma each. *)
LEMMA PopulateStep ==
  ASSUME SidInv, NEW p \in Populations, Populate(p)
  PROVE  SidInv'
<1>1. /\ population[p] = "idle" /\ population' = [population EXCEPT ![p] = "delete"]
      /\ sid_raced' = sid_raced \cup {s \in Sids : clearing[s] # <<>>}
      /\ UNCHANGED <<table, sid_row, creation, clearing, cache, at_table, cursor, page,
                     deleter, stale, hidden>>
  BY DEF Populate, PopulationStep
<1>2. SidTypeOK /\ PopulationOK(p)
  BY DEF SidInv
<1>3. population'[p] = "delete" /\ OtherPopulations(p)
  BY <1>1, <1>2 DEF SidTypeOK, OtherPopulations
<1>4. SidTypeOK'
  BY <1>1, <1>2 DEF SidTypeOK
<1>5. PopulationOK(p)'
  BY <1>1, <1>2, <1>3 DEF PopulationOK
<1>6. Filled'
  BY <1>1, <1>3, FilledStays DEF Filling
<1> QED
  BY <1>1, <1>3, <1>4, <1>5, <1>6, PopulationKeeps

LEMMA DeleteCacheStep ==
  ASSUME SidInv, NEW p \in Populations, DeleteCache(p)
  PROVE  SidInv'
<1>1. /\ population[p] = "delete" /\ population' = [population EXCEPT ![p] = "read"]
      /\ cache' = [i \in Indexes |-> {}]
      /\ at_table' = [at_table EXCEPT ![p] = "suggestions"]
      /\ cursor' = [cursor EXCEPT ![p] = 0]
      /\ deleter' = p /\ stale' = TRUE
      /\ hidden' = {s \in Sids :
                      \/ sid_row[s] = "draft" /\ creation[s] \in {"own", "cached", "done"}
                      \/ sid_row[s] = "open" /\ clearing[s] # <<>>}
      /\ UNCHANGED <<table, sid_row, creation, clearing, page, sid_raced>>
  BY DEF DeleteCache, PopulationStep
<1>2. SidTypeOK /\ PopulationOK(p)
  BY DEF SidInv
<1>3. /\ population'[p] = "read" /\ at_table'[p] = "suggestions" /\ cursor'[p] = 0
      /\ OtherPopulations(p)
  BY <1>1, <1>2 DEF SidTypeOK, OtherPopulations
<1>4. SidTypeOK'
  BY <1>1, <1>2 DEF SidTypeOK, Tables
<1>5. PopulationOK(p)'
  BY <1>1, <1>2, <1>3 DEF PopulationOK
<1>6. \A s \in Sids : Ahead(p, s)'
  <2>1. \A s \in Sids : s >= 0 /\ table[s] \in {"suggestions", "queued_suggestions"}
    BY <1>2 DEF Sids, SidTypeOK, Tables
  <2>2. 0 # NoPage
    BY SidCacheAssumption
  <2> QED
    BY <1>1, <1>3, <2>1, <2>2 DEF Ahead
<1>7. Filled'
  BY <1>1, <1>3, <1>6 DEF Filled, Backlog, Halfway
<1> QED
  BY <1>1, <1>3, <1>4, <1>5, <1>7, PopulationKeeps

LEMMA NextPageStep ==
  ASSUME SidInv, NEW p \in Populations, NextPage(p)
  PROVE  SidInv'
<1>1. PICK left : left = {s \in Made(at_table[p]) : s >= cursor[p]}
  OBVIOUS
<1>2. PICK these : these = {s \in left : Cardinality({r \in left : r < s}) < PageSize}
  OBVIOUS
<1>3. /\ population[p] = "read" /\ cursor[p] # NoPage
      /\ page' = [page EXCEPT ![p] = these \cap {s \in Sids : sid_row[s] = "open"}]
      /\ cursor' = [cursor EXCEPT ![p] = IF left = these THEN NoPage ELSE Min(left \ these)]
      /\ population' = [population EXCEPT ![p] = "cache"]
      /\ UNCHANGED <<table, sid_row, creation, clearing, cache, at_table, deleter,
                     stale, sid_raced, hidden>>
  BY <1>1, <1>2 DEF NextPage, PopulationStep, sidHistory
<1>4. SidTypeOK /\ PopulationOK(p)
  BY DEF SidInv
<1>5. these \subseteq left /\ left \subseteq Sids /\ left \in SUBSET Nat
      /\ \A s \in left : table[s] = at_table[p]
  BY <1>1, <1>2 DEF Made, Sids
<1>6. PICK next : next = IF left = these THEN NoPage ELSE Min(left \ these)
  OBVIOUS
<1>7. left # these => next \in left \ these /\ \A s \in left \ these : next <= s
  <2> HAVE left # these
  <2>1. left \ these # {} /\ left \ these \in SUBSET Nat
    BY <1>5
  <2> QED
    BY <1>6, <2>1, MinIsMin
<1>8. /\ population'[p] = "cache" /\ cursor'[p] = next
      /\ page'[p] = {s \in these : sid_row[s] = "open"} /\ OtherPopulations(p)
      /\ cursor' = [cursor EXCEPT ![p] = next]
  BY <1>3, <1>4, <1>5, <1>6 DEF SidTypeOK, OtherPopulations
<1>9. next \in Nat \cup {NoPage}
  BY <1>5, <1>6, <1>7
<1>10. SidTypeOK'
  BY <1>3, <1>4, <1>5, <1>8, <1>9 DEF SidTypeOK
<1>11. PopulationOK(p)'
  BY <1>3, <1>5, <1>8 DEF PopulationOK
<1>12. Filled'
  <2> SUFFICES ASSUME stale, deleter = p, Filling(p)'
               PROVE  Backlog(p)' /\ Halfway(p)'
    BY <1>3, <1>8, FilledStays
  <2>1. Filling(p) /\ Backlog(p)
    BY <1>3 DEF SidInv, Filled, Filling
  <2>2. Halfway(p)'
    BY <1>8 DEF Halfway
  <2>3. ASSUME NEW s \in Sids, NEW i \in Offered(s), Due(s, i), Ahead(p, s)
        PROVE  Ahead(p, s)'
    <3>1. CASE at_table[p] = "suggestions" /\ table[s] = "queued_suggestions"
      BY <1>3, <3>1 DEF Ahead
    <3>2. CASE at_table[p] = table[s]
      <4>1. s \notin page[p] /\ s >= cursor[p]
        BY <1>3, <1>4, <2>3, <3>2, SidCacheAssumption DEF Ahead, PopulationOK, Tables
      <4>2. sid_row[s] = "open"
        BY <2>3 DEF Due
      <4>3. s \in left
        BY <1>1, <3>2, <4>1, <4>2 DEF Made
      <4>4. CASE s \in these
        BY <1>3, <1>8, <3>2, <4>2, <4>4 DEF Ahead
      <4>5. CASE s \notin these
        <5>1. next \in Nat /\ s >= next
          BY <1>5, <1>7, <4>3, <4>5
        <5>2. next # NoPage
          BY <5>1, SidCacheAssumption
        <5> QED
          BY <1>3, <1>8, <3>2, <5>1, <5>2 DEF Ahead
      <4> QED
        BY <4>4, <4>5
    <3> QED
      BY <2>3, <3>1, <3>2 DEF Ahead
  <2>4. Backlog(p)'
    BY <1>3, <2>1, <2>3 DEF Backlog, Offered, Due, PutIn
  <2> QED
    BY <2>2, <2>4
<1> QED
  BY <1>3, <1>8, <1>10, <1>11, <1>12, PopulationKeeps

LEMMA CacheRowStep ==
  ASSUME SidInv, NEW p \in Populations, CacheRow(p)
  PROVE  SidInv'
<1>1. PICK s : s = Min(page[p])
  OBVIOUS
<1>2. PICK i : i = Own(at_table[p])
  OBVIOUS
<1>3. /\ population[p] = "cache" /\ page[p] # {}
      /\ cache' = [cache EXCEPT ![i] = @ \cup {s}]
      /\ population' = [population EXCEPT ![p] = "own"]
      /\ UNCHANGED <<table, sid_row, creation, clearing, at_table, cursor, page, deleter,
                     stale, sid_raced, hidden>>
  BY <1>1, <1>2 DEF CacheRow, Cache, PopulationStep, sidHistory
<1>4. SidTypeOK /\ PopulationOK(p)
  BY DEF SidInv
<1>5. s \in page[p] /\ s \in Sids
  <2>1. page[p] \in SUBSET Nat /\ page[p] \subseteq Sids
    BY <1>4 DEF SidTypeOK, Sids
  <2> QED
    BY <1>1, <1>3, <2>1, MinIsMin
<1>6. table[s] = at_table[p] /\ (sid_row[s] = "open" \/ s \in sid_raced)
      /\ i \in Indexes /\ i \in Offered(s)
  BY <1>2, <1>4, <1>5, OwnIsIndex DEF PopulationOK, Offered, SidTypeOK
<1>7. /\ \A r \in Sids, j \in Indexes : r \in cache'[j] <=> r \in cache[j] \/ (r = s /\ j = i)
      /\ cache' \in [Indexes -> SUBSET Sids]
      /\ \A j \in Indexes : cache[j] \subseteq cache'[j]
  BY <1>3, <1>4, <1>5, <1>6 DEF SidTypeOK
<1>8. population'[p] = "own" /\ OtherPopulations(p)
  BY <1>3, <1>4 DEF SidTypeOK, OtherPopulations
<1>9. SidTypeOK'
  BY <1>3, <1>4, <1>7 DEF SidTypeOK
<1>10. PopulationOK(p)'
  BY <1>3, <1>4, <1>8 DEF PopulationOK
<1>11. Filled'
  <2> SUFFICES ASSUME stale, deleter = p
               PROVE  Backlog(p)' /\ Halfway(p)'
    BY <1>3, <1>7, <1>8, FilledStays
  <2>1. Backlog(p)
    BY <1>3 DEF SidInv, Filled, Filling
  <2>2. \A r \in Sids : Offered(r)' = Offered(r) /\ Offered(r) \subseteq Indexes
    BY <1>3, <1>4, IndexesAre, OwnIsIndex DEF Offered, SidTypeOK
  <2>3. Backlog(p)'
    BY <1>3, <1>7, <2>1, <2>2 DEF Backlog, Ahead, Due, PutIn
  <2>4. s \in cache'[i]
    BY <1>5, <1>6, <1>7
  <2> QED
    BY <1>1, <1>2, <1>3, <2>3, <2>4 DEF Halfway
<1> QED
  BY <1>3, <1>6, <1>7, <1>8, <1>9, <1>10, <1>11, PopulationKeeps

LEMMA ShareRowStep ==
  ASSUME SidInv, NEW p \in Populations, ShareRow(p)
  PROVE  SidInv'
<1>1. PICK s : s = Min(page[p])
  OBVIOUS
<1>3. /\ population[p] = "own"
      /\ cache' = [cache EXCEPT !["shared"] = @ \cup {s}]
      /\ page' = [page EXCEPT ![p] = @ \ {s}]
      /\ population' = [population EXCEPT ![p] = "cache"]
      /\ UNCHANGED <<table, sid_row, creation, clearing, at_table, cursor, deleter,
                     stale, sid_raced, hidden>>
  BY <1>1 DEF ShareRow, Cache, PopulationStep, sidHistory
<1>4. SidTypeOK /\ PopulationOK(p)
  BY DEF SidInv
<1>5. s \in page[p] /\ s \in Sids
  <2>1. page[p] \in SUBSET Nat /\ page[p] \subseteq Sids /\ page[p] # {}
    BY <1>3, <1>4 DEF SidTypeOK, Sids, PopulationOK
  <2> QED
    BY <1>1, <2>1, MinIsMin
<1>6. table[s] = at_table[p] /\ (sid_row[s] = "open" \/ s \in sid_raced)
      /\ "shared" \in Indexes /\ "shared" \in Offered(s)
  BY <1>4, <1>5, IndexesAre DEF PopulationOK, Offered
<1>7. /\ \A r \in Sids, j \in Indexes :
             r \in cache'[j] <=> r \in cache[j] \/ (r = s /\ j = "shared")
      /\ cache' \in [Indexes -> SUBSET Sids]
      /\ \A j \in Indexes : cache[j] \subseteq cache'[j]
  BY <1>3, <1>4, <1>5, <1>6 DEF SidTypeOK
<1>8. /\ population'[p] = "cache" /\ page'[p] = page[p] \ {s} /\ OtherPopulations(p)
      /\ at_table'[p] = at_table[p] /\ cursor'[p] = cursor[p]
  BY <1>3, <1>4 DEF SidTypeOK, OtherPopulations
<1>9. SidTypeOK'
  BY <1>3, <1>4, <1>7 DEF SidTypeOK
<1>10. PopulationOK(p)'
  BY <1>3, <1>4, <1>8 DEF PopulationOK
<1>11. Filled'
  <2> SUFFICES ASSUME stale, deleter = p
               PROVE  Backlog(p)' /\ Halfway(p)'
    BY <1>3, <1>7, <1>8, FilledStays
  <2>1. Backlog(p) /\ Halfway(p)
    BY <1>3 DEF SidInv, Filled, Filling
  <2>2. \A r \in Sids : Offered(r)' = Offered(r) /\ Offered(r) \subseteq Indexes
    BY <1>3, <1>4, IndexesAre, OwnIsIndex DEF Offered, SidTypeOK
  <2>3. ASSUME NEW r \in Sids, NEW i \in Offered(r), Due(r, i)
        PROVE  r \in cache'[i] \/ Ahead(p, r)'
    <3>1. CASE r # s
      BY <1>3, <1>7, <1>8, <2>1, <2>2, <2>3, <3>1 DEF Backlog, Ahead
    <3>2. CASE r = s
      <4>1. i = "shared" => s \in cache'[i]
        BY <1>5, <1>6, <1>7
      <4>2. sid_row[s] = "open" /\ (i # "shared" => i = Own(at_table[p]))
        BY <1>6, <2>3, <3>2 DEF Due, PutIn, Offered
      <4>3. i # "shared" => s \in cache[i]
        BY <1>1, <1>3, <2>1, <2>3, <3>2, <4>2 DEF Halfway
      <4> QED
        BY <1>5, <1>7, <2>2, <3>2, <4>1, <4>3
    <3> QED
      BY <3>1, <3>2
  <2>4. Backlog(p)'
    BY <1>3, <2>2, <2>3 DEF Backlog, Due, PutIn
  <2> QED
    BY <1>8, <2>4 DEF Halfway
<1> QED
  BY <1>3, <1>6, <1>7, <1>8, <1>9, <1>10, <1>11, PopulationKeeps

LEMMA TurnPageStep ==
  ASSUME SidInv, NEW p \in Populations, TurnPage(p)
  PROVE  SidInv'
<1>1. /\ population[p] = "cache" /\ page[p] = {}
      /\ UNCHANGED <<table, sid_row, creation, clearing, cache, deleter, sid_raced, hidden>>
  BY DEF TurnPage
<1>2. SidTypeOK /\ PopulationOK(p)
  BY DEF SidInv
<1>3. stale /\ deleter = p => Backlog(p)
  BY <1>1 DEF SidInv, Filled, Filling
<1>4. CASE /\ cursor[p] # NoPage /\ population' = [population EXCEPT ![p] = "read"]
           /\ UNCHANGED <<at_table, cursor, page, stale>>
  <2>1. population'[p] = "read" /\ OtherPopulations(p)
    BY <1>2, <1>4 DEF SidTypeOK, OtherPopulations
  <2>2. SidTypeOK'
    BY <1>1, <1>2, <1>4 DEF SidTypeOK
  <2>3. PopulationOK(p)'
    BY <1>1, <1>4, <2>1 DEF PopulationOK
  <2>4. Backlog(p) => Backlog(p)'
    BY <1>1, <1>4 DEF Backlog, Ahead, Due, PutIn, Offered
  <2>5. Halfway(p)'
    BY <2>1 DEF Halfway
  <2>6. Filled'
    BY <1>1, <1>3, <1>4, <2>1, <2>4, <2>5, FilledStays
  <2> QED
    BY <1>1, <1>4, <2>1, <2>2, <2>3, <2>6, PopulationKeeps
<1>5. CASE /\ cursor[p] = NoPage /\ at_table[p] = "suggestions"
           /\ population' = [population EXCEPT ![p] = "read"]
           /\ at_table' = [at_table EXCEPT ![p] = "queued_suggestions"]
           /\ cursor' = [cursor EXCEPT ![p] = 0]
           /\ UNCHANGED <<page, stale>>
  <2>1. /\ population'[p] = "read" /\ at_table'[p] = "queued_suggestions" /\ cursor'[p] = 0
        /\ OtherPopulations(p)
    BY <1>2, <1>5 DEF SidTypeOK, OtherPopulations
  <2>2. SidTypeOK'
    BY <1>1, <1>2, <1>5 DEF SidTypeOK, Tables
  <2>3. PopulationOK(p)'
    BY <1>1, <1>5, <2>1 DEF PopulationOK
  <2>4. \A s \in Sids : Ahead(p, s) => Ahead(p, s)'
    <3> TAKE s \in Sids
    <3>1. Ahead(p, s) => table[s] = "queued_suggestions"
      BY <1>1, <1>5 DEF Ahead
    <3>2. 0 # NoPage /\ s >= 0
      BY SidCacheAssumption DEF Sids
    <3> QED
      BY <1>1, <2>1, <3>1, <3>2 DEF Ahead
  <2>5. Backlog(p) => Backlog(p)'
    BY <1>1, <2>4 DEF Backlog, Due, PutIn, Offered
  <2>6. Halfway(p)'
    BY <2>1 DEF Halfway
  <2>7. Filled'
    BY <1>1, <1>3, <1>5, <2>1, <2>5, <2>6, FilledStays
  <2> QED
    BY <1>1, <1>5, <2>1, <2>2, <2>3, <2>7, PopulationKeeps
<1>6. CASE /\ cursor[p] = NoPage /\ at_table[p] = "queued_suggestions"
           /\ EndPopulation(p) /\ stale' = (stale /\ deleter # p)
  <2>1. /\ population' = [population EXCEPT ![p] = "idle"]
        /\ at_table' = [at_table EXCEPT ![p] = "suggestions"]
        /\ cursor' = [cursor EXCEPT ![p] = NoPage]
        /\ page' = [page EXCEPT ![p] = {}]
    BY <1>6 DEF EndPopulation, PopulationStep
  <2>2. population'[p] = "idle" /\ page'[p] = {} /\ OtherPopulations(p)
    BY <1>2, <2>1 DEF SidTypeOK, OtherPopulations
  <2>3. SidTypeOK'
    BY <1>1, <1>2, <1>6, <2>1 DEF SidTypeOK, Tables
  <2>4. PopulationOK(p)'
    BY <2>2 DEF PopulationOK
  <2>5. Filled'
    <3>1. CASE stale /\ deleter = p
      <4>1. \A s \in Sids : ~Ahead(p, s)
        BY <1>1, <1>6 DEF Ahead
      <4>2. Complete
        BY <1>3, <3>1, <4>1 DEF Backlog, Complete
      <4>3. Complete'
        BY <1>1, <4>2 DEF Complete, Due, PutIn, Offered
      <4> QED
        BY <1>6, <3>1, <4>3 DEF Filled
    <3>2. CASE ~(stale /\ deleter = p)
      <4>1. stale' = stale
        BY <1>2, <1>6, <3>2 DEF SidTypeOK
      <4> QED
        BY <1>1, <2>2, <3>2, <4>1, FilledStays
    <3> QED
      BY <3>1, <3>2
  <2> QED
    BY <1>1, <2>2, <2>3, <2>4, <2>5, PopulationKeeps
<1> QED
  BY <1>4, <1>5, <1>6 DEF TurnPage, PopulationStep

LEMMA StopPopulationStep ==
  ASSUME SidInv, NEW p \in Populations, StopPopulation(p)
  PROVE  SidInv'
<1>1. /\ population' = [population EXCEPT ![p] = "idle"]
      /\ at_table' = [at_table EXCEPT ![p] = "suggestions"]
      /\ cursor' = [cursor EXCEPT ![p] = NoPage]
      /\ page' = [page EXCEPT ![p] = {}]
      /\ UNCHANGED <<table, sid_row, creation, clearing, cache, deleter, stale, sid_raced, hidden>>
  BY DEF StopPopulation, EndPopulation, PopulationStep, sidHistory
<1>2. SidTypeOK
  BY DEF SidInv
<1>3. population'[p] = "idle" /\ page'[p] = {} /\ OtherPopulations(p)
  BY <1>1, <1>2 DEF SidTypeOK, OtherPopulations
<1>4. SidTypeOK'
  BY <1>1, <1>2 DEF SidTypeOK, Tables
<1>5. PopulationOK(p)'
  BY <1>3 DEF PopulationOK
<1>6. Filled'
  BY <1>1, <1>3, FilledStays DEF Filling
<1> QED
  BY <1>1, <1>3, <1>4, <1>5, <1>6, PopulationKeeps

(* A step that touches none of it. *)
LEMMA SidStays ==
  ASSUME SidInv, UNCHANGED sidVars
  PROVE  SidInv'
<1>1. UNCHANGED <<table, sid_row, creation, clearing, cache, population, at_table, cursor, page,
                  deleter, stale, sid_raced, hidden>>
  BY DEF sidVars, sidHistory, populationVars
<1>2. SidTypeOK'
  BY <1>1 DEF SidInv, SidTypeOK
<1>3. \A s \in Sids : RowOK(s)'
  BY <1>1 DEF SidInv, RowOK, PutIn, Offered
<1>4. \A p \in Populations : PopulationOK(p)'
  BY <1>1 DEF SidInv, PopulationOK
<1>5. Filled'
  BY <1>1 DEF SidInv, Filled, Complete, Filling, Backlog, Halfway, Due, PutIn, Offered, Ahead
<1> QED
  BY <1>2, <1>3, <1>4, <1>5 DEF SidInv

(* And the invariant of every behaviour. *)
LEMMA SidInvariant == SidSpec => []SidInv
<1>1. SidInit => SidInv
  BY SidInitially
<1>2. SidInv /\ [SidNext]_sidVars => SidInv'
  <2> SUFFICES ASSUME SidInv, [SidNext]_sidVars
               PROVE  SidInv'
    OBVIOUS
  <2>1. ASSUME NEW s \in Sids,
               \/ InsertSid(s) \/ RevokeSid(s) \/ PostSid(s) \/ CacheShared(s) \/ CacheOwn(s)
               \/ WithdrawSid(s) \/ EndCreation(s) \/ SaveThread(s)
               \/ CommitSid(s) \/ RollBackSid(s) \/ LeaveUncached(s)
               \/ ClearSid(s) \/ ReopenSid(s) \/ DeleteSid(s)
        PROVE  SidInv'
    <3>1. CASE CacheShared(s)
      BY <3>1, CacheStep DEF CacheShared, CreationStep, Offered, sidHistory
    <3>2. CASE CacheOwn(s)
      <4>1. Own(table[s]) \in Offered(s) /\ Own(table[s]) # "shared"
        BY OwnIsIndex DEF Offered, SidInv, SidTypeOK
      <4> QED
        BY <3>2, <4>1, CacheStep DEF CacheOwn, CreationStep, sidHistory
    <3> QED
      BY <2>1, <3>1, <3>2, InsertSidStep, TakenBackStep, PostSidStep, OpenSidStep,
         ClearSidStep, DeleteSidStep
  <2>2. ASSUME NEW p \in Populations,
               \/ Populate(p) \/ DeleteCache(p) \/ NextPage(p) \/ CacheRow(p) \/ ShareRow(p)
               \/ TurnPage(p) \/ StopPopulation(p)
        PROVE  SidInv'
    BY <2>2, PopulateStep, DeleteCacheStep, NextPageStep, CacheRowStep, ShareRowStep,
       TurnPageStep, StopPopulationStep
  <2>3. CASE UNCHANGED sidVars
    BY <2>3, SidStays
  <2> QED
    BY <2>1, <2>2, <2>3 DEF SidNext
<1> QED
  BY <1>1, <1>2, PTL DEF SidSpec

(* Outside a population the lists offer every open suggestion, and no      *)
(* closed one but those that were closed while a population had them in    *)
(* hand.                                                                   *)
THEOREM OffersAreTheOpen == SidSpec => []OffersAreOpen
<1>1. SidInv => OffersAreOpen
  <2> SUFFICES ASSUME SidInv, NEW s \in Sids
               PROVE  /\ sid_row[s] = "open" /\ creation[s] = "done" /\ ~stale /\ s \notin hidden =>
                           s \in cache["shared"] \cap cache[Own(table[s])]
                      /\ \A i \in Indexes : s \in cache[i] =>
                           \/ s \in sid_raced \/ Contains(clearing[s], i)
                           \/ sid_row[s] \in {"open", "draft"} /\ i \in {"shared", Own(table[s])}
    BY DEF OffersAreOpen
  <2>1. RowOK(s) /\ (~stale => Complete)
    BY DEF SidInv, Filled
  <2> QED
    BY <2>1 DEF RowOK, Complete, Due, PutIn, Offered
<1> QED
  BY <1>1, SidInvariant, PTL

(* The rows, the lists and the jobs have their types. *)
THEOREM SidTypeCorrect == SidSpec => []SidTypeOK
<1>1. SidInv => SidTypeOK
  BY DEF SidInv
<1>2. QED
  BY <1>1, SidInvariant, PTL

-----------------------------------------------------------------------------
(* The migration. *)

(* The documents the scripts move, and whose ids they keep. *)
Moved == {d \in Documents : document[d].uses_views_for_votes /\ document[d].string_id}
MovedQueued == {d \in QueuedDocuments : queued_document[d].string_id}

(* The row of a document whose id is a string; that of another has an id   *)
(* of another kind.                                                        *)
IdSid(d) == <<"id", d>>
IsNew(sid) == \E d, n \in Nat : sid = <<"generated", d, n>>
RowOf(d) == [doc |-> d, sID |-> IdSid(d)]
QueuedRowOf(d) == [doc |-> d, sID |-> IdSid(d), state |-> StateOf(queued_document[d])]

(* What a row of either table can be: the row of its document, or one under *)
(* a new id.                                                               *)
IsRow(r) ==
  /\ r.doc \in Documents /\ document[r.doc].uses_views_for_votes
  /\ IF document[r.doc].string_id THEN r = RowOf(r.doc) ELSE IsNew(r.sID)
IsQueuedRow(r) ==
  /\ r.doc \in QueuedDocuments
  /\ IF queued_document[r.doc].string_id THEN r = QueuedRowOf(r.doc) ELSE IsNew(r.sID)

(* The document a queued one was published as, and whether the link was    *)
(* made.                                                                   *)
Target(q) == queued_document[q.doc].related_suggestion_id
Linked(q) == Target(q) \in Moved => <<q, RowOf(Target(q))>> \in links

(* The votes of a document: who voted both ways voted up. *)
Line(d, u, type) == [row |-> RowOf(d), user |-> u, vote_type |-> type]
Lines(d) ==
  {Line(d, u, "UpVote") : u \in document[d].up_voted_by}
  \cup {Line(d, u, "DownVote") : u \in document[d].down_voted_by \ document[d].up_voted_by}
Votes == UNION {Lines(d) : d \in Moved}

(* A script follows those before it.                                       *)
OrderInv ==
  /\ document \in [Documents -> DocKinds]
  /\ queued_document \in [QueuedDocuments -> QueuedKinds]
  /\ finished \in 0 .. 8 /\ script \in 1 .. 8 \cup {NoScript}
  /\ script # NoScript => finished = script - 1
  /\ reader \in Nat /\ stops \in Nat

(* Each part of the invariant says what its script has done, by how far it *)
(* is: for what lies behind the reader, and once it is over for all of it. *)
QueuedInv ==
  /\ \A r \in queued_rows : IsQueuedRow(r)
  /\ script = 2 =>
       /\ \A r \in to_insert : IsQueuedRow(r)
       /\ \A d \in MovedQueued : d < reader => QueuedRowOf(d) \in queued_rows \cup to_insert
  /\ finished >= 2 => \A d \in MovedQueued : QueuedRowOf(d) \in queued_rows

SuggestionsInv ==
  /\ \A r \in suggestion_rows : IsRow(r)
  /\ script = 3 =>
       /\ \A r \in to_insert : IsRow(r)
       /\ \A d \in Moved : d < reader => RowOf(d) \in suggestion_rows \cup to_insert
  /\ finished >= 3 => \A d \in Moved : RowOf(d) \in suggestion_rows
  /\ finished >= 4 => exported = suggestion_rows

LinksInv ==
  /\ \A l \in links : Target(l[1]) \in Moved /\ l = <<l[1], RowOf(Target(l[1]))>>
  /\ script = 5 => \A q \in queued_rows : q \in to_insert \/ Linked(q)
  /\ finished >= 5 => \A q \in queued_rows : Linked(q)

(* The lines of the file are those of one run. *)
OfRun(n) == \A l \in csv : l = <<l[1], n>>

VoteRowsInv ==
  /\ Cast(csv) \subseteq Votes /\ Cast(vote_rows) \subseteq Votes
  /\ \E n \in Nat : OfRun(n)
  /\ script = 6 =>
       OfRun(stops) /\ \A d \in Moved : d < reader => Lines(d) \subseteq Cast(csv)
  /\ finished >= 6 => \A d \in Moved : Lines(d) \subseteq Cast(csv)
  /\ finished >= 7 => \A d \in Moved : Lines(d) \subseteq Cast(vote_rows)
  /\ unique \in BOOLEAN /\ (unique => ~Doubled(vote_rows))
  /\ finished = 8 => unique

(* The inductive invariant. *)
MigrationInv == OrderInv /\ QueuedInv /\ SuggestionsInv /\ LinksInv /\ VoteRowsInv

-----------------------------------------------------------------------------
(* A new id is none of the old ones, and two documents differ in theirs. *)
LEMMA IdsDiffer ==
  /\ \A d : ~IsNew(IdSid(d))
  /\ \A d, e : IdSid(d) = IdSid(e) => d = e
  BY DEF IsNew, IdSid

(* The scripts by number. *)
LEMMA ScriptNumbers ==
  /\ Len(Scripts) = 8 /\ DOMAIN Scripts = 1 .. 8
  /\ Runs("ensure_configs_exist") /\ script \in 1 .. 8 => script = 1
  /\ Runs("migrate_queued_suggestions") /\ script \in 1 .. 8 => script = 2
  /\ Runs("migrate_suggestions") /\ script \in 1 .. 8 => script = 3
  /\ Runs("suggestions.json") /\ script \in 1 .. 8 => script = 4
  /\ Runs("build_related_suggestions") /\ script \in 1 .. 8 => script = 5
  /\ Runs("migrate_votes") /\ script \in 1 .. 8 => script = 6
  /\ Runs("import") /\ script \in 1 .. 8 => script = 7
  /\ Runs("unique_votes") /\ script \in 1 .. 8 => script = 8
  /\ \A n \in 1 .. 8 : /\ Scripts[n] = "build_related_suggestions" <=> n = 5
                       /\ Scripts[n] = "migrate_votes" <=> n = 6
<1>1. /\ Len(Scripts) = 8 /\ DOMAIN Scripts = 1 .. 8
      /\ Scripts[1] = "ensure_configs_exist" /\ Scripts[2] = "migrate_queued_suggestions"
      /\ Scripts[3] = "migrate_suggestions" /\ Scripts[4] = "suggestions.json"
      /\ Scripts[5] = "build_related_suggestions" /\ Scripts[6] = "migrate_votes"
      /\ Scripts[7] = "import" /\ Scripts[8] = "unique_votes"
  BY DEF Scripts
<1>2. \A n \in 1 .. 8 : n = 1 \/ n = 2 \/ n = 3 \/ n = 4 \/ n = 5 \/ n = 6 \/ n = 7 \/ n = 8
  OBVIOUS
<1>3. \A n \in 1 .. 8 :
        /\ Scripts[n] = "ensure_configs_exist" <=> n = 1
        /\ Scripts[n] = "migrate_queued_suggestions" <=> n = 2
        /\ Scripts[n] = "migrate_suggestions" <=> n = 3
        /\ Scripts[n] = "suggestions.json" <=> n = 4
        /\ Scripts[n] = "build_related_suggestions" <=> n = 5
        /\ Scripts[n] = "migrate_votes" <=> n = 6
        /\ Scripts[n] = "import" <=> n = 7
        /\ Scripts[n] = "unique_votes" <=> n = 8
  BY <1>1, <1>2
<1> QED
  BY <1>1, <1>3 DEF Runs

(* A row with the id of a document is the row of that document. *)
LEMMA RowIs ==
  ASSUME NEW r, NEW e, IsRow(r), r.sID = IdSid(e)
  PROVE  r = RowOf(e) /\ e \in Moved
<1>1. document[r.doc].string_id /\ r = RowOf(r.doc)
  BY IdsDiffer DEF IsRow
<1>2. r.sID = IdSid(r.doc)
  BY <1>1 DEF RowOf
<1>3. r.doc = e
  BY <1>2, IdsDiffer
<1> QED
  BY <1>1, <1>3 DEF IsRow, Moved

LEMMA QueuedRowIs ==
  ASSUME NEW r, NEW e, IsQueuedRow(r), r.sID = IdSid(e)
  PROVE  r = QueuedRowOf(e)
<1>1. queued_document[r.doc].string_id /\ r = QueuedRowOf(r.doc)
  BY IdsDiffer DEF IsQueuedRow
<1>2. r.sID = IdSid(r.doc)
  BY <1>1 DEF QueuedRowOf
<1>3. r.doc = e
  BY <1>2, IdsDiffer
<1> QED
  BY <1>1, <1>3

(* An insertion that skips the ids that are there loses no document. *)
LEMMA InsertedRows ==
  ASSUME NEW old, NEW new, \A r \in old \cup new : IsRow(r)
  PROVE  /\ \A r \in Inserted(old, new) : IsRow(r)
         /\ old \subseteq Inserted(old, new)
         /\ \A d : RowOf(d) \in old \cup new => RowOf(d) \in Inserted(old, new)
<1>1. Inserted(old, new) = old \cup {r \in new : \A o \in old : o.sID # r.sID}
  BY DEF Inserted
<1>2. ASSUME NEW d, RowOf(d) \in new, RowOf(d) \notin old
      PROVE  \A o \in old : o.sID # RowOf(d).sID
  <2>1. RowOf(d).sID = IdSid(d)
    BY DEF RowOf
  <2> QED
    BY <1>2, <2>1, RowIs
<1> QED
  BY <1>1, <1>2

LEMMA InsertedQueued ==
  ASSUME NEW old, NEW new, \A r \in old \cup new : IsQueuedRow(r)
  PROVE  /\ \A r \in Inserted(old, new) : IsQueuedRow(r)
         /\ old \subseteq Inserted(old, new)
         /\ \A d : QueuedRowOf(d) \in old \cup new => QueuedRowOf(d) \in Inserted(old, new)
<1>1. Inserted(old, new) = old \cup {r \in new : \A o \in old : o.sID # r.sID}
  BY DEF Inserted
<1>2. ASSUME NEW d, QueuedRowOf(d) \in new, QueuedRowOf(d) \notin old
      PROVE  \A o \in old : o.sID # QueuedRowOf(d).sID
  <2>1. QueuedRowOf(d).sID = IdSid(d)
    BY DEF QueuedRowOf
  <2> QED
    BY <1>2, <2>1, QueuedRowIs
<1> QED
  BY <1>1, <1>2

(* The documents stay as they are. *)
LEMMA SameData ==
  ASSUME UNCHANGED data
  PROVE  /\ Moved' = Moved /\ MovedQueued' = MovedQueued /\ Votes' = Votes
         /\ \A r : IsRow(r)' <=> IsRow(r)
         /\ \A r : IsQueuedRow(r)' <=> IsQueuedRow(r)
         /\ \A d : QueuedRowOf(d)' = QueuedRowOf(d)
         /\ \A q : Target(q)' = Target(q)
         /\ \A d : Lines(d)' = Lines(d)
<1>1. document' = document /\ queued_document' = queued_document
  BY DEF data
<1> QED
  BY <1>1 DEF Moved, MovedQueued, Votes, IsRow, IsQueuedRow, QueuedRowOf, Target, Lines

(* A step of another script leaves a part of the invariant alone. *)
LEMMA QueuedFrame ==
  ASSUME MigrationInv, UNCHANGED <<data, queued_rows>>, finished' >= 2 => finished >= 2,
         script' = 2 => \/ script = 2 /\ UNCHANGED <<to_insert, reader>>
                        \/ to_insert' = {} /\ reader' = 1
  PROVE  QueuedInv'
<1>1. \A d \in MovedQueued : d >= 1 /\ d \in Nat
  BY DEF MovedQueued, QueuedDocuments
<1> QED
  BY <1>1, SameData DEF MigrationInv, QueuedInv

LEMMA SuggestionsFrame ==
  ASSUME MigrationInv, UNCHANGED <<data, suggestion_rows>>, finished' >= 3 => finished >= 3,
         finished' >= 4 => finished >= 4 /\ UNCHANGED exported,
         script' = 3 => \/ script = 3 /\ UNCHANGED <<to_insert, reader>>
                        \/ to_insert' = {} /\ reader' = 1
  PROVE  SuggestionsInv'
<1>1. \A d \in Moved : d >= 1 /\ d \in Nat
  BY DEF Moved, Documents
<1> QED
  BY <1>1, SameData DEF MigrationInv, SuggestionsInv

LEMMA LinksFrame ==
  ASSUME MigrationInv, UNCHANGED <<data, links>>, finished' >= 5 => finished >= 5,
         finished' >= 5 \/ script' = 5 => UNCHANGED queued_rows,
         script' = 5 => \/ script = 5 /\ UNCHANGED to_insert
                        \/ to_insert' = {r \in queued_rows : Target(r) # NoScript}
  PROVE  LinksInv'
<1>1. NoScript \notin Moved
  BY V3MigrationAssumption DEF Moved, Documents
<1>2. \A q : Linked(q)' <=> Linked(q)
  BY SameData DEF Linked
<1>3. \A q : Target(q) = NoScript => Linked(q)
  BY <1>1 DEF Linked
<1> QED
  BY <1>2, <1>3, SameData DEF MigrationInv, LinksInv

LEMMA VotesFrame ==
  ASSUME MigrationInv, UNCHANGED <<data, vote_rows, unique>>,
         finished' >= 6 => finished >= 6 /\ UNCHANGED csv,
         finished' >= 7 => finished >= 7, finished' = 8 => finished = 8,
         csv' = csv \/ csv' = {},
         script' = 6 => \/ script = 6 /\ UNCHANGED <<csv, reader, stops>>
                        \/ csv' = {} /\ reader' = 1
  PROVE  VoteRowsInv'
<1>1. \A d \in Moved : d >= 1 /\ d \in Nat
  BY DEF Moved, Documents
<1>2. /\ \A n : OfRun(n) => OfRun(n)'
      /\ csv' = {} => OfRun(stops)'
      /\ script' = 6 /\ csv' # {} => (OfRun(stops)' <=> OfRun(stops))
  BY DEF OfRun
<1>3. /\ (\E n \in Nat : OfRun(n))'
      /\ script' = 6 => OfRun(stops)'
  BY <1>2 DEF MigrationInv, VoteRowsInv, OfRun
<1>4. Cast({}) = {} /\ Cast(vote_rows)' = Cast(vote_rows) /\ (csv' = csv => Cast(csv)' = Cast(csv))
      /\ (Doubled(vote_rows)' <=> Doubled(vote_rows))
  BY DEF Cast, Doubled
<1>5. VoteRowsInv
  BY DEF MigrationInv
<1>6. Cast(csv)' \subseteq Votes' /\ Cast(vote_rows)' \subseteq Votes'
  BY <1>4, <1>5, SameData DEF VoteRowsInv
<1>7. script' = 6 => \A d \in Moved' : d < reader' => Lines(d)' \subseteq Cast(csv)'
  BY <1>1, <1>4, <1>5, SameData DEF VoteRowsInv
<1>8. /\ finished' >= 6 => \A d \in Moved' : Lines(d)' \subseteq Cast(csv)'
      /\ finished' >= 7 => \A d \in Moved' : Lines(d)' \subseteq Cast(vote_rows)'
  BY <1>4, <1>5, SameData DEF VoteRowsInv
<1>9. unique' \in BOOLEAN /\ (unique' => ~Doubled(vote_rows)') /\ (finished' = 8 => unique')
  BY <1>4, <1>5 DEF VoteRowsInv
<1> QED
  BY <1>3, <1>6, <1>7, <1>8, <1>9 DEF VoteRowsInv

-----------------------------------------------------------------------------
(* No script has run at the start. *)
LEMMA MigrationInitially == MigrationInit => MigrationInv
<1> SUFFICES ASSUME MigrationInit
             PROVE  MigrationInv
  OBVIOUS
<1>1. NoScript \notin 1 .. 8
  BY V3MigrationAssumption
<1>2. OrderInv
  BY DEF MigrationInit, OrderInv
<1>3. QueuedInv /\ SuggestionsInv /\ LinksInv
  BY <1>1 DEF MigrationInit, QueuedInv, SuggestionsInv, LinksInv
<1>4. VoteRowsInv
  <2>1. Cast(csv) = {} /\ Cast(vote_rows) = {} /\ OfRun(0)
    BY DEF MigrationInit, Cast, OfRun
  <2>2. unique \in BOOLEAN /\ (unique => ~Doubled(vote_rows))
    BY DEF MigrationInit
  <2>3. script = NoScript /\ finished = 0 /\ script # 6
    BY <1>1 DEF MigrationInit
  <2> QED
    BY <2>1, <2>2, <2>3 DEF VoteRowsInv
<1> QED
  BY <1>2, <1>3, <1>4 DEF MigrationInv

(* The steps, one lemma each; an interrupted script is started again from  *)
(* its first document.                                                     *)
LEMMA StartScriptStep ==
  ASSUME MigrationInv, NEW n \in DOMAIN Scripts, StartScript(n)
  PROVE  MigrationInv'
<1>1. /\ n \in 1 .. 8 /\ n <= finished + 1 /\ script' = n /\ finished' = n - 1 /\ reader' = 1
      /\ stops' \in {stops, stops + 1}
      /\ n # 5 => to_insert' = {}
      /\ n = 5 => to_insert' = {r \in queued_rows : Target(r) # NoScript}
      /\ n = 6 => csv' = {}
      /\ n # 6 => csv' = csv
      /\ UNCHANGED <<data, rows, exported, vote_rows, unique>>
  BY ScriptNumbers DEF StartScript, Target, imported
<1>2. finished \in 0 .. 8 /\ n - 1 <= finished /\ n - 1 \in 0 .. 7
  BY <1>1 DEF MigrationInv, OrderInv
<1>3. OrderInv'
  BY <1>1, <1>2 DEF MigrationInv, OrderInv, data
<1>4. UNCHANGED <<suggestion_rows, queued_rows, links>>
  BY <1>1 DEF rows
<1>5. QueuedInv'
  BY <1>1, <1>2, <1>4, QueuedFrame
<1>6. SuggestionsInv'
  BY <1>1, <1>2, <1>4, SuggestionsFrame
<1>7. LinksInv'
  BY <1>1, <1>2, <1>4, LinksFrame
<1>8. VoteRowsInv'
  BY <1>1, <1>2, VotesFrame
<1> QED
  BY <1>3, <1>5, <1>6, <1>7, <1>8 DEF MigrationInv

(* Steps that only end a script, or let it go on, without its having come  *)
(* to its end.                                                             *)
LEMMA IdleStep ==
  ASSUME MigrationInv,
         UNCHANGED <<data, rows, files, finished>>,
         script' = NoScript \/ UNCHANGED <<script, to_insert, reader, stops>>,
         reader' \in Nat, stops' \in Nat
  PROVE  MigrationInv'
<1>1. NoScript \notin 1 .. 8 /\ NoScript \notin Nat
  BY V3MigrationAssumption
<1>2. UNCHANGED <<suggestion_rows, queued_rows, links, exported, csv, vote_rows, unique>>
  BY DEF rows, files, imported
<1>3. OrderInv'
  BY DEF MigrationInv, OrderInv, data
<1>4. QueuedInv'
  BY <1>1, <1>2, QueuedFrame
<1>5. SuggestionsInv'
  BY <1>1, <1>2, SuggestionsFrame
<1>6. LinksInv'
  BY <1>1, <1>2, LinksFrame
<1>7. VoteRowsInv'
  BY <1>1, <1>2, VotesFrame
<1> QED
  BY <1>3, <1>4, <1>5, <1>6, <1>7 DEF MigrationInv

(* What the end of a script is. *)
LEMMA Ended ==
  ASSUME MigrationInv, NEW n \in 1 .. 8, script = n, Through
  PROVE  /\ OrderInv' /\ finished' = n /\ finished = n - 1 /\ script' \notin Nat
         /\ UNCHANGED <<data, exported>>
<1>1. /\ script' = NoScript /\ finished' = n /\ reader' = 1
      /\ UNCHANGED <<data, config_ids, exported, stops>>
  BY DEF Through
<1>2. n # NoScript /\ NoScript \notin Nat
  BY V3MigrationAssumption
<1> QED
  BY <1>1, <1>2 DEF MigrationInv, OrderInv, data

LEMMA EndConfigsStep ==
  ASSUME MigrationInv, EndConfigs
  PROVE  MigrationInv'
<1>1. script = 1 /\ Through /\ UNCHANGED <<rows, csv, vote_rows, unique>>
  BY ScriptNumbers DEF EndConfigs, Runs, imported, MigrationInv, OrderInv
<1>2. OrderInv' /\ finished' = 1 /\ script' \notin Nat /\ UNCHANGED <<data, exported>>
  BY <1>1, Ended
<1>3. UNCHANGED <<suggestion_rows, queued_rows, links>>
  BY <1>1 DEF rows
<1>4. QueuedInv'
  BY <1>2, <1>3, QueuedFrame
<1>5. SuggestionsInv'
  BY <1>2, <1>3, SuggestionsFrame
<1>6. LinksInv'
  BY <1>2, <1>3, LinksFrame
<1>7. VoteRowsInv'
  BY <1>1, <1>2, VotesFrame
<1> QED
  BY <1>2, <1>4, <1>5, <1>6, <1>7 DEF MigrationInv

LEMMA ReadQueuedStep ==
  ASSUME MigrationInv, ReadQueuedDocument
  PROVE  MigrationInv'
<1>1. PICK batch : batch = to_insert \cup {QueuedRow(reader)}
  OBVIOUS
<1>2. /\ script = 2 /\ reader \in QueuedDocuments /\ reader' = reader + 1 /\ script' = 2
      /\ \/ to_insert' = {} /\ queued_rows' = Inserted(queued_rows, batch)
         \/ to_insert' = batch /\ queued_rows' = queued_rows
      /\ UNCHANGED <<data, suggestion_rows, links, files, finished, stops>>
  BY <1>1, ScriptNumbers DEF ReadQueuedDocument, Collect, Runs, MigrationInv, OrderInv
<1>3. finished = 1 /\ finished' = 1 /\ reader \in Nat
  BY <1>2, V3MigrationAssumption DEF MigrationInv, OrderInv
<1>4. /\ IsQueuedRow(QueuedRow(reader))
      /\ reader \in MovedQueued => QueuedRow(reader) = QueuedRowOf(reader)
  <2>1. CASE queued_document[reader].string_id
    <3>1. QueuedRow(reader) = QueuedRowOf(reader)
      BY <2>1 DEF QueuedRow, QueuedRowOf, Sid, IdSid
    <3>2. QueuedRowOf(reader).doc = reader
      BY DEF QueuedRowOf
    <3> QED
      BY <1>2, <2>1, <3>1, <3>2 DEF IsQueuedRow
  <2>2. CASE ~queued_document[reader].string_id
    <3>1. QueuedRow(reader).doc = reader
          /\ QueuedRow(reader).sID = <<"generated", reader, stops>>
      BY <2>2 DEF QueuedRow, Sid
    <3>2. IsNew(QueuedRow(reader).sID)
      BY <1>3, <3>1 DEF IsNew, MigrationInv, OrderInv
    <3> QED
      BY <1>2, <2>2, <3>1, <3>2 DEF IsQueuedRow, MovedQueued
  <2> QED
    BY <2>1, <2>2
<1>5. \A r \in queued_rows \cup batch : IsQueuedRow(r)
  BY <1>1, <1>2, <1>4 DEF MigrationInv, QueuedInv
<1>6. /\ \A r \in queued_rows' \cup to_insert' : IsQueuedRow(r)
      /\ \A d : QueuedRowOf(d) \in queued_rows \cup batch =>
                  QueuedRowOf(d) \in queued_rows' \cup to_insert'
  BY <1>2, <1>5, InsertedQueued
<1>7. \A d \in MovedQueued : d < reader + 1 => QueuedRowOf(d) \in queued_rows \cup batch
  <2> TAKE d \in MovedQueued
  <2>1. CASE d < reader
    BY <1>1, <1>2, <2>1 DEF MigrationInv, QueuedInv
  <2>2. CASE d = reader
    BY <1>1, <1>4, <2>2
  <2> QED
    BY <1>3, <2>1, <2>2 DEF MovedQueued, QueuedDocuments
<1>8. QueuedInv'
  BY <1>2, <1>3, <1>6, <1>7, SameData DEF QueuedInv
<1>9. OrderInv'
  BY <1>2, <1>3 DEF MigrationInv, OrderInv, data
<1>10. UNCHANGED <<exported, csv, vote_rows, unique>>
  BY <1>2 DEF files, imported
<1>11. SuggestionsInv'
  BY <1>2, <1>3, SuggestionsFrame
<1>12. LinksInv'
  BY <1>2, <1>3, LinksFrame
<1>13. VoteRowsInv'
  BY <1>2, <1>3, <1>10, VotesFrame
<1> QED
  BY <1>8, <1>9, <1>11, <1>12, <1>13 DEF MigrationInv

LEMMA EndQueuedStep ==
  ASSUME MigrationInv, EndQueuedDocuments
  PROVE  MigrationInv'
<1>1. /\ script = 2 /\ reader > MaxQueued /\ Through
      /\ queued_rows' = Inserted(queued_rows, to_insert)
      /\ UNCHANGED <<suggestion_rows, links, csv, vote_rows, unique>>
  BY ScriptNumbers DEF EndQueuedDocuments, Runs, imported, MigrationInv, OrderInv
<1>2. OrderInv' /\ finished' = 2 /\ script' \notin Nat /\ UNCHANGED <<data, exported>>
  BY <1>1, Ended
<1>3. \A r \in queued_rows \cup to_insert : IsQueuedRow(r)
  BY <1>1 DEF MigrationInv, QueuedInv
<1>4. /\ \A r \in queued_rows' : IsQueuedRow(r)
      /\ \A d : QueuedRowOf(d) \in queued_rows \cup to_insert => QueuedRowOf(d) \in queued_rows'
  BY <1>1, <1>3, InsertedQueued
<1>5. \A d \in MovedQueued : QueuedRowOf(d) \in queued_rows \cup to_insert
  <2>1. \A d \in MovedQueued : d < reader
    BY <1>1, V3MigrationAssumption DEF MovedQueued, QueuedDocuments, MigrationInv, OrderInv
  <2> QED
    BY <1>1, <2>1 DEF MigrationInv, QueuedInv
<1>6. QueuedInv'
  BY <1>2, <1>4, <1>5, SameData DEF QueuedInv
<1>7. SuggestionsInv'
  BY <1>1, <1>2, SuggestionsFrame
<1>8. LinksInv'
  BY <1>1, <1>2, LinksFrame
<1>9. VoteRowsInv'
  BY <1>1, <1>2, VotesFrame
<1> QED
  BY <1>2, <1>6, <1>7, <1>8, <1>9 DEF MigrationInv

LEMMA ReadDocumentStep ==
  ASSUME MigrationInv, ReadDocument
  PROVE  MigrationInv'
<1>1. PICK batch : batch = to_insert \cup {SuggestionRow(reader)}
  OBVIOUS
<1>2. /\ script = 3 /\ reader \in Documents /\ reader' = reader + 1 /\ script' = 3
      /\ document[reader].uses_views_for_votes
      /\ \/ to_insert' = {} /\ suggestion_rows' = Inserted(suggestion_rows, batch)
         \/ to_insert' = batch /\ suggestion_rows' = suggestion_rows
      /\ UNCHANGED <<data, queued_rows, links, files, finished, stops>>
  BY <1>1, ScriptNumbers DEF ReadDocument, Collect, Runs, MigrationInv, OrderInv
<1>3. finished = 2 /\ finished' = 2 /\ reader \in Nat
  BY <1>2, V3MigrationAssumption DEF MigrationInv, OrderInv
<1>4. /\ IsRow(SuggestionRow(reader))
      /\ reader \in Moved => SuggestionRow(reader) = RowOf(reader)
  <2>1. CASE document[reader].string_id
    <3>1. SuggestionRow(reader) = RowOf(reader)
      BY <2>1 DEF SuggestionRow, RowOf, Sid, IdSid
    <3>2. RowOf(reader).doc = reader
      BY DEF RowOf
    <3> QED
      BY <1>2, <2>1, <3>1, <3>2 DEF IsRow
  <2>2. CASE ~document[reader].string_id
    <3>1. SuggestionRow(reader).doc = reader
          /\ SuggestionRow(reader).sID = <<"generated", reader, stops>>
      BY <2>2 DEF SuggestionRow, Sid
    <3>2. IsNew(SuggestionRow(reader).sID)
      BY <1>3, <3>1 DEF IsNew, MigrationInv, OrderInv
    <3> QED
      BY <1>2, <2>2, <3>1, <3>2 DEF IsRow, Moved
  <2> QED
    BY <2>1, <2>2
<1>5. \A r \in suggestion_rows \cup batch : IsRow(r)
  BY <1>1, <1>2, <1>4 DEF MigrationInv, SuggestionsInv
<1>6. /\ \A r \in suggestion_rows' \cup to_insert' : IsRow(r)
      /\ \A d : RowOf(d) \in suggestion_rows \cup batch =>
                  RowOf(d) \in suggestion_rows' \cup to_insert'
  BY <1>2, <1>5, InsertedRows
<1>7. \A d \in Moved : d < reader + 1 => RowOf(d) \in suggestion_rows \cup batch
  <2> TAKE d \in Moved
  <2>1. CASE d < reader
    BY <1>1, <1>2, <2>1 DEF MigrationInv, SuggestionsInv
  <2>2. CASE d = reader
    BY <1>1, <1>4, <2>2
  <2> QED
    BY <1>3, <2>1, <2>2 DEF Moved, Documents
<1>8. SuggestionsInv'
  BY <1>2, <1>3, <1>6, <1>7, SameData DEF SuggestionsInv
<1>9. OrderInv'
  BY <1>2, <1>3 DEF MigrationInv, OrderInv, data
<1>10. UNCHANGED <<exported, csv, vote_rows, unique>>
  BY <1>2 DEF files, imported
<1>11. QueuedInv'
  BY <1>2, <1>3, QueuedFrame
<1>12. LinksInv'
  BY <1>2, <1>3, LinksFrame
<1>13. VoteRowsInv'
  BY <1>2, <1>3, <1>10, VotesFrame
<1> QED
  BY <1>8, <1>9, <1>11, <1>12, <1>13 DEF MigrationInv

LEMMA EndDocumentsStep ==
  ASSUME MigrationInv, EndDocuments
  PROVE  MigrationInv'
<1>1. /\ script = 3 /\ reader > MaxDoc /\ Through
      /\ suggestion_rows' = Inserted(suggestion_rows, to_insert)
      /\ UNCHANGED <<queued_rows, links, csv, vote_rows, unique>>
  BY ScriptNumbers DEF EndDocuments, Runs, imported, MigrationInv, OrderInv
<1>2. OrderInv' /\ finished' = 3 /\ finished = 2 /\ script' \notin Nat /\ UNCHANGED <<data, exported>>
  BY <1>1, Ended
<1>3. \A r \in suggestion_rows \cup to_insert : IsRow(r)
  BY <1>1 DEF MigrationInv, SuggestionsInv
<1>4. /\ \A r \in suggestion_rows' : IsRow(r)
      /\ \A d : RowOf(d) \in suggestion_rows \cup to_insert => RowOf(d) \in suggestion_rows'
  BY <1>1, <1>3, InsertedRows
<1>5. \A d \in Moved : RowOf(d) \in suggestion_rows \cup to_insert
  <2>1. \A d \in Moved : d < reader
    BY <1>1, V3MigrationAssumption DEF Moved, Documents, MigrationInv, OrderInv
  <2> QED
    BY <1>1, <2>1 DEF MigrationInv, SuggestionsInv
<1>6. SuggestionsInv'
  BY <1>2, <1>4, <1>5, SameData DEF SuggestionsInv
<1>7. QueuedInv'
  BY <1>1, <1>2, QueuedFrame
<1>8. LinksInv'
  BY <1>1, <1>2, LinksFrame
<1>9. VoteRowsInv'
  BY <1>1, <1>2, VotesFrame
<1> QED
  BY <1>2, <1>6, <1>7, <1>8, <1>9 DEF MigrationInv

LEMMA SkipDocumentStep ==
  ASSUME MigrationInv, SkipDocument
  PROVE  MigrationInv'
<1>1. /\ script \in {3, 6} /\ reader \in Documents /\ ~document[reader].uses_views_for_votes
      /\ reader' = reader + 1
      /\ UNCHANGED <<data, rows, files, finished, script, to_insert, stops>>
  BY ScriptNumbers DEF SkipDocument, Runs, MigrationInv, OrderInv
<1>2. UNCHANGED <<suggestion_rows, queued_rows, links, exported, csv, vote_rows, unique>>
  BY <1>1 DEF rows, files, imported
<1>3. reader \in Nat
  BY DEF MigrationInv, OrderInv
<1>4. \A d \in Moved : d < reader + 1 => d < reader
  BY <1>1, <1>3 DEF Moved, Documents
<1>5. OrderInv'
  BY <1>1, <1>3 DEF MigrationInv, OrderInv, data
<1>6. QueuedInv'
  BY <1>1, <1>2, QueuedFrame
<1>7. SuggestionsInv'
  <2>1. SuggestionsInv
    BY DEF MigrationInv
  <2> QED
    BY <1>1, <1>2, <1>4, <2>1, SameData DEF SuggestionsInv
<1>8. LinksInv'
  BY <1>1, <1>2, LinksFrame
<1>9. VoteRowsInv'
  <2>1. VoteRowsInv
    BY DEF MigrationInv
  <2>2. /\ Cast(csv)' = Cast(csv) /\ Cast(vote_rows)' = Cast(vote_rows)
        /\ (Doubled(vote_rows)' <=> Doubled(vote_rows))
        /\ (\E n \in Nat : OfRun(n))' <=> \E n \in Nat : OfRun(n)
        /\ OfRun(stops)' <=> OfRun(stops)
    BY <1>1, <1>2 DEF Cast, Doubled, OfRun
  <2> QED
    BY <1>1, <1>2, <1>4, <2>1, <2>2, SameData DEF VoteRowsInv
<1> QED
  BY <1>5, <1>6, <1>7, <1>8, <1>9 DEF MigrationInv

LEMMA ExportStep ==
  ASSUME MigrationInv, Export
  PROVE  MigrationInv'
<1>1. /\ script = 4 /\ script' = NoScript /\ finished' = 4 /\ exported' = suggestion_rows
      /\ UNCHANGED <<data, rows, csv, vote_rows, unique, reader, to_insert, stops>>
  BY ScriptNumbers DEF Export, Runs, cursors, imported, MigrationInv, OrderInv
<1>2. finished = 3 /\ NoScript \notin Nat
  BY <1>1, V3MigrationAssumption DEF MigrationInv, OrderInv
<1>3. UNCHANGED <<suggestion_rows, queued_rows, links>>
  BY <1>1 DEF rows
<1>4. OrderInv'
  BY <1>1 DEF MigrationInv, OrderInv, data
<1>5. QueuedInv'
  BY <1>1, <1>2, <1>3, QueuedFrame
<1>6. SuggestionsInv'
  BY <1>1, <1>2, <1>3, SameData DEF SuggestionsInv, MigrationInv
<1>7. LinksInv'
  BY <1>1, <1>2, <1>3, LinksFrame
<1>8. VoteRowsInv'
  BY <1>1, <1>2, VotesFrame
<1> QED
  BY <1>4, <1>5, <1>6, <1>7, <1>8 DEF MigrationInv

(* Once the table was exported, a document's row is found in the file, and *)
(* nothing else under its id.                                              *)
LEMMA ExportedRows ==
  ASSUME MigrationInv, finished >= 4, NEW d
  PROVE  /\ d \in Moved => Exported(d) = {RowOf(d)}
         /\ d \notin Moved => Exported(d) = {}
<1>1. Exported(d) = {r \in suggestion_rows : r.sID = IdSid(d)}
  BY DEF MigrationInv, SuggestionsInv, Exported, IdSid
<1>2. \A r \in Exported(d) : r = RowOf(d) /\ d \in Moved
  BY <1>1, RowIs DEF MigrationInv, SuggestionsInv
<1>3. d \in Moved => RowOf(d) \in suggestion_rows
  BY DEF MigrationInv, OrderInv, SuggestionsInv
<1>4. RowOf(d).sID = IdSid(d)
  BY DEF RowOf
<1> QED
  BY <1>1, <1>2, <1>3, <1>4

LEMMA RelateStep ==
  ASSUME MigrationInv, NEW q \in queued_rows, Relate(q)
  PROVE  MigrationInv'
<1>1. PICK found : found = Exported(Target(q))
  OBVIOUS
<1>2. /\ script = 5 /\ q \in to_insert /\ to_insert' = to_insert \ {q}
      /\ links' = IF found = {} THEN links ELSE {l \in links : l[1] # q} \cup ({q} \X found)
      /\ UNCHANGED <<data, config_ids, suggestion_rows, queued_rows, files, finished, script,
                     reader, stops>>
  BY <1>1, ScriptNumbers DEF Relate, Target, Runs, MigrationInv, OrderInv
<1>3. finished = 4
  BY <1>2, V3MigrationAssumption DEF MigrationInv, OrderInv
<1>4. UNCHANGED <<exported, csv, vote_rows, unique>>
  BY <1>2 DEF files, imported
<1>5. /\ Target(q) \in Moved => found = {RowOf(Target(q))}
      /\ Target(q) \notin Moved => found = {}
  BY <1>1, <1>3, ExportedRows
<1>6. OrderInv'
  BY <1>2 DEF MigrationInv, OrderInv, data
<1>7. QueuedInv'
  BY <1>2, <1>3, QueuedFrame
<1>8. SuggestionsInv'
  BY <1>2, <1>3, <1>4, SuggestionsFrame
<1>9. LinksInv'
  <2>1. LinksInv
    BY DEF MigrationInv
  <2>2. CASE Target(q) \in Moved
    <3>1. links' = {l \in links : l[1] # q} \cup {<<q, RowOf(Target(q))>>}
      BY <1>2, <1>5, <2>2
    <3>2. \A l \in links' : Target(l[1]) \in Moved /\ l = <<l[1], RowOf(Target(l[1]))>>
      BY <2>1, <2>2, <3>1 DEF LinksInv
    <3>3. \A p \in queued_rows : p # q /\ Linked(p) => Linked(p)'
      BY <1>2, <3>1, SameData DEF Linked
    <3>4. Linked(q)'
      BY <1>2, <3>1, SameData DEF Linked
    <3> QED
      BY <1>2, <1>3, <2>1, <3>2, <3>3, <3>4, SameData DEF LinksInv
  <2>3. CASE Target(q) \notin Moved
    <3>1. links' = links
      BY <1>2, <1>5, <2>3
    <3>2. \A p : Linked(p) => Linked(p)'
      BY <1>2, <3>1, SameData DEF Linked
    <3>3. Linked(q)'
      BY <1>2, <2>3, SameData DEF Linked
    <3> QED
      BY <1>2, <1>3, <2>1, <3>1, <3>2, <3>3, SameData DEF LinksInv
  <2> QED
    BY <2>2, <2>3
<1>10. VoteRowsInv'
  BY <1>2, <1>3, <1>4, VotesFrame
<1> QED
  BY <1>6, <1>7, <1>8, <1>9, <1>10 DEF MigrationInv

LEMMA EndRelatedStep ==
  ASSUME MigrationInv, EndRelated
  PROVE  MigrationInv'
<1>1. /\ script = 5 /\ to_insert = {} /\ Through /\ UNCHANGED <<rows, csv, vote_rows, unique>>
  BY ScriptNumbers DEF EndRelated, Runs, imported, MigrationInv, OrderInv
<1>2. OrderInv' /\ finished' = 5 /\ finished = 4 /\ script' \notin Nat /\ UNCHANGED <<data, exported>>
  BY <1>1, Ended
<1>3. UNCHANGED <<suggestion_rows, queued_rows, links>>
  BY <1>1 DEF rows
<1>4. LinksInv'
  <2>1. \A q : Linked(q) => Linked(q)'
    BY <1>2, <1>3, SameData DEF Linked
  <2> QED
    BY <1>1, <1>2, <1>3, <2>1, SameData DEF LinksInv, MigrationInv
<1>5. QueuedInv'
  BY <1>2, <1>3, QueuedFrame
<1>6. SuggestionsInv'
  BY <1>2, <1>3, SuggestionsFrame
<1>7. VoteRowsInv'
  BY <1>1, <1>2, VotesFrame
<1> QED
  BY <1>2, <1>4, <1>5, <1>6, <1>7 DEF MigrationInv

(* Copies of lines stand for the same votes. *)
LEMMA CastCopied ==
  ASSUME NEW lines, NEW n
  PROVE  Cast({<<l[1], l[2], n>> : l \in lines}) = Cast(lines)
<1> DEFINE CopyOfLines(S) == {<<l[1], l[2], n>> : l \in S}
<1>1. \A l \in lines : <<l[1], l[2], n>> \in CopyOfLines(lines) /\ <<l[1], l[2], n>>[1] = l[1]
  OBVIOUS
<1>2. \A m \in CopyOfLines(lines) : \E l \in lines : m[1] = l[1]
  OBVIOUS
<1>3. PICK copied : copied = CopyOfLines(lines)
  OBVIOUS
<1> HIDE DEF CopyOfLines
<1>4. /\ \A l \in lines : \E m \in copied : m[1] = l[1]
      /\ \A m \in copied : \E l \in lines : m[1] = l[1]
  BY <1>1, <1>2, <1>3
<1>5. Cast(copied) = Cast(lines)
  BY <1>4 DEF Cast
<1> QED
  BY <1>3, <1>5 DEF CopyOfLines

LEMMA WriteVotesStep ==
  ASSUME MigrationInv, WriteVotes
  PROVE  MigrationInv'
<1> DEFINE Written(d) ==
      {<<[row |-> r, user |-> u, vote_type |-> "UpVote"], stops>> :
         r \in Exported(d), u \in document[d].up_voted_by}
      \cup {<<[row |-> r, user |-> u, vote_type |-> "DownVote"], stops>> :
         r \in Exported(d), u \in document[d].down_voted_by \ document[d].up_voted_by}
<1>1. PICK d : d = reader
  OBVIOUS
<1>2. /\ script = 6 /\ d \in Documents /\ Exported(d) # {} /\ reader' = d + 1
      /\ csv' = csv \cup Written(d)
      /\ UNCHANGED <<data, rows, exported, vote_rows, unique, finished, script, to_insert, stops>>
  BY <1>1, ScriptNumbers DEF WriteVotes, Runs, MigrationInv, OrderInv, imported
<1>3. finished = 5 /\ d \in Nat
  BY <1>2, V3MigrationAssumption DEF MigrationInv, OrderInv, Documents
<1>4. UNCHANGED <<suggestion_rows, queued_rows, links>>
  BY <1>2 DEF rows
<1>5. d \in Moved /\ Exported(d) = {RowOf(d)}
  BY <1>2, <1>3, ExportedRows
<1>6. Written(d) = {<<l, stops>> : l \in Lines(d)}
  BY <1>5 DEF Lines, Line
<1>7. Cast(csv)' = Cast(csv) \cup Lines(d) /\ OfRun(stops)'
  <2>1. OfRun(stops) /\ stops' = stops
    BY <1>2 DEF MigrationInv, VoteRowsInv
  <2>2. csv' = csv \cup {<<l, stops>> : l \in Lines(d)}
    BY <1>2, <1>6
  <2> HIDE DEF Written
  <2>3. Cast(csv)' = Cast(csv) \cup Lines(d)
    <3>1. PICK all : all = csv \cup {<<l, stops>> : l \in Lines(d)}
      OBVIOUS
    <3>2. csv' = all
      BY <2>2, <3>1
    <3>3. Cast(csv)' = Cast(all)
      BY <3>2 DEF Cast
    <3>4. Cast(all) = Cast(csv) \cup Lines(d)
      <4>1. \A v \in Lines(d) : <<v, stops>> \in all /\ <<v, stops>>[1] = v
        BY <3>1
      <4>2. \A l \in all : l \in csv \/ l[1] \in Lines(d)
        BY <3>1
      <4>3. csv \subseteq all
        BY <3>1
      <4> QED
        BY <4>1, <4>2, <4>3 DEF Cast
    <3> QED
      BY <3>3, <3>4
  <2>4. \A l \in csv' : l = <<l[1], stops>>
    BY <2>1, <2>2 DEF OfRun
  <2> QED
    BY <2>1, <2>3, <2>4 DEF OfRun
<1>8. OrderInv'
  BY <1>2, <1>3 DEF MigrationInv, OrderInv, data
<1>9. QueuedInv'
  BY <1>2, <1>4, QueuedFrame
<1>10. SuggestionsInv'
  BY <1>2, <1>4, SuggestionsFrame
<1>11. LinksInv'
  BY <1>2, <1>4, LinksFrame
<1>12. VoteRowsInv'
  <2>1. Lines(d) \subseteq Votes
    BY <1>5 DEF Votes
  <2>2. \A e \in Moved : e < d + 1 => Lines(e) \subseteq Cast(csv)'
    <3> TAKE e \in Moved
    <3>1. CASE e < d
      BY <1>1, <1>2, <1>7, <3>1 DEF MigrationInv, VoteRowsInv
    <3>2. CASE e = d
      BY <1>7, <3>2
    <3> QED
      BY <1>3, <3>1, <3>2 DEF Moved, Documents
  <2>3. (\E n \in Nat : OfRun(n))'
    BY <1>7, <1>2 DEF MigrationInv, OrderInv, OfRun
  <2>4. Cast(vote_rows)' = Cast(vote_rows) /\ (Doubled(vote_rows)' <=> Doubled(vote_rows))
    BY <1>2 DEF Cast, Doubled
  <2> QED
    BY <1>2, <1>3, <1>7, <2>1, <2>2, <2>3, <2>4, SameData DEF MigrationInv, VoteRowsInv
<1> QED
  BY <1>8, <1>9, <1>10, <1>11, <1>12 DEF MigrationInv

LEMMA EndVotesStep ==
  ASSUME MigrationInv, EndVotes
  PROVE  MigrationInv'
<1>1. /\ script = 6 /\ reader > MaxDoc /\ Through /\ UNCHANGED <<rows, csv, vote_rows, unique>>
  BY ScriptNumbers DEF EndVotes, Runs, imported, MigrationInv, OrderInv
<1>2. OrderInv' /\ finished' = 6 /\ finished = 5 /\ script' \notin Nat /\ UNCHANGED <<data, exported>>
  BY <1>1, Ended
<1>3. UNCHANGED <<suggestion_rows, queued_rows, links>>
  BY <1>1 DEF rows
<1>4. \A d \in Moved : d < reader
  BY <1>1, V3MigrationAssumption DEF Moved, Documents, MigrationInv, OrderInv
<1>5. VoteRowsInv'
  <2>1. /\ Cast(csv)' = Cast(csv) /\ Cast(vote_rows)' = Cast(vote_rows)
        /\ (Doubled(vote_rows)' <=> Doubled(vote_rows))
        /\ (\E n \in Nat : OfRun(n))' <=> \E n \in Nat : OfRun(n)
    BY <1>1 DEF Cast, Doubled, OfRun
  <2> QED
    BY <1>1, <1>2, <1>4, <2>1, SameData DEF VoteRowsInv, MigrationInv
<1>6. QueuedInv'
  BY <1>2, <1>3, QueuedFrame
<1>7. SuggestionsInv'
  BY <1>2, <1>3, SuggestionsFrame
<1>8. LinksInv'
  BY <1>2, <1>3, LinksFrame
<1> QED
  BY <1>2, <1>5, <1>6, <1>7, <1>8 DEF MigrationInv

(* A step that ends with an error leaves everything as it was.             *)
LEMMA FailsStep ==
  ASSUME MigrationInv, InsertNothing \/ VotesOfNoRow \/ StopScript
  PROVE  MigrationInv'
<1>1. /\ script' = NoScript /\ reader' = 1 /\ stops' \in {stops, stops + 1}
      /\ UNCHANGED <<data, rows, files, finished>>
  BY DEF InsertNothing, VotesOfNoRow, StopScript, Fails
<1>2. stops \in Nat
  BY DEF MigrationInv, OrderInv
<1> QED
  BY <1>1, <1>2, IdleStep

LEMMA ImportStep ==
  ASSUME MigrationInv, Import
  PROVE  MigrationInv'
<1> DEFINE copied == {<<l[1], l[2], stops>> : l \in csv}
<1>1. script = 7
  BY ScriptNumbers DEF Import, Runs, MigrationInv, OrderInv
<1>2. CASE Fails
  BY <1>2, IdleStep DEF Fails, MigrationInv, OrderInv
<1>3. ASSUME unique => ~Doubled(vote_rows \cup copied), vote_rows' = vote_rows \cup copied,
             Through, UNCHANGED <<rows, csv, unique>>
      PROVE  MigrationInv'
  <2>1. OrderInv' /\ finished' = 7 /\ finished = 6 /\ script' \notin Nat /\ UNCHANGED <<data, exported>>
    BY <1>1, <1>3, Ended
  <2>2. UNCHANGED <<suggestion_rows, queued_rows, links>>
    BY <1>3 DEF rows
  <2>3. Cast(copied) = Cast(csv)
    BY CastCopied
  <2> HIDE DEF copied
  <2>4. /\ Cast(csv)' = Cast(csv) /\ Cast(vote_rows)' = Cast(vote_rows) \cup Cast(csv)
        /\ (\E n \in Nat : OfRun(n))' <=> \E n \in Nat : OfRun(n)
    <3>1. Cast(vote_rows \cup copied) = Cast(vote_rows) \cup Cast(copied)
      BY DEF Cast
    <3>2. Cast(csv)' = Cast(csv)
      BY <1>3 DEF Cast
    <3>3. Cast(vote_rows)' = Cast(vote_rows \cup copied)
      BY <1>3 DEF Cast
    <3>4. \A n : OfRun(n)' <=> OfRun(n)
      BY <1>3 DEF OfRun
    <3> QED
      BY <2>3, <3>1, <3>2, <3>3, <3>4
  <2>5. unique' \in BOOLEAN /\ (unique' => ~Doubled(vote_rows)')
    <3>1. unique' => ~Doubled(vote_rows)'
      BY <1>3 DEF Doubled
    <3>2. unique' \in BOOLEAN
      BY <1>3 DEF MigrationInv, VoteRowsInv
    <3> QED
      BY <3>1, <3>2
  <2>6. VoteRowsInv'
    BY <2>1, <2>4, <2>5, SameData DEF VoteRowsInv, MigrationInv
  <2>7. QueuedInv'
    BY <2>1, <2>2, QueuedFrame
  <2>8. SuggestionsInv'
    BY <2>1, <2>2, SuggestionsFrame
  <2>9. LinksInv'
    BY <2>1, <2>2, LinksFrame
  <2> QED
    BY <2>1, <2>6, <2>7, <2>8, <2>9 DEF MigrationInv
<1> QED
  BY <1>2, <1>3 DEF Import

LEMMA AddConstraintStep ==
  ASSUME MigrationInv, AddConstraint
  PROVE  MigrationInv'
<1>1. script = 8
  BY ScriptNumbers DEF AddConstraint, Runs, MigrationInv, OrderInv
<1>2. CASE Fails
  BY <1>2, IdleStep DEF Fails, MigrationInv, OrderInv
<1>3. ASSUME ~Doubled(vote_rows), unique' = TRUE, Through, UNCHANGED <<rows, csv, vote_rows>>
      PROVE  MigrationInv'
  <2>1. OrderInv' /\ finished' = 8 /\ finished = 7 /\ script' \notin Nat /\ UNCHANGED <<data, exported>>
    BY <1>1, <1>3, Ended
  <2>2. UNCHANGED <<suggestion_rows, queued_rows, links>>
    BY <1>3 DEF rows
  <2>3. /\ Cast(csv)' = Cast(csv) /\ Cast(vote_rows)' = Cast(vote_rows)
        /\ (Doubled(vote_rows)' <=> Doubled(vote_rows))
        /\ (\E n \in Nat : OfRun(n))' <=> \E n \in Nat : OfRun(n)
    BY <1>3 DEF Cast, Doubled, OfRun
  <2>4. VoteRowsInv'
    BY <1>3, <2>1, <2>3, SameData DEF VoteRowsInv, MigrationInv
  <2>5. QueuedInv'
    BY <2>1, <2>2, QueuedFrame
  <2>6. SuggestionsInv'
    BY <2>1, <2>2, SuggestionsFrame
  <2>7. LinksInv'
    BY <2>1, <2>2, LinksFrame
  <2> QED
    BY <2>1, <2>4, <2>5, <2>6, <2>7 DEF MigrationInv
<1> QED
  BY <1>2, <1>3 DEF AddConstraint

(* The step of the invariant, from the lemmas above. *)
LEMMA MigrationStep == MigrationInv /\ [MigrationNext]_migrationVars => MigrationInv'
<1> SUFFICES ASSUME MigrationInv, [MigrationNext]_migrationVars
             PROVE  MigrationInv'
  OBVIOUS
<1>1. reader \in Nat /\ stops \in Nat
  BY DEF MigrationInv, OrderInv
<1>2. ASSUME NEW batch \in SUBSET (AllDocuments \ config_ids), EnsureConfigs(batch)
      PROVE  MigrationInv'
  BY <1>1, <1>2, IdleStep DEF EnsureConfigs, cursors
<1>3. CASE UNCHANGED migrationVars
  BY <1>1, <1>3, IdleStep DEF migrationVars, cursors
<1> QED
  BY <1>2, <1>3, StartScriptStep, FailsStep, EndConfigsStep, ReadQueuedStep, EndQueuedStep,
     SkipDocumentStep, ReadDocumentStep, EndDocumentsStep, ExportStep, RelateStep,
     EndRelatedStep, WriteVotesStep, EndVotesStep, ImportStep, AddConstraintStep
     DEF MigrationNext

(* And the property from the invariant. *)
LEMMA WholeAndNotDoubled ==
  ASSUME MigrationInv
  PROVE  MigratedOnce
<1> DEFINE VotesAre(lines, d, u) ==
      {v.vote_type : v \in {x \in Cast(lines) : x.row.doc = d /\ x.user = u}}
        = IF u \in document[d].up_voted_by THEN {"UpVote"}
          ELSE IF u \in document[d].down_voted_by THEN {"DownVote"} ELSE {}
<1>1. finished \in Nat
  BY DEF MigrationInv, OrderInv
<1>2. ASSUME finished >= 2, NEW d \in MovedQueued
      PROVE  Cardinality({r \in queued_rows : r.doc = d}) = 1
  <2>1. QueuedRowOf(d) \in queued_rows /\ QueuedRowOf(d).doc = d
    BY <1>2 DEF MigrationInv, QueuedInv, QueuedRowOf
  <2>2. \A r \in queued_rows : r.doc = d => r = QueuedRowOf(d)
    BY DEF MigrationInv, QueuedInv, IsQueuedRow, MovedQueued
  <2>3. {r \in queued_rows : r.doc = d} = {QueuedRowOf(d)}
    BY <2>1, <2>2
  <2> QED
    BY <2>3, FS_Singleton
<1>3. ASSUME finished >= 3, NEW d \in Moved
      PROVE  Cardinality({r \in suggestion_rows : r.doc = d}) = 1
  <2>1. RowOf(d) \in suggestion_rows /\ RowOf(d).doc = d
    BY <1>3 DEF MigrationInv, SuggestionsInv, RowOf
  <2>2. \A r \in suggestion_rows : r.doc = d => r = RowOf(d)
    BY DEF MigrationInv, SuggestionsInv, IsRow, Moved
  <2>3. {r \in suggestion_rows : r.doc = d} = {RowOf(d)}
    BY <2>1, <2>2
  <2> QED
    BY <2>3, FS_Singleton
<1>4. ASSUME finished >= 5, NEW q \in queued_rows
      PROVE  {l[2].doc : l \in {k \in links : k[1] = q}} = {Target(q)} \cap Moved
  <2>1. PICK e : e = Target(q)
    OBVIOUS
  <2>2. ASSUME NEW l \in links, l[1] = q
        PROVE  l[2].doc = e /\ e \in Moved
    <3>1. Target(l[1]) \in Moved /\ l = <<l[1], RowOf(Target(l[1]))>>
      BY DEF MigrationInv, LinksInv
    <3>2. l[2] = RowOf(e)
      BY <2>1, <2>2, <3>1
    <3> QED
      BY <2>1, <2>2, <3>1, <3>2 DEF RowOf
  <2>3. ASSUME e \in Moved
        PROVE  \E l \in links : l[1] = q /\ l[2].doc = e
    <3>1. <<q, RowOf(e)>> \in links
      BY <1>4, <2>1, <2>3 DEF MigrationInv, LinksInv, Linked
    <3>2. RowOf(e).doc = e
      BY DEF RowOf
    <3> QED
      BY <3>1, <3>2
  <2> QED
    BY <2>1, <2>2, <2>3
<1>5. ASSUME NEW lines, Cast(lines) \subseteq Votes, NEW d \in Moved, NEW u \in OldVoters,
             Lines(d) \subseteq Cast(lines)
      PROVE  VotesAre(lines, d, u)
  <2>1. ASSUME NEW e, NEW v \in Lines(e)
        PROVE  /\ v.row.doc = e
               /\ \/ v.user \in document[e].up_voted_by /\ v.vote_type = "UpVote"
                  \/ /\ v.user \in document[e].down_voted_by \ document[e].up_voted_by
                     /\ v.vote_type = "DownVote"
    BY <2>1 DEF Lines, Line, RowOf
  <2>2. \A x \in Cast(lines) : x.row.doc = d => x \in Lines(d)
    <3> TAKE x \in Cast(lines)
    <3>1. PICK e \in Moved : x \in Lines(e)
      BY <1>5 DEF Votes
    <3> QED
      BY <2>1, <3>1
  <2>3. Lines(d) \subseteq Cast(lines)
    BY <1>5
  <2>4. \A type : /\ Line(d, u, type).row.doc = d /\ Line(d, u, type).user = u
                  /\ Line(d, u, type).vote_type = type
    BY DEF Line, RowOf
  <2>5. CASE u \in document[d].up_voted_by
    <3>1. Line(d, u, "UpVote") \in Cast(lines)
      BY <2>3, <2>5 DEF Lines
    <3> QED
      BY <2>1, <2>2, <2>4, <2>5, <3>1
  <2>6. CASE u \in document[d].down_voted_by \ document[d].up_voted_by
    <3>1. Line(d, u, "DownVote") \in Cast(lines)
      BY <2>3, <2>6 DEF Lines
    <3> QED
      BY <2>1, <2>2, <2>4, <2>6, <3>1
  <2>7. CASE u \notin document[d].up_voted_by \cup document[d].down_voted_by
    BY <2>1, <2>2, <2>7
  <2> QED
    BY <2>5, <2>6, <2>7
<1>6. ASSUME NEW l \in csv, NEW m \in csv, l[1].row = m[1].row, l[1].user = m[1].user
      PROVE  l = m
  <2>1. PICK n \in Nat : OfRun(n)
    BY DEF MigrationInv, VoteRowsInv
  <2>2. l = <<l[1], n>> /\ m = <<m[1], n>>
    BY <2>1 DEF OfRun
  <2>3. PICK v, w : v = l[1] /\ w = m[1]
    OBVIOUS
  <2>4. v \in Votes /\ w \in Votes
    BY <2>3 DEF Cast, MigrationInv, VoteRowsInv
  <2>5. PICK d \in Moved, e \in Moved : v \in Lines(d) /\ w \in Lines(e)
    BY <2>4 DEF Votes
  <2>6. ASSUME NEW f, NEW x \in Lines(f)
        PROVE  /\ x.row.doc = f
               /\ \/ x.user \in document[f].up_voted_by /\ x = Line(f, x.user, "UpVote")
                  \/ /\ x.user \in document[f].down_voted_by \ document[f].up_voted_by
                     /\ x = Line(f, x.user, "DownVote")
    BY <2>6 DEF Lines, Line, RowOf
  <2>7. d = e /\ v.user = w.user
    BY <1>6, <2>3, <2>5, <2>6
  <2>8. v = w
    BY <2>5, <2>6, <2>7
  <2> QED
    BY <2>2, <2>3, <2>8
<1>7. ~Doubled(csv)
  BY <1>6 DEF Doubled
<1>8. /\ Cast(csv) \subseteq Votes /\ Cast(vote_rows) \subseteq Votes
      /\ finished >= 6 => \A d \in Moved : Lines(d) \subseteq Cast(csv)
      /\ finished >= 7 => \A d \in Moved : Lines(d) \subseteq Cast(vote_rows)
      /\ finished = 8 => ~Doubled(vote_rows)
  BY DEF MigrationInv, VoteRowsInv
<1>9. /\ finished >= 6 => \A d \in Moved, u \in OldVoters : VotesAre(csv, d, u)
      /\ finished >= 7 => \A d \in Moved, u \in OldVoters : VotesAre(vote_rows, d, u)
  <2>1. \A d \in Moved : finished >= 6 => Lines(d) \subseteq Cast(csv)
    BY <1>8
  <2>2. \A d \in Moved : finished >= 7 => Lines(d) \subseteq Cast(vote_rows)
    BY <1>8
  <2>3. \A lines : Cast(lines) \subseteq Votes =>
          \A d \in Moved, u \in OldVoters : Lines(d) \subseteq Cast(lines) => VotesAre(lines, d, u)
    BY <1>5
  <2> HIDE DEF VotesAre
  <2> QED
    BY <1>8, <2>1, <2>2, <2>3
<1>10. /\ finished >= 2 =>
            \A d \in MovedQueued : Cardinality({r \in queued_rows : r.doc = d}) = 1
       /\ finished >= 3 => \A d \in Moved : Cardinality({r \in suggestion_rows : r.doc = d}) = 1
       /\ finished >= 5 =>
            \A q \in queued_rows :
              {l[2].doc : l \in {k \in links : k[1] = q}} = {Target(q)} \cap Moved
  BY <1>2, <1>3, <1>4
<1> QED
  BY <1>7, <1>8, <1>9, <1>10 DEF MigratedOnce, Moved, MovedQueued, Target

(* As far as the scripts are through, every document that was to move has  *)
(* its one row, its link and its votes, however often the scripts were     *)
(* interrupted and run again; and no vote is there twice in the file, nor  *)
(* in the table once its constraint is there.                              *)
THEOREM MigrationIsWhole == MigrationSpec => []MigratedOnce
  BY MigrationInitially, MigrationStep, WholeAndNotDoubled, PTL DEF MigrationSpec

(* What the rows refer to is there: no script ever deletes a row of the    *)
(* two tables.                                                             *)
RowTypes ==
  /\ \A l \in links : l[1] \in queued_rows /\ l[2] \in suggestion_rows
  /\ exported \subseteq suggestion_rows
  /\ \A v \in Cast(csv \cup vote_rows) : v.row \in suggestion_rows /\ v.user \in OldVoters

(* An INSERT is made before there are more rows for it than a batch has.   *)
BatchTypes ==
  /\ script = 5 => to_insert \subseteq queued_rows
  /\ script # 5 => IsFiniteSet(to_insert) /\ Cardinality(to_insert) < BatchSize

MigrationTypes ==
  /\ config_ids \subseteq AllDocuments /\ stops \in 0 .. MaxStops
  /\ RowTypes /\ BatchTypes

(* No row is a small batch. *)
LEMMA EmptyBatch == IsFiniteSet({}) /\ Cardinality({}) < BatchSize
  BY V3MigrationAssumption, FS_EmptySet

(* A row more is collected. *)
LEMMA CollectBatch ==
  ASSUME NEW r, IsFiniteSet(to_insert), Cardinality(to_insert) < BatchSize,
         to_insert' = IF Cardinality(to_insert \cup {r}) = BatchSize
                      THEN {} ELSE to_insert \cup {r}
  PROVE  IsFiniteSet(to_insert') /\ Cardinality(to_insert') < BatchSize
<1> DEFINE batch == to_insert \cup {r}
<1>1. IsFiniteSet(batch) /\ Cardinality(batch) \in Nat /\ Cardinality(batch) <= BatchSize
  <2>1. /\ IsFiniteSet(batch)
        /\ Cardinality(batch) = Cardinality(to_insert) \/ Cardinality(batch) = Cardinality(to_insert) + 1
    BY FS_AddElement
  <2>2. Cardinality(to_insert) \in Nat /\ Cardinality(batch) \in Nat
    BY <2>1, FS_CardinalityType
  <2> QED
    BY <2>1, <2>2, V3MigrationAssumption
<1>2. CASE Cardinality(batch) = BatchSize
  BY <1>2, EmptyBatch
<1>3. CASE Cardinality(batch) # BatchSize
  <2>1. to_insert' = batch
    BY <1>3
  <2>2. Cardinality(batch) < BatchSize
    BY <1>1, <1>3, V3MigrationAssumption
  <2> QED
    BY <1>1, <2>1, <2>2
<1> QED
  BY <1>2, <1>3

(* A step that adds to the tables and leaves what refers to them. *)
LEMMA RowsStay ==
  ASSUME RowTypes, suggestion_rows \subseteq suggestion_rows', queued_rows \subseteq queued_rows',
         UNCHANGED <<links, exported>>,
         Cast(csv \cup vote_rows)' \subseteq Cast(csv \cup vote_rows)
  PROVE  RowTypes'
BY DEF RowTypes

(* Fewer lines, or the same votes once more, are no other votes.           *)
LEMMA SameVotes ==
  ASSUME csv' \in {csv, {}}, vote_rows' = vote_rows
  PROVE  Cast(csv \cup vote_rows)' \subseteq Cast(csv \cup vote_rows)
BY DEF Cast

LEMMA CopiedVotes ==
  ASSUME csv' = csv, vote_rows' = vote_rows \cup {<<l[1], l[2], stops>> : l \in csv}
  PROVE  Cast(csv \cup vote_rows)' \subseteq Cast(csv \cup vote_rows)
BY DEF Cast

(* The votes of a document are those of users. *)
LEMMA VotersVote ==
  ASSUME MigrationInv, NEW d \in Documents
  PROVE  document[d].up_voted_by \subseteq OldVoters /\ document[d].down_voted_by \subseteq OldVoters
BY V3MigrationAssumption DEF MigrationInv, OrderInv, Suggestion

(* The step, script by script. *)
LEMMA MigrationTypesStep ==
  ASSUME MigrationInv, MigrationTypes, [MigrationNext]_migrationVars
  PROVE  MigrationTypes'
<1>0. /\ script \in 1 .. 8 \cup {NoScript} /\ NoScript \notin 1 .. 8
      /\ RowTypes /\ BatchTypes /\ stops \in 0 .. MaxStops /\ MaxStops \in Nat
      /\ config_ids \subseteq AllDocuments
  BY V3MigrationAssumption DEF MigrationInv, OrderInv, MigrationTypes
<1>1. ASSUME NEW n \in DOMAIN Scripts, StartScript(n)
      PROVE  MigrationTypes'
  <2>1. n \in 1 .. 8 /\ (Scripts[n] = "build_related_suggestions" <=> n = 5)
    BY ScriptNumbers
  <2>2. RowTypes'
    BY <1>0, <1>1, RowsStay, SameVotes DEF StartScript, rows, imported
  <2>3. BatchTypes'
    BY <1>1, <2>1, EmptyBatch DEF StartScript, rows, BatchTypes
  <2> QED
    BY <1>0, <1>1, <2>2, <2>3 DEF StartScript, MigrationTypes
<1>2. ASSUME Through, suggestion_rows \subseteq suggestion_rows', queued_rows \subseteq queued_rows',
             UNCHANGED links, Cast(csv \cup vote_rows)' \subseteq Cast(csv \cup vote_rows)
      PROVE  MigrationTypes'
  <2>1. RowTypes'
    BY <1>0, <1>2, RowsStay DEF Through
  <2>2. BatchTypes'
    BY <1>0, <1>2, EmptyBatch DEF Through, BatchTypes
  <2> QED
    BY <1>0, <1>2, <2>1, <2>2 DEF Through, MigrationTypes
<1>3. CASE EndConfigs \/ EndQueuedDocuments \/ EndDocuments \/ EndRelated \/ EndVotes
           \/ (Import /\ Through) \/ (AddConstraint /\ Through)
  <2>1. /\ Through /\ UNCHANGED links
        /\ suggestion_rows \subseteq suggestion_rows' /\ queued_rows \subseteq queued_rows'
    BY <1>3 DEF EndConfigs, EndQueuedDocuments, EndDocuments, EndRelated, EndVotes, Import,
                AddConstraint, Fails, rows, Inserted
  <2>2. Cast(csv \cup vote_rows)' \subseteq Cast(csv \cup vote_rows)
    <3>1. CASE Import
      <4>1. CASE Fails
        BY <4>1, SameVotes DEF Fails, files, imported
      <4> QED
        BY <3>1, <4>1, CopiedVotes DEF Import
    <3>2. CASE ~Import
      BY <1>3, <3>2, SameVotes
         DEF EndConfigs, EndQueuedDocuments, EndDocuments, EndRelated, EndVotes,
             AddConstraint, Fails, files, imported
    <3> QED
      BY <3>1, <3>2
  <2> QED
    BY <1>2, <2>1, <2>2
<1>4. CASE StopScript \/ Fails
  <2>1. /\ script' = NoScript /\ to_insert' = {} /\ UNCHANGED <<config_ids, rows, files>>
        /\ stops' \in 0 .. MaxStops
    BY <1>0, <1>4 DEF StopScript, Fails
  <2>2. RowTypes'
    BY <1>0, <2>1, RowsStay, SameVotes DEF rows, files, imported
  <2> QED
    BY <1>0, <2>1, <2>2, EmptyBatch DEF MigrationTypes, BatchTypes
<1>5. CASE SkipDocument \/ (\E batch \in SUBSET (AllDocuments \ config_ids) : EnsureConfigs(batch))
           \/ UNCHANGED migrationVars
  <2>1. /\ UNCHANGED <<rows, files, script, to_insert, stops>>
        /\ config_ids' \subseteq AllDocuments
    BY <1>0, <1>5 DEF SkipDocument, EnsureConfigs, cursors, migrationVars
  <2>2. RowTypes'
    BY <1>0, <2>1, RowsStay, SameVotes DEF rows, files, imported
  <2> QED
    BY <1>0, <2>1, <2>2 DEF MigrationTypes, BatchTypes, rows
<1>6. CASE ReadQueuedDocument \/ ReadDocument
  <2>1. script \in {2, 3}
    BY <1>0, <1>6, ScriptNumbers DEF ReadQueuedDocument, ReadDocument, Runs
  <2>2. IsFiniteSet(to_insert) /\ Cardinality(to_insert) < BatchSize
    BY <1>0, <2>1 DEF BatchTypes
  <2>3. /\ IsFiniteSet(to_insert') /\ Cardinality(to_insert') < BatchSize
        /\ suggestion_rows \subseteq suggestion_rows' /\ queued_rows \subseteq queued_rows'
    <3>1. PICK r :
            /\ to_insert' = IF Cardinality(to_insert \cup {r}) = BatchSize
                            THEN {} ELSE to_insert \cup {r}
            /\ suggestion_rows \subseteq suggestion_rows' /\ queued_rows \subseteq queued_rows'
      <4>1. CASE ReadQueuedDocument
        BY <4>1 DEF ReadQueuedDocument, Collect, Inserted
      <4>2. CASE ReadDocument
        BY <4>2 DEF ReadDocument, Collect, Inserted
      <4> QED
        BY <1>6, <4>1, <4>2
    <3> QED
      BY <2>2, <3>1, CollectBatch
  <2>4. UNCHANGED <<config_ids, links, files, script, stops>>
    BY <1>6 DEF ReadQueuedDocument, ReadDocument
  <2>5. RowTypes'
    BY <1>0, <2>3, <2>4, RowsStay, SameVotes DEF files, imported
  <2> QED
    BY <1>0, <2>1, <2>3, <2>4, <2>5 DEF MigrationTypes, BatchTypes
<1>7. CASE Export
  <2>1. script = 4
    BY <1>0, <1>7, ScriptNumbers DEF Export, Runs
  <2>2. RowTypes'
    BY <1>0, <1>7 DEF Export, RowTypes, rows, imported
  <2> QED
    BY <1>0, <1>7, <2>1, <2>2 DEF Export, MigrationTypes, BatchTypes, cursors
<1>8. ASSUME NEW q \in queued_rows, Relate(q)
      PROVE  MigrationTypes'
  <2>1. script = 5
    BY <1>0, <1>8, ScriptNumbers DEF Relate, Runs
  <2>2. \A e : Exported(e) \subseteq suggestion_rows
    BY <1>0 DEF RowTypes, Exported
  <2>3. PICK found \in SUBSET suggestion_rows : links' \subseteq links \cup ({q} \X found)
    BY <1>8, <2>2 DEF Relate
  <2>4. RowTypes'
    BY <1>0, <1>8, <2>3 DEF Relate, RowTypes, files, imported
  <2> QED
    BY <1>0, <1>8, <2>1, <2>4 DEF Relate, MigrationTypes, BatchTypes
<1>9. CASE WriteVotes
  <2>1. reader \in Documents
    BY <1>9 DEF WriteVotes
  <2>2. Exported(reader) \subseteq suggestion_rows
    BY <1>0 DEF RowTypes, Exported
  <2>3. \A l \in csv' : l \in csv \/ (l[1].row \in suggestion_rows /\ l[1].user \in OldVoters)
    BY <1>9, <2>1, <2>2, VotersVote DEF WriteVotes
  <2>4. RowTypes'
    BY <1>0, <1>9, <2>3 DEF WriteVotes, RowTypes, Cast, rows, imported
  <2> QED
    BY <1>0, <1>9, <2>4 DEF WriteVotes, MigrationTypes, BatchTypes, rows
<1> QED
  BY <1>1, <1>3, <1>4, <1>5, <1>6, <1>7, <1>8, <1>9
     DEF MigrationNext, InsertNothing, VotesOfNoRow, Import, AddConstraint

(* The rows, the files and the batches have their types: a link is between *)
(* rows that exist, a vote is on a row that exists, and no batch grows     *)
(* beyond its size, whatever is interrupted and run again.                 *)
THEOREM MigrationTypeCorrect == MigrationSpec => []MigrationTypeOK
<1>1. MigrationInit => MigrationTypes
  <2>1. Cast({} \cup {}) = {}
    BY DEF Cast
  <2> QED
    BY <2>1, V3MigrationAssumption, EmptyBatch
       DEF MigrationInit, MigrationTypes, RowTypes, BatchTypes
<1>2. MigrationInv /\ MigrationTypes => MigrationTypeOK
  <2> SUFFICES ASSUME MigrationInv, MigrationTypes PROVE MigrationTypeOK
    OBVIOUS
  <2>1. Len(Scripts) = 8 /\ DOMAIN Scripts = 1 .. 8
    BY ScriptNumbers
  <2>2. (\A r \in suggestion_rows : r.doc \in Documents) /\ \A r \in queued_rows : r.doc \in QueuedDocuments
    BY DEF MigrationInv, SuggestionsInv, QueuedInv, IsRow, IsQueuedRow
  <2>3. to_insert \subseteq queued_rows \/ Cardinality(to_insert) < BatchSize
    BY DEF MigrationTypes, BatchTypes
  <2>4. unique \in BOOLEAN
    BY DEF MigrationInv, VoteRowsInv
  <2> QED
    BY <2>1, <2>2, <2>3, <2>4 DEF MigrationInv, OrderInv, MigrationTypes, RowTypes, MigrationTypeOK
<1> QED
  BY <1>1, <1>2, MigrationInitially, MigrationStep, MigrationTypesStep, PTL DEF MigrationSpec
-----------------------------------------------------------------------------
(* The parts side by side.  Whatever part runs, a step is a step of that    *)
(* part and a stutter of the other two.                                     *)
LEMMA SuggestionsStepOfParts ==
  ASSUME [SuggestionsNext]_suggestionsVars
  PROVE  /\ [Next]_vars /\ [SidNext]_sidVars /\ [MigrationNext]_migrationVars
         /\ part' = part
<1> USE DEF In
<1>1. CASE In("suggestion", <<sidVars, migrationVars>>) /\ Next
  BY <1>1
<1>2. CASE In("sids", <<vars, migrationVars>>) /\ SidNext
  BY <1>2
<1>3. CASE In("migration", <<vars, sidVars>>) /\ MigrationNext
  BY <1>3
<1>4. CASE UNCHANGED suggestionsVars
  BY <1>4 DEF suggestionsVars
<1> QED
  BY <1>1, <1>2, <1>3, <1>4 DEF SuggestionsNext

(* So the parts side by side are each of the parts on its own: what is     *)
(* proved of the parts holds of what the model checker runs.               *)
THEOREM SuggestionsAreTheirParts ==
  SuggestionsSpec => Spec /\ SidSpec /\ MigrationSpec /\ [](part \in Parts)
<1>1. SuggestionsInit => Init /\ SidInit /\ MigrationInit /\ part \in Parts
  BY DEF SuggestionsInit
<1>2. [SuggestionsNext]_suggestionsVars /\ part \in Parts => (part \in Parts)'
  BY SuggestionsStepOfParts
<1>3. [SuggestionsNext]_suggestionsVars =>
        [Next]_vars /\ [SidNext]_sidVars /\ [MigrationNext]_migrationVars
  BY SuggestionsStepOfParts
<1> QED
  BY <1>1, <1>2, <1>3, PTL DEF SuggestionsSpec, Spec, SidSpec, MigrationSpec

(* The type of every variable of every part.                               *)
THEOREM SuggestionsTypeCorrect == SuggestionsSpec => []SuggestionsTypeOK
  BY SuggestionsAreTheirParts, TypeCorrect, SidTypeCorrect, MigrationTypeCorrect, PTL
     DEF SuggestionsTypeOK

(* All that the parts promise holds of the whole: what was resolved is     *)
(* pending again only where somebody saved an older copy, the edits of the *)
(* messages are debounced as the abstract debounce says, each message      *)
(* shows the row and what it shows is up to date, the offered ids are      *)
(* those of open suggestions and the import is whole.                      *)
THEOREM SuggestionsKeepTheirPromises ==
  SuggestionsSpec => /\ OnlyStaleCopiesReopen /\ Debounce!EditSpec
                     /\ []Debounce!NoLostEdit /\ []VotesAreKeyed
                     /\ []MessagesMatchRow /\ []DisplayMatchesRow
                     /\ []OffersAreOpen /\ []MigratedOnce
  BY SuggestionsAreTheirParts, ReopenedByStaleCopies, ImplementsDebounce, ChangesAreNotLost,
     VotesStayKeyed, MessagesAreTheRows, DisplaysAreTheRows, OffersAreTheOpen,
     MigrationIsWhole, PTL
=============================================================================
