--------------------------- MODULE WeeklyAggregate ---------------------------
(***************************************************************************)
(* Command usage, week by week (compute_aggregate_command_invokes).        *)
(*                                                                         *)
(* Every use of a command is a row in command_invokes.  A job of the       *)
(* worker makes one row in aggregate_command_invokes of each week that is  *)
(* over, going on after the last week that has one.  Several workers start *)
(* the job; a key in Redis is to keep it from running twice, but asking    *)
(* for the key and setting it are two commands.                            *)
(*                                                                         *)
(* Weeks are numbered from the first use of a command, which is when they  *)
(* start; where in its week a use falls is left out.                       *)
(***************************************************************************)
EXTENDS Integers, Sequences, FiniteSets

CONSTANTS
  Jobs,       (* runs of the job that may be under way at once             *)
  Runners,    (* users of the bot                                          *)
  Uses,       (* the uses of a command that an instance looks at           *)
  LastWeek    (* bound: time stops there                                   *)

Weeks == 0 .. LastWeek
NoWeek == -1

(* A vote or another command, in a guild whose locale is known or not. *)
Invoke == [user : Runners, vote : BOOLEAN, guild_locale : BOOLEAN]

ASSUME WeeklyAggregateAssumption ==
  LastWeek \in Nat /\ Uses \subseteq Invoke /\ IsFiniteSet(Uses)

VARIABLES
  week,        (* now                                                      *)
  invokes,     (* command_invokes: the uses in each week                   *)
  aggregates,  (* aggregate_command_invokes, in the order of the saves     *)
  running,     (* the key in Redis                                         *)
  job_stage,   (* how far each run has come                                *)
  max_week,    (* the week of the last use when the run began              *)
  current_week,(* the week it computes next                                *)
  computed,    (* the rows it has computed and not yet saved               *)
  job_raced    (* history: a run passed the key of another                 *)

jobVars == <<job_stage, max_week, current_week, computed>>
aggregateVars == <<week, invokes, aggregates, running, jobVars, job_raced>>
-----------------------------------------------------------------------------
(* compute_base_data_for_week and calculate_weekly_aggregate, for the uses *)
(* in a week.  Only uses in a guild whose locale is known count as users   *)
(* seen.                                                                   *)
UsersOf(uses) == {i.user : i \in uses}
Aggregate(w, uses) ==
  LET voting == UsersOf({i \in uses : i.vote})
      others == UsersOf({i \in uses : ~i.vote})
  IN  [data_for_week_starting |-> w,
       uses |-> Cardinality(uses),
       total_users_seen |-> Cardinality(UsersOf({i \in uses : i.guild_locale})),
       total_voters_seen |-> Cardinality(voting),
       total_users_who_only_voted |-> Cardinality(voting \ others)]

AggregateRow == [data_for_week_starting : Weeks, uses : Nat, total_users_seen : Nat,
                 total_voters_seen : Nat, total_users_who_only_voted : Nat]

AggregateTypeOK ==
  /\ week \in Weeks
  /\ invokes \in [Weeks -> SUBSET Uses]
  /\ aggregates \in Seq(AggregateRow)
  /\ running \in BOOLEAN /\ job_raced \in BOOLEAN
  /\ job_stage \in [Jobs -> {"idle", "done", "key", "set", "compute", "save"}]
  /\ max_week \in [Jobs -> Weeks \cup {NoWeek}]
  /\ current_week \in [Jobs -> Nat \cup {NoWeek}]
  /\ computed \in [Jobs -> Seq(AggregateRow)]

AggregateInit ==
  /\ week = 0
  /\ invokes = [w \in Weeks |-> {}]
  /\ aggregates = <<>>
  /\ running = FALSE /\ job_raced = FALSE
  /\ job_stage = [j \in Jobs |-> "idle"]
  /\ max_week = [j \in Jobs |-> NoWeek]
  /\ current_week = [j \in Jobs |-> NoWeek]
  /\ computed = [j \in Jobs |-> <<>>]

Last(S) == CHOOSE w \in S : \A v \in S : v <= w
Used == {w \in Weeks : invokes[w] # {}}
DoneWeeks == {aggregates[i].data_for_week_starting : i \in DOMAIN aggregates}

Active(j) == job_stage[j] \notin {"idle", "done"}
JobStep(j, s) == job_stage' = [job_stage EXCEPT ![j] = s]
JobEnd(j) ==
  /\ JobStep(j, "idle")
  /\ max_week' = [max_week EXCEPT ![j] = NoWeek]
  /\ current_week' = [current_week EXCEPT ![j] = NoWeek]
  /\ computed' = [computed EXCEPT ![j] = <<>>]
-----------------------------------------------------------------------------
(* CommandInvokes.create *)
UseCommand(i) ==
  /\ i \notin invokes[week]
  /\ invokes' = [invokes EXCEPT ![week] = @ \cup {i}]
  /\ UNCHANGED <<week, aggregates, running, jobVars, job_raced>>

(* The first week starts with the first use. *)
NextWeek ==
  /\ week < LastWeek /\ invokes[0] # {}
  /\ week' = week + 1
  /\ UNCHANGED <<invokes, aggregates, running, jobVars, job_raced>>

(* A run begins: it reads when commands were used first and last ...       *)
StartJob(j) ==
  /\ job_stage[j] = "idle" /\ Used # {}
  /\ max_week' = [max_week EXCEPT ![j] = Last(Used)]
  /\ JobStep(j, "done")
  /\ UNCHANGED <<week, invokes, aggregates, running, current_week, computed, job_raced>>

(* ... and which week was done last.  "If less then a week of data left to *)
(* compute we finish up and wait until we have an actual weeks worth",     *)
(* unless no week was done yet.                                            *)
FindWeek(j) ==
  LET current == IF DoneWeeks = {} THEN 0 ELSE Last(DoneWeeks) + 1 IN
  /\ job_stage[j] = "done"
  /\ IF DoneWeeks # {} /\ max_week[j] = current
     THEN JobEnd(j)
     ELSE /\ current_week' = [current_week EXCEPT ![j] = current]
          /\ JobStep(j, "key")
          /\ UNCHANGED <<max_week, computed>>
  /\ UNCHANGED <<week, invokes, aggregates, running, job_raced>>

(* The key: GET, ... *)
AskKey(j) ==
  /\ job_stage[j] = "key"
  /\ IF running
     THEN JobEnd(j) /\ UNCHANGED job_raced
     ELSE /\ JobStep(j, "set")
          /\ job_raced' = (job_raced \/ \E k \in Jobs : job_stage[k] = "set")
          /\ UNCHANGED <<max_week, current_week, computed>>
  /\ UNCHANGED <<week, invokes, aggregates, running>>

(* ... and SET, for six hours.  Nobody deletes it. *)
SetKey(j) ==
  /\ job_stage[j] = "set"
  /\ running' = TRUE
  /\ JobStep(j, "compute")
  /\ UNCHANGED <<week, invokes, aggregates, max_week, current_week, computed, job_raced>>

(* It expires.  A job is stopped after an hour: a run that outlives a key  *)
(* it found or set counts as one that passed it.                           *)
ExpireKey ==
  /\ running
  /\ running' = FALSE
  /\ job_raced' = (job_raced \/ \E j \in Jobs : Active(j))
  /\ UNCHANGED <<week, invokes, aggregates, jobVars>>

(* MUTANT of ComputeWeek: the week of the last use is not left out. *)
ComputeLastWeek(j) ==
  LET w == current_week[j] IN
  /\ job_stage[j] = "compute" /\ w <= max_week[j]
  /\ computed' = [computed EXCEPT ![j] = Append(@, Aggregate(w, invokes[w]))]
  /\ current_week' = [current_week EXCEPT ![j] = w + 1]
  /\ JobStep(j, IF w + 1 > max_week[j] THEN "save" ELSE "compute")
  /\ UNCHANGED <<week, invokes, aggregates, running, max_week, job_raced>>

(* The loop over the weeks up to the last use, the week of which is        *)
(* computed only if it is the first.                                       *)
ComputeWeek(j) ==
  LET w == current_week[j] IN
  /\ job_stage[j] = "compute" /\ w <= max_week[j]
  /\ computed' = [computed EXCEPT ![j] = Append(@, Aggregate(w, invokes[w]))]
  /\ current_week' = [current_week EXCEPT ![j] = w + 1]
  /\ JobStep(j, IF w + 1 >= max_week[j] THEN "save" ELSE "compute")
  /\ UNCHANGED <<week, invokes, aggregates, running, max_week, job_raced>>

(* No use after the last week that has a row: there is nothing to compute. *)
ComputeNothing(j) ==
  /\ job_stage[j] = "compute" /\ max_week[j] < current_week[j]
  /\ JobEnd(j)
  /\ UNCHANGED <<week, invokes, aggregates, running, job_raced>>

(* Rows are saved one by one, the first week first. *)
SaveAggregate(j) ==
  /\ job_stage[j] = "save"
  /\ aggregates' = Append(aggregates, Head(computed[j]))
  /\ IF Len(computed[j]) = 1
     THEN JobEnd(j)
     ELSE /\ computed' = [computed EXCEPT ![j] = Tail(@)]
          /\ UNCHANGED <<job_stage, max_week, current_week>>
  /\ UNCHANGED <<week, invokes, running, job_raced>>

(* The worker dies, or the job runs into its timeout. *)
StopJob(j) ==
  /\ Active(j) \/ job_stage[j] = "done"
  /\ JobEnd(j)
  /\ UNCHANGED <<week, invokes, aggregates, running, job_raced>>

AggregateNext ==
  \/ NextWeek \/ ExpireKey
  \/ \E i \in Uses : UseCommand(i)
  \/ \E j \in Jobs :
       \/ StartJob(j) \/ FindWeek(j) \/ AskKey(j) \/ SetKey(j)
       \/ ComputeWeek(j) \/ ComputeNothing(j) \/ SaveAggregate(j) \/ StopJob(j)

AggregateSpec == AggregateInit /\ [][AggregateNext]_aggregateVars
-----------------------------------------------------------------------------
(* Unless a run passed the key of another, every week has one row at most, *)
(* no week is left out before one that has a row, and a row tells of every *)
(* use in its week: runs that stop between two saves, and runs that start  *)
(* at any time, neither repeat nor skip a week.  The first week is the     *)
(* exception the code makes: it may be computed before it is over.         *)
WeeksAreWhole ==
  ~job_raced =>
    /\ \A i \in DOMAIN aggregates : aggregates[i].data_for_week_starting = i - 1
    /\ \A i \in DOMAIN aggregates \ {1} : aggregates[i] = Aggregate(i - 1, invokes[i - 1])
=============================================================================
